SPECIFICATION Spec
CONSTANTS
  t1 = t1
  x = x
  y = y
  Threads = {t1}
  NoThread = NoThread
  Vals = {x, y}
  Boxes = {1, 2, 3}
  NoBox = 0
INVARIANTS
  NoCountingError
CHECK_DEADLOCK FALSE
