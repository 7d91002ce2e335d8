SPECIFICATION Spec
CONSTANTS
  Threads = {t1, t2}
  NoThread = NoThread
  NCells = 2
  in1 = in1
  Inputs = {in1}
  Args <- ChainArgs
  Body <- Newest
  HasOutput = {0, 1}
  Traits <- Plain
  Sequential = FALSE
  UndefEnabled = TRUE
  MaxInput = 2
  MaxRuns = 2
INVARIANTS
  PublishesOwnResult
CHECK_DEADLOCK FALSE
