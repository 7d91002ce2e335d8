SPECIFICATION FairSpec
CONSTANTS
  a = a
  b = b
  c = c
  Threads = {a, b, c}
  LockWriters = {a, b}
  LockReaders = {b, c}
  TryWriters = {c}
  TryReaders = {b}
  Upgraders = {c}
  Policies = {"plain", "writers", "readers"}
INVARIANTS
  TypeOK
  LockCounts
PROPERTIES
  OvertakenOnce
  WritersGetIn
  SomeoneGetsIn
  ImplementsLock
CHECK_DEADLOCK FALSE
