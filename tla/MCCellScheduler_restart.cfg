SPECIFICATION FairSpec
CONSTANTS
  Threads = {t1, t2}
  NoThread = NoThread
  NCells = 2
  in1 = in1
  Inputs = {in1}
  Args <- ChainArgs
  Body <- Newest
  HasOutput = {0, 1}
  Traits <- AllSorts
  Sequential = TRUE
  UndefEnabled = TRUE
  MaxInput = 1
  MaxRuns = 2
INVARIANTS
  TypeOK
  CellExclusive
  OutputMatchesValue
PROPERTIES
  StoppedIsQuiet
  StopReturns
  FailureStopsAll
CHECK_DEADLOCK FALSE
