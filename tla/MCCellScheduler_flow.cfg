SPECIFICATION FairSpec
CONSTANTS
  Threads = {t1, t2}
  NoThread = NoThread
  NCells = 2
  in1 = in1
  Inputs = {in1}
  Args <- WaitingArgs
  Body <- Defaulting
  HasOutput = {0, 1}
  Traits <- Plain
  Sequential = FALSE
  UndefEnabled = FALSE
  MaxInput = 2
  MaxRuns = 1
INVARIANTS
  PublishesOwnResult
PROPERTIES
  ValuesNeverRegress
  Settles
  ImplementsDataflow
CHECK_DEADLOCK FALSE
