SPECIFICATION FairSpec
CONSTANTS
  Callers = {c1}
  Workers = {w1, w2, w3}
  j1 = j1
  j2 = j2
  j3 = j3
  Jobs = {j1, j2, j3}
  First = {j1, j3}
  Follow <- Chained
  NoJob = NoJob
  NoWorker = NoWorker
  MaxWorkers = 1
  MinWorkers = 0
INVARIANTS
  TypeOK
  Accounted
  NothingLeft
PROPERTIES
  JobsServed
  DestroyReturns
  SurplusGoes
CHECK_DEADLOCK FALSE
