SPECIFICATION FairSpecStops
CONSTANTS
  Values = {v1}
  Undef = Undef
  NotSent = NotSent
  NotSub = NotSub
  Ports = {p1, p2}
  NoPort = NoPort
  Chains = {k1}
  Cases <- MCCases
INVARIANTS
  TypeOK
  SenderHasServer
PROPERTIES
  Reflected
  GoneAreForgotten
