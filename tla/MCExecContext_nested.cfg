SPECIFICATION FairSpec
CONSTANTS
  a = a
  b = b
  Undef = Undef
  Unbound = Unbound
  None = None
  Boxes = {a, b}
  MaxDepth = 4
INVARIANTS
  TypeOK
  ScopeIsActivation
  JumpsAreTaken
PROPERTIES
  TerminationUnwinds
  ImplementsStructured
CHECK_DEADLOCK FALSE
