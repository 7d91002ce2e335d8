SPECIFICATION Spec
CONSTANTS
  n1 = n1
  n2 = n2
  in1 = in1
  lit = lit
  Nodes = {n1, n2}
  Inputs = {in1}
  Literals = {lit}
  Source <- FromLiteral
  LiteralOf <- OneLiteral
  HasOutput = {n1}
  MayAssign <- AssignArg
  MayReturn <- ReturnLiteral
  Boxes = {1, 2, 3, 4, 5}
  LiteralBox <- FirstBox
  NoBox = 0
  Contents = {"undefined", "defined"}
  Undef = "undefined"
PROPERTIES
  LiteralsConstant
CHECK_DEADLOCK FALSE
