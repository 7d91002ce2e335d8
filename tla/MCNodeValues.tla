---------------------------- MODULE MCNodeValues ----------------------------
EXTENDS NodeValues, TLC

CONSTANTS n1, n2, in1, lit

(* n2 reads n1, which reads the input or a literal.                         *)
Chain       == (n1 :> in1) @@ (n2 :> n1)
FromLiteral == (n1 :> lit) @@ (n2 :> n1)

OneLiteral == [n \in Nodes |-> lit]
FirstBox   == [l \in Literals |-> 1]

(* Bodies that assign no argument and return no instance variable.          *)
AssignOwn == (n1 :> {"local", "field"}) @@ (n2 :> {"local"})
ReturnOwn == (n1 :> {"local", "new", "literal"}) @@ (n2 :> {"local", "arg"})

(* Bodies that use one feature.                                             *)
AssignField   == [n \in Nodes |-> {"field"}]
ReturnField   == [n \in Nodes |-> {"field"}]
AssignArg     == [n \in Nodes |-> {"arg"}]
ReturnLiteral == [n \in Nodes |-> {"literal"}]
=============================================================================
