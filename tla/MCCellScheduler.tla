-------------------------- MODULE MCCellScheduler --------------------------
EXTENDS CellScheduler, TLC, FiniteSetsExt, Functions

CONSTANTS in1

(* A chain with a diamond's short side: node 0 reads the input, node 1      *)
(* reads the input and node 0.                                              *)
ChainArgs == (0 :> <<in1>>) @@ (1 :> <<0, in1>>)

(* Node 1 has no arguments; node 0 waits for it and for the input.          *)
WaitingArgs == (0 :> <<in1, 1>>) @@ (1 :> <<>>)

(* The newest input the arguments depend on.                                *)
Newest(c, a) == Max({0} \cup Range(a))

(* A body that returns something defined whatever it is given.              *)
Defaulting(c, a) == Max({1} \cup Range(a))

ASSUME MonotoneBody

Plain    == [c \in Cells |-> {}]
AllSorts == (0 :> {"throws", "exits", "compound"}) @@ (1 :> {"sink"})
=============================================================================
