--------------------------- MODULE MCExternStops ---------------------------
EXTENDS ExternStops

(* The host stops, terminates and runs again with little on the network;    *)
(* with more on the network both processes crash; and a runtime without     *)
(* external cells of its own.                                               *)
MCCases == {
  [events |-> {"stop", "terminate"}, flight |-> 1, keeps |-> TRUE],
  [events |-> {"crash", "leave"},    flight |-> 2, keeps |-> TRUE],
  [events |-> {"stop"},              flight |-> 1, keeps |-> FALSE]}
=============================================================================
