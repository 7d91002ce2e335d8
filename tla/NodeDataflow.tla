---------------------------- MODULE NodeDataflow ----------------------------
(***************************************************************************)
(* What a running graph promises, without threads, locks or flags: every   *)
(* node is a process of its own that again and again reads its arguments   *)
(* one by one, and then either publishes what its body computes from       *)
(* exactly these arguments, to the other nodes first and to the host next, *)
(* or gives the execution up and changes nothing.                          *)
(***************************************************************************)
EXTENDS Integers, Sequences

CONSTANTS
  Cells,        (* worker nodes                                              *)
  Inputs,       (* input nodes                                               *)
  Args,         (* the argument sources of every node, in order              *)
  Body(_, _),   (* what a node computes from its arguments                   *)
  HasOutput,    (* the nodes with an output name                             *)
  UndefEnabled, (* whether undefined arguments are passed on                 *)
  Values,
  Undef

VARIABLES
  stage,  (* "idle", "reading", or with a value published, "output"          *)
  seen,   (* the arguments a node has read in this execution                 *)
  val,    (* published values                                                *)
  out,    (* outputs                                                         *)
  inp     (* inputs                                                          *)

vars == <<stage, seen, val, out, inp>>

SourceValue(s) == IF s \in Inputs THEN inp[s] ELSE val[s]

Init ==
  /\ stage = [c \in Cells |-> "idle"]
  /\ seen = [c \in Cells |-> <<>>]
  /\ val = [c \in Cells |-> Undef]
  /\ out = [c \in Cells |-> Undef]
  /\ inp = [i \in Inputs |-> Undef]

Feed(i) ==
  /\ \E v \in Values : inp' = [inp EXCEPT ![i] = v]
  /\ UNCHANGED <<stage, seen, val, out>>

Begin(c) ==
  /\ stage[c] = "idle"
  /\ stage' = [stage EXCEPT ![c] = "reading"]
  /\ UNCHANGED <<seen, val, out, inp>>

Read(c) ==
  /\ stage[c] = "reading"
  /\ Len(seen[c]) < Len(Args[c])
  /\ LET v == SourceValue(Args[c][Len(seen[c]) + 1])
     IN  /\ UndefEnabled \/ v # Undef
         /\ seen' = [seen EXCEPT ![c] = Append(@, v)]
  /\ UNCHANGED <<stage, val, out, inp>>

GiveUp(c) ==
  /\ stage[c] = "reading"
  /\ stage' = [stage EXCEPT ![c] = "idle"]
  /\ seen' = [seen EXCEPT ![c] = <<>>]
  /\ UNCHANGED <<val, out, inp>>

Publish(c) ==
  /\ stage[c] = "reading"
  /\ Len(seen[c]) = Len(Args[c])
  /\ val' = [val EXCEPT ![c] = Body(c, seen[c])]
  /\ IF c \in HasOutput
     THEN stage' = [stage EXCEPT ![c] = "output"] /\ UNCHANGED seen
     ELSE /\ stage' = [stage EXCEPT ![c] = "idle"]
          /\ seen' = [seen EXCEPT ![c] = <<>>]
  /\ UNCHANGED <<out, inp>>

Output(c) ==
  /\ stage[c] = "output"
  /\ out' = [out EXCEPT ![c] = val[c]]
  /\ stage' = [stage EXCEPT ![c] = "idle"]
  /\ seen' = [seen EXCEPT ![c] = <<>>]
  /\ UNCHANGED <<val, inp>>

Next ==
  \/ \E i \in Inputs : Feed(i)
  \/ \E c \in Cells : Begin(c) \/ Read(c) \/ GiveUp(c) \/ Publish(c) \/ Output(c)

Spec == Init /\ [][Next]_vars
=============================================================================
