--------------------------- MODULE StructuredExec ---------------------------
(***************************************************************************)
(* What running a node's body means: nested constructs, each with variables *)
(* of its own, and jumps that go straight to their targets.  A break ends   *)
(* the innermost loop of the running function, a return ends that function  *)
(* and is the value of its call, an exception goes to the innermost try     *)
(* whose body is running, whatever function it is in.  A name is looked up  *)
(* in the constructs of the running function only.                          *)
(*                                                                         *)
(* One variable name stands for all.  A value is where it comes from: the   *)
(* label of the variable it was read from, or Undef for anything else.      *)
(***************************************************************************)
EXTENDS Integers, Sequences

CONSTANTS
  Boxes,    (* labels of variables                                           *)
  Undef,    (* any value that was not read from a variable                   *)
  Unbound,  (* no variable of that name                                      *)
  MaxDepth  (* bound: constructs inside one another                          *)

Values == Boxes \cup {Undef}

Loops       == {"while", "dowhile", "for"}
Activations == {"node", "func"}
Constructs  == {"block", "if", "try"} \cup Loops

VARIABLES
  scopes,   (* the constructs that are running, the innermost last           *)
  pos,      (* where execution is in the innermost one                       *)
  at,       (* which expression of it is being evaluated, when pos = "use"   *)
  acc,      (* the value in hand                                             *)
  outcome   (* how the latest execution of the body ended                    *)

vars == <<scopes, pos, at, acc, outcome>>

ExprPositions == {"init", "cond", "incr", "stmt"}
Outcomes      == Values \cup {"none", "failed"}

Scope(k, a, b) == [kind |-> k, at |-> a, x |-> b]

Top(s)    == s[Len(s)]
Pop(s)    == SubSeq(s, 1, Len(s) - 1)
Below(s, i) == SubSeq(s, 1, i)

(* i is the innermost of a set of constructs, and none of "but" is inside.  *)
Innermost(s, i, kinds, but) ==
  /\ i \in DOMAIN s
  /\ s[i].kind \in kinds
  /\ \A j \in i + 1 .. Len(s) : s[j].kind \notin kinds \cup but

LoopTarget(s, i) == Innermost(s, i, Loops, Activations)
CallTarget(s, i) == Innermost(s, i, Activations, {})
TryTarget(s, i)  == Innermost(s, i, {"try"}, {})

(* The constructs of the running function, and the one that has the name.   *)
InActivation(s, i) == \A j \in i + 1 .. Len(s) : s[j].kind \notin Activations
Owner(s, i) ==
  /\ InActivation(s, i)
  /\ s[i].x # Unbound
  /\ \A j \in i + 1 .. Len(s) : s[j].x = Unbound
Known(s) == \E i \in DOMAIN s : Owner(s, i)

(* Where a construct begins and where a loop goes after its body.           *)
FirstOf(k) == IF k = "for" THEN "init" ELSE IF k \in {"if", "while"} THEN "cond" ELSE "stmt"
AgainOf(k) == IF k = "for" THEN "incr" ELSE "cond"

Init ==
  /\ scopes = <<>> /\ pos = "idle" /\ at = "stmt" /\ acc = Undef
  /\ outcome = "none"

Start(b) ==
  /\ pos = "idle"
  /\ scopes' = <<Scope("node", "stmt", b)>>
  /\ pos' = "stmt" /\ outcome' = "none"
  /\ UNCHANGED <<at, acc>>

Enter(k) ==
  /\ pos = "stmt"
  /\ Len(scopes) < MaxDepth
  /\ scopes' = Append(scopes, Scope(k, "stmt", Unbound))
  /\ pos' = FirstOf(k)
  /\ UNCHANGED <<at, acc, outcome>>

(* An expression begins with the name or with something else.               *)
Atom ==
  /\ pos \in ExprPositions
  /\ \/ acc' = Undef
     \/ \E i \in DOMAIN scopes : Owner(scopes, i) /\ acc' = scopes[i].x
  /\ pos' = "use" /\ at' = pos
  /\ UNCHANGED <<scopes, outcome>>

(* The assignment to an unknown name makes a variable in the innermost      *)
(* construct; any other assignment changes what a variable holds.           *)
Declare(b) ==
  /\ pos = "use"
  /\ ~Known(scopes)
  /\ scopes' = [scopes EXCEPT ![Len(scopes)].x = b]
  /\ UNCHANGED <<pos, at, acc, outcome>>

Call(b) ==
  /\ pos = "use"
  /\ b \in {acc, Unbound}
  /\ Len(scopes) < MaxDepth
  /\ scopes' = Append(scopes, Scope("func", at, b))
  /\ pos' = "stmt" /\ at' = "stmt" /\ acc' = Undef
  /\ UNCHANGED outcome

Drop ==
  /\ pos = "use" /\ at # "cond"
  /\ pos' = IF at = "stmt" THEN "stmt" ELSE "cond"
  /\ at' = "stmt" /\ acc' = Undef
  /\ UNCHANGED <<scopes, outcome>>

Branch(truth) ==
  /\ pos = "use" /\ at = "cond"
  /\ pos' = IF truth THEN "stmt" ELSE IF Top(scopes).kind = "if" THEN "end" ELSE "leave"
  /\ at' = "stmt" /\ acc' = Undef
  /\ UNCHANGED <<scopes, outcome>>

Return ==
  /\ pos = "use" /\ at = "stmt"
  /\ \E i \in DOMAIN scopes : CallTarget(scopes, i) /\ scopes' = Below(scopes, i)
  /\ pos' = "leave"
  /\ UNCHANGED <<at, acc, outcome>>

Break ==
  /\ pos = "stmt"
  /\ \E i \in DOMAIN scopes : LoopTarget(scopes, i) /\ scopes' = Below(scopes, i)
  /\ pos' = "leave"
  /\ UNCHANGED <<at, acc, outcome>>

Continue ==
  /\ pos = "stmt"
  /\ \E i \in DOMAIN scopes : LoopTarget(scopes, i) /\ scopes' = Below(scopes, i)
  /\ pos' = "end"
  /\ UNCHANGED <<at, acc, outcome>>

(* A throw statement throws its value; any expression may fail.             *)
Throw(v) ==
  /\ pos = "use"
  /\ v = Undef \/ (at = "stmt" /\ v = acc)
  /\ at' = "stmt"
  /\ \/ \E i \in DOMAIN scopes :
          /\ TryTarget(scopes, i)
          /\ scopes' = [Below(scopes, i) EXCEPT ![i].kind = "handler"]
          /\ pos' = "catch" /\ acc' = v
          /\ UNCHANGED outcome
     \/ /\ \A i \in DOMAIN scopes : scopes[i].kind # "try"
        /\ scopes' = <<>>
        /\ pos' = "idle" /\ acc' = Undef /\ outcome' = "failed"

(* The handler shares the variables of the body that threw; it may name the *)
(* exception, which makes a variable unless the name is known.              *)
Catch(named) ==
  /\ pos = "catch"
  /\ scopes' = IF ~named THEN scopes
               ELSE Append(scopes, Scope("catch", "stmt",
                                         IF Known(scopes) THEN Unbound ELSE acc))
  /\ pos' = "stmt" /\ acc' = Undef
  /\ UNCHANGED <<at, outcome>>

(* Another name for the exception.                                          *)
CatchOther ==
  /\ pos = "catch"
  /\ scopes' = Append(scopes, Scope("catch", "stmt", Unbound))
  /\ pos' = "stmt" /\ acc' = Undef
  /\ UNCHANGED <<at, outcome>>

EndBody ==
  /\ pos = "stmt"
  /\ pos' = "end"
  /\ UNCHANGED <<scopes, at, acc, outcome>>

Again ==
  /\ pos = "end" /\ Top(scopes).kind \in Loops
  /\ pos' = AgainOf(Top(scopes).kind)
  /\ UNCHANGED <<scopes, at, acc, outcome>>

Leave ==
  /\ \/ pos = "leave"
     \/ pos = "end" /\ Top(scopes).kind \notin Loops
  /\ scopes' = Pop(scopes)
  /\ CASE Top(scopes).kind = "func" ->
            /\ pos' = "use" /\ at' = Top(scopes).at
            /\ UNCHANGED <<acc, outcome>>
       [] Top(scopes).kind = "node" ->
            /\ pos' = "idle" /\ outcome' = IF pos = "leave" THEN acc ELSE "none"
            /\ acc' = Undef /\ UNCHANGED at
       [] OTHER -> pos' = "stmt" /\ UNCHANGED <<at, acc, outcome>>

(* The program is asked to terminate.                                       *)
Stop ==
  /\ pos # "stopped"
  /\ scopes' = <<>>
  /\ pos' = "stopped" /\ at' = "stmt" /\ acc' = Undef /\ outcome' = "none"

Next ==
  \/ \E b \in Boxes \cup {Unbound} : Start(b)
  \/ \E k \in Constructs : Enter(k)
  \/ Atom \/ Drop \/ Return \/ Break \/ Continue \/ EndBody \/ Again \/ Leave
  \/ \E b \in Boxes : Declare(b)
  \/ \E b \in Values \cup {Unbound} : Call(b)
  \/ \E v \in Values : Throw(v)
  \/ \E t \in BOOLEAN : Branch(t)
  \/ \E n \in BOOLEAN : Catch(n)
  \/ CatchOther
  \/ Stop

Spec == Init /\ [][Next]_vars
=============================================================================
