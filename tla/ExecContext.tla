---------------------------- MODULE ExecContext ----------------------------
(***************************************************************************)
(* The interpreter at work in a node's body: the exec functions of the     *)
(* statements over one execution_context.                                  *)
(*                                                                         *)
(* Jumps are flags: break, continue and return raise one, and every        *)
(* construct on the way out looks at them when its body comes back.        *)
(* Variables live in one array of frames; a call of a script function puts *)
(* a barrier below which names are not looked up.  Exceptions are C++'s,   *)
(* so only the scope guards run on their way.  A termination request may   *)
(* come at any time and looks to most statements like one more jump.       *)
(*                                                                         *)
(* The program is chosen as it runs: any construct, expression or jump the *)
(* parser lets stand at that place.  One variable name stands for all; a   *)
(* value is the label of the variable it was read from, or Undef.          *)
(***************************************************************************)
EXTENDS Integers, Sequences

CONSTANTS
  Boxes,    (* labels of variables                                           *)
  Undef,    (* any value that was not read from a variable                   *)
  Unbound,  (* a frame without the name                                      *)
  None,     (* no exception                                                  *)
  MaxDepth  (* bound: constructs inside one another                          *)

ASSUME ExecAssumption ==
  /\ Undef \notin Boxes /\ Unbound \notin Boxes /\ None \notin Boxes
  /\ Undef # Unbound /\ Undef # None
  /\ MaxDepth \in Nat

Values      == Boxes \cup {Undef}
Loops       == {"while", "dowhile", "for"}
Activations == {"node", "func"}
Constructs  == {"block", "if", "try"} \cup Loops
Kinds       == Constructs \cup Activations \cup {"handler", "catch"}

VARIABLES
  ctl,      (* the C++ calls of exec in progress: what each one executes     *)
  frames,   (* stack_ up to stack_ptr_: what each frame binds the name to    *)
  barriers, (* stack_barriers_, as numbers of frames                         *)
  ret,      (* return_requested_                                             *)
  brk,      (* break_requested_                                              *)
  cont,     (* continue_requested_                                           *)
  result,   (* return_result_                                                *)
  exc,      (* the C++ exception in flight                                   *)
  pc,       (* where the innermost exec is                                   *)
  at,       (* which expression it is evaluating, when pc = "use"            *)
  acc,      (* the value in hand                                             *)
  term,     (* termination_requested_                                        *)
  outcome   (* what the runtime made of the latest execution                 *)

stackVars == <<ctl, frames, barriers>>
flagVars  == <<ret, brk, cont, result>>
exprVars  == <<at, acc>>
vars      == <<stackVars, flagVars, exc, pc, exprVars, term, outcome>>

ExprPositions == {"init", "cond", "incr", "stmt"}
PCs == {"idle", "use", "after", "leave", "unwind", "catch"} \cup ExprPositions

Top  == ctl[Len(ctl)].kind
Exec(k, a) == [kind |-> k, at |-> a]
Pop(s) == SubSeq(s, 1, Len(s) - 1)

SomeJump == ret \/ brk \/ cont \/ term      (* some_jump_requested           *)

Barrier == IF barriers = <<>> THEN 0 ELSE barriers[Len(barriers)]

(* find_val_by_sym_name: the newest frame, then down to the barrier.        *)
Searched == {i \in DOMAIN frames : i = Len(frames) \/ i > Barrier}
Found(i) ==
  /\ i \in Searched
  /\ frames[i] # Unbound
  /\ \A j \in Searched : j > i => frames[j] = Unbound
Known == \E i \in Searched : frames[i] # Unbound

(* The parser lets break and continue stand inside a loop only, and a       *)
(* function is never defined inside one.                                    *)
InLoop ==
  \E i \in DOMAIN ctl :
    /\ ctl[i].kind \in Loops
    /\ \A j \in i + 1 .. Len(ctl) : ctl[j].kind \notin Activations

FirstOf(k) == IF k = "for" THEN "init" ELSE IF k \in {"if", "while"} THEN "cond" ELSE "stmt"
AgainOf(k) == IF k = "for" THEN "incr" ELSE "cond"

Init ==
  /\ ctl = <<>> /\ frames = <<>> /\ barriers = <<>>
  /\ ret = FALSE /\ brk = FALSE /\ cont = FALSE /\ result = Undef
  /\ exc = None /\ pc = "idle" /\ at = "stmt" /\ acc = Undef
  /\ term = FALSE /\ outcome = "none"

-----------------------------------------------------------------------------
(* The runtime opens a frame for the arguments and executes the body.       *)
Start(b) ==
  /\ pc = "idle" /\ ~term
  /\ ctl' = <<Exec("node", "stmt")>>
  /\ frames' = <<b>>
  /\ pc' = "stmt"
  /\ outcome' = "none"
  /\ UNCHANGED <<barriers, flagVars, exc, exprVars, term>>

(* A construct opens its frame before it evaluates anything.                *)
Enter(k) ==
  /\ pc = "stmt" /\ ~SomeJump
  /\ Len(ctl) < MaxDepth
  /\ ctl' = Append(ctl, Exec(k, "stmt"))
  /\ frames' = Append(frames, Unbound)
  /\ pc' = FirstOf(k)
  /\ UNCHANGED <<barriers, flagVars, exc, exprVars, term, outcome>>

(* The body ends, or a statement finds a jump requested and does nothing.   *)
EndBody ==
  /\ pc = "stmt"
  /\ pc' = "after"
  /\ UNCHANGED <<stackVars, flagVars, exc, exprVars, term, outcome>>

Break ==
  /\ pc = "stmt" /\ ~SomeJump /\ InLoop
  /\ brk' = TRUE
  /\ pc' = "after"
  /\ UNCHANGED <<stackVars, ret, cont, result, exc, exprVars, term, outcome>>

Continue ==
  /\ pc = "stmt" /\ ~SomeJump /\ InLoop
  /\ cont' = TRUE
  /\ pc' = "after"
  /\ UNCHANGED <<stackVars, ret, brk, result, exc, exprVars, term, outcome>>

-----------------------------------------------------------------------------
(* Expressions.  A statement looks at the flags before it evaluates one.    *)
Atom ==
  /\ pc \in ExprPositions
  /\ pc = "stmt" => ~SomeJump
  /\ pc' = "use" /\ at' = pc
  /\ \/ acc' = Undef
     \/ \E i \in DOMAIN frames : Found(i) /\ acc' = frames[i]
  /\ UNCHANGED <<stackVars, flagVars, exc, term, outcome>>

(* The left side of an assignment creates the name in the newest frame.     *)
Declare(b) ==
  /\ pc = "use" /\ ~Known
  /\ frames' = [frames EXCEPT ![Len(frames)] = b]
  /\ UNCHANGED <<ctl, barriers, flagVars, exc, pc, exprVars, term, outcome>>

(* Mutant: the barrier is set inside the function's own frame.              *)
CallBarrierLate(b) ==
  /\ pc = "use" /\ Len(ctl) < MaxDepth
  /\ b \in {acc, Unbound}
  /\ ctl' = Append(ctl, Exec("func", at))
  /\ barriers' = Append(barriers, Len(frames) + 1)
  /\ frames' = Append(frames, b)
  /\ pc' = "stmt" /\ at' = "stmt" /\ acc' = Undef
  /\ UNCHANGED <<flagVars, exc, term, outcome>>

(* func_call_expression and user_function_selector_: the barrier goes above *)
(* the caller's frames, then a frame for the arguments.  The argument is    *)
(* the value in hand, itself the result of a call perhaps, or goes under    *)
(* another name.                                                            *)
Call(b) ==
  /\ pc = "use" /\ Len(ctl) < MaxDepth
  /\ b \in {acc, Unbound}
  /\ ctl' = Append(ctl, Exec("func", at))
  /\ barriers' = Append(barriers, Len(frames))
  /\ frames' = Append(frames, b)
  /\ pc' = "stmt" /\ at' = "stmt" /\ acc' = Undef
  /\ UNCHANGED <<flagVars, exc, term, outcome>>

(* An expression statement, or a for's init or increment, is over.          *)
Drop ==
  /\ pc = "use" /\ at # "cond"
  /\ pc' = IF at = "stmt" THEN "stmt" ELSE "cond"
  /\ at' = "stmt" /\ acc' = Undef
  /\ UNCHANGED <<stackVars, flagVars, exc, term, outcome>>

Branch(truth) ==
  /\ pc = "use" /\ at = "cond"
  /\ pc' = IF truth THEN "stmt" ELSE IF Top = "if" THEN "after" ELSE "leave"
  /\ at' = "stmt" /\ acc' = Undef
  /\ UNCHANGED <<stackVars, flagVars, exc, term, outcome>>

Return ==
  /\ pc = "use" /\ at = "stmt"
  /\ result' = acc /\ ret' = TRUE
  /\ pc' = "after"
  /\ acc' = Undef
  /\ UNCHANGED <<stackVars, brk, cont, exc, at, term, outcome>>

Throw(v) ==
  /\ pc = "use"
  /\ v = Undef \/ (at = "stmt" /\ v = acc)
  /\ exc' = v
  /\ pc' = "unwind"
  /\ at' = "stmt" /\ acc' = Undef
  /\ UNCHANGED <<stackVars, flagVars, term, outcome>>

(* The throw statement does not look at the flags: it throws even when the  *)
(* termination request came just before it.                                 *)
ThrowUnchecked ==
  /\ pc = "stmt" /\ term
  /\ exc' = Undef
  /\ pc' = "unwind"
  /\ UNCHANGED <<stackVars, flagVars, exprVars, term, outcome>>

-----------------------------------------------------------------------------
(* A loop's code after its body.                                            *)

(* Mutant: a break that is not taken back goes on to the loop outside.      *)
LoopAfterKeepsBreak ==
  /\ pc = "after" /\ Top \in Loops
  /\ cont' = IF ret \/ term THEN cont ELSE FALSE
  /\ pc' = IF ret \/ term \/ brk THEN "leave" ELSE AgainOf(Top)
  /\ UNCHANGED <<stackVars, ret, brk, result, exc, exprVars, term, outcome>>

(* Mutant: the loop looks at the return request only.                       *)
LoopAfterIgnoresTerm ==
  /\ pc = "after" /\ Top \in Loops
  /\ brk' = IF ret THEN brk ELSE FALSE
  /\ cont' = IF ret THEN cont ELSE FALSE
  /\ pc' = IF ret \/ brk THEN "leave" ELSE AgainOf(Top)
  /\ UNCHANGED <<stackVars, ret, result, exc, exprVars, term, outcome>>

LoopAfter ==
  /\ pc = "after" /\ Top \in Loops
  /\ brk' = IF ret \/ term THEN brk ELSE FALSE
  /\ cont' = IF ret \/ term THEN cont ELSE FALSE
  /\ pc' = IF ret \/ term \/ brk THEN "leave" ELSE AgainOf(Top)
  /\ UNCHANGED <<stackVars, ret, result, exc, exprVars, term, outcome>>

(* exec returns from any other construct; the statement list around it goes *)
(* on unless a jump is requested.                                           *)
Back ==
  /\ \/ pc = "leave"
     \/ pc = "after" /\ Top \notin Loops
  /\ Top \notin Activations
  /\ ctl' = Pop(ctl) /\ frames' = Pop(frames)
  /\ pc' = IF SomeJump THEN "after" ELSE "stmt"
  /\ UNCHANGED <<barriers, flagVars, exc, exprVars, term, outcome>>

(* Mutant: the function's frame goes and its return request stays.          *)
FunctionBackReturning ==
  /\ pc = "after" /\ Top = "func"
  /\ acc' = IF ret THEN result ELSE Undef
  /\ ctl' = Pop(ctl) /\ frames' = Pop(frames) /\ barriers' = Pop(barriers)
  /\ pc' = "use" /\ at' = ctl[Len(ctl)].at
  /\ UNCHANGED <<flagVars, exc, term, outcome>>

(* The result is copied, then the guards drop the frame, the return request *)
(* and the barrier.                                                         *)
FunctionBack ==
  /\ pc = "after" /\ Top = "func"
  /\ acc' = IF ret THEN result ELSE Undef
  /\ ret' = FALSE
  /\ ctl' = Pop(ctl) /\ frames' = Pop(frames) /\ barriers' = Pop(barriers)
  /\ pc' = "use" /\ at' = ctl[Len(ctl)].at
  /\ UNCHANGED <<brk, cont, result, exc, term, outcome>>

(* run_mt's loop: publish what was returned unless termination is seen.     *)
NodeBack ==
  /\ pc = "after" /\ Top = "node"
  /\ ctl' = <<>> /\ frames' = Pop(frames)
  /\ pc' = "idle"
  /\ IF term
     THEN UNCHANGED <<flagVars, outcome>>
     ELSE /\ outcome' = IF ret THEN result ELSE "none"
          /\ ret' = FALSE /\ brk' = FALSE /\ cont' = FALSE
          /\ UNCHANGED result
  /\ UNCHANGED <<barriers, exc, exprVars, term>>

(* The exception leaves one exec: its guards run, and a function's guard    *)
(* drops the return request and the barrier too.                            *)
Unwind ==
  /\ pc = "unwind"
  /\ IF Top = "try"
     THEN /\ ctl' = [ctl EXCEPT ![Len(ctl)].kind = "handler"]
          /\ pc' = "catch"
          /\ UNCHANGED <<frames, barriers, ret, exc, outcome>>
     ELSE /\ ctl' = Pop(ctl) /\ frames' = Pop(frames)
          /\ IF Top = "func"
             THEN ret' = FALSE /\ barriers' = Pop(barriers)
             ELSE UNCHANGED <<ret, barriers>>
          /\ IF Top = "node"
             THEN pc' = "idle" /\ exc' = None /\ outcome' = "failed"
             ELSE UNCHANGED <<pc, exc, outcome>>
  /\ UNCHANGED <<brk, cont, result, exprVars, term>>

(* catch (): the handler runs in the try's own frame.                       *)
CatchUnnamed ==
  /\ pc = "catch"
  /\ exc' = None
  /\ pc' = "stmt"
  /\ UNCHANGED <<stackVars, flagVars, exprVars, term, outcome>>

(* Mutant: the exception is forgotten before its value is stored.           *)
CatchNamedEmptied(x) ==
  /\ pc = "catch"
  /\ exc' = None
  /\ ctl' = Append(ctl, Exec("catch", "stmt"))
  /\ frames' = Append(frames, IF x /\ ~Known THEN exc' ELSE Unbound)
  /\ pc' = "stmt"
  /\ UNCHANGED <<barriers, flagVars, exprVars, term, outcome>>

(* catch (x): a frame of its own, in which the lookup of x may create it;   *)
(* a known x is assigned instead.  FALSE is a parameter of another name.    *)
CatchNamed(x) ==
  /\ pc = "catch"
  /\ exc' = None
  /\ ctl' = Append(ctl, Exec("catch", "stmt"))
  /\ frames' = Append(frames, IF x /\ ~Known THEN exc ELSE Unbound)
  /\ pc' = "stmt"
  /\ UNCHANGED <<barriers, flagVars, exprVars, term, outcome>>

(* exit(), terminate() or stop_mt(), seen by this thread.                   *)
Terminate ==
  /\ ~term
  /\ term' = TRUE
  /\ UNCHANGED <<stackVars, flagVars, exc, pc, exprVars, outcome>>

-----------------------------------------------------------------------------
(* What ends the evaluation of an expression.                               *)
Consume == Drop \/ Return \/ \E t \in BOOLEAN : Branch(t)

Step ==
  \/ \E b \in Boxes \cup {Unbound} : Start(b)
  \/ \E k \in Constructs : Enter(k)
  \/ EndBody \/ Break \/ Continue
  \/ Atom \/ Consume
  \/ \E b \in Boxes : Declare(b)
  \/ \E b \in Values \cup {Unbound} : Call(b)
  \/ (\E v \in Values : Throw(v)) \/ ThrowUnchecked
  \/ LoopAfter \/ Back \/ FunctionBack \/ NodeBack
  \/ Unwind \/ CatchUnnamed \/ \E x \in BOOLEAN : CatchNamed(x)

Next == Step \/ Terminate

Spec == Init /\ [][Next]_vars

(* The thread runs, and an expression has finitely many calls and operators *)
(* in it.                                                                   *)
FairSpec == Spec /\ WF_vars(Step) /\ SF_vars(Consume)

-----------------------------------------------------------------------------
TypeOK ==
  /\ ctl \in Seq([kind : Kinds, at : ExprPositions])
  /\ frames \in Seq(Values \cup {Unbound})
  /\ barriers \in Seq(Nat)
  /\ ret \in BOOLEAN /\ brk \in BOOLEAN /\ cont \in BOOLEAN /\ term \in BOOLEAN
  /\ result \in Values /\ acc \in Values /\ exc \in Values \cup {None}
  /\ pc \in PCs /\ at \in ExprPositions
  /\ outcome \in Values \cup {"none", "failed"}

(* Names are looked up in the frames of the running function's own          *)
(* constructs, all of them and no other, however the execution got there:   *)
(* frames and barriers are in step with the C++ calls in progress after     *)
(* every break, return and exception (set_stack_barrier, clear_stack_barrier,*)
(* new_stack_frame, del_stack_frame and their guards).                      *)
ScopeIsActivation ==
  /\ Len(frames) = Len(ctl)
  /\ Searched = {i \in DOMAIN ctl :
                   \A j \in i + 1 .. Len(ctl) : ctl[j].kind \notin Activations}

(* Until the termination request comes, a requested jump is on its way out: *)
(* nothing is evaluated meanwhile, only one is requested, none is while an  *)
(* exception is in flight, and a break or continue has its loop in the      *)
(* running function (some_jump_requested and the clear_ functions).         *)
JumpsAreTaken ==
  ~term =>
    /\ ret \/ brk \/ cont => pc \in {"after", "leave"}
    /\ ~(ret /\ brk) /\ ~(ret /\ cont) /\ ~(brk /\ cont)
    /\ brk \/ cont => InLoop

(* Once the termination request is up the body is left, whatever loops and  *)
(* calls it was in.                                                         *)
TerminationUnwinds == term ~> pc = "idle"

(* The constructs a jump under way does not leave.                          *)
Innermost(s, kinds) ==
  IF \E i \in DOMAIN s : s[i].kind \in kinds
  THEN CHOOSE i \in DOMAIN s :
         /\ s[i].kind \in kinds
         /\ \A j \in i + 1 .. Len(s) : s[j].kind \notin kinds
  ELSE 0
Kept ==
  IF term THEN 0
  ELSE IF pc = "unwind" THEN Innermost(ctl, {"try"})
  ELSE IF ret THEN Innermost(ctl, Activations)
  ELSE IF brk \/ cont THEN Innermost(ctl, Loops)
  ELSE Len(ctl)
Uncaught == pc = "unwind" /\ Kept = 0

(* The execution as the program means it: a jump has arrived when it is     *)
(* requested.                                                               *)
Scopes ==
  [i \in 1 .. Kept |->
    [kind |-> IF pc = "unwind" /\ i = Kept THEN "handler" ELSE ctl[i].kind,
     at |-> ctl[i].at, x |-> frames[i]]]
Position ==
  IF term THEN "stopped"
  ELSE IF pc = "unwind" THEN IF Uncaught THEN "idle" ELSE "catch"
  ELSE IF ret \/ brk THEN "leave"
  ELSE IF pc = "after" THEN "end"
  ELSE pc
Evaluated == IF term THEN "stmt" ELSE at
InHand ==
  IF term \/ Uncaught THEN Undef
  ELSE IF pc \in {"unwind", "catch"} THEN exc
  ELSE IF ret THEN result
  ELSE acc
Ending == IF term THEN "none" ELSE IF Uncaught THEN "failed" ELSE outcome

Structured == INSTANCE StructuredExec WITH
  scopes <- Scopes, pos <- Position, at <- Evaluated, acc <- InHand, outcome <- Ending

(* Flags, frames, barriers and scope guards together do what nested         *)
(* constructs and direct jumps mean, until the program is asked to stop.    *)
ImplementsStructured == Structured!Spec
=============================================================================
