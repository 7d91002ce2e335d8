--------------------------- MODULE CellScheduler ---------------------------
(***************************************************************************)
(* The multi-threaded execution of a node graph: runtime::run_mt, stop_mt, *)
(* wait and terminate, and the loop each pool thread runs.                 *)
(*                                                                         *)
(* Every thread repeats: take the next index of the shared counter, try to *)
(* lock that node, read its arguments one at a time, run its body, publish *)
(* the returned value to the readers and then to the host, clear the jump  *)
(* requests, unlock.  A thread that sees the termination request after the *)
(* body leaves at once, with the node's return request still standing.     *)
(*                                                                         *)
(* A value is the number of the newest host input it depends on; 0 stands  *)
(* for "undefined".  What a body computes is the constant operator Body.   *)
(***************************************************************************)
EXTENDS Integers, Sequences, FiniteSets

CONSTANTS
  Threads,      (* the threads one run_mt starts                             *)
  NoThread,     (* the holder of a free node lock                            *)
  NCells,       (* number of worker nodes, the flat array's size             *)
  Inputs,       (* input nodes, written by the host                          *)
  Args,         (* the argument sources of every node, in order              *)
  Body(_, _),   (* what a node's body returns for the arguments it read      *)
  HasOutput,    (* the nodes with an output name                             *)
  Traits,       (* what else a node's body may do: see BodyTraits            *)
  Sequential,   (* sequential_cells_execution_traversal_                     *)
  UndefEnabled, (* enable_undefined_inputs_                                  *)
  MaxInput,     (* bound: values the host feeds to one input                 *)
  MaxRuns       (* bound: calls of run_mt that start threads                 *)

Cells   == 0 .. NCells - 1
Sources == Cells \cup Inputs
Values  == 0 .. MaxInput
Undef   == 0

(* "throws": an exception may leave the evaluation of its arguments or the *)
(* body.  "exits": it may call exit().  "sink": it returns nothing.        *)
(* "compound": it has several statements, loops or calls of script         *)
(* functions, which a termination request cuts short.                      *)
BodyTraits == {"throws", "exits", "sink", "compound"}

ASSUME SchedulerAssumption ==
  /\ NoThread \notin Threads
  /\ NCells \in Nat \ {0}
  /\ MaxInput \in Nat
  /\ MaxRuns \in Nat
  /\ Cells \cap Inputs = {}
  /\ Args \in [Cells -> Seq(Sources)]
  /\ HasOutput \subseteq Cells
  /\ Traits \in [Cells -> SUBSET BodyTraits]
  /\ Sequential \in BOOLEAN
  /\ UndefEnabled \in BOOLEAN

ASSUME BodyAssumption ==
  \A c \in Cells : \A a \in [1 .. Len(Args[c]) -> Values] : Body(c, a) \in Values

VARIABLES
  mode,     (* thread_mode_                                                  *)
  term,     (* termination_requested_                                        *)
  failed,   (* failure_                                                      *)
  host,     (* what the host thread is doing: idle, in stop_mt, in wait      *)
  runs,     (* run_mt calls that started threads so far                      *)
  started,  (* threads_ holds this run's threads                             *)
  pc,       (* where every thread is                                         *)
  cur,      (* the node a thread is at                                       *)
  loop,     (* a thread's loop_ctr                                           *)
  got,      (* the arguments a thread has put on the node's stack frame      *)
  index,    (* worker_cells_flat_array_index_, modulo NCells                 *)
  lock,     (* the holder of every node's locker_                            *)
  ret,      (* a node's return_requested_                                    *)
  jump,     (* a node's break_requested_ or continue_requested_              *)
  res,      (* a node's return_result_                                       *)
  val,      (* a node's published value                                      *)
  out,      (* outputs_, by node                                             *)
  inp       (* the input nodes' values                                       *)

hostVars   == <<mode, host, runs, started>>
flagVars   == <<term, failed>>
threadVars == <<pc, cur, loop, got, index, lock>>
ctxVars    == <<ret, jump, res>>
dataVars   == <<val, out, inp>>
vars       == <<hostVars, flagVars, threadVars, ctxVars, dataVars>>

PCs == {"off", "loop", "try", "args", "eval", "after", "publish", "output",
        "unlock", "failing", "done"}

(* Mutant: the index runs one past the end.                                 *)
WrapPastEnd(i) == IF i > NCells - 1 THEN 0 ELSE i + 1

Wrap(i) == IF i >= NCells - 1 THEN 0 ELSE i + 1

ValueOf(s) == IF s \in Inputs THEN inp[s] ELSE val[s]

(* A thread holds the node it is at from a successful try_lock to unlock.   *)
InCell(t) == pc[t] \in {"args", "eval", "after", "publish", "output", "unlock"}

Goto(t, p) == pc' = [pc EXCEPT ![t] = p]

(* shut_on_destroy releases the node on every way out of the scope.         *)
Release(t) == lock' = [lock EXCEPT ![cur[t]] = NoThread]

Init ==
  /\ mode = "none" /\ host = "idle" /\ runs = 0 /\ started = FALSE
  /\ term = FALSE /\ failed = FALSE
  /\ pc = [t \in Threads |-> "off"]
  /\ cur = [t \in Threads |-> 0]
  /\ loop = [t \in Threads |-> 0]
  /\ got = [t \in Threads |-> <<>>]
  /\ index = 0
  /\ lock = [c \in Cells |-> NoThread]
  /\ ret = [c \in Cells |-> FALSE]
  /\ jump = [c \in Cells |-> FALSE]
  /\ res = [c \in Cells |-> Undef]
  /\ val = [c \in Cells |-> Undef]
  /\ out = [c \in Cells |-> Undef]
  /\ inp = [i \in Inputs |-> Undef]

-----------------------------------------------------------------------------
(* The host.                                                                *)

(* run_mt returns silently while threads_ is not empty, even when all of    *)
(* its threads have ended; otherwise it clears both flags and starts anew.  *)
RunMt ==
  /\ host = "idle"
  /\ mode' = "multi"
  /\ IF started
     THEN UNCHANGED <<runs, started, flagVars, pc, loop>>
     ELSE /\ runs < MaxRuns
          /\ runs' = runs + 1
          /\ started' = TRUE
          /\ term' = FALSE
          /\ failed' = FALSE
          /\ pc' = [t \in Threads |-> "loop"]
          /\ loop' = [t \in Threads |-> 0]
  /\ UNCHANGED <<host, cur, got, index, lock, ctxVars, dataVars>>

StopMt ==
  /\ host = "idle"
  /\ mode = "multi"
  /\ term' = TRUE
  /\ host' = "stopping"
  /\ UNCHANGED <<mode, runs, started, failed, threadVars, ctxVars, dataVars>>

(* Mutant: the threads are forgotten without a join.                        *)
StopMtWithoutJoin ==
  /\ host = "stopping"
  /\ started' = FALSE
  /\ mode' = "none"
  /\ host' = "idle"
  /\ UNCHANGED <<runs, flagVars, threadVars, ctxVars, dataVars>>

(* Thread::join on all of them, threads_.clear(), mode none.                *)
StopMtReturn ==
  /\ host = "stopping"
  /\ \A t \in Threads : pc[t] \in {"off", "done"}
  /\ started' = FALSE
  /\ pc' = [t \in Threads |-> "off"]
  /\ mode' = "none"
  /\ host' = "idle"
  /\ UNCHANGED <<runs, flagVars, cur, loop, got, index, lock, ctxVars, dataVars>>

(* wait joins the threads once either flag is up and leaves them in threads_.*)
Wait ==
  /\ host = "idle"
  /\ mode = "multi"
  /\ term \/ failed
  /\ host' = "waiting"
  /\ UNCHANGED <<mode, runs, started, flagVars, threadVars, ctxVars, dataVars>>

WaitReturn ==
  /\ host = "waiting"
  /\ \A t \in Threads : pc[t] \in {"off", "done"}
  /\ host' = "idle"
  /\ UNCHANGED <<mode, runs, started, flagVars, threadVars, ctxVars, dataVars>>

(* terminate() may be called from any host thread at any time.              *)
Terminate ==
  /\ ~term
  /\ term' = TRUE
  /\ UNCHANGED <<hostVars, failed, threadVars, ctxVars, dataVars>>

SetInput(i) ==
  /\ inp[i] < MaxInput
  /\ inp' = [inp EXCEPT ![i] = @ + 1]
  /\ UNCHANGED <<hostVars, flagVars, threadVars, ctxVars, val, out>>

-----------------------------------------------------------------------------
(* A pool thread.                                                           *)

(* Mutants: the loop's condition forgets one of the two flags.              *)
LoopExitOnFailure(t) ==
  /\ pc[t] = "loop"
  /\ failed
  /\ Goto(t, "done")
  /\ UNCHANGED <<hostVars, flagVars, cur, loop, got, index, lock, ctxVars, dataVars>>

LoopExitOnTermination(t) ==
  /\ pc[t] = "loop"
  /\ term
  /\ Goto(t, "done")
  /\ UNCHANGED <<hostVars, flagVars, cur, loop, got, index, lock, ctxVars, dataVars>>

LoopExit(t) ==
  /\ pc[t] = "loop"
  /\ term \/ failed
  /\ Goto(t, "done")
  /\ UNCHANGED <<hostVars, flagVars, cur, loop, got, index, lock, ctxVars, dataVars>>

(* fetch_add on the shared counter; sequential traversal ignores its value. *)
Fetch(t) ==
  /\ pc[t] = "loop"
  /\ ~term /\ ~failed
  /\ index' = Wrap(index)
  /\ cur' = [cur EXCEPT ![t] = IF Sequential THEN loop[t] ELSE index]
  /\ Goto(t, "try")
  /\ UNCHANGED <<hostVars, flagVars, loop, got, lock, ctxVars, dataVars>>

(* The end of the loop body: wrap or advance loop_ctr.                      *)
Advance(t) == loop' = [loop EXCEPT ![t] = Wrap(@)]

(* Mutant: the result of try_lock is ignored.                               *)
TryLockIgnored(t) ==
  /\ pc[t] = "try"
  /\ lock' = [lock EXCEPT ![cur[t]] = t]
  /\ got' = [got EXCEPT ![t] = <<>>]
  /\ Goto(t, "args")
  /\ UNCHANGED <<hostVars, flagVars, cur, loop, index, ctxVars, dataVars>>

TryLock(t) ==
  /\ pc[t] = "try"
  /\ \/ /\ lock[cur[t]] = NoThread
        /\ lock' = [lock EXCEPT ![cur[t]] = t]
        /\ got' = [got EXCEPT ![t] = <<>>]
        /\ Goto(t, "args")
        /\ UNCHANGED loop
     \/ /\ lock[cur[t]] # NoThread
        /\ Advance(t)
        /\ Goto(t, "loop")
        /\ UNCHANGED <<lock, got>>
  /\ UNCHANGED <<hostVars, flagVars, cur, index, ctxVars, dataVars>>

NextArg(t)  == Args[cur[t]][Len(got[t]) + 1]
MoreArgs(t) == Len(got[t]) < Len(Args[cur[t]])

ReadArg(t) ==
  /\ pc[t] = "args"
  /\ MoreArgs(t)
  /\ UndefEnabled \/ ValueOf(NextArg(t)) # Undef
  /\ got' = [got EXCEPT ![t] = Append(@, ValueOf(NextArg(t)))]
  /\ UNCHANGED <<hostVars, flagVars, pc, cur, loop, index, lock, ctxVars, dataVars>>

(* Mutant: `continue` without the scope's unlock.                           *)
SkipWithoutUnlock(t) ==
  /\ pc[t] = "args"
  /\ MoreArgs(t)
  /\ ~UndefEnabled /\ ValueOf(NextArg(t)) = Undef
  /\ Goto(t, "loop")
  /\ UNCHANGED <<hostVars, flagVars, cur, loop, got, index, lock, ctxVars, dataVars>>

(* `continue` on an undefined argument: unlocked, but neither the jump      *)
(* requests are cleared nor loop_ctr advanced.                              *)
SkipUndefined(t) ==
  /\ pc[t] = "args"
  /\ MoreArgs(t)
  /\ ~UndefEnabled /\ ValueOf(NextArg(t)) = Undef
  /\ Release(t)
  /\ Goto(t, "loop")
  /\ UNCHANGED <<hostVars, flagVars, cur, loop, got, index, ctxVars, dataVars>>

(* Every statement returns at once while some jump is requested.            *)
SomeJump(c) == ret[c] \/ jump[c] \/ term

EnterBody(t) ==
  /\ pc[t] = "args"
  /\ ~MoreArgs(t)
  /\ Goto(t, IF SomeJump(cur[t]) THEN "after" ELSE "eval")
  /\ UNCHANGED <<hostVars, flagVars, cur, loop, got, index, lock, ctxVars, dataVars>>

(* The return statement: its expression may call script functions, which    *)
(* return undefined when the termination request stops their statements.    *)
Return(t) ==
  /\ pc[t] = "eval"
  /\ "sink" \notin Traits[cur[t]]
  /\ ret' = [ret EXCEPT ![cur[t]] = TRUE]
  /\ \/ res' = [res EXCEPT ![cur[t]] = Body(cur[t], got[t])]
     \/ /\ term /\ "compound" \in Traits[cur[t]]
        /\ res' = [res EXCEPT ![cur[t]] = Undef]
  /\ Goto(t, "after")
  /\ UNCHANGED <<hostVars, flagVars, cur, loop, got, index, lock, jump, dataVars>>

(* The body ends without a return: it has none, or termination cut it short,*)
(* inside a loop possibly with a break or continue request standing.        *)
NoReturn(t) ==
  /\ pc[t] = "eval"
  /\ \/ "sink" \in Traits[cur[t]] /\ UNCHANGED jump
     \/ /\ term /\ "compound" \in Traits[cur[t]]
        /\ \E b \in BOOLEAN : jump' = [jump EXCEPT ![cur[t]] = b]
  /\ Goto(t, "after")
  /\ UNCHANGED <<hostVars, flagVars, cur, loop, got, index, lock, ret, res, dataVars>>

(* exit() called by the body.                                               *)
ScriptExit(t) ==
  /\ pc[t] = "eval"
  /\ "exits" \in Traits[cur[t]]
  /\ ~term
  /\ term' = TRUE
  /\ UNCHANGED <<hostVars, failed, threadVars, ctxVars, dataVars>>

(* An exception unwinds to the thread's handler, releasing the node; the    *)
(* failure flag is raised only after that.                                  *)
Throw(t) ==
  /\ pc[t] \in {"args", "eval"}
  /\ "throws" \in Traits[cur[t]]
  /\ Release(t)
  /\ Goto(t, "failing")
  /\ UNCHANGED <<hostVars, flagVars, cur, loop, got, index, ctxVars, dataVars>>

Fail(t) ==
  /\ pc[t] = "failing"
  /\ failed' = TRUE
  /\ Goto(t, "done")
  /\ UNCHANGED <<hostVars, term, cur, loop, got, index, lock, ctxVars, dataVars>>

(* Mutant: termination is checked again between value and output.           *)
BreakOutLate(t) ==
  /\ pc[t] \in {"after", "output"}
  /\ term
  /\ Release(t)
  /\ Goto(t, "done")
  /\ UNCHANGED <<hostVars, flagVars, cur, loop, got, index, ctxVars, dataVars>>

(* Termination seen after the body: leave the loop without publishing and   *)
(* without clearing the requests.  Later it is too late.                    *)
BreakOut(t) ==
  /\ pc[t] = "after"
  /\ term
  /\ Release(t)
  /\ Goto(t, "done")
  /\ UNCHANGED <<hostVars, flagVars, cur, loop, got, index, ctxVars, dataVars>>

GoOn(t) ==
  /\ pc[t] = "after"
  /\ ~term
  /\ Goto(t, "publish")
  /\ UNCHANGED <<hostVars, flagVars, cur, loop, got, index, lock, ctxVars, dataVars>>

Publish(t) ==
  /\ pc[t] = "publish"
  /\ IF ret[cur[t]]
     THEN /\ val' = [val EXCEPT ![cur[t]] = res[cur[t]]]
          /\ Goto(t, IF cur[t] \in HasOutput THEN "output" ELSE "unlock")
     ELSE /\ Goto(t, "unlock")
          /\ UNCHANGED val
  /\ UNCHANGED <<hostVars, flagVars, cur, loop, got, index, lock, ctxVars, out, inp>>

SetOutput(t) ==
  /\ pc[t] = "output"
  /\ out' = [out EXCEPT ![cur[t]] = res[cur[t]]]
  /\ Goto(t, "unlock")
  /\ UNCHANGED <<hostVars, flagVars, cur, loop, got, index, lock, ctxVars, val, inp>>

(* Mutant: the node's return request survives the execution.                *)
UnlockKeepsReturn(t) ==
  /\ pc[t] = "unlock"
  /\ jump' = [jump EXCEPT ![cur[t]] = FALSE]
  /\ Release(t)
  /\ Advance(t)
  /\ Goto(t, "loop")
  /\ UNCHANGED <<hostVars, flagVars, cur, got, index, ret, res, dataVars>>

Unlock(t) ==
  /\ pc[t] = "unlock"
  /\ ret' = [ret EXCEPT ![cur[t]] = FALSE]
  /\ jump' = [jump EXCEPT ![cur[t]] = FALSE]
  /\ Release(t)
  /\ Advance(t)
  /\ Goto(t, "loop")
  /\ UNCHANGED <<hostVars, flagVars, cur, got, index, res, dataVars>>

-----------------------------------------------------------------------------
Step(t) ==
  \/ LoopExit(t) \/ Fetch(t) \/ TryLock(t)
  \/ ReadArg(t) \/ SkipUndefined(t) \/ EnterBody(t)
  \/ Return(t) \/ NoReturn(t) \/ ScriptExit(t) \/ Throw(t) \/ Fail(t)
  \/ BreakOut(t) \/ GoOn(t) \/ Publish(t) \/ SetOutput(t) \/ Unlock(t)

HostStep ==
  \/ RunMt \/ StopMt \/ StopMtReturn \/ Wait \/ WaitReturn \/ Terminate
  \/ \E i \in Inputs : SetInput(i)

Next == HostStep \/ \E t \in Threads : Step(t)

Spec == Init /\ [][Next]_vars

(* The operating system schedules every thread, a body ends, and a join     *)
(* returns once its thread has ended.  The host is never obliged to call.   *)
Fairness ==
  /\ \A t \in Threads : WF_vars(Step(t))
  /\ WF_vars(StopMtReturn)
  /\ WF_vars(WaitReturn)

FairSpec == Spec /\ Fairness

-----------------------------------------------------------------------------
TypeOK ==
  /\ mode \in {"none", "multi"}
  /\ host \in {"idle", "stopping", "waiting"}
  /\ runs \in Nat
  /\ started \in BOOLEAN
  /\ term \in BOOLEAN /\ failed \in BOOLEAN
  /\ pc \in [Threads -> PCs]
  /\ cur \in [Threads -> Cells]
  /\ loop \in [Threads -> Cells]
  /\ got \in [Threads -> Seq(Values)]
  /\ index \in Cells
  /\ lock \in [Cells -> Threads \cup {NoThread}]
  /\ ret \in [Cells -> BOOLEAN] /\ jump \in [Cells -> BOOLEAN]
  /\ res \in [Cells -> Values]
  /\ val \in [Cells -> Values] /\ out \in [Cells -> Values]
  /\ inp \in [Inputs -> Values]

(* The interpreter runs nodes in parallel without the script's locking      *)
(* anything: no two threads are ever at work on one node, from the reading  *)
(* of its arguments to the clearing of its jump requests.                   *)
CellExclusive ==
  \A t1, t2 \in Threads :
    t1 # t2 /\ InCell(t1) /\ InCell(t2) => cur[t1] # cur[t2]

(* Publishing takes two steps (the value other nodes read, then the output  *)
(* the host reads) and can be abandoned on three ways out; whenever nobody  *)
(* works on a node the host and the other nodes see the same value of it.   *)
OutputMatchesValue ==
  \A c \in HasOutput : lock[c] = NoThread => out[c] = val[c]

(* The nodes no cut-short body can feed an undefined result to.             *)
NeverCutShort ==
  UNION {S \in SUBSET Cells :
           \A c \in S : /\ "compound" \notin Traits[c]
                        /\ \A k \in 1 .. Len(Args[c]) : Args[c][k] \in S \cup Inputs}

(* What a body returns for newer arguments is as new.                       *)
MonotoneBody ==
  \A c \in Cells : \A a, b \in [1 .. Len(Args[c]) -> Values] :
    (\A k \in 1 .. Len(Args[c]) : a[k] <= b[k]) => Body(c, a) <= Body(c, b)

(* A node's published value never goes back to one computed from older host *)
(* input, whichever threads computed the two (MonotoneBody; a body the      *)
(* termination request cut short may return undefined, and the next run     *)
(* publishes that).                                                         *)
ValuesNeverRegress == [][\A c \in NeverCutShort : val'[c] >= val[c]]_vars

(* "Before executing a node's body, the values of all its arguments are     *)
(* updated": what a thread is about to hand to the host was computed from   *)
(* the arguments of this very execution.                                    *)
PublishesOwnResult ==
  \A t \in Threads : pc[t] = "output" => res[cur[t]] = Body(cur[t], got[t])

(* Once stop_mt has returned, and before the next run_mt, no node value and *)
(* no output changes any more.                                              *)
StoppedIsQuiet == [][mode # "multi" => UNCHANGED <<val, out>>]_vars

(* stop_mt and wait return.                                                 *)
StopReturns == host # "idle" ~> host = "idle"

(* An exception in one node ends every thread of the pool.                  *)
FailureStopsAll == failed ~> \A t \in Threads : pc[t] \in {"off", "done"}

Running == mode = "multi" /\ started /\ ~term /\ ~failed

Ready(c) == \A k \in 1 .. Len(Args[c]) : ValueOf(Args[c][k]) # Undef

(* While the pool keeps running, every node that may execute ends up with   *)
(* the value its body computes from the current values of its sources,      *)
(* although other nodes wait for ever (the host feeds finitely many inputs; *)
(* for graphs without cycles).                                              *)
Settled ==
  \A c \in Cells :
    "sink" \notin Traits[c] /\ (UndefEnabled \/ Ready(c)) =>
      val[c] = Body(c, [k \in 1 .. Len(Args[c]) |-> ValueOf(Args[c][k])])
Settles == <>[]Running => <>[]Settled

-----------------------------------------------------------------------------
(* A node seen without its thread: it is idle when free, and from the end   *)
(* of its publication on.                                                   *)
Stage(c) ==
  IF lock[c] = NoThread \/ pc[lock[c]] = "unlock" THEN "idle"
  ELSE IF pc[lock[c]] = "output" THEN "output" ELSE "reading"

Seen(c) == IF Stage(c) = "idle" THEN <<>> ELSE got[lock[c]]

Dataflow == INSTANCE NodeDataflow
              WITH stage <- [c \in Cells |-> Stage(c)],
                   seen  <- [c \in Cells |-> Seen(c)]

(* "Nodes execute independently of one another": the pool's threads, locks  *)
(* and flags implement one sequential process per node, until stop_mt and a *)
(* second run_mt.                                                           *)
ImplementsDataflow == Dataflow!Spec
=============================================================================
