-------------------------- MODULE DataflowProofs --------------------------
(***************************************************************************)
(* The node scheduler implements NodeDataflow as long as run_mt starts     *)
(* threads only once.                                                      *)
(***************************************************************************)
EXTENDS CellSchedulerProofs

(* Only the thread at work on a node holds it.                              *)
HolderInside ==
  \A c \in Cells :
    lock[c] # NoThread =>
      lock[c] \in Threads /\ InCell(lock[c]) /\ cur[lock[c]] = c

(* The arguments stay on the frame until the result is out.                 *)
ArgsKept ==
  \A t \in Threads :
    pc[t] \in {"eval", "after", "publish", "output"} => Len(got[t]) = Len(Args[cur[t]])

(* A return request is this execution's own, or nothing is published any    *)
(* more because termination is requested.                                   *)
OwnReturn ==
  /\ \A c \in Cells : lock[c] = NoThread /\ ret[c] => term
  /\ \A t \in Threads :
       /\ pc[t] = "args" /\ ret[cur[t]] => term
       /\ pc[t] = "eval" => ~ret[cur[t]]
       /\ pc[t] = "after" /\ ret[cur[t]] => term \/ res[cur[t]] = Body(cur[t], got[t])
       /\ pc[t] = "publish" /\ ret[cur[t]] => res[cur[t]] = Body(cur[t], got[t])
       /\ pc[t] = "output" => res[cur[t]] = Body(cur[t], got[t])

(* Before the first run_mt no thread has left anything behind.              *)
FirstRun ==
  runs = 0 => /\ \A c \in Cells : ~ret[c]
              /\ \A t \in Threads : pc[t] = "off"

DInv == IInv /\ HolderInside /\ ArgsKept /\ OwnReturn /\ FirstRun

-----------------------------------------------------------------------------
LEMMA InitDInv == Init => DInv
  <1>1. Init => IInv
    BY InitIInv
  <1>2. Init => HolderInside /\ ArgsKept /\ OwnReturn /\ FirstRun
    BY DEF Init, HolderInside, ArgsKept, OwnReturn, FirstRun
  <1>. QED
    BY <1>1, <1>2 DEF DInv

-----------------------------------------------------------------------------
(* A node changes hands only by try_lock and by the releases.               *)
LEMMA StepHolderInside ==
  ASSUME DInv, NEW t \in Threads, Step(t)
  PROVE  HolderInside'
  <1>. SUFFICES ASSUME NEW c \in Cells, lock'[c] # NoThread
                PROVE  /\ lock'[c] \in Threads /\ cur'[lock'[c]] = c
                       /\ pc'[lock'[c]] \in {"args", "eval", "after", "publish", "output", "unlock"}
    BY DEF HolderInside, InCell
  <1>1. IInv /\ HolderInside /\ cur[t] \in Cells /\ NoThread \notin Threads
    BY SchedulerAssumption DEF DInv, IInv, TypeOK
  <1>2. InCell(t) => lock[cur[t]] = t
    BY <1>1 DEF IInv, LockHeld
  <1>3. CASE c # cur[t] /\ lock[c] # t
    <2>1. lock'[c] = lock[c] /\ lock[c] \in Threads /\ InCell(lock[c]) /\ cur[lock[c]] = c
      BY <1>1, <1>3, Elsewhere DEF HolderInside
    <2>. QED
      BY <1>1, <1>3, <2>1, Elsewhere DEF InCell
  <1>4. CASE c # cur[t] /\ lock[c] = t
    BY <1>1, <1>4 DEF HolderInside
  <1>5. CASE c = cur[t] /\ ~InCell(t) /\ lock[c] # NoThread
    <2>1. lock[c] \in Threads \ {t} /\ InCell(lock[c]) /\ cur[lock[c]] = c
      BY <1>1, <1>5 DEF HolderInside
    <2>2. UNCHANGED lock
      BY <1>1, <1>5 DEF Step, InCell, LoopExit, Fetch, TryLock, Fail, ReadArg, SkipUndefined,
         EnterBody, GoOn, Return, NoReturn, ScriptExit, Throw, BreakOut, Publish, SetOutput, Unlock
    <2>. QED
      BY <1>1, <2>1, <2>2, Elsewhere DEF InCell
  <1>6. CASE c = cur[t] /\ ~InCell(t) /\ lock[c] = NoThread
    <2>1. TryLock(t) /\ lock' = [lock EXCEPT ![c] = t] /\ pc' = [pc EXCEPT ![t] = "args"]
          /\ UNCHANGED cur
      BY <1>6 DEF Step, InCell, LoopExit, Fetch, TryLock, Fail, ReadArg, SkipUndefined, Goto,
         EnterBody, GoOn, Return, NoReturn, ScriptExit, Throw, BreakOut, Publish, SetOutput, Unlock
    <2>. QED
      BY <1>6, <2>1 DEF InCell, DInv, IInv, TypeOK
  <1>7. CASE c = cur[t] /\ InCell(t)
    <2>1. lock[c] = t /\ cur'[t] = c
      BY <1>1, <1>2, <1>7, Elsewhere
    <2>2. CASE SkipUndefined(t) \/ Throw(t) \/ BreakOut(t) \/ Unlock(t)
      BY <1>7, <2>2 DEF SkipUndefined, Throw, BreakOut, Unlock, Release, DInv, IInv, TypeOK
    <2>3. CASE ReadArg(t) \/ EnterBody(t) \/ GoOn(t) \/ Return(t) \/ NoReturn(t)
               \/ ScriptExit(t) \/ Publish(t) \/ SetOutput(t)
      <3>1. UNCHANGED lock /\ pc'[t] \in {"args", "eval", "after", "publish", "output", "unlock"}
        BY <2>3 DEF ReadArg, EnterBody, GoOn, Return, NoReturn, ScriptExit, Publish, SetOutput,
                    Goto, threadVars, DInv, IInv, TypeOK
      <3>. QED
        BY <2>1, <3>1 DEF InCell
    <2>. QED
      BY <1>7, <2>2, <2>3 DEF Step, InCell, LoopExit, Fetch, TryLock, Fail
  <1>. QED
    BY <1>3, <1>4, <1>5, <1>6, <1>7

LEMMA StepArgsKept ==
  ASSUME DInv, NEW t \in Threads, Step(t)
  PROVE  ArgsKept'
  <1>. SUFFICES ASSUME NEW u \in Threads, pc'[u] \in {"eval", "after", "publish", "output"}
                PROVE  Len(got'[u]) = Len(Args[cur'[u]])
    BY DEF ArgsKept
  <1>0. IInv /\ ArgsKept
    BY DEF DInv
  <1>1. CASE u # t
    BY <1>0, <1>1, Elsewhere DEF ArgsKept
  <1>2. CASE u = t /\ EnterBody(t)
    <2>1. got[t] \in Seq(Values) /\ Args[cur[t]] \in Seq(Sources)
      BY SchedulerAssumption DEF DInv, IInv, TypeOK
    <2>2. Len(got[t]) = Len(Args[cur[t]])
      BY <1>2, <2>1 DEF DInv, IInv, ArgsRead, EnterBody, MoreArgs
    <2>. QED
      BY <1>2, <2>2 DEF EnterBody
  <1>3. CASE u = t /\ ~EnterBody(t)
    <2>1. UNCHANGED <<got, cur>> /\ pc[t] \in {"eval", "after", "publish", "output"}
      BY <1>3 DEF Step, LoopExit, Fetch, TryLock, Fail, ReadArg, SkipUndefined, Goto, threadVars,
         GoOn, Return, NoReturn, ScriptExit, Throw, BreakOut, Publish, SetOutput, Unlock,
         DInv, IInv, TypeOK
    <2>. QED
      BY <1>0, <1>3, <2>1 DEF ArgsKept
  <1>. QED
    BY <1>1, <1>2, <1>3

(* What a thread finds at its own node from step to step.                   *)
LEMMA StepOwnReturnHere ==
  ASSUME DInv, NEW t \in Threads, Step(t)
  PROVE  LET c == cur'[t] IN
         /\ pc'[t] = "args" /\ ret'[c] => term'
         /\ pc'[t] = "eval" => ~ret'[c]
         /\ pc'[t] = "after" /\ ret'[c] => term' \/ res'[c] = Body(c, got'[t])
         /\ pc'[t] = "publish" /\ ret'[c] => res'[c] = Body(c, got'[t])
         /\ pc'[t] = "output" => res'[c] = Body(c, got'[t])
  <1>. USE DEF Goto, flagVars, ctxVars, threadVars, OwnReturn
  <1>1. TypeOK /\ OwnReturn /\ cur[t] \in Cells
    BY DEF DInv, IInv, TypeOK
  <1>2. CASE LoopExit(t) \/ Fetch(t) \/ Fail(t) \/ SkipUndefined(t) \/ Throw(t) \/ BreakOut(t)
             \/ SetOutput(t) \/ Unlock(t)
    <2>1. pc'[t] \notin {"args", "eval", "after", "publish", "output"}
      BY <1>1, <1>2 DEF TypeOK, LoopExit, Fetch, Fail, SkipUndefined, Throw, BreakOut, SetOutput,
                        Unlock
    <2>. QED
      BY <2>1
  <1>3. CASE TryLock(t)
    BY <1>1, <1>3 DEF TypeOK, TryLock
  <1>4. CASE ReadArg(t)
    BY <1>1, <1>4 DEF ReadArg
  <1>5. CASE EnterBody(t)
    BY <1>1, <1>5 DEF TypeOK, EnterBody, SomeJump
  <1>6. CASE Return(t)
    <2>1. UNCHANGED <<term, cur, got>> /\ pc'[t] = "after"
      BY <1>1, <1>6 DEF TypeOK, Return
    <2>2. res'[cur[t]] = Body(cur[t], got[t]) \/ term
      BY <1>1, <1>6 DEF TypeOK, Return
    <2>. QED
      BY <2>1, <2>2
  <1>7. CASE NoReturn(t)
    BY <1>1, <1>7 DEF TypeOK, NoReturn
  <1>8. CASE ScriptExit(t)
    BY <1>1, <1>8 DEF ScriptExit
  <1>9. CASE GoOn(t)
    BY <1>1, <1>9 DEF TypeOK, GoOn
  <1>10. CASE Publish(t)
    BY <1>1, <1>10 DEF TypeOK, Publish
  <1>. QED
    BY <1>2, <1>3, <1>4, <1>5, <1>6, <1>7, <1>8, <1>9, <1>10 DEF Step

LEMMA StepOwnReturn ==
  ASSUME DInv, NEW t \in Threads, Step(t)
  PROVE  OwnReturn'
  <1>1. IInv /\ HolderInside /\ OwnReturn /\ cur[t] \in Cells /\ NoThread \notin Threads
    BY SchedulerAssumption DEF DInv, IInv, TypeOK
  <1>2. ASSUME NEW c \in Cells, lock'[c] = NoThread, ret'[c] PROVE term'
    <2>1. CASE c # cur[t]
      BY <1>1, <1>2, <2>1, Elsewhere DEF OwnReturn
    <2>2. CASE c = cur[t] /\ UNCHANGED <<lock, ret, term>>
      BY <1>1, <1>2, <2>2 DEF OwnReturn
    <2>3. CASE c = cur[t] /\ ~UNCHANGED <<lock, ret, term>>
      <3>1. CASE TryLock(t) \/ Return(t)
        BY <1>1, <1>2, <2>3, <3>1 DEF TryLock, Return, DInv, IInv, TypeOK, LockHeld, InCell, flagVars, ctxVars
      <3>2. CASE SkipUndefined(t) \/ Throw(t) \/ BreakOut(t)
        <4>1. UNCHANGED <<ret, term>> /\ pc[t] \in {"args", "eval", "after"}
          BY <3>2 DEF SkipUndefined, Throw, BreakOut, flagVars, ctxVars
        <4>2. BreakOut(t) => term
          BY DEF BreakOut
        <4>3. pc[t] = "after" => BreakOut(t)
          BY <3>2 DEF SkipUndefined, Throw
        <4>. QED
          BY <1>1, <1>2, <2>3, <4>1, <4>2, <4>3 DEF OwnReturn
      <3>3. CASE Unlock(t)
        BY <1>1, <1>2, <2>3, <3>3 DEF Unlock, DInv, IInv, TypeOK
      <3>4. CASE ScriptExit(t)
        BY <3>4 DEF ScriptExit
      <3>. QED
        BY <2>3, <3>1, <3>2, <3>3, <3>4
           DEF Step, LoopExit, Fetch, Fail, ReadArg, EnterBody, NoReturn, GoOn, Publish, SetOutput,
               flagVars, ctxVars
    <2>. QED
      BY <2>1, <2>2, <2>3
  <1>3. ASSUME NEW u \in Threads \ {t}, pc'[u] \in {"args", "eval", "after", "publish", "output"}
        PROVE  /\ cur'[u] \in Cells /\ cur'[u] = cur[u] /\ pc'[u] = pc[u] /\ got'[u] = got[u]
               /\ ret'[cur'[u]] = ret[cur[u]] /\ res'[cur'[u]] = res[cur[u]] /\ (term => term')
    <2>1. cur'[u] = cur[u] /\ pc'[u] = pc[u] /\ cur[u] \in Cells /\ got'[u] = got[u] /\ InCell(u)
      BY <1>1, <1>3, Elsewhere DEF InCell, IInv, TypeOK
    <2>2. CASE cur[u] # cur[t]
      BY <1>1, <2>1, <2>2, Elsewhere
    <2>3. CASE cur[u] = cur[t]
      <3>1. ~InCell(t)
        BY <1>1, <1>3, <2>1, <2>3 DEF IInv, LockHeld
      <3>2. UNCHANGED <<ret, res, term>>
        BY <3>1 DEF Step, InCell, LoopExit, Fetch, TryLock, Fail, ReadArg, SkipUndefined,
           EnterBody, GoOn, Return, NoReturn, ScriptExit, Throw, BreakOut, Publish, SetOutput, Unlock,
           flagVars, ctxVars
      <3>. QED
        BY <2>1, <3>2
    <2>. QED
      BY <2>2, <2>3
  <1>4. ASSUME NEW u \in Threads
        PROVE  /\ pc'[u] = "args" /\ ret'[cur'[u]] => term'
               /\ pc'[u] = "eval" => ~ret'[cur'[u]]
               /\ pc'[u] = "after" /\ ret'[cur'[u]] => term' \/ res'[cur'[u]] = Body(cur'[u], got'[u])
               /\ pc'[u] = "publish" /\ ret'[cur'[u]] => res'[cur'[u]] = Body(cur'[u], got'[u])
               /\ pc'[u] = "output" => res'[cur'[u]] = Body(cur'[u], got'[u])
    <2>1. CASE u = t
      BY <2>1, StepOwnReturnHere
    <2>2. CASE u # t
      BY <1>1, <1>3, <2>2 DEF OwnReturn
    <2>. QED
      BY <2>1, <2>2
  <1>. QED
    BY <1>2, <1>4 DEF OwnReturn

(* No step before the first run_mt, and the host leaves nodes alone.        *)
LEMMA NextDInv ==
  ASSUME MaxRuns = 1
  PROVE  DInv /\ [Next]_vars => DInv'
  <1>. SUFFICES ASSUME DInv, [Next]_vars PROVE DInv'
    OBVIOUS
  <1>0. IInv' /\ IInv /\ runs \in Nat
    BY NextIInv DEF DInv, IInv, TypeOK
  <1>1. ASSUME NEW t \in Threads, Step(t) PROVE DInv'
    <2>1. FirstRun'
      BY <1>0, <1>1, Elsewhere DEF DInv, FirstRun
    <2>. QED
      BY <1>0, <1>1, <2>1, StepHolderInside, StepArgsKept, StepOwnReturn DEF DInv
  <1>2. CASE HostStep
    <2>0. \A t \in Threads : pc'[t] \in {"args", "eval", "after", "publish", "output", "unlock"}
                             \/ pc[t] \in {"args", "eval", "after", "publish", "output", "unlock"}
                             => pc'[t] = pc[t]
      BY <1>0, <1>2, HostElsewhere DEF InCell
    <2>1. HolderInside'
      BY <1>0, <1>2, <2>0, HostElsewhere DEF DInv, HolderInside, InCell
    <2>2. ArgsKept'
      BY <1>0, <1>2, <2>0, HostElsewhere DEF DInv, ArgsKept
    <2>3. FirstRun'
      <3>1. runs' = 0 => runs = 0
        BY <1>0, <1>2, HostElsewhere DEF IInv, TypeOK
      <3>. QED
        BY <1>0, <1>2, <3>1, HostElsewhere DEF DInv, FirstRun
    <2>4. OwnReturn'
      <3>1. CASE runs' = runs
        <4>1. UNCHANGED <<cur, got, lock, ret, res>> /\ (term => term')
          BY <1>0, <1>2, <3>1, HostElsewhere
        <4>. QED
          BY <2>0, <4>1 DEF DInv, OwnReturn
      <3>2. CASE runs' # runs
        <4>1. runs = 0
          <5>1. RunMt
            BY <1>2, <3>2 DEF HostStep, StopMt, StopMtReturn, Wait, WaitReturn, Terminate,
                              SetInput, hostVars
          <5>2. runs < 1
            BY <3>2, <5>1 DEF RunMt
          <5>. QED
            BY <1>0, <5>2
        <4>2. \A c \in Cells : ~ret'[c]
          BY <1>0, <1>2, <4>1, HostElsewhere DEF DInv, FirstRun
        <4>3. \A t \in Threads : cur'[t] \in Cells
          BY <1>0 DEF IInv, TypeOK
        <4>4. \A t \in Threads : pc'[t] # "output"
          BY <1>0, <1>2, <3>2, HostElsewhere DEF InCell
        <4>. QED
          BY <4>2, <4>3, <4>4 DEF OwnReturn
      <3>. QED
        BY <3>1, <3>2
    <2>. QED
      BY <1>0, <2>1, <2>2, <2>3, <2>4 DEF DInv
  <1>3. CASE UNCHANGED vars
    <2>1. HolderInside' /\ ArgsKept' /\ OwnReturn' /\ FirstRun'
      BY <1>3 DEF DInv, HolderInside, InCell, ArgsKept, OwnReturn, FirstRun, vars, hostVars,
                  flagVars, threadVars, ctxVars, dataVars
    <2>. QED
      BY <1>0, <2>1 DEF DInv
  <1>. QED
    BY <1>1, <1>2, <1>3 DEF Next

-----------------------------------------------------------------------------
StageOfAll == [c \in Cells |-> Stage(c)]
SeenOfAll  == [c \in Cells |-> Seen(c)]

(* A node looks the same as long as its holder does.                        *)
LEMMA SameNode ==
  ASSUME DInv, NEW c \in Cells, lock'[c] = lock[c],
         lock[c] # NoThread => pc'[lock[c]] = pc[lock[c]] /\ got'[lock[c]] = got[lock[c]]
  PROVE  StageOfAll'[c] = StageOfAll[c] /\ SeenOfAll'[c] = SeenOfAll[c]
  BY DEF StageOfAll, SeenOfAll, Stage, Seen

(* A thread's step shows at no node but its own.                            *)
LEMMA OtherNodes ==
  ASSUME DInv, NEW t \in Threads, Step(t), NEW c \in Cells \ {cur[t]}
  PROVE  StageOfAll'[c] = StageOfAll[c] /\ SeenOfAll'[c] = SeenOfAll[c]
  <1>1. lock'[c] = lock[c]
    BY Elsewhere DEF DInv
  <1>2. lock[c] # NoThread => lock[c] \in Threads \ {t}
    BY DEF DInv, HolderInside
  <1>. QED
    BY <1>1, <1>2, SameNode, Elsewhere DEF DInv

(* The host's calls show at no node.                                        *)
LEMMA HostNodes ==
  ASSUME DInv, HostStep
  PROVE  UNCHANGED <<StageOfAll, SeenOfAll, val, out>>
  <1>1. UNCHANGED <<lock, got, val, out>>
    BY HostElsewhere DEF DInv
  <1>2. \A c \in Cells : lock[c] # NoThread => pc'[lock[c]] = pc[lock[c]]
    BY HostElsewhere DEF DInv, HolderInside
  <1>3. \A c \in Cells : StageOfAll'[c] = StageOfAll[c] /\ SeenOfAll'[c] = SeenOfAll[c]
    BY <1>1, <1>2, SameNode
  <1>. QED
    BY <1>1, <1>3 DEF StageOfAll, SeenOfAll

(* How a node shows before and after a step of the thread at work on it.    *)
LEMMA OwnNode ==
  ASSUME DInv, NEW t \in Threads, InCell(t)
  PROVE  /\ cur[t] \in Cells /\ lock[cur[t]] = t /\ t # NoThread
         /\ StageOfAll[cur[t]] = IF pc[t] = "unlock" THEN "idle"
                                 ELSE IF pc[t] = "output" THEN "output" ELSE "reading"
         /\ SeenOfAll[cur[t]] = IF pc[t] = "unlock" THEN <<>> ELSE got[t]
  BY SchedulerAssumption DEF DInv, IInv, TypeOK, LockHeld, InCell, StageOfAll, SeenOfAll, Stage, Seen

LEMMA OwnNodeAfter ==
  ASSUME DInv, NEW t \in Threads, InCell(t), cur'[t] = cur[t]
  PROVE  /\ lock'[cur[t]] = NoThread =>
              StageOfAll'[cur[t]] = "idle" /\ SeenOfAll'[cur[t]] = <<>>
         /\ lock'[cur[t]] = t =>
              /\ StageOfAll'[cur[t]] = IF pc'[t] = "unlock" THEN "idle"
                                 ELSE IF pc'[t] = "output" THEN "output" ELSE "reading"
              /\ SeenOfAll'[cur[t]] = IF pc'[t] \in {"unlock"} THEN <<>> ELSE got'[t]
  <1>1. cur[t] \in Cells /\ t # NoThread
    BY OwnNode
  <1>. QED
    BY <1>1 DEF StageOfAll, SeenOfAll, Stage, Seen

(* A step at one node changes what is seen of that node only.               *)
LEMMA OneNode ==
  ASSUME DInv, NEW t \in Threads, Step(t)
  PROVE  /\ StageOfAll' = [StageOfAll EXCEPT ![cur[t]] = StageOfAll'[cur[t]]]
         /\ SeenOfAll' = [SeenOfAll EXCEPT ![cur[t]] = SeenOfAll'[cur[t]]]
  <1>1. \A c \in Cells \ {cur[t]} :
          StageOfAll'[c] = StageOfAll[c] /\ SeenOfAll'[c] = SeenOfAll[c]
    BY OtherNodes
  <1>. QED
    BY <1>1 DEF StageOfAll, SeenOfAll

-----------------------------------------------------------------------------
(* A step that shows at no node and changes no value is a stutter.          *)
LEMMA Stutters ==
  ASSUME DInv, NEW t \in Threads, Step(t), UNCHANGED <<val, out>>,
         StageOfAll'[cur[t]] = StageOfAll[cur[t]], SeenOfAll'[cur[t]] = SeenOfAll[cur[t]]
  PROVE  UNCHANGED Dataflow!vars
  <1>1. \A c \in Cells : StageOfAll'[c] = StageOfAll[c] /\ SeenOfAll'[c] = SeenOfAll[c]
    BY OtherNodes
  <1>2. UNCHANGED <<StageOfAll, SeenOfAll>>
    BY <1>1 DEF StageOfAll, SeenOfAll
  <1>3. UNCHANGED inp
    BY Elsewhere DEF DInv
  <1>. QED
    BY <1>2, <1>3 DEF Dataflow!vars, StageOfAll, SeenOfAll

(* Leaving a node with nothing published is giving its execution up.        *)
LEMMA GivesUp ==
  ASSUME DInv, NEW t \in Threads, Step(t), InCell(t), UNCHANGED <<val, out>>,
         pc[t] \notin {"output", "unlock"},
         StageOfAll'[cur[t]] = "idle", SeenOfAll'[cur[t]] = <<>>
  PROVE  Dataflow!GiveUp(cur[t])
  <1>1. StageOfAll[cur[t]] = "reading"
    BY OwnNode
  <1>2. /\ StageOfAll' = [StageOfAll EXCEPT ![cur[t]] = "idle"]
        /\ SeenOfAll' = [SeenOfAll EXCEPT ![cur[t]] = <<>>]
    BY OneNode
  <1>3. UNCHANGED inp
    BY Elsewhere DEF DInv
  <1>. QED
    BY <1>1, <1>2, <1>3 DEF Dataflow!GiveUp, StageOfAll, SeenOfAll

LEMMA TryLockSimulates ==
  ASSUME DInv, NEW t \in Threads, Step(t), TryLock(t), lock[cur[t]] = NoThread
  PROVE  Dataflow!Begin(cur[t])
  <1>1. /\ cur[t] \in Cells /\ t # NoThread /\ UNCHANGED <<val, out, inp>>
        /\ lock'[cur[t]] = t /\ pc'[t] = "args" /\ got'[t] = <<>>
    BY SchedulerAssumption DEF DInv, IInv, TypeOK, TryLock, Goto, dataVars
  <1>2. StageOfAll[cur[t]] = "idle" /\ SeenOfAll[cur[t]] = <<>>
    BY <1>1 DEF StageOfAll, SeenOfAll, Stage, Seen
  <1>3. StageOfAll'[cur[t]] = "reading" /\ SeenOfAll'[cur[t]] = <<>>
    BY <1>1 DEF StageOfAll, SeenOfAll, Stage, Seen
  <1>4. SeenOfAll' = SeenOfAll
    <2>1. \A c \in Cells : SeenOfAll'[c] = SeenOfAll[c]
      BY <1>2, <1>3, OtherNodes
    <2>. QED
      BY <2>1 DEF SeenOfAll
  <1>5. StageOfAll' = [StageOfAll EXCEPT ![cur[t]] = "reading"]
    BY <1>3, OneNode
  <1>. QED
    BY <1>1, <1>2, <1>4, <1>5 DEF Dataflow!Begin, StageOfAll, SeenOfAll

LEMMA ReadArgSimulates ==
  ASSUME DInv, NEW t \in Threads, Step(t), ReadArg(t)
  PROVE  Dataflow!Read(cur[t])
  <1>. DEFINE v == ValueOf(NextArg(t))
  <1>1. /\ InCell(t) /\ pc[t] = "args" /\ MoreArgs(t) /\ (UndefEnabled \/ v # Undef)
        /\ UNCHANGED <<pc, cur, lock, val, out, inp>>
        /\ got'[t] = Append(got[t], v)
    BY DEF ReadArg, InCell, dataVars, DInv, IInv, TypeOK
  <1>2. /\ cur[t] \in Cells /\ lock[cur[t]] = t
        /\ StageOfAll[cur[t]] = "reading" /\ SeenOfAll[cur[t]] = got[t]
    BY <1>1, OwnNode
  <1>3. StageOfAll'[cur[t]] = "reading" /\ SeenOfAll'[cur[t]] = Append(got[t], v)
    BY <1>1, <1>2, OwnNodeAfter
  <1>4. UNCHANGED StageOfAll
    <2>1. \A c \in Cells : StageOfAll'[c] = StageOfAll[c]
      BY <1>2, <1>3, OtherNodes
    <2>. QED
      BY <2>1 DEF StageOfAll
  <1>5. SeenOfAll' = [SeenOfAll EXCEPT ![cur[t]] = Append(SeenOfAll[cur[t]], v)]
    BY <1>2, <1>3, OneNode
  <1>6. Dataflow!SourceValue(Args[cur[t]][Len(SeenOfAll[cur[t]]) + 1]) = v
    BY <1>2 DEF Dataflow!SourceValue, ValueOf, NextArg
  <1>7. Len(SeenOfAll[cur[t]]) < Len(Args[cur[t]])
    BY <1>1, <1>2 DEF MoreArgs
  <1>. HIDE DEF v
  <1>. QED
    BY <1>1, <1>2, <1>4, <1>5, <1>6, <1>7 DEF Dataflow!Read, StageOfAll, SeenOfAll

LEMMA PublishSimulates ==
  ASSUME DInv, NEW t \in Threads, Step(t), Publish(t), ret[cur[t]]
  PROVE  Dataflow!Publish(cur[t])
  <1>. DEFINE c == cur[t]
  <1>1. /\ InCell(t) /\ pc[t] = "publish" /\ c \in Cells
        /\ UNCHANGED <<cur, got, lock, out, inp>>
        /\ val' = [val EXCEPT ![c] = res[c]]
        /\ pc'[t] = IF c \in HasOutput THEN "output" ELSE "unlock"
    BY DEF Publish, Goto, InCell, DInv, IInv, TypeOK
  <1>2. res[c] = Body(c, got[t]) /\ Len(got[t]) = Len(Args[c])
    BY <1>1 DEF DInv, OwnReturn, ArgsKept
  <1>3. lock[c] = t /\ StageOfAll[c] = "reading" /\ SeenOfAll[c] = got[t]
    BY <1>1, OwnNode
  <1>4. CASE c \in HasOutput
    <2>1. StageOfAll'[c] = "output" /\ SeenOfAll'[c] = got[t]
      BY <1>1, <1>3, <1>4, OwnNodeAfter
    <2>2. StageOfAll' = [StageOfAll EXCEPT ![c] = "output"]
      BY <2>1, OneNode
    <2>3. UNCHANGED SeenOfAll
      <3>1. \A d \in Cells : SeenOfAll'[d] = SeenOfAll[d]
        BY <1>3, <2>1, OtherNodes
      <3>. QED
        BY <3>1 DEF SeenOfAll
    <2>. QED
      BY <1>1, <1>2, <1>3, <1>4, <2>2, <2>3 DEF Dataflow!Publish, StageOfAll, SeenOfAll
  <1>5. CASE c \notin HasOutput
    <2>1. StageOfAll'[c] = "idle" /\ SeenOfAll'[c] = <<>>
      BY <1>1, <1>3, <1>5, OwnNodeAfter
    <2>2. /\ StageOfAll' = [StageOfAll EXCEPT ![c] = "idle"]
          /\ SeenOfAll' = [SeenOfAll EXCEPT ![c] = <<>>]
      BY <2>1, OneNode
    <2>. QED
      BY <1>1, <1>2, <1>3, <1>5, <2>2 DEF Dataflow!Publish, StageOfAll, SeenOfAll
  <1>. QED
    BY <1>4, <1>5

LEMMA SetOutputSimulates ==
  ASSUME DInv, NEW t \in Threads, Step(t), SetOutput(t)
  PROVE  Dataflow!Output(cur[t])
  <1>. DEFINE c == cur[t]
  <1>1. /\ InCell(t) /\ pc[t] = "output" /\ c \in Cells /\ pc'[t] = "unlock"
        /\ UNCHANGED <<cur, got, lock, val, inp>>
        /\ out' = [out EXCEPT ![c] = res[c]]
    BY DEF SetOutput, Goto, InCell, DInv, IInv, TypeOK
  <1>2. val[c] = res[c]
    BY <1>1 DEF DInv, IInv, OutputLag
  <1>3. lock[c] = t /\ StageOfAll[c] = "output"
    BY <1>1, OwnNode
  <1>4. StageOfAll'[c] = "idle" /\ SeenOfAll'[c] = <<>>
    BY <1>1, <1>3, OwnNodeAfter
  <1>5. /\ StageOfAll' = [StageOfAll EXCEPT ![c] = "idle"]
        /\ SeenOfAll' = [SeenOfAll EXCEPT ![c] = <<>>]
    BY <1>4, OneNode
  <1>. QED
    BY <1>1, <1>2, <1>3, <1>5 DEF Dataflow!Output, StageOfAll, SeenOfAll

-----------------------------------------------------------------------------
(* The other ways out of an execution.                                      *)
LEMMA WayOutSimulates ==
  ASSUME DInv, NEW t \in Threads, Step(t),
         SkipUndefined(t) \/ Throw(t) \/ BreakOut(t) \/ (Publish(t) /\ ~ret[cur[t]])
  PROVE  Dataflow!GiveUp(cur[t])
  <1>1. /\ InCell(t) /\ pc[t] \notin {"output", "unlock"} /\ cur[t] \in Cells
        /\ UNCHANGED <<cur, val, out>>
        /\ lock'[cur[t]] = NoThread \/ (UNCHANGED lock /\ pc'[t] = "unlock")
    <2>0. cur[t] \in Cells /\ pc \in [Threads -> PCs] /\ lock \in [Cells -> Threads \cup {NoThread}]
      BY DEF DInv, IInv, TypeOK
    <2>1. CASE SkipUndefined(t)
      BY <2>0, <2>1 DEF SkipUndefined, Release, InCell, dataVars
    <2>2. CASE Throw(t)
      BY <2>0, <2>2 DEF Throw, Release, InCell, dataVars
    <2>3. CASE BreakOut(t)
      BY <2>0, <2>3 DEF BreakOut, Release, InCell, dataVars
    <2>4. CASE Publish(t) /\ ~ret[cur[t]]
      BY <2>0, <2>4 DEF Publish, Goto, InCell
    <2>. QED
      BY <2>1, <2>2, <2>3, <2>4
  <1>2. lock[cur[t]] = t
    BY <1>1, OwnNode
  <1>3. StageOfAll'[cur[t]] = "idle" /\ SeenOfAll'[cur[t]] = <<>>
    BY <1>1, <1>2, OwnNodeAfter
  <1>. QED
    BY <1>1, <1>3, GivesUp

(* Steps inside an execution that nobody else can see.                      *)
LEMMA InnerStepStutters ==
  ASSUME DInv, NEW t \in Threads, Step(t),
         EnterBody(t) \/ Return(t) \/ NoReturn(t) \/ ScriptExit(t) \/ GoOn(t)
  PROVE  UNCHANGED Dataflow!vars
  <1>1. /\ InCell(t) /\ pc[t] \notin {"output", "unlock"} /\ cur[t] \in Cells
        /\ UNCHANGED <<cur, got, lock, val, out>>
        /\ pc'[t] \notin {"output", "unlock"}
    BY DEF EnterBody, Return, NoReturn, ScriptExit, GoOn, Goto, InCell, threadVars, dataVars,
           DInv, IInv, TypeOK
  <1>2. lock[cur[t]] = t /\ StageOfAll[cur[t]] = "reading" /\ SeenOfAll[cur[t]] = got[t]
    BY <1>1, OwnNode
  <1>3. StageOfAll'[cur[t]] = "reading" /\ SeenOfAll'[cur[t]] = got[t]
    BY <1>1, <1>2, OwnNodeAfter
  <1>. QED
    BY <1>1, <1>2, <1>3, Stutters

(* Steps outside of any node, and the unlock of one already seen as idle.   *)
LEMMA OuterStepStutters ==
  ASSUME DInv, NEW t \in Threads, Step(t),
         LoopExit(t) \/ Fetch(t) \/ Fail(t) \/ (TryLock(t) /\ lock[cur[t]] # NoThread) \/ Unlock(t)
  PROVE  UNCHANGED Dataflow!vars
  <1>1. cur[t] \in Cells /\ UNCHANGED <<val, out>>
    BY DEF LoopExit, Fetch, Fail, TryLock, Unlock, dataVars, DInv, IInv, TypeOK
  <1>2. CASE Unlock(t)
    <2>1. InCell(t) /\ pc[t] = "unlock" /\ UNCHANGED cur /\ lock'[cur[t]] = NoThread
      BY <1>1, <1>2 DEF Unlock, InCell, Release, DInv, IInv, TypeOK
    <2>. QED
      BY <1>1, <2>1, OwnNode, OwnNodeAfter, Stutters
  <1>3. CASE ~Unlock(t)
    <2>1. ~InCell(t) /\ UNCHANGED lock
      BY <1>3 DEF LoopExit, Fetch, Fail, TryLock, InCell
    <2>2. lock[cur[t]] # NoThread => lock[cur[t]] \in Threads \ {t}
      BY <1>1, <2>1 DEF DInv, HolderInside
    <2>3. StageOfAll'[cur[t]] = StageOfAll[cur[t]] /\ SeenOfAll'[cur[t]] = SeenOfAll[cur[t]]
      BY <1>1, <2>1, <2>2, SameNode, Elsewhere DEF DInv
    <2>. QED
      BY <1>1, <2>3, Stutters
  <1>. QED
    BY <1>2, <1>3

LEMMA StepSimulates ==
  ASSUME DInv, NEW t \in Threads, Step(t)
  PROVE  [Dataflow!Next]_(Dataflow!vars)
  <1>1. cur[t] \in Cells
    BY DEF DInv, IInv, TypeOK
  <1>2. CASE TryLock(t) /\ lock[cur[t]] = NoThread
    BY <1>1, <1>2, TryLockSimulates DEF Dataflow!Next
  <1>3. CASE ReadArg(t)
    BY <1>1, <1>3, ReadArgSimulates DEF Dataflow!Next
  <1>4. CASE Publish(t) /\ ret[cur[t]]
    BY <1>1, <1>4, PublishSimulates DEF Dataflow!Next
  <1>5. CASE SetOutput(t)
    BY <1>1, <1>5, SetOutputSimulates DEF Dataflow!Next
  <1>6. CASE SkipUndefined(t) \/ Throw(t) \/ BreakOut(t) \/ (Publish(t) /\ ~ret[cur[t]])
    BY <1>1, <1>6, WayOutSimulates DEF Dataflow!Next
  <1>7. CASE EnterBody(t) \/ Return(t) \/ NoReturn(t) \/ ScriptExit(t) \/ GoOn(t)
    BY <1>7, InnerStepStutters
  <1>8. CASE LoopExit(t) \/ Fetch(t) \/ Fail(t) \/ (TryLock(t) /\ lock[cur[t]] # NoThread) \/ Unlock(t)
    BY <1>8, OuterStepStutters
  <1>. QED
    BY <1>2, <1>3, <1>4, <1>5, <1>6, <1>7, <1>8 DEF Step

LEMMA HostSimulates ==
  ASSUME DInv, DInv', HostStep
  PROVE  [Dataflow!Next]_(Dataflow!vars)
  <1>1. UNCHANGED <<StageOfAll, SeenOfAll, val, out>>
    BY HostNodes
  <1>2. CASE \E i \in Inputs : SetInput(i)
    <2>1. PICK i \in Inputs : SetInput(i)
      BY <1>2
    <2>2. inp' = [inp EXCEPT ![i] = inp'[i]] /\ inp'[i] \in Values
      BY <2>1 DEF SetInput, DInv, IInv, TypeOK
    <2>3. Dataflow!Feed(i)
      BY <1>1, <2>2 DEF Dataflow!Feed, StageOfAll, SeenOfAll
    <2>. QED
      BY <2>3 DEF Dataflow!Next
  <1>3. CASE ~\E i \in Inputs : SetInput(i)
    <2>1. UNCHANGED inp
      BY <1>3 DEF HostStep, RunMt, StopMt, StopMtReturn, Wait, WaitReturn, Terminate, dataVars
    <2>. QED
      BY <1>1, <2>1 DEF Dataflow!vars, StageOfAll, SeenOfAll
  <1>. QED
    BY <1>2, <1>3

LEMMA InitSimulates == Init => Dataflow!Init
  BY DEF Init, Dataflow!Init, Stage, Seen

(* Until stop_mt and a second run_mt the pool's threads, locks and flags    *)
(* implement one sequential process per node: "Nodes execute independently  *)
(* of one another".                                                         *)
THEOREM Implementation ==
  ASSUME MaxRuns = 1
  PROVE  Spec => ImplementsDataflow
  <1>1. Init => DInv
    BY InitDInv
  <1>2. DInv /\ [Next]_vars => DInv'
    BY NextDInv
  <1>3. DInv /\ DInv' /\ [Next]_vars => [Dataflow!Next]_(Dataflow!vars)
    <2>. SUFFICES ASSUME DInv, DInv', [Next]_vars PROVE [Dataflow!Next]_(Dataflow!vars)
      OBVIOUS
    <2>1. CASE UNCHANGED vars
      BY <2>1 DEF Dataflow!vars, Stage, Seen, vars, threadVars, dataVars
    <2>. QED
      BY <2>1, StepSimulates, HostSimulates DEF Next
  <1>. QED
    BY <1>1, <1>2, <1>3, InitSimulates, PTL DEF Spec, ImplementsDataflow, Dataflow!Spec

(* Within one run_mt, what a thread is about to hand to the host was        *)
(* computed from the arguments of that very execution.                      *)
THEOREM FirstRunPublishesOwnResult ==
  ASSUME MaxRuns = 1
  PROVE  Spec => []PublishesOwnResult
  <1>1. Init => DInv
    BY InitDInv
  <1>2. DInv /\ [Next]_vars => DInv'
    BY NextDInv
  <1>3. DInv => PublishesOwnResult
    BY DEF DInv, OwnReturn, PublishesOwnResult
  <1>. QED
    BY <1>1, <1>2, <1>3, PTL DEF Spec
=============================================================================
