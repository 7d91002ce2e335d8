------------------------ MODULE CellSchedulerProofs ------------------------
(***************************************************************************)
(* Safety of the node scheduler for every number of threads, every graph   *)
(* and every node body.                                                    *)
(***************************************************************************)
EXTENDS CellScheduler, SequenceTheorems, TLAPS

(* A node is held by the thread at work on it.                              *)
LockHeld == \A t \in Threads : InCell(t) => lock[cur[t]] = t

(* A body starts with exactly its arguments on the frame.                   *)
ArgsRead ==
  \A t \in Threads :
    /\ pc[t] = "args" => Len(got[t]) <= Len(Args[cur[t]])
    /\ pc[t] = "eval" => Len(got[t]) = Len(Args[cur[t]])

(* Output and value differ only under the thread about to write the output. *)
OutputLag ==
  /\ \A c \in HasOutput :
       \/ out[c] = val[c]
       \/ \E t \in Threads : pc[t] = "output" /\ cur[t] = c
  /\ \A t \in Threads : pc[t] = "output" => val[cur[t]] = res[cur[t]]

(* Threads exist only in mode multi, which stop_mt leaves after the join.   *)
PoolMode ==
  /\ mode = "none" => ~started /\ host = "idle"
  /\ ~started => \A t \in Threads : pc[t] = "off"

IInv == TypeOK /\ LockHeld /\ ArgsRead /\ OutputLag /\ PoolMode

Now(c) == [k \in 1 .. Len(Args[c]) |-> ValueOf(Args[c][k])]

(* What a thread's node will be given if nothing more changes.              *)
OnFrame(t) ==
  [k \in 1 .. Len(Args[cur[t]]) |->
    IF k <= Len(got[t]) THEN got[t][k] ELSE ValueOf(Args[cur[t]][k])]

(* A node's value, and the result about to be published, also one an        *)
(* abandoned execution has left behind, are in this order and no newer than *)
(* what the node's arguments give now.                                      *)
InOrder ==
  \A c \in NeverCutShort :
    /\ val[c] <= Body(c, Now(c))
    /\ ret[c] => val[c] <= res[c] /\ res[c] <= Body(c, Now(c))

(* The arguments read so far are no newer than their sources, and still new *)
(* enough for the node's value.                                             *)
FrameInOrder ==
  \A t \in Threads, c \in NeverCutShort :
    pc[t] \in {"args", "eval"} /\ cur[t] = c =>
      /\ \A k \in 1 .. Len(Args[c]) : OnFrame(t)[k] <= ValueOf(Args[c][k])
      /\ val[c] <= Body(c, OnFrame(t))

VInv == IInv /\ InOrder /\ FrameInOrder

-----------------------------------------------------------------------------
LEMMA WrapInCells == ASSUME NEW i \in Cells PROVE Wrap(i) \in Cells
  BY SchedulerAssumption DEF Wrap, Cells

(* The value a thread reads is a value.                                     *)
LEMMA ValueOfType ==
  ASSUME TypeOK, NEW s \in Sources
  PROVE  ValueOf(s) \in Values
  BY DEF TypeOK, Sources, ValueOf

(* The next argument's source exists while there are more arguments.        *)
LEMMA NextArgType ==
  ASSUME TypeOK, NEW t \in Threads, MoreArgs(t)
  PROVE  NextArg(t) \in Sources
  <1>1. cur[t] \in Cells /\ got[t] \in Seq(Values)
    BY DEF TypeOK
  <1>2. Args[cur[t]] \in Seq(Sources)
    BY <1>1, SchedulerAssumption
  <1>3. Len(got[t]) + 1 \in 1 .. Len(Args[cur[t]])
    BY <1>1, <1>2 DEF MoreArgs
  <1>. QED
    BY <1>2, <1>3 DEF NextArg

(* A body applied to the arguments it read returns a value.                 *)
LEMMA BodyType ==
  ASSUME TypeOK, ArgsRead, NEW t \in Threads, pc[t] = "eval"
  PROVE  Body(cur[t], got[t]) \in Values
  <1>1. cur[t] \in Cells /\ got[t] \in Seq(Values)
    BY DEF TypeOK
  <1>2. Len(got[t]) = Len(Args[cur[t]])
    BY DEF ArgsRead
  <1>3. got[t] \in [1 .. Len(got[t]) -> Values]
    BY <1>1, LenProperties
  <1>. QED
    BY <1>1, <1>2, <1>3, BodyAssumption

LEMMA InitIInv == Init => IInv
  <1>. SUFFICES ASSUME Init PROVE IInv
    OBVIOUS
  <1>. USE SchedulerAssumption
  <1>0. 0 \in Cells /\ Undef \in Values /\ <<>> \in Seq(Values)
    BY DEF Cells, Values, Undef
  <1>1. TypeOK
    BY <1>0 DEF Init, TypeOK, PCs
  <1>2. LockHeld /\ ArgsRead /\ PoolMode
    BY DEF Init, LockHeld, InCell, ArgsRead, PoolMode
  <1>3. OutputLag
    BY DEF Init, OutputLag, Cells
  <1>. QED
    BY <1>1, <1>2, <1>3 DEF IInv

(* What a step does not touch it does not break.                            *)
LEMMA Undisturbed ==
  ASSUME IInv, UNCHANGED <<pc, cur, got, lock, ctxVars, val, out>>
  PROVE  LockHeld' /\ ArgsRead' /\ OutputLag'
  BY DEF IInv, LockHeld, InCell, ArgsRead, OutputLag, ctxVars

(* A thread takes steps only while the pool is up, and leaves it up.        *)
LEMMA StepPoolMode ==
  ASSUME IInv, NEW t \in Threads, Step(t)
  PROVE  PoolMode'
  <1>1. pc[t] # "off" /\ UNCHANGED hostVars
    BY DEF Step, LoopExit, Fetch, TryLock, ReadArg, SkipUndefined, EnterBody, Return, NoReturn, ScriptExit, Throw, Fail, BreakOut, GoOn, Publish, SetOutput, Unlock, threadVars
  <1>. QED
    BY <1>1 DEF IInv, PoolMode, hostVars

(* Every host operation keeps the invariant.                                *)
LEMMA HostKeepsIInv == ASSUME IInv, HostStep PROVE IInv'
  <1>1. ASSUME RunMt PROVE IInv'
    <2>1. 0 \in Cells
      BY SchedulerAssumption DEF Cells
    <2>2. TypeOK'
      <3>1. CASE started
        <4>1. UNCHANGED <<runs, started, flagVars, pc, loop, host, cur, got, index, lock,
                          ctxVars, dataVars>> /\ mode' = "multi"
          BY <1>1, <3>1 DEF RunMt
        <4>. QED
          BY <4>1 DEF IInv, TypeOK, flagVars, ctxVars, dataVars
      <3>2. CASE ~started
        <4>1. /\ UNCHANGED <<host, cur, got, index, lock, ctxVars, dataVars>>
              /\ mode' = "multi" /\ runs' = runs + 1
              /\ started' = TRUE /\ term' = FALSE /\ failed' = FALSE
              /\ pc' = [t \in Threads |-> "loop"] /\ loop' = [t \in Threads |-> 0]
          BY <1>1, <3>2 DEF RunMt
        <4>2. pc' \in [Threads -> PCs] /\ loop' \in [Threads -> Cells]
          BY <2>1, <4>1 DEF PCs
        <4>3. runs' \in Nat
          BY <4>1 DEF IInv, TypeOK
        <4>. HIDE <1>1
        <4>. QED
          BY <4>1, <4>2, <4>3 DEF IInv, TypeOK, ctxVars, dataVars
      <3>. QED
        BY <3>1, <3>2
    <2>3. PoolMode'
      BY <1>1 DEF IInv, PoolMode, RunMt
    <2>4. CASE started
      BY <1>1, <2>2, <2>3, <2>4, Undisturbed DEF IInv, RunMt, dataVars
    <2>5. CASE ~started
      <3>1. \A t \in Threads : pc[t] = "off" /\ pc'[t] = "loop"
        BY <1>1, <2>5 DEF IInv, PoolMode, RunMt
      <3>. QED
        BY <1>1, <2>2, <2>3, <3>1
           DEF IInv, LockHeld, InCell, ArgsRead, OutputLag, RunMt, ctxVars, dataVars
    <2>. QED
      BY <2>2, <2>4, <2>5 DEF IInv, TypeOK
  <1>2. ASSUME StopMtReturn PROVE IInv'
    <2>1. \A t \in Threads : pc[t] # "output" /\ pc'[t] = "off"
      BY <1>2 DEF StopMtReturn
    <2>2. TypeOK' /\ PoolMode'
      BY <1>2, <2>1 DEF IInv, TypeOK, PCs, PoolMode, StopMtReturn, flagVars, ctxVars, dataVars
    <2>. QED
      BY <1>2, <2>1, <2>2
         DEF IInv, LockHeld, InCell, ArgsRead, OutputLag, StopMtReturn, ctxVars, dataVars

  <1>3. ASSUME StopMt PROVE IInv'
    <2>1. TypeOK' /\ PoolMode'
      BY <1>3 DEF IInv, TypeOK, PoolMode, StopMt, threadVars, ctxVars, dataVars
    <2>. QED
      BY <1>3, <2>1, Undisturbed DEF IInv, StopMt, threadVars, dataVars
  <1>4. ASSUME Wait PROVE IInv'
    <2>1. TypeOK' /\ PoolMode'
      BY <1>4 DEF IInv, TypeOK, PoolMode, Wait, flagVars, threadVars, ctxVars, dataVars
    <2>. QED
      BY <1>4, <2>1, Undisturbed DEF IInv, Wait, threadVars, dataVars
  <1>5. ASSUME WaitReturn PROVE IInv'
    <2>1. TypeOK' /\ PoolMode'
      BY <1>5 DEF IInv, TypeOK, PoolMode, WaitReturn, flagVars, threadVars, ctxVars, dataVars
    <2>. QED
      BY <1>5, <2>1, Undisturbed DEF IInv, WaitReturn, threadVars, dataVars
  <1>6. ASSUME Terminate PROVE IInv'
    <2>1. TypeOK' /\ PoolMode'
      BY <1>6 DEF IInv, TypeOK, PoolMode, Terminate, hostVars, threadVars, ctxVars, dataVars
    <2>. QED
      BY <1>6, <2>1, Undisturbed DEF IInv, Terminate, threadVars, dataVars
  <1>7. ASSUME NEW i \in Inputs, SetInput(i) PROVE IInv'
    <2>1. inp[i] + 1 \in Values
      BY <1>7, SchedulerAssumption DEF IInv, TypeOK, Values, SetInput
    <2>2. TypeOK' /\ PoolMode'
      BY <1>7, <2>1 DEF IInv, TypeOK, PoolMode, SetInput, hostVars, flagVars, threadVars, ctxVars
    <2>. QED
      BY <1>7, <2>2, Undisturbed DEF IInv, SetInput, threadVars
  <1>. QED
    BY <1>1, <1>2, <1>3, <1>4, <1>5, <1>6, <1>7 DEF HostStep

(* A thread's steps keep the types.                                         *)
LEMMA StepTypeOK ==
  ASSUME IInv, NEW t \in Threads, Step(t)
  PROVE  TypeOK'
  <1>1. CASE LoopExit(t)
    BY <1>1 DEF IInv, TypeOK, PCs, LoopExit, Goto, hostVars, flagVars, ctxVars, dataVars
  <1>2. CASE Fetch(t)
    <2>1. Wrap(index) \in Cells /\ index \in Cells /\ loop[t] \in Cells
      BY WrapInCells DEF IInv, TypeOK
    <2>. QED
      BY <1>2, <2>1 DEF IInv, TypeOK, PCs, Fetch, Goto, hostVars, flagVars, ctxVars, dataVars
  <1>3. CASE TryLock(t)
    <2>1. loop[t] \in Cells /\ cur[t] \in Cells /\ <<>> \in Seq(Values)
      BY DEF IInv, TypeOK
    <2>2. Wrap(loop[t]) \in Cells
      BY <2>1, WrapInCells
    <2>3. UNCHANGED <<hostVars, flagVars, cur, index, ctxVars, dataVars>>
      BY <1>3 DEF TryLock
    <2>4. CASE lock[cur[t]] = NoThread
      <3>1. /\ lock' = [lock EXCEPT ![cur[t]] = t] /\ got' = [got EXCEPT ![t] = <<>>]
            /\ pc' = [pc EXCEPT ![t] = "args"] /\ UNCHANGED loop
        BY <1>3, <2>4 DEF TryLock, Goto
      <3>2. lock' \in [Cells -> Threads \cup {NoThread}] /\ got' \in [Threads -> Seq(Values)]
        BY <2>1, <3>1 DEF IInv, TypeOK
      <3>3. pc' \in [Threads -> PCs]
        BY <3>1 DEF IInv, TypeOK, PCs
      <3>. QED
        BY <2>3, <3>1, <3>2, <3>3 DEF IInv, TypeOK, hostVars, flagVars, ctxVars, dataVars
    <2>5. CASE lock[cur[t]] # NoThread
      <3>1. /\ loop' = [loop EXCEPT ![t] = Wrap(loop[t])]
            /\ pc' = [pc EXCEPT ![t] = "loop"] /\ UNCHANGED <<lock, got>>
        BY <1>3, <2>5 DEF TryLock, Goto, Advance
      <3>2. loop' \in [Threads -> Cells]
        BY <2>2, <3>1 DEF IInv, TypeOK
      <3>3. pc' \in [Threads -> PCs]
        BY <3>1 DEF IInv, TypeOK, PCs
      <3>. QED
        BY <2>3, <3>1, <3>2, <3>3 DEF IInv, TypeOK, hostVars, flagVars, ctxVars, dataVars
    <2>. QED
      BY <2>4, <2>5
  <1>4. CASE ReadArg(t)
    <2>1. ValueOf(NextArg(t)) \in Values
      BY <1>4, NextArgType, ValueOfType DEF IInv, ReadArg
    <2>2. Append(got[t], ValueOf(NextArg(t))) \in Seq(Values)
      BY <2>1 DEF IInv, TypeOK
    <2>. QED
      BY <1>4, <2>2 DEF IInv, TypeOK, ReadArg, hostVars, flagVars, ctxVars, dataVars
  <1>5. CASE SkipUndefined(t)
    BY <1>5 DEF IInv, TypeOK, PCs, SkipUndefined, Goto, Release, hostVars, flagVars, ctxVars, dataVars
  <1>6. CASE EnterBody(t)
    BY <1>6 DEF IInv, TypeOK, PCs, EnterBody, Goto, hostVars, flagVars, ctxVars, dataVars
  <1>7. CASE Return(t)
    <2>1. Body(cur[t], got[t]) \in Values
      BY <1>7, BodyType DEF IInv, Return
    <2>2. Undef \in Values
      BY SchedulerAssumption DEF Undef, Values
    <2>. QED
      BY <1>7, <2>1, <2>2 DEF IInv, TypeOK, PCs, Return, Goto, hostVars, flagVars, dataVars
  <1>8. CASE NoReturn(t)
    BY <1>8 DEF IInv, TypeOK, PCs, NoReturn, Goto, hostVars, flagVars, dataVars
  <1>9. CASE ScriptExit(t)
    BY <1>9 DEF IInv, TypeOK, PCs, ScriptExit, hostVars, threadVars, ctxVars, dataVars
  <1>10. CASE Throw(t)
    BY <1>10 DEF IInv, TypeOK, PCs, Throw, Goto, Release, hostVars, flagVars, ctxVars, dataVars
  <1>11. CASE Fail(t)
    BY <1>11 DEF IInv, TypeOK, PCs, Fail, Goto, hostVars, ctxVars, dataVars
  <1>12. CASE BreakOut(t)
    BY <1>12 DEF IInv, TypeOK, PCs, BreakOut, Goto, Release, hostVars, flagVars, ctxVars, dataVars
  <1>16. CASE GoOn(t)
    BY <1>16 DEF IInv, TypeOK, PCs, GoOn, Goto, hostVars, flagVars, ctxVars, dataVars
  <1>13. CASE Publish(t)
    <2>1. res[cur[t]] \in Values
      BY DEF IInv, TypeOK
    <2>2. val' \in [Cells -> Values]
      BY <1>13, <2>1 DEF IInv, TypeOK, Publish
    <2>3. pc' \in [Threads -> PCs]
      BY <1>13 DEF IInv, TypeOK, PCs, Publish, Goto
    <2>. QED
      BY <1>13, <2>2, <2>3 DEF IInv, TypeOK, Publish, hostVars, flagVars, ctxVars
  <1>14. CASE SetOutput(t)
    BY <1>14 DEF IInv, TypeOK, PCs, SetOutput, Goto, hostVars, flagVars, ctxVars
  <1>15. CASE Unlock(t)
    <2>1. Wrap(loop[t]) \in Cells
      BY WrapInCells DEF IInv, TypeOK
    <2>. QED
      BY <1>15, <2>1 DEF IInv, TypeOK, PCs, Unlock, Goto, Release, Advance, hostVars, flagVars, dataVars
  <1>. QED
    BY <1>1, <1>2, <1>3, <1>4, <1>5, <1>6, <1>7, <1>8, <1>9, <1>10, <1>11, <1>12, <1>13, <1>14, <1>15, <1>16 DEF Step

(* The holder of a node stays the thread at work on it.                     *)
LEMMA StepLockHeld ==
  ASSUME IInv, NEW t \in Threads, Step(t)
  PROVE  LockHeld'
  <1>1. CASE LoopExit(t)
    BY <1>1 DEF IInv, LockHeld, InCell, TypeOK, LoopExit, Goto, hostVars, flagVars, ctxVars, dataVars
  <1>2. CASE Fetch(t)
    BY <1>2 DEF IInv, LockHeld, InCell, TypeOK, Fetch, Goto, hostVars, flagVars, ctxVars, dataVars
  <1>3. CASE TryLock(t)
    <2>1. CASE lock[cur[t]] = NoThread
      <3>1. \A u \in Threads \ {t} : InCell(u) => cur[u] # cur[t]
        BY <2>1, SchedulerAssumption DEF IInv, LockHeld
      <3>2. /\ lock' = [lock EXCEPT ![cur[t]] = t] /\ cur' = cur
            /\ pc' = [pc EXCEPT ![t] = "args"]
        BY <1>3, <2>1 DEF TryLock, Goto
      <3>3. lock'[cur[t]] = t
        BY <1>3, <3>2 DEF IInv, TypeOK, TryLock
      <3>4. ASSUME NEW u \in Threads \ {t}, InCell(u)' PROVE lock'[cur[u]] = u
        <4>1. InCell(u)
          BY <3>2, <3>4 DEF IInv, TypeOK, InCell
        <4>. QED
          BY <3>1, <3>2, <4>1 DEF IInv, TypeOK, LockHeld
      <3>. QED
        BY <3>2, <3>3, <3>4 DEF LockHeld
    <2>2. CASE lock[cur[t]] # NoThread
      <3>1. UNCHANGED <<lock, cur>> /\ pc' = [pc EXCEPT ![t] = "loop"]
        BY <1>3, <2>2 DEF TryLock, Goto
      <3>. QED
        BY <3>1 DEF IInv, LockHeld, InCell, TypeOK
    <2>. QED
      BY <2>1, <2>2
  <1>4. CASE ReadArg(t)
    BY <1>4 DEF IInv, LockHeld, InCell, TypeOK, ReadArg, hostVars, flagVars, ctxVars, dataVars
  <1>5. CASE SkipUndefined(t)
    BY <1>5 DEF IInv, LockHeld, InCell, TypeOK, SkipUndefined, Goto, Release, hostVars, flagVars, ctxVars, dataVars
  <1>6. CASE EnterBody(t)
    BY <1>6 DEF IInv, LockHeld, InCell, TypeOK, EnterBody, Goto, hostVars, flagVars, ctxVars, dataVars
  <1>7. CASE Return(t)
    BY <1>7 DEF IInv, LockHeld, InCell, TypeOK, Return, Goto, hostVars, flagVars, dataVars
  <1>8. CASE NoReturn(t)
    BY <1>8 DEF IInv, LockHeld, InCell, TypeOK, NoReturn, Goto, hostVars, flagVars, dataVars
  <1>9. CASE ScriptExit(t)
    BY <1>9 DEF IInv, LockHeld, InCell, TypeOK, ScriptExit, hostVars, threadVars, ctxVars, dataVars
  <1>10. CASE Throw(t)
    BY <1>10 DEF IInv, LockHeld, InCell, TypeOK, Throw, Goto, Release, hostVars, flagVars, ctxVars, dataVars
  <1>11. CASE Fail(t)
    BY <1>11 DEF IInv, LockHeld, InCell, TypeOK, Fail, Goto, hostVars, ctxVars, dataVars
  <1>12. CASE BreakOut(t)
    BY <1>12 DEF IInv, LockHeld, InCell, TypeOK, BreakOut, Goto, Release, hostVars, flagVars, ctxVars, dataVars
  <1>16. CASE GoOn(t)
    BY <1>16 DEF IInv, LockHeld, InCell, TypeOK, GoOn, Goto, hostVars, flagVars, ctxVars, dataVars
  <1>13. CASE Publish(t)
    BY <1>13 DEF IInv, LockHeld, InCell, TypeOK, Publish, Goto, hostVars, flagVars, ctxVars
  <1>14. CASE SetOutput(t)
    BY <1>14 DEF IInv, LockHeld, InCell, TypeOK, SetOutput, Goto, hostVars, flagVars, ctxVars
  <1>15. CASE Unlock(t)
    BY <1>15 DEF IInv, LockHeld, InCell, TypeOK, Unlock, Goto, Release, Advance, hostVars, flagVars, dataVars
  <1>. QED
    BY <1>1, <1>2, <1>3, <1>4, <1>5, <1>6, <1>7, <1>8, <1>9, <1>10, <1>11, <1>12, <1>13, <1>14, <1>15, <1>16 DEF Step

(* A body starts only with all of its arguments on the frame.               *)
LEMMA StepArgsRead ==
  ASSUME IInv, NEW t \in Threads, Step(t)
  PROVE  ArgsRead'
  <1>1. CASE LoopExit(t)
    BY <1>1 DEF IInv, ArgsRead, TypeOK, LoopExit, Goto, hostVars, flagVars, ctxVars, dataVars
  <1>2. CASE Fetch(t)
    BY <1>2 DEF IInv, ArgsRead, TypeOK, Fetch, Goto, hostVars, flagVars, ctxVars, dataVars
  <1>3. CASE TryLock(t)
    <2>1. Len(<<>>) <= Len(Args[cur[t]])
      BY SchedulerAssumption DEF IInv, TypeOK
    <2>. QED
      BY <1>3, <2>1 DEF IInv, ArgsRead, TypeOK, TryLock, Goto
  <1>4. CASE ReadArg(t)
    <2>1. cur[t] \in Cells /\ got[t] \in Seq(Values) /\ Args[cur[t]] \in Seq(Sources)
      BY SchedulerAssumption DEF IInv, TypeOK
    <2>2. Len(got'[t]) = Len(got[t]) + 1 /\ Len(got'[t]) <= Len(Args[cur[t]])
      BY <1>4, <2>1 DEF IInv, TypeOK, ReadArg, MoreArgs
    <2>. QED
      BY <1>4, <2>2 DEF IInv, ArgsRead, TypeOK, ReadArg
  <1>5. CASE SkipUndefined(t)
    BY <1>5 DEF IInv, ArgsRead, TypeOK, SkipUndefined, Goto, Release, hostVars, flagVars, ctxVars, dataVars
  <1>6. CASE EnterBody(t)
    <2>1. cur[t] \in Cells /\ got[t] \in Seq(Values) /\ Args[cur[t]] \in Seq(Sources)
      BY SchedulerAssumption DEF IInv, TypeOK
    <2>2. Len(got[t]) = Len(Args[cur[t]])
      BY <1>6, <2>1 DEF IInv, ArgsRead, EnterBody, MoreArgs
    <2>. QED
      BY <1>6, <2>2 DEF IInv, ArgsRead, TypeOK, EnterBody, Goto
  <1>7. CASE Return(t)
    BY <1>7 DEF IInv, ArgsRead, TypeOK, Return, Goto, hostVars, flagVars, dataVars
  <1>8. CASE NoReturn(t)
    BY <1>8 DEF IInv, ArgsRead, TypeOK, NoReturn, Goto, hostVars, flagVars, dataVars
  <1>9. CASE ScriptExit(t)
    BY <1>9 DEF IInv, ArgsRead, TypeOK, ScriptExit, hostVars, threadVars, ctxVars, dataVars
  <1>10. CASE Throw(t)
    BY <1>10 DEF IInv, ArgsRead, TypeOK, Throw, Goto, Release, hostVars, flagVars, ctxVars, dataVars
  <1>11. CASE Fail(t)
    BY <1>11 DEF IInv, ArgsRead, TypeOK, Fail, Goto, hostVars, ctxVars, dataVars
  <1>12. CASE BreakOut(t)
    BY <1>12 DEF IInv, ArgsRead, TypeOK, BreakOut, Goto, Release, hostVars, flagVars, ctxVars, dataVars
  <1>16. CASE GoOn(t)
    BY <1>16 DEF IInv, ArgsRead, TypeOK, GoOn, Goto, hostVars, flagVars, ctxVars, dataVars
  <1>13. CASE Publish(t)
    BY <1>13 DEF IInv, ArgsRead, TypeOK, Publish, Goto, hostVars, flagVars, ctxVars
  <1>14. CASE SetOutput(t)
    BY <1>14 DEF IInv, ArgsRead, TypeOK, SetOutput, Goto, hostVars, flagVars, ctxVars
  <1>15. CASE Unlock(t)
    BY <1>15 DEF IInv, ArgsRead, TypeOK, Unlock, Goto, Release, Advance, hostVars, flagVars, dataVars
  <1>. QED
    BY <1>1, <1>2, <1>3, <1>4, <1>5, <1>6, <1>7, <1>8, <1>9, <1>10, <1>11, <1>12, <1>13, <1>14, <1>15, <1>16 DEF Step

(* Value and output part only while the thread that set the one goes on to  *)
(* set the other.                                                           *)
LEMMA StepOutputLag ==
  ASSUME IInv, NEW t \in Threads, Step(t)
  PROVE  OutputLag'
  <1>1. CASE LoopExit(t)
    BY <1>1 DEF IInv, OutputLag, LockHeld, InCell, TypeOK, LoopExit, Goto, hostVars, flagVars, ctxVars, dataVars
  <1>2. CASE Fetch(t)
    BY <1>2 DEF IInv, OutputLag, LockHeld, InCell, TypeOK, Fetch, Goto, hostVars, flagVars, ctxVars, dataVars
  <1>3. CASE TryLock(t)
    BY <1>3 DEF IInv, OutputLag, LockHeld, InCell, TypeOK, TryLock, Goto, Advance, hostVars, flagVars, ctxVars, dataVars
  <1>4. CASE ReadArg(t)
    BY <1>4 DEF IInv, OutputLag, LockHeld, InCell, TypeOK, ReadArg, hostVars, flagVars, ctxVars, dataVars
  <1>5. CASE SkipUndefined(t)
    BY <1>5 DEF IInv, OutputLag, LockHeld, InCell, TypeOK, SkipUndefined, Goto, Release, hostVars, flagVars, ctxVars, dataVars
  <1>6. CASE EnterBody(t)
    BY <1>6 DEF IInv, OutputLag, LockHeld, InCell, TypeOK, EnterBody, Goto, hostVars, flagVars, ctxVars, dataVars
  <1>7. CASE Return(t)
    BY <1>7 DEF IInv, OutputLag, LockHeld, InCell, TypeOK, Return, Goto, hostVars, flagVars, dataVars
  <1>8. CASE NoReturn(t)
    BY <1>8 DEF IInv, OutputLag, LockHeld, InCell, TypeOK, NoReturn, Goto, hostVars, flagVars, dataVars
  <1>9. CASE ScriptExit(t)
    BY <1>9 DEF IInv, OutputLag, LockHeld, InCell, TypeOK, ScriptExit, hostVars, threadVars, ctxVars, dataVars
  <1>10. CASE Throw(t)
    BY <1>10 DEF IInv, OutputLag, LockHeld, InCell, TypeOK, Throw, Goto, Release, hostVars, flagVars, ctxVars, dataVars
  <1>11. CASE Fail(t)
    BY <1>11 DEF IInv, OutputLag, LockHeld, InCell, TypeOK, Fail, Goto, hostVars, ctxVars, dataVars
  <1>12. CASE BreakOut(t)
    BY <1>12 DEF IInv, OutputLag, LockHeld, InCell, TypeOK, BreakOut, Goto, Release, hostVars, flagVars, ctxVars, dataVars
  <1>16. CASE GoOn(t)
    BY <1>16 DEF IInv, OutputLag, LockHeld, InCell, TypeOK, GoOn, Goto, hostVars, flagVars, ctxVars, dataVars
  <1>13. CASE Publish(t)
    <2>1. \A u \in Threads \ {t} : InCell(u) => cur[u] # cur[t]
      BY <1>13 DEF IInv, LockHeld, InCell, Publish
    <2>2. /\ UNCHANGED <<cur, ret, res, out>>
          /\ cur[t] \in Cells /\ pc[t] = "publish"
          /\ \A u \in Threads \ {t} : pc'[u] = pc[u]
      BY <1>13 DEF IInv, TypeOK, Publish, Goto, ctxVars
    <2>3. CASE ~ret[cur[t]]
      BY <1>13, <2>2, <2>3 DEF IInv, OutputLag, TypeOK, Publish, Goto
    <2>4. CASE ret[cur[t]]
      <3>1. /\ val' = [val EXCEPT ![cur[t]] = res[cur[t]]]
            /\ pc'[t] = IF cur[t] \in HasOutput THEN "output" ELSE "unlock"
        BY <1>13, <2>4 DEF IInv, TypeOK, Publish, Goto
      <3>2. val'[cur[t]] = res[cur[t]] /\ \A c \in Cells \ {cur[t]} : val'[c] = val[c]
        BY <2>2, <3>1 DEF IInv, TypeOK
      <3>3. ASSUME NEW u \in Threads, pc'[u] = "output" PROVE val'[cur'[u]] = res'[cur'[u]]
        <4>1. CASE u = t
          BY <2>2, <3>2, <4>1
        <4>2. CASE u # t
          <5>1. pc[u] = "output" /\ cur[u] # cur[t] /\ cur[u] \in Cells
            BY <2>1, <2>2, <3>3, <4>2 DEF InCell, IInv, TypeOK
          <5>. QED
            BY <2>2, <3>2, <5>1 DEF IInv, OutputLag
        <4>. QED
          BY <4>1, <4>2
      <3>4. ASSUME NEW c \in HasOutput
            PROVE  out'[c] = val'[c] \/ \E u \in Threads : pc'[u] = "output" /\ cur'[u] = c
        <4>1. CASE c = cur[t]
          BY <2>2, <3>1, <4>1
        <4>2. CASE c # cur[t]
          <5>1. out'[c] = out[c] /\ val'[c] = val[c]
            BY <2>2, <3>2, <4>2, SchedulerAssumption
          <5>2. CASE out[c] = val[c]
            BY <5>1, <5>2
          <5>3. ASSUME NEW u \in Threads, pc[u] = "output", cur[u] = c
                PROVE  pc'[u] = "output" /\ cur'[u] = c
            BY <2>2, <4>2, <5>3
          <5>. QED
            BY <5>2, <5>3 DEF IInv, OutputLag
        <4>. QED
          BY <4>1, <4>2
      <3>. QED
        BY <3>3, <3>4 DEF OutputLag
    <2>. QED
      BY <2>3, <2>4
  <1>14. CASE SetOutput(t)
    BY <1>14 DEF IInv, OutputLag, LockHeld, InCell, TypeOK, SetOutput, Goto, hostVars, flagVars, ctxVars
  <1>15. CASE Unlock(t)
    BY <1>15 DEF IInv, OutputLag, LockHeld, InCell, TypeOK, Unlock, Goto, Release, Advance, hostVars, flagVars, dataVars
  <1>. QED
    BY <1>1, <1>2, <1>3, <1>4, <1>5, <1>6, <1>7, <1>8, <1>9, <1>10, <1>11, <1>12, <1>13, <1>14, <1>15, <1>16 DEF Step

(* The invariant is inductive.                                              *)
LEMMA NextIInv == IInv /\ [Next]_vars => IInv'
  <1>. SUFFICES ASSUME IInv, [Next]_vars PROVE IInv'
    OBVIOUS
  <1>1. CASE HostStep
    BY <1>1, HostKeepsIInv
  <1>2. ASSUME NEW t \in Threads, Step(t) PROVE IInv'
    BY <1>2, StepTypeOK, StepLockHeld, StepArgsRead, StepOutputLag, StepPoolMode DEF IInv
  <1>3. CASE UNCHANGED vars
    <2>1. TypeOK' /\ PoolMode'
      BY <1>3 DEF IInv, TypeOK, PoolMode, vars, hostVars, flagVars, threadVars, ctxVars, dataVars
    <2>. QED
      BY <1>3, <2>1, Undisturbed DEF IInv, vars, threadVars, dataVars
  <1>. QED
    BY <1>1, <1>2, <1>3 DEF Next

THEOREM Invariance == Spec => []IInv
  BY InitIInv, NextIInv, PTL DEF Spec

(* Every variable keeps its type: runtime state of run_mt and stop_mt.      *)
THEOREM TypeCorrect == Spec => []TypeOK
  <1>1. IInv => TypeOK
    BY DEF IInv
  <1>. QED
    BY <1>1, Invariance, PTL

(* No two threads of the pool are ever at work on one node, for any number  *)
(* of threads, any graph and any bodies.                                    *)
THEOREM CellExclusion == Spec => []CellExclusive
  <1>1. IInv => CellExclusive
    BY DEF IInv, LockHeld, CellExclusive
  <1>. QED
    BY <1>1, Invariance, PTL

(* The host and the other nodes see the same value of a node nobody works   *)
(* on, on every way out of an execution.                                    *)
THEOREM OutputAgreement == Spec => []OutputMatchesValue
  <1>1. IInv => OutputMatchesValue
    <2>. SUFFICES ASSUME IInv, NEW c \in HasOutput, lock[c] = NoThread
                  PROVE  out[c] = val[c]
      BY DEF OutputMatchesValue
    <2>1. \A t \in Threads : InCell(t) => cur[t] # c
      BY SchedulerAssumption DEF IInv, LockHeld
    <2>. QED
      BY <2>1 DEF IInv, OutputLag, InCell
  <1>. QED
    BY <1>1, Invariance, PTL

(* Between stop_mt's return and the next run_mt nothing is published.       *)
THEOREM StopIsQuiet == Spec => StoppedIsQuiet
  <1>1. IInv /\ [Next]_vars => [mode # "multi" => UNCHANGED <<val, out>>]_vars
    <2>. SUFFICES ASSUME IInv, Next, mode # "multi"
                  PROVE  UNCHANGED <<val, out>>
      BY DEF vars
    <2>1. CASE HostStep
      BY <2>1 DEF HostStep, RunMt, StopMt, StopMtReturn, Wait, WaitReturn, Terminate,
                  SetInput, dataVars
    <2>2. ASSUME NEW t \in Threads, Step(t) PROVE FALSE
      <3>1. pc[t] = "off"
        BY DEF IInv, TypeOK, PoolMode
      <3>. QED
        BY <2>2, <3>1 DEF Step, LoopExit, Fetch, TryLock, ReadArg, SkipUndefined, EnterBody, Return, NoReturn, ScriptExit, Throw, Fail, BreakOut, GoOn, Publish, SetOutput, Unlock
    <2>. QED
      BY <2>1, <2>2 DEF Next
  <1>. QED
    BY <1>1, Invariance, PTL DEF Spec, StoppedIsQuiet
-----------------------------------------------------------------------------
(* Values and the order they are published in.                              *)

(* A thread's step touches no other thread, no other node, no input, and    *)
(* never takes a termination request back.                                  *)
LEMMA Elsewhere ==
  ASSUME IInv, NEW t \in Threads, Step(t)
  PROVE  /\ \A u \in Threads \ {t} : pc'[u] = pc[u] /\ cur'[u] = cur[u] /\ got'[u] = got[u]
         /\ \A c \in Cells \ {cur[t]} :
              lock'[c] = lock[c] /\ ret'[c] = ret[c] /\ res'[c] = res[c]
         /\ InCell(t) => cur'[t] = cur[t]
         /\ term => term'
         /\ UNCHANGED <<runs, inp>>
         /\ pc[t] # "off"
  <1>. USE DEF hostVars, flagVars, ctxVars, dataVars, threadVars, Goto, Release, Advance, InCell
  <1>0. /\ pc \in [Threads -> PCs] /\ cur \in [Threads -> Cells] /\ got \in [Threads -> Seq(Values)]
        /\ lock \in [Cells -> Threads \cup {NoThread}] /\ ret \in [Cells -> BOOLEAN]
        /\ res \in [Cells -> Values] /\ cur[t] \in Cells
    BY DEF IInv, TypeOK
  <1>1. CASE LoopExit(t) \/ Fetch(t) \/ TryLock(t) \/ Fail(t)
    BY <1>0, <1>1 DEF LoopExit, Fetch, TryLock, Fail
  <1>2. CASE ReadArg(t) \/ SkipUndefined(t) \/ EnterBody(t) \/ GoOn(t)
    BY <1>0, <1>2 DEF ReadArg, SkipUndefined, EnterBody, GoOn
  <1>3. CASE Return(t) \/ NoReturn(t) \/ ScriptExit(t) \/ Throw(t)
    BY <1>0, <1>3 DEF Return, NoReturn, ScriptExit, Throw
  <1>4. CASE BreakOut(t) \/ Publish(t) \/ SetOutput(t) \/ Unlock(t)
    BY <1>0, <1>4 DEF BreakOut, Publish, SetOutput, Unlock
  <1>. QED
    BY <1>1, <1>2, <1>3, <1>4 DEF Step

(* The host touches no node and no frame, and no thread at work.            *)
LEMMA HostElsewhere ==
  ASSUME IInv, HostStep
  PROVE  /\ UNCHANGED <<cur, got, lock, ret, res, val, out>>
         /\ \A t \in Threads : InCell(t) \/ InCell(t)' => pc'[t] = pc[t]
         /\ runs = 0 /\ runs' = 0 => \A t \in Threads : pc[t] = "off" => pc'[t] = "off"
         /\ term => term' \/ runs' # runs
         /\ runs' # runs => runs' = runs + 1 /\ \A t \in Threads : ~InCell(t) /\ ~InCell(t)'
         /\ runs' >= runs
  <1>. USE DEF hostVars, flagVars, ctxVars, dataVars, threadVars, InCell
  <1>1. CASE RunMt
    <2>1. CASE started
      BY <1>1, <2>1 DEF RunMt, IInv, TypeOK
    <2>2. CASE ~started
      <3>1. \A t \in Threads : pc[t] = "off" /\ pc'[t] = "loop"
        BY <1>1, <2>2 DEF RunMt, IInv, PoolMode
      <3>2. runs' = runs + 1 /\ runs \in Nat
        BY <1>1, <2>2 DEF RunMt, IInv, TypeOK
      <3>3. UNCHANGED <<cur, got, lock, ret, res, val, out>>
        BY <1>1 DEF RunMt
      <3>. QED
        BY <3>1, <3>2, <3>3
    <2>. QED
      BY <2>1, <2>2
  <1>2. CASE StopMtReturn
    BY <1>2 DEF StopMtReturn, IInv, TypeOK
  <1>3. CASE StopMt \/ Wait \/ WaitReturn \/ Terminate \/ \E i \in Inputs : SetInput(i)
    BY <1>3 DEF StopMt, Wait, WaitReturn, Terminate, SetInput, IInv, TypeOK
  <1>. QED
    BY <1>1, <1>2, <1>3 DEF HostStep

LEMMA NeverCutShortArgs ==
  ASSUME NEW c \in NeverCutShort
  PROVE  /\ c \in Cells /\ "compound" \notin Traits[c]
         /\ \A k \in 1 .. Len(Args[c]) : Args[c][k] \in NeverCutShort \cup Inputs
  BY DEF NeverCutShort

LEMMA NowType ==
  ASSUME TypeOK, NEW c \in Cells
  PROVE  Now(c) \in [1 .. Len(Args[c]) -> Values] /\ Body(c, Now(c)) \in Values
  <1>1. \A k \in 1 .. Len(Args[c]) : Args[c][k] \in Sources
    BY SchedulerAssumption
  <1>2. Now(c) \in [1 .. Len(Args[c]) -> Values]
    BY <1>1, ValueOfType DEF Now
  <1>. QED
    BY <1>2, BodyAssumption

LEMMA OnFrameType ==
  ASSUME TypeOK, NEW t \in Threads
  PROVE  /\ OnFrame(t) \in [1 .. Len(Args[cur[t]]) -> Values]
         /\ Body(cur[t], OnFrame(t)) \in Values
  <1>1. cur[t] \in Cells /\ got[t] \in Seq(Values)
    BY DEF TypeOK
  <1>2. \A k \in 1 .. Len(Args[cur[t]]) : Args[cur[t]][k] \in Sources
    BY <1>1, SchedulerAssumption
  <1>3. OnFrame(t) \in [1 .. Len(Args[cur[t]]) -> Values]
    <2>. SUFFICES ASSUME NEW k \in 1 .. Len(Args[cur[t]])
                  PROVE  (IF k <= Len(got[t]) THEN got[t][k] ELSE ValueOf(Args[cur[t]][k])) \in Values
      BY DEF OnFrame
    <2>1. ValueOf(Args[cur[t]][k]) \in Values
      BY <1>2, ValueOfType
    <2>2. Len(Args[cur[t]]) \in Nat
      BY <1>1, SchedulerAssumption
    <2>3. k <= Len(got[t]) => got[t][k] \in Values
      BY <1>1, <2>2
    <2>. QED
      BY <2>1, <2>3
  <1>. QED
    BY <1>1, <1>3, BodyAssumption

(* With all arguments on the frame the node will be given just them.        *)
LEMMA FullFrame ==
  ASSUME TypeOK, NEW t \in Threads, Len(got[t]) = Len(Args[cur[t]])
  PROVE  OnFrame(t) = got[t]
  <1>1. got[t] \in Seq(Values)
    BY DEF TypeOK
  <1>2. got[t] \in [1 .. Len(Args[cur[t]]) -> Values] /\ Len(Args[cur[t]]) \in Nat
    BY <1>1, LenProperties
  <1>3. OnFrame(t) = [k \in 1 .. Len(Args[cur[t]]) |-> got[t][k]]
    BY <1>2 DEF OnFrame
  <1>. QED
    BY <1>2, <1>3

(* The order of values is an order.                                         *)
LEMMA LeqTransitive ==
  ASSUME NEW u \in Values, NEW v \in Values, NEW w \in Values, u <= v, v <= w
  PROVE  u <= w
  <1>1. u \in Int /\ v \in Int /\ w \in Int
    BY SchedulerAssumption DEF Values
  <1>. QED
    BY <1>1

LEMMA InitVInv == Init => VInv
  <1>. SUFFICES ASSUME Init PROVE VInv
    OBVIOUS
  <1>1. IInv
    BY InitIInv
  <1>2. InOrder
    <2>. SUFFICES ASSUME NEW c \in NeverCutShort PROVE val[c] <= Body(c, Now(c)) /\ ~ret[c]
      BY DEF InOrder
    <2>1. c \in Cells /\ Body(c, Now(c)) \in Values
      BY <1>1, NeverCutShortArgs, NowType DEF IInv
    <2>2. val[c] = 0 /\ ~ret[c]
      BY <2>1 DEF Init, Undef
    <2>. QED
      BY <2>1, <2>2 DEF Values
  <1>3. FrameInOrder
    BY DEF Init, FrameInOrder
  <1>. QED
    BY <1>1, <1>2, <1>3 DEF VInv

(* Only publication changes a value, and only the publishing node's.        *)
LEMMA OnlyPublish ==
  ASSUME IInv, [Next]_vars
  PROVE  \/ UNCHANGED val
         \/ \E t \in Threads : /\ Publish(t) /\ ret[cur[t]]
                               /\ val' = [val EXCEPT ![cur[t]] = res[cur[t]]]
  <1>1. CASE HostStep \/ UNCHANGED vars
    BY <1>1, HostElsewhere DEF vars, dataVars
  <1>2. ASSUME NEW t \in Threads, Step(t), ~Publish(t) PROVE UNCHANGED val
    BY <1>2 DEF Step, LoopExit, Fetch, TryLock, ReadArg, SkipUndefined, EnterBody, Return, NoReturn,
       ScriptExit, Throw, Fail, BreakOut, GoOn, SetOutput, Unlock, dataVars
  <1>3. ASSUME NEW t \in Threads, Publish(t)
        PROVE  \/ UNCHANGED val
               \/ ret[cur[t]] /\ val' = [val EXCEPT ![cur[t]] = res[cur[t]]]
    BY <1>3 DEF Publish
  <1>. QED
    BY <1>1, <1>2, <1>3 DEF Next

(* Every step leaves the values as they are or makes them newer.            *)
LEMMA ValuesGoUp ==
  ASSUME VInv, [Next]_vars
  PROVE  /\ \A c \in NeverCutShort : val[c] <= val'[c]
         /\ \A s \in NeverCutShort \cup Inputs : ValueOf(s) <= ValueOf(s)'
  <1>1. TypeOK /\ TypeOK'
    BY NextIInv DEF VInv, IInv
  <1>2. ASSUME NEW c \in NeverCutShort PROVE val[c] <= val'[c]
    <2>1. c \in Cells /\ val[c] \in Int
      BY <1>1, NeverCutShortArgs, SchedulerAssumption DEF TypeOK, Values
    <2>2. CASE UNCHANGED val
      BY <2>1, <2>2
    <2>3. ASSUME NEW t \in Threads, ret[cur[t]], val' = [val EXCEPT ![cur[t]] = res[cur[t]]]
          PROVE  val[c] <= val'[c]
      <3>1. CASE c = cur[t]
        BY <1>1, <2>1, <2>3, <3>1 DEF VInv, InOrder, TypeOK
      <3>2. CASE c # cur[t]
        BY <1>1, <2>1, <2>3, <3>2 DEF TypeOK
      <3>. QED
        BY <3>1, <3>2
    <2>. QED
      BY <2>2, <2>3, OnlyPublish DEF VInv
  <1>3. ASSUME NEW i \in Inputs PROVE inp[i] <= inp'[i]
    <2>1. inp[i] \in Int
      BY <1>1, SchedulerAssumption DEF TypeOK, Values
    <2>2. CASE UNCHANGED inp
      BY <2>1, <2>2
    <2>3. CASE \E j \in Inputs : SetInput(j)
      <3>1. inp'[i] = inp[i] \/ inp'[i] = inp[i] + 1
        BY <1>1, <2>3 DEF SetInput, TypeOK
      <3>. QED
        BY <2>1, <3>1
    <2>4. ASSUME Next, ~UNCHANGED inp PROVE \E j \in Inputs : SetInput(j)
      BY <2>4, Elsewhere DEF VInv, Next, HostStep, RunMt, StopMt, StopMtReturn, Wait, WaitReturn,
                             Terminate, dataVars
    <2>. QED
      BY <2>2, <2>3, <2>4 DEF vars, dataVars
  <1>. QED
    BY <1>2, <1>3 DEF ValueOf

(* With newer sources a body gives something as new.                        *)
LEMMA NowGoesUp ==
  ASSUME MonotoneBody, VInv, [Next]_vars, NEW c \in NeverCutShort
  PROVE  /\ Body(c, Now(c)) \in Values /\ Body(c, Now(c)') \in Values
         /\ Body(c, Now(c)) <= Body(c, Now(c)')
  <1>1. TypeOK /\ TypeOK' /\ c \in Cells
    BY NextIInv, NeverCutShortArgs DEF VInv, IInv
  <1>2. Now(c) \in [1 .. Len(Args[c]) -> Values] /\ Body(c, Now(c)) \in Values
    BY <1>1, NowType
  <1>3. Now(c)' \in [1 .. Len(Args[c]) -> Values]
    <2>1. \A k \in 1 .. Len(Args[c]) : Args[c][k] \in Sources
      BY <1>1, SchedulerAssumption
    <2>2. \A s \in Sources : ValueOf(s)' \in Values
      BY <1>1 DEF TypeOK, Sources, ValueOf
    <2>. QED
      BY <2>1, <2>2 DEF Now
  <1>4. Body(c, Now(c)') \in Values
    BY <1>1, <1>3, BodyAssumption
  <1>5. \A k \in 1 .. Len(Args[c]) : Now(c)[k] <= Now(c)'[k]
    BY ValuesGoUp, NeverCutShortArgs DEF Now
  <1>. QED
    BY <1>1, <1>2, <1>3, <1>4, <1>5 DEF MonotoneBody

(* A thread at work whose frame and node are left alone.                    *)
LEMMA FrameGoesUp ==
  ASSUME MonotoneBody, VInv, [Next]_vars, NEW t \in Threads, NEW c \in NeverCutShort,
         pc[t] \in {"args", "eval"}, cur[t] = c,
         cur'[t] = c, got'[t] = got[t], val'[c] = val[c]
  PROVE  /\ \A k \in 1 .. Len(Args[c]) : OnFrame(t)'[k] <= ValueOf(Args[c][k])'
         /\ val'[c] <= Body(c, OnFrame(t)')
  <1>. DEFINE D == 1 .. Len(Args[c])
  <1>1. TypeOK /\ TypeOK' /\ c \in Cells
    BY NextIInv, NeverCutShortArgs DEF VInv, IInv
  <1>2. OnFrame(t) \in [D -> Values] /\ Body(c, OnFrame(t)) \in Values
    BY <1>1, OnFrameType
  <1>3. OnFrame(t)' = [k \in D |-> IF k <= Len(got[t]) THEN OnFrame(t)[k] ELSE ValueOf(Args[c][k])']
    BY DEF OnFrame
  <1>4. /\ \A k \in D : OnFrame(t)[k] <= ValueOf(Args[c][k])
        /\ val[c] <= Body(c, OnFrame(t))
    BY DEF VInv, FrameInOrder
  <1>5. \A k \in D : Args[c][k] \in NeverCutShort \cup Inputs /\ Args[c][k] \in Sources
    BY <1>1, NeverCutShortArgs, SchedulerAssumption
  <1>6. \A k \in D : ValueOf(Args[c][k]) \in Values /\ ValueOf(Args[c][k])' \in Values
    <2>1. \A s \in Sources : ValueOf(s) \in Values /\ ValueOf(s)' \in Values
      BY <1>1, ValueOfType DEF TypeOK, Sources, ValueOf
    <2>. QED
      BY <1>5, <2>1
  <1>7. \A k \in D : ValueOf(Args[c][k]) <= ValueOf(Args[c][k])'
    BY <1>5, ValuesGoUp
  <1>8. \A k \in D : ~(k <= Len(got[t])) => OnFrame(t)[k] = ValueOf(Args[c][k])
    BY DEF OnFrame
  <1>9. Values \subseteq Int /\ val[c] \in Values
    BY <1>1, SchedulerAssumption DEF Values, TypeOK
  <1>. HIDE DEF D
  <1>10. \A k \in D : ValueOf(Args[c][k]) \in Int /\ ValueOf(Args[c][k])' \in Int /\ OnFrame(t)[k] \in Int
    BY <1>2, <1>6, <1>9
  <1>11. OnFrame(t)' \in [D -> Values]
    BY <1>2, <1>3, <1>6
  <1>12. \A k \in D : OnFrame(t)[k] <= OnFrame(t)'[k] /\ OnFrame(t)'[k] <= ValueOf(Args[c][k])'
    BY <1>3, <1>4, <1>7, <1>8, <1>10
  <1>13. Body(c, OnFrame(t)) <= Body(c, OnFrame(t)')
    BY <1>1, <1>2, <1>11, <1>12 DEF MonotoneBody, D
  <1>14. Body(c, OnFrame(t)') \in Values
    BY <1>1, <1>11, BodyAssumption DEF D
  <1>15. val[c] <= Body(c, OnFrame(t)')
    BY <1>2, <1>4, <1>9, <1>13, <1>14, LeqTransitive
  <1>. QED
    BY <1>12, <1>15 DEF D

(* What a thread is given is no newer than its node's arguments are now.    *)
LEMMA FrameBelowNow ==
  ASSUME MonotoneBody, VInv, NEW t \in Threads, NEW c \in NeverCutShort,
         pc[t] \in {"args", "eval"}, cur[t] = c
  PROVE  Body(c, OnFrame(t)) \in Values /\ Body(c, OnFrame(t)) <= Body(c, Now(c))
  <1>1. TypeOK /\ c \in Cells
    BY NeverCutShortArgs DEF VInv, IInv
  <1>2. \A k \in 1 .. Len(Args[c]) : OnFrame(t)[k] <= Now(c)[k]
    BY DEF VInv, FrameInOrder, Now
  <1>. QED
    BY <1>1, <1>2, OnFrameType, NowType DEF MonotoneBody

(* A node's result and return request change hands at a return statement,   *)
(* and the request goes at the end.                                         *)
LEMMA ReturnsOnly ==
  ASSUME IInv, [Next]_vars, NEW c \in Cells
  PROVE  \/ ret'[c] = ret[c] /\ res'[c] = res[c]
         \/ ~ret'[c]
         \/ \E t \in Threads : Return(t) /\ cur[t] = c
  <1>1. CASE HostStep \/ UNCHANGED vars
    BY <1>1, HostElsewhere DEF vars, ctxVars
  <1>2. ASSUME NEW t \in Threads, Step(t), ~Return(t), ~Unlock(t) PROVE UNCHANGED <<ret, res>>
    BY <1>2 DEF Step, LoopExit, Fetch, TryLock, ReadArg, SkipUndefined, EnterBody, NoReturn,
       ScriptExit, Throw, Fail, BreakOut, GoOn, Publish, SetOutput, ctxVars
  <1>3. ASSUME NEW t \in Threads, Return(t) \/ Unlock(t)
        PROVE  \/ ret'[c] = ret[c] /\ res'[c] = res[c]
               \/ ~ret'[c]
               \/ Return(t) /\ cur[t] = c
    BY <1>3 DEF Return, Unlock, IInv, TypeOK
  <1>. QED
    BY <1>1, <1>2, <1>3 DEF Next

LEMMA NextInOrder ==
  ASSUME MonotoneBody, VInv, [Next]_vars
  PROVE  InOrder'
  <1>. SUFFICES ASSUME NEW c \in NeverCutShort
                PROVE  /\ val'[c] <= Body(c, Now(c)')
                       /\ ret'[c] => val'[c] <= res'[c] /\ res'[c] <= Body(c, Now(c)')
    BY DEF InOrder
  <1>1. /\ TypeOK /\ TypeOK' /\ IInv
        /\ c \in Cells /\ "compound" \notin Traits[c]
    BY NextIInv, NeverCutShortArgs DEF VInv, IInv
  <1>2. /\ Body(c, Now(c)) \in Values /\ Body(c, Now(c)') \in Values
        /\ Body(c, Now(c)) <= Body(c, Now(c)')
    BY NowGoesUp
  <1>3. val[c] \in Values /\ res[c] \in Values /\ val'[c] \in Values /\ res'[c] \in Values
    BY <1>1 DEF TypeOK
  <1>4. val'[c] = val[c] \/ (ret[c] /\ val'[c] = res[c])
    <2>1. ASSUME NEW t \in Threads, ret[cur[t]], val' = [val EXCEPT ![cur[t]] = res[cur[t]]]
          PROVE  val'[c] = val[c] \/ (ret[c] /\ val'[c] = res[c])
      BY <1>1, <2>1 DEF TypeOK
    <2>. QED
      BY <1>1, <2>1, OnlyPublish
  <1>5. /\ val[c] <= Body(c, Now(c))
        /\ ret[c] => val[c] <= res[c] /\ res[c] <= Body(c, Now(c))
    BY DEF VInv, InOrder
  <1>6. val'[c] <= Body(c, Now(c)')
    BY <1>2, <1>3, <1>4, <1>5, LeqTransitive
  <1>7. CASE ret'[c] = ret[c] /\ res'[c] = res[c]
    <2>1. val[c] \in Int /\ res[c] \in Int
      BY <1>3, SchedulerAssumption DEF Values
    <2>2. ret[c] => val'[c] <= res[c]
      BY <1>4, <1>5, <2>1
    <2>3. ret[c] => res[c] <= Body(c, Now(c)')
      BY <1>2, <1>3, <1>5, LeqTransitive
    <2>. QED
      BY <1>6, <1>7, <2>2, <2>3
  <1>8. ASSUME NEW t \in Threads, Return(t), cur[t] = c
        PROVE  val'[c] <= res'[c] /\ res'[c] <= Body(c, Now(c)')
    <2>1. pc[t] = "eval" /\ res'[c] = Body(c, got[t]) /\ val'[c] = val[c]
      BY <1>1, <1>8 DEF Return, dataVars, TypeOK
    <2>2. OnFrame(t) = got[t]
      BY <1>1, <2>1, FullFrame DEF IInv, ArgsRead
    <2>3. val[c] <= Body(c, OnFrame(t))
      BY <1>8, <2>1 DEF VInv, FrameInOrder
    <2>4. Body(c, OnFrame(t)) <= Body(c, Now(c)) /\ Body(c, OnFrame(t)) \in Values
      BY <1>8, <2>1, FrameBelowNow
    <2>5. Body(c, OnFrame(t)) <= Body(c, Now(c)')
      BY <1>2, <2>4, LeqTransitive
    <2>. QED
      BY <2>1, <2>2, <2>3, <2>5
  <1>. QED
    BY <1>1, <1>6, <1>7, <1>8, ReturnsOnly

LEMMA NextFrameInOrder ==
  ASSUME MonotoneBody, VInv, [Next]_vars
  PROVE  FrameInOrder'
  <1>. SUFFICES ASSUME NEW t \in Threads, NEW c \in NeverCutShort,
                       pc'[t] \in {"args", "eval"}, cur'[t] = c
                PROVE  /\ \A k \in 1 .. Len(Args[c]) : OnFrame(t)'[k] <= ValueOf(Args[c][k])'
                       /\ val'[c] <= Body(c, OnFrame(t)')
    BY DEF FrameInOrder
  <1>1. TypeOK /\ TypeOK' /\ IInv /\ c \in Cells
    BY NextIInv, NeverCutShortArgs DEF VInv, IInv
  <1>2. CASE TryLock(t)
    <2>1. got'[t] = <<>>
      BY <1>1, <1>2 DEF TryLock, Goto, TypeOK
    <2>2. Len(Args[c]) \in Nat
      BY <1>1, SchedulerAssumption
    <2>3. OnFrame(t)' = Now(c)'
      BY <2>1, <2>2 DEF OnFrame, Now
    <2>4. val'[c] <= Body(c, Now(c)')
      BY NextInOrder DEF InOrder
    <2>5. \A k \in 1 .. Len(Args[c]) : ValueOf(Args[c][k])' \in Int
      <3>1. \A k \in 1 .. Len(Args[c]) : Args[c][k] \in Sources
        BY <1>1, SchedulerAssumption
      <3>2. \A s \in Sources : ValueOf(s)' \in Values
        BY <1>1 DEF TypeOK, Sources, ValueOf
      <3>3. Values \subseteq Int
        BY SchedulerAssumption DEF Values
      <3>. QED
        BY <3>1, <3>2, <3>3
    <2>6. \A k \in 1 .. Len(Args[c]) : OnFrame(t)'[k] = ValueOf(Args[c][k])'
      BY <2>3 DEF Now
    <2>. QED
      BY <2>3, <2>4, <2>5, <2>6
  <1>3. CASE ReadArg(t)
    <2>1. /\ UNCHANGED <<pc, cur, val, inp>> /\ cur[t] = c
          /\ got' = [got EXCEPT ![t] = Append(got[t], ValueOf(NextArg(t)))]
          /\ pc[t] = "args" /\ MoreArgs(t)
      BY <1>3 DEF ReadArg, dataVars
    <2>2. got[t] \in Seq(Values) /\ ValueOf(NextArg(t)) \in Values
      BY <1>1, <2>1, NextArgType, ValueOfType DEF TypeOK
    <2>3. got'[t] = Append(got[t], ValueOf(NextArg(t)))
      BY <1>1, <2>1 DEF TypeOK
    <2>4. /\ Len(got'[t]) = Len(got[t]) + 1 /\ Len(got[t]) \in Nat
          /\ \A k \in 1 .. Len(got[t]) : got'[t][k] = got[t][k]
          /\ got'[t][Len(got[t]) + 1] = ValueOf(Args[c][Len(got[t]) + 1])
      BY <2>1, <2>2, <2>3, AppendProperties DEF NextArg
    <2>5. Len(Args[c]) \in Nat
      BY <1>1, SchedulerAssumption
    <2>6. \A k \in 1 .. Len(Args[c]) : ValueOf(Args[c][k])' = ValueOf(Args[c][k])
      BY <2>1 DEF ValueOf
    <2>7. OnFrame(t)' = OnFrame(t)
      <3>1. ASSUME NEW k \in 1 .. Len(Args[c])
            PROVE  (IF k <= Len(got'[t]) THEN got'[t][k] ELSE ValueOf(Args[c][k])')
                     = (IF k <= Len(got[t]) THEN got[t][k] ELSE ValueOf(Args[c][k]))
        <4>1. ValueOf(Args[c][k])' = ValueOf(Args[c][k])
          BY <2>6
        <4>2. k \in Nat /\ k >= 1
          BY <2>5
        <4>3. CASE k <= Len(got[t])
          BY <2>4, <4>2, <4>3
        <4>4. CASE k = Len(got[t]) + 1
          BY <2>4, <4>4
        <4>5. CASE k > Len(got[t]) + 1
          BY <2>4, <4>1, <4>2, <4>5
        <4>. QED
          BY <2>4, <4>2, <4>3, <4>4, <4>5
      <3>. QED
        BY <2>1, <3>1 DEF OnFrame
    <2>. QED
      BY <2>1, <2>6, <2>7 DEF VInv, FrameInOrder
  <1>4. CASE EnterBody(t) \/ ScriptExit(t)
    <2>1. pc[t] \in {"args", "eval"} /\ UNCHANGED <<cur, got, val>>
      BY <1>4 DEF EnterBody, ScriptExit, threadVars, dataVars
    <2>. QED
      BY <2>1, FrameGoesUp
  <1>5. CASE ~Step(t)
    <2>1. pc'[t] = pc[t] /\ cur'[t] = cur[t] /\ got'[t] = got[t]
      <3>1. CASE HostStep
        BY <1>1, <3>1, HostElsewhere DEF InCell
      <3>2. ASSUME NEW u \in Threads, Step(u)
            PROVE  pc'[t] = pc[t] /\ cur'[t] = cur[t] /\ got'[t] = got[t]
        BY <1>1, <1>5, <3>2, Elsewhere
      <3>. QED
        BY <3>1, <3>2 DEF Next, vars, threadVars
    <2>2. val'[c] = val[c]
      <3>1. ASSUME NEW u \in Threads, Publish(u), val' = [val EXCEPT ![cur[u]] = res[cur[u]]]
            PROVE  val'[c] = val[c]
        <4>1. u # t /\ InCell(u) /\ InCell(t)
          BY <1>5, <2>1, <3>1 DEF Publish, InCell, Step
        <4>2. cur[u] # cur[t]
          BY <1>1, <4>1 DEF IInv, LockHeld
        <4>. QED
          BY <1>1, <2>1, <3>1, <4>2 DEF TypeOK
      <3>. QED
        BY <1>1, <3>1, OnlyPublish
    <2>. QED
      BY <2>1, <2>2, FrameGoesUp
  <1>6. ASSUME Step(t), ~TryLock(t), ~ReadArg(t), ~EnterBody(t), ~ScriptExit(t) PROVE FALSE
    BY <1>1, <1>6 DEF Step, LoopExit, Fetch, SkipUndefined, Return, NoReturn, Throw, Fail, BreakOut,
                      GoOn, Publish, SetOutput, Unlock, Goto, TypeOK
  <1>. QED
    BY <1>2, <1>3, <1>4, <1>5, <1>6

LEMMA NextVInv == MonotoneBody /\ VInv /\ [Next]_vars => VInv'
  BY NextIInv, NextInOrder, NextFrameInOrder DEF VInv

(* A value never goes back to one computed from older host input, for any   *)
(* graph, cycles included, any number of threads and of calls of run_mt:    *)
(* also when one run publishes what an earlier one has left behind.         *)
THEOREM NoRegress == ASSUME MonotoneBody PROVE Spec => ValuesNeverRegress
  <1>1. VInv /\ [Next]_vars => VInv'
    BY NextVInv
  <1>2. VInv /\ [Next]_vars => [\A c \in NeverCutShort : val'[c] >= val[c]]_vars
    <2>. SUFFICES ASSUME VInv, Next, NEW c \in NeverCutShort PROVE val'[c] >= val[c]
      OBVIOUS
    <2>1. TypeOK /\ TypeOK' /\ c \in Cells
      BY NextIInv, NeverCutShortArgs DEF VInv, IInv
    <2>2. val[c] \in Int /\ val'[c] \in Int
      BY <2>1, SchedulerAssumption DEF TypeOK, Values
    <2>. QED
      BY <2>2, ValuesGoUp
  <1>. QED
    BY <1>1, <1>2, InitVInv, PTL DEF Spec, ValuesNeverRegress
=============================================================================
