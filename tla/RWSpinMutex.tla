---------------------------- MODULE RWSpinMutex ----------------------------
(***************************************************************************)
(* The readers-writer spin lock: mt::atomic_rw_spin_mutex, and the lock of *)
(* a value box, which is the same algorithm with writers preferred.        *)
(*                                                                         *)
(* One atomic counter holds the number of readers, or -1 for a writer.     *)
(* Who waits is counted apart, before the first look at the counter and    *)
(* until after the lock is taken, so that the preferred side can hold the  *)
(* other one back.  Every atomic access is a step of its own.              *)
(***************************************************************************)
EXTENDS Integers, FiniteSets

CONSTANTS
  Threads,     (* the threads that use the lock                              *)
  LockWriters, (* those that call lock()                                     *)
  LockReaders, (* those that call lock_shared()                              *)
  TryWriters,  (* those that call try_lock()                                 *)
  TryReaders,  (* those that call try_lock_shared()                          *)
  Upgraders,   (* those that call upgrade() and downgrade()                  *)
  Policies     (* the ways to build and construct the lock: see AllPolicies  *)

(* "plain" counts nobody who waits (RW_MUTEX_PRIORITIES is not defined);    *)
(* "writers" and "readers" name the constructor's preference.               *)
AllPolicies == {"plain", "writers", "readers"}

ASSUME LockAssumption ==
  /\ IsFiniteSet(Threads)
  /\ Policies \subseteq AllPolicies
  /\ \A t, u \in Upgraders : t = u   (* two would wait for each other for ever *)

VARIABLES
  policy,   (* RW_MUTEX_PRIORITIES and prefer_writers_                       *)
  current,  (* current_                                                      *)
  pendingR, (* pending_readers_                                              *)
  pendingW, (* pending_writers_                                              *)
  pc,       (* where every thread is                                         *)
  curr,     (* a reader's last sight of current_                             *)
  overtook  (* history: the readers let in since a writer began to wait      *)

vars == <<policy, current, pendingR, pendingW, pc, curr, overtook>>

PCs == {"idle", "wcheck", "wcas", "wgot", "writing", "tryw2",
        "rload", "rcheck", "rcas", "rgot", "reading", "tryr2", "tryr3",
        "upgrading"}

HoldsWrite(t) == pc[t] \in {"wgot", "writing"}
HoldsRead(t)  == pc[t] \in {"rgot", "reading", "upgrading"}
WaitsWrite(t) == pc[t] \in {"wcheck", "wcas"}
WaitsRead(t)  == pc[t] \in {"rload", "rcheck", "rcas"}

Goto(t, p) == pc' = [pc EXCEPT ![t] = p]

(* The waiting counters exist with priorities only.                         *)
Counted == IF policy = "plain" THEN 0 ELSE 1

Init ==
  /\ policy \in Policies
  /\ current = 0 /\ pendingR = 0 /\ pendingW = 0
  /\ pc = [t \in Threads |-> "idle"]
  /\ curr = [t \in Threads |-> 0]
  /\ overtook = [t \in Threads |-> {}]

-----------------------------------------------------------------------------
(* lock().                                                                  *)

(* Mutant: the writer does not announce itself.                             *)
LockStartSilent(t) ==
  /\ pc[t] = "idle" /\ t \in LockWriters
  /\ Goto(t, "wcheck")
  /\ UNCHANGED <<policy, current, pendingR, pendingW, curr, overtook>>

LockStart(t) ==
  /\ pc[t] = "idle" /\ t \in LockWriters
  /\ pendingW' = pendingW + Counted
  /\ Goto(t, "wcheck")
  /\ UNCHANGED <<policy, current, pendingR, curr, overtook>>

(* Mutant: writers let the readers go first whatever the preference.        *)
WriterAlwaysYields == policy # "plain" => pendingR = 0

(* A lock that prefers readers waits here for them.                         *)
WriterMayTry == policy = "readers" => pendingR = 0

LockCheck(t) ==
  /\ pc[t] = "wcheck"
  /\ WriterMayTry
  /\ Goto(t, "wcas")
  /\ UNCHANGED <<policy, current, pendingR, pendingW, curr, overtook>>

(* Mutant: a writer waits for the other writers only.                       *)
LockCasOverReaders(t) ==
  /\ pc[t] = "wcas"
  /\ IF current >= 0
     THEN current' = -1 /\ overtook' = [overtook EXCEPT ![t] = {}] /\ Goto(t, "wgot")
     ELSE UNCHANGED <<current, overtook>> /\ Goto(t, "wcheck")
  /\ UNCHANGED <<policy, pendingR, pendingW, curr>>

LockCas(t) ==
  /\ pc[t] = "wcas"
  /\ IF current = 0
     THEN /\ current' = -1
          /\ overtook' = [overtook EXCEPT ![t] = {}]
          /\ Goto(t, "wgot")
     ELSE UNCHANGED <<current, overtook>> /\ Goto(t, "wcheck")
  /\ UNCHANGED <<policy, pendingR, pendingW, curr>>

(* The scope's guard counts the writer out once it has the lock.            *)
LockDone(t) ==
  /\ pc[t] = "wgot"
  /\ pendingW' = pendingW - Counted
  /\ Goto(t, "writing")
  /\ UNCHANGED <<policy, current, pendingR, curr, overtook>>

TryLockCheck(t) ==
  /\ pc[t] = "idle" /\ t \in TryWriters
  /\ WriterMayTry
  /\ Goto(t, "tryw2")
  /\ UNCHANGED <<policy, current, pendingR, pendingW, curr, overtook>>

TryLockCas(t) ==
  /\ pc[t] = "tryw2"
  /\ IF current = 0
     THEN current' = -1 /\ Goto(t, "writing")
     ELSE UNCHANGED current /\ Goto(t, "idle")
  /\ UNCHANGED <<policy, pendingR, pendingW, curr, overtook>>

Unlock(t) ==
  /\ pc[t] = "writing"
  /\ current' = current + 1
  /\ Goto(t, "idle")
  /\ UNCHANGED <<policy, pendingR, pendingW, curr, overtook>>

-----------------------------------------------------------------------------
(* lock_shared().                                                           *)

(* Every writer that waits has been overtaken by this reader.               *)
Overtake(t) ==
  overtook' = [w \in Threads |-> IF WaitsWrite(w) THEN overtook[w] \cup {t} ELSE overtook[w]]

LockSharedStart(t) ==
  /\ pc[t] = "idle" /\ t \in LockReaders
  /\ pendingR' = pendingR + Counted
  /\ Goto(t, "rload")
  /\ UNCHANGED <<policy, current, pendingW, curr, overtook>>

LockSharedLoad(t) ==
  /\ pc[t] = "rload"
  /\ curr' = [curr EXCEPT ![t] = current]
  /\ Goto(t, "rcheck")
  /\ UNCHANGED <<policy, current, pendingR, pendingW, overtook>>

(* Mutant: readers never wait for writers.                                  *)
ReaderNeverYields == TRUE

ReaderMayTry == policy = "writers" => pendingW = 0

LockSharedCheck(t) ==
  /\ pc[t] = "rcheck"
  /\ ReaderMayTry
  /\ Goto(t, "rcas")
  /\ UNCHANGED <<policy, current, pendingR, pendingW, curr, overtook>>

(* Mutant: the counter is increased without a comparison.                   *)
LockSharedAdd(t) ==
  /\ pc[t] = "rcas"
  /\ IF curr[t] >= 0
     THEN /\ current' = current + 1
          /\ Overtake(t)
          /\ Goto(t, "rgot")
          /\ UNCHANGED curr
     ELSE /\ curr' = [curr EXCEPT ![t] = current]
          /\ Goto(t, "rcheck")
          /\ UNCHANGED <<current, overtook>>
  /\ UNCHANGED <<policy, pendingR, pendingW>>

(* The attempt compares with the last sight of the counter, which may be    *)
(* old; a failed one refreshes it and goes back to the check.               *)
LockSharedCas(t) ==
  /\ pc[t] = "rcas"
  /\ IF curr[t] >= 0 /\ current = curr[t]
     THEN /\ current' = current + 1
          /\ Overtake(t)
          /\ Goto(t, "rgot")
          /\ UNCHANGED curr
     ELSE /\ curr' = [curr EXCEPT ![t] = current]
          /\ Goto(t, "rcheck")
          /\ UNCHANGED <<current, overtook>>
  /\ UNCHANGED <<policy, pendingR, pendingW>>

LockSharedDone(t) ==
  /\ pc[t] = "rgot"
  /\ pendingR' = pendingR - Counted
  /\ Goto(t, "reading")
  /\ UNCHANGED <<policy, current, pendingW, curr, overtook>>

TryLockSharedLoad(t) ==
  /\ pc[t] = "idle" /\ t \in TryReaders
  /\ current >= 0
  /\ curr' = [curr EXCEPT ![t] = current]
  /\ Goto(t, "tryr2")
  /\ UNCHANGED <<policy, current, pendingR, pendingW, overtook>>

TryLockSharedCheck(t) ==
  /\ pc[t] = "tryr2"
  /\ Goto(t, IF ReaderMayTry THEN "tryr3" ELSE "idle")
  /\ UNCHANGED <<policy, current, pendingR, pendingW, curr, overtook>>

TryLockSharedCas(t) ==
  /\ pc[t] = "tryr3"
  /\ IF current = curr[t]
     THEN /\ current' = current + 1
          /\ Overtake(t)
          /\ Goto(t, "reading")
     ELSE /\ Goto(t, "idle")
          /\ UNCHANGED <<current, overtook>>
  /\ UNCHANGED <<policy, pendingR, pendingW, curr>>

UnlockShared(t) ==
  /\ pc[t] = "reading"
  /\ current' = current - 1
  /\ Goto(t, "idle")
  /\ UNCHANGED <<policy, pendingR, pendingW, curr, overtook>>

-----------------------------------------------------------------------------
(* upgrade() waits, unannounced, until its thread is the only reader.       *)

UpgradeStart(t) ==
  /\ pc[t] = "reading" /\ t \in Upgraders
  /\ Goto(t, "upgrading")
  /\ UNCHANGED <<policy, current, pendingR, pendingW, curr, overtook>>

UpgradeCas(t) ==
  /\ pc[t] = "upgrading"
  /\ current = 1
  /\ current' = -1
  /\ Goto(t, "writing")
  /\ UNCHANGED <<policy, pendingR, pendingW, curr, overtook>>

Downgrade(t) ==
  /\ pc[t] = "writing" /\ t \in Upgraders
  /\ current' = 1
  /\ Goto(t, "reading")
  /\ UNCHANGED <<policy, pendingR, pendingW, curr, overtook>>

-----------------------------------------------------------------------------
Begins(t) ==
  \/ LockStart(t) \/ LockSharedStart(t) \/ TryLockCheck(t) \/ TryLockSharedLoad(t)
  \/ UpgradeStart(t) \/ Downgrade(t)

Goes(t) ==
  \/ LockCheck(t) \/ LockCas(t) \/ LockDone(t) \/ TryLockCas(t)
  \/ LockSharedLoad(t) \/ LockSharedCheck(t) \/ LockSharedCas(t) \/ LockSharedDone(t)
  \/ TryLockSharedCheck(t) \/ TryLockSharedCas(t) \/ UpgradeCas(t)

Ends(t) == Unlock(t) \/ UnlockShared(t)

Next == \E t \in Threads : Begins(t) \/ Goes(t) \/ Ends(t)

Spec == Init /\ [][Next]_vars

(* Threads inside a call are scheduled, and what a lock protects is left    *)
(* again, however often it is upgraded and downgraded before.  Nobody is    *)
(* obliged to begin.                                                        *)
Fairness == \A t \in Threads : WF_vars(Goes(t)) /\ SF_vars(Ends(t))

FairSpec == Spec /\ Fairness

-----------------------------------------------------------------------------
TypeOK ==
  /\ policy \in AllPolicies
  /\ current \in Int /\ pendingR \in Nat /\ pendingW \in Nat
  /\ pc \in [Threads -> PCs]
  /\ curr \in [Threads -> Int]
  /\ overtook \in [Threads -> SUBSET Threads]

(* The one counter tells who holds the lock, through attempts with an old   *)
(* sight of it, upgrades and downgrades: -1 for a writer alone, else the    *)
(* number of readers.  The "locking counting error" of the unlocking        *)
(* functions is never thrown.                                               *)
LockCounts ==
  current = IF \E t \in Threads : HoldsWrite(t) THEN -1
            ELSE Cardinality({t \in Threads : HoldsRead(t)})

LetIn(t) == ~HoldsRead(t) /\ ~HoldsWrite(t) /\ HoldsRead(t)'

(* With writers preferred a waiting writer is overtaken at most once by     *)
(* each reader: by the one that had passed the check before it announced    *)
(* itself, however often the attempts fail.                                 *)
OvertakenOnce ==
  [][policy = "writers" =>
       \A w, r \in Threads : WaitsWrite(w) /\ LetIn(r) => r \notin overtook[w]]_vars

(* Readers that come and go for ever cannot keep the writers out of a lock  *)
(* that prefers writers (another writer may always be faster).              *)
WritersGetIn ==
  (policy = "writers" /\ \E w \in Threads : WaitsWrite(w))
    ~> \E t \in Threads : HoldsWrite(t)

(* Waiting writers and waiting readers never stop each other: when the lock *)
(* is free and threads wait, one of them gets it.                           *)
SomeoneGetsIn ==
  (\E t \in Threads : WaitsWrite(t) \/ WaitsRead(t))
    ~> \E t \in Threads : HoldsWrite(t) \/ HoldsRead(t)

-----------------------------------------------------------------------------
Held(t) ==
  IF HoldsWrite(t) THEN "write" ELSE IF HoldsRead(t) THEN "read" ELSE "none"

Lock == INSTANCE SharedLock WITH held <- [t \in Threads |-> Held(t)]

(* The counter and the attempts implement a readers-writer lock.            *)
ImplementsLock == Lock!Spec
=============================================================================
