-------------------------- MODULE RWSpinMutexProofs --------------------------
(***************************************************************************)
(* The readers-writer spin lock is correct for every number of threads and *)
(* every policy: its counter tells who holds it, it implements a           *)
(* readers-writer lock, and a waiting writer is overtaken at most once by  *)
(* each reader.                                                            *)
(***************************************************************************)
EXTENDS RWSpinMutex, FiniteSetTheorems, TLAPS

ReadersOf == {t \in Threads : HoldsRead(t)}
WritersOf == {t \in Threads : HoldsWrite(t)}
CountedR  == {t \in Threads : WaitsRead(t) \/ pc[t] = "rgot"}
CountedW  == {t \in Threads : WaitsWrite(t) \/ pc[t] = "wgot"}

Typed ==
  /\ policy \in AllPolicies
  /\ current \in Int /\ pendingR \in Int /\ pendingW \in Int
  /\ pc \in [Threads -> PCs]
  /\ curr \in [Threads -> Int]
  /\ overtook \in [Threads -> SUBSET Threads]

(* Nobody holds the lock beside a writer.                                   *)
Alone == \A t \in WritersOf : WritersOf = {t} /\ ReadersOf = {}

CurrentInv == current = IF WritersOf # {} THEN -1 ELSE Cardinality(ReadersOf)

PendingInv ==
  /\ policy = "plain" => pendingR = 0 /\ pendingW = 0
  /\ policy # "plain" => pendingR = Cardinality(CountedR) /\ pendingW = Cardinality(CountedW)

(* try_lock_shared() goes on only with a count it may increase.             *)
SeenInv == \A t \in Threads : pc[t] \in {"tryr2", "tryr3"} => curr[t] >= 0

(* Who has overtaken a waiting writer has no attempt left to make.          *)
OvertakeInv ==
  /\ \A w \in Threads : ~WaitsWrite(w) => overtook[w] = {}
  /\ policy = "writers" =>
       \A w \in Threads : \A r \in overtook[w] : pc[r] \notin {"rcas", "tryr3"}

IInv == Typed /\ Alone /\ CurrentInv /\ SeenInv /\ PendingInv /\ OvertakeInv

-----------------------------------------------------------------------------
(* Sets of threads.                                                         *)

LEMMA Finite == ASSUME NEW S \in SUBSET Threads
                PROVE  IsFiniteSet(S) /\ Cardinality(S) \in Nat
  BY FS_Subset, FS_CardinalityType, LockAssumption DEF LockAssumption

LEMMA CountIn ==
  ASSUME NEW S \in SUBSET Threads, NEW t \in Threads, t \notin S
  PROVE  Cardinality(S \cup {t}) = Cardinality(S) + 1
  BY Finite, FS_AddElement

LEMMA CountOut ==
  ASSUME NEW S \in SUBSET Threads, NEW t \in S
  PROVE  Cardinality(S \ {t}) = Cardinality(S) - 1
  BY Finite, FS_RemoveElement

LEMMA CountNone == Cardinality({}) = 0
  BY FS_EmptySet

LEMMA CountSome ==
  ASSUME NEW S \in SUBSET Threads, NEW t \in S
  PROVE  Cardinality(S) >= 1
  <1>1. Cardinality(S \ {t}) \in Nat
    BY Finite
  <1> QED
    BY <1>1, CountOut, Finite

LEMMA CountOne ==
  ASSUME NEW S \in SUBSET Threads, NEW t \in S, Cardinality(S) = 1
  PROVE  S = {t}
  <1>1. Cardinality(S \ {t}) = 0
    BY CountOut
  <1>2. IsFiniteSet(S \ {t})
    BY Finite
  <1>3. S \ {t} = {}
    BY <1>1, <1>2, FS_EmptySet
  <1> QED
    BY <1>3

-----------------------------------------------------------------------------
(* What an action changes: only the pc of its thread, from one place to     *)
(* another.                                                                 *)

Moves(t, from, to) ==
  /\ pc[t] = from
  /\ pc' = [pc EXCEPT ![t] = to]

HoldW == {"wgot", "writing"}
HoldR == {"rgot", "reading", "upgrading"}
AnnW  == {"wcheck", "wcas", "wgot"}
AnnR  == {"rload", "rcheck", "rcas", "rgot"}


LEMMA SetsByPc ==
  /\ WritersOf = {t \in Threads : pc[t] \in HoldW}
  /\ ReadersOf = {t \in Threads : pc[t] \in HoldR}
  /\ CountedW = {t \in Threads : pc[t] \in AnnW}
  /\ CountedR = {t \in Threads : pc[t] \in AnnR}
  BY DEF WritersOf, ReadersOf, CountedW, CountedR, HoldsWrite, HoldsRead, WaitsWrite,
         WaitsRead, HoldW, HoldR, AnnW, AnnR

LEMMA SetsMove ==
  ASSUME Typed, NEW t \in Threads, NEW from \in PCs, NEW to \in PCs, Moves(t, from, to)
  PROVE  /\ WritersOf' = IF to \in HoldW THEN WritersOf \cup {t} ELSE WritersOf \ {t}
         /\ ReadersOf' = IF to \in HoldR THEN ReadersOf \cup {t} ELSE ReadersOf \ {t}
         /\ CountedW' = IF to \in AnnW THEN CountedW \cup {t} ELSE CountedW \ {t}
         /\ CountedR' = IF to \in AnnR THEN CountedR \cup {t} ELSE CountedR \ {t}
         /\ pc' \in [Threads -> PCs]
         /\ pc'[t] = to
         /\ \A u \in Threads : u # t => pc'[u] = pc[u]
  <1>1. pc' \in [Threads -> PCs] /\ pc'[t] = to /\ \A u \in Threads : u # t => pc'[u] = pc[u]
    BY DEF Moves, Typed
  <1>2. /\ WritersOf' = {u \in Threads : pc'[u] \in HoldW}
        /\ ReadersOf' = {u \in Threads : pc'[u] \in HoldR}
        /\ CountedW' = {u \in Threads : pc'[u] \in AnnW}
        /\ CountedR' = {u \in Threads : pc'[u] \in AnnR}
    BY DEF WritersOf, ReadersOf, CountedW, CountedR, HoldsWrite, HoldsRead, WaitsWrite,
           WaitsRead, HoldW, HoldR, AnnW, AnnR
  <1>3. WritersOf' = IF to \in HoldW THEN WritersOf \cup {t} ELSE WritersOf \ {t}
    BY <1>1, <1>2, SetsByPc
  <1>4. ReadersOf' = IF to \in HoldR THEN ReadersOf \cup {t} ELSE ReadersOf \ {t}
    BY <1>1, <1>2, SetsByPc
  <1>5. CountedW' = IF to \in AnnW THEN CountedW \cup {t} ELSE CountedW \ {t}
    BY <1>1, <1>2, SetsByPc
  <1>6. CountedR' = IF to \in AnnR THEN CountedR \cup {t} ELSE CountedR \ {t}
    BY <1>1, <1>2, SetsByPc
  <1> QED
    BY <1>1, <1>3, <1>4, <1>5, <1>6

LEMMA Steady ==
  ASSUME Typed, NEW t \in Threads, NEW from \in PCs, NEW to \in PCs, Moves(t, from, to)
  PROVE  /\ (from \in HoldW <=> to \in HoldW) => WritersOf' = WritersOf
         /\ (from \in HoldR <=> to \in HoldR) => ReadersOf' = ReadersOf
         /\ (from \in AnnW <=> to \in AnnW) => CountedW' = CountedW
         /\ (from \in AnnR <=> to \in AnnR) => CountedR' = CountedR
  <1>1. pc[t] = from
    BY DEF Moves
  <1>2. /\ t \in WritersOf <=> from \in HoldW
        /\ t \in ReadersOf <=> from \in HoldR
        /\ t \in CountedW <=> from \in AnnW
        /\ t \in CountedR <=> from \in AnnR
    BY <1>1, SetsByPc
  <1>3. /\ WritersOf' = IF to \in HoldW THEN WritersOf \cup {t} ELSE WritersOf \ {t}
        /\ ReadersOf' = IF to \in HoldR THEN ReadersOf \cup {t} ELSE ReadersOf \ {t}
        /\ CountedW' = IF to \in AnnW THEN CountedW \cup {t} ELSE CountedW \ {t}
        /\ CountedR' = IF to \in AnnR THEN CountedR \cup {t} ELSE CountedR \ {t}
    BY SetsMove
  <1>4. ASSUME NEW S, NEW T, NEW P, t \in S <=> from \in P, from \in P <=> to \in P,
               T = IF to \in P THEN S \cup {t} ELSE S \ {t}
        PROVE  T = S
    BY <1>4
  <1> HIDE DEF WritersOf, ReadersOf, CountedW, CountedR
  <1>5. (from \in HoldW <=> to \in HoldW) => WritersOf' = WritersOf
    BY <1>2, <1>3, <1>4
  <1>6. (from \in HoldR <=> to \in HoldR) => ReadersOf' = ReadersOf
    BY <1>2, <1>3, <1>4
  <1>7. (from \in AnnW <=> to \in AnnW) => CountedW' = CountedW
    BY <1>2, <1>3, <1>4
  <1>8. (from \in AnnR <=> to \in AnnR) => CountedR' = CountedR
    BY <1>2, <1>3, <1>4
  <1> QED
    BY <1>5, <1>6, <1>7, <1>8

(* Every action moves its thread between two places.                        *)
LEMMA ActionMoves ==
  ASSUME NEW t \in Threads
  PROVE  /\ LockStart(t) => Moves(t, "idle", "wcheck")
         /\ LockCheck(t) => Moves(t, "wcheck", "wcas")
         /\ LockCas(t) => Moves(t, "wcas", "wgot") \/ Moves(t, "wcas", "wcheck")
         /\ LockDone(t) => Moves(t, "wgot", "writing")
         /\ TryLockCheck(t) => Moves(t, "idle", "tryw2")
         /\ TryLockCas(t) => Moves(t, "tryw2", "writing") \/ Moves(t, "tryw2", "idle")
         /\ Unlock(t) => Moves(t, "writing", "idle")
         /\ LockSharedStart(t) => Moves(t, "idle", "rload")
         /\ LockSharedLoad(t) => Moves(t, "rload", "rcheck")
         /\ LockSharedCheck(t) => Moves(t, "rcheck", "rcas")
         /\ LockSharedCas(t) => Moves(t, "rcas", "rgot") \/ Moves(t, "rcas", "rcheck")
         /\ LockSharedDone(t) => Moves(t, "rgot", "reading")
         /\ TryLockSharedLoad(t) => Moves(t, "idle", "tryr2")
         /\ TryLockSharedCheck(t) => Moves(t, "tryr2", "tryr3") \/ Moves(t, "tryr2", "idle")
         /\ TryLockSharedCas(t) => Moves(t, "tryr3", "reading") \/ Moves(t, "tryr3", "idle")
         /\ UnlockShared(t) => Moves(t, "reading", "idle")
         /\ UpgradeStart(t) => Moves(t, "reading", "upgrading")
         /\ UpgradeCas(t) => Moves(t, "upgrading", "writing")
         /\ Downgrade(t) => Moves(t, "writing", "reading")
  BY DEF Moves, Goto, LockStart, LockCheck, LockCas, LockDone, TryLockCheck, TryLockCas,
         Unlock, LockSharedStart, LockSharedLoad, LockSharedCheck, LockSharedCas,
         LockSharedDone, TryLockSharedLoad, TryLockSharedCheck, TryLockSharedCas,
         UnlockShared, UpgradeStart, UpgradeCas, Downgrade

Step(t) == Begins(t) \/ Goes(t) \/ Ends(t)

(* The actions that neither take nor give back the lock, and those that     *)
(* leave the waiting counters alone.                                        *)
HoldsNothingNew(t) ==
  \/ LockStart(t) \/ LockCheck(t) \/ LockDone(t) \/ TryLockCheck(t)
  \/ LockSharedStart(t) \/ LockSharedLoad(t) \/ LockSharedCheck(t) \/ LockSharedDone(t)
  \/ TryLockSharedLoad(t) \/ TryLockSharedCheck(t) \/ UpgradeStart(t)

CountsNothingNew(t) ==
  \/ LockCheck(t) \/ LockCas(t) \/ TryLockCheck(t) \/ TryLockCas(t) \/ Unlock(t)
  \/ LockSharedLoad(t) \/ LockSharedCheck(t) \/ LockSharedCas(t)
  \/ TryLockSharedLoad(t) \/ TryLockSharedCheck(t) \/ TryLockSharedCas(t)
  \/ UnlockShared(t) \/ UpgradeStart(t) \/ UpgradeCas(t) \/ Downgrade(t)

LEMMA SamePlaces ==
  ASSUME Typed, NEW t \in Threads
  PROVE  /\ HoldsNothingNew(t) => WritersOf' = WritersOf /\ ReadersOf' = ReadersOf
         /\ CountsNothingNew(t) => CountedW' = CountedW /\ CountedR' = CountedR
  <1> USE DEF HoldW, HoldR, AnnW, AnnR, PCs
  <1>1. ASSUME HoldsNothingNew(t)
        PROVE  WritersOf' = WritersOf /\ ReadersOf' = ReadersOf
    <2>1. \/ Moves(t, "idle", "wcheck") \/ Moves(t, "wcheck", "wcas") \/ Moves(t, "wgot", "writing")
          \/ Moves(t, "idle", "tryw2") \/ Moves(t, "idle", "rload") \/ Moves(t, "rload", "rcheck")
          \/ Moves(t, "rcheck", "rcas") \/ Moves(t, "rgot", "reading") \/ Moves(t, "idle", "tryr2")
          \/ Moves(t, "tryr2", "tryr3") \/ Moves(t, "tryr2", "idle") \/ Moves(t, "reading", "upgrading")
      BY <1>1, ActionMoves DEF HoldsNothingNew
    <2> QED
      BY <2>1, Steady
  <1>2. ASSUME CountsNothingNew(t)
        PROVE  CountedW' = CountedW /\ CountedR' = CountedR
    <2>1. \/ Moves(t, "wcheck", "wcas") \/ Moves(t, "wcas", "wgot") \/ Moves(t, "wcas", "wcheck")
          \/ Moves(t, "idle", "tryw2") \/ Moves(t, "tryw2", "writing") \/ Moves(t, "tryw2", "idle")
          \/ Moves(t, "writing", "idle") \/ Moves(t, "rload", "rcheck") \/ Moves(t, "rcheck", "rcas")
          \/ Moves(t, "rcas", "rgot") \/ Moves(t, "rcas", "rcheck") \/ Moves(t, "idle", "tryr2")
          \/ Moves(t, "tryr2", "tryr3") \/ Moves(t, "tryr2", "idle") \/ Moves(t, "tryr3", "reading")
          \/ Moves(t, "tryr3", "idle") \/ Moves(t, "reading", "idle")
          \/ Moves(t, "reading", "upgrading") \/ Moves(t, "upgrading", "writing")
          \/ Moves(t, "writing", "reading")
      BY <1>2, ActionMoves DEF CountsNothingNew
    <2> QED
      BY <2>1, Steady
  <1> QED
    BY <1>1, <1>2

LEMMA TypedStep ==
  ASSUME Typed, NEW t \in Threads, Step(t)
  PROVE  Typed'
  <1> USE DEF Typed
  <1>1. pc' \in [Threads -> PCs]
    BY ActionMoves DEF Step, Begins, Goes, Ends, Moves, PCs
  <1>2. policy' = policy
    BY DEF Step, Begins, Goes, Ends, LockStart, LockCheck, LockCas, LockDone, TryLockCheck,
         TryLockCas, Unlock, LockSharedStart, LockSharedLoad, LockSharedCheck,
         LockSharedCas, LockSharedDone, TryLockSharedLoad, TryLockSharedCheck,
         TryLockSharedCas, UnlockShared, UpgradeStart, UpgradeCas, Downgrade
  <1>3. current' \in Int /\ curr' \in [Threads -> Int]
    BY DEF Step, Begins, Goes, Ends, LockStart, LockCheck, LockCas, LockDone, TryLockCheck,
         TryLockCas, Unlock, LockSharedStart, LockSharedLoad, LockSharedCheck,
         LockSharedCas, LockSharedDone, TryLockSharedLoad, TryLockSharedCheck,
         TryLockSharedCas, UnlockShared, UpgradeStart, UpgradeCas, Downgrade
  <1>4. pendingR' \in Int /\ pendingW' \in Int
    BY DEF Step, Begins, Goes, Ends, LockStart, LockCheck, LockCas, LockDone, TryLockCheck,
         TryLockCas, Unlock, LockSharedStart, LockSharedLoad, LockSharedCheck,
         LockSharedCas, LockSharedDone, TryLockSharedLoad, TryLockSharedCheck,
         TryLockSharedCas, UnlockShared, UpgradeStart, UpgradeCas, Downgrade, Counted
  <1>5. overtook' \in [Threads -> SUBSET Threads]
    BY DEF Step, Begins, Goes, Ends, LockStart, LockCheck, LockCas, LockDone, TryLockCheck,
         TryLockCas, Unlock, LockSharedStart, LockSharedLoad, LockSharedCheck,
         LockSharedCas, LockSharedDone, TryLockSharedLoad, TryLockSharedCheck,
         TryLockSharedCas, UnlockShared, UpgradeStart, UpgradeCas, Downgrade, Overtake
  <1> QED
    BY <1>1, <1>2, <1>3, <1>4, <1>5

-----------------------------------------------------------------------------
(* The counter and the holders.                                             *)

(* What the two invariants say of a thread at a place.                      *)
LEMMA HolderFacts ==
  ASSUME Typed, Alone, CurrentInv, NEW t \in Threads
  PROVE  /\ pc[t] \in HoldW => WritersOf = {t} /\ ReadersOf = {} /\ current = -1
         /\ pc[t] \in HoldR => /\ WritersOf = {} /\ t \in ReadersOf
                               /\ current = Cardinality(ReadersOf) /\ current >= 1
         /\ current = 0 => WritersOf = {} /\ ReadersOf = {}
         /\ current >= 0 => WritersOf = {} /\ current = Cardinality(ReadersOf)
  <1>0. ReadersOf \in SUBSET Threads /\ Cardinality(ReadersOf) \in Nat
    <2>1. ReadersOf \in SUBSET Threads
      BY DEF ReadersOf
    <2> QED
      BY <2>1, Finite
  <1>1. pc[t] \in HoldW => WritersOf = {t} /\ ReadersOf = {} /\ current = -1
    BY SetsByPc DEF Alone, CurrentInv
  <1>2. current >= 0 => WritersOf = {} /\ current = Cardinality(ReadersOf)
    BY DEF CurrentInv
  <1>3. pc[t] \in HoldR => t \in ReadersOf /\ WritersOf = {}
    BY SetsByPc DEF Alone
  <1>4. pc[t] \in HoldR => current = Cardinality(ReadersOf) /\ current >= 1
    BY <1>0, <1>3, CountSome DEF CurrentInv
  <1>5. current = 0 => ReadersOf = {}
    <2> SUFFICES ASSUME current = 0, NEW u \in ReadersOf
                 PROVE  FALSE
      OBVIOUS
    <2> QED
      BY <1>0, <1>2, CountSome
  <1> QED
    BY <1>1, <1>2, <1>3, <1>4, <1>5

LEMMA HoldersStep ==
  ASSUME Typed, Alone, CurrentInv, SeenInv, NEW t \in Threads, Step(t)
  PROVE  Alone' /\ CurrentInv'
  <1> USE DEF PCs
  <1>0. ReadersOf \in SUBSET Threads /\ WritersOf \in SUBSET Threads
        /\ Cardinality(ReadersOf) \in Nat
    <2>1. ReadersOf \in SUBSET Threads /\ WritersOf \in SUBSET Threads
      BY DEF ReadersOf, WritersOf
    <2> QED
      BY <2>1, Finite
  (* The changes there are: nothing, a writer in, a reader in, a writer     *)
  (* out, a reader out, a reader become the writer, a writer a reader.      *)
  <1>1. CASE WritersOf' = WritersOf /\ ReadersOf' = ReadersOf /\ current' = current
    BY <1>1 DEF Alone, CurrentInv
  <1>2. CASE /\ current = 0 /\ current' = -1
             /\ WritersOf' = WritersOf \cup {t} /\ ReadersOf' = ReadersOf \ {t}
    <2>1. WritersOf' = {t} /\ ReadersOf' = {}
      BY <1>2, HolderFacts
    <2> QED
      BY <2>1, <1>2 DEF Alone, CurrentInv
  <1>3. CASE /\ current >= 0 /\ current' = current + 1 /\ t \notin ReadersOf
             /\ WritersOf' = WritersOf \ {t} /\ ReadersOf' = ReadersOf \cup {t}
    <2>1. WritersOf' = {} /\ current = Cardinality(ReadersOf)
      BY <1>3, HolderFacts
    <2>2. Cardinality(ReadersOf') = Cardinality(ReadersOf) + 1
      BY <1>0, <1>3, CountIn
    <2> QED
      BY <2>1, <2>2, <1>3 DEF Alone, CurrentInv
  <1>4. CASE /\ pc[t] \in HoldW /\ current' = current + 1
             /\ WritersOf' = WritersOf \ {t} /\ ReadersOf' = ReadersOf \ {t}
    <2>1. WritersOf' = {} /\ ReadersOf' = {} /\ current' = 0
      BY <1>4, HolderFacts
    <2> QED
      BY <2>1, CountNone DEF Alone, CurrentInv
  <1>5. CASE /\ pc[t] \in HoldR /\ current' = current - 1
             /\ WritersOf' = WritersOf \ {t} /\ ReadersOf' = ReadersOf \ {t}
    <2>1. WritersOf' = {} /\ t \in ReadersOf /\ current = Cardinality(ReadersOf)
      BY <1>5, HolderFacts
    <2>2. Cardinality(ReadersOf') = Cardinality(ReadersOf) - 1
      BY <1>0, <1>5, <2>1, CountOut
    <2> QED
      BY <2>1, <2>2, <1>5 DEF Alone, CurrentInv
  <1>6. CASE /\ pc[t] \in HoldR /\ current = 1 /\ current' = -1
             /\ WritersOf' = WritersOf \cup {t} /\ ReadersOf' = ReadersOf \ {t}
    <2>1. WritersOf = {} /\ t \in ReadersOf /\ Cardinality(ReadersOf) = 1
      BY <1>6, HolderFacts
    <2>2. ReadersOf = {t}
      BY <1>0, <2>1, CountOne
    <2> QED
      BY <2>1, <2>2, <1>6 DEF Alone, CurrentInv
  <1>7. CASE /\ pc[t] \in HoldW /\ current' = 1
             /\ WritersOf' = WritersOf \ {t} /\ ReadersOf' = ReadersOf \cup {t}
    <2>1. WritersOf' = {} /\ ReadersOf' = {} \cup {t}
      BY <1>7, HolderFacts
    <2>2. Cardinality({} \cup {t}) = 1
      BY CountIn, CountNone
    <2> QED
      BY <2>1, <2>2, <1>7 DEF Alone, CurrentInv
  <1>8. CASE HoldsNothingNew(t)
    <2>1. current' = current
      BY <1>8 DEF HoldsNothingNew, LockStart, LockCheck, LockDone, TryLockCheck,
         LockSharedStart, LockSharedLoad, LockSharedCheck, LockSharedDone, TryLockSharedLoad,
         TryLockSharedCheck, UpgradeStart
    <2> QED
      BY <1>1, <1>8, <2>1, SamePlaces
  <1>9. CASE LockCas(t)
    <2>1. CASE current = 0
      <3>1. Moves(t, "wcas", "wgot") /\ current' = -1
        BY <1>9, <2>1 DEF LockCas, Moves, Goto
      <3> QED
        BY <3>1, <2>1, <1>2, SetsMove DEF HoldW, HoldR
    <2>2. CASE current # 0
      <3>1. Moves(t, "wcas", "wcheck") /\ current' = current
        BY <1>9, <2>2 DEF LockCas, Moves, Goto
      <3> QED
        BY <3>1, <1>1, Steady DEF HoldW, HoldR
    <2> QED
      BY <2>1, <2>2
  <1>10. CASE TryLockCas(t)
    <2>1. CASE current = 0
      <3>1. Moves(t, "tryw2", "writing") /\ current' = -1
        BY <1>10, <2>1 DEF TryLockCas, Moves, Goto
      <3> QED
        BY <3>1, <2>1, <1>2, SetsMove DEF HoldW, HoldR
    <2>2. CASE current # 0
      <3>1. Moves(t, "tryw2", "idle") /\ current' = current
        BY <1>10, <2>2 DEF TryLockCas, Moves, Goto
      <3> QED
        BY <3>1, <1>1, Steady DEF HoldW, HoldR
    <2> QED
      BY <2>1, <2>2
  <1>11. CASE LockSharedCas(t)
    <2>1. CASE curr[t] >= 0 /\ current = curr[t]
      <3>1. Moves(t, "rcas", "rgot") /\ current' = current + 1 /\ current >= 0
        BY <1>11, <2>1 DEF LockSharedCas, Moves, Goto
      <3>2. t \notin ReadersOf
        BY <3>1, SetsByPc DEF Moves, HoldR
      <3> QED
        BY <3>1, <3>2, <1>3, SetsMove DEF HoldW, HoldR
    <2>2. CASE ~(curr[t] >= 0 /\ current = curr[t])
      <3>1. Moves(t, "rcas", "rcheck") /\ current' = current
        BY <1>11, <2>2 DEF LockSharedCas, Moves, Goto
      <3> QED
        BY <3>1, <1>1, Steady DEF HoldW, HoldR
    <2> QED
      BY <2>1, <2>2
  <1>12. CASE TryLockSharedCas(t)
    <2>1. CASE current = curr[t]
      <3>1. Moves(t, "tryr3", "reading") /\ current' = current + 1 /\ current >= 0
        BY <1>12, <2>1 DEF TryLockSharedCas, Moves, Goto, SeenInv
      <3>2. t \notin ReadersOf
        BY <3>1, SetsByPc DEF Moves, HoldR
      <3> QED
        BY <2>1, <3>1, <3>2, <1>3, SetsMove DEF HoldW, HoldR
    <2>2. CASE current # curr[t]
      <3>1. Moves(t, "tryr3", "idle") /\ current' = current
        BY <1>12, <2>2 DEF TryLockSharedCas, Moves, Goto
      <3> QED
        BY <3>1, <1>1, Steady DEF HoldW, HoldR
    <2> QED
      BY <2>1, <2>2
  <1>13. CASE Unlock(t)
    <2>1. Moves(t, "writing", "idle") /\ current' = current + 1
      BY <1>13 DEF Unlock, Moves, Goto
    <2> QED
      BY <2>1, <1>4, SetsMove DEF Moves, HoldW, HoldR
  <1>14. CASE UnlockShared(t)
    <2>1. Moves(t, "reading", "idle") /\ current' = current - 1
      BY <1>14 DEF UnlockShared, Moves, Goto
    <2> QED
      BY <2>1, <1>5, SetsMove DEF Moves, HoldW, HoldR
  <1>15. CASE UpgradeCas(t)
    <2>1. Moves(t, "upgrading", "writing") /\ current = 1 /\ current' = -1
      BY <1>15 DEF UpgradeCas, Moves, Goto
    <2> QED
      BY <2>1, <1>6, SetsMove DEF Moves, HoldW, HoldR
  <1>16. CASE Downgrade(t)
    <2>1. Moves(t, "writing", "reading") /\ current' = 1
      BY <1>16 DEF Downgrade, Moves, Goto
    <2> QED
      BY <2>1, <1>7, SetsMove DEF Moves, HoldW, HoldR
  <1> QED
    BY <1>8, <1>9, <1>10, <1>11, <1>12, <1>13, <1>14, <1>15, <1>16
       DEF Step, Begins, Goes, Ends, HoldsNothingNew

-----------------------------------------------------------------------------
(* The waiting counters, the old sights and the overtaking.                 *)

LEMMA SeenStep ==
  ASSUME Typed, SeenInv, NEW t \in Threads, Step(t)
  PROVE  SeenInv'
  <1> SUFFICES ASSUME NEW u \in Threads, pc'[u] \in {"tryr2", "tryr3"}
               PROVE  curr'[u] >= 0
    BY DEF SeenInv
  <1>1. CASE u # t
    <2>1. pc'[u] = pc[u] /\ curr'[u] = curr[u]
      BY <1>1 DEF Typed, Step, Begins, Goes, Ends, LockStart, LockCheck, LockCas,
         LockDone, TryLockCheck, TryLockCas, Unlock, LockSharedStart, LockSharedLoad,
         LockSharedCheck, LockSharedCas, LockSharedDone, TryLockSharedLoad,
         TryLockSharedCheck, TryLockSharedCas, UnlockShared, UpgradeStart, UpgradeCas, Downgrade, Goto
    <2> QED
      BY <2>1 DEF SeenInv
  <1>2. CASE u = t
    <2>1. TryLockSharedLoad(t) \/ TryLockSharedCheck(t)
      BY <1>2, ActionMoves DEF Typed, Moves, Step, Begins, Goes, Ends
    <2>2. CASE TryLockSharedLoad(t)
      BY <1>2, <2>2 DEF TryLockSharedLoad, Typed
    <2>3. CASE TryLockSharedCheck(t)
      BY <1>2, <2>3 DEF TryLockSharedCheck, SeenInv
    <2> QED
      BY <2>1, <2>2, <2>3
  <1> QED
    BY <1>1, <1>2

LEMMA PendingStep ==
  ASSUME Typed, PendingInv, NEW t \in Threads, Step(t)
  PROVE  PendingInv'
  <1> USE DEF PCs
  <1>0. CountedR \in SUBSET Threads /\ CountedW \in SUBSET Threads
    BY DEF CountedR, CountedW
  <1>1. CASE CountsNothingNew(t)
    <2>1. policy' = policy /\ pendingR' = pendingR /\ pendingW' = pendingW
      BY <1>1 DEF CountsNothingNew, LockCheck, LockCas, TryLockCheck, TryLockCas, Unlock,
         LockSharedLoad, LockSharedCheck, LockSharedCas, TryLockSharedLoad,
         TryLockSharedCheck, TryLockSharedCas, UnlockShared, UpgradeStart, UpgradeCas, Downgrade
    <2> QED
      BY <1>1, <2>1, SamePlaces DEF PendingInv
  <1>2. CASE LockStart(t)
    <2>1. Moves(t, "idle", "wcheck")
      BY <1>2, ActionMoves
    <2>2. t \notin CountedW /\ CountedW' = CountedW \cup {t} /\ CountedR' = CountedR
      BY <2>1, SetsByPc, SetsMove, Steady DEF Moves, AnnW, AnnR
    <2>3. Cardinality(CountedW') = Cardinality(CountedW) + 1
      BY <1>0, <2>2, CountIn
    <2> QED
      BY <1>2, <2>2, <2>3 DEF PendingInv, LockStart, Counted, Typed
  <1>3. CASE LockDone(t)
    <2>1. Moves(t, "wgot", "writing")
      BY <1>3, ActionMoves
    <2>2. t \in CountedW /\ CountedW' = CountedW \ {t} /\ CountedR' = CountedR
      BY <2>1, SetsByPc, SetsMove, Steady DEF Moves, AnnW, AnnR
    <2>3. Cardinality(CountedW') = Cardinality(CountedW) - 1
      BY <1>0, <2>2, CountOut
    <2> QED
      BY <1>3, <2>2, <2>3 DEF PendingInv, LockDone, Counted, Typed
  <1>4. CASE LockSharedStart(t)
    <2>1. Moves(t, "idle", "rload")
      BY <1>4, ActionMoves
    <2>2. t \notin CountedR /\ CountedR' = CountedR \cup {t} /\ CountedW' = CountedW
      BY <2>1, SetsByPc, SetsMove, Steady DEF Moves, AnnW, AnnR
    <2>3. Cardinality(CountedR') = Cardinality(CountedR) + 1
      BY <1>0, <2>2, CountIn
    <2> QED
      BY <1>4, <2>2, <2>3 DEF PendingInv, LockSharedStart, Counted, Typed
  <1>5. CASE LockSharedDone(t)
    <2>1. Moves(t, "rgot", "reading")
      BY <1>5, ActionMoves
    <2>2. t \in CountedR /\ CountedR' = CountedR \ {t} /\ CountedW' = CountedW
      BY <2>1, SetsByPc, SetsMove, Steady DEF Moves, AnnW, AnnR
    <2>3. Cardinality(CountedR') = Cardinality(CountedR) - 1
      BY <1>0, <2>2, CountOut
    <2> QED
      BY <1>5, <2>2, <2>3 DEF PendingInv, LockSharedDone, Counted, Typed
  <1> QED
    BY <1>1, <1>2, <1>3, <1>4, <1>5 DEF Step, Begins, Goes, Ends, CountsNothingNew

(* While a writer waits for a lock that prefers writers, the check stops    *)
(* every reader.                                                            *)
LEMMA WaitingIsCounted ==
  ASSUME Typed, PendingInv, policy = "writers", NEW w \in Threads, WaitsWrite(w)
  PROVE  ~ReaderMayTry
  <1>1. CountedW \in SUBSET Threads /\ w \in CountedW
    BY DEF CountedW
  <1>2. pendingW >= 1
    BY <1>1, CountSome DEF PendingInv
  <1> QED
    BY <1>2 DEF ReaderMayTry

LEMMA OvertakeStep ==
  ASSUME Typed, PendingInv, OvertakeInv, NEW t \in Threads, Step(t)
  PROVE  OvertakeInv'
  <1> USE DEF PCs
  <1>0. policy' = policy
    BY DEF Step, Begins, Goes, Ends, LockStart, LockCheck, LockCas,
         LockDone, TryLockCheck, TryLockCas, Unlock, LockSharedStart, LockSharedLoad,
         LockSharedCheck, LockSharedCas, LockSharedDone, TryLockSharedLoad,
         TryLockSharedCheck, TryLockSharedCas, UnlockShared, UpgradeStart, UpgradeCas, Downgrade, Goto
  <1>1. ASSUME NEW w \in Threads, ~WaitsWrite(w)'
        PROVE  overtook'[w] = {}
    <2>1. CASE WaitsWrite(w)
      <3>1. w = t /\ LockCas(t) /\ current = 0
        BY <1>1, <2>1 DEF WaitsWrite, Typed, Step, Begins, Goes, Ends, LockStart, LockCheck, LockCas,
         LockDone, TryLockCheck, TryLockCas, Unlock, LockSharedStart, LockSharedLoad,
         LockSharedCheck, LockSharedCas, LockSharedDone, TryLockSharedLoad,
         TryLockSharedCheck, TryLockSharedCas, UnlockShared, UpgradeStart, UpgradeCas, Downgrade, Goto
      <3> QED
        BY <3>1 DEF LockCas, Typed
    <2>2. CASE ~WaitsWrite(w)
      <3>1. overtook[w] = {}
        BY <2>2 DEF OvertakeInv
      <3> QED
        BY <2>2, <3>1 DEF WaitsWrite, Typed, Overtake, Step, Begins, Goes, Ends, LockStart, LockCheck, LockCas,
         LockDone, TryLockCheck, TryLockCas, Unlock, LockSharedStart, LockSharedLoad,
         LockSharedCheck, LockSharedCas, LockSharedDone, TryLockSharedLoad,
         TryLockSharedCheck, TryLockSharedCas, UnlockShared, UpgradeStart, UpgradeCas, Downgrade, Goto
    <2> QED
      BY <2>1, <2>2
  <1>2. ASSUME policy = "writers", NEW w \in Threads, NEW r \in overtook'[w]
        PROVE  pc'[r] \notin {"rcas", "tryr3"}
    <2>0. r \in Threads /\ WaitsWrite(w)'
      BY <1>1, <1>2, TypedStep DEF Typed
    <2>1. CASE r \in overtook[w]
      <3>1. pc[r] \notin {"rcas", "tryr3"} /\ WaitsWrite(w)
        BY <1>2, <2>1 DEF OvertakeInv
      <3>2. ~ReaderMayTry
        BY <1>2, <3>1, WaitingIsCounted
      <3> QED
        BY <2>0, <3>1, <3>2 DEF Typed, Step, Begins, Goes, Ends, LockStart, LockCheck, LockCas,
         LockDone, TryLockCheck, TryLockCas, Unlock, LockSharedStart, LockSharedLoad,
         LockSharedCheck, LockSharedCas, LockSharedDone, TryLockSharedLoad,
         TryLockSharedCheck, TryLockSharedCas, UnlockShared, UpgradeStart, UpgradeCas, Downgrade, Goto
    <2>2. CASE r \notin overtook[w]
      <3>1. r = t /\ pc'[t] \in {"rgot", "reading"}
        BY <1>2, <2>0, <2>2 DEF Typed, Overtake, Step, Begins, Goes, Ends, LockStart, LockCheck, LockCas,
         LockDone, TryLockCheck, TryLockCas, Unlock, LockSharedStart, LockSharedLoad,
         LockSharedCheck, LockSharedCas, LockSharedDone, TryLockSharedLoad,
         TryLockSharedCheck, TryLockSharedCas, UnlockShared, UpgradeStart, UpgradeCas, Downgrade, Goto
      <3> QED
        BY <3>1
    <2> QED
      BY <2>1, <2>2
  <1> QED
    BY <1>0, <1>1, <1>2 DEF OvertakeInv

-----------------------------------------------------------------------------
(* The inductive invariant and what follows from it.                        *)

LEMMA InvInit == Init => IInv
  <1> SUFFICES ASSUME Init
               PROVE  IInv
    OBVIOUS
  <1>1. Typed
    BY LockAssumption DEF Init, Typed, PCs, LockAssumption
  <1>2. WritersOf = {} /\ ReadersOf = {} /\ CountedW = {} /\ CountedR = {}
    BY SetsByPc DEF Init, HoldW, HoldR, AnnW, AnnR
  <1>3. Alone /\ CurrentInv /\ PendingInv
    BY <1>2, CountNone DEF Alone, CurrentInv, PendingInv, Init
  <1>4. SeenInv /\ OvertakeInv
    BY DEF SeenInv, OvertakeInv, Init, WaitsWrite
  <1> QED
    BY <1>1, <1>3, <1>4 DEF IInv

LEMMA InvStep == IInv /\ [Next]_vars => IInv'
  <1> SUFFICES ASSUME IInv, [Next]_vars
               PROVE  IInv'
    OBVIOUS
  <1>1. ASSUME NEW t \in Threads, Step(t)
        PROVE  IInv'
    BY <1>1, TypedStep, HoldersStep, SeenStep, PendingStep, OvertakeStep DEF IInv
  <1>2. CASE UNCHANGED vars
    BY <1>2 DEF vars, IInv, Typed, Alone, CurrentInv, SeenInv, PendingInv, OvertakeInv,
       WritersOf, ReadersOf, CountedW, CountedR, HoldsWrite, HoldsRead, WaitsWrite, WaitsRead
  <1> QED
    BY <1>1, <1>2 DEF Next, Step

THEOREM InvHolds == Spec => []IInv
  BY InvInit, InvStep, PTL DEF Spec

(* The waiting counters never fall below zero.                              *)
THEOREM TypeCorrect == Spec => []TypeOK
  <1>1. IInv => TypeOK
    <2> SUFFICES ASSUME IInv
                 PROVE  TypeOK
      OBVIOUS
    <2>1. CountedW \in SUBSET Threads /\ CountedR \in SUBSET Threads
      BY DEF CountedW, CountedR
    <2>2. pendingR \in Nat /\ pendingW \in Nat
      BY <2>1, Finite DEF IInv, Typed, PendingInv
    <2> QED
      BY <2>2 DEF IInv, Typed, TypeOK
  <1> QED
    BY <1>1, InvHolds, PTL

(* For every number of threads the counter tells who holds the lock,        *)
(* through attempts with an old sight of it, upgrades and downgrades: -1    *)
(* for a writer alone, else the number of readers.  The "locking counting   *)
(* error" of the unlocking functions is never thrown.                       *)
THEOREM CountsHolders == Spec => []LockCounts
  <1>1. IInv => LockCounts
    BY DEF IInv, CurrentInv, LockCounts, WritersOf, ReadersOf
  <1> QED
    BY <1>1, InvHolds, PTL

(* No reader lets itself in twice before a writer that waits for a lock     *)
(* that prefers writers.                                                    *)
THEOREM OvertakenAtMostOnce == Spec => OvertakenOnce
  <1>1. ASSUME IInv, [Next]_vars, policy = "writers", NEW w \in Threads, NEW r \in Threads,
               WaitsWrite(w), LetIn(r)
        PROVE  r \notin overtook[w]
    <2>1. pc[r] \in {"rcas", "tryr3"}
      BY <1>1 DEF IInv, Typed, PCs, LetIn, HoldsRead, HoldsWrite, Next, vars, Goto, Begins, Goes, Ends, LockStart, LockCheck, LockCas,
         LockDone, TryLockCheck, TryLockCas, Unlock, LockSharedStart, LockSharedLoad,
         LockSharedCheck, LockSharedCas, LockSharedDone, TryLockSharedLoad,
         TryLockSharedCheck, TryLockSharedCas, UnlockShared, UpgradeStart, UpgradeCas, Downgrade
    <2> QED
      BY <1>1, <2>1 DEF IInv, OvertakeInv
  <1>2. IInv /\ [Next]_vars =>
          [policy = "writers" =>
             \A w, r \in Threads : WaitsWrite(w) /\ LetIn(r) => r \notin overtook[w]]_vars
    BY <1>1
  <1> QED
    BY <1>2, InvHolds, PTL DEF Spec, OvertakenOnce

-----------------------------------------------------------------------------
(* The refinement.                                                          *)

LEMMA HeldSets ==
  /\ Lock!Writers = WritersOf
  /\ Lock!Readers = ReadersOf
  BY DEF Lock!Writers, Lock!Readers, WritersOf, ReadersOf, Held, HoldsRead, HoldsWrite

LEMMA HeldMoves ==
  ASSUME Typed, NEW t \in Threads, NEW from \in PCs, NEW to \in PCs, Moves(t, from, to)
  PROVE  [u \in Threads |-> Held(u)]'
           = [[u \in Threads |-> Held(u)] EXCEPT ![t] =
                IF to \in HoldW THEN "write" ELSE IF to \in HoldR THEN "read" ELSE "none"]
  <1>1. \A u \in Threads : u # t => pc'[u] = pc[u]
    BY SetsMove
  <1>2. pc'[t] = to
    BY SetsMove
  <1> QED
    BY <1>1, <1>2 DEF Held, HoldsRead, HoldsWrite, HoldW, HoldR

LEMMA HeldSteady ==
  ASSUME Typed, NEW t \in Threads, NEW from \in PCs, NEW to \in PCs, Moves(t, from, to),
         from \in HoldW <=> to \in HoldW, from \in HoldR <=> to \in HoldR
  PROVE  UNCHANGED Lock!vars
  <1>1. \A u \in Threads : u # t => pc'[u] = pc[u]
    BY SetsMove
  <1>2. pc'[t] = to /\ pc[t] = from
    BY SetsMove DEF Moves
  <1>3. \A u \in Threads : Held(u)' = Held(u)
    BY <1>1, <1>2 DEF Held, HoldsRead, HoldsWrite, HoldW, HoldR
  <1>4. [u \in Threads |-> Held(u)]' = [u \in Threads |-> Held(u)]
    BY <1>3
  <1> QED
    BY <1>4 DEF Lock!vars

LEMMA StepRefines ==
  ASSUME IInv, NEW t \in Threads, Step(t)
  PROVE  [Lock!Next]_(Lock!vars)
  <1> DEFINE h == [u \in Threads |-> Held(u)]
  <1> USE DEF IInv
  <1>0. h[t] = IF pc[t] \in HoldW THEN "write" ELSE IF pc[t] \in HoldR THEN "read" ELSE "none"
    BY DEF Held, HoldsRead, HoldsWrite, HoldW, HoldR
  <1>1. CASE HoldsNothingNew(t)
    <2>1. \/ Moves(t, "idle", "wcheck") \/ Moves(t, "wcheck", "wcas") \/ Moves(t, "wgot", "writing")
          \/ Moves(t, "idle", "tryw2") \/ Moves(t, "idle", "rload") \/ Moves(t, "rload", "rcheck")
          \/ Moves(t, "rcheck", "rcas") \/ Moves(t, "rgot", "reading") \/ Moves(t, "idle", "tryr2")
          \/ Moves(t, "tryr2", "tryr3") \/ Moves(t, "tryr2", "idle") \/ Moves(t, "reading", "upgrading")
      BY <1>1, ActionMoves DEF HoldsNothingNew
    <2>2. UNCHANGED Lock!vars
      BY <2>1, HeldSteady DEF HoldW, HoldR, PCs
    <2> QED
      BY <2>2
  <1>2. CASE LockCas(t) \/ TryLockCas(t)
    <2>1. CASE current = 0
      <3>1. Moves(t, "wcas", "wgot") \/ Moves(t, "tryw2", "writing")
        BY <1>2, <2>1 DEF LockCas, TryLockCas, Moves, Goto
      <3>2. Lock!Writers = {} /\ Lock!Readers = {}
        BY <2>1, HeldSets, HolderFacts
      <3>3. h' = [h EXCEPT ![t] = "write"] /\ h[t] = "none"
        BY <1>0, <3>1, HeldMoves DEF Moves, HoldW, HoldR, PCs
      <3> QED
        BY <3>2, <3>3 DEF Lock!Next, Lock!Acquire
    <2>2. CASE current # 0
      <3>1. Moves(t, "wcas", "wcheck") \/ Moves(t, "tryw2", "idle")
        BY <1>2, <2>2 DEF LockCas, TryLockCas, Moves, Goto
      <3>2. UNCHANGED Lock!vars
        BY <3>1, HeldSteady DEF HoldW, HoldR, PCs
      <3> QED
        BY <3>2
    <2> QED
      BY <2>1, <2>2
  <1>3. CASE LockSharedCas(t) \/ TryLockSharedCas(t)
    <2>1. CASE Moves(t, "rcas", "rgot") \/ Moves(t, "tryr3", "reading")
      <3>1. current >= 0
        BY <1>3, <2>1 DEF LockSharedCas, TryLockSharedCas, Moves, Goto, SeenInv, Typed
      <3>2. Lock!Writers = {}
        BY <3>1, HeldSets, HolderFacts
      <3>3. h' = [h EXCEPT ![t] = "read"] /\ h[t] = "none"
        BY <1>0, <2>1, HeldMoves DEF Moves, HoldW, HoldR, PCs
      <3> QED
        BY <3>2, <3>3 DEF Lock!Next, Lock!AcquireShared
    <2>2. CASE Moves(t, "rcas", "rcheck") \/ Moves(t, "tryr3", "idle")
      <3>2. UNCHANGED Lock!vars
        BY <2>2, HeldSteady DEF HoldW, HoldR, PCs
      <3> QED
        BY <3>2
    <2> QED
      BY <1>3, <2>1, <2>2, ActionMoves
  <1>4. CASE Unlock(t) \/ UnlockShared(t)
    <2>1. Moves(t, "writing", "idle") \/ Moves(t, "reading", "idle")
      BY <1>4, ActionMoves
    <2>2. h' = [h EXCEPT ![t] = "none"] /\ h[t] # "none"
      BY <1>0, <2>1, HeldMoves DEF Moves, HoldW, HoldR, PCs
    <2> QED
      BY <2>2 DEF Lock!Next, Lock!Release
  <1>5. CASE UpgradeCas(t)
    <2>1. Moves(t, "upgrading", "writing") /\ current = 1
      BY <1>5 DEF UpgradeCas, Moves, Goto
    <2>2. t \in ReadersOf /\ Cardinality(ReadersOf) = 1 /\ ReadersOf \in SUBSET Threads
      BY <2>1, HolderFacts DEF Moves, HoldR, ReadersOf
    <2>3. Lock!Readers = {t}
      BY <2>2, CountOne, HeldSets
    <2>4. h' = [h EXCEPT ![t] = "write"]
      BY <1>0, <2>1, HeldMoves DEF Moves, HoldW, HoldR, PCs
    <2> QED
      BY <2>3, <2>4 DEF Lock!Next, Lock!Upgrade
  <1>6. CASE Downgrade(t)
    <2>1. Moves(t, "writing", "reading")
      BY <1>6, ActionMoves
    <2>2. h' = [h EXCEPT ![t] = "read"] /\ h[t] = "write"
      BY <1>0, <2>1, HeldMoves DEF Moves, HoldW, HoldR, PCs
    <2> QED
      BY <2>2 DEF Lock!Next, Lock!Downgrade
  <1> QED
    BY <1>1, <1>2, <1>3, <1>4, <1>5, <1>6 DEF Step, Begins, Goes, Ends, HoldsNothingNew

(* The spin mutex implements a readers-writer lock: one writer alone, or    *)
(* readers, and an upgrade only by the last reader.                         *)
THEOREM SpinMutexIsALock == Spec => ImplementsLock
  <1>1. Init => Lock!Init
    BY DEF Init, Lock!Init, Held, HoldsRead, HoldsWrite
  <1>2. IInv /\ [Next]_vars => [Lock!Next]_(Lock!vars)
    <2>1. CASE UNCHANGED vars
      BY <2>1 DEF vars, Lock!vars, Held, HoldsRead, HoldsWrite
    <2> QED
      BY <2>1, StepRefines DEF Next, Step
  <1> QED
    BY <1>1, <1>2, InvHolds, PTL DEF Spec, ImplementsLock, Lock!Spec
=============================================================================
