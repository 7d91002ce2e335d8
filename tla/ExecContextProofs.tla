------------------------- MODULE ExecContextProofs -------------------------
(***************************************************************************)
(* Frames, barriers and jump flags of an execution context stay in step    *)
(* with the constructs that are running, and what they do together is the  *)
(* structured execution, for any nesting depth and any number of variables.*)
(***************************************************************************)
EXTENDS ExecContext, SequenceTheorems, WellFoundedInduction, TLAPS

Entry == [kind : Kinds, at : ExprPositions]

(* The node is the outermost entry and the only one of its kind.            *)
NodeOutermost ==
  /\ pc = "idle" <=> ctl = <<>>
  /\ \A i \in DOMAIN ctl : ctl[i].kind = "node" <=> i = 1

(* The barriers stand just below the functions' frames, in their order.     *)
BarriersAtCalls ==
  /\ \A k \in DOMAIN barriers :
       barriers[k] + 1 \in DOMAIN ctl /\ ctl[barriers[k] + 1].kind = "func"
  /\ \A i \in DOMAIN ctl :
       ctl[i].kind = "func" => \E k \in DOMAIN barriers : barriers[k] + 1 = i
  /\ \A k, l \in DOMAIN barriers : k < l => barriers[k] < barriers[l]

(* Initial, condition and increment expressions belong to loops and ifs,     *)
(* those that wait for a function to return included.                       *)
Holds(p, k) ==
  /\ p \in {"init", "incr"} => k \in Loops
  /\ p = "cond" => k \in Loops \cup {"if"}
ExprPlaces ==
  /\ pc # "idle" => Holds(IF pc = "use" THEN at ELSE pc, Top)
  /\ \A i \in DOMAIN ctl :
       ctl[i].kind = "func" => i - 1 \in DOMAIN ctl /\ Holds(ctl[i].at, ctl[i - 1].kind)

(* Only a loop leaves by itself, and it has taken back a break or continue  *)
(* by then.                                                                 *)
JumpsUnderWay ==
  /\ pc = "leave" => Top \in Loops
  /\ ~term => (brk \/ cont => pc = "after")

(* An exception is in flight exactly while the stack is unwound for it.      *)
ExcInFlight == pc \in {"unwind", "catch"} <=> exc # None

StackInv == TypeOK /\ Len(frames) = Len(ctl) /\ NodeOutermost /\ BarriersAtCalls
IInv == StackInv /\ ExcInFlight /\ ExprPlaces /\ JumpsUnderWay /\ JumpsAreTaken

(* Between expressions no value is in hand.                                 *)
HandEmpty == pc # "use" => acc = Undef /\ at = "stmt"

SInv == IInv /\ HandEmpty

-----------------------------------------------------------------------------
(* Sequences.                                                               *)

LEMMA PopType ==
  ASSUME NEW S, NEW s \in Seq(S), s # <<>>
  PROVE  /\ Pop(s) \in Seq(S)
         /\ Len(Pop(s)) = Len(s) - 1
         /\ \A i \in 1 .. Len(s) - 1 : Pop(s)[i] = s[i]
         /\ Len(s) \in 1 .. Len(s)
         /\ DOMAIN Pop(s) = 1 .. Len(s) - 1
<1>1. Len(s) \in Nat /\ Len(s) >= 1
  OBVIOUS
<1>2. Pop(s) = [i \in 1 .. Len(s) - 1 |-> s[i]]
  BY <1>1 DEF Pop
<1>3. Len(s) - 1 \in Nat /\ \A i \in 1 .. Len(s) - 1 : s[i] \in S
  BY <1>1
<1>4. Pop(s) \in Seq(S) /\ DOMAIN Pop(s) = 1 .. Len(s) - 1
  BY <1>2, <1>3
<1>5. Len(Pop(s)) = Len(s) - 1
  BY <1>3, <1>4
<1> QED BY <1>1, <1>2, <1>4, <1>5

\* A set of positions of a bounded range that is not empty has a largest member.
LEMMA LargestExists ==
  ASSUME NEW n \in Nat, NEW S \in SUBSET (1 .. n), S # {}
  PROVE  \E i \in S : \A j \in S : j =< i
<1> DEFINE T == {n - i : i \in S}
<1>1. \A i \in S : i \in 1 .. n /\ i \in Int /\ n - i \in Nat
  <2> SUFFICES ASSUME NEW i \in S PROVE i \in 1 .. n /\ i \in Int /\ n - i \in Nat
    OBVIOUS
  <2>1. i \in 1 .. n
    OBVIOUS
  <2> QED BY <2>1
<1>2. T \subseteq Nat /\ T # {}
  BY <1>1
<1>3. PICK x \in T : \A y \in T : ~ (<<y, x>> \in OpToRel(<, Nat))
  BY <1>2, NatLessThanWellFounded, WFMin
<1>4. \A y \in T : ~ (y < x)
  BY <1>2, <1>3 DEF OpToRel
<1>5. PICK i \in S : x = n - i
  BY <1>3
<1>6. ASSUME NEW j \in S PROVE j =< i
  <2>1. n - j \in T /\ ~(n - j < n - i)
    BY <1>4, <1>5
  <2>2. i \in Int /\ j \in Int /\ n \in Int
    BY <1>1
  <2> QED BY <2>1, <2>2
<1> QED BY <1>6

LEMMA LongNotEmpty ==
  ASSUME NEW s, Len(s) # 0
  PROVE  s # <<>>
  OBVIOUS

LEMMA PushType ==
  ASSUME NEW S, NEW s \in Seq(S), NEW e \in S
  PROVE  /\ Append(s, e) \in Seq(S)
         /\ Len(Append(s, e)) = Len(s) + 1
         /\ \A i \in 1 .. Len(s) : Append(s, e)[i] = s[i]
         /\ Append(s, e)[Len(s) + 1] = e
         /\ DOMAIN Append(s, e) = 1 .. Len(s) + 1
  OBVIOUS

LEMMA ExceptType ==
  ASSUME NEW S, NEW s \in Seq(S), NEW i \in 1 .. Len(s), NEW e \in S
  PROVE  /\ [s EXCEPT ![i] = e] \in Seq(S)
         /\ Len([s EXCEPT ![i] = e]) = Len(s)
         /\ DOMAIN [s EXCEPT ![i] = e] = 1 .. Len(s)
         /\ \A j \in 1 .. Len(s) : [s EXCEPT ![i] = e][j] = IF j = i THEN e ELSE s[j]
<1> DEFINE t == [s EXCEPT ![i] = e]
<1>1. Len(s) \in Nat /\ DOMAIN s = 1 .. Len(s) /\ \A j \in 1 .. Len(s) : s[j] \in S
  OBVIOUS
<1>2. t = [j \in 1 .. Len(s) |-> IF j = i THEN e ELSE s[j]]
  BY <1>1
<1>3. t \in Seq(S) /\ DOMAIN t = 1 .. Len(s) /\ \A j \in 1 .. Len(s) : t[j] = IF j = i THEN e ELSE s[j]
  BY <1>1, <1>2
<1> QED BY <1>1, <1>3

-----------------------------------------------------------------------------
(* The stack.                                                               *)

LEMMA StackInit == Init => StackInv
<1> SUFFICES ASSUME Init PROVE StackInv
  OBVIOUS
<1>1. TypeOK
  <2>1. \A S : <<>> \in Seq(S)
    OBVIOUS
  <2>2. /\ ret \in BOOLEAN /\ brk \in BOOLEAN /\ cont \in BOOLEAN /\ term \in BOOLEAN
        /\ result \in Values /\ acc \in Values /\ exc \in Values \cup {None}
    BY Zenon DEF Init, Values
  <2>3. pc \in PCs /\ at \in ExprPositions /\ outcome \in Values \cup {"none", "failed"}
    BY DEF Init, PCs, ExprPositions
  <2> QED BY <2>1, <2>2, <2>3, Zenon DEF Init, TypeOK
<1>2. DOMAIN ctl = {} /\ DOMAIN barriers = {} /\ Len(frames) = Len(ctl)
  BY DEF Init
<1>3. NodeOutermost
  BY <1>2 DEF Init, NodeOutermost
<1>4. BarriersAtCalls
  BY <1>2 DEF BarriersAtCalls
<1> QED BY <1>1, <1>2, <1>3, <1>4 DEF StackInv

(* The invariant of the barriers, in terms of lengths.                      *)
LEMMA BarrierFacts ==
  ASSUME StackInv
  PROVE  /\ Len(barriers) \in Nat /\ Len(ctl) \in Nat
         /\ \A k \in 1 .. Len(barriers) :
              /\ barriers[k] \in Nat
              /\ barriers[k] + 1 \in 1 .. Len(ctl)
              /\ ctl[barriers[k] + 1].kind = "func"
         /\ \A i \in 1 .. Len(ctl) :
              ctl[i].kind = "func" => \E k \in 1 .. Len(barriers) : barriers[k] + 1 = i
         /\ \A k, l \in 1 .. Len(barriers) : k < l => barriers[k] < barriers[l]
<1>1. /\ ctl \in Seq([kind : Kinds, at : ExprPositions]) /\ barriers \in Seq(Nat)
      /\ Len(barriers) \in Nat /\ Len(ctl) \in Nat
  BY DEF StackInv, TypeOK
<1>2. DOMAIN barriers = 1 .. Len(barriers) /\ DOMAIN ctl = 1 .. Len(ctl)
  BY <1>1
<1>3. \A k \in 1 .. Len(barriers) : barriers[k] \in Nat
  BY <1>1
<1> QED BY <1>1, <1>2, <1>3 DEF StackInv, BarriersAtCalls

(* What a step that moves no entry has to show.                             *)
LEMMA StackKept ==
  ASSUME StackInv, TypeOK', UNCHANGED <<ctl, frames, barriers>>,
         pc = "idle" <=> pc' = "idle"
  PROVE  StackInv'
  BY DEF StackInv, NodeOutermost, BarriersAtCalls

(* Pushing an entry that is no call.                                        *)
LEMMA StackPushed ==
  ASSUME StackInv, TypeOK', pc # "idle", pc' # "idle",
         NEW e \in Entry, e.kind \notin Activations,
         NEW b \in Values \cup {Unbound},
         ctl' = Append(ctl, e), frames' = Append(frames, b), UNCHANGED barriers
  PROVE  StackInv'
<1>1. /\ ctl \in Seq(Entry) /\ frames \in Seq(Values \cup {Unbound}) /\ barriers \in Seq(Nat)
      /\ ctl # <<>> /\ Len(ctl) > 0
  BY DEF StackInv, TypeOK, NodeOutermost, Entry
<1>2. /\ Len(ctl') = Len(ctl) + 1 /\ DOMAIN ctl' = 1 .. Len(ctl) + 1
      /\ \A i \in 1 .. Len(ctl) : ctl'[i] = ctl[i]
      /\ ctl'[Len(ctl) + 1] = e
  BY <1>1, PushType
<1>3. Len(frames') = Len(frames) + 1
  BY <1>1, PushType
<1>4. DOMAIN ctl = 1 .. Len(ctl) /\ DOMAIN barriers' = DOMAIN barriers
  BY <1>1
<1>5. NodeOutermost'
  <2>1. ctl' # <<>> /\ pc' # "idle"
    <3>1. Len(ctl') # 0
      BY <1>1, <1>2
    <3> QED BY <3>1, LongNotEmpty
  <2>2. \A i \in DOMAIN ctl' : ctl'[i].kind = "node" <=> i = 1
    BY <1>1, <1>2, <1>4 DEF StackInv, NodeOutermost, Activations
  <2> QED BY <2>1, <2>2 DEF NodeOutermost
<1>6. BarriersAtCalls'
  <2>1. \A k \in DOMAIN barriers : barriers[k] \in Nat
    BY <1>1
  <2>2. \A k \in DOMAIN barriers' :
          barriers'[k] + 1 \in DOMAIN ctl' /\ ctl'[barriers'[k] + 1].kind = "func"
    BY <1>1, <1>2, <1>4, <2>1 DEF StackInv, BarriersAtCalls
  <2>3. \A i \in DOMAIN ctl' :
          ctl'[i].kind = "func" => \E k \in DOMAIN barriers' : barriers'[k] + 1 = i
    BY <1>1, <1>2, <1>4 DEF StackInv, BarriersAtCalls, Activations
  <2> QED BY <2>2, <2>3 DEF StackInv, BarriersAtCalls
<1> QED BY <1>2, <1>3, <1>5, <1>6 DEF StackInv

(* A call: the barrier is the number of frames below the function's.        *)
LEMMA StackCalled ==
  ASSUME StackInv, TypeOK', pc # "idle", pc' # "idle",
         NEW e \in Entry, e.kind = "func",
         NEW b \in Values \cup {Unbound},
         ctl' = Append(ctl, e), frames' = Append(frames, b),
         barriers' = Append(barriers, Len(frames))
  PROVE  StackInv'
<1>1. /\ ctl \in Seq(Entry) /\ frames \in Seq(Values \cup {Unbound}) /\ barriers \in Seq(Nat)
      /\ ctl # <<>> /\ Len(ctl) > 0 /\ Len(frames) = Len(ctl) /\ Len(frames) \in Nat
  BY DEF StackInv, TypeOK, NodeOutermost, Entry
<1>2. /\ Len(ctl') = Len(ctl) + 1 /\ DOMAIN ctl' = 1 .. Len(ctl) + 1
      /\ \A i \in 1 .. Len(ctl) : ctl'[i] = ctl[i]
      /\ ctl'[Len(ctl) + 1] = e
  BY <1>1, PushType
<1>3. Len(frames') = Len(frames) + 1
  BY <1>1, PushType
<1>4. /\ DOMAIN barriers' = 1 .. Len(barriers) + 1
      /\ \A k \in 1 .. Len(barriers) : barriers'[k] = barriers[k]
      /\ barriers'[Len(barriers) + 1] = Len(ctl)
  BY <1>1, PushType
<1>5. DOMAIN ctl = 1 .. Len(ctl) /\ DOMAIN barriers = 1 .. Len(barriers) /\ Len(barriers) \in Nat
  BY <1>1
<1>6. NodeOutermost'
  <2>1. ctl' # <<>> /\ pc' # "idle"
    <3>1. Len(ctl') # 0
      BY <1>1, <1>2
    <3> QED BY <3>1, LongNotEmpty
  <2>2. \A i \in DOMAIN ctl' : ctl'[i].kind = "node" <=> i = 1
    BY <1>1, <1>2, <1>5 DEF StackInv, NodeOutermost
  <2> QED BY <2>1, <2>2 DEF NodeOutermost
<1>7. BarriersAtCalls'
  <2>1. \A k \in DOMAIN barriers : barriers[k] \in Nat
    BY <1>1
  <2>2. \A k \in DOMAIN barriers' :
          barriers'[k] + 1 \in DOMAIN ctl' /\ ctl'[barriers'[k] + 1].kind = "func"
    BY <1>1, <1>2, <1>4, <1>5, <2>1 DEF StackInv, BarriersAtCalls
  <2>3. \A i \in DOMAIN ctl' :
          ctl'[i].kind = "func" => \E k \in DOMAIN barriers' : barriers'[k] + 1 = i
    <3> SUFFICES ASSUME NEW i \in DOMAIN ctl', ctl'[i].kind = "func"
                 PROVE  \E k \in DOMAIN barriers' : barriers'[k] + 1 = i
      OBVIOUS
    <3>1. CASE i = Len(ctl) + 1
      <4>1. Len(barriers) + 1 \in DOMAIN barriers'
        BY <1>4, <1>5
      <4> QED BY <4>1, <3>1, <1>4
    <3>2. CASE i \in 1 .. Len(ctl)
      <4>1. PICK k \in DOMAIN barriers : barriers[k] + 1 = i
        BY <3>2, <1>2, <1>5 DEF StackInv, BarriersAtCalls
      <4> QED BY <4>1, <1>4, <1>5
    <3> QED BY <3>1, <3>2, <1>1, <1>2
  <2>4. \A k, l \in DOMAIN barriers' : k < l => barriers'[k] < barriers'[l]
    <3> SUFFICES ASSUME NEW k \in DOMAIN barriers', NEW l \in DOMAIN barriers', k < l
                 PROVE  barriers'[k] < barriers'[l]
      OBVIOUS
    <3>1. k \in DOMAIN barriers /\ barriers'[k] = barriers[k] /\ barriers[k] \in Nat
      BY <1>4, <1>5, <2>1
    <3>2. barriers[k] + 1 \in 1 .. Len(ctl)
      BY <3>1, <1>5 DEF StackInv, BarriersAtCalls
    <3>3. CASE l = Len(barriers) + 1
      BY <3>1, <3>2, <3>3, <1>1, <1>4
    <3>4. CASE l \in 1 .. Len(barriers)
      BY <3>1, <3>4, <1>4, <1>5 DEF StackInv, BarriersAtCalls
    <3> QED BY <3>3, <3>4, <1>4, <1>5
  <2> QED BY <2>2, <2>3, <2>4 DEF BarriersAtCalls
<1> QED BY <1>2, <1>3, <1>6, <1>7 DEF StackInv

(* An exec that is no activation returns.                                   *)
LEMMA StackPopped ==
  ASSUME StackInv, TypeOK', pc # "idle", pc' # "idle",
         Top \notin Activations,
         ctl' = Pop(ctl), frames' = Pop(frames), UNCHANGED barriers
  PROVE  StackInv'
<1>1. /\ ctl \in Seq(Entry) /\ frames \in Seq(Values \cup {Unbound}) /\ barriers \in Seq(Nat)
      /\ ctl # <<>> /\ Len(frames) = Len(ctl) /\ Len(ctl) \in Nat /\ Len(ctl) > 0
      /\ DOMAIN ctl = 1 .. Len(ctl) /\ frames # <<>>
  BY DEF StackInv, TypeOK, NodeOutermost, Entry
<1>2. /\ Len(ctl') = Len(ctl) - 1 /\ DOMAIN ctl' = 1 .. Len(ctl) - 1
      /\ \A i \in 1 .. Len(ctl) - 1 : ctl'[i] = ctl[i]
  BY <1>1, PopType
<1>3. Len(frames') = Len(frames) - 1
  BY <1>1, PopType
<1>4. Len(ctl) \in Nat /\ Len(ctl) > 1
  BY <1>1 DEF StackInv, NodeOutermost, Top, Activations
<1>5. NodeOutermost'
  <2>1. ctl' # <<>>
    <3>1. Len(ctl') # 0
      BY <1>2, <1>4
    <3> QED BY <3>1, LongNotEmpty
  <2>2. \A i \in DOMAIN ctl' : ctl'[i].kind = "node" <=> i = 1
    <3>1. \A i \in 1 .. Len(ctl) : ctl[i].kind = "node" <=> i = 1
      BY <1>1 DEF StackInv, NodeOutermost
    <3> QED BY <3>1, <1>1, <1>2
  <2> QED BY <2>1, <2>2 DEF NodeOutermost
<1>6. BarriersAtCalls'
  <2>1. \A k \in DOMAIN barriers : barriers[k] \in Nat
    BY <1>1
  <2>2. \A k \in DOMAIN barriers : barriers[k] + 1 \in 1 .. Len(ctl) - 1
    BY <1>1, <2>1 DEF StackInv, BarriersAtCalls, Top, Activations
  <2>3. \A k \in DOMAIN barriers' :
          barriers'[k] + 1 \in DOMAIN ctl' /\ ctl'[barriers'[k] + 1].kind = "func"
    BY <1>2, <2>2 DEF StackInv, BarriersAtCalls
  <2>4. \A i \in DOMAIN ctl' :
          ctl'[i].kind = "func" => \E k \in DOMAIN barriers' : barriers'[k] + 1 = i
    BY <1>1, <1>2 DEF StackInv, BarriersAtCalls
  <2> QED BY <2>3, <2>4 DEF StackInv, BarriersAtCalls
<1> QED BY <1>1, <1>2, <1>3, <1>5, <1>6 DEF StackInv

(* A function returns, or an exception leaves it: the last barrier is its.  *)
LEMMA StackReturned ==
  ASSUME StackInv, TypeOK', pc # "idle", pc' # "idle",
         Top = "func",
         ctl' = Pop(ctl), frames' = Pop(frames), barriers' = Pop(barriers)
  PROVE  StackInv'
<1>1. /\ ctl \in Seq(Entry) /\ frames \in Seq(Values \cup {Unbound}) /\ barriers \in Seq(Nat)
      /\ ctl # <<>> /\ Len(frames) = Len(ctl) /\ Len(ctl) \in Nat /\ Len(ctl) > 0
      /\ DOMAIN ctl = 1 .. Len(ctl) /\ frames # <<>>
      /\ DOMAIN barriers = 1 .. Len(barriers) /\ Len(barriers) \in Nat
  BY DEF StackInv, TypeOK, NodeOutermost, Entry
<1>2. /\ Len(ctl') = Len(ctl) - 1 /\ DOMAIN ctl' = 1 .. Len(ctl) - 1
      /\ \A i \in 1 .. Len(ctl) - 1 : ctl'[i] = ctl[i]
  BY <1>1, PopType
<1>3. Len(frames') = Len(frames) - 1
  BY <1>1, PopType
<1>4. Len(ctl) \in Nat /\ Len(ctl) > 1
  BY <1>1 DEF StackInv, NodeOutermost, Top
<1>5. PICK n \in DOMAIN barriers : barriers[n] + 1 = Len(ctl)
  BY <1>1 DEF StackInv, BarriersAtCalls, Top
<1>6. \A k \in DOMAIN barriers : barriers[k] \in Nat /\ barriers[k] + 1 \in 1 .. Len(ctl)
  BY <1>1 DEF StackInv, BarriersAtCalls
<1>7. n = Len(barriers)
  <2> SUFFICES ASSUME n # Len(barriers) PROVE FALSE
    OBVIOUS
  <2>1. n < Len(barriers) /\ Len(barriers) \in DOMAIN barriers
    BY <1>1
  <2>2. barriers[n] < barriers[Len(barriers)]
    BY <2>1 DEF StackInv, BarriersAtCalls
  <2> QED BY <2>1, <2>2, <1>1, <1>5, <1>6
<1>8. /\ barriers # <<>>
      /\ DOMAIN barriers' = 1 .. Len(barriers) - 1
      /\ \A k \in 1 .. Len(barriers) - 1 : barriers'[k] = barriers[k]
  <2>1. barriers # <<>>
    BY <1>1, <1>5
  <2> QED BY <2>1, <1>1, PopType
<1>9. NodeOutermost'
  <2>1. ctl' # <<>>
    <3>1. Len(ctl') # 0
      BY <1>2, <1>4
    <3> QED BY <3>1, LongNotEmpty
  <2>2. \A i \in DOMAIN ctl' : ctl'[i].kind = "node" <=> i = 1
    <3>1. \A i \in 1 .. Len(ctl) : ctl[i].kind = "node" <=> i = 1
      BY <1>1 DEF StackInv, NodeOutermost
    <3> QED BY <3>1, <1>1, <1>2
  <2> QED BY <2>1, <2>2 DEF NodeOutermost
<1>10. BarriersAtCalls'
  <2>1. \A k \in 1 .. Len(barriers) - 1 : barriers[k] < barriers[n]
    BY <1>1, <1>7, BarrierFacts
  <2>2. \A k \in 1 .. Len(barriers) - 1 : barriers[k] + 1 \in 1 .. Len(ctl) - 1
    BY <2>1, <1>1, <1>5, <1>6
  <2>3. \A k \in DOMAIN barriers' :
          barriers'[k] + 1 \in DOMAIN ctl' /\ ctl'[barriers'[k] + 1].kind = "func"
    <3> SUFFICES ASSUME NEW k \in 1 .. Len(barriers) - 1
                 PROVE  /\ barriers[k] + 1 \in 1 .. Len(ctl) - 1
                        /\ ctl[barriers[k] + 1].kind = "func"
      BY <1>2, <1>8
    <3> QED BY <2>2, <1>1, BarrierFacts
  <2>4. \A i \in DOMAIN ctl' :
          ctl'[i].kind = "func" => \E k \in DOMAIN barriers' : barriers'[k] + 1 = i
    <3> SUFFICES ASSUME NEW i \in 1 .. Len(ctl) - 1, ctl[i].kind = "func"
                 PROVE  \E k \in DOMAIN barriers' : barriers'[k] + 1 = i
      BY <1>2
    <3>1. PICK k \in 1 .. Len(barriers) : barriers[k] + 1 = i
      BY <1>1, BarrierFacts
    <3>2. k # n
      BY <3>1, <1>5, <1>1
    <3>3. k \in 1 .. Len(barriers) - 1
      <4>1. Len(barriers) \in Nat /\ k # Len(barriers)
        BY <3>2, <1>1, <1>7
      <4> QED BY <4>1
    <3>4. k \in DOMAIN barriers' /\ barriers'[k] = barriers[k]
      BY <3>3, <1>8
    <3> QED BY <3>1, <3>4
  <2>5. \A k, l \in DOMAIN barriers' : k < l => barriers'[k] < barriers'[l]
    <3> SUFFICES ASSUME NEW k \in 1 .. Len(barriers) - 1, NEW l \in 1 .. Len(barriers) - 1,
                        k < l
                 PROVE  barriers[k] < barriers[l]
      BY <1>8
    <3> QED BY <1>1, BarrierFacts
  <2> QED BY <2>3, <2>4, <2>5 DEF BarriersAtCalls
<1> QED BY <1>1, <1>2, <1>3, <1>9, <1>10 DEF StackInv

(* The node's exec returns or is left by an exception: nothing stays.       *)
LEMMA StackEmptied ==
  ASSUME StackInv, TypeOK', pc # "idle", pc' = "idle",
         Top = "node",
         ctl' = <<>>, frames' = Pop(frames), UNCHANGED barriers
  PROVE  StackInv'
<1>1. /\ ctl \in Seq(Entry) /\ frames \in Seq(Values \cup {Unbound}) /\ barriers \in Seq(Nat)
      /\ ctl # <<>> /\ Len(frames) = Len(ctl) /\ Len(ctl) \in Nat /\ Len(ctl) > 0
      /\ DOMAIN ctl = 1 .. Len(ctl) /\ frames # <<>>
  BY DEF StackInv, TypeOK, NodeOutermost, Entry
<1>2. Len(ctl) = 1
  BY <1>1 DEF StackInv, NodeOutermost, Top
<1>3. Len(frames') = 0
  BY <1>1, <1>2, PopType
<1>4. \A k \in DOMAIN barriers : FALSE
  <2> SUFFICES ASSUME NEW k \in DOMAIN barriers PROVE FALSE
    OBVIOUS
  <2>1. barriers[k] \in Nat /\ barriers[k] + 1 \in DOMAIN ctl /\ ctl[barriers[k] + 1].kind = "func"
    BY <1>1 DEF StackInv, BarriersAtCalls
  <2>2. barriers[k] + 1 = 1
    BY <2>1, <1>1, <1>2
  <2> QED BY <2>1, <2>2, <1>2 DEF Top
<1>5. BarriersAtCalls'
  BY <1>4 DEF BarriersAtCalls
<1> QED BY <1>3, <1>5 DEF StackInv, NodeOutermost

-----------------------------------------------------------------------------
(* Every step keeps the types.                                              *)

USE DEF stackVars, flagVars, exprVars, vars

LEMMA Nonempty ==
  ASSUME StackInv, pc # "idle"
  PROVE  /\ ctl \in Seq(Entry) /\ ctl # <<>> /\ Len(ctl) \in Nat /\ Len(ctl) >= 1
         /\ frames \in Seq(Values \cup {Unbound}) /\ frames # <<>> /\ Len(frames) = Len(ctl)
         /\ ctl[Len(ctl)] \in Entry /\ Top \in Kinds /\ ctl[Len(ctl)].at \in ExprPositions
         /\ barriers \in Seq(Nat)
         /\ Top = "func" => barriers # <<>>
<1>1. /\ ctl \in Seq(Entry) /\ ctl # <<>> /\ frames \in Seq(Values \cup {Unbound})
      /\ Len(frames) = Len(ctl) /\ barriers \in Seq(Nat)
  BY DEF StackInv, TypeOK, NodeOutermost, Entry
<1>2. Len(ctl) \in Nat /\ Len(ctl) >= 1 /\ Len(ctl) \in DOMAIN ctl /\ frames # <<>>
  BY <1>1
<1>3. ctl[Len(ctl)] \in Entry
  BY <1>1, <1>2
<1>4. Top \in Kinds /\ ctl[Len(ctl)].at \in ExprPositions
  BY <1>3 DEF Entry, Top
<1>5. Top = "func" => barriers # <<>>
  BY <1>2 DEF StackInv, BarriersAtCalls, Top
<1> QED BY <1>1, <1>2, <1>3, <1>4, <1>5

LEMMA TypeStep ==
  ASSUME StackInv, ExcInFlight, Next
  PROVE  TypeOK'
<1> USE DEF TypeOK
<1>0. TypeOK
  BY DEF StackInv
<1>1. ASSUME NEW b \in Boxes \cup {Unbound}, Start(b) PROVE TypeOK'
  <2>1. Exec("node", "stmt") \in Entry
    BY DEF Exec, Entry, Kinds, Activations, ExprPositions
  <2>2. ctl' \in Seq(Entry) /\ frames' \in Seq(Values \cup {Unbound})
    BY <1>1, <2>1 DEF Start, Values
  <2> QED BY <1>0, <1>1, <2>2 DEF Start, PCs, Entry, ExprPositions
<1>2. ASSUME NEW k \in Constructs, Enter(k) PROVE TypeOK'
  <2>1. Exec(k, "stmt") \in Entry
    BY DEF Exec, Entry, Kinds, ExprPositions
  <2>2. ctl' \in Seq(Entry) /\ frames' \in Seq(Values \cup {Unbound})
    BY <1>0, <1>2, <2>1, PushType DEF Enter, Entry
  <2>3. pc' \in PCs
    BY <1>2 DEF Enter, FirstOf, PCs, ExprPositions
  <2> QED BY <1>0, <1>2, <2>2, <2>3 DEF Enter, Entry
<1>3. CASE EndBody
  BY <1>0, <1>3 DEF EndBody, PCs
<1>4. CASE Break
  BY <1>0, <1>4 DEF Break, PCs
<1>5. CASE Continue
  BY <1>0, <1>5 DEF Continue, PCs
<1>6. CASE Atom
  <2>1. acc' \in Values
    <3>1. CASE acc' = Undef
      BY <3>1 DEF Values
    <3>2. ASSUME NEW i \in DOMAIN frames, Found(i), acc' = frames[i] PROVE acc' \in Values
      BY <1>0, <3>2 DEF Found
    <3> QED BY <1>6, <3>1, <3>2 DEF Atom
  <2> QED BY <1>0, <1>6, <2>1 DEF Atom, PCs, ExprPositions
<1>7. CASE Drop
  BY <1>0, <1>7 DEF Drop, PCs, ExprPositions, Values
<1>8. CASE Return
  BY <1>0, <1>8 DEF Return, PCs, Values
<1>9. ASSUME NEW t \in BOOLEAN, Branch(t) PROVE TypeOK'
  BY <1>0, <1>9 DEF Branch, PCs, ExprPositions, Values
<1>10. ASSUME NEW b \in Boxes, Declare(b) PROVE TypeOK'
  <2>1. frames' \in Seq(Values \cup {Unbound})
    <3>1. pc # "idle" /\ b \in Values \cup {Unbound}
      BY <1>10 DEF Declare, Values
    <3>2. Len(frames) \in 1 .. Len(frames)
      BY <3>1, Nonempty
    <3> QED BY <1>0, <1>10, <3>1, <3>2, ExceptType DEF Declare
  <2> QED BY <1>0, <1>10, <2>1 DEF Declare
<1>11. ASSUME NEW b \in Values \cup {Unbound}, Call(b) PROVE TypeOK'
  <2>1. Exec("func", at) \in Entry
    BY <1>0 DEF Exec, Entry, Kinds, Activations
  <2>2. ctl' \in Seq(Entry) /\ frames' \in Seq(Values \cup {Unbound})
    BY <1>0, <1>11, <2>1, PushType DEF Call, Entry
  <2>3. barriers' \in Seq(Nat)
    BY <1>0, <1>11, PushType DEF Call
  <2> QED BY <1>0, <1>11, <2>2, <2>3 DEF Call, Entry, PCs, ExprPositions, Values
<1>12. ASSUME NEW v \in Values, Throw(v) PROVE TypeOK'
  BY <1>0, <1>12 DEF Throw, PCs, ExprPositions, Values
<1>13. CASE ThrowUnchecked
  BY <1>0, <1>13 DEF ThrowUnchecked, PCs, Values
<1>14. CASE LoopAfter
  <2>1. pc' \in PCs
    BY <1>14 DEF LoopAfter, AgainOf, PCs, ExprPositions
  <2>2. brk' \in BOOLEAN /\ cont' \in BOOLEAN
    BY <1>0, <1>14 DEF LoopAfter
  <2> QED BY <1>0, <1>14, <2>1, <2>2 DEF LoopAfter
<1>15. CASE Back
  <2>1. pc # "idle"
    BY <1>15 DEF Back
  <2>2. ctl' \in Seq(Entry) /\ frames' \in Seq(Values \cup {Unbound})
    BY <1>15, <2>1, Nonempty, PopType DEF Back
  <2> QED BY <1>0, <1>15, <2>2 DEF Back, PCs, ExprPositions, Entry
<1>16. CASE FunctionBack
  <2>1. pc # "idle"
    BY <1>16 DEF FunctionBack
  <2>2. ctl' \in Seq(Entry) /\ frames' \in Seq(Values \cup {Unbound}) /\ barriers' \in Seq(Nat)
    BY <1>16, <2>1, Nonempty, PopType DEF FunctionBack
  <2>3. acc' \in Values /\ at' \in ExprPositions
    BY <1>0, <1>16, <2>1, Nonempty DEF FunctionBack, Values
  <2> QED BY <1>0, <1>16, <2>2, <2>3 DEF FunctionBack, PCs, Entry
<1>17. CASE NodeBack
  <2>1. pc # "idle"
    BY <1>17 DEF NodeBack
  <2>2. ctl' \in Seq(Entry) /\ frames' \in Seq(Values \cup {Unbound})
    BY <1>17, <2>1, Nonempty, PopType DEF NodeBack
  <2>3. CASE term
    BY <1>0, <1>17, <2>2, <2>3 DEF NodeBack, PCs, Entry
  <2>4. CASE ~term
    BY <1>0, <1>17, <2>2, <2>4 DEF NodeBack, PCs, Entry
  <2> QED BY <2>3, <2>4
<1>18. CASE Unwind
  <2>1. pc # "idle" /\ pc = "unwind"
    BY <1>18 DEF Unwind
  <2>2. CASE Top = "try"
    <3>1. ctl' \in Seq(Entry)
      <4>1. [ctl[Len(ctl)] EXCEPT !.kind = "handler"] \in Entry
        BY <2>1, Nonempty DEF Entry, Kinds
      <4>2. ctl' = [ctl EXCEPT ![Len(ctl)] = [ctl[Len(ctl)] EXCEPT !.kind = "handler"]]
        BY <1>18, <2>2 DEF Unwind
      <4>3. Len(ctl) \in 1 .. Len(ctl) /\ ctl \in Seq(Entry)
        BY <2>1, Nonempty
      <4> QED BY <4>1, <4>2, <4>3, ExceptType
    <3> QED BY <1>0, <1>18, <2>2, <3>1 DEF Unwind, PCs, Entry
  <2>3. CASE Top # "try"
    <3>1. ctl' \in Seq(Entry) /\ frames' \in Seq(Values \cup {Unbound})
      BY <1>18, <2>1, <2>3, Nonempty, PopType DEF Unwind
    <3>2. ret' \in BOOLEAN /\ barriers' \in Seq(Nat)
      BY <1>0, <1>18, <2>1, <2>3, Nonempty, PopType DEF Unwind
    <3>3. pc' \in PCs /\ exc' \in Values \cup {None} /\ outcome' \in Values \cup {"none", "failed"}
      BY <1>0, <1>18, <2>3 DEF Unwind, PCs
    <3> QED BY <1>0, <1>18, <3>1, <3>2, <3>3 DEF Unwind, Entry
  <2> QED BY <2>2, <2>3
<1>19. CASE CatchUnnamed
  BY <1>0, <1>19 DEF CatchUnnamed, PCs, ExprPositions
<1>20. ASSUME NEW x \in BOOLEAN, CatchNamed(x) PROVE TypeOK'
  <2>1. Exec("catch", "stmt") \in Entry
    BY DEF Exec, Entry, Kinds, ExprPositions
  <2>2. (IF x /\ ~Known THEN exc ELSE Unbound) \in Values \cup {Unbound}
    BY <1>0, <1>20 DEF CatchNamed, ExcInFlight
  <2>3. ctl' \in Seq(Entry) /\ frames' \in Seq(Values \cup {Unbound})
    BY <1>0, <1>20, <2>1, <2>2, PushType DEF CatchNamed, Entry
  <2> QED BY <1>0, <1>20, <2>3 DEF CatchNamed, PCs, ExprPositions, Entry
<1>21. CASE Terminate
  BY <1>0, <1>21 DEF Terminate
<1> QED BY <1>1, <1>2, <1>3, <1>4, <1>5, <1>6, <1>7, <1>8, <1>9, <1>10, <1>11, <1>12,
           <1>13, <1>14, <1>15, <1>16, <1>17, <1>18, <1>19, <1>20, <1>21
        DEF Next, Step, Consume

-----------------------------------------------------------------------------
(* Every step keeps frames and barriers in step with the entries.           *)

LEMMA StackStep ==
  ASSUME StackInv, ExcInFlight, Next
  PROVE  StackInv' /\ ExcInFlight'
<1>0. TypeOK /\ TypeOK'
  BY TypeStep DEF StackInv
<1>a. Undef # None /\ None \notin Values /\ Unbound \in Values \cup {Unbound}
  BY ExecAssumption DEF Values
<1>1. ASSUME NEW b \in Boxes \cup {Unbound}, Start(b) PROVE StackInv' /\ ExcInFlight'
  <2>1. ctl = <<>> /\ Len(frames) = 0 /\ barriers \in Seq(Nat) /\ Len(barriers) \in Nat
    BY <1>0, <1>1 DEF Start, StackInv, NodeOutermost, TypeOK
  <2>2. DOMAIN barriers = {}
    BY <2>1 DEF StackInv, BarriersAtCalls
  <2>3. ctl' # <<>> /\ DOMAIN ctl' = {1} /\ ctl'[1].kind = "node" /\ Len(ctl') = 1 /\ Len(frames') = 1
    BY <1>1 DEF Start, Exec
  <2>4. NodeOutermost'
    BY <1>1, <2>3 DEF Start, NodeOutermost
  <2>5. BarriersAtCalls'
    BY <1>1, <2>2, <2>3 DEF Start, BarriersAtCalls
  <2> QED BY <1>0, <1>1, <2>3, <2>4, <2>5 DEF StackInv, ExcInFlight, Start
<1>2. ASSUME NEW k \in Constructs, Enter(k) PROVE StackInv' /\ ExcInFlight'
  <2>1. Exec(k, "stmt") \in Entry /\ Exec(k, "stmt").kind \notin Activations
    BY DEF Exec, Entry, Kinds, ExprPositions, Constructs, Loops, Activations
  <2>2. pc' \notin {"idle", "unwind", "catch"} /\ pc \notin {"idle", "unwind", "catch"}
    BY <1>2 DEF Enter, FirstOf
  <2>3. StackInv'
    BY <1>0, <1>a, <1>2, <2>1, <2>2, StackPushed DEF Enter
  <2> QED BY <1>2, <2>2, <2>3 DEF ExcInFlight, Enter
<1>3. CASE EndBody
  BY <1>0, <1>3, StackKept DEF EndBody, ExcInFlight
<1>4. CASE Break
  BY <1>0, <1>4, StackKept DEF Break, ExcInFlight
<1>5. CASE Continue
  BY <1>0, <1>5, StackKept DEF Continue, ExcInFlight
<1>6. CASE Atom
  <2>1. pc \notin {"idle", "unwind", "catch"}
    BY <1>6 DEF Atom, ExprPositions
  <2> QED BY <1>0, <1>6, <2>1, StackKept DEF Atom, ExcInFlight
<1>7. CASE Drop
  BY <1>0, <1>7, StackKept DEF Drop, ExcInFlight
<1>8. CASE Return
  BY <1>0, <1>8, StackKept DEF Return, ExcInFlight
<1>9. ASSUME NEW t \in BOOLEAN, Branch(t) PROVE StackInv' /\ ExcInFlight'
  BY <1>0, <1>9, StackKept DEF Branch, ExcInFlight
<1>10. ASSUME NEW b \in Boxes, Declare(b) PROVE StackInv' /\ ExcInFlight'
  <2>1. Len(frames') = Len(frames)
    <3>1. Len(frames) \in 1 .. Len(frames) /\ frames \in Seq(Values \cup {Unbound}) /\ b \in Values \cup {Unbound}
      BY <1>10, Nonempty DEF Declare, Values
    <3> QED BY <1>10, <3>1, ExceptType DEF Declare
  <2> QED BY <1>0, <1>10, <2>1 DEF Declare, StackInv, NodeOutermost, BarriersAtCalls, ExcInFlight
<1>11. ASSUME NEW b \in Values \cup {Unbound}, Call(b) PROVE StackInv' /\ ExcInFlight'
  <2>1. Exec("func", at) \in Entry /\ Exec("func", at).kind = "func"
    BY <1>0 DEF TypeOK, Exec, Entry, Kinds, Activations
  <2>2. StackInv'
    BY <1>0, <1>11, <2>1, StackCalled DEF Call
  <2> QED BY <1>11, <2>2 DEF ExcInFlight, Call
<1>12. ASSUME NEW v \in Values, Throw(v) PROVE StackInv' /\ ExcInFlight'
  BY <1>0, <1>a, <1>12, StackKept DEF Throw, ExcInFlight
<1>13. CASE ThrowUnchecked
  BY <1>0, <1>a, <1>13, StackKept DEF ThrowUnchecked, ExcInFlight
<1>14. CASE LoopAfter
  <2>1. pc \notin {"idle", "unwind", "catch"} /\ pc' \notin {"idle", "unwind", "catch"}
    BY <1>14 DEF LoopAfter, AgainOf
  <2> QED BY <1>0, <1>14, <2>1, StackKept DEF LoopAfter, ExcInFlight
<1>15. CASE Back
  <2>1. pc \notin {"idle", "unwind", "catch"} /\ pc' \notin {"idle", "unwind", "catch"}
    BY <1>15 DEF Back
  <2> QED BY <1>0, <1>15, <2>1, StackPopped DEF Back, ExcInFlight
<1>16. CASE FunctionBack
  BY <1>0, <1>16, StackReturned DEF FunctionBack, ExcInFlight
<1>17. CASE NodeBack
  BY <1>0, <1>17, StackEmptied DEF NodeBack, ExcInFlight
<1>18. CASE Unwind
  <2>1. CASE Top = "try"
    <3>1. /\ pc = "unwind" /\ pc' = "catch" /\ UNCHANGED <<frames, barriers, exc>>
          /\ ctl' = [ctl EXCEPT ![Len(ctl)] = [ctl[Len(ctl)] EXCEPT !.kind = "handler"]]
      BY <1>18, <2>1 DEF Unwind
    <3>2. /\ ctl \in Seq(Entry) /\ Len(ctl) \in 1 .. Len(ctl) /\ DOMAIN ctl = 1 .. Len(ctl)
          /\ ctl[Len(ctl)] \in Entry /\ ctl[Len(ctl)].kind = "try"
      BY <2>1, <3>1, Nonempty DEF Top
    <3>3. [ctl[Len(ctl)] EXCEPT !.kind = "handler"] \in Entry
          /\ [ctl[Len(ctl)] EXCEPT !.kind = "handler"].kind = "handler"
      BY <3>2 DEF Entry, Kinds
    <3>4. /\ Len(ctl') = Len(ctl) /\ DOMAIN ctl' = 1 .. Len(ctl)
          /\ \A j \in 1 .. Len(ctl) : j # Len(ctl) => ctl'[j] = ctl[j]
          /\ ctl'[Len(ctl)].kind = "handler"
      BY <3>1, <3>2, <3>3, ExceptType
    <3>5. ctl' # <<>>
      BY <3>1, <3>2, <3>3, ExceptType
    <3>6. NodeOutermost'
      BY <3>1, <3>2, <3>4, <3>5 DEF StackInv, NodeOutermost
    <3>7. BarriersAtCalls'
      BY <3>1, <3>2, <3>4 DEF StackInv, BarriersAtCalls
    <3> QED BY <1>0, <3>1, <3>4, <3>6, <3>7 DEF StackInv, ExcInFlight
  <2>2. CASE Top = "func"
    BY <1>0, <1>18, <2>2, StackReturned DEF Unwind, ExcInFlight
  <2>3. CASE Top = "node"
    <3>1. ctl' = <<>>
      <4>1. pc # "idle" /\ ctl' = Pop(ctl)
        BY <1>18, <2>3 DEF Unwind
      <4>2. Len(ctl) = 1
        BY <2>3, <4>1, Nonempty DEF StackInv, NodeOutermost, Top
      <4>3. Len(ctl') = 0 /\ ctl' \in Seq(Entry)
        BY <4>1, <4>2, Nonempty, PopType
      <4> QED BY <4>3
    <3> QED BY <1>0, <1>18, <2>3, <3>1, StackEmptied DEF Unwind, ExcInFlight
  <2>4. CASE Top \notin {"try", "func", "node"}
    <3>1. /\ pc = "unwind" /\ Top \notin Activations /\ ctl' = Pop(ctl) /\ frames' = Pop(frames)
          /\ UNCHANGED <<barriers, pc, exc>>
      BY <1>18, <2>4 DEF Unwind, Activations
    <3> QED BY <1>0, <3>1, StackPopped DEF ExcInFlight
  <2> QED BY <2>1, <2>2, <2>3, <2>4
<1>19. CASE CatchUnnamed
  BY <1>0, <1>19, StackKept DEF CatchUnnamed, ExcInFlight
<1>20. ASSUME NEW x \in BOOLEAN, CatchNamed(x) PROVE StackInv' /\ ExcInFlight'
  <2>1. Exec("catch", "stmt") \in Entry /\ Exec("catch", "stmt").kind \notin Activations
    BY DEF Exec, Entry, Kinds, ExprPositions, Activations
  <2>2. (IF x /\ ~Known THEN exc ELSE Unbound) \in Values \cup {Unbound}
    BY <1>0, <1>20 DEF CatchNamed, ExcInFlight, TypeOK
  <2>3. StackInv'
    BY <1>0, <1>20, <2>1, <2>2, StackPushed DEF CatchNamed
  <2> QED BY <1>20, <2>3 DEF ExcInFlight, CatchNamed
<1>21. CASE Terminate
  BY <1>0, <1>21, StackKept DEF Terminate, ExcInFlight
<1> QED BY <1>1, <1>2, <1>3, <1>4, <1>5, <1>6, <1>7, <1>8, <1>9, <1>10, <1>11, <1>12,
           <1>13, <1>14, <1>15, <1>16, <1>17, <1>18, <1>19, <1>20, <1>21
        DEF Next, Step, Consume

-----------------------------------------------------------------------------
(* Every step keeps expressions with the constructs they belong to.         *)

(* The entries of a step, by what it does to the stack.                     *)
LEMMA Pushed ==
  ASSUME StackInv, pc # "idle", NEW e \in Entry, ctl' = Append(ctl, e)
  PROVE  /\ Top' = e.kind
         /\ Len(ctl') = Len(ctl) + 1 /\ DOMAIN ctl' = 1 .. Len(ctl) + 1
         /\ ctl'[Len(ctl) + 1] = e /\ \A i \in 1 .. Len(ctl) : ctl'[i] = ctl[i]
<1>1. ctl \in Seq(Entry) /\ DOMAIN ctl = 1 .. Len(ctl)
  BY Nonempty
<1>2. /\ Len(ctl') = Len(ctl) + 1 /\ DOMAIN ctl' = 1 .. Len(ctl) + 1
      /\ ctl'[Len(ctl) + 1] = e /\ \A i \in 1 .. Len(ctl) : ctl'[i] = ctl[i]
  BY <1>1, PushType
<1> QED BY <1>2 DEF Top

LEMMA Popped ==
  ASSUME StackInv, pc # "idle", ctl' = Pop(ctl), Len(ctl) > 1
  PROVE  /\ Len(ctl') = Len(ctl) - 1 /\ DOMAIN ctl' = 1 .. Len(ctl) - 1
         /\ \A i \in 1 .. Len(ctl) - 1 : ctl'[i] = ctl[i]
         /\ Top' = ctl[Len(ctl) - 1].kind
<1>1. ctl \in Seq(Entry) /\ ctl # <<>> /\ Len(ctl) \in Nat
  BY Nonempty
<1>2. /\ Len(ctl') = Len(ctl) - 1 /\ DOMAIN ctl' = 1 .. Len(ctl) - 1
      /\ \A i \in 1 .. Len(ctl) - 1 : ctl'[i] = ctl[i]
  BY <1>1, PopType
<1>3. Len(ctl') \in 1 .. Len(ctl) - 1
  BY <1>1, <1>2
<1> QED BY <1>2, <1>3 DEF Top

LEMMA Deep ==
  ASSUME StackInv, pc # "idle", Top # "node"
  PROVE  Len(ctl) > 1
  BY Nonempty DEF StackInv, NodeOutermost, Top

LEMMA PlacesPushed ==
  ASSUME StackInv, ExprPlaces, pc # "idle", NEW e \in Entry, ctl' = Append(ctl, e),
         e.kind = "func" => Holds(e.at, Top),
         Holds(IF pc' = "use" THEN at' ELSE pc', e.kind)
  PROVE  ExprPlaces'
<1>1. DOMAIN ctl = 1 .. Len(ctl) /\ Len(ctl) \in Nat /\ Len(ctl) >= 1
  BY Nonempty
<1>2. ASSUME NEW i \in DOMAIN ctl', ctl'[i].kind = "func"
      PROVE  i - 1 \in DOMAIN ctl' /\ Holds(ctl'[i].at, ctl'[i - 1].kind)
  <2>1. CASE i = Len(ctl) + 1
    BY <1>1, <1>2, <2>1, Pushed DEF Top
  <2>2. CASE i \in 1 .. Len(ctl)
    BY <1>1, <1>2, <2>2, Pushed DEF ExprPlaces
  <2> QED BY <2>1, <2>2, <1>1, Pushed
<1>3. Holds(IF pc' = "use" THEN at' ELSE pc', Top')
  BY Pushed
<1> QED BY <1>2, <1>3 DEF ExprPlaces

LEMMA PlacesPopped ==
  ASSUME StackInv, ExprPlaces, pc # "idle", Top # "node", ctl' = Pop(ctl),
         Holds(IF pc' = "use" THEN at' ELSE pc', Top')
  PROVE  ExprPlaces'
<1>1. DOMAIN ctl = 1 .. Len(ctl) /\ Len(ctl) \in Nat /\ Len(ctl) > 1
  BY Nonempty, Deep
<1>2. ASSUME NEW i \in DOMAIN ctl', ctl'[i].kind = "func"
      PROVE  i - 1 \in DOMAIN ctl' /\ Holds(ctl'[i].at, ctl'[i - 1].kind)
  BY <1>1, <1>2, Popped DEF ExprPlaces
<1> QED BY <1>2 DEF ExprPlaces

LEMMA PlacesKept ==
  ASSUME StackInv, ExprPlaces, pc # "idle", UNCHANGED ctl,
         Holds(IF pc' = "use" THEN at' ELSE pc', Top)
  PROVE  ExprPlaces'
  BY DEF ExprPlaces, Top

LEMMA PlacesStep ==
  ASSUME StackInv, ExprPlaces, JumpsUnderWay, Next
  PROVE  ExprPlaces'
<1>0. TypeOK
  BY DEF StackInv
<1>1. ASSUME NEW b \in Boxes \cup {Unbound}, Start(b) PROVE ExprPlaces'
  <2>1. ctl' # <<>> /\ DOMAIN ctl' = {1} /\ ctl'[1].kind = "node"
    BY <1>1 DEF Start, Exec
  <2> QED BY <1>1, <2>1 DEF Start, ExprPlaces, Holds
<1>2. ASSUME NEW k \in Constructs, Enter(k) PROVE ExprPlaces'
  <2>1. Exec(k, "stmt") \in Entry /\ Exec(k, "stmt").kind # "func" /\ Exec(k, "stmt").kind = k
    BY DEF Exec, Entry, Kinds, ExprPositions, Constructs, Loops
  <2>2. pc' = FirstOf(k) /\ Holds(FirstOf(k), k) /\ FirstOf(k) # "use"
    BY <1>2 DEF Enter, FirstOf, Holds, Loops
  <2> QED BY <1>2, <2>1, <2>2, PlacesPushed DEF Enter
<1>3. CASE EndBody
  BY <1>3, PlacesKept DEF EndBody, Holds
<1>4. CASE Break
  BY <1>4, PlacesKept DEF Break, Holds
<1>5. CASE Continue
  BY <1>5, PlacesKept DEF Continue, Holds
<1>6. CASE Atom
  BY <1>6, PlacesKept DEF Atom, ExprPlaces, ExprPositions
<1>7. CASE Drop
  BY <1>0, <1>7, PlacesKept DEF Drop, ExprPlaces, Holds, TypeOK, ExprPositions
<1>8. CASE Return
  BY <1>8, PlacesKept DEF Return, Holds
<1>9. ASSUME NEW t \in BOOLEAN, Branch(t) PROVE ExprPlaces'
  BY <1>9, PlacesKept DEF Branch, Holds
<1>10. ASSUME NEW b \in Boxes, Declare(b) PROVE ExprPlaces'
  BY <1>10, PlacesKept DEF Declare, ExprPlaces
<1>11. ASSUME NEW b \in Values \cup {Unbound}, Call(b) PROVE ExprPlaces'
  <2>1. /\ Exec("func", at) \in Entry /\ Exec("func", at).kind = "func"
        /\ Exec("func", at).at = at
    BY <1>0 DEF TypeOK, Exec, Entry, Kinds, Activations
  <2>2. Holds(at, Top) /\ Holds("stmt", "func")
    BY <1>11 DEF Call, ExprPlaces, Holds
  <2> QED BY <1>11, <2>1, <2>2, PlacesPushed DEF Call
<1>12. ASSUME NEW v \in Values, Throw(v) PROVE ExprPlaces'
  BY <1>12, PlacesKept DEF Throw, Holds
<1>13. CASE ThrowUnchecked
  BY <1>13, PlacesKept DEF ThrowUnchecked, Holds
<1>14. CASE LoopAfter
  <2>1. pc' # "use" /\ Holds(pc', Top)
    BY <1>14 DEF LoopAfter, AgainOf, Holds
  <2> QED BY <1>14, <2>1, PlacesKept DEF LoopAfter
<1>15. CASE Back
  BY <1>15, PlacesPopped DEF Back, Holds, Activations
<1>16. CASE FunctionBack
  <2>1. /\ pc # "idle" /\ Top = "func" /\ ctl' = Pop(ctl) /\ pc' = "use"
        /\ at' = ctl[Len(ctl)].at
    BY <1>16 DEF FunctionBack
  <2>2. Holds(ctl[Len(ctl)].at, ctl[Len(ctl) - 1].kind)
    BY <2>1, Nonempty DEF ExprPlaces, Top
  <2>3. Top' = ctl[Len(ctl) - 1].kind
    BY <2>1, Deep, Popped
  <2> QED BY <2>1, <2>2, <2>3, PlacesPopped
<1>17. CASE NodeBack
  BY <1>17 DEF NodeBack, ExprPlaces
<1>18. CASE Unwind
  <2>1. CASE Top = "try"
    <3>1. /\ pc = "unwind" /\ pc' = "catch"
          /\ ctl' = [ctl EXCEPT ![Len(ctl)] = [ctl[Len(ctl)] EXCEPT !.kind = "handler"]]
      BY <1>18, <2>1 DEF Unwind
    <3>2. /\ ctl \in Seq(Entry) /\ Len(ctl) \in 1 .. Len(ctl) /\ DOMAIN ctl = 1 .. Len(ctl)
          /\ ctl[Len(ctl)] \in Entry /\ ctl[Len(ctl)].kind = "try"
      BY <2>1, <3>1, Nonempty DEF Top
    <3>3. [ctl[Len(ctl)] EXCEPT !.kind = "handler"] \in Entry
          /\ [ctl[Len(ctl)] EXCEPT !.kind = "handler"].kind = "handler"
      BY <3>2 DEF Entry, Kinds
    <3>4. /\ Len(ctl') = Len(ctl) /\ DOMAIN ctl' = 1 .. Len(ctl)
          /\ \A j \in 1 .. Len(ctl) : j # Len(ctl) => ctl'[j] = ctl[j]
          /\ ctl'[Len(ctl)].kind = "handler"
      BY <3>1, <3>2, <3>3, ExceptType
    <3>5. ASSUME NEW i \in DOMAIN ctl', ctl'[i].kind = "func"
          PROVE  i - 1 \in DOMAIN ctl' /\ Holds(ctl'[i].at, ctl'[i - 1].kind)
      <4>1. i # Len(ctl) /\ ctl'[i] = ctl[i] /\ i \in DOMAIN ctl
        BY <3>2, <3>4, <3>5
      <4>2. i - 1 \in DOMAIN ctl /\ Holds(ctl[i].at, ctl[i - 1].kind) /\ i - 1 # Len(ctl)
        BY <3>2, <3>5, <4>1 DEF ExprPlaces
      <4> QED BY <3>2, <3>4, <4>1, <4>2
    <3> QED BY <3>1, <3>5 DEF ExprPlaces, Holds
  <2>2. CASE Top # "try" /\ Top # "node"
    BY <1>18, <2>2, PlacesPopped DEF Unwind, Holds
  <2>3. CASE Top = "node"
    <3>1. pc # "idle" /\ ctl' = Pop(ctl) /\ pc' = "idle"
      BY <1>18, <2>3 DEF Unwind
    <3>2. Len(ctl) = 1
      BY <2>3, <3>1, Nonempty DEF StackInv, NodeOutermost, Top
    <3>3. DOMAIN ctl' = {}
      BY <3>1, <3>2, Nonempty, PopType
    <3> QED BY <3>1, <3>3 DEF ExprPlaces
  <2> QED BY <2>1, <2>2, <2>3
<1>19. CASE CatchUnnamed
  BY <1>19, PlacesKept DEF CatchUnnamed, Holds
<1>20. ASSUME NEW x \in BOOLEAN, CatchNamed(x) PROVE ExprPlaces'
  <2>1. Exec("catch", "stmt") \in Entry /\ Exec("catch", "stmt").kind # "func"
    BY DEF Exec, Entry, Kinds, ExprPositions
  <2> QED BY <1>20, <2>1, PlacesPushed DEF CatchNamed, Holds
<1>21. CASE Terminate
  BY <1>21 DEF Terminate, ExprPlaces, Top
<1> QED BY <1>1, <1>2, <1>3, <1>4, <1>5, <1>6, <1>7, <1>8, <1>9, <1>10, <1>11, <1>12,
           <1>13, <1>14, <1>15, <1>16, <1>17, <1>18, <1>19, <1>20, <1>21
        DEF Next, Step, Consume

-----------------------------------------------------------------------------
(* Every step keeps the jumps on their way.                                 *)

Jumps == JumpsUnderWay /\ JumpsAreTaken

LEMMA InLoopPopped ==
  ASSUME StackInv, pc # "idle", InLoop, Top \notin Loops \cup Activations,
         ctl' = Pop(ctl)
  PROVE  InLoop'
<1>1. /\ DOMAIN ctl = 1 .. Len(ctl) /\ Len(ctl) \in Nat
      /\ Len(ctl') = Len(ctl) - 1 /\ DOMAIN ctl' = 1 .. Len(ctl) - 1
      /\ \A i \in 1 .. Len(ctl) - 1 : ctl'[i] = ctl[i]
  BY Nonempty, Deep, Popped DEF Activations
<1>2. PICK i \in DOMAIN ctl : /\ ctl[i].kind \in Loops
                             /\ \A j \in i + 1 .. Len(ctl) : ctl[j].kind \notin Activations
  BY DEF InLoop
<1>3. i \in 1 .. Len(ctl) - 1
  BY <1>1, <1>2 DEF Top
<1> QED BY <1>1, <1>2, <1>3 DEF InLoop

LEMMA InLoopNotAtCall ==
  ASSUME StackInv, pc # "idle", InLoop
  PROVE  Top \notin Activations
<1>1. DOMAIN ctl = 1 .. Len(ctl) /\ Len(ctl) \in Nat /\ Len(ctl) >= 1
  BY Nonempty
<1>2. PICK i \in DOMAIN ctl : /\ ctl[i].kind \in Loops
                             /\ \A j \in i + 1 .. Len(ctl) : ctl[j].kind \notin Activations
  BY DEF InLoop
<1>3. CASE i = Len(ctl)
  BY <1>2, <1>3 DEF Top, Loops, Activations
<1>4. CASE i < Len(ctl)
  BY <1>1, <1>2, <1>4 DEF Top
<1> QED BY <1>1, <1>3, <1>4

(* A step with no flag up before and after.                                 *)
LEMMA JumpsQuiet ==
  ASSUME ~term' => ~ret' /\ ~brk' /\ ~cont', pc' = "leave" => (Top \in Loops)'
  PROVE  Jumps'
  BY DEF Jumps, JumpsUnderWay, JumpsAreTaken

LEMMA JumpsStep ==
  ASSUME StackInv, ExcInFlight, ExprPlaces, Jumps, Next
  PROVE  Jumps'
<1>0. TypeOK
  BY DEF StackInv
<1>a. ~term /\ pc \notin {"after", "leave"} => ~ret /\ ~brk /\ ~cont
  BY DEF Jumps, JumpsAreTaken
<1>1. ASSUME NEW b \in Boxes \cup {Unbound}, Start(b) PROVE Jumps'
  BY <1>a, <1>1, JumpsQuiet DEF Start
<1>2. ASSUME NEW k \in Constructs, Enter(k) PROVE Jumps'
  BY <1>a, <1>2, JumpsQuiet DEF Enter, FirstOf
<1>3. CASE EndBody
  BY <1>a, <1>3, JumpsQuiet DEF EndBody
<1>4. CASE Break
  BY <1>a, <1>4 DEF Break, Jumps, JumpsUnderWay, JumpsAreTaken, SomeJump, InLoop
<1>5. CASE Continue
  BY <1>a, <1>5 DEF Continue, Jumps, JumpsUnderWay, JumpsAreTaken, SomeJump, InLoop
<1>6. CASE Atom
  BY <1>a, <1>6, JumpsQuiet DEF Atom, ExprPositions
<1>7. CASE Drop
  BY <1>a, <1>7, JumpsQuiet DEF Drop
<1>8. CASE Return
  BY <1>a, <1>8 DEF Return, Jumps, JumpsUnderWay, JumpsAreTaken
<1>9. ASSUME NEW t \in BOOLEAN, Branch(t) PROVE Jumps'
  <2>1. pc' = "leave" => (Top \in Loops)'
    BY <1>9 DEF Branch, ExprPlaces, Holds, Top
  <2> QED BY <1>a, <1>9, <2>1, JumpsQuiet DEF Branch
<1>10. ASSUME NEW b \in Boxes, Declare(b) PROVE Jumps'
  BY <1>a, <1>10, JumpsQuiet DEF Declare
<1>11. ASSUME NEW b \in Values \cup {Unbound}, Call(b) PROVE Jumps'
  BY <1>a, <1>11, JumpsQuiet DEF Call
<1>12. ASSUME NEW v \in Values, Throw(v) PROVE Jumps'
  BY <1>a, <1>12, JumpsQuiet DEF Throw
<1>13. CASE ThrowUnchecked
  BY <1>a, <1>13, JumpsQuiet DEF ThrowUnchecked
<1>14. CASE LoopAfter
  <2>1. pc' = "leave" => (Top \in Loops)'
    BY <1>14 DEF LoopAfter, Top
  <2>2. CASE term
    BY <1>14, <2>1, <2>2 DEF LoopAfter, Jumps, JumpsUnderWay, JumpsAreTaken
  <2>3. CASE ~term /\ ret
    BY <1>14, <2>1, <2>3 DEF LoopAfter, Jumps, JumpsUnderWay, JumpsAreTaken
  <2>4. CASE ~term /\ ~ret
    BY <1>14, <2>1, <2>4, JumpsQuiet DEF LoopAfter
  <2> QED BY <2>2, <2>3, <2>4
<1>15. CASE Back
  <2>1. pc # "idle" /\ pc' # "leave" /\ Top \notin Activations /\ ctl' = Pop(ctl)
    BY <1>15 DEF Back
  <2>2. ~term => (brk \/ cont => Top \notin Loops)
    BY <1>15 DEF Back, Jumps, JumpsUnderWay
  <2>3. ~term => (brk \/ cont => InLoop')
    BY <2>1, <2>2, InLoopPopped DEF Jumps, JumpsAreTaken
  <2> QED BY <1>15, <2>1, <2>3 DEF Back, SomeJump, Jumps, JumpsUnderWay, JumpsAreTaken
<1>16. CASE FunctionBack
  <2>1. ~term => ~brk /\ ~cont
    BY <1>16, InLoopNotAtCall DEF FunctionBack, Jumps, JumpsAreTaken, Activations
  <2> QED BY <1>16, <2>1, JumpsQuiet DEF FunctionBack
<1>17. CASE NodeBack
  BY <1>17, JumpsQuiet DEF NodeBack
<1>18. CASE Unwind
  <2>1. ~term => ~ret /\ ~brk /\ ~cont
    BY <1>a, <1>18 DEF Unwind
  <2>2. ~term' => ~ret' /\ ~brk' /\ ~cont'
    BY <1>18, <2>1 DEF Unwind
  <2>3. pc' # "leave"
    BY <1>18 DEF Unwind
  <2> QED BY <2>2, <2>3, JumpsQuiet
<1>19. CASE CatchUnnamed
  BY <1>a, <1>19, JumpsQuiet DEF CatchUnnamed
<1>20. ASSUME NEW x \in BOOLEAN, CatchNamed(x) PROVE Jumps'
  BY <1>a, <1>20, JumpsQuiet DEF CatchNamed
<1>21. CASE Terminate
  BY <1>21 DEF Terminate, Jumps, JumpsUnderWay, JumpsAreTaken, Top
<1> QED BY <1>1, <1>2, <1>3, <1>4, <1>5, <1>6, <1>7, <1>8, <1>9, <1>10, <1>11, <1>12,
           <1>13, <1>14, <1>15, <1>16, <1>17, <1>18, <1>19, <1>20, <1>21
        DEF Next, Step, Consume

-----------------------------------------------------------------------------
LEMMA InitIInv == Init => IInv
<1> SUFFICES ASSUME Init PROVE IInv
  OBVIOUS
<1>1. StackInv
  BY StackInit
<1>2. ctl = <<>> /\ DOMAIN ctl = {} /\ pc = "idle" /\ exc = None /\ ~ret /\ ~brk /\ ~cont
  BY DEF Init
<1> QED BY <1>1, <1>2
        DEF IInv, ExcInFlight, ExprPlaces, JumpsUnderWay, JumpsAreTaken

LEMMA NextIInv == IInv /\ [Next]_vars => IInv'
<1> SUFFICES ASSUME IInv, [Next]_vars PROVE IInv'
  OBVIOUS
<1>1. CASE Next
  <2>1. StackInv' /\ ExcInFlight'
    BY <1>1, StackStep DEF IInv
  <2>2. ExprPlaces'
    BY <1>1, PlacesStep DEF IInv
  <2>3. Jumps'
    BY <1>1, JumpsStep DEF IInv, Jumps
  <2> QED BY <2>1, <2>2, <2>3 DEF IInv, Jumps
<1>2. CASE UNCHANGED vars
  <2>1. TypeOK'
    BY <1>2 DEF IInv, StackInv, TypeOK
  <2> QED BY <1>2, <2>1
          DEF IInv, StackInv, NodeOutermost, BarriersAtCalls, ExcInFlight,
              ExprPlaces, JumpsUnderWay, JumpsAreTaken, InLoop, Top
<1> QED BY <1>1, <1>2

(* The invariant of the execution context (exec_ctx.hpp and the exec        *)
(* functions of statement.hpp), in every state of every program.            *)
THEOREM InvHolds == Spec => []IInv
BY InitIInv, NextIInv, PTL DEF Spec

(* The state of an execution context is well-typed whatever the program     *)
(* does.                                                                    *)
THEOREM TypeCorrect == Spec => []TypeOK
<1>1. IInv => TypeOK
  BY DEF IInv, StackInv
<1> QED BY <1>1, InvHolds, PTL

(* No jump is lost, left behind or taken by another function (the request   *)
(* and clear functions of exec_ctx.hpp, as statement.hpp calls them).       *)
THEOREM JumpsTaken == Spec => []JumpsAreTaken
<1>1. IInv => JumpsAreTaken
  BY DEF IInv
<1> QED BY <1>1, InvHolds, PTL

(* The frames that are searched, from the places of the barriers.           *)
LEMMA SearchedFrames == IInv => ScopeIsActivation
<1> SUFFICES ASSUME IInv PROVE ScopeIsActivation
  OBVIOUS
<1>1. Len(frames) = Len(ctl) /\ StackInv
  BY DEF IInv, StackInv
<1>2. /\ DOMAIN frames = 1 .. Len(ctl) /\ DOMAIN ctl = 1 .. Len(ctl) /\ Len(ctl) \in Nat
      /\ barriers \in Seq(Nat) /\ Len(barriers) \in Nat
  BY <1>1 DEF StackInv, TypeOK
<1>3. ASSUME NEW i \in 1 .. Len(ctl)
      PROVE  i = Len(ctl) \/ i > Barrier
               <=> \A j \in i + 1 .. Len(ctl) : ctl[j].kind \notin Activations
  <2>1. \A j \in i + 1 .. Len(ctl) : ctl[j].kind # "node"
    BY <1>1, <1>2 DEF StackInv, NodeOutermost
  <2>2. CASE barriers = <<>>
    <3>1. \A j \in 1 .. Len(ctl) : ctl[j].kind # "func"
      BY <1>1, <2>2, BarrierFacts
    <3>2. \A j \in i + 1 .. Len(ctl) : j \in 1 .. Len(ctl)
      BY <1>2
    <3>3. \A j \in i + 1 .. Len(ctl) : ctl[j].kind \notin Activations
      BY <2>1, <3>1, <3>2, Zenon DEF Activations
    <3>4. i > Barrier
      BY <2>2 DEF Barrier
    <3> QED BY <3>3, <3>4
  <2>3. CASE barriers # <<>>
    <3>1. Len(barriers) \in 1 .. Len(barriers) /\ Barrier = barriers[Len(barriers)]
      BY <1>2, <2>3 DEF Barrier
    <3>2. Barrier \in Nat /\ Barrier + 1 \in 1 .. Len(ctl) /\ ctl[Barrier + 1].kind = "func"
      BY <1>1, <3>1, BarrierFacts
    <3>a. /\ i \in Int /\ Len(ctl) \in Int /\ Barrier \in Int
          /\ i =< Len(ctl) /\ Barrier < Len(ctl)
      BY <1>2, <3>2
    <3>3. ASSUME NEW j \in 1 .. Len(ctl), ctl[j].kind = "func" PROVE j =< Barrier + 1
      <4>1. PICK k \in 1 .. Len(barriers) : barriers[k] + 1 = j
        BY <1>1, <3>3, BarrierFacts
      <4>2. barriers[k] \in Nat /\ (k < Len(barriers) => barriers[k] < barriers[Len(barriers)])
        BY <1>1, <3>1, BarrierFacts
      <4>3. k = Len(barriers) \/ k < Len(barriers)
        BY <1>2
      <4> QED BY <3>1, <3>2, <4>1, <4>2, <4>3
    <3>4. CASE i > Barrier
      <4>1. \A j \in i + 1 .. Len(ctl) : j \in 1 .. Len(ctl) /\ ~(j =< Barrier + 1)
        BY <1>2, <3>2, <3>4
      <4>2. \A j \in i + 1 .. Len(ctl) : ctl[j].kind # "func"
        BY <3>3, <4>1
      <4> QED BY <2>1, <3>4, <4>2, Zenon DEF Activations
    <3>5. CASE i =< Barrier
      <4>1. Barrier + 1 \in i + 1 .. Len(ctl) /\ i # Len(ctl) /\ ~(i > Barrier)
        BY <3>a, <3>5
      <4>2. ctl[Barrier + 1].kind \in Activations
        BY <3>2, Zenon DEF Activations
      <4> QED BY <4>1, <4>2, Zenon
    <3>6. i > Barrier \/ i =< Barrier
      BY <3>a
    <3> QED BY <3>4, <3>5, <3>6
  <2> QED BY <2>2, <2>3
<1> QED BY <1>1, <1>2, <1>3 DEF ScopeIsActivation, Searched

(* find_val_by_sym_name looks at the frames of the running function and at  *)
(* no other, after any sequence of calls, jumps and exceptions.             *)
THEOREM ScopeCorrect == Spec => []ScopeIsActivation
BY SearchedFrames, InvHolds, PTL

-----------------------------------------------------------------------------
(* The structured meaning.  What is visible of the execution depends on     *)
(* whether a jump is under way, and which.                                  *)

LEMMA NextHandEmpty == ASSUME HandEmpty, [Next]_vars PROVE HandEmpty'
<1>1. CASE UNCHANGED vars
  BY <1>1 DEF HandEmpty
<1>2. CASE \/ \E b \in Boxes \cup {Unbound} : Start(b)
           \/ \E k \in Constructs : Enter(k)
           \/ EndBody \/ Break \/ Continue \/ Atom
           \/ \E b \in Boxes : Declare(b)
  BY <1>2 DEF HandEmpty, Start, Enter, EndBody, Break, Continue, Atom, Declare, ExprPositions
<1>3. CASE \/ Consume
           \/ \E b \in Values \cup {Unbound} : Call(b)
           \/ (\E v \in Values : Throw(v)) \/ ThrowUnchecked
           \/ LoopAfter \/ Back \/ FunctionBack
  BY <1>3 DEF HandEmpty, Consume, Drop, Return, Branch, Call, Throw, ThrowUnchecked, LoopAfter,
              Back, FunctionBack
<1>4. CASE NodeBack \/ Unwind \/ CatchUnnamed \/ (\E x \in BOOLEAN : CatchNamed(x)) \/ Terminate
  BY <1>4 DEF HandEmpty, NodeBack, Unwind, CatchUnnamed, CatchNamed, Terminate
<1> QED BY <1>1, <1>2, <1>3, <1>4 DEF Next, Step

LEMMA NextSInv == SInv /\ [Next]_vars => SInv'
BY NextIInv, NextHandEmpty DEF SInv

(* The innermost construct of some kinds.                                   *)
LEMMA InnermostIs ==
  ASSUME NEW s \in Seq(Entry), NEW kinds, NEW i \in DOMAIN s, s[i].kind \in kinds,
         \A j \in i + 1 .. Len(s) : s[j].kind \notin kinds
  PROVE  Innermost(s, kinds) = i
<1> DEFINE P(n) == /\ s[n].kind \in kinds
                   /\ \A j \in n + 1 .. Len(s) : s[j].kind \notin kinds
<1>1. DOMAIN s = 1 .. Len(s) /\ Len(s) \in Nat
  OBVIOUS
<1>2. ASSUME NEW n \in DOMAIN s, P(n) PROVE n = i
  <2>1. n \in Int /\ i \in Int /\ n =< Len(s) /\ i =< Len(s) /\ Len(s) \in Int
    BY <1>1
  <2>2. ~(n < i)
    <3>1. n < i => i \in n + 1 .. Len(s)
      BY <2>1
    <3> QED BY <1>2, <3>1
  <2>3. ~(i < n)
    <3>1. i < n => n \in i + 1 .. Len(s)
      BY <2>1
    <3> QED BY <1>2, <3>1
  <2> QED BY <2>1, <2>2, <2>3
<1>3. (CHOOSE n \in DOMAIN s : P(n)) = i
  <2>1. P(i)
    OBVIOUS
  <2> HIDE DEF P
  <2> QED BY <1>2, <2>1
<1> QED BY <1>3 DEF Innermost

LEMMA InnermostNone ==
  ASSUME NEW s, NEW kinds, \A i \in DOMAIN s : s[i].kind \notin kinds
  PROVE  Innermost(s, kinds) = 0
BY DEF Innermost

LEMMA InnermostExists ==
  ASSUME NEW s \in Seq(Entry), NEW kinds, NEW m \in DOMAIN s, s[m].kind \in kinds
  PROVE  \E i \in DOMAIN s : /\ s[i].kind \in kinds
                             /\ \A j \in i + 1 .. Len(s) : s[j].kind \notin kinds
<1> DEFINE S == {i \in 1 .. Len(s) : s[i].kind \in kinds}
<1>1. DOMAIN s = 1 .. Len(s) /\ Len(s) \in Nat /\ m \in S
  OBVIOUS
<1>2. PICK i \in S : \A j \in S : j =< i
  <2>1. S \in SUBSET (1 .. Len(s)) /\ S # {}
    BY <1>1
  <2> HIDE DEF S
  <2> QED BY <1>1, <2>1, LargestExists
<1>3. ASSUME NEW j \in i + 1 .. Len(s), s[j].kind \in kinds PROVE FALSE
  <2>1. i \in 1 .. Len(s) /\ j \in 1 .. Len(s) /\ ~(j =< i)
    BY <1>1
  <2> QED BY <1>2, <1>3, <2>1
<1> QED BY <1>1, <1>2, <1>3

(* The innermost construct of some kinds exists and is found, or there is   *)
(* none.                                                                    *)
LEMMA InnermostFacts ==
  ASSUME NEW s \in Seq(Entry), NEW kinds
  PROVE  \/ /\ Innermost(s, kinds) \in DOMAIN s
            /\ s[Innermost(s, kinds)].kind \in kinds
            /\ \A j \in Innermost(s, kinds) + 1 .. Len(s) : s[j].kind \notin kinds
         \/ /\ Innermost(s, kinds) = 0
            /\ \A i \in DOMAIN s : s[i].kind \notin kinds
<1>1. CASE \E i \in DOMAIN s : s[i].kind \in kinds
  <2>1. PICK i \in DOMAIN s : /\ s[i].kind \in kinds
                              /\ \A j \in i + 1 .. Len(s) : s[j].kind \notin kinds
    BY <1>1, InnermostExists
  <2>2. Innermost(s, kinds) = i
    BY <2>1, InnermostIs
  <2> QED BY <2>1, <2>2
<1>2. CASE \A i \in DOMAIN s : s[i].kind \notin kinds
  BY <1>2, InnermostNone
<1> QED BY <1>1, <1>2

(* It stays when an exec of another kind returns.                           *)
LEMMA InnermostPopped ==
  ASSUME NEW s \in Seq(Entry), s # <<>>, NEW kinds, s[Len(s)].kind \notin kinds
  PROVE  Innermost(Pop(s), kinds) = Innermost(s, kinds)
<1>1. /\ Pop(s) \in Seq(Entry) /\ Len(Pop(s)) = Len(s) - 1
      /\ \A i \in 1 .. Len(s) - 1 : Pop(s)[i] = s[i]
      /\ DOMAIN Pop(s) = 1 .. Len(s) - 1
      /\ DOMAIN s = 1 .. Len(s) /\ Len(s) \in Nat
  BY PopType
<1>2. CASE \E i \in DOMAIN s : s[i].kind \in kinds
  <2>1. PICK i \in DOMAIN s : /\ s[i].kind \in kinds
                              /\ \A j \in i + 1 .. Len(s) : s[j].kind \notin kinds
    BY <1>2, InnermostExists
  <2>2. Innermost(s, kinds) = i
    BY <2>1, InnermostIs
  <2>3. i \in DOMAIN Pop(s) /\ Pop(s)[i].kind \in kinds
    BY <1>1, <2>1
  <2>4. \A j \in i + 1 .. Len(Pop(s)) : Pop(s)[j].kind \notin kinds
    BY <1>1, <2>1, <2>3
  <2>5. Innermost(Pop(s), kinds) = i
    BY <1>1, <2>3, <2>4, InnermostIs
  <2> QED BY <2>2, <2>5
<1>3. CASE \A i \in DOMAIN s : s[i].kind \notin kinds
  <2>1. \A i \in DOMAIN Pop(s) : Pop(s)[i].kind \notin kinds
    BY <1>1, <1>3
  <2> QED BY <1>3, <2>1, InnermostNone
<1> QED BY <1>2, <1>3

-----------------------------------------------------------------------------
(* Constructs with their variables, as sequences.                           *)

(* The entries up to n, seen as constructs with their variables.            *)
View(c, f, n) == [i \in 1 .. n |-> [kind |-> c[i].kind, at |-> c[i].at, x |-> f[i]]]

Binding == Values \cup {Unbound}
Seen    == [kind : Kinds, at : ExprPositions, x : Binding]

LEMMA ViewType ==
  ASSUME NEW c \in Seq(Entry), NEW f \in Seq(Binding), Len(f) = Len(c),
         NEW n \in 0 .. Len(c)
  PROVE  /\ View(c, f, n) \in Seq(Seen)
         /\ Len(View(c, f, n)) = n
         /\ DOMAIN View(c, f, n) = 1 .. n
         /\ \A i \in 1 .. n : /\ View(c, f, n)[i].kind = c[i].kind
                              /\ View(c, f, n)[i].at = c[i].at
                              /\ View(c, f, n)[i].x = f[i]
<1>1. n \in Nat /\ \A i \in 1 .. n : i \in 1 .. Len(c) /\ i \in 1 .. Len(f)
  OBVIOUS
<1>2. \A i \in 1 .. n : c[i] \in Entry /\ f[i] \in Binding
  BY <1>1
<1>3. \A i \in 1 .. n : [kind |-> c[i].kind, at |-> c[i].at, x |-> f[i]] \in Seen
  BY <1>2 DEF Entry, Seen
<1>4. View(c, f, n) \in [1 .. n -> Seen]
  BY <1>3 DEF View
<1>5. View(c, f, n) \in Seq(Seen) /\ Len(View(c, f, n)) = n
  BY <1>1, <1>4
<1> QED BY <1>4, <1>5 DEF View

LEMMA ViewEmpty == \A c, f : View(c, f, 0) = <<>>
<1> SUFFICES ASSUME NEW c, NEW f PROVE View(c, f, 0) = <<>>
  OBVIOUS
<1>1. 1 .. 0 = {}
  OBVIOUS
<1>2. View(c, f, 0) \in Seq({})
  BY <1>1 DEF View
<1> QED BY <1>1, <1>2 DEF View

LEMMA ViewPushed ==
  ASSUME NEW c \in Seq(Entry), NEW f \in Seq(Binding), Len(f) = Len(c),
         NEW e \in Entry, NEW b \in Binding
  PROVE  View(Append(c, e), Append(f, b), Len(Append(c, e)))
           = Append(View(c, f, Len(c)), [kind |-> e.kind, at |-> e.at, x |-> b])
<1> DEFINE v == View(c, f, Len(c))
           w == View(Append(c, e), Append(f, b), Len(Append(c, e)))
           r == [kind |-> e.kind, at |-> e.at, x |-> b]
<1>1. /\ v \in Seq(Seen) /\ Len(v) = Len(c)
      /\ \A i \in 1 .. Len(c) : v[i] = [kind |-> c[i].kind, at |-> c[i].at, x |-> f[i]]
  BY ViewType DEF View
<1>2. /\ Append(c, e) \in Seq(Entry) /\ Len(Append(c, e)) = Len(c) + 1
      /\ \A i \in 1 .. Len(c) : Append(c, e)[i] = c[i]
      /\ Append(c, e)[Len(c) + 1] = e
  BY PushType
<1>3. /\ Append(f, b) \in Seq(Binding) /\ Len(Append(f, b)) = Len(c) + 1
      /\ \A i \in 1 .. Len(c) : Append(f, b)[i] = f[i]
      /\ Append(f, b)[Len(c) + 1] = b
  BY PushType
<1>4. r \in Seen
  BY DEF Seen, Entry
<1>5. w \in Seq(Seen) /\ Len(w) = Len(c) + 1
  <2>1. Len(Append(c, e)) \in 0 .. Len(Append(c, e))
    BY <1>2
  <2> QED BY <1>2, <1>3, <2>1, ViewType
<1>6. /\ Append(v, r) \in Seq(Seen) /\ Len(Append(v, r)) = Len(c) + 1
      /\ \A i \in 1 .. Len(c) : Append(v, r)[i] = v[i]
      /\ Append(v, r)[Len(c) + 1] = r
  <2> HIDE DEF v, r
  <2> QED BY <1>1, <1>4, PushType
<1>7. /\ \A i \in 1 .. Len(c) : w[i] = v[i]
      /\ w[Len(c) + 1] = r
  BY <1>1, <1>2, <1>3 DEF View
<1>8. \A i \in 1 .. Len(c) + 1 : w[i] = Append(v, r)[i]
  <2>1. \A i \in 1 .. Len(c) + 1 : i \in 1 .. Len(c) \/ i = Len(c) + 1
    OBVIOUS
  <2> HIDE DEF v, r, w
  <2> QED BY <2>1, <1>6, <1>7
<1> HIDE DEF v, r, w
<1>9. w = Append(v, r)
  BY <1>5, <1>6, <1>8, SeqEqual
<1> QED BY <1>9 DEF v, r, w

LEMMA ViewPopped ==
  ASSUME NEW c \in Seq(Entry), NEW f \in Seq(Binding), Len(f) = Len(c), c # <<>>,
         NEW n \in 0 .. Len(c) - 1
  PROVE  View(Pop(c), Pop(f), n) = View(c, f, n)
<1>1. f # <<>>
  OBVIOUS
<1>2. \A i \in 1 .. Len(c) - 1 : Pop(c)[i] = c[i] /\ Pop(f)[i] = f[i]
  BY <1>1, PopType
<1>3. \A i \in 1 .. n : i \in 1 .. Len(c) - 1
  OBVIOUS
<1> QED BY <1>2, <1>3 DEF View

LEMMA ViewBelow ==
  ASSUME NEW c \in Seq(Entry), NEW f \in Seq(Binding), Len(f) = Len(c),
         NEW n \in 0 .. Len(c), NEW m \in 0 .. n
  PROVE  SubSeq(View(c, f, n), 1, m) = View(c, f, m)
<1>1. /\ View(c, f, n) \in Seq(Seen) /\ Len(View(c, f, n)) = n
      /\ m \in 0 .. Len(c) /\ m \in Nat /\ n \in Nat
  BY ViewType
<1>2. View(c, f, m) \in Seq(Seen) /\ Len(View(c, f, m)) = m
  BY <1>1, ViewType
<1>3. /\ SubSeq(View(c, f, n), 1, m) \in Seq(Seen)
      /\ Len(SubSeq(View(c, f, n), 1, m)) = m
      /\ \A i \in 1 .. m : SubSeq(View(c, f, n), 1, m)[i] = View(c, f, n)[i]
  BY <1>1, \A i \in 1 .. m : i \in 1 .. n
<1>4. \A i \in 1 .. m : View(c, f, n)[i] = View(c, f, m)[i]
  BY <1>1 DEF View
<1> QED BY <1>2, <1>3, <1>4, SeqEqual

LEMMA RecordChanged ==
  ASSUME NEW r \in Seen
  PROVE  /\ \A h \in Kinds : [r EXCEPT !.kind = h] = [kind |-> h, at |-> r.at, x |-> r.x]
         /\ \A b \in Binding : [r EXCEPT !.x = b] = [kind |-> r.kind, at |-> r.at, x |-> b]
BY DEF Seen

(* The innermost construct gets a variable.                                 *)
Declaring(v, n, b) == [v EXCEPT ![n].x = b]

LEMMA ViewDeclaring ==
  ASSUME NEW c \in Seq(Entry), NEW f \in Seq(Binding), Len(f) = Len(c), c # <<>>,
         NEW b \in Binding
  PROVE  View(c, [f EXCEPT ![Len(f)] = b], Len(c))
           = Declaring(View(c, f, Len(c)), Len(c), b)
<1> DEFINE v == View(c, f, Len(c))
<1>1. Len(c) \in 1 .. Len(c) /\ Len(f) \in 1 .. Len(f) /\ Len(c) \in 0 .. Len(c)
  OBVIOUS
<1>2. v \in Seq(Seen) /\ v[Len(c)] \in Seen
  <2>1. v \in Seq(Seen) /\ Len(v) = Len(c)
    BY <1>1, ViewType
  <2> HIDE DEF v
  <2> QED BY <1>1, <2>1
<1>3. Declaring(v, Len(c), b)
        = [v EXCEPT ![Len(c)] = [kind |-> v[Len(c)].kind, at |-> v[Len(c)].at, x |-> b]]
  <2> HIDE DEF v
  <2> QED BY <1>2, RecordChanged, Zenon DEF Declaring
<1>4. \A i \in 1 .. Len(c) : [f EXCEPT ![Len(f)] = b][i] = IF i = Len(f) THEN b ELSE f[i]
  BY <1>1, ExceptType
<1>5. View(c, [f EXCEPT ![Len(f)] = b], Len(c))
        = [v EXCEPT ![Len(c)] = [kind |-> v[Len(c)].kind, at |-> v[Len(c)].at, x |-> b]]
  BY <1>1, <1>4 DEF View
<1> QED BY <1>3, <1>5

(* The construct that an exception comes to becomes a handler.              *)
Handling(v, n) == [v EXCEPT ![n].kind = "handler"]

LEMMA ViewHandling ==
  ASSUME NEW c \in Seq(Entry), NEW f \in Seq(Binding), Len(f) = Len(c),
         NEW n \in 1 .. Len(c)
  PROVE  Handling(View(c, f, n), n)
           = [i \in 1 .. n |-> [kind |-> IF i = n THEN "handler" ELSE c[i].kind,
                                at |-> c[i].at, x |-> f[i]]]
<1> DEFINE v == View(c, f, n)
<1>1. n \in 0 .. Len(c) /\ n \in 1 .. n
  OBVIOUS
<1>2. v \in Seq(Seen) /\ v[n] \in Seen
  <2>1. v \in Seq(Seen) /\ Len(v) = n
    BY <1>1, ViewType
  <2> HIDE DEF v
  <2> QED BY <1>1, <2>1
<1>3. Handling(v, n)
        = [v EXCEPT ![n] = [kind |-> "handler", at |-> v[n].at, x |-> v[n].x]]
  <2> "handler" \in Kinds
    BY DEF Kinds
  <2> HIDE DEF v
  <2> QED BY <1>2, RecordChanged, Zenon DEF Handling
<1>4. [v EXCEPT ![n] = [kind |-> "handler", at |-> v[n].at, x |-> v[n].x]]
        = [i \in 1 .. n |-> [kind |-> IF i = n THEN "handler" ELSE c[i].kind,
                             at |-> c[i].at, x |-> f[i]]]
  BY <1>1 DEF View
<1> QED BY <1>3, <1>4

-----------------------------------------------------------------------------
(* What is visible when no jump is under way, and at each kind of jump.     *)
Quiet == ~term /\ pc # "unwind" /\ ~ret /\ ~brk /\ ~cont

Looks(s, p, e, h, o) ==
  Scopes = s /\ Position = p /\ Evaluated = e /\ InHand = h /\ Ending = o

ViewUpTo(n) == View(ctl, frames, n)
Target(kinds) == Innermost(ctl, kinds)

StoppedLook == term => Looks(<<>>, "stopped", "stmt", Undef, "none")
QuietLook ==
  Quiet => Looks(ViewUpTo(Len(ctl)), IF pc = "after" THEN "end" ELSE pc, at,
                 IF pc = "catch" THEN exc ELSE acc, outcome)
ReturnLook ==
  ~term /\ ret => Looks(ViewUpTo(Target(Activations)), "leave", at, result, outcome)
BreakLook ==
  ~term /\ brk => Looks(ViewUpTo(Target(Loops)), "leave", at, acc, outcome)
ContinueLook ==
  ~term /\ cont => Looks(ViewUpTo(Target(Loops)), "end", at, acc, outcome)
ThrownLook ==
  ~term /\ pc = "unwind" =>
    IF Target({"try"}) = 0
    THEN Looks(<<>>, "idle", at, Undef, "failed")
    ELSE Looks(Handling(ViewUpTo(Target({"try"})), Target({"try"})),
               "catch", at, exc, outcome)

TypedStack ==
  /\ ctl \in Seq(Entry) /\ frames \in Seq(Binding) /\ Len(frames) = Len(ctl)
  /\ DOMAIN ctl = 1 .. Len(ctl) /\ Len(ctl) \in Nat

LEMMA Typed == SInv => TypedStack
BY DEF SInv, IInv, StackInv, TypeOK, Entry, Binding, TypedStack

LEMMA LooksWhenStopped == StoppedLook
BY ViewEmpty DEF StoppedLook, Looks, Scopes, Kept, Position, Evaluated, InHand, Ending, View

LEMMA LooksWhenQuiet == SInv => QuietLook
<1>1. SInv /\ Quiet => Kept = Len(ctl) /\ ~Uncaught
  BY DEF Quiet, Kept, Uncaught
<1>2. SInv /\ Quiet => Scopes = ViewUpTo(Len(ctl))
  BY <1>1 DEF Scopes, ViewUpTo, View, Quiet
<1> QED BY <1>1, <1>2 DEF QuietLook, Looks, Quiet, Position, Evaluated, InHand, Ending

LEMMA LooksWhenReturning == SInv => ReturnLook
<1> SUFFICES ASSUME SInv, ~term, ret PROVE ReturnLook
  BY DEF ReturnLook
<1>1. pc \in {"after", "leave"} /\ ~brk /\ ~cont
  BY DEF SInv, IInv, JumpsAreTaken
<1>2. Kept = Target(Activations) /\ ~Uncaught
  BY <1>1 DEF Kept, Uncaught, Target
<1>3. Scopes = ViewUpTo(Target(Activations))
  BY <1>1, <1>2 DEF Scopes, ViewUpTo, View
<1> QED BY <1>1, <1>2, <1>3 DEF ReturnLook, Looks, Position, Evaluated, InHand, Ending

LEMMA LooksWhenBreaking == SInv => BreakLook
<1> SUFFICES ASSUME SInv, ~term, brk PROVE BreakLook
  BY DEF BreakLook
<1>1. pc = "after" /\ ~ret /\ ~cont
  BY DEF SInv, IInv, JumpsAreTaken, JumpsUnderWay
<1>2. Kept = Target(Loops) /\ ~Uncaught
  BY <1>1 DEF Kept, Uncaught, Target
<1>3. Scopes = ViewUpTo(Target(Loops))
  BY <1>1, <1>2 DEF Scopes, ViewUpTo, View
<1> QED BY <1>1, <1>2, <1>3 DEF BreakLook, Looks, Position, Evaluated, InHand, Ending

LEMMA LooksWhenContinuing == SInv => ContinueLook
<1> SUFFICES ASSUME SInv, ~term, cont PROVE ContinueLook
  BY DEF ContinueLook
<1>1. pc = "after" /\ ~ret /\ ~brk
  BY DEF SInv, IInv, JumpsAreTaken, JumpsUnderWay
<1>2. Kept = Target(Loops) /\ ~Uncaught
  BY <1>1 DEF Kept, Uncaught, Target
<1>3. Scopes = ViewUpTo(Target(Loops))
  BY <1>1, <1>2 DEF Scopes, ViewUpTo, View
<1> QED BY <1>1, <1>2, <1>3 DEF ContinueLook, Looks, Position, Evaluated, InHand, Ending

LEMMA LooksWhenThrown == SInv => ThrownLook
<1> SUFFICES ASSUME SInv, ~term, pc = "unwind" PROVE ThrownLook
  BY DEF ThrownLook
<1> DEFINE k == Target({"try"})
<1>1. Kept = k
  BY DEF Kept, Target
<1>2. CASE k = 0
  <2>1. Scopes = <<>>
    BY <1>1, <1>2, ViewEmpty DEF Scopes, View
  <2> QED BY <1>1, <1>2, <2>1 DEF ThrownLook, Looks, Uncaught, Position, Evaluated, InHand, Ending
<1>3. CASE k # 0
  <2>1. k \in DOMAIN ctl /\ k \in 1 .. Len(ctl) /\ k \in 0 .. Len(ctl) /\ k \in 1 .. k
    <3>1. k \in DOMAIN ctl
      BY <1>3, Typed, InnermostFacts DEF Target, TypedStack
    <3> HIDE DEF k
    <3> QED BY <3>1, Typed DEF TypedStack
  <2>2. Scopes = [i \in 1 .. k |-> [kind |-> IF i = k THEN "handler" ELSE ctl[i].kind,
                                    at |-> ctl[i].at, x |-> frames[i]]]
    BY <1>1 DEF Scopes
  <2>3. Scopes = Handling(ViewUpTo(k), k)
    <3> HIDE DEF k
    <3> QED BY <2>1, <2>2, Typed, ViewHandling DEF TypedStack, ViewUpTo
  <2> QED BY <1>1, <1>3, <2>3 DEF ThrownLook, Looks, Uncaught, Position, Evaluated, InHand, Ending
<1> QED BY <1>2, <1>3

(* What is visible, now and in the next state.                              *)
AllLooks ==
  /\ TypedStack /\ StoppedLook /\ QuietLook /\ ReturnLook /\ BreakLook /\ ContinueLook
  /\ ThrownLook

LEMMA NowLooks == SInv => AllLooks
BY Typed, LooksWhenStopped, LooksWhenQuiet, LooksWhenReturning, LooksWhenBreaking,
   LooksWhenContinuing, LooksWhenThrown DEF AllLooks

LEMMA NextLooks == SInv' => AllLooks'
BY NowLooks, PTL

(* Both descriptions use the same words.                                    *)
LEMMA SameWords ==
  /\ Structured!Activations = Activations /\ Structured!Loops = Loops
  /\ Structured!Constructs = Constructs /\ Structured!Values = Values
  /\ Structured!ExprPositions = ExprPositions
  /\ \A k : Structured!FirstOf(k) = FirstOf(k) /\ Structured!AgainOf(k) = AgainOf(k)
BY DEF Structured!Activations, Activations, Structured!Loops, Loops, Structured!Constructs,
       Constructs, Structured!Values, Values, Structured!ExprPositions, ExprPositions,
       Structured!FirstOf, FirstOf, Structured!AgainOf, AgainOf

(* The name is found where the running function has it.                     *)
LEMMA SearchedScopes ==
  ASSUME SInv, Quiet
  PROVE  /\ Scopes \in Seq(Seen) /\ Len(Scopes) = Len(ctl)
         /\ DOMAIN Scopes = 1 .. Len(ctl) /\ DOMAIN frames = 1 .. Len(ctl)
         /\ Len(ctl) \in Nat
         /\ \A i \in 1 .. Len(ctl) : Scopes[i].kind = ctl[i].kind /\ Scopes[i].at = ctl[i].at
                                     /\ Scopes[i].x = frames[i]
         /\ Searched \subseteq 1 .. Len(ctl)
         /\ \A i \in 1 .. Len(ctl) : i \in Searched <=> Structured!InActivation(Scopes, i)
<1>1. TypedStack /\ ScopeIsActivation /\ QuietLook
  BY Typed, SearchedFrames, LooksWhenQuiet DEF SInv
<1>2. Scopes = View(ctl, frames, Len(ctl)) /\ Len(ctl) \in 0 .. Len(ctl) /\ Len(ctl) \in Nat
  BY <1>1 DEF QuietLook, Looks, ViewUpTo, TypedStack
<1>3. /\ Scopes \in Seq(Seen) /\ Len(Scopes) = Len(ctl) /\ DOMAIN Scopes = 1 .. Len(ctl)
      /\ \A i \in 1 .. Len(ctl) : Scopes[i].kind = ctl[i].kind /\ Scopes[i].at = ctl[i].at
                                  /\ Scopes[i].x = frames[i]
  BY <1>1, <1>2, ViewType DEF TypedStack
<1>4. DOMAIN frames = 1 .. Len(ctl)
  BY <1>1, <1>2 DEF TypedStack
<1>5. \A i \in 1 .. Len(ctl) : i \in Searched <=> Structured!InActivation(Scopes, i)
  <2>1. \A i \in 1 .. Len(ctl) : \A j \in i + 1 .. Len(ctl) : Scopes[j].kind = ctl[j].kind
    BY <1>3
  <2>2. \A i \in 1 .. Len(ctl) :
          i \in Searched <=> \A j \in i + 1 .. Len(ctl) : ctl[j].kind \notin Activations
    BY <1>1 DEF ScopeIsActivation, TypedStack
  <2> QED BY <1>3, <2>1, <2>2, SameWords DEF Structured!InActivation
<1> QED BY <1>2, <1>3, <1>4, <1>5 DEF Searched

LEMMA FoundIsOwner ==
  ASSUME SInv, Quiet, NEW i \in DOMAIN frames, Found(i)
  PROVE  i \in DOMAIN Scopes /\ Structured!Owner(Scopes, i) /\ Scopes[i].x = frames[i]
<1>1. i \in 1 .. Len(ctl) /\ i \in Searched
  BY SearchedScopes DEF Found
<1>2. Structured!InActivation(Scopes, i)
  BY <1>1, SearchedScopes
<1>3. \A j \in i + 1 .. Len(ctl) : Scopes[j].x = Unbound
  <2> SUFFICES ASSUME NEW j \in i + 1 .. Len(ctl) PROVE Scopes[j].x = Unbound
    OBVIOUS
  <2>1. j \in 1 .. Len(ctl) /\ j > i
    BY <1>1, SearchedScopes
  <2>2. \A k \in j + 1 .. Len(ctl) : k \in i + 1 .. Len(ctl)
    BY <1>1, <2>1, SearchedScopes
  <2>3. Structured!InActivation(Scopes, j)
    BY <1>2, <2>2, SearchedScopes DEF Structured!InActivation
  <2>4. j \in Searched
    BY <2>1, <2>3, SearchedScopes
  <2> QED BY <2>1, <2>4, SearchedScopes DEF Found
<1> QED BY <1>1, <1>2, <1>3, SearchedScopes DEF Structured!Owner, Found

LEMMA KnownIsOwned ==
  ASSUME SInv, Quiet
  PROVE  Known <=> Structured!Known(Scopes)
<1>1. ASSUME Structured!Known(Scopes) PROVE Known
  <2>1. PICK i \in DOMAIN Scopes : Structured!Owner(Scopes, i)
    BY <1>1 DEF Structured!Known
  <2>2. i \in 1 .. Len(ctl) /\ i \in Searched /\ Scopes[i].x # Unbound
    BY <2>1, SearchedScopes DEF Structured!Owner
  <2> QED BY <2>2, SearchedScopes DEF Known
<1>2. ASSUME Known PROVE Structured!Known(Scopes)
  <2> DEFINE S == {i \in 1 .. Len(ctl) : i \in Searched /\ frames[i] # Unbound}
  <2>1. S \subseteq 1 .. Len(ctl) /\ S # {}
    BY <1>2, SearchedScopes DEF Known
  <2>2. PICK i \in S : \A j \in S : j =< i
    <3> HIDE DEF S
    <3> QED BY <2>1, SearchedScopes, LargestExists
  <2>3. i \in DOMAIN frames /\ Found(i)
    <3>1. \A j \in Searched : j > i => frames[j] = Unbound
      <4> SUFFICES ASSUME NEW j \in Searched, j > i, frames[j] # Unbound PROVE FALSE
        OBVIOUS
      <4>1. j \in S
        BY SearchedScopes
      <4>2. j =< i /\ i \in 1 .. Len(ctl) /\ j \in 1 .. Len(ctl)
        BY <2>2, <4>1
      <4> QED BY <4>2, SearchedScopes
    <3> QED BY <3>1, SearchedScopes DEF Found
  <2> QED BY <2>3, FoundIsOwner DEF Structured!Known
<1> QED BY <1>1, <1>2

-----------------------------------------------------------------------------
(* The steps that end no jump and request none.                             *)

LEMMA QuietNow ==
  ASSUME SInv, Quiet
  PROVE  /\ Scopes = View(ctl, frames, Len(ctl))
         /\ Position = IF pc = "after" THEN "end" ELSE pc
         /\ Evaluated = at /\ InHand = (IF pc = "catch" THEN exc ELSE acc)
         /\ Ending = outcome
BY NowLooks DEF AllLooks, QuietLook, Looks, ViewUpTo

LEMMA QuietNext ==
  ASSUME SInv', Quiet'
  PROVE  /\ Scopes' = View(ctl', frames', Len(ctl'))
         /\ Position' = IF pc' = "after" THEN "end" ELSE pc'
         /\ Evaluated' = at' /\ InHand' = (IF pc' = "catch" THEN exc' ELSE acc')
         /\ Ending' = outcome'
BY NextLooks DEF AllLooks, QuietLook, Looks, ViewUpTo

LEMMA QuietAt ==
  ASSUME SInv, ~term, pc \notin {"after", "leave", "unwind"}
  PROVE  Quiet
BY DEF Quiet, SInv, IInv, JumpsAreTaken

(* The stack as it was, and with one construct more.                        *)
LEMMA ScopesKept ==
  ASSUME SInv, SInv', Quiet, Quiet', UNCHANGED <<ctl, frames>>
  PROVE  Scopes' = Scopes
BY QuietNow, QuietNext

LEMMA ScopesPushed ==
  ASSUME SInv, SInv', Quiet, Quiet', NEW e \in Entry, NEW b \in Binding,
         ctl' = Append(ctl, e), frames' = Append(frames, b)
  PROVE  Scopes' = Append(Scopes, Structured!Scope(e.kind, e.at, b))
<1>1. TypedStack
  BY NowLooks DEF AllLooks
<1>2. Scopes' = View(Append(ctl, e), Append(frames, b), Len(Append(ctl, e)))
  BY QuietNext
<1> QED BY <1>1, <1>2, QuietNow, ViewPushed DEF TypedStack, Structured!Scope

LEMMA StartStep ==
  ASSUME SInv, SInv', ~term, NEW b \in Boxes \cup {Unbound}, Start(b)
  PROVE  Structured!Start(b)
<1>1. Quiet /\ Quiet' /\ ctl = <<>> /\ frames = <<>>
  <2>1. Quiet /\ ctl = <<>>
    BY QuietAt DEF Start, SInv, IInv, StackInv, NodeOutermost
  <2>2. frames = <<>>
    <3>1. TypedStack
      BY NowLooks DEF AllLooks
    <3> QED BY <2>1, <3>1 DEF TypedStack
  <2> QED BY <2>1, <2>2 DEF Start, Quiet, flagVars
<1>2. Exec("node", "stmt") \in Entry /\ b \in Binding
  BY DEF Exec, Entry, Kinds, Activations, ExprPositions, Binding, Values
<1>3. ctl' = Append(ctl, Exec("node", "stmt")) /\ frames' = Append(frames, b)
  BY <1>1 DEF Start
<1>4. Scopes' = Append(Scopes, Structured!Scope("node", "stmt", b))
  <2>1. Scopes' = Append(Scopes, Structured!Scope(Exec("node", "stmt").kind,
                                                  Exec("node", "stmt").at, b))
    BY <1>1, <1>2, <1>3, ScopesPushed
  <2> QED BY <2>1 DEF Exec
<1>5. Scopes = <<>>
  BY <1>1, QuietNow, ViewEmpty
<1> QED BY <1>1, <1>4, <1>5, QuietNow, QuietNext DEF Start, exprVars, Structured!Start

LEMMA EnterStep ==
  ASSUME SInv, SInv', ~term, NEW k \in Constructs, Enter(k)
  PROVE  Structured!Enter(k)
<1>1. Quiet /\ Quiet'
  BY QuietAt DEF Enter, Quiet, flagVars, FirstOf
<1>2. Exec(k, "stmt") \in Entry /\ Unbound \in Binding
  BY DEF Exec, Entry, Kinds, ExprPositions, Binding
<1>3. Scopes' = Append(Scopes, Structured!Scope(k, "stmt", Unbound))
  <2>1. Scopes' = Append(Scopes, Structured!Scope(Exec(k, "stmt").kind, Exec(k, "stmt").at,
                                                  Unbound))
    BY <1>1, <1>2, ScopesPushed DEF Enter
  <2> QED BY <2>1 DEF Exec
<1>4. FirstOf(k) \notin {"after", "catch"}
  BY DEF FirstOf
<1> QED BY <1>1, <1>3, <1>4, QuietNow, QuietNext, SearchedScopes, SameWords
        DEF Enter, exprVars, Structured!Enter

LEMMA CallStep ==
  ASSUME SInv, SInv', ~term, NEW b \in Values \cup {Unbound}, Call(b)
  PROVE  Structured!Call(b)
<1>1. Quiet /\ Quiet'
  BY QuietAt DEF Call, Quiet, flagVars
<1>2. Exec("func", at) \in Entry /\ b \in Binding
  BY DEF Exec, Entry, Kinds, Activations, Binding, SInv, IInv, StackInv, TypeOK
<1>3. Scopes' = Append(Scopes, Structured!Scope("func", at, b))
  <2>1. Scopes' = Append(Scopes, Structured!Scope(Exec("func", at).kind, Exec("func", at).at, b))
    BY <1>1, <1>2, ScopesPushed DEF Call
  <2> QED BY <2>1 DEF Exec
<1> QED BY <1>1, <1>3, QuietNow, QuietNext, SearchedScopes DEF Call, Structured!Call

LEMMA EndBodyStep == ASSUME SInv, SInv', ~term, EndBody PROVE Structured!EndBody
<1>1. Quiet /\ Quiet'
  BY QuietAt DEF EndBody, Quiet, flagVars
<1> QED BY <1>1, ScopesKept, QuietNow, QuietNext DEF EndBody, stackVars, exprVars, Structured!EndBody

LEMMA AtomStep == ASSUME SInv, SInv', ~term, Atom PROVE Structured!Atom
<1>1. Quiet /\ Quiet'
  BY QuietAt DEF Atom, ExprPositions, Quiet, flagVars
<1>2. Scopes' = Scopes /\ Evaluated' = at' /\ InHand' = acc' /\ Ending' = Ending /\ Position = pc
      /\ Position' = "use"
  BY <1>1, ScopesKept, QuietNow, QuietNext DEF Atom, stackVars, ExprPositions
<1>3. acc' = Undef \/ \E i \in DOMAIN Scopes : Structured!Owner(Scopes, i) /\ acc' = Scopes[i].x
  BY <1>1, FoundIsOwner DEF Atom
<1> QED BY <1>2, <1>3, SameWords DEF Atom, Structured!Atom

LEMMA DeclareStep ==
  ASSUME SInv, SInv', ~term, NEW b \in Boxes, Declare(b)
  PROVE  Structured!Declare(b)
<1>1. Quiet /\ Quiet' /\ TypedStack /\ b \in Binding
  BY QuietAt, NowLooks DEF Declare, Quiet, flagVars, AllLooks, Binding, Values
<1>2. ctl # <<>>
  BY DEF Declare, SInv, IInv, StackInv, NodeOutermost
<1>3. Scopes' = Declaring(Scopes, Len(ctl), b)
  BY <1>1, <1>2, QuietNow, QuietNext, ViewDeclaring DEF Declare, TypedStack
<1>4. Scopes' = [Scopes EXCEPT ![Len(Scopes)].x = b]
  <2>1. Len(Scopes) = Len(ctl)
    BY <1>1, SearchedScopes
  <2> QED BY <1>3, <2>1, Zenon DEF Declaring
<1>5. ~Structured!Known(Scopes)
  BY <1>1, KnownIsOwned DEF Declare
<1>6. Position = "use" /\ UNCHANGED <<Position, Evaluated, InHand, Ending>>
  BY <1>1, QuietNow, QuietNext DEF Declare, exprVars
<1> QED BY <1>4, <1>5, <1>6, Zenon DEF Structured!Declare

LEMMA DropStep == ASSUME SInv, SInv', ~term, Drop PROVE Structured!Drop
<1>1. Quiet /\ Quiet'
  BY QuietAt DEF Drop, Quiet, flagVars
<1> QED BY <1>1, ScopesKept, QuietNow, QuietNext DEF Drop, stackVars, Structured!Drop

LEMMA BranchStep ==
  ASSUME SInv, SInv', ~term, NEW t \in BOOLEAN, Branch(t)
  PROVE  Structured!Branch(t)
<1>1. Quiet /\ Quiet'
  BY QuietAt DEF Branch, Quiet, flagVars
<1>2. Structured!Top(Scopes).kind = Top
  <2>1. ctl # <<>> /\ TypedStack
    BY NowLooks DEF Branch, SInv, IInv, StackInv, NodeOutermost, AllLooks
  <2>2. Len(ctl) \in 1 .. Len(ctl)
    BY <2>1 DEF TypedStack
  <2> QED BY <1>1, <2>2, SearchedScopes DEF Top, Structured!Top
<1> QED BY <1>1, <1>2, ScopesKept, QuietNow, QuietNext DEF Branch, stackVars, Structured!Branch

LEMMA CatchStep ==
  ASSUME SInv, SInv', ~term, NEW x \in BOOLEAN, CatchNamed(x)
  PROVE  Structured!Catch(TRUE) \/ Structured!CatchOther
<1>1. Quiet /\ Quiet' /\ acc = Undef /\ acc' = Undef
  BY QuietAt DEF CatchNamed, Quiet, flagVars, SInv, HandEmpty, exprVars
<1> DEFINE b == IF x /\ ~Known THEN exc ELSE Unbound
<1>2. Exec("catch", "stmt") \in Entry /\ b \in Binding
  BY DEF Exec, Entry, Kinds, ExprPositions, Binding, SInv, IInv, StackInv, TypeOK, ExcInFlight,
         CatchNamed
<1>3. Scopes' = Append(Scopes, Structured!Scope("catch", "stmt", b))
  <2>1. Scopes' = Append(Scopes, Structured!Scope(Exec("catch", "stmt").kind,
                                                  Exec("catch", "stmt").at, b))
    BY <1>1, <1>2, ScopesPushed DEF CatchNamed
  <2> QED BY <2>1 DEF Exec
<1>4. /\ Position = "catch" /\ Position' = "stmt" /\ InHand = exc /\ InHand' = Undef
      /\ UNCHANGED <<Evaluated, Ending>>
  BY <1>1, QuietNow, QuietNext DEF CatchNamed, exprVars
<1>5. Known <=> Structured!Known(Scopes)
  BY <1>1, KnownIsOwned
<1>6. CASE x
  BY <1>3, <1>4, <1>5, <1>6 DEF Structured!Catch
<1>7. CASE ~x
  BY <1>3, <1>4, <1>7 DEF Structured!CatchOther
<1> QED BY <1>6, <1>7

LEMMA CatchUnnamedStep ==
  ASSUME SInv, SInv', ~term, CatchUnnamed PROVE Structured!Catch(FALSE)
<1>1. Quiet /\ Quiet' /\ acc = Undef
  BY QuietAt DEF CatchUnnamed, Quiet, flagVars, SInv, HandEmpty
<1> QED BY <1>1, ScopesKept, QuietNow, QuietNext
        DEF CatchUnnamed, stackVars, exprVars, Structured!Catch

-----------------------------------------------------------------------------
(* The requests of jumps.                                                   *)

(* A jump's target, as the structured description names it.                 *)
LEMMA TargetSeen ==
  ASSUME SInv, Quiet, NEW kinds, NEW m \in DOMAIN ctl, ctl[m].kind \in kinds
  PROVE  /\ Target(kinds) \in DOMAIN Scopes
         /\ m =< Target(kinds)
         /\ Structured!Innermost(Scopes, Target(kinds), kinds, {})
         /\ Structured!Below(Scopes, Target(kinds)) = ViewUpTo(Target(kinds))
<1> DEFINE k == Target(kinds)
<1>1. TypedStack
  BY NowLooks DEF AllLooks
<1>2. k \in DOMAIN ctl /\ ctl[k].kind \in kinds /\ \A j \in k + 1 .. Len(ctl) : ctl[j].kind \notin kinds
  <2>1. ~(k = 0 /\ \A i \in DOMAIN ctl : ctl[i].kind \notin kinds)
    OBVIOUS
  <2> QED BY <1>1, <2>1, InnermostFacts DEF TypedStack, Target
<1> HIDE DEF k
<1>3. k \in 1 .. Len(ctl) /\ k \in 0 .. Len(ctl) /\ m \in 1 .. Len(ctl) /\ Len(ctl) \in Nat
      /\ Len(ctl) \in 0 .. Len(ctl)
  BY <1>1, <1>2 DEF TypedStack
<1>4. m =< k
  <2>1. ~(m \in k + 1 .. Len(ctl))
    BY <1>2
  <2> QED BY <1>3, <2>1
<1>5. Structured!Innermost(Scopes, k, kinds, {})
  <2>1. \A j \in k + 1 .. Len(ctl) : j \in 1 .. Len(ctl)
    BY <1>3
  <2> QED BY <1>2, <1>3, <2>1, SearchedScopes DEF Structured!Innermost
<1>6. Structured!Below(Scopes, k) = ViewUpTo(k)
  BY <1>1, <1>3, QuietNow, ViewBelow DEF Structured!Below, ViewUpTo, TypedStack
<1> QED BY <1>3, <1>4, <1>5, <1>6, SearchedScopes DEF k

LEMMA LoopTargetSeen ==
  ASSUME SInv, Quiet, InLoop
  PROVE  /\ Target(Loops) \in DOMAIN Scopes
         /\ Structured!LoopTarget(Scopes, Target(Loops))
         /\ Structured!Below(Scopes, Target(Loops)) = ViewUpTo(Target(Loops))
<1> DEFINE k == Target(Loops)
<1>1. PICK m \in DOMAIN ctl : /\ ctl[m].kind \in Loops
                              /\ \A j \in m + 1 .. Len(ctl) : ctl[j].kind \notin Activations
  BY DEF InLoop
<1>2. /\ k \in DOMAIN Scopes /\ m =< k /\ Structured!Innermost(Scopes, k, Loops, {})
      /\ Structured!Below(Scopes, k) = ViewUpTo(k)
  BY <1>1, TargetSeen
<1> HIDE DEF k
<1>3. \A j \in k + 1 .. Len(Scopes) : Scopes[j].kind \notin Loops \cup Activations
  <2> SUFFICES ASSUME NEW j \in k + 1 .. Len(Scopes)
               PROVE  Scopes[j].kind \notin Loops /\ Scopes[j].kind \notin Activations
    OBVIOUS
  <2>1. m \in 1 .. Len(ctl) /\ k \in 1 .. Len(ctl) /\ Len(ctl) \in Nat
    <3>1. TypedStack
      BY NowLooks DEF AllLooks
    <3> QED BY <1>2, <3>1, SearchedScopes DEF TypedStack
  <2>2. j \in m + 1 .. Len(ctl) /\ j \in 1 .. Len(ctl)
    BY <1>2, <2>1, SearchedScopes
  <2>3. Scopes[j].kind = ctl[j].kind
    BY <2>2, SearchedScopes
  <2> QED BY <1>1, <1>2, <2>2, <2>3 DEF Structured!Innermost
<1>4. Structured!LoopTarget(Scopes, k)
  BY <1>2, <1>3, SameWords DEF Structured!LoopTarget, Structured!Innermost
<1> QED BY <1>2, <1>4 DEF k

LEMMA BreakStep == ASSUME SInv, SInv', ~term, Break PROVE Structured!Break
<1>1. Quiet /\ InLoop
  BY QuietAt DEF Break
<1>2. BreakLook'
  BY NextLooks DEF AllLooks
<1>3. /\ Scopes' = ViewUpTo(Target(Loops)) /\ Position' = "leave"
      /\ Evaluated' = at /\ InHand' = acc /\ Ending' = outcome
  BY <1>2 DEF BreakLook, Looks, Break, stackVars, exprVars, ViewUpTo, Target
<1> QED BY <1>1, <1>3, LoopTargetSeen, QuietNow DEF Break, Structured!Break

LEMMA ContinueStep == ASSUME SInv, SInv', ~term, Continue PROVE Structured!Continue
<1>1. Quiet /\ InLoop
  BY QuietAt DEF Continue
<1>2. ContinueLook'
  BY NextLooks DEF AllLooks
<1>3. /\ Scopes' = ViewUpTo(Target(Loops)) /\ Position' = "end"
      /\ Evaluated' = at /\ InHand' = acc /\ Ending' = outcome
  BY <1>2 DEF ContinueLook, Looks, Continue, stackVars, exprVars, ViewUpTo, Target
<1> QED BY <1>1, <1>3, LoopTargetSeen, QuietNow DEF Continue, Structured!Continue

LEMMA ReturnStep == ASSUME SInv, SInv', ~term, Return PROVE Structured!Return
<1>1. Quiet
  BY QuietAt DEF Return
<1>2. ReturnLook'
  BY NextLooks DEF AllLooks
<1>3. /\ Scopes' = ViewUpTo(Target(Activations)) /\ Position' = "leave"
      /\ Evaluated' = at /\ InHand' = acc /\ Ending' = outcome
  BY <1>2 DEF ReturnLook, Looks, Return, stackVars, ViewUpTo, Target
<1>4. 1 \in DOMAIN ctl /\ ctl[1].kind \in Activations
  <2>1. TypedStack /\ ctl # <<>> /\ NodeOutermost
    BY NowLooks DEF AllLooks, Return, SInv, IInv, StackInv, NodeOutermost
  <2>2. 1 \in DOMAIN ctl
    BY <2>1 DEF TypedStack
  <2> QED BY <2>1, <2>2 DEF NodeOutermost, Activations
<1>5. /\ Target(Activations) \in DOMAIN Scopes
      /\ Structured!CallTarget(Scopes, Target(Activations))
      /\ Structured!Below(Scopes, Target(Activations)) = ViewUpTo(Target(Activations))
  BY <1>1, <1>4, TargetSeen, SameWords DEF Structured!CallTarget
<1> QED BY <1>1, <1>3, <1>5, QuietNow DEF Return, Structured!Return

LEMMA ThrowStep ==
  ASSUME SInv, SInv', ~term, NEW v \in Values, Throw(v)
  PROVE  Structured!Throw(v)
<1> DEFINE k == Target({"try"})
<1>1. Quiet /\ TypedStack /\ ThrownLook'
  BY QuietAt, NowLooks, NextLooks DEF Throw, AllLooks
<1>2. ViewUpTo(k)' = ViewUpTo(k) /\ k' = k /\ ~term' /\ pc' = "unwind"
  BY DEF Throw, stackVars, Target, ViewUpTo
<1>3. /\ Position = "use" /\ Evaluated = at /\ InHand = acc /\ Ending = outcome
      /\ v = Undef \/ (at = "stmt" /\ v = acc)
      /\ at' = "stmt" /\ exc' = v /\ outcome' = outcome
  BY <1>1, QuietNow DEF Throw
<1>4. CASE k = 0
  <2>1. /\ Scopes' = <<>> /\ Position' = "idle" /\ Evaluated' = "stmt" /\ InHand' = Undef
        /\ Ending' = "failed"
    BY <1>1, <1>2, <1>3, <1>4 DEF ThrownLook, Looks
  <2>2. \A i \in DOMAIN ctl : ctl[i].kind # "try"
    <3>1. \A i \in DOMAIN ctl : ctl[i].kind \notin {"try"}
      <4>1. \A i \in DOMAIN ctl : i # 0
        BY <1>1 DEF TypedStack
      <4> QED BY <1>1, <1>4, <4>1, InnermostFacts DEF TypedStack, Target
    <3> QED BY <3>1
  <2>3. \A i \in DOMAIN Scopes : Scopes[i].kind # "try"
    BY <1>1, <2>2, SearchedScopes DEF TypedStack
  <2> QED BY <1>3, <2>1, <2>3 DEF Structured!Throw
<1>5. CASE k # 0
  <2>1. /\ Scopes' = Handling(ViewUpTo(k), k) /\ Position' = "catch" /\ Evaluated' = "stmt"
        /\ InHand' = v /\ Ending' = outcome
    BY <1>1, <1>2, <1>3, <1>5 DEF ThrownLook, Looks
  <2>2. k \in DOMAIN ctl /\ ctl[k].kind \in {"try"}
    BY <1>1, <1>5, InnermostFacts DEF TypedStack, Target
  <2>3. /\ k \in DOMAIN Scopes /\ Structured!TryTarget(Scopes, k)
        /\ Structured!Below(Scopes, k) = ViewUpTo(k)
    BY <1>1, <2>2, TargetSeen DEF Structured!TryTarget
  <2>4. Scopes' = [Structured!Below(Scopes, k) EXCEPT ![k].kind = "handler"]
    <3> HIDE DEF k
    <3> QED BY <2>1, <2>3, Zenon DEF Handling
  <2> HIDE DEF k
  <2>5. \E i \in DOMAIN Scopes :
          /\ Structured!TryTarget(Scopes, i)
          /\ Scopes' = [Structured!Below(Scopes, i) EXCEPT ![i].kind = "handler"]
    BY <2>3, <2>4, Zenon
  <2> QED BY <1>3, <2>1, <2>5, Zenon DEF Structured!Throw
<1> QED BY <1>4, <1>5

-----------------------------------------------------------------------------
(* The way out.                                                             *)

(* What stays visible of a jump as the constructs on its way are left.      *)
LEMMA TargetAtTop ==
  ASSUME SInv, NEW kinds, ctl # <<>>, Top \in kinds
  PROVE  Target(kinds) = Len(ctl)
<1>1. TypedStack
  BY NowLooks DEF AllLooks
<1>2. Len(ctl) \in DOMAIN ctl /\ \A j \in Len(ctl) + 1 .. Len(ctl) : FALSE
  BY <1>1 DEF TypedStack
<1> QED BY <1>1, <1>2, InnermostIs DEF TypedStack, Target, Top

LEMMA TargetKept ==
  ASSUME SInv, NEW kinds, ctl # <<>>, Top \notin kinds,
         ctl' = Pop(ctl), frames' = Pop(frames)
  PROVE  Target(kinds)' = Target(kinds) /\ ViewUpTo(Target(kinds))' = ViewUpTo(Target(kinds))
<1> DEFINE k == Target(kinds)
<1>1. TypedStack
  BY NowLooks DEF AllLooks
<1>2. Innermost(Pop(ctl), kinds) = Innermost(ctl, kinds)
  BY <1>1, InnermostPopped DEF TypedStack, Top
<1>3. k' = k
  BY <1>2 DEF Target
<1>4. k \in 0 .. Len(ctl) - 1
  <2>1. k = 0 \/ (k \in DOMAIN ctl /\ ctl[k].kind \in kinds)
    BY <1>1, InnermostFacts DEF Target, TypedStack
  <2>2. Len(ctl) > 0
    BY <1>1 DEF TypedStack
  <2> HIDE DEF k
  <2> QED BY <1>1, <2>1, <2>2 DEF TypedStack, Top
<1>5. View(Pop(ctl), Pop(frames), k) = View(ctl, frames, k)
  <2> HIDE DEF k
  <2> QED BY <1>1, <1>4, ViewPopped DEF TypedStack
<1>6. View(ctl', frames', k') = View(ctl, frames, k)
  BY <1>3, <1>5
<1> QED BY <1>3, <1>6 DEF ViewUpTo

(* The innermost construct is left.                                         *)
LEMMA ScopesPopped ==
  ASSUME SInv, ctl # <<>>, NEW s, s = View(ctl, frames, Len(ctl)),
         ctl' = Pop(ctl), frames' = Pop(frames)
  PROVE  /\ View(ctl', frames', Len(ctl')) = Structured!Pop(s)
         /\ Structured!Top(s).kind = Top /\ Structured!Top(s).at = ctl[Len(ctl)].at
<1>1. TypedStack /\ Len(ctl) > 0
  BY NowLooks DEF AllLooks, TypedStack
<1>2. /\ Len(ctl) \in 0 .. Len(ctl) /\ Len(ctl) - 1 \in 0 .. Len(ctl)
      /\ Len(ctl) - 1 \in 0 .. Len(ctl) - 1 /\ Len(ctl) \in 1 .. Len(ctl)
  BY <1>1 DEF TypedStack
<1>3. /\ Len(s) = Len(ctl) /\ s[Len(ctl)].kind = ctl[Len(ctl)].kind
      /\ s[Len(ctl)].at = ctl[Len(ctl)].at
  BY <1>1, <1>2, ViewType DEF TypedStack
<1>4. Structured!Pop(s) = View(ctl, frames, Len(ctl) - 1)
  BY <1>1, <1>2, <1>3, ViewBelow DEF Structured!Pop, TypedStack
<1>5. View(Pop(ctl), Pop(frames), Len(ctl) - 1) = View(ctl, frames, Len(ctl) - 1)
  BY <1>1, <1>2, ViewPopped DEF TypedStack
<1>6. Len(ctl') = Len(ctl) - 1
  BY <1>1, PopType DEF TypedStack
<1> QED BY <1>3, <1>4, <1>5, <1>6 DEF Structured!Top, Top

LEMMA Running == SInv /\ pc # "idle" => ctl # <<>>
BY DEF SInv, IInv, StackInv, NodeOutermost

LEMMA LoopAfterStep ==
  ASSUME SInv, SInv', ~term, LoopAfter
  PROVE  Structured!Again \/ UNCHANGED Structured!vars
<1>1. /\ ctl # <<>> /\ AllLooks /\ AllLooks' /\ pc = "after" /\ Top \in Loops /\ ~term'
      /\ UNCHANGED <<ctl, frames, ret, result, exc, at, acc, outcome>>
  BY NowLooks, NextLooks, Running DEF LoopAfter, stackVars, exprVars
<1>2. AgainOf(Top) \notin {"after", "catch", "unwind"}
  BY DEF AgainOf
<1>3. CASE ret
  <2>1. Looks(ViewUpTo(Target(Activations)), "leave", at, result, outcome)
    BY <1>1, <1>3 DEF AllLooks, ReturnLook
  <2>2. Looks(ViewUpTo(Target(Activations)), "leave", at, result, outcome)'
    BY <1>1, <1>3 DEF AllLooks, ReturnLook
  <2>3. ViewUpTo(Target(Activations))' = ViewUpTo(Target(Activations))
    BY <1>1 DEF ViewUpTo, Target
  <2> QED BY <1>1, <2>1, <2>2, <2>3 DEF Looks, Structured!vars
<1>4. CASE ~ret /\ brk
  <2>1. Looks(ViewUpTo(Len(ctl)), "leave", at, acc, outcome)
    BY <1>1, <1>4, TargetAtTop DEF AllLooks, BreakLook
  <2>2. Quiet' /\ pc' = "leave"
    BY <1>1, <1>4 DEF LoopAfter, Quiet
  <2> QED BY <1>1, <2>1, <2>2, QuietNext DEF Looks, ViewUpTo, Structured!vars
<1>5. CASE ~ret /\ ~brk
  <2>1. /\ Scopes = View(ctl, frames, Len(ctl)) /\ Position = "end"
        /\ Evaluated = at /\ InHand = acc /\ Ending = outcome
    <3>1. CASE cont
      BY <1>1, <3>1, TargetAtTop DEF AllLooks, ContinueLook, Looks, ViewUpTo
    <3>2. CASE ~cont
      BY <1>1, <1>5, <3>2, QuietNow DEF Quiet
    <3> QED BY <3>1, <3>2
  <2>2. Quiet' /\ pc' = AgainOf(Top)
    BY <1>1, <1>2, <1>5 DEF LoopAfter, Quiet
  <2>3. Structured!Top(Scopes).kind = Top
    <3>1. Len(ctl) \in 0 .. Len(ctl) /\ Len(ctl) \in 1 .. Len(ctl)
      BY <1>1 DEF AllLooks, TypedStack
    <3> QED BY <1>1, <2>1, <3>1, ViewType DEF AllLooks, TypedStack, Structured!Top, Top
  <2> QED BY <1>1, <1>2, <2>1, <2>2, <2>3, QuietNext, SameWords DEF Structured!Again
<1> QED BY <1>3, <1>4, <1>5

LEMMA BackStep ==
  ASSUME SInv, SInv', ~term, Back
  PROVE  Structured!Leave \/ UNCHANGED Structured!vars
<1>1. /\ ctl # <<>> /\ AllLooks /\ AllLooks' /\ ~term' /\ Top \notin Activations
      /\ ctl' = Pop(ctl) /\ frames' = Pop(frames)
      /\ UNCHANGED <<ret, brk, cont, result, exc, at, acc, outcome>>
  BY NowLooks, NextLooks, Running DEF Back, flagVars, exprVars
<1>2. brk \/ cont => Top \notin Loops
  BY DEF Back, SInv, IInv, JumpsUnderWay
<1>3. CASE ret
  <2>1. Looks(ViewUpTo(Target(Activations)), "leave", at, result, outcome)
    BY <1>1, <1>3 DEF AllLooks, ReturnLook
  <2>2. Looks(ViewUpTo(Target(Activations)), "leave", at, result, outcome)'
    BY <1>1, <1>3 DEF AllLooks, ReturnLook
  <2>3. ViewUpTo(Target(Activations))' = ViewUpTo(Target(Activations))
    BY <1>1, TargetKept
  <2> QED BY <1>1, <2>1, <2>2, <2>3 DEF Looks, Structured!vars
<1>4. CASE brk
  <2>1. Looks(ViewUpTo(Target(Loops)), "leave", at, acc, outcome)
    BY <1>1, <1>4 DEF AllLooks, BreakLook
  <2>2. Looks(ViewUpTo(Target(Loops)), "leave", at, acc, outcome)'
    BY <1>1, <1>4 DEF AllLooks, BreakLook
  <2>3. ViewUpTo(Target(Loops))' = ViewUpTo(Target(Loops))
    BY <1>1, <1>2, <1>4, TargetKept
  <2> QED BY <1>1, <2>1, <2>2, <2>3 DEF Looks, Structured!vars
<1>5. CASE cont
  <2>1. Looks(ViewUpTo(Target(Loops)), "end", at, acc, outcome)
    BY <1>1, <1>5 DEF AllLooks, ContinueLook
  <2>2. Looks(ViewUpTo(Target(Loops)), "end", at, acc, outcome)'
    BY <1>1, <1>5 DEF AllLooks, ContinueLook
  <2>3. ViewUpTo(Target(Loops))' = ViewUpTo(Target(Loops))
    BY <1>1, <1>2, <1>5, TargetKept
  <2> QED BY <1>1, <2>1, <2>2, <2>3 DEF Looks, Structured!vars
<1>6. CASE ~ret /\ ~brk /\ ~cont
  <2>1. /\ Quiet /\ Quiet' /\ pc' = "stmt"
        /\ pc = "leave" \/ (pc = "after" /\ Top \notin Loops)
    BY <1>1, <1>6 DEF Back, Quiet, SomeJump
  <2>2. /\ Scopes' = Structured!Pop(Scopes) /\ Structured!Top(Scopes).kind = Top
    BY <1>1, <2>1, QuietNow, QuietNext, ScopesPopped
  <2>3. Position = "leave" \/ (Position = "end" /\ Top \notin Loops)
    BY <2>1, QuietNow
  <2>4. Position' = "stmt" /\ UNCHANGED <<Evaluated, InHand, Ending>>
    BY <1>1, <2>1, QuietNow, QuietNext
  <2> QED BY <1>1, <2>2, <2>3, <2>4, SameWords DEF Structured!Leave, Activations
<1> QED BY <1>3, <1>4, <1>5, <1>6

(* A function or the node's body that comes back has no break or continue   *)
(* under way, and it is where a return was going.                           *)
LEMMA ActivationEnds ==
  ASSUME SInv, ~term, pc = "after", Top \in Activations
  PROVE  /\ Scopes = View(ctl, frames, Len(ctl)) /\ ctl # <<>> /\ ~brk /\ ~cont
         /\ Position = IF ret THEN "leave" ELSE "end"
         /\ InHand = IF ret THEN result ELSE Undef
         /\ Evaluated = "stmt" /\ at = "stmt" /\ acc = Undef /\ Ending = outcome
<1>1. ctl # <<>> /\ AllLooks /\ acc = Undef /\ at = "stmt"
  BY NowLooks, Running DEF SInv, HandEmpty
<1>2. ~brk /\ ~cont
  BY InLoopNotAtCall DEF SInv, IInv, JumpsAreTaken, StackInv
<1>3. CASE ret
  BY <1>1, <1>2, <1>3, TargetAtTop DEF AllLooks, ReturnLook, Looks, ViewUpTo
<1>4. CASE ~ret
  BY <1>1, <1>2, <1>4, QuietNow DEF Quiet
<1> QED BY <1>1, <1>2, <1>3, <1>4

LEMMA FunctionBackStep == ASSUME SInv, SInv', ~term, FunctionBack PROVE Structured!Leave
<1>1. /\ Scopes = View(ctl, frames, Len(ctl)) /\ ctl # <<>> /\ ~brk /\ ~cont
      /\ Position = IF ret THEN "leave" ELSE "end"
      /\ InHand = (IF ret THEN result ELSE Undef) /\ Ending = outcome
  BY ActivationEnds DEF FunctionBack, Activations
<1>2. /\ Quiet' /\ pc' = "use" /\ at' = ctl[Len(ctl)].at /\ Top = "func"
      /\ acc' = IF ret THEN result ELSE Undef
      /\ ctl' = Pop(ctl) /\ frames' = Pop(frames) /\ outcome' = outcome
  BY <1>1 DEF FunctionBack, Quiet
<1>3. /\ Scopes' = Structured!Pop(Scopes) /\ Structured!Top(Scopes).kind = "func"
      /\ Structured!Top(Scopes).at = ctl[Len(ctl)].at
  BY <1>1, <1>2, QuietNext, ScopesPopped
<1>4. Position' = "use" /\ Evaluated' = ctl[Len(ctl)].at /\ UNCHANGED <<InHand, Ending>>
  BY <1>1, <1>2, QuietNext
<1>5. Position = "leave" \/ (Position = "end" /\ "func" \notin Loops)
  BY <1>1 DEF Loops
<1> QED BY <1>3, <1>4, <1>5, SameWords DEF Structured!Leave

LEMMA NodeBackStep == ASSUME SInv, SInv', ~term, NodeBack PROVE Structured!Leave
<1>1. /\ Scopes = View(ctl, frames, Len(ctl)) /\ ctl # <<>> /\ ~brk /\ ~cont
      /\ Position = IF ret THEN "leave" ELSE "end"
      /\ InHand = (IF ret THEN result ELSE Undef)
      /\ Evaluated = "stmt" /\ at = "stmt" /\ acc = Undef
  BY ActivationEnds DEF NodeBack, Activations
<1>2. Len(ctl) = 1
  <2>1. TypedStack /\ NodeOutermost
    BY NowLooks DEF AllLooks, SInv, IInv, StackInv
  <2>2. Len(ctl) \in DOMAIN ctl
    BY <1>1, <2>1 DEF TypedStack
  <2> QED BY <2>1, <2>2 DEF NodeOutermost, NodeBack, Top
<1>3. ctl' = Pop(ctl)
  <2>1. TypedStack
    BY NowLooks DEF AllLooks
  <2>2. Pop(ctl) = <<>>
    BY <1>2, <2>1 DEF Pop, TypedStack
  <2> QED BY <2>2 DEF NodeBack
<1>4. /\ Quiet' /\ pc' = "idle" /\ Top = "node" /\ frames' = Pop(frames)
      /\ outcome' = (IF ret THEN result ELSE "none") /\ at' = at /\ acc' = acc
  BY DEF NodeBack, Quiet, exprVars
<1>5. Scopes' = Structured!Pop(Scopes) /\ Structured!Top(Scopes).kind = "node"
  BY <1>1, <1>3, <1>4, QuietNext, ScopesPopped
<1>6. /\ Position' = "idle" /\ Ending' = (IF ret THEN result ELSE "none")
      /\ InHand' = Undef /\ Evaluated' = Evaluated
  BY <1>1, <1>4, QuietNext
<1>7. Ending' = IF Position = "leave" THEN InHand ELSE "none"
  BY <1>1, <1>6
<1>8. Position = "leave" \/ (Position = "end" /\ "node" \notin Loops)
  BY <1>1 DEF Loops
<1> QED BY <1>5, <1>6, <1>7, <1>8, SameWords DEF Structured!Leave

(* An exception on its way to a try statement, or out of the node, has      *)
(* arrived as far as one can see.                                           *)
LEMMA UnwindStep ==
  ASSUME SInv, SInv', ~term, Unwind
  PROVE  UNCHANGED Structured!vars
<1> DEFINE k == Target({"try"})
<1>1. /\ ctl # <<>> /\ AllLooks /\ AllLooks' /\ TypedStack /\ TypedStack' /\ pc = "unwind"
      /\ ~term' /\ UNCHANGED <<brk, cont, result, at, acc>>
      /\ Len(ctl) \in 1 .. Len(ctl) /\ Len(ctl) \in DOMAIN ctl
  <2>1. ctl # <<>> /\ AllLooks /\ AllLooks' /\ TypedStack /\ TypedStack' /\ pc = "unwind"
    BY NowLooks, NextLooks, Running DEF Unwind, AllLooks
  <2>2. Len(ctl) \in 1 .. Len(ctl)
    BY <2>1 DEF TypedStack
  <2> QED BY <2>1, <2>2 DEF Unwind, exprVars, TypedStack
<1>2. ~ret /\ ~brk /\ ~cont /\ acc = Undef /\ at = "stmt"
  BY <1>1 DEF SInv, IInv, JumpsAreTaken, HandEmpty
<1>3. CASE Top = "try"
  <2>1. k = Len(ctl) /\ Len(ctl) # 0
    BY <1>1, <1>3, TargetAtTop DEF TypedStack
  <2>2. Looks(Handling(ViewUpTo(k), k), "catch", at, exc, outcome)
    BY <1>1, <2>1 DEF AllLooks, ThrownLook
  <2>3. Quiet' /\ pc' = "catch" /\ exc' = exc /\ outcome' = outcome /\ frames' = frames
    BY <1>1, <1>2, <1>3 DEF Unwind, Quiet
  <2>4. View(ctl', frames', Len(ctl')) = Handling(View(ctl, frames, Len(ctl)), Len(ctl))
    <3>1. /\ Len(ctl') = Len(ctl) /\ ctl' \in Seq(Entry)
          /\ \A i \in 1 .. Len(ctl) : /\ ctl'[i].at = ctl[i].at
                                      /\ ctl'[i].kind = IF i = Len(ctl) THEN "handler" ELSE ctl[i].kind
      <4> DEFINE e == [kind |-> "handler", at |-> ctl[Len(ctl)].at]
      <4>1. ctl[Len(ctl)] \in Entry /\ e \in Entry
        <5>1. ctl[Len(ctl)] \in Entry
          BY <1>1 DEF TypedStack
        <5> QED BY <5>1 DEF Entry, Kinds
      <4>2. ctl' = [ctl EXCEPT ![Len(ctl)] = e]
        <5>1. \A r \in Entry : [r EXCEPT !.kind = "handler"] = [kind |-> "handler", at |-> r.at]
          BY DEF Entry
        <5>2. ctl' = [ctl EXCEPT ![Len(ctl)].kind = "handler"]
          BY <1>3 DEF Unwind
        <5> QED BY <4>1, <5>1, <5>2, Zenon
      <4> HIDE DEF e
      <4>3. \A i \in 1 .. Len(ctl) : ctl'[i] = IF i = Len(ctl) THEN e ELSE ctl[i]
        BY <1>1, <4>1, <4>2, ExceptType DEF TypedStack
      <4>4. Len(ctl') = Len(ctl) /\ ctl' \in Seq(Entry)
        BY <1>1, <4>1, <4>2, ExceptType DEF TypedStack
      <4> QED BY <1>1, <4>3, <4>4 DEF e
    <3>2. View(ctl', frames', Len(ctl'))
            = [i \in 1 .. Len(ctl) |-> [kind |-> IF i = Len(ctl) THEN "handler" ELSE ctl[i].kind,
                                       at |-> ctl[i].at, x |-> frames[i]]]
      BY <2>3, <3>1 DEF View
    <3> QED BY <1>1, <3>2, ViewHandling DEF TypedStack
  <2> QED BY <1>1, <2>1, <2>2, <2>3, <2>4, QuietNext DEF Looks, ViewUpTo, Structured!vars
<1>4. CASE Top \notin {"try", "node"}
  <2>1. /\ ctl' = Pop(ctl) /\ frames' = Pop(frames) /\ pc' = "unwind"
        /\ exc' = exc /\ outcome' = outcome
    BY <1>1, <1>4 DEF Unwind
  <2>2. k' = k /\ ViewUpTo(k)' = ViewUpTo(k)
    BY <1>1, <1>4, <2>1, TargetKept
  <2> HIDE DEF k
  <2>3. CASE k = 0
    <3>1. Looks(<<>>, "idle", at, Undef, "failed")
      BY <1>1, <2>3 DEF AllLooks, ThrownLook, k
    <3>2. Looks(<<>>, "idle", at, Undef, "failed")'
      BY <1>1, <2>1, <2>2, <2>3 DEF AllLooks, ThrownLook, k
    <3> QED BY <1>1, <3>1, <3>2 DEF Looks, Structured!vars
  <2>4. CASE k # 0
    <3>1. Looks(Handling(ViewUpTo(k), k), "catch", at, exc, outcome)
      BY <1>1, <2>4 DEF AllLooks, ThrownLook, k
    <3>2. Looks(Handling(ViewUpTo(k), k), "catch", at, exc, outcome)'
      BY <1>1, <2>1, <2>2, <2>4 DEF AllLooks, ThrownLook, k
    <3>3. Handling(ViewUpTo(k), k)' = Handling(ViewUpTo(k), k)
      BY <2>2 DEF Handling
    <3> QED BY <1>1, <2>1, <3>1, <3>2, <3>3 DEF Looks, Structured!vars
  <2> QED BY <2>3, <2>4
<1>5. CASE Top = "node"
  <2>1. /\ frames' = Pop(frames) /\ ctl' = Pop(ctl) /\ Quiet' /\ pc' = "idle" /\ outcome' = "failed"
    BY <1>1, <1>2, <1>5 DEF Unwind, Quiet
  <2>2. Len(ctl) = 1
    <3>1. NodeOutermost
      BY DEF SInv, IInv, StackInv
    <3> QED BY <1>1, <1>5, <3>1 DEF NodeOutermost, Top
  <2>3. Target({"try"}) = 0
    <3>1. \A i \in DOMAIN ctl : ctl[i].kind \notin {"try"}
      BY <1>1, <1>5, <2>2 DEF TypedStack, Top
    <3> QED BY <3>1, InnermostNone DEF Target
  <2>4. Looks(<<>>, "idle", at, Undef, "failed")
    BY <1>1, <2>3 DEF AllLooks, ThrownLook
  <2>5. Len(ctl') = 0
    BY <1>1, <2>1, <2>2, PopType DEF TypedStack
  <2>6. Scopes' = <<>>
    BY <2>1, <2>5, QuietNext, ViewEmpty
  <2> QED BY <1>1, <1>2, <2>1, <2>4, <2>6, QuietNext DEF Looks, Structured!vars
<1> QED BY <1>3, <1>4, <1>5

(* Once the program is asked to stop nothing is seen of it any more.        *)
LEMMA TerminateStep == ASSUME SInv, SInv', Terminate PROVE Structured!Stop
<1>1. Position # "stopped"
  <2>1. pc # "stopped" /\ ~term
    BY DEF Terminate, SInv, IInv, StackInv, TypeOK, PCs, ExprPositions
  <2> QED BY <2>1 DEF Position
<1>2. Looks(<<>>, "stopped", "stmt", Undef, "none")'
  BY NextLooks DEF AllLooks, StoppedLook, Terminate
<1> QED BY <1>1, <1>2 DEF Looks, Structured!Stop

LEMMA StoppedStep == ASSUME SInv, SInv', term, term' PROVE UNCHANGED Structured!vars
<1>1. Looks(<<>>, "stopped", "stmt", Undef, "none")
  BY NowLooks DEF AllLooks, StoppedLook
<1>2. Looks(<<>>, "stopped", "stmt", Undef, "none")'
  BY NextLooks DEF AllLooks, StoppedLook
<1> QED BY <1>1, <1>2 DEF Looks, Structured!vars

(* Every step of the interpreter is a step of the structured execution, or  *)
(* part of a jump that has already arrived there.                           *)
LEMMA StructuredStep ==
  ASSUME SInv, SInv', [Next]_vars
  PROVE  [Structured!Next]_(Structured!vars)
<1>1. CASE UNCHANGED vars
  <2>1. UNCHANGED <<Scopes, Position, Evaluated, InHand, Ending>>
    BY <1>1 DEF vars, stackVars, flagVars, exprVars, Scopes, Kept, Position, Evaluated, InHand,
                Ending, Uncaught
  <2> QED BY <2>1 DEF Structured!vars
<1>2. CASE term /\ Next
  <2>1. term'
    BY <1>2 DEF Next, Step, Consume, Terminate, Start, Enter, EndBody, Break, Continue, Atom, Drop,
                Return, Branch, Declare, Call, Throw, ThrowUnchecked, LoopAfter, Back,
                FunctionBack, NodeBack, Unwind, CatchUnnamed, CatchNamed
  <2> QED BY <1>2, <2>1, StoppedStep
<1>3. CASE ~term /\ Next
  <2>1. ASSUME NEW b \in Boxes \cup {Unbound}, Start(b) PROVE Structured!Next
    BY <1>3, <2>1, StartStep DEF Structured!Next
  <2>2. ASSUME NEW k \in Constructs, Enter(k) PROVE Structured!Next
    BY <1>3, <2>2, EnterStep, SameWords DEF Structured!Next
  <2>3. CASE EndBody
    BY <1>3, <2>3, EndBodyStep DEF Structured!Next
  <2>4. CASE Break
    BY <1>3, <2>4, BreakStep DEF Structured!Next
  <2>5. CASE Continue
    BY <1>3, <2>5, ContinueStep DEF Structured!Next
  <2>6. CASE Atom
    BY <1>3, <2>6, AtomStep DEF Structured!Next
  <2>7. CASE Drop
    BY <1>3, <2>7, DropStep DEF Structured!Next
  <2>8. CASE Return
    BY <1>3, <2>8, ReturnStep DEF Structured!Next
  <2>9. ASSUME NEW t \in BOOLEAN, Branch(t) PROVE Structured!Next
    BY <1>3, <2>9, BranchStep DEF Structured!Next
  <2>10. ASSUME NEW b \in Boxes, Declare(b) PROVE Structured!Next
    BY <1>3, <2>10, DeclareStep DEF Structured!Next
  <2>11. ASSUME NEW b \in Values \cup {Unbound}, Call(b) PROVE Structured!Next
    BY <1>3, <2>11, CallStep, SameWords DEF Structured!Next
  <2>12. ASSUME NEW v \in Values, Throw(v) PROVE Structured!Next
    BY <1>3, <2>12, ThrowStep, SameWords DEF Structured!Next
  <2>13. ~ThrowUnchecked
    BY <1>3 DEF ThrowUnchecked
  <2>14. LoopAfter => [Structured!Next]_(Structured!vars)
    BY <1>3, LoopAfterStep DEF Structured!Next
  <2>15. Back => [Structured!Next]_(Structured!vars)
    BY <1>3, BackStep DEF Structured!Next
  <2>16. FunctionBack \/ NodeBack => Structured!Next
    BY <1>3, FunctionBackStep, NodeBackStep DEF Structured!Next
  <2>17. Unwind => UNCHANGED Structured!vars
    BY <1>3, UnwindStep
  <2>18. CatchUnnamed => Structured!Next
    BY <1>3, CatchUnnamedStep DEF Structured!Next
  <2>19. ASSUME NEW x \in BOOLEAN, CatchNamed(x) PROVE Structured!Next
    BY <1>3, <2>19, CatchStep DEF Structured!Next
  <2>20. Terminate => Structured!Next
    BY TerminateStep DEF Structured!Next
  <2> QED BY <1>3, <2>1, <2>2, <2>3, <2>4, <2>5, <2>6, <2>7, <2>8, <2>9, <2>10, <2>11, <2>12,
             <2>13, <2>14, <2>15, <2>16, <2>17, <2>18, <2>19, <2>20
          DEF Next, Step, Consume
<1> QED BY <1>1, <1>2, <1>3

(* An execution of a node's body through jump flags, frames, barriers,      *)
(* scope guards and C++ exceptions is, step by step, an execution of nested *)
(* constructs whose jumps go straight to their targets, whatever the        *)
(* program and however deep its constructs and calls, until it is asked to  *)
(* stop.                                                                    *)
THEOREM MeansStructured == Spec => ImplementsStructured
<1>1. Init => SInv /\ Structured!Init
  <2> SUFFICES ASSUME Init PROVE SInv /\ Structured!Init
    OBVIOUS
  <2>1. SInv
    BY InitIInv DEF SInv, HandEmpty, Init
  <2>2. Quiet /\ ctl = <<>>
    BY DEF Quiet, Init
  <2>3. Scopes = <<>> /\ Position = "idle" /\ Evaluated = "stmt" /\ InHand = Undef /\ Ending = "none"
    BY <2>1, <2>2, QuietNow, ViewEmpty DEF Init
  <2> QED BY <2>1, <2>3 DEF Structured!Init
<1>2. SInv /\ [Next]_vars => SInv' /\ [Structured!Next]_(Structured!vars)
  BY NextSInv, StructuredStep
<1> QED BY <1>1, <1>2, PTL DEF Spec, ImplementsStructured, Structured!Spec
=============================================================================
