-------------------------- MODULE PacketsMuxProofs --------------------------
(***************************************************************************)
(* Messages arrive whole or not at all, for every number of senders,       *)
(* messages, datagrams and stream ids; none holds up another; and with as  *)
(* many ids as threads none is overwritten and all are sent to the end.    *)
(***************************************************************************)
EXTENDS PacketsTurns, FiniteSetTheorems, WellFoundedInduction, TLAPS

(* A message leaves the muxer with its last datagram.                       *)
MoreToFetch == \A m \in pending : pos[m] < Pieces[m]

(* Datagrams carry the stream id of their message.                          *)
OwnId ==
  /\ \A d \in net : d.msg \notin todo /\ d.id = sid[d.msg]
  /\ \A s \in Senders : \A d \in chunk[s] : d.msg \notin todo /\ d.id = sid[d.msg]

(* A partial message consists of data of messages with its stream id.       *)
PartsOfId ==
  \A i \in Ids : \A n \in DOMAIN parts[i] :
    /\ parts[i][n] \in Messages \ todo
    /\ sid[parts[i][n]] = i
    /\ n \in Numbers(parts[i][n])

DeliveredSent == \A f \in delivered : \A n \in DOMAIN f : f[n] \in Messages \ todo

IInv == TypeOK /\ MoreToFetch /\ OwnId /\ PartsOfId /\ DeliveredSent /\ Intact

(* The threads in send.                                                     *)
Busy == {s \in Senders : pc[s] # "out"}

(* While a message is pending nobody returns, so each thread in send has    *)
(* added at most one message since: its id is one of the latest.            *)
RecentIds ==
  \A m \in pending :
    \E c \in Nat : c < count /\ count - c <= Cardinality(Busy) /\ sid[m] = c % IdCount

Datagram(m, n) == [id |-> sid[m], no |-> n, msg |-> m]

(* What has been fetched is on the network or in the hands of a thread.     *)
Fetched ==
  \A m \in Messages \ todo : \A n \in Numbers(m) :
    n < pos[m] => \/ Datagram(m, n) \in net
                  \/ \E s \in Senders : Datagram(m, n) \in chunk[s]

InHand == \A s \in Senders : chunk[s] # {} => pc[s] = "send"

(* A message leaves the muxer with its last datagram and no sooner.         *)
LeftComplete == \A m \in Messages \ todo : m \in pending \/ pos[m] = Pieces[m]

QInv == IInv /\ RecentIds /\ Fetched /\ InHand /\ LeftComplete

(* An id names one pending message, and the cursor stands at one of them or *)
(* at the beginning.                                                        *)
Distinct == \A m, n \in pending : sid[m] = sid[n] => m = n
KeyNamed == key = 0 \/ \E m \in pending : sid[m] = key

(* How far the cursor is from an id, going up and round.                    *)
Distance(k, i) == IF i >= k THEN i - k ELSE i - k + IdCount

(* A message that has been served since another's last turn comes after it. *)
InTurn ==
  \A m, n \in pending :
    overtaken[m][n] = 1 => Distance(key, sid[m]) < Distance(key, sid[n])

NotYet == \A m \in Messages : \A n \in todo : overtaken[m][n] = 0

TInv ==
  /\ IInv /\ Distinct /\ KeyNamed
  /\ overtaken \in [Messages -> [Messages -> {0, 1}]]
  /\ NotYet /\ InTurn

-----------------------------------------------------------------------------
(* A set of stream ids has a smallest element.                              *)
LEMMA LeastExists ==
  ASSUME NEW T, T \subseteq Nat, T # {}
  PROVE  \E x \in T : \A y \in T : x <= y
  <1>1. PICK x \in T : \A y \in T : ~ (<<y, x>> \in OpToRel(<, Nat))
    BY NatLessThanWellFounded, WFMin
  <1>2. \A y \in T : ~ (y < x)
    BY <1>1 DEF OpToRel
  <1>. QED
    BY <1>2

LEMMA IdsNat == Ids \subseteq Nat /\ 0 \in Ids /\ \A c \in Nat : c % IdCount \in Ids
  BY MuxAssumption DEF Ids

(* A pending message gets the turn, and the cursor stays among the ids.     *)
LEMMA TurnPending ==
  ASSUME TypeOK, pending # {}
  PROVE  Turn \in pending
  <1>1. CASE \E m \in pending : sid[m] = key
    BY <1>1 DEF Turn
  <1>2. CASE ~ \E m \in pending : sid[m] = key
    <2>. DEFINE T == {sid[m] : m \in pending}
    <2>1. T \subseteq Nat /\ T # {}
      <3>1. \A m \in pending : sid[m] \in Ids
        BY DEF TypeOK
      <3>. QED
        BY <3>1, IdsNat
    <2>2. \E x \in T : \A y \in T : x <= y
      BY <2>1, LeastExists
    <2>3. \E m \in pending : \A n \in pending : sid[m] <= sid[n]
      BY <2>2
    <2>. QED
      BY <1>2, <2>3 DEF Turn, First
  <1>. QED
    BY <1>1, <1>2

LEMMA NextKeyType ==
  ASSUME TypeOK, NEW m \in pending
  PROVE  NextKey(m) \in Ids
  <1>. DEFINE T == {sid[n] : n \in {n \in pending : sid[n] > sid[m]}}
  <1>1. T \subseteq Ids
    BY DEF TypeOK
  <1>2. CASE T = {}
    BY <1>2, IdsNat DEF NextKey
  <1>3. CASE T # {}
    <2>1. \E x \in T : \A y \in T : x <= y
      BY <1>1, <1>3, IdsNat, LeastExists
    <2>2. Min(T) \in T
      BY <2>1 DEF Min
    <2>. QED
      BY <1>1, <1>3, <2>2 DEF NextKey
  <1>. QED
    BY <1>2, <1>3

-----------------------------------------------------------------------------
LEMMA InitIInv == Init => IInv
  <1>. SUFFICES ASSUME Init PROVE IInv
    OBVIOUS
  <1>. USE DEF Init
  <1>1. TypeOK
    BY IdsNat DEF TypeOK, Nothing
  <1>2. MoreToFetch /\ OwnId /\ PartsOfId /\ DeliveredSent /\ Intact
    BY DEF MoreToFetch, OwnId, PartsOfId, DeliveredSent, Intact, Nothing
  <1>. QED
    BY <1>1, <1>2 DEF IInv

(* Steps of send that neither take a message nor receive one.               *)
LEMMA Unchanged ==
  ASSUME IInv, UNCHANGED <<todo, sid, parts, delivered>>
  PROVE  PartsOfId' /\ DeliveredSent' /\ Intact'
  BY DEF IInv, PartsOfId, DeliveredSent, Intact, UsedOnce

LEMMA AddMessageStep ==
  ASSUME IInv, NEW s \in Senders, AddMessage(s)
  PROVE  IInv'
  <1>. DEFINE i == count % IdCount
  <1>1. PICK m \in todo :
          /\ todo' = todo \ {m}
          /\ sid' = [sid EXCEPT ![m] = i]
          /\ pos' = [pos EXCEPT ![m] = 0]
          /\ pending' = {n \in pending : sid[n] # i} \cup {m}
    BY DEF AddMessage
  <1>2. /\ count' = count + 1 /\ pc' = [pc EXCEPT ![s] = "fetch"]
        /\ UNCHANGED <<key, chunk, net, parts, delivered>>
    BY DEF AddMessage, recvVars
  <1>3. TypeOK /\ i \in Ids /\ m \in Messages
    BY IdsNat DEF IInv, TypeOK
  <1>. HIDE DEF i
  <1>4. /\ sid' \in [Messages -> Ids] /\ pos' \in [Messages -> Nat]
        /\ \A n \in Messages \ {m} : sid'[n] = sid[n] /\ pos'[n] = pos[n]
        /\ pos'[m] = 0
    BY <1>1, <1>3 DEF TypeOK
  <1>5. TypeOK'
    BY <1>1, <1>2, <1>3, <1>4 DEF TypeOK
  <1>6. MoreToFetch'
    BY <1>1, <1>3, <1>4, MuxAssumption DEF IInv, MoreToFetch, TypeOK
  <1>7. OwnId'
    BY <1>1, <1>2, <1>3, <1>4 DEF IInv, OwnId, TypeOK, Datagrams
  <1>8. PartsOfId'
    BY <1>1, <1>2, <1>4 DEF IInv, PartsOfId
  <1>9. DeliveredSent'
    BY <1>1, <1>2 DEF IInv, DeliveredSent
  <1>10. \A x \in Messages \ todo : UsedOnce(x)' => UsedOnce(x)
    BY <1>1, <1>4 DEF UsedOnce
  <1>11. Intact'
    BY <1>2, <1>10 DEF IInv, Intact, DeliveredSent
  <1>. QED
    BY <1>5, <1>6, <1>7, <1>8, <1>9, <1>11 DEF IInv

LEMMA FetchChunkStep ==
  ASSUME IInv, NEW s \in Senders, FetchChunk(s)
  PROVE  IInv'
  <1>. DEFINE m == Turn
              d == [id |-> sid[m], no |-> pos[m], msg |-> m]
  <1>1. /\ chunk' = [chunk EXCEPT ![s] = {d}]
        /\ pos' = [pos EXCEPT ![m] = pos[m] + 1]
        /\ pending' = IF pos[m] + 1 = Pieces[m] THEN pending \ {m} ELSE pending
        /\ key' = NextKey(m)
        /\ pc' = [pc EXCEPT ![s] = "send"]
        /\ UNCHANGED <<todo, count, sid, net, parts, delivered>>
        /\ pending # {}
    BY DEF FetchChunk, recvVars
  <1>2. TypeOK /\ m \in pending
    BY <1>1, TurnPending DEF IInv
  <1>3. m \in Messages \ todo /\ sid[m] \in Ids /\ pos[m] \in Nat /\ Pieces[m] \in Nat
    BY <1>2, MuxAssumption DEF TypeOK
  <1>4. NextKey(m) \in Ids
    BY <1>2, NextKeyType
  <1>. HIDE DEF m
  <1>5. d \in Datagrams
    BY <1>2, <1>3 DEF Datagrams, Numbers, IInv, MoreToFetch
  <1>6. TypeOK'
    BY <1>1, <1>2, <1>3, <1>4, <1>5 DEF TypeOK
  <1>7. MoreToFetch'
    <2>. SUFFICES ASSUME NEW n \in pending' PROVE pos'[n] < Pieces[n]
      BY DEF MoreToFetch
    <2>1. n \in pending /\ pos[n] < Pieces[n]
      BY <1>1 DEF IInv, MoreToFetch
    <2>2. pos' \in [Messages -> Nat] /\ n \in Messages
      BY <1>6, <2>1 DEF TypeOK, IInv
    <2>3. CASE n # m
      BY <1>1, <1>2, <2>1, <2>2, <2>3 DEF TypeOK
    <2>4. CASE n = m
      <3>1. pos'[m] = pos[m] + 1
        BY <1>1, <1>2, <1>3 DEF TypeOK
      <3>2. pos[m] + 1 # Pieces[m]
        BY <1>1, <2>4
      <3>. QED
        BY <1>3, <2>1, <2>4, <3>1, <3>2
    <2>. QED
      BY <2>3, <2>4
  <1>8. OwnId'
    BY <1>1, <1>2, <1>3 DEF IInv, OwnId, TypeOK
  <1>. QED
    BY <1>1, <1>6, <1>7, <1>8, Unchanged DEF IInv

LEMMA SendStep ==
  ASSUME IInv, NEW s \in Senders, SendTo(s) \/ SendReturns(s)
  PROVE  IInv'
  <1>1. UNCHANGED <<todo, count, sid, pos, pending, key, parts, delivered>>
    BY DEF SendTo, SendReturns, muxVars, recvVars
  <1>2. \/ /\ net' = net \cup chunk[s] /\ chunk' = [chunk EXCEPT ![s] = {}]
           /\ pc' = [pc EXCEPT ![s] = "fetch"]
        \/ /\ UNCHANGED <<net, chunk>> /\ pc' = [pc EXCEPT ![s] = "out"]
    BY DEF SendTo, SendReturns
  <1>3. TypeOK'
    BY <1>1, <1>2 DEF IInv, TypeOK
  <1>4. MoreToFetch'
    BY <1>1 DEF IInv, MoreToFetch
  <1>5. OwnId'
    BY <1>1, <1>2 DEF IInv, OwnId, TypeOK
  <1>. QED
    BY <1>1, <1>3, <1>4, <1>5, Unchanged DEF IInv

(* A partial message with as many parts as its last datagram announces is   *)
(* that datagram's message, if no other one had its stream id.              *)
LEMMA Complete ==
  ASSUME TypeOK, NEW d \in Datagrams, d.msg \notin todo, d.id = sid[d.msg],
         NEW f, f = [n \in DOMAIN f |-> f[n]],
         \A n \in DOMAIN f : /\ f[n] \in Messages \ todo
                             /\ sid[f[n]] = d.id
                             /\ n \in Numbers(f[n]),
         Cardinality(DOMAIN f) = Pieces[d.msg],
         NEW k \in DOMAIN f, UsedOnce(f[k])
  PROVE  f = Whole(f[k])
  <1>1. d.msg \in Messages \ todo
    BY DEF Datagrams
  <1>2. d.msg = f[k] /\ \A n \in DOMAIN f : f[n] = f[k]
    BY <1>1 DEF UsedOnce
  <1>3. DOMAIN f \subseteq Numbers(f[k])
    BY <1>2
  <1>4. IsFiniteSet(Numbers(f[k])) /\ Cardinality(Numbers(f[k])) = Pieces[f[k]]
    <2>1. Pieces[f[k]] \in Nat \ {0}
      BY MuxAssumption
    <2>2. 0 \in Int /\ Pieces[f[k]] - 1 \in Int
      BY <2>1
    <2>3. /\ IsFiniteSet(0 .. Pieces[f[k]] - 1)
          /\ Cardinality(0 .. Pieces[f[k]] - 1) =
               IF 0 > Pieces[f[k]] - 1 THEN 0 ELSE (Pieces[f[k]] - 1) - 0 + 1
      BY <2>2, FS_Interval
    <2>4. Cardinality(0 .. Pieces[f[k]] - 1) = Pieces[f[k]]
      BY <2>1, <2>3
    <2>. QED
      BY <2>3, <2>4 DEF Numbers
  <1>5. DOMAIN f = Numbers(f[k])
    BY <1>2, <1>3, <1>4, FS_Subset
  <1>. QED
    BY <1>2, <1>5 DEF Whole

LEMMA ReceiveStep ==
  ASSUME IInv, Receive
  PROVE  IInv'
  <1>1. PICK d \in net : \E gone \in SUBSET Ids : AddData(d, Kept(gone))
    BY DEF Receive
  <1>2. PICK gone \in SUBSET Ids : AddData(d, Kept(gone))
    BY <1>1
  <1>3. UNCHANGED <<todo, count, sid, pos, pending, key, pc, chunk, net>>
    BY DEF Receive, muxVars, sendVars
  <1>4. TypeOK /\ d \in Datagrams /\ d.msg \notin todo /\ d.id = sid[d.msg]
    BY DEF IInv, TypeOK, OwnId
  <1>5. d.id \in Ids /\ d.msg \in Messages /\ d.no \in Numbers(d.msg) /\ Pieces[d.msg] \in Nat \ {0}
    BY <1>4, MuxAssumption DEF Datagrams
  <1>. DEFINE kept == Kept(gone)
              f == Append(kept[d.id], d.no, d.msg)
              Good(g, i) == /\ g = [n \in DOMAIN g |-> g[n]]
                            /\ \A n \in DOMAIN g : /\ g[n] \in Messages \ todo
                                                  /\ sid[g[n]] = i
                                                  /\ n \in Numbers(g[n])
  <1>6. \A i \in Ids : Good(kept[i], i)
    <2>. SUFFICES ASSUME NEW i \in Ids PROVE Good(kept[i], i)
      OBVIOUS
    <2>1. kept[i] = Nothing \/ kept[i] = parts[i]
      BY DEF Kept
    <2>2. Good(Nothing, i)
      BY DEF Nothing
    <2>3. Good(parts[i], i)
      BY DEF IInv, TypeOK, PartsOfId
    <2>. QED
      BY <2>1, <2>2, <2>3
  <1>7. Good(f, d.id)
    <2>. DEFINE g == kept[d.id]
    <2>1. Good(g, d.id)
      BY <1>5, <1>6
    <2>. HIDE DEF g
    <2>2. Append(g, d.no, d.msg) =
            [n \in DOMAIN g \cup {d.no} |-> IF n = d.no THEN d.msg ELSE g[n]]
      BY DEF Append
    <2>3. Good(Append(g, d.no, d.msg), d.id)
      BY <1>4, <1>5, <2>1, <2>2
    <2>. QED
      BY <2>3 DEF g
  <1>8. /\ kept = [i \in Ids |-> kept[i]]
        /\ \/ /\ Pieces[d.msg] = 1 /\ parts' = kept
              /\ delivered' = delivered \cup {[n \in {0} |-> d.msg]}
           \/ /\ Cardinality(DOMAIN f) = Pieces[d.msg]
              /\ delivered' = delivered \cup {f} /\ parts' = [kept EXCEPT ![d.id] = Nothing]
           \/ parts' = [kept EXCEPT ![d.id] = f] /\ delivered' = delivered
    BY <1>2 DEF AddData, Kept
  <1>9. Good(Nothing, d.id)
    BY DEF Nothing
  <1>10. \A i \in Ids : Good(parts'[i], i)
    <2>. HIDE DEF kept, f, Good
    <2>. SUFFICES ASSUME NEW i \in Ids PROVE Good(parts'[i], i)
      OBVIOUS
    <2>1. parts'[i] = kept[i] \/ (i = d.id /\ (parts'[i] = Nothing \/ parts'[i] = f))
      BY <1>8
    <2>. QED
      BY <1>6, <1>7, <1>9, <2>1
  <1>. HIDE DEF kept, f
  <1>11. TypeOK'
    BY <1>3, <1>4, <1>10 DEF TypeOK
  <1>12. MoreToFetch' /\ OwnId'
    BY <1>3 DEF IInv, MoreToFetch, OwnId
  <1>13. PartsOfId'
    BY <1>3, <1>10 DEF PartsOfId
  <1>14. \A g \in delivered' : \/ g \in delivered
                               \/ Pieces[d.msg] = 1 /\ g = [n \in {0} |-> d.msg]
                               \/ Cardinality(DOMAIN f) = Pieces[d.msg] /\ g = f
    BY <1>8
  <1>15. DeliveredSent'
    BY <1>3, <1>4, <1>5, <1>7, <1>14 DEF IInv, DeliveredSent
  <1>16. Intact'
    <2>. SUFFICES ASSUME NEW g \in delivered', NEW k \in DOMAIN g, UsedOnce(g[k])
                  PROVE  g = Whole(g[k])
      BY <1>3 DEF Intact, UsedOnce
    <2>1. CASE g \in delivered
      BY <2>1 DEF IInv, Intact
    <2>2. CASE Pieces[d.msg] = 1 /\ g = [n \in {0} |-> d.msg]
      BY <2>2 DEF Whole, Numbers
    <2>3. CASE Cardinality(DOMAIN f) = Pieces[d.msg] /\ g = f
      BY <1>4, <1>7, <2>3, Complete
    <2>. QED
      BY <1>14, <2>1, <2>2, <2>3
  <1>. QED
    BY <1>11, <1>12, <1>13, <1>15, <1>16 DEF IInv

-----------------------------------------------------------------------------
LEMMA NextIInv == IInv /\ [Next]_vars => IInv'
  <1>. SUFFICES ASSUME IInv, [Next]_vars PROVE IInv'
    OBVIOUS
  <1>1. CASE UNCHANGED vars
    <2>1. UNCHANGED <<todo, count, sid, pos, pending, key, pc, chunk, net, parts, delivered>>
      BY <1>1 DEF vars, muxVars, sendVars, recvVars
    <2>. QED
      BY <2>1, Unchanged DEF IInv, TypeOK, MoreToFetch, OwnId
  <1>2. CASE Next
    BY <1>2, ReceiveStep, AddMessageStep, FetchChunkStep, SendStep DEF Next, Send
  <1>. QED
    BY <1>1, <1>2

(* The inductive invariant of a connection.                                 *)
THEOREM Invariance == Spec => []IInv
  BY InitIInv, NextIInv, PTL DEF Spec

(* The variables of both ends keep their types; the cursor of the muxer     *)
(* stays among the stream ids.                                              *)
THEOREM TypeCorrect == Spec => []TypeOK
  <1>1. IInv => TypeOK
    BY DEF IInv
  <1>. QED
    BY <1>1, Invariance, PTL

(* What the demuxer returns is one whole message in order, unless its       *)
(* stream id has come round again, whatever the network does.               *)
THEOREM MessagesIntact == Spec => []Intact
  <1>1. IInv => Intact
    BY DEF IInv
  <1>. QED
    BY <1>1, Invariance, PTL
-----------------------------------------------------------------------------
(* Remainders.                                                              *)

LEMMA DivMod ==
  ASSUME NEW a \in Nat
  PROVE  /\ a % IdCount \in Int
         /\ \E q \in Int : a = IdCount * q + (a % IdCount)
  <1>. USE MuxAssumption
  <1>. DEFINE q == a \div IdCount
  <1>1. q \in Int /\ a % IdCount \in Int
    OBVIOUS
  <1>2. a = IdCount * q + (a % IdCount)
    OBVIOUS
  <1>. QED
    BY <1>1, <1>2

LEMMA NoSmallMultiple ==
  ASSUME NEW j \in Int, 0 < IdCount * j, IdCount * j < IdCount
  PROVE  FALSE
  <1>. USE MuxAssumption
  <1>1. CASE j <= 0
    BY <1>1
  <1>2. CASE j >= 1
    <2>1. IdCount * j = IdCount + IdCount * (j - 1)
      OBVIOUS
    <2>2. IdCount * (j - 1) >= 0
      BY <1>2
    <2>. QED
      BY <2>1, <2>2
  <1>. QED
    BY <1>1, <1>2

(* Two counts less than a round apart have different ids.                   *)
LEMMA NearIdsDiffer ==
  ASSUME NEW a \in Nat, NEW b \in Nat, b < a, a - b < IdCount
  PROVE  a % IdCount # b % IdCount
  <1>. SUFFICES ASSUME a % IdCount = b % IdCount PROVE FALSE
    OBVIOUS
  <1>1. PICK q \in Int : a = IdCount * q + (a % IdCount)
    BY DivMod
  <1>2. PICK r \in Int : b = IdCount * r + (b % IdCount)
    BY DivMod
  <1>3. /\ a % IdCount \in Int /\ b % IdCount \in Int
        /\ IdCount * q \in Int /\ IdCount * r \in Int
    BY DivMod, MuxAssumption
  <1>4. IdCount * (q - r) = IdCount * q - IdCount * r
    BY MuxAssumption
  <1>5. a - b = IdCount * (q - r)
    BY <1>1, <1>2, <1>3, <1>4
  <1>. QED
    BY <1>5, NoSmallMultiple

-----------------------------------------------------------------------------
(* The threads in send.                                                     *)

LEMMA BusyFinite ==
  ASSUME FewSenders
  PROVE  IsFiniteSet(Busy) /\ Cardinality(Busy) \in Nat /\ Cardinality(Busy) <= Cardinality(Senders)
  BY FS_Subset, FS_CardinalityType DEF FewSenders, Busy

(* A thread that enters send makes one more, and was none of them.          *)
LEMMA OneMoreBusy ==
  ASSUME FewSenders, IInv, NEW s \in Senders, pc[s] = "out", NEW p, p # "out",
         pc' = [pc EXCEPT ![s] = p]
  PROVE  /\ Cardinality(Busy') = Cardinality(Busy) + 1
         /\ Cardinality(Busy) < Cardinality(Senders)
         /\ Cardinality(Busy) \in Nat /\ Cardinality(Senders) \in Nat
  <1>1. Busy' = Busy \cup {s} /\ s \notin Busy
    BY DEF Busy, IInv, TypeOK
  <1>2. IsFiniteSet(Busy) /\ IsFiniteSet(Senders) /\ Busy \subseteq Senders /\ Busy # Senders
    BY <1>1, BusyFinite DEF FewSenders, Busy
  <1>3. Cardinality(Busy) < Cardinality(Senders)
    BY <1>2, FS_Subset, FS_CardinalityType
  <1>. QED
    BY <1>1, <1>2, <1>3, FS_AddElement, FS_CardinalityType

(* A step of a thread that stays in send leaves as many in it.              *)
LEMMA SameBusy ==
  ASSUME IInv, NEW s \in Senders, pc[s] # "out", NEW p, p # "out",
         pc' = [pc EXCEPT ![s] = p]
  PROVE  Busy' = Busy
  BY DEF Busy, IInv, TypeOK

LEMMA PendingMeansBusy ==
  ASSUME FewSenders, IInv, RecentIds, pending # {}
  PROVE  Busy # {}
  <1>1. PICK m \in pending :
          \E c \in Nat : c < count /\ count - c <= Cardinality(Busy) /\ sid[m] = c % IdCount
    BY DEF RecentIds
  <1>2. PICK c \in Nat : c < count /\ count - c <= Cardinality(Busy)
    BY <1>1
  <1>3. count \in Nat /\ Cardinality(Busy) \in Nat
    BY BusyFinite DEF IInv, TypeOK
  <1>4. Cardinality(Busy) # 0
    BY <1>2, <1>3
  <1>. QED
    BY <1>4, FS_EmptySet

(* The id of a message that is added is none of the pending ones'.          *)
LEMMA AddsFreshId ==
  ASSUME FewSenders, IInv, RecentIds, NEW s \in Senders, AddMessage(s), NEW m \in pending
  PROVE  sid[m] # count % IdCount
  <1>1. pc[s] = "out" /\ pc' = [pc EXCEPT ![s] = "fetch"]
    BY DEF AddMessage
  <1>2. Cardinality(Busy) < Cardinality(Senders) /\ Cardinality(Busy) \in Nat
        /\ Cardinality(Senders) \in Nat
    BY <1>1, OneMoreBusy
  <1>3. PICK c \in Nat : c < count /\ count - c <= Cardinality(Busy) /\ sid[m] = c % IdCount
    BY DEF RecentIds
  <1>4. count \in Nat /\ IdCount \in Nat /\ Cardinality(Senders) <= IdCount
    BY MuxAssumption DEF IInv, TypeOK, FewSenders
  <1>5. count - c < IdCount
    BY <1>2, <1>3, <1>4
  <1>. QED
    BY <1>3, <1>4, <1>5, NearIdsDiffer

-----------------------------------------------------------------------------
LEMMA InitQInv == Init => QInv
  <1>1. Init => RecentIds /\ Fetched /\ InHand /\ LeftComplete
    BY DEF Init, RecentIds, Fetched, InHand, LeftComplete
  <1>. QED
    BY <1>1, InitIInv DEF QInv

LEMMA AddMessageQ ==
  ASSUME FewSenders, QInv, NEW s \in Senders, AddMessage(s)
  PROVE  RecentIds' /\ Fetched' /\ InHand' /\ LeftComplete'
  <1>. DEFINE i == count % IdCount
  <1>1. PICK m \in todo :
          /\ todo' = todo \ {m}
          /\ sid' = [sid EXCEPT ![m] = i]
          /\ pos' = [pos EXCEPT ![m] = 0]
          /\ pending' = {n \in pending : sid[n] # i} \cup {m}
    BY DEF AddMessage
  <1>2. /\ pc[s] = "out" /\ count' = count + 1 /\ pc' = [pc EXCEPT ![s] = "fetch"]
        /\ UNCHANGED <<chunk, net>>
    BY DEF AddMessage
  <1>3. IInv /\ TypeOK /\ RecentIds
    BY DEF QInv, IInv
  <1>4. pending' = pending \cup {m}
    BY <1>1, <1>3, AddsFreshId
  <1>5. /\ m \in Messages /\ m \notin pending
        /\ \A n \in Messages \ {m} : sid'[n] = sid[n] /\ pos'[n] = pos[n]
        /\ sid'[m] = i /\ pos'[m] = 0
    BY <1>1, <1>3 DEF TypeOK
  <1>. HIDE DEF i
  <1>6. RecentIds'
    <2>1. /\ Cardinality(Busy') = Cardinality(Busy) + 1
          /\ Cardinality(Busy) \in Nat /\ count \in Nat
      BY <1>2, <1>3, OneMoreBusy DEF TypeOK
    <2>. SUFFICES ASSUME NEW n \in pending'
                  PROVE  \E c \in Nat : /\ c < count' /\ count' - c <= Cardinality(Busy')
                                        /\ sid'[n] = c % IdCount
      BY DEF RecentIds
    <2>2. CASE n = m
      <3>1. count < count' /\ count' - count <= Cardinality(Busy')
        BY <1>2, <2>1
      <3>. QED
        BY <1>5, <2>1, <2>2, <3>1 DEF i
    <2>3. CASE n # m
      <3>1. n \in pending /\ sid'[n] = sid[n]
        BY <1>3, <1>4, <1>5, <2>3 DEF TypeOK
      <3>2. PICK c \in Nat : c < count /\ count - c <= Cardinality(Busy) /\ sid[n] = c % IdCount
        BY <1>3, <3>1 DEF RecentIds
      <3>3. c < count' /\ count' - c <= Cardinality(Busy')
        BY <1>2, <2>1, <3>2
      <3>. QED
        BY <3>1, <3>2, <3>3
    <2>. QED
      BY <2>2, <2>3
  <1>7. Fetched'
    <2>. SUFFICES ASSUME NEW n \in (Messages \ todo)', NEW k \in Numbers(n), k < pos'[n]
                  PROVE  \/ Datagram(n, k)' \in net
                         \/ \E t \in Senders : Datagram(n, k)' \in chunk[t]
      BY <1>2 DEF Fetched
    <2>1. n # m
      BY <1>5, MuxAssumption DEF Numbers
    <2>2. n \in Messages \ todo /\ pos'[n] = pos[n] /\ Datagram(n, k)' = Datagram(n, k)
      BY <1>1, <1>5, <2>1 DEF Datagram
    <2>. QED
      BY <2>2 DEF QInv, Fetched
  <1>8. InHand'
    BY <1>2, <1>3 DEF QInv, InHand, TypeOK
  <1>9. LeftComplete'
    BY <1>1, <1>4, <1>5 DEF QInv, LeftComplete
  <1>. QED
    BY <1>6, <1>7, <1>8, <1>9

LEMMA FetchChunkQ ==
  ASSUME QInv, NEW s \in Senders, FetchChunk(s)
  PROVE  RecentIds' /\ Fetched' /\ InHand' /\ LeftComplete'
  <1>. DEFINE m == Turn
  <1>1. /\ chunk' = [chunk EXCEPT ![s] = {Datagram(m, pos[m])}]
        /\ pos' = [pos EXCEPT ![m] = pos[m] + 1]
        /\ pending' = IF pos[m] + 1 = Pieces[m] THEN pending \ {m} ELSE pending
        /\ pc[s] = "fetch" /\ pc' = [pc EXCEPT ![s] = "send"]
        /\ UNCHANGED <<todo, count, sid, net>>
        /\ pending # {}
    BY DEF FetchChunk, Datagram
  <1>2. TypeOK /\ m \in pending
    BY <1>1, TurnPending DEF QInv, IInv
  <1>. HIDE DEF m
  <1>3. m \in Messages \ todo /\ pos[m] \in Nat /\ pos'[m] = pos[m] + 1
        /\ \A n \in Messages \ {m} : pos'[n] = pos[n]
    BY <1>1, <1>2 DEF TypeOK
  <1>4. chunk[s] = {} /\ chunk'[s] = {Datagram(m, pos[m])} /\ \A t \in Senders \ {s} : chunk'[t] = chunk[t]
    BY <1>1, <1>2 DEF QInv, InHand, TypeOK
  <1>5. RecentIds'
    <2>1. Busy' = Busy /\ pending' \subseteq pending
      BY <1>1, SameBusy DEF QInv
    <2>. QED
      BY <1>1, <2>1 DEF QInv, RecentIds
  <1>6. Fetched'
    <2>. SUFFICES ASSUME NEW n \in Messages \ todo, NEW k \in Numbers(n), k < pos'[n]
                  PROVE  \/ Datagram(n, k) \in net
                         \/ \E t \in Senders : Datagram(n, k) \in chunk'[t]
      BY <1>1 DEF Fetched, Datagram
    <2>1. CASE n = m /\ k = pos[m]
      BY <1>4, <2>1
    <2>2. CASE ~(n = m /\ k = pos[m])
      <3>1. k < pos[n]
        <4>1. k \in Int
          BY MuxAssumption DEF Numbers
        <4>. QED
          BY <1>3, <2>2, <4>1
      <3>2. \/ Datagram(n, k) \in net
            \/ \E t \in Senders : Datagram(n, k) \in chunk[t]
        BY <3>1 DEF QInv, Fetched
      <3>. QED
        BY <1>4, <3>2
    <2>. QED
      BY <2>1, <2>2
  <1>7. InHand'
    BY <1>1, <1>2, <1>4 DEF QInv, InHand, TypeOK
  <1>8. LeftComplete'
    <2>. SUFFICES ASSUME NEW n \in Messages \ todo PROVE n \in pending' \/ pos'[n] = Pieces[n]
      BY <1>1 DEF LeftComplete
    <2>1. n \in pending \/ pos[n] = Pieces[n]
      BY DEF QInv, LeftComplete
    <2>2. CASE n = m
      BY <1>1, <1>2, <1>3, <2>2
    <2>3. CASE n # m
      BY <1>1, <1>3, <2>1, <2>3
    <2>. QED
      BY <2>2, <2>3
  <1>. QED
    BY <1>5, <1>6, <1>7, <1>8

LEMMA SendToQ ==
  ASSUME QInv, NEW s \in Senders, SendTo(s)
  PROVE  RecentIds' /\ Fetched' /\ InHand' /\ LeftComplete'
  <1>1. /\ UNCHANGED <<todo, count, sid, pos, pending>>
        /\ net' = net \cup chunk[s] /\ chunk' = [chunk EXCEPT ![s] = {}]
        /\ pc[s] = "send" /\ pc' = [pc EXCEPT ![s] = "fetch"]
    BY DEF SendTo, muxVars
  <1>2. chunk'[s] = {} /\ \A t \in Senders \ {s} : chunk'[t] = chunk[t]
    BY <1>1 DEF QInv, IInv, TypeOK
  <1>3. RecentIds'
    <2>1. Busy' = Busy
      BY <1>1, SameBusy DEF QInv
    <2>. QED
      BY <1>1, <2>1 DEF QInv, RecentIds
  <1>4. Fetched'
    <2>. SUFFICES ASSUME NEW n \in Messages \ todo, NEW k \in Numbers(n), k < pos[n]
                  PROVE  \/ Datagram(n, k) \in net'
                         \/ \E t \in Senders : Datagram(n, k) \in chunk'[t]
      BY <1>1 DEF Fetched, Datagram
    <2>1. \/ Datagram(n, k) \in net
          \/ \E t \in Senders : Datagram(n, k) \in chunk[t]
      BY DEF QInv, Fetched
    <2>. QED
      BY <1>1, <1>2, <2>1
  <1>5. InHand'
    BY <1>1, <1>2 DEF QInv, InHand, IInv, TypeOK
  <1>6. LeftComplete'
    BY <1>1 DEF QInv, LeftComplete
  <1>. QED
    BY <1>3, <1>4, <1>5, <1>6

(* A thread returns only when nothing is pending.                           *)
LEMMA SendReturnsQ ==
  ASSUME QInv, NEW s \in Senders, SendReturns(s)
  PROVE  RecentIds' /\ Fetched' /\ InHand' /\ LeftComplete'
  <1>1. /\ UNCHANGED <<todo, sid, pos, pending, chunk, net>> /\ pending = {}
        /\ pc[s] = "fetch" /\ pc' = [pc EXCEPT ![s] = "out"]
    BY DEF SendReturns, muxVars
  <1>2. RecentIds' /\ LeftComplete'
    BY <1>1 DEF QInv, RecentIds, LeftComplete
  <1>3. Fetched'
    BY <1>1 DEF QInv, Fetched, Datagram
  <1>4. InHand'
    BY <1>1 DEF QInv, InHand, IInv, TypeOK
  <1>. QED
    BY <1>2, <1>3, <1>4

LEMMA NextQInv == FewSenders /\ QInv /\ [Next]_vars => QInv'
  <1>. SUFFICES ASSUME FewSenders, QInv, [Next]_vars PROVE QInv'
    OBVIOUS
  <1>1. IInv'
    BY NextIInv DEF QInv
  <1>2. CASE Receive \/ UNCHANGED vars
    <2>1. UNCHANGED <<todo, count, sid, pos, pending, pc, chunk, net>>
      BY <1>2 DEF Receive, vars, muxVars, sendVars
    <2>2. RecentIds' /\ LeftComplete' /\ InHand'
      BY <2>1 DEF QInv, RecentIds, Busy, LeftComplete, InHand
    <2>3. Fetched'
      BY <2>1 DEF QInv, Fetched, Datagram
    <2>. QED
      BY <1>1, <2>2, <2>3 DEF QInv
  <1>3. CASE \E s \in Senders : Send(s)
    BY <1>1, <1>3, AddMessageQ, FetchChunkQ, SendToQ, SendReturnsQ DEF Send, QInv
  <1>. QED
    BY <1>2, <1>3 DEF Next

THEOREM SendingInvariance == ASSUME FewSenders PROVE Spec => []QInv
  <1>1. QInv /\ [Next]_vars => QInv'
    BY NextQInv
  <1>. QED
    BY <1>1, InitQInv, PTL DEF Spec

(* With as many stream ids as threads, when all sends have returned every   *)
(* datagram of every message has been handed to the socket.                 *)
THEOREM QuietIsSent == ASSUME FewSenders PROVE Spec => []QuietMeansSent
  <1>1. QInv => QuietMeansSent
    <2>. SUFFICES ASSUME QInv, \A s \in Senders : pc[s] = "out",
                         NEW m \in Messages \ todo, NEW n \in Numbers(m)
                  PROVE  Datagram(m, n) \in net
      BY DEF QuietMeansSent, Datagram
    <2>1. pending = {}
      BY PendingMeansBusy DEF QInv, Busy
    <2>2. pos[m] = Pieces[m]
      BY <2>1 DEF QInv, LeftComplete
    <2>3. n < pos[m]
      BY <2>2, MuxAssumption DEF Numbers
    <2>4. \A s \in Senders : chunk[s] = {}
      BY DEF QInv, InHand
    <2>. QED
      BY <2>3, <2>4 DEF QInv, Fetched
  <1>. QED
    BY <1>1, SendingInvariance, PTL

(* With as many stream ids as threads no message replaces another in the    *)
(* muxer: what leaves it has been fetched to the end.                       *)
THEOREM NoneReplaced == ASSUME FewSenders PROVE Spec => NeverReplaced
  <1>1. QInv /\ [Next]_vars => \A m \in pending \ pending' : pos'[m] = Pieces[m]
    <2>. SUFFICES ASSUME QInv, [Next]_vars, NEW m \in pending \ pending'
                  PROVE  pos'[m] = Pieces[m]
      OBVIOUS
    <2>1. CASE Receive \/ UNCHANGED vars
      BY <2>1 DEF Receive, vars, muxVars
    <2>2. ASSUME NEW s \in Senders, SendTo(s) \/ SendReturns(s)
          PROVE  pos'[m] = Pieces[m]
      BY <2>2 DEF SendTo, SendReturns, muxVars
    <2>3. ASSUME NEW s \in Senders, AddMessage(s) PROVE FALSE
      <3>1. sid[m] # count % IdCount
        BY <2>3, AddsFreshId DEF QInv
      <3>2. {n \in pending : sid[n] # count % IdCount} \subseteq pending'
        BY <2>3 DEF AddMessage
      <3>. QED
        BY <3>1, <3>2
    <2>4. ASSUME NEW s \in Senders, FetchChunk(s) PROVE pos'[m] = Pieces[m]
      <3>1. /\ pos' = [pos EXCEPT ![Turn] = pos[Turn] + 1]
            /\ pending' = IF pos[Turn] + 1 = Pieces[Turn] THEN pending \ {Turn} ELSE pending
        BY <2>4 DEF FetchChunk
      <3>2. m = Turn /\ pos[Turn] + 1 = Pieces[Turn]
        BY <3>1
      <3>. QED
        BY <3>1, <3>2 DEF QInv, IInv, TypeOK
    <2>. QED
      BY <2>1, <2>2, <2>3, <2>4 DEF Next, Send
  <1>. QED
    BY <1>1, SendingInvariance, PTL DEF Spec, NeverReplaced
-----------------------------------------------------------------------------
(* Turns.  The cursor moves from the id of the message served up to the     *)
(* next pending one and at the end to 0, from where First is the next.      *)

LEMMA PendingId == TypeOK => \A n \in pending : sid[n] \in Ids /\ sid[n] \in Nat
  <1>1. Ids \subseteq Nat
    BY IdsNat
  <1>. QED
    BY <1>1 DEF TypeOK

LEMMA NextKeyFacts ==
  ASSUME TypeOK, NEW m \in pending
  PROVE  \/ NextKey(m) = 0 /\ \A n \in pending : sid[n] <= sid[m]
         \/ /\ NextKey(m) > sid[m]
            /\ \E n \in pending : sid[n] = NextKey(m)
            /\ \A n \in pending : sid[n] > sid[m] => sid[n] >= NextKey(m)
  <1>. DEFINE T == {sid[n] : n \in {n \in pending : sid[n] > sid[m]}}
  <1>1. T \subseteq Nat /\ \A n \in pending : sid[n] \in Nat
    <2>1. \A n \in pending : sid[n] \in Nat
      BY PendingId DEF Ids
    <2>. QED
      BY <2>1
  <1>2. CASE T = {}
    <2>1. NextKey(m) = 0
      BY <1>2 DEF NextKey
    <2>. QED
      BY <1>1, <1>2, <2>1
  <1>3. CASE T # {}
    <2>1. PICK x \in T : \A y \in T : x <= y
      BY <1>1, <1>3, LeastExists
    <2>2. Min(T) \in T /\ \A y \in T : Min(T) <= y
      BY <2>1 DEF Min
    <2>3. NextKey(m) = Min(T)
      BY <1>3 DEF NextKey
    <2>. HIDE DEF NextKey
    <2>4. PICK n \in pending : sid[n] > sid[m] /\ sid[n] = NextKey(m)
      BY <2>2, <2>3
    <2>5. \A k \in pending : sid[k] > sid[m] => sid[k] >= NextKey(m)
      <3>. SUFFICES ASSUME NEW k \in pending, sid[k] > sid[m] PROVE sid[k] >= NextKey(m)
        OBVIOUS
      <3>1. sid[k] \in T
        OBVIOUS
      <3>. QED
        BY <1>1, <2>2, <2>3, <2>4, <3>1
    <2>. QED
      BY <2>4, <2>5
  <1>. QED
    BY <1>2, <1>3

(* The message whose turn it is comes first from the cursor, going round.   *)
LEMMA TurnFacts ==
  ASSUME TypeOK, KeyNamed, pending # {}
  PROVE  \A n \in pending : Distance(key, sid[Turn]) <= Distance(key, sid[n])
  <1>. SUFFICES ASSUME NEW n \in pending
                PROVE  Distance(key, sid[Turn]) <= Distance(key, sid[n])
    OBVIOUS
  <1>1. Turn \in pending
    BY TurnPending
  <1>2. sid[n] \in Ids /\ sid[Turn] \in Ids /\ key \in Ids /\ IdCount \in Nat \ {0}
    BY <1>1, MuxAssumption DEF TypeOK
  <1>3. CASE \E m \in pending : sid[m] = key
    <2>1. sid[Turn] = key
      BY <1>3 DEF Turn
    <2>. QED
      BY <1>2, <2>1 DEF Ids, Distance
  <1>4. CASE ~ \E m \in pending : sid[m] = key
    <2>1. key = 0
      BY <1>4 DEF KeyNamed
    <2>. DEFINE T == {sid[m] : m \in pending}
    <2>2. T \subseteq Nat /\ T # {}
      BY PendingId
    <2>3. \E x \in T : \A y \in T : x <= y
      BY <2>2, LeastExists
    <2>4. \E m \in pending : \A k \in pending : sid[m] <= sid[k]
      BY <2>3
    <2>5. sid[Turn] <= sid[n]
      BY <1>4, <2>4 DEF Turn, First
    <2>. QED
      BY <1>2, <2>1, <2>5 DEF Ids, Distance
  <1>. QED
    BY <1>3, <1>4

(* When the cursor moves from k over t, which was first, up to the next id  *)
(* or round to 0, the order of the others is the same, and t is last.       *)
LEMMA Rotate ==
  ASSUME NEW k \in Ids, NEW t \in Ids, NEW up \in Ids, NEW x \in Ids, NEW y \in Ids,
         Distance(k, t) < Distance(k, x), Distance(k, t) < Distance(k, y),
         \/ up = 0 /\ x <= t /\ y <= t
         \/ up > t /\ (x > t => x >= up) /\ (y > t => y >= up)
  PROVE  /\ Distance(k, x) < Distance(k, y) => Distance(up, x) < Distance(up, y)
         /\ Distance(up, x) < Distance(up, t)
  <1>1. IdCount \in Nat \ {0}
    BY MuxAssumption
  <1>2. \A i \in Ids : i \in Int /\ 0 <= i /\ i < IdCount
    BY <1>1 DEF Ids
  <1>. QED
    BY <1>1, <1>2 DEF Distance

LEMMA NextKeyNamed ==
  ASSUME TypeOK, NEW m \in pending,
         NEW left, left = pending \/ left = pending \ {m}
  PROVE  NextKey(m) = 0 \/ \E n \in left : sid[n] = NextKey(m)
  <1>1. sid[m] \in Nat /\ \A n \in pending : sid[n] \in Nat
    BY PendingId
  <1>2. \/ NextKey(m) = 0
        \/ NextKey(m) > sid[m] /\ \E n \in pending : sid[n] = NextKey(m)
    BY NextKeyFacts
  <1>. QED
    BY <1>1, <1>2

-----------------------------------------------------------------------------
LEMMA InitTInv == TurnInit => TInv
  <1>. SUFFICES ASSUME TurnInit PROVE TInv
    OBVIOUS
  <1>1. IInv
    BY InitIInv DEF TurnInit
  <1>2. Distinct /\ KeyNamed /\ InTurn
    BY DEF TurnInit, Init, Distinct, KeyNamed, InTurn
  <1>3. overtaken \in [Messages -> [Messages -> {0, 1}]] /\ NotYet
    BY DEF TurnInit, Init, NoTurns, NotYet
  <1>. QED
    BY <1>1, <1>2, <1>3 DEF TInv

(* A step without a turn at most forgets.                                   *)
LEMMA NoTurnT ==
  ASSUME TInv, TurnNext, UNCHANGED <<todo, sid, pos, pending, key>>
  PROVE  TInv'
  <1>1. IInv'
    BY NextIInv DEF TInv, TurnNext
  <1>2. Distinct' /\ KeyNamed'
    BY DEF TInv, Distinct, KeyNamed
  <1>3. \A n \in Messages : pos[n] \in Int
    BY DEF TInv, IInv, TypeOK
  <1>4. \A m, n \in Messages : overtaken'[m][n] \in {0, overtaken[m][n]}
    BY <1>3 DEF TInv, TurnNext, NoTurns
  <1>5. overtaken' \in [Messages -> [Messages -> {0, 1}]]
    BY <1>3 DEF TInv, TurnNext, NoTurns
  <1>6. NotYet'
    BY <1>4 DEF TInv, NotYet, IInv, TypeOK
  <1>7. InTurn'
    BY <1>4 DEF TInv, InTurn, IInv, TypeOK, Distance
  <1>. QED
    BY <1>1, <1>2, <1>5, <1>6, <1>7 DEF TInv

(* A message comes in: nothing has been served since.                       *)
LEMMA AddMessageT ==
  ASSUME TInv, TurnNext, NEW s \in Senders, AddMessage(s)
  PROVE  TInv'
  <1>. DEFINE i == count % IdCount
  <1>1. PICK m \in todo :
          /\ todo' = todo \ {m}
          /\ sid' = [sid EXCEPT ![m] = i]
          /\ pos' = [pos EXCEPT ![m] = 0]
          /\ pending' = {n \in pending : sid[n] # i} \cup {m}
    BY DEF AddMessage
  <1>2. key' = key /\ IInv' /\ TypeOK
    BY NextIInv DEF AddMessage, TInv, TurnNext, IInv
  <1>. HIDE DEF i
  <1>3. /\ m \in Messages /\ m \notin pending
        /\ \A n \in pending : n \in Messages /\ n # m
        /\ sid'[m] = i /\ pos'[m] = 0
        /\ \A n \in Messages \ {m} : sid'[n] = sid[n] /\ pos'[n] = pos[n]
        /\ \A n \in Messages : pos[n] \in Nat
    BY <1>1, <1>2 DEF TypeOK
  <1>4. Distinct'
    BY <1>1, <1>3 DEF TInv, Distinct
  <1>5. KeyNamed'
    BY <1>1, <1>2, <1>3 DEF TInv, KeyNamed
  <1>6. \A x, n \in Messages : overtaken'[x][n] \in {0, overtaken[x][n]}
    <2>. SUFFICES ASSUME NEW x \in Messages, NEW n \in Messages
                  PROVE  overtaken'[x][n] \in {0, overtaken[x][n]}
      OBVIOUS
    <2>1. ~ pos'[n] > pos[n] /\ overtaken[x][n] \in {0, 1}
      BY <1>3 DEF TInv
    <2>. QED
      BY <2>1 DEF TurnNext, NoTurns
  <1>7. overtaken' \in [Messages -> [Messages -> {0, 1}]]
    <2>1. \A x \in Messages : overtaken'[x] = [n \in Messages |-> overtaken'[x][n]]
      BY DEF TurnNext, NoTurns
    <2>2. overtaken' = [x \in Messages |-> overtaken'[x]]
      BY DEF TurnNext
    <2>. QED
      BY <1>6, <2>1, <2>2 DEF TInv
  <1>8. NotYet'
    <2>. SUFFICES ASSUME NEW x \in Messages, NEW n \in todo PROVE overtaken'[x][n] = 0
      BY <1>1 DEF NotYet
    <2>1. n \in Messages /\ overtaken[x][n] = 0
      BY <1>2 DEF TInv, NotYet, TypeOK
    <2>. QED
      BY <1>6, <2>1
  <1>9. InTurn'
    <2>. SUFFICES ASSUME NEW x \in pending', NEW n \in pending', overtaken'[x][n] = 1
                  PROVE  Distance(key, sid'[x]) < Distance(key, sid'[n])
      BY <1>2 DEF InTurn, Distance
    <2>1. x \in Messages /\ n \in Messages
      BY <1>1, <1>3
    <2>2. overtaken[x][n] = 1
      BY <1>6, <2>1
    <2>3. n # m
      BY <1>1, <2>1, <2>2 DEF TInv, NotYet
    <2>4. x # m
      <3>1. overtaken'[m] = NoTurns
        BY <1>3 DEF TurnNext, Waited
      <3>. QED
        BY <2>1, <3>1 DEF NoTurns
    <2>5. x \in pending /\ n \in pending /\ sid'[x] = sid[x] /\ sid'[n] = sid[n]
      BY <1>1, <1>3, <2>1, <2>3, <2>4
    <2>. QED
      BY <2>2, <2>5 DEF TInv, InTurn
  <1>. QED
    BY <1>2, <1>4, <1>5, <1>7, <1>8, <1>9 DEF TInv

(* A turn: the message served was first, so no other one has been served    *)
(* since it was, and it goes to the end.                                    *)
LEMMA FetchChunkT ==
  ASSUME TInv, TurnNext, NEW s \in Senders, FetchChunk(s)
  PROVE  TInv'
  <1>. DEFINE m == Turn
  <1>1. /\ pending # {}
        /\ pos' = [pos EXCEPT ![m] = pos[m] + 1]
        /\ pending' = IF pos[m] + 1 = Pieces[m] THEN pending \ {m} ELSE pending
        /\ key' = NextKey(m)
        /\ UNCHANGED <<todo, sid>>
    BY DEF FetchChunk
  <1>2. TypeOK /\ IInv' /\ m \in pending
    BY <1>1, NextIInv, TurnPending DEF TInv, TurnNext, IInv
  <1>3. \A n \in pending : Distance(key, sid[m]) <= Distance(key, sid[n])
    BY <1>1, <1>2, TurnFacts DEF TInv
  <1>4. key' = 0 \/ \E n \in pending' : sid[n] = key'
    BY <1>1, <1>2, NextKeyNamed
  <1>5. \/ key' = 0 /\ \A n \in pending : sid[n] <= sid[m]
        \/ key' > sid[m] /\ \A n \in pending : sid[n] > sid[m] => sid[n] >= key'
    BY <1>1, <1>2, NextKeyFacts
  <1>. HIDE DEF m
  <1>6. /\ m \in Messages /\ m \notin todo /\ pos'[m] = pos[m] + 1
        /\ \A n \in Messages \ {m} : pos'[n] = pos[n]
        /\ \A n \in Messages : pos[n] \in Nat
        /\ \A n \in pending : n \in Messages /\ sid[n] \in Ids
        /\ key \in Ids /\ key' \in Ids
        /\ pending' \subseteq pending
    BY <1>1, <1>2 DEF TypeOK, IInv
  <1>7. \A n \in pending : n # m => Distance(key, sid[m]) < Distance(key, sid[n])
    <2>. SUFFICES ASSUME NEW n \in pending, n # m
                  PROVE  Distance(key, sid[m]) < Distance(key, sid[n])
      OBVIOUS
    <2>1. sid[n] # sid[m]
      BY <1>2 DEF TInv, Distinct
    <2>2. \A i \in Ids : i \in Int /\ 0 <= i /\ i < IdCount
      BY MuxAssumption DEF Ids
    <2>. QED
      BY <1>3, <1>6, <1>2, <2>1, <2>2, MuxAssumption DEF Distance
  <1>8. Distinct' /\ KeyNamed'
    BY <1>1, <1>4, <1>6 DEF TInv, Distinct, KeyNamed
  <1>9. \A x \in pending : overtaken[x][m] = 0
    <2>. SUFFICES ASSUME NEW x \in pending, overtaken[x][m] = 1 PROVE FALSE
      BY <1>6 DEF TInv
    <2>1. Distance(key, sid[x]) < Distance(key, sid[m])
      BY <1>2 DEF TInv, InTurn
    <2>2. \A i \in Ids : i \in Int
      BY MuxAssumption DEF Ids
    <2>. QED
      BY <1>2, <1>3, <1>6, <2>1, <2>2, MuxAssumption DEF Distance
  <1>10. \A x \in Messages : \/ overtaken'[x] = NoTurns
                             \/ /\ x \in pending /\ x # m
                                /\ overtaken'[x] = [overtaken[x] EXCEPT ![m] = 1]
    <2>. SUFFICES ASSUME NEW x \in Messages, Waited(x)
                  PROVE  /\ x \in pending /\ x # m
                         /\ overtaken'[x] = [overtaken[x] EXCEPT ![m] = 1]
      BY DEF TurnNext
    <2>1. x \in pending /\ x # m
      BY <1>6 DEF Waited
    <2>2. overtaken'[x] = [n \in Messages |-> overtaken[x][n] + (IF pos'[n] > pos[n] THEN 1 ELSE 0)]
      BY DEF TurnNext
    <2>3. \A n \in Messages : pos'[n] > pos[n] <=> n = m
      BY <1>6
    <2>4. overtaken[x] \in [Messages -> {0, 1}] /\ overtaken[x][m] = 0
      BY <1>9, <2>1 DEF TInv
    <2>5. \A n \in Messages : overtaken'[x][n] = IF n = m THEN 1 ELSE overtaken[x][n]
      BY <2>2, <2>3, <2>4
    <2>. QED
      BY <2>1, <2>2, <2>4, <2>5
  <1>11. overtaken' \in [Messages -> [Messages -> {0, 1}]]
    <2>1. \A x \in Messages : overtaken'[x] \in [Messages -> {0, 1}]
      <3>. SUFFICES ASSUME NEW x \in Messages PROVE overtaken'[x] \in [Messages -> {0, 1}]
        OBVIOUS
      <3>1. overtaken[x] \in [Messages -> {0, 1}] /\ NoTurns \in [Messages -> {0, 1}]
        BY DEF TInv, NoTurns
      <3>. QED
        BY <1>10, <3>1
    <2>2. overtaken' = [x \in Messages |-> overtaken'[x]]
      BY DEF TurnNext
    <2>. QED
      BY <2>1, <2>2
  <1>12. NotYet'
    <2>. SUFFICES ASSUME NEW x \in Messages, NEW n \in todo PROVE overtaken'[x][n] = 0
      BY <1>1 DEF NotYet
    <2>1. n \in Messages /\ n # m /\ overtaken[x][n] = 0 /\ overtaken[x] \in [Messages -> {0, 1}]
      BY <1>2, <1>6 DEF TInv, NotYet, TypeOK
    <2>. QED
      BY <1>10, <2>1 DEF NoTurns
  <1>13. InTurn'
    <2>. SUFFICES ASSUME NEW x \in pending', NEW n \in pending', overtaken'[x][n] = 1
                  PROVE  Distance(key', sid[x]) < Distance(key', sid[n])
      BY <1>1 DEF InTurn, Distance
    <2>1. x \in pending /\ n \in pending /\ x \in Messages /\ n \in Messages
      BY <1>6
    <2>2. x # m /\ overtaken'[x] = [overtaken[x] EXCEPT ![m] = 1]
      BY <1>10, <2>1 DEF NoTurns
    <2>3. n = m \/ overtaken[x][n] = 1
      BY <2>1, <2>2 DEF TInv
    <2>4. Distance(key, sid[m]) < Distance(key, sid[x])
      BY <1>7, <2>1, <2>2
    <2>5. CASE n = m
      BY <1>2, <1>5, <1>6, <2>1, <2>4, <2>5, Rotate
    <2>6. CASE n # m
      <3>1. Distance(key, sid[m]) < Distance(key, sid[n])
        BY <1>7, <2>1, <2>6
      <3>2. Distance(key, sid[x]) < Distance(key, sid[n])
        BY <2>1, <2>3, <2>6 DEF TInv, InTurn
      <3>. QED
        BY <1>2, <1>5, <1>6, <2>1, <2>4, <3>1, <3>2, Rotate
    <2>. QED
      BY <2>5, <2>6
  <1>. QED
    BY <1>2, <1>8, <1>11, <1>12, <1>13 DEF TInv

LEMMA NextTInv == TInv /\ [TurnNext]_turnVars => TInv'
  <1>. SUFFICES ASSUME TInv, [TurnNext]_turnVars PROVE TInv'
    OBVIOUS
  <1>1. CASE UNCHANGED turnVars
    <2>1. IInv'
      BY <1>1, NextIInv DEF TInv, turnVars
    <2>2. UNCHANGED <<todo, sid, pending, key, overtaken>>
      BY <1>1 DEF turnVars, vars, muxVars
    <2>. QED
      BY <2>1, <2>2 DEF TInv, Distinct, KeyNamed, NotYet, InTurn, Distance
  <1>2. CASE TurnNext /\ (Receive \/ \E s \in Senders : SendTo(s) \/ SendReturns(s))
    BY <1>2, NoTurnT DEF Receive, SendTo, SendReturns, muxVars
  <1>3. CASE TurnNext /\ \E s \in Senders : AddMessage(s) \/ FetchChunk(s)
    BY <1>3, AddMessageT, FetchChunkT
  <1>. QED
    BY <1>1, <1>2, <1>3 DEF TurnNext, Next, Send

(* However long the messages are, each other one is served at most once     *)
(* while one waits for its turn in the muxer.                               *)
THEOREM NoBlocking == TurnSpec => []NoHeadOfLine
  <1>1. TInv => NoHeadOfLine
    <2>. SUFFICES ASSUME TInv, NEW m \in Messages, NEW n \in Messages
                  PROVE  overtaken[m][n] <= 1
      BY DEF NoHeadOfLine
    <2>1. overtaken[m][n] \in {0, 1}
      BY DEF TInv
    <2>. QED
      BY <2>1
  <1>. QED
    BY <1>1, InitTInv, NextTInv, PTL DEF TurnSpec
=============================================================================
