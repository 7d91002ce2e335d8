----------------------------- MODULE PacketsMux -----------------------------
(***************************************************************************)
(* One direction of a muxed UDP connection: threads send messages through  *)
(* one packets_muxer, a network loses, duplicates, delays and reorders the *)
(* datagrams, and a packets_demuxer puts messages together again.          *)
(*                                                                         *)
(* A message is split into Pieces[m] datagrams of at most                  *)
(* max_packet_size_ bytes.  The network is the set of all datagrams ever   *)
(* handed to it, any of which may arrive at any time and any number of     *)
(* times.  Checksums and encryption are left out.                          *)
(***************************************************************************)
EXTENDS Integers, FiniteSets, Functions, FiniteSetsExt

CONSTANTS
  Senders,   (* threads that call send                                       *)
  Messages,
  Pieces,    (* total_packets_ of a message                                  *)
  IdCount    (* stream ids: 2^16 for packets_muxer<uint16_t>                 *)

ASSUME MuxAssumption ==
  /\ Pieces \in [Messages -> Nat \ {0}]
  /\ IdCount \in Nat \ {0}

Ids == 0 .. IdCount - 1

Numbers(m) == 0 .. Pieces[m] - 1

(* A datagram names its stream, its number and, through the message, the    *)
(* number of datagrams and the data.                                        *)
Datagrams == {d \in [id : Ids, no : Nat, msg : Messages] : d.no \in Numbers(d.msg)}

(* What the demuxer composes: data by datagram number.                      *)
Whole(m) == [n \in Numbers(m) |-> m]
Nothing  == [n \in {} |-> n]

VARIABLES
  todo,       (* messages no thread has sent yet                             *)
  count,      (* stream_id_gen_, not yet reduced to its width                *)
  sid,        (* stream_id_ of a message                                     *)
  pos,        (* packet_no_ of a message                                     *)
  pending,    (* messages in out_buffers_                                    *)
  key,        (* out_buffers_key_                                            *)
  pc,         (* where a thread is in send                                   *)
  chunk,      (* the datagrams a thread has fetched and not handed out       *)
  net,        (* datagrams handed to the socket                              *)
  parts,      (* in_buffers_: by stream id, the data that has arrived        *)
  delivered   (* what add_data has returned                                  *)

muxVars  == <<todo, count, sid, pos, pending, key>>
sendVars == <<pc, chunk>>
recvVars == <<parts, delivered>>
vars     == <<muxVars, sendVars, net, recvVars>>

Init ==
  /\ todo = Messages /\ count = 0
  /\ sid = [m \in Messages |-> 0] /\ pos = [m \in Messages |-> 0]
  /\ pending = {} /\ key = 0
  /\ pc = [s \in Senders |-> "out"]
  /\ chunk = [s \in Senders |-> {}]
  /\ net = {}
  /\ parts = [i \in Ids |-> Nothing]
  /\ delivered = {}

-----------------------------------------------------------------------------
(* send: add_message, then fetch_out_chunk and sendto until the muxer is    *)
(* empty.  The mutex is taken for each call of the muxer.                   *)

(* insert_or_assign: a pending message with the same id is lost.            *)
AddMessage(s) ==
  /\ pc[s] = "out"
  /\ \E m \in todo :
       /\ todo' = todo \ {m}
       /\ sid' = [sid EXCEPT ![m] = count % IdCount]
       /\ pos' = [pos EXCEPT ![m] = 0]
       /\ pending' = {n \in pending : sid[n] # count % IdCount} \cup {m}
  /\ count' = count + 1
  /\ pc' = [pc EXCEPT ![s] = "fetch"]
  /\ UNCHANGED <<key, chunk, net, recvVars>>

First == CHOOSE m \in pending : \A n \in pending : sid[m] <= sid[n]

(* The message whose turn it is.                                            *)
Turn ==
  IF \E m \in pending : sid[m] = key
  THEN CHOOSE m \in pending : sid[m] = key
  ELSE First

(* Mutant: the cursor moves to the next number.                             *)
NextNumber(m) == sid[m] + 1

(* The id the cursor moves to after message m.                              *)
NextKey(m) ==
  LET after == {sid[n] : n \in {n \in pending : sid[n] > sid[m]}}
  IN  IF after = {} THEN 0 ELSE Min(after)

FetchChunk(s) ==
  /\ pc[s] = "fetch"
  /\ pending # {}
  /\ LET m == Turn IN
       /\ chunk' = [chunk EXCEPT ![s] = {[id |-> sid[m], no |-> pos[m], msg |-> m]}]
       /\ pos' = [pos EXCEPT ![m] = pos[m] + 1]
       /\ pending' = IF pos[m] + 1 = Pieces[m] THEN pending \ {m} ELSE pending
       /\ key' = NextKey(m)
  /\ pc' = [pc EXCEPT ![s] = "send"]
  /\ UNCHANGED <<todo, count, sid, net, recvVars>>

(* Mutant: one datagram per call.                                           *)
SendToOnce(s) ==
  /\ pc[s] = "send"
  /\ net' = net \cup chunk[s]
  /\ chunk' = [chunk EXCEPT ![s] = {}]
  /\ pc' = [pc EXCEPT ![s] = "out"]
  /\ UNCHANGED <<muxVars, recvVars>>

SendTo(s) ==
  /\ pc[s] = "send"
  /\ net' = net \cup chunk[s]
  /\ chunk' = [chunk EXCEPT ![s] = {}]
  /\ pc' = [pc EXCEPT ![s] = "fetch"]
  /\ UNCHANGED <<muxVars, recvVars>>

SendReturns(s) ==
  /\ pc[s] = "fetch"
  /\ pending = {}
  /\ pc' = [pc EXCEPT ![s] = "out"]
  /\ UNCHANGED <<muxVars, chunk, net, recvVars>>

Send(s) == AddMessage(s) \/ FetchChunk(s) \/ SendTo(s) \/ SendReturns(s)

-----------------------------------------------------------------------------
(* A datagram arrives: stale partial messages go first, then add_data.      *)

(* remove_queued_items_older_than_seconds: time is abstract, any may go.    *)
Kept(gone) == [i \in Ids |-> IF i \in gone THEN Nothing ELSE parts[i]]

(* data_fragments_buffer::append: a datagram replaces one of its number.    *)
Append(f, no, m) == [n \in DOMAIN f \cup {no} |-> IF n = no THEN m ELSE f[n]]

(* Mutant: the last datagram completes the message.                         *)
LastCompletes(d, kept) ==
  LET f == Append(kept[d.id], d.no, d.msg) IN
    \/ /\ d.no = Pieces[d.msg] - 1
       /\ delivered' = delivered \cup {f}
       /\ parts' = [kept EXCEPT ![d.id] = Nothing]
    \/ /\ d.no # Pieces[d.msg] - 1
       /\ parts' = [kept EXCEPT ![d.id] = f]
       /\ UNCHANGED delivered

AddData(d, kept) ==
  LET f == Append(kept[d.id], d.no, d.msg) IN
    \/ /\ Pieces[d.msg] = 1
       /\ delivered' = delivered \cup {[n \in {0} |-> d.msg]}
       /\ parts' = kept
    \/ /\ Pieces[d.msg] > 1
       /\ Cardinality(DOMAIN f) = Pieces[d.msg]
       /\ delivered' = delivered \cup {f}
       /\ parts' = [kept EXCEPT ![d.id] = Nothing]
    \/ /\ Pieces[d.msg] > 1
       /\ Cardinality(DOMAIN f) # Pieces[d.msg]
       /\ parts' = [kept EXCEPT ![d.id] = f]
       /\ UNCHANGED delivered

Receive ==
  /\ \E d \in net, gone \in SUBSET Ids : AddData(d, Kept(gone))
  /\ UNCHANGED <<muxVars, sendVars, net>>

-----------------------------------------------------------------------------
Next == Receive \/ \E s \in Senders : Send(s)

Spec == Init /\ [][Next]_vars

-----------------------------------------------------------------------------
TypeOK ==
  /\ todo \subseteq Messages
  /\ count \in Nat
  /\ sid \in [Messages -> Ids]
  /\ pos \in [Messages -> Nat]
  /\ pending \subseteq Messages \ todo
  /\ key \in Ids
  /\ pc \in [Senders -> {"out", "fetch", "send"}]
  /\ chunk \in [Senders -> SUBSET Datagrams]
  /\ net \subseteq Datagrams
  /\ \A i \in Ids : parts[i] \in [DOMAIN parts[i] -> Messages]

(* A stream id that has named only one message so far.                      *)
UsedOnce(m) == \A n \in Messages \ todo : sid[n] = sid[m] => n = m

(* What add_data returns is one message, whole and in order, as long as its *)
(* stream id has not been used for another one, whatever the network loses, *)
(* repeats and reorders and whenever partial messages are thrown away.      *)
Intact == \A f \in delivered : \A n \in DOMAIN f : UsedOnce(f[n]) => f = Whole(f[n])

(* What keeps a message that waits for its turn from being overwritten when *)
(* the ids come round: 2^16 of them, and far fewer threads.                 *)
FewSenders == IsFiniteSet(Senders) /\ Cardinality(Senders) <= IdCount

(* When no thread is in send, every datagram of every message is out, also  *)
(* of messages other threads have taken datagrams of (FewSenders).          *)
QuietMeansSent ==
  (\A s \in Senders : pc[s] = "out") =>
    \A m \in Messages \ todo : \A n \in Numbers(m) : [id |-> sid[m], no |-> n, msg |-> m] \in net

(* No message replaces another that is still in the muxer, although ids     *)
(* come round again: no send returns while one is pending, so each thread   *)
(* adds at most one meanwhile (FewSenders).                                 *)
NeverReplaced == [][\A m \in pending \ pending' : pos'[m] = Pieces[m]]_vars
=============================================================================
