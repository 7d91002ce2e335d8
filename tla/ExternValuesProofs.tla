-------------------------- MODULE ExternValuesProofs --------------------------
(***************************************************************************)
(* Starting, stopping, terminating and running again the publishing        *)
(* runtime in any order, with any number of chains and clients and any     *)
(* loss on the network: as long as each stop of the server finds the chain *)
(* running or nobody subscribed, no pass of the publishing job has a       *)
(* subscriber and no server.                                               *)
(***************************************************************************)
EXTENDS ExternStops, TLAPS

LEMMA SentAre ==
  ASSUME NEW T, NEW net \in SUBSET T, NEW ms \in SUBSET T, NEW r \in Sends(net, ms)
  PROVE  r \in SUBSET T
  BY DEF Sends

LEMMA AskIsRequest == \A p \in Ports : Ask(p) \in Requests /\ Bye(p) \in Requests
  BY DEF Ask, Bye, Requests

USE DEF chainVars, serverVars, subVars, clientVars, netVars, vars

LEMMA InitTypes == Init => TypeOK
  BY DEF Init, TypeOK, ChainStates, NodeValues

LEMMA HostTypes ==
  ASSUME TypeOK, UNCHANGED case,
         \/ StartSubs \/ StartServer \/ StopSubs \/ StopWait \/ StopServer
         \/ Terminate \/ RunMt \/ Crash \/ Compute
  PROVE  TypeOK'
  <1>1. CASE StartSubs
    BY <1>1 DEF StartSubs, TypeOK, ChainStates
  <1>2. CASE StartServer \/ StopSubs \/ StopWait \/ Terminate \/ RunMt
    BY <1>2 DEF StartServer, StopSubs, StopWait, Terminate, RunMt, TypeOK
  <1>3. CASE StopServer
    BY <1>3 DEF StopServer, TypeOK, ChainStates
  <1>4. CASE Crash
    BY <1>4 DEF Crash, Die, TypeOK, ChainStates, NodeValues
  <1>5. CASE Compute
    BY <1>5 DEF Compute, TypeOK, NodeValues
  <1> QED
    BY <1>1, <1>2, <1>3, <1>4, <1>5

LEMMA PassTypes ==
  ASSUME TypeOK, UNCHANGED case, NEW c \in Chains, NEW dropped \in SUBSET Ports, PassDropping(c, dropped)
  PROVE  TypeOK'
  <1>1. Packets(Due(dropped)) \in SUBSET NodeValues
    BY DEF Packets, TypeOK
  <1>2. pubs' \in SUBSET NodeValues
    BY <1>1, SentAre DEF PassDropping, TypeOK
  <1>3. sub' \in [Ports -> NodeValues \cup {NotSent, NotSub}]
    BY DEF PassDropping, TypeOK
  <1>4. chain' \in [Chains -> ChainStates]
    BY DEF PassDropping, TypeOK, ChainStates
  <1> QED
    BY <1>2, <1>3, <1>4 DEF PassDropping, TypeOK

LEMMA ChainTypes ==
  ASSUME TypeOK, UNCHANGED case, NEW c \in Chains, PassWithoutServer(c) \/ Decide(c) \/ End(c)
  PROVE  TypeOK'
  <1>1. CASE PassWithoutServer(c)
    BY <1>1 DEF PassWithoutServer, Die, TypeOK, ChainStates, NodeValues
  <1>2. CASE Decide(c)
    BY <1>2 DEF Decide, TypeOK, ChainStates
  <1>3. CASE End(c)
    BY <1>3 DEF End, TypeOK, ChainStates
  <1> QED
    BY <1>1, <1>2, <1>3

LEMMA ReceiveTypes ==
  ASSUME TypeOK, UNCHANGED case, NEW m \in reqs, Receive(m)
  PROVE  TypeOK'
  <1>1. m.port \in Ports
    BY DEF TypeOK, Requests
  <1>2. sub' \in [Ports -> NodeValues \cup {NotSent, NotSub}] /\ late' \in SUBSET Ports
    BY <1>1 DEF Receive, Subscribe, TypeOK
  <1> QED
    BY <1>1, <1>2 DEF Receive, TypeOK

LEMMA ClientTypes ==
  ASSUME TypeOK, UNCHANGED case, Round \/ ClientCrash \/ Undeliverable \/ \E v \in pubs : Arrive(v)
  PROVE  TypeOK'
  <1>1. CASE Round
    <2>1. Subscribed \in SUBSET Ports
      BY DEF Subscribed
    <2>2. CASE Renew
      <3>1. {Ask(port')} \cup {Bye(p) : p \in {port} \ {NoPort}} \in SUBSET Requests
        BY <2>2, AskIsRequest DEF Renew, TypeOK
      <3>2. reqs' \in SUBSET Requests
        BY <2>2, <3>1, SentAre DEF Renew, TypeOK
      <3> QED
        BY <1>1, <2>1, <2>2, <3>2 DEF Round, Renew, TypeOK
    <2>3. CASE Keep
      <3>1. {Ask(port)} \in SUBSET Requests
        BY <2>3, AskIsRequest DEF Keep, TypeOK
      <3>2. reqs' \in SUBSET Requests
        BY <2>3, <3>1, SentAre DEF Keep, TypeOK
      <3> QED
        BY <1>1, <2>1, <2>3, <3>2 DEF Round, Keep, TypeOK
    <2> QED
      BY <1>1, <2>2, <2>3 DEF Round
  <1>2. CASE ClientCrash
    BY <1>2 DEF ClientCrash, TypeOK, NodeValues
  <1>3. CASE Undeliverable
    BY <1>3 DEF Undeliverable, TypeOK
  <1>4. CASE \E v \in pubs : Arrive(v)
    BY <1>4 DEF Arrive, TypeOK
  <1> QED
    BY <1>1, <1>2, <1>3, <1>4

LEMMA StepTypes == TypeOK /\ [Next /\ UNCHANGED case]_<<vars, case>> => TypeOK'
  <1> SUFFICES ASSUME TypeOK, [Next /\ UNCHANGED case]_<<vars, case>> PROVE TypeOK'
    OBVIOUS
  <1>1. CASE UNCHANGED vars /\ UNCHANGED case
    BY <1>1 DEF TypeOK
  <1>2. CASE Next /\ UNCHANGED case
    <2>1. CASE \/ StartSubs \/ StartServer \/ StopSubs \/ StopWait \/ StopServer
               \/ Terminate \/ RunMt \/ Crash \/ Compute
      BY <1>2, <2>1, HostTypes
    <2>2. ASSUME NEW c \in Chains, Pass(c) PROVE TypeOK'
      BY <1>2, <2>2, PassTypes DEF Pass
    <2>3. ASSUME NEW c \in Chains, PassWithoutServer(c) \/ Decide(c) \/ End(c) PROVE TypeOK'
      BY <1>2, <2>3, ChainTypes
    <2>4. CASE \E m \in reqs : Receive(m)
      BY <1>2, <2>4, ReceiveTypes
    <2>5. CASE Round \/ ClientCrash \/ Undeliverable \/ \E v \in pubs : Arrive(v)
      BY <1>2, <2>5, ClientTypes
    <2> QED
      BY <1>2, <2>1, <2>2, <2>3, <2>4, <2>5 DEF Next
  <1> QED
    BY <1>1, <1>2

(* Every variable keeps its type, for any values, ports, chains and         *)
(* capacity of the network.                                                 *)
THEOREM TypeCorrect == Spec => []TypeOK
  BY InitTypes, StepTypes, PTL DEF Spec

-----------------------------------------------------------------------------
(* The server is there from the end of a start to the end of a stop, and    *)
(* subscriptions are taken only from the beginning of a start to that of a  *)
(* stop.                                                                    *)
HostInv ==
  /\ enabled <=> host \in {"starting", "up"}
  /\ host \in {"up", "waiting", "closing"} => server
  /\ host = "down" => ~server

(* A stop that waits for the chain goes on only when an end of a chain has  *)
(* cleared the subscriptions, and none comes before the next server.        *)
ClearInv ==
  waited => /\ host = "waiting" /\ Subscribed # {} => running
            /\ host = "closing" => Subscribed = {}
            /\ ~server => Subscribed = {}

StopsInv == HostInv /\ ClearInv

(* The history variable adds no step to those of the program.               *)
LEMMA StopsAreSteps ==
  [NextStops /\ UNCHANGED case]_stopVars => [Next /\ UNCHANGED case]_<<vars, case>>
  BY DEF NextStops, Starting, Stopping, Dying, Going, Next, stopVars

LEMMA HistoryOnly == SpecStops => Spec
  <1>1. InitStops => Init
    BY DEF InitStops
  <1> QED
    BY <1>1, StopsAreSteps, PTL DEF Spec, SpecStops

LEMMA InitStopsInv == InitStops => StopsInv
  BY DEF InitStops, Init, StopsInv, HostInv, ClearInv, Subscribed

LEMMA StartingInv == ASSUME StopsInv, Starting PROVE StopsInv'
  BY DEF Starting, StartServer, StopsInv, HostInv, ClearInv, Subscribed

LEMMA StoppingInv == ASSUME StopsInv, Stopping PROVE StopsInv'
  BY DEF Stopping, StopSubs, Found, StopsInv, HostInv, ClearInv, Subscribed

LEMMA DyingInv == ASSUME StopsInv, Dying PROVE StopsInv'
  BY DEF Dying, Crash, PassWithoutServer, Die, StopsInv, HostInv, ClearInv, Subscribed

LEMMA HostKeepsInv ==
  ASSUME StopsInv, UNCHANGED waited,
         StartSubs \/ StopWait \/ StopServer \/ Terminate \/ RunMt \/ Compute
  PROVE  StopsInv'
  <1>1. Subscribed' = Subscribed
    BY DEF StartSubs, StopWait, StopServer, Terminate, RunMt, Compute, Subscribed
  <1>2. CASE StartSubs
    BY <1>1, <1>2 DEF StartSubs, StopsInv, HostInv, ClearInv
  <1>3. CASE StopWait
    BY <1>1, <1>3 DEF StopWait, StopsInv, HostInv, ClearInv
  <1>4. CASE StopServer
    BY <1>1, <1>4 DEF StopServer, StopsInv, HostInv, ClearInv
  <1>5. CASE Terminate \/ RunMt \/ Compute
    BY <1>1, <1>5 DEF Terminate, RunMt, Compute, StopsInv, HostInv, ClearInv
  <1> QED
    BY <1>2, <1>3, <1>4, <1>5

LEMMA ChainKeepsInv ==
  ASSUME StopsInv, UNCHANGED waited, NEW c \in Chains, Pass(c) \/ Decide(c) \/ End(c)
  PROVE  StopsInv'
  <1>1. CASE Pass(c)
    <2>1. PICK dropped \in SUBSET Ports : PassDropping(c, dropped)
      BY <1>1 DEF Pass
    <2>2. Subscribed' \subseteq Subscribed
      BY <2>1 DEF PassDropping, Subscribed
    <2> QED
      BY <2>1, <2>2 DEF PassDropping, StopsInv, HostInv, ClearInv
  <1>2. CASE Decide(c)
    <2>1. Subscribed' = Subscribed
      BY <1>2 DEF Decide, Subscribed
    <2> QED
      BY <1>2, <2>1 DEF Decide, StopsInv, HostInv, ClearInv
  <1>3. CASE End(c)
    <2>1. Subscribed' = {}
      BY <1>3 DEF End, Subscribed
    <2> QED
      BY <1>3, <2>1 DEF End, StopsInv, HostInv, ClearInv
  <1> QED
    BY <1>1, <1>2, <1>3

LEMMA ReceiveKeepsInv ==
  ASSUME StopsInv, UNCHANGED waited, NEW m \in reqs, Receive(m)
  PROVE  StopsInv'
  <1>1. ~enabled => Subscribed' = Subscribed
    BY DEF Receive, Subscribe, Subscribed
  <1> QED
    BY <1>1 DEF Receive, StopsInv, HostInv, ClearInv

LEMMA ClientKeepsInv ==
  ASSUME StopsInv, UNCHANGED waited, Round \/ ClientCrash \/ Undeliverable \/ \E v \in pubs : Arrive(v)
  PROVE  StopsInv'
  <1>1. UNCHANGED <<host, enabled, running, server, sub>>
    BY DEF Round, ClientCrash, Undeliverable, Arrive
  <1> QED
    BY <1>1 DEF StopsInv, HostInv, ClearInv, Subscribed

LEMMA StepStopsInv == StopsInv /\ [NextStops /\ UNCHANGED case]_stopVars => StopsInv'
  <1> SUFFICES ASSUME StopsInv, [NextStops /\ UNCHANGED case]_stopVars PROVE StopsInv'
    OBVIOUS
  <1>1. CASE UNCHANGED stopVars
    BY <1>1 DEF stopVars, StopsInv, HostInv, ClearInv, Subscribed
  <1>2. CASE Starting \/ Stopping
    BY <1>2, StartingInv, StoppingInv
  <1>3. CASE Dying
    BY <1>3, DyingInv
  <1>4. CASE Going
    BY <1>4, HostKeepsInv, ChainKeepsInv, ReceiveKeepsInv, ClientKeepsInv DEF Going
  <1> QED
    BY <1>1, <1>2, <1>3, <1>4 DEF NextStops

(* pp_subs_functor_ has no subscriber to send to while ppserver_ is null,   *)
(* as long as each stop_net_server has found its chain running or nobody    *)
(* subscribed, whatever else the host does with the server and the runtime. *)
THEOREM ServerThere == SpecStops => []SenderHasServer
  <1>1. StopsInv => SenderHasServer
    BY DEF StopsInv, ClearInv, SenderHasServer
  <1> QED
    BY <1>1, InitStopsInv, StepStopsInv, PTL DEF SpecStops
=============================================================================
