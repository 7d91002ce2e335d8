---------------------------- MODULE ExternValues ----------------------------
(***************************************************************************)
(* A node of one runtime read as an external value by another: the         *)
(* publishing server with its chain of pp_subs_functor_ jobs and the host  *)
(* calls that start and stop it, the subscribing process with its chain of *)
(* ext_cells_processor_ jobs, and the network between them, which loses    *)
(* and reorders datagrams.  The publishing runtime may be terminated and   *)
(* run again, and its server started twice.                                *)
(*                                                                         *)
(* One published node, one external cell.  A client object is named by the *)
(* port of its socket; ports are used again, but not at once.  A           *)
(* connection id stands for the port it was made for: what is sent to an   *)
(* id that is gone goes nowhere.  A datagram received and its              *)
(* process_input or on_data_arrived job are one step: both the network and *)
(* the pool change the order.  One host thread starts and stops the        *)
(* server; the subscribing runtime is terminated with its process only.    *)
(***************************************************************************)
EXTENDS Naturals, FiniteSets

CONSTANTS
  Values,      (* what the node computes                                     *)
  Undef,       (* an undefined value                                         *)
  NotSent,     (* last value of a subscription nothing was sent for          *)
  NotSub,      (* no subscription                                            *)
  Ports,       (* client sockets                                             *)
  NoPort,      (* the subscribing process has no client object               *)
  Chains,      (* bound: chains of pp_subs_functor_ jobs at a time           *)
  Cases        (* bounds and settings, of which a behaviour has one          *)

ASSUME ExternAssumption ==
  /\ Undef \notin Values
  /\ {NotSent, NotSub} \cap (Values \cup {Undef}) = {} /\ NotSent # NotSub
  /\ NoPort \notin Ports
  /\ Cases \subseteq [events : SUBSET {"stop", "terminate", "crash", "leave"},
                     flight : Nat \ {0},
                     keeps  : BOOLEAN]

NodeValues == Values \cup {Undef}
Requests   == [kind : {"sub", "close"}, port : Ports]

ChainStates == {"none", "queued", "asleep", "ending"}

VARIABLES
  case,     (* what happens to the two processes besides starting the server *)
            (* (events); the datagrams under way in each direction (flight); *)
            (* whether the publishing runtime has external cells itself and  *)
            (* so keeps its queue when the server stops (keeps:              *)
            (* ext_cells_processor_needed_)                                  *)
  host,     (* where the host thread is in start_ or stop_net_server         *)
  term,     (* termination_requested_                                        *)
  enabled,  (* pp_subs_functor_enabled_                                      *)
  running,  (* pp_subs_functor_running_                                      *)
  chain,    (* where each chain of pp_subs_functor_ jobs is                  *)
  server,   (* ppserver_ is there and receives                               *)
  conns,    (* ports with a connection                                       *)
  sub,      (* net_subs_: the last value sent                                *)
  late,     (* the client object, if not heard for a period of subscription  *)
  node,     (* the node's value                                              *)
  port,     (* the current client object's socket                            *)
  heard,    (* it has received data since the last round                     *)
  cell,     (* the external cell                                             *)
  reqs,     (* datagrams under way to the server                             *)
  pubs      (* values under way to its socket                                *)

chainVars  == <<term, enabled, running, chain>>
serverVars == <<server, conns>>
subVars    == <<sub, late>>
clientVars == <<port, heard, cell>>
netVars    == <<reqs, pubs>>
vars == <<host, chainVars, serverVars, subVars, node, clientVars, netVars>>

Init ==
  /\ case \in Cases
  /\ host = "down"
  /\ term = FALSE /\ enabled = FALSE /\ running = FALSE
  /\ chain = [c \in Chains |-> "none"]
  /\ server = FALSE /\ conns = {}
  /\ sub = [p \in Ports |-> NotSub] /\ late = {}
  /\ node = Undef
  /\ port = NoPort /\ heard = FALSE /\ cell = Undef
  /\ reqs = {} /\ pubs = {}

(* Datagrams are sent: of these and of those under way some get lost, and  *)
(* no more than case.flight are under way at a time.                        *)
Sends(net, ms) == {got \in SUBSET (net \cup ms) : Cardinality(got) <= case.flight}

-----------------------------------------------------------------------------
(* The host of the publishing runtime.                                      *)

Subscribed == {p \in Ports : sub[p] # NotSub}

(* start_pp_subs: one more chain, whatever chains there are.  If there is a *)
(* server the call has nothing else to do.                                  *)
StartSubs ==
  /\ host \in {"down", "up"}
  /\ host' = IF server THEN "up" ELSE "starting"
  /\ enabled' = TRUE
  /\ \E c \in Chains : chain[c] = "none" /\ chain' = [chain EXCEPT ![c] = "queued"]
  /\ UNCHANGED <<term, running, serverVars, subVars, node, clientVars, netVars>>

(* The server is created and started.                                       *)
StartServer ==
  /\ host = "starting"
  /\ host' = "up"
  /\ server' = TRUE
  /\ UNCHANGED <<chainVars, conns, subVars, node, clientVars, netVars>>

(* stop_net_server: stop_pp_subs disables the chains.                       *)
StopSubs ==
  /\ "stop" \in case.events /\ host = "up"
  /\ host' = "waiting"
  /\ enabled' = FALSE
  /\ UNCHANGED <<term, running, chain, serverVars, subVars, node, clientVars, netVars>>

(* It waits while a chain runs: not at all when none has had its first pass *)
(* or the last has ended at a termination request.                          *)
StopWait ==
  /\ host = "waiting" /\ ~running
  /\ host' = "closing"
  /\ UNCHANGED <<chainVars, serverVars, subVars, node, clientVars, netVars>>

(* Without external cells of its own the runtime destroys its queue first,  *)
(* with the jobs that wait there and after those that run; ppserver_ is     *)
(* reset.                                                                   *)
StopServer ==
  /\ host = "closing"
  /\ host' = "down"
  /\ IF case.keeps
     THEN chain' = chain
     ELSE /\ \A c \in Chains : chain[c] \in {"none", "queued"}
          /\ chain' = [c \in Chains |-> "none"]
  /\ server' = FALSE /\ conns' = {}
  /\ UNCHANGED <<term, enabled, running, subVars, node, clientVars, netVars>>

(* terminate, stop_mt.                                                      *)
Terminate ==
  /\ "terminate" \in case.events /\ ~term
  /\ term' = TRUE
  /\ UNCHANGED <<host, enabled, running, chain, serverVars, subVars, node, clientVars, netVars>>

(* run_mt after it; it starts no chain.                                     *)
RunMt ==
  /\ term /\ term' = FALSE
  /\ UNCHANGED <<host, enabled, running, chain, serverVars, subVars, node, clientVars, netVars>>

(* The publishing process ends, and may be started again.                   *)
Die ==
  /\ host' = "down"
  /\ term' = FALSE /\ enabled' = FALSE /\ running' = FALSE
  /\ chain' = [c \in Chains |-> "none"]
  /\ server' = FALSE /\ conns' = {}
  /\ sub' = [p \in Ports |-> NotSub] /\ late' = {}
  /\ node' = Undef
  /\ UNCHANGED <<clientVars, netVars>>

Crash == "crash" \in case.events /\ host # "down" /\ Die

(* A computation or, when the runtime is terminated, the host's own input.  *)
Compute ==
  /\ \E v \in Values : node' = v
  /\ UNCHANGED <<host, chainVars, serverVars, subVars, clientVars, netVars>>

-----------------------------------------------------------------------------
(* pp_subs_functor_.                                                        *)

(* Ten seconds without a request may have passed: two periods of a process  *)
(* that goes on.                                                            *)
Silent == {p \in Subscribed : p \in late \/ p # port}

(* What is sent to an id without a connection, or to a closed socket, is    *)
(* lost.                                                                    *)
Packets(ps) == IF port \in ps \cap conns THEN {node} ELSE {}

(* Mutant: a subscriber is never given up.                                  *)
GiveUpNobody(dropped) == dropped = {}

GiveUp(dropped) == dropped \subseteq Silent

(* The subscribers that have not been sent the node's value.                *)
Due(dropped) == {p \in Subscribed \ dropped : sub[p] # node}

(* One pass under net_subs_mtp_: give up the silent, send what changed.  A  *)
(* value counts as sent whatever becomes of the datagram.  Then it sleeps.  *)
PassDropping(c, dropped) ==
  /\ chain[c] = "queued" /\ chain' = [chain EXCEPT ![c] = "asleep"]
  /\ GiveUp(dropped)
  /\ Due(dropped) = {} \/ server
  /\ running' = TRUE
  /\ sub' = [p \in Ports |-> IF p \in dropped THEN NotSub
                             ELSE IF p \in Subscribed THEN node ELSE NotSub]
  /\ late' = late \ dropped
  /\ pubs' \in Sends(pubs, Packets(Due(dropped)))
  /\ UNCHANGED <<host, term, enabled, serverVars, node, clientVars, reqs>>

Pass(c) == \E dropped \in SUBSET Ports : PassDropping(c, dropped)

(* A pass with something to send and ppserver_ null: the process dies.      *)
PassWithoutServer(c) ==
  /\ chain[c] = "queued" /\ ~server
  /\ \E dropped \in SUBSET Ports : GiveUp(dropped) /\ Due(dropped) # {}
  /\ Die

(* After the sleep the job is enqueued again, or the chain ends.            *)
Decide(c) ==
  /\ chain[c] = "asleep"
  /\ chain' = [chain EXCEPT ![c] = IF ~term /\ enabled THEN "queued" ELSE "ending"]
  /\ UNCHANGED <<host, term, enabled, running, serverVars, subVars, node, clientVars, netVars>>

(* Mutant: the subscriptions stay for the next server.                      *)
EndKeepsSubs(c) ==
  /\ chain[c] = "ending" /\ chain' = [chain EXCEPT ![c] = "none"]
  /\ running' = FALSE
  /\ UNCHANGED <<host, term, enabled, serverVars, subVars, node, clientVars, netVars>>

(* The subscriptions are cleared under net_subs_mtp_.                       *)
End(c) ==
  /\ chain[c] = "ending" /\ chain' = [chain EXCEPT ![c] = "none"]
  /\ running' = FALSE
  /\ sub' = [p \in Ports |-> NotSub] /\ late' = {}
  /\ UNCHANGED <<host, term, enabled, serverVars, node, clientVars, netVars>>

-----------------------------------------------------------------------------
(* The UDP server: worker and process_input.                                *)

(* Mutant: a subscription that is there is only kept alive.                 *)
SubscribeOnce(p) ==
  IF enabled
  THEN /\ sub' = [sub EXCEPT ![p] = IF @ = NotSub THEN NotSent ELSE @]
       /\ late' = late \ {p}
  ELSE UNCHANGED subVars

(* pp_subscribe, while enabled: the value sent last is forgotten.           *)
Subscribe(p) ==
  IF enabled
  THEN /\ sub' = [sub EXCEPT ![p] = NotSent]
       /\ late' = late \ {p}
  ELSE UNCHANGED subVars

(* A "close" removes the connection, and leaves the subscription to time.   *)
Receive(m) ==
  /\ server /\ m \in reqs
  /\ reqs' = reqs \ {m}
  /\ IF m.kind = "sub"
     THEN conns' = conns \cup {m.port} /\ Subscribe(m.port)
     ELSE conns' = conns \ {m.port} /\ UNCHANGED subVars
  /\ UNCHANGED <<host, chainVars, server, node, clientVars, pubs>>

-----------------------------------------------------------------------------
(* The subscribing process.                                                 *)

(* While a chain goes on a pass comes every millisecond: no period ends     *)
(* between a subscription and the pass after it.                            *)
Served ==
  host = "up" /\ (\E c \in Chains : chain[c] \in {"queued", "asleep"}) =>
    \A p \in Ports : sub[p] # NotSent

Ask(p) == [kind |-> "sub", port |-> p]
Bye(p) == [kind |-> "close", port |-> p]

(* Mutant: a client object that was never there says "close" as well.       *)
RenewAlwaysBye ==
  /\ port' \in Ports \ {port}
  /\ pubs' = {}
  /\ reqs' \in Sends(reqs, {Ask(port'), Bye(port)})

(* The client object is replaced; the old one says "close" when it goes.    *)
Renew ==
  /\ port' \in Ports \ {port}
  /\ pubs' = {}
  /\ reqs' \in Sends(reqs, {Ask(port')} \cup {Bye(p) : p \in {port} \ {NoPort}})

Keep ==
  /\ port # NoPort /\ heard
  /\ reqs' \in Sends(reqs, {Ask(port)})
  /\ UNCHANGED <<port, pubs>>

(* ext_cells_processor_, every five seconds: a client object that has heard *)
(* nothing in that time is replaced, one that has may be (its silence is    *)
(* about as long as the period), and the subscription is sent again.        *)
Round ==
  /\ Served
  /\ Renew \/ Keep
  /\ heard' = FALSE
  /\ late' = Subscribed \cap {port'}
  /\ UNCHANGED <<host, chainVars, serverVars, sub, node, cell>>

ClientCrash ==
  /\ "leave" \in case.events /\ port # NoPort
  /\ port' = NoPort /\ heard' = FALSE /\ cell' = Undef /\ pubs' = {}
  /\ late' = {}
  /\ UNCHANGED <<host, chainVars, serverVars, sub, node, reqs>>

(* The client's worker and its on_data_arrived job.                         *)
Arrive(v) ==
  /\ v \in pubs
  /\ pubs' = pubs \ {v}
  /\ cell' = v
  /\ heard' = TRUE
  /\ UNCHANGED <<host, chainVars, serverVars, subVars, node, port, reqs>>

-----------------------------------------------------------------------------
(* The network: a request for a server that is not there.                   *)
Undeliverable ==
  /\ ~server
  /\ \E m \in reqs : reqs' = reqs \ {m}
  /\ UNCHANGED <<host, chainVars, serverVars, subVars, node, clientVars, pubs>>

Next ==
  \/ StartSubs \/ StartServer \/ StopSubs \/ StopWait \/ StopServer
  \/ Terminate \/ RunMt \/ Crash \/ Compute
  \/ \E c \in Chains : Pass(c) \/ PassWithoutServer(c) \/ Decide(c) \/ End(c)
  \/ \E m \in reqs : Receive(m)
  \/ Round \/ ClientCrash \/ \E v \in pubs : Arrive(v)
  \/ Undeliverable

Spec == Init /\ [][Next /\ UNCHANGED case]_<<vars, case>>

(* Jobs go on, rounds come and not every request is lost; the host's calls  *)
(* need not return.  Again and again a round's request is received, the     *)
(* connection lasts until the next pass, whose answer gets through before   *)
(* the next round; not always.  And time passes: who is silent is given up. *)
RoundKept == Round /\ Ask(port') \in reqs'
HeardKept == port # NoPort /\ Receive(Ask(port))
Asking    == port \in conns /\ sub[port] = NotSent
NextKept  == Asking /\ \E c \in Chains : Decide(c)
PassKept  == Asking /\ (\E c \in Chains : Pass(c)) /\ node \in pubs'
PassWithout(p) ==
  p # port /\ \E c \in Chains, dropped \in SUBSET Ports : p \in dropped /\ PassDropping(c, dropped)

Fairness ==
  /\ \A c \in Chains : WF_vars(Pass(c) \/ PassWithoutServer(c) \/ Decide(c) \/ End(c))
  /\ WF_vars(\E m \in reqs : Receive(m))
  /\ WF_vars(\E v \in pubs : Arrive(v)) /\ SF_vars(Arrive(node))
  /\ WF_vars(RoundKept) /\ SF_vars(HeardKept)
  /\ SF_vars(NextKept) /\ SF_vars(PassKept)
  /\ \A p \in Ports : SF_vars(PassWithout(p))

FairSpec == Spec /\ Fairness

-----------------------------------------------------------------------------
TypeOK ==
  /\ case \in Cases
  /\ term \in BOOLEAN /\ enabled \in BOOLEAN /\ running \in BOOLEAN
  /\ chain \in [Chains -> ChainStates]
  /\ host \in {"down", "starting", "up", "waiting", "closing"}
  /\ server \in BOOLEAN
  /\ reqs \subseteq Requests /\ pubs \subseteq NodeValues
  /\ conns \subseteq Ports
  /\ sub \in [Ports -> NodeValues \cup {NotSent, NotSub}]
  /\ late \subseteq Ports
  /\ node \in NodeValues /\ cell \in NodeValues
  /\ port \in Ports \cup {NoPort} /\ heard \in BOOLEAN

(* "After that, changes on the remote server are reflected on the client":  *)
(* however many datagrams are lost or late, servers restarted and client    *)
(* objects replaced, once the node stays at a value, both processes stay up *)
(* and the publishing chain alive, the external cell gets that value for    *)
(* good.                                                                    *)
Publishing == host = "up" /\ ~term /\ \E c \in Chains : chain[c] # "none"

Reflected ==
  \A v \in Values :
    <>[](Publishing /\ port # NoPort /\ node = v) => <>[](cell = v)

(* A subscriber that has gone is forgotten while the server goes on         *)
(* publishing, whether or not its "close" arrives and its late requests     *)
(* come after it.                                                           *)
GoneAreForgotten ==
  \A p \in Ports :
    <>[](Publishing /\ port # p) => <>[](sub[p] = NotSub)
=============================================================================
