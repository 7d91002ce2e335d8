----------------------------- MODULE ExternStops -----------------------------
(***************************************************************************)
(* ExternValues with a history variable: what the last stop_net_server     *)
(* found.  It reads and constrains nothing of the program; it only says    *)
(* for which sequences of host calls a pass has its server.                *)
(***************************************************************************)
EXTENDS ExternValues

VARIABLE waited   (* no stop since the server was last started has found a   *)
                  (* subscriber and no chain running                         *)

stopVars == <<vars, case, waited>>

Found == running \/ Subscribed = {}

InitStops == Init /\ waited = TRUE

Stopping == StopSubs /\ waited' = Found

Starting == StartServer /\ waited' = TRUE

Dying == (Crash \/ \E c \in Chains : PassWithoutServer(c)) /\ waited' = TRUE

Going ==
  /\ \/ StartSubs \/ StopWait \/ StopServer
     \/ Terminate \/ RunMt \/ Compute
     \/ \E c \in Chains : Pass(c) \/ Decide(c) \/ End(c)
     \/ \E m \in reqs : Receive(m)
     \/ Round \/ ClientCrash \/ \E v \in pubs : Arrive(v)
     \/ Undeliverable
  /\ UNCHANGED waited

NextStops == Starting \/ Stopping \/ Dying \/ Going

SpecStops == InitStops /\ [][NextStops /\ UNCHANGED case]_stopVars

FairSpecStops == SpecStops /\ Fairness

(* pp_subs_functor_ takes no lock of ppserver_, and needs it for every      *)
(* subscriber.  As long as each stop_net_server has found the chain running *)
(* or nobody subscribed there is no subscriber without a server: however    *)
(* many chains the starts have left, whichever of them ends first and       *)
(* clears running_, whenever the runtime is terminated and run again.       *)
(* After a stop that found a subscriber and no chain running this is not so *)
(* (PassWithoutServer), until the process ends or a later stop does.        *)
SenderHasServer == waited /\ Subscribed # {} => server
=============================================================================
