---------------------------- MODULE PacketsTurns ----------------------------
(***************************************************************************)
(* PacketsMux with a history of turns: how often each message has been     *)
(* served since another one was last.                                      *)
(***************************************************************************)
EXTENDS PacketsMux

VARIABLE overtaken

turnVars == <<vars, overtaken>>

NoTurns == [n \in Messages |-> 0]

TurnInit == Init /\ overtaken = [m \in Messages |-> NoTurns]

(* Message m waited in the muxer before and after the step, and did not get *)
(* the turn.                                                                *)
Waited(m) == m \in pending /\ m \in pending' /\ pos'[m] = pos[m]

TurnNext ==
  /\ Next
  /\ overtaken' =
       [m \in Messages |->
         IF Waited(m)
         THEN [n \in Messages |-> overtaken[m][n] + (IF pos'[n] > pos[n] THEN 1 ELSE 0)]
         ELSE NoTurns]

TurnSpec == TurnInit /\ [][TurnNext]_turnVars

(* No message holds up another: each other message is served at most once   *)
(* while one waits for its turn, however long they are.                     *)
NoHeadOfLine == \A m, n \in Messages : overtaken[m][n] <= 1
=============================================================================
