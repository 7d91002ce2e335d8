----------------------------- MODULE SharedLock -----------------------------
(***************************************************************************)
(* What a readers-writer lock promises: one writer alone, or any number of *)
(* readers.  The lock of a value box and the spin mutex implement it.      *)
(***************************************************************************)
CONSTANT Threads

VARIABLE held   (* what every thread holds: "none", "read" or "write"       *)

vars == <<held>>

Readers == {t \in Threads : held[t] = "read"}
Writers == {t \in Threads : held[t] = "write"}

Init == held = [t \in Threads |-> "none"]

AcquireShared(t) ==
  /\ held[t] = "none"
  /\ Writers = {}
  /\ held' = [held EXCEPT ![t] = "read"]

Acquire(t) ==
  /\ held[t] = "none"
  /\ Writers = {} /\ Readers = {}
  /\ held' = [held EXCEPT ![t] = "write"]

Upgrade(t) ==
  /\ Readers = {t}
  /\ held' = [held EXCEPT ![t] = "write"]

Downgrade(t) ==
  /\ held[t] = "write"
  /\ held' = [held EXCEPT ![t] = "read"]

Release(t) ==
  /\ held[t] # "none"
  /\ held' = [held EXCEPT ![t] = "none"]

Next ==
  \E t \in Threads :
    AcquireShared(t) \/ Acquire(t) \/ Upgrade(t) \/ Downgrade(t) \/ Release(t)

Spec == Init /\ [][Next]_vars
=============================================================================
