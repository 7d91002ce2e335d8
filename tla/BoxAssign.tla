----------------------------- MODULE BoxAssign -----------------------------
(***************************************************************************)
(* Assignment to values that several threads may share: the assignment     *)
(* operator (valbox::assign) and the assignment that keeps the             *)
(* destination's type (valbox::assign_preserving_type, behind the script's *)
(* assign(), casts and assignments through pointers).  Both write under    *)
(* the lock of the value's box.  A lock is seen as RWSpinMutex proves it   *)
(* to be: who holds it.                                                    *)
(***************************************************************************)
CONSTANTS
  Threads,  (* pool threads executing nodes                                  *)
  NoThread, (* the holder of a free lock                                     *)
  Vals,     (* the values (valbox objects) they assign                       *)
  Boxes,    (* bound: the boxes there can be                                 *)
  NoBox     (* a valbox without a box                                        *)

VARIABLES
  box,      (* box_ of every value                                           *)
  defined,  (* the boxes whose type_ is not UNDEFINED                        *)
  holder,   (* who holds a box's lock                                        *)
  job,      (* the assignment a thread is in                                 *)
  error     (* an unlock threw "locking counting error"                      *)

vars == <<box, defined, holder, job, error>>

Holders == {b \in Boxes : holder[b] # NoThread}
Unused  == Boxes \ ({box[v] : v \in Vals} \cup Holders)

IsDefined(v) == box[v] # NoBox /\ box[v] \in defined

(* A new box with a copy of a defined value.                                *)
Rebind(v) ==
  \E b \in Unused : box' = [box EXCEPT ![v] = b] /\ defined' = defined \cup {b}

Init ==
  /\ box \in [Vals -> Boxes \cup {NoBox}]
  /\ defined \in SUBSET {box[v] : v \in Vals}
  /\ holder = [b \in Boxes |-> NoThread]
  /\ \E v \in Vals :
       job = [t \in Threads |-> [at |-> "idle", dst |-> v, src |-> v, locked |-> FALSE, given |-> FALSE]]
  /\ error = FALSE

LockBox(t, v) ==
  /\ holder[box[v]] = NoThread
  /\ holder' = [holder EXCEPT ![box[v]] = t]

(* Nothing for one box on both sides, nor for an undefined source and a     *)
(* destination without a box; a new box for a defined source where there is *)
(* none; else the destination is written under its lock.                    *)
Assign(t) ==
  /\ job[t].at = "idle" /\ ~error
  /\ \E d, s \in Vals :
       \/ /\ box[d] = NoBox /\ IsDefined(s)
          /\ Rebind(d)
          /\ UNCHANGED <<holder, job>>
       \/ /\ box[d] \notin {NoBox, box[s]}
          /\ LockBox(t, d)
          /\ job' = [job EXCEPT ![t] = [at |-> "copy", dst |-> d, src |-> s, locked |-> TRUE,
                                        given |-> IsDefined(s)]]
          /\ UNCHANGED <<box, defined>>
  /\ UNCHANGED error

(* A source found undefined undefines the destination; another is copied    *)
(* with the type it has by now.                                             *)
Copy(t) ==
  /\ job[t].at = "copy"
  /\ defined' = IF job[t].given /\ IsDefined(job[t].src)
                THEN defined \cup {box[job[t].dst]} ELSE defined \ {box[job[t].dst]}
  /\ job' = [job EXCEPT ![t].at = "unlock"]
  /\ UNCHANGED <<box, holder, error>>

(* The box is locked where there is one; only then the types are looked at. *)
AssignPreserving(t) ==
  /\ job[t].at = "idle" /\ ~error
  /\ \E d, s \in Vals :
       /\ job' = [job EXCEPT ![t] = [at |-> "convert", dst |-> d, src |-> s, locked |-> box[d] # NoBox,
                                     given |-> ~IsDefined(d) /\ IsDefined(s)]]
       /\ IF box[d] # NoBox THEN LockBox(t, d) ELSE UNCHANGED holder
  /\ UNCHANGED <<box, defined, error>>

(* A destination of some type is converted to in place (or the conversion   *)
(* throws); an undefined one is replaced by a clone, with a new box.        *)
Convert(t) ==
  /\ job[t].at = "convert"
  /\ IF job[t].given THEN Rebind(job[t].dst) ELSE UNCHANGED <<box, defined>>
  /\ job' = [job EXCEPT ![t].at = IF job[t].locked THEN "unlock" ELSE "idle"]
  /\ UNCHANGED <<holder, error>>

(* The scope guard unlocks the box the value refers to by now.              *)
Unlock(t) ==
  /\ job[t].at = "unlock"
  /\ error' = (holder[box[job[t].dst]] = NoThread)
  /\ holder' = [holder EXCEPT ![box[job[t].dst]] = NoThread]
  /\ job' = [job EXCEPT ![t].at = "idle"]
  /\ UNCHANGED <<box, defined>>

(* become_undefined(), without the lock: `x = undefined` and the like.      *)
Undefine(t) ==
  /\ job[t].at = "idle" /\ ~error
  /\ \E v \in Vals : IsDefined(v) /\ defined' = defined \ {box[v]}
  /\ UNCHANGED <<box, holder, job, error>>

Next ==
  \E t \in Threads :
    \/ Assign(t) \/ Copy(t) \/ AssignPreserving(t) \/ Convert(t) \/ Unlock(t) \/ Undefine(t)

Spec == Init /\ [][Next]_vars

-----------------------------------------------------------------------------
(* The unlocking function throws "locking counting error" when the lock is  *)
(* not held (tealscript_value.hpp:213); thrown from a scope guard it ends   *)
(* the process.  Assignments never come to that.                            *)
NoCountingError == ~error
=============================================================================
