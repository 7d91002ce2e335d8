----------------------------- MODULE WorkerPool -----------------------------
(***************************************************************************)
(* The pool of worker threads behind command_queue: callers and running    *)
(* jobs enqueue jobs, workers take and run them, a control thread kills    *)
(* and spawns workers by load, and the owner destroys the pool.            *)
(*                                                                         *)
(* Every check of a counter and the action taken on it are separate steps. *)
(* The two concurrent queues (normal and urgent) are one set of jobs: they *)
(* promise an order only among the jobs of one thread.  The load averages  *)
(* are data: a comparison with one may come out either way.                *)
(***************************************************************************)
EXTENDS Integers, Sequences, FiniteSets

CONSTANTS
  Callers,     (* threads outside the pool                                   *)
  Workers,     (* bound: worker threads alive at one time                    *)
  Jobs,
  First,       (* the jobs callers enqueue, once each                        *)
  Follow,      (* the job a job enqueues when it runs, or NoJob              *)
  NoJob,
  NoWorker,
  MaxWorkers,  (* max_workers_                                               *)
  MinWorkers   (* min_workers_                                               *)

ASSUME PoolAssumption ==
  /\ Callers \cap Workers = {}
  /\ NoJob \notin Jobs
  /\ NoWorker \notin Workers
  /\ First \subseteq Jobs
  /\ Follow \in [Jobs -> Jobs \cup {NoJob}]
  /\ MinWorkers \in Nat
  /\ MaxWorkers \in Nat \ {0}
  /\ MinWorkers <= MaxWorkers

Agents == Callers \cup Workers

VARIABLES
  term,    (* termination_requested_ of the pool                             *)
  queue,   (* jobs waiting in hp_q_ and lp_q_                                *)
  fresh,   (* jobs the callers have not enqueued yet                         *)
  list,    (* workers_; num_workers_ is its length                           *)
  born,    (* the worker whose thread runs and which is not in the list yet  *)
  wpc,     (* where a worker thread is                                       *)
  told,    (* workers whose own termination flag is up                       *)
  job,     (* the job a worker runs                                          *)
  epc,     (* where a thread is in enqueue                                   *)
  ejob,    (* the job it enqueues                                            *)
  ctl,     (* where the control thread is                                    *)
  victim,  (* the worker it kills                                            *)
  owner    (* where the destructor is                                        *)

queueVars  == <<queue, fresh>>
workerVars == <<list, born, wpc, told, job>>
callVars   == <<epc, ejob>>
ctlVars    == <<ctl, victim>>
vars       == <<term, queueVars, workerVars, callVars, ctlVars, owner>>

WorkerPCs == {"none", "loop", "take", "empty", "waiting", "retake", "busy",
              "calling", "gone"}

Init ==
  /\ term = FALSE /\ queue = {} /\ fresh = First
  /\ list = <<>> /\ born = NoWorker /\ told = {}
  /\ wpc = [w \in Workers |-> "none"]
  /\ job = [w \in Workers |-> NoJob]
  /\ epc = [a \in Agents |-> "out"]
  /\ ejob = [a \in Agents |-> NoJob]
  /\ ctl = "top" /\ victim = NoWorker
  /\ owner = "alive"

(* workers_mtp_ is held while a worker is made, and by the destructor while *)
(* it joins the workers.                                                    *)
ListFree == owner \notin {"pop", "joining"} /\ born = NoWorker

(* create_worker, with workers_mtp_ held: the thread starts in the          *)
(* constructor of worker_thread and goes on like any other; only then the   *)
(* list grows.                                                              *)
StartThread ==
  /\ ListFree
  /\ \E w \in Workers :
       /\ wpc[w] = "none"
       /\ wpc' = [wpc EXCEPT ![w] = "loop"]
       /\ born' = w

ListWorker ==
  /\ list' = Append(list, born)
  /\ born' = NoWorker

(* The thread behind a worker_thread has been joined; the object goes.      *)
Joined(w) ==
  /\ wpc[w] = "gone"
  /\ wpc' = [wpc EXCEPT ![w] = "none"]
  /\ told' = told \ {w}

(* notify_one: a notification nobody waits for is lost.                     *)
NotifyOne ==
  \/ /\ \A w \in Workers : wpc[w] # "waiting"
     /\ UNCHANGED wpc
  \/ \E w \in Workers : wpc[w] = "waiting" /\ wpc' = [wpc EXCEPT ![w] = "retake"]

NotifyAll == wpc' = [w \in Workers |-> IF wpc[w] = "waiting" THEN "retake" ELSE wpc[w]]

-----------------------------------------------------------------------------
(* enqueue, called by a caller or by the job a worker runs.                 *)

Submit(c) ==
  /\ owner = "alive"
  /\ epc[c] = "out"
  /\ \E j \in fresh :
       /\ fresh' = fresh \ {j}
       /\ ejob' = [ejob EXCEPT ![c] = j]
  /\ epc' = [epc EXCEPT ![c] = "push"]
  /\ UNCHANGED <<term, queue, workerVars, ctlVars, owner>>

(* A job's enqueue, refused once termination is requested.                  *)
Resubmit(w) ==
  /\ wpc[w] = "busy"
  /\ Follow[job[w]] # NoJob
  /\ wpc' = [wpc EXCEPT ![w] = "calling"]
  /\ IF term
     THEN UNCHANGED callVars
     ELSE /\ epc' = [epc EXCEPT ![w] = "push"]
          /\ ejob' = [ejob EXCEPT ![w] = Follow[job[w]]]
  /\ UNCHANGED <<term, queueVars, list, born, told, job, ctlVars, owner>>

(* Mutant: the item is moved from before it is pushed.                      *)
PushMovedFrom(a) ==
  /\ epc[a] = "push"
  /\ ejob' = [ejob EXCEPT ![a] = NoJob]
  /\ queue' = queue \cup {ejob'[a]}
  /\ epc' = [epc EXCEPT ![a] = "notify"]
  /\ UNCHANGED <<term, fresh, workerVars, ctlVars, owner>>

Push(a) ==
  /\ epc[a] = "push"
  /\ queue' = queue \cup {ejob[a]}
  /\ ejob' = [ejob EXCEPT ![a] = NoJob]
  /\ epc' = [epc EXCEPT ![a] = "notify"]
  /\ UNCHANGED <<term, fresh, workerVars, ctlVars, owner>>

Notify(a) ==
  /\ epc[a] = "notify"
  /\ NotifyOne
  /\ epc' = [epc EXCEPT ![a] = "look"]
  /\ UNCHANGED <<term, queueVars, list, born, told, job, ejob, ctlVars, owner>>

Look(a) ==
  /\ epc[a] = "look"
  /\ epc' = [epc EXCEPT ![a] = IF Len(list) = 0 THEN "create" ELSE "out"]
  /\ UNCHANGED <<term, queueVars, workerVars, ejob, ctlVars, owner>>

Create(a) ==
  /\ epc[a] = "create"
  /\ StartThread
  /\ epc' = [epc EXCEPT ![a] = "listing"]
  /\ UNCHANGED <<term, queueVars, list, told, job, ejob, ctlVars, owner>>

Created(a) ==
  /\ epc[a] = "listing"
  /\ ListWorker
  /\ epc' = [epc EXCEPT ![a] = "out"]
  /\ UNCHANGED <<term, queueVars, wpc, told, job, ejob, ctlVars, owner>>

Enqueue(a) == Push(a) \/ Notify(a) \/ Look(a) \/ Create(a) \/ Created(a)

-----------------------------------------------------------------------------
(* A worker thread.                                                         *)

Loop(w) ==
  /\ wpc[w] = "loop"
  /\ wpc' = [wpc EXCEPT ![w] = IF w \in told \/ term THEN "gone" ELSE "take"]
  /\ UNCHANGED <<term, queueVars, list, born, told, job, callVars, ctlVars, owner>>

Take(w) ==
  /\ wpc[w] = "take" \/ (wpc[w] = "retake" /\ ~term)
  /\ \E j \in queue :
       /\ queue' = queue \ {j}
       /\ job' = [job EXCEPT ![w] = j]
  /\ wpc' = [wpc EXCEPT ![w] = "busy"]
  /\ UNCHANGED <<term, fresh, list, born, told, callVars, ctlVars, owner>>

TakeNothing(w) ==
  /\ \/ /\ wpc[w] = "take" /\ queue = {}
        /\ wpc' = [wpc EXCEPT ![w] = "empty"]
     \/ /\ wpc[w] = "retake" /\ (term \/ queue = {})
        /\ wpc' = [wpc EXCEPT ![w] = "loop"]
  /\ UNCHANGED <<term, queueVars, list, born, told, job, callVars, ctlVars, owner>>

(* wait_for without a predicate: what was notified before is missed.        *)
WaitFor(w) ==
  /\ wpc[w] = "empty"
  /\ wpc' = [wpc EXCEPT ![w] = "waiting"]
  /\ UNCHANGED <<term, queueVars, list, born, told, job, callVars, ctlVars, owner>>

(* Mutant: wait instead of wait_for, spurious wake-ups aside.               *)
WaitNoTimeout(w) == FALSE /\ UNCHANGED vars

TimeOut(w) ==
  /\ wpc[w] = "waiting"
  /\ wpc' = [wpc EXCEPT ![w] = "retake"]
  /\ UNCHANGED <<term, queueVars, list, born, told, job, callVars, ctlVars, owner>>

(* serve_queue_item returns, also when the job throws.                      *)
Served(w) ==
  /\ \/ wpc[w] = "busy" /\ Follow[job[w]] = NoJob
     \/ wpc[w] = "calling" /\ epc[w] = "out"
  /\ wpc' = [wpc EXCEPT ![w] = "loop"]
  /\ job' = [job EXCEPT ![w] = NoJob]
  /\ UNCHANGED <<term, queueVars, list, born, told, callVars, ctlVars, owner>>

Work(w) ==
  \/ Loop(w) \/ Take(w) \/ TakeNothing(w) \/ WaitFor(w) \/ TimeOut(w)
  \/ Resubmit(w) \/ Served(w)

-----------------------------------------------------------------------------
(* The control thread.                                                      *)

(* Mutants: the last worker may go while jobs wait; no limit from above.    *)
KillDespiteJobs(low) ==
  /\ Len(list) > 0
  /\ \/ Len(list) > MaxWorkers
     \/ term
     \/ Len(list) > MinWorkers /\ low

KillOnlyIdle(low) ==
  /\ Len(list) > 0
  /\ \/ term
     \/ /\ Len(list) > MinWorkers /\ low
        /\ ~(Len(list) = 1 /\ queue # {})

NeedToKill(low) ==
  /\ Len(list) > 0
  /\ \/ Len(list) > MaxWorkers
     \/ term
     \/ /\ Len(list) > MinWorkers /\ low
        /\ ~(Len(list) = 1 /\ queue # {})

(* min(3 sqrt(n), n), rounded down.                                         *)
WorkersNeeded(n) == CHOOSE k \in 0 .. n :
  k * k <= 9 * n /\ (k = n \/ (k + 1) * (k + 1) > 9 * n)

NeedToSpawn(high) ==
  /\ ~term
  /\ \/ Len(list) < MinWorkers
     \/ /\ Len(list) < MaxWorkers
        /\ \/ Len(list) = 0 /\ queue # {}
           \/ Len(list) < WorkersNeeded(Cardinality(queue))
           \/ high

CtlLoop ==
  /\ ctl = "top"
  /\ ctl' = IF term THEN "done" ELSE "load"
  /\ UNCHANGED <<term, queueVars, workerVars, callVars, victim, owner>>

CtlKillCheck ==
  /\ ctl = "load"
  /\ \E low \in BOOLEAN : ctl' = IF NeedToKill(low) THEN "kill" ELSE "check"
  /\ UNCHANGED <<term, queueVars, workerVars, callVars, victim, owner>>

CtlSpawnCheck ==
  /\ ctl = "check"
  /\ \E high \in BOOLEAN : ctl' = IF NeedToSpawn(high) THEN "spawn" ELSE "top"
  /\ UNCHANGED <<term, queueVars, workerVars, callVars, victim, owner>>

CtlKill ==
  /\ ctl = "kill"
  /\ ListFree
  /\ IF list = <<>>
     THEN ctl' = "top" /\ UNCHANGED <<list, told, victim>>
     ELSE /\ victim' = Head(list)
          /\ list' = Tail(list)
          /\ told' = told \cup {Head(list)}
          /\ ctl' = "notify"
  /\ UNCHANGED <<term, queueVars, born, wpc, job, callVars, owner>>

CtlNotify ==
  /\ ctl = "notify"
  /\ NotifyAll
  /\ ctl' = "join"
  /\ UNCHANGED <<term, queueVars, list, born, told, job, callVars, victim, owner>>

(* Mutant: the killed thread is let go.                                     *)
CtlDetach ==
  /\ ctl = "join"
  /\ victim' = NoWorker
  /\ ctl' = "top"
  /\ UNCHANGED <<term, queueVars, workerVars, callVars, owner>>

CtlJoin ==
  /\ ctl = "join"
  /\ Joined(victim)
  /\ victim' = NoWorker
  /\ ctl' = "top"
  /\ UNCHANGED <<term, queueVars, list, born, job, callVars, owner>>

CtlSpawn ==
  /\ ctl = "spawn"
  /\ StartThread
  /\ ctl' = "listing"
  /\ UNCHANGED <<term, queueVars, list, told, job, callVars, victim, owner>>

CtlSpawned ==
  /\ ctl = "listing"
  /\ ListWorker
  /\ ctl' = "top"
  /\ UNCHANGED <<term, queueVars, wpc, told, job, callVars, victim, owner>>

Ctl ==
  \/ CtlLoop \/ CtlKillCheck \/ CtlSpawnCheck \/ CtlKill \/ CtlNotify \/ CtlJoin
  \/ CtlSpawn \/ CtlSpawned

-----------------------------------------------------------------------------
(* The destructor; no thread outside the pool may still be in a call.       *)

Terminate ==
  /\ owner = "alive"
  /\ \A c \in Callers : epc[c] = "out"
  /\ term' = TRUE
  /\ owner' = "drain"
  /\ UNCHANGED <<queueVars, workerVars, callVars, ctlVars>>

Drain ==
  /\ owner = "drain"
  /\ queue' = {}
  /\ owner' = "notify"
  /\ UNCHANGED <<term, fresh, workerVars, callVars, ctlVars>>

WakeAll ==
  /\ owner = "notify"
  /\ NotifyAll
  /\ owner' = "wait"
  /\ UNCHANGED <<term, queueVars, list, born, told, job, callVars, ctlVars>>

(* Mutant: the control thread is not waited for.                            *)
WaitSkipped ==
  /\ owner = "wait"
  /\ owner' = "pop"
  /\ UNCHANGED <<term, queueVars, workerVars, callVars, ctlVars>>

(* The control thread has ended; then the list is locked to the end.        *)
Wait ==
  /\ owner = "wait"
  /\ ctl = "done" /\ ListFree
  /\ owner' = "pop"
  /\ UNCHANGED <<term, queueVars, workerVars, callVars, ctlVars>>

PopWorker ==
  /\ owner = "pop"
  /\ IF list = <<>>
     THEN owner' = "dead" /\ UNCHANGED told
     ELSE owner' = "joining" /\ told' = told \cup {Head(list)}
  /\ UNCHANGED <<term, queueVars, list, born, wpc, job, callVars, ctlVars>>

JoinPopped ==
  /\ owner = "joining"
  /\ Joined(Head(list))
  /\ list' = Tail(list)
  /\ owner' = "pop"
  /\ UNCHANGED <<term, queueVars, born, job, callVars, ctlVars>>

Destroy == Drain \/ WakeAll \/ Wait \/ PopWorker \/ JoinPopped

-----------------------------------------------------------------------------
Next ==
  \/ Terminate \/ Destroy \/ Ctl
  \/ \E c \in Callers : Submit(c)
  \/ \E a \in Agents : Enqueue(a)
  \/ \E w \in Workers : Work(w)

Spec == Init /\ [][Next]_vars

(* Every thread is scheduled, jobs end, and a wait times out.  Nobody has   *)
(* to submit a job or to destroy the pool.                                  *)
Fairness ==
  /\ WF_vars(Destroy) /\ WF_vars(Ctl)
  /\ \A a \in Agents : WF_vars(Enqueue(a))
  /\ \A w \in Workers : WF_vars(Work(w))

FairSpec == Spec /\ Fairness

-----------------------------------------------------------------------------
TypeOK ==
  /\ term \in BOOLEAN
  /\ queue \subseteq Jobs /\ fresh \subseteq Jobs
  /\ list \in Seq(Workers) /\ born \in Workers \cup {NoWorker}
  /\ wpc \in [Workers -> WorkerPCs]
  /\ told \subseteq Workers
  /\ job \in [Workers -> Jobs \cup {NoJob}]
  /\ epc \in [Agents -> {"out", "push", "notify", "look", "create", "listing"}]
  /\ ejob \in [Agents -> Jobs \cup {NoJob}]
  /\ ctl \in {"top", "load", "check", "kill", "notify", "join", "spawn", "listing", "done"}
  /\ victim \in Workers \cup {NoWorker}
  /\ owner \in {"alive", "drain", "notify", "wait", "pop", "joining", "dead"}

Listed == {list[i] : i \in 1 .. Len(list)}
Alive  == {w \in Workers : wpc[w] # "none"}

(* Every live worker thread will be joined: it is in the list, once, or    *)
(* about to be put there, or the control thread is killing it.              *)
Accounted ==
  /\ Alive = Listed \cup ({born, victim} \ {NoWorker})
  /\ {born, victim} \cap Listed = {}
  /\ born = victim => born = NoWorker
  /\ \A i, k \in 1 .. Len(list) : list[i] = list[k] => i = k

(* When the destructor has returned no thread of the pool is left, neither  *)
(* a worker spawned or killed meanwhile nor a job still in enqueue.         *)
NothingLeft ==
  owner = "dead" => /\ Alive = {} /\ ctl = "done"
                    /\ \A a \in Agents : epc[a] = "out"

(* An accepted job is taken from the queue unless the pool is destroyed,    *)
(* whatever the control thread kills, and although wake-ups are lost (jobs  *)
(* end and enqueue finitely many others).                                   *)
JobsServed == \A j \in Jobs : j \in queue ~> (j \notin queue \/ term)

(* The destructor joins, with the list locked, a worker whose job waits for *)
(* the lock to create one more: a job that began before its own worker was  *)
(* counted found none.                                                      *)
Entangled == owner = "joining" /\ epc[Head(list)] = "create"

(* The destructor returns, also with jobs running and enqueueing, unless it *)
(* meets that worker; nothing else keeps it.                                *)
DestroyReturns == owner = "drain" ~> (owner = "dead" \/ Entangled)

(* enqueue may create workers beyond max_workers_ (two callers that see     *)
(* none); the surplus goes again.                                           *)
SurplusGoes == Len(list) > MaxWorkers ~> (Len(list) <= MaxWorkers \/ term)
=============================================================================
