-------------------------- MODULE WorkerPoolProofs --------------------------
(***************************************************************************)
(* No worker thread is lost and none is left, for every number of callers, *)
(* workers and jobs and every load.                                        *)
(***************************************************************************)
EXTENDS WorkerPool, SequenceTheorems, TLAPS

(* A running worker has a job, an enqueue an item.                          *)
HasJob ==
  /\ \A w \in Workers : wpc[w] = "busy" => job[w] \in Jobs
  /\ \A a \in Agents : epc[a] = "push" => ejob[a] \in Jobs

(* Only running jobs, and callers while the pool lives, are in enqueue.     *)
InCall ==
  /\ \A w \in Workers : epc[w] # "out" => wpc[w] = "calling"
  /\ \A c \in Callers : epc[c] # "out" => owner = "alive"

(* The control thread has a victim from the list to the join.               *)
HasVictim == victim # NoWorker <=> ctl \in {"notify", "join"}

(* A worker is in the making exactly while one thread holds the list for it. *)
HasBorn ==
  /\ born # NoWorker <=> (ctl = "listing" \/ \E a \in Agents : epc[a] = "listing")
  /\ ctl = "listing" => \A a \in Agents : epc[a] # "listing"
  /\ \A a, b \in Agents : epc[a] = "listing" /\ epc[b] = "listing" => a = b

(* The destructor touches the list only when the control thread has ended   *)
(* and no worker is in the making.                                          *)
OwnsList ==
  /\ owner \in {"pop", "joining", "dead"} => ctl = "done" /\ born = NoWorker
  /\ owner = "joining" => list # <<>>
  /\ owner = "dead" => list = <<>>

IInv == TypeOK /\ HasJob /\ InCall /\ HasVictim /\ HasBorn /\ OwnsList /\ Accounted

-----------------------------------------------------------------------------
Elems(l) == {l[i] : i \in 1 .. Len(l)}
Once(l)  == \A i, k \in 1 .. Len(l) : l[i] = l[k] => i = k

(* A worker put at the end of a list of others.                             *)
LEMMA AppendWorker ==
  ASSUME NEW l \in Seq(Workers), NEW w \in Workers, w \notin Elems(l), Once(l)
  PROVE  /\ Append(l, w) \in Seq(Workers)
         /\ Elems(Append(l, w)) = Elems(l) \cup {w}
         /\ Once(Append(l, w))
  <1>1. Len(l) \in Nat /\ l \in [1 .. Len(l) -> Workers]
    BY LenProperties
  <1>2. /\ Append(l, w) \in Seq(Workers)
        /\ Len(Append(l, w)) = Len(l) + 1
        /\ \A i \in 1 .. Len(l) : Append(l, w)[i] = l[i]
        /\ Append(l, w)[Len(l) + 1] = w
    BY AppendProperties
  <1>. DEFINE m == Append(l, w)
  <1>. HIDE DEF m
  <1>3. /\ m \in Seq(Workers) /\ Len(m) = Len(l) + 1
        /\ \A i \in 1 .. Len(l) : m[i] = l[i]
        /\ m[Len(l) + 1] = w
    BY <1>2 DEF m
  <1>4. \A i \in 1 .. Len(m) : i \in 1 .. Len(l) \/ i = Len(l) + 1
    BY <1>1, <1>3
  <1>5. Elems(m) = Elems(l) \cup {w}
    <2>1. \A x \in Elems(m) : x \in Elems(l) \cup {w}
      BY <1>3, <1>4 DEF Elems
    <2>2. \A x \in Elems(l) : x \in Elems(m)
      BY <1>1, <1>3 DEF Elems
    <2>3. w \in Elems(m)
      BY <1>1, <1>3 DEF Elems
    <2>. QED
      BY <2>1, <2>2, <2>3
  <1>6. Once(m)
    BY <1>1, <1>3, <1>4 DEF Once, Elems
  <1>. QED
    BY <1>3, <1>5, <1>6 DEF m

(* The first worker taken off a list.                                       *)
LEMMA TailWorkers ==
  ASSUME NEW l \in Seq(Workers), l # <<>>, Once(l)
  PROVE  /\ Head(l) \in Elems(l) /\ Head(l) \in Workers
         /\ Tail(l) \in Seq(Workers)
         /\ Elems(Tail(l)) = Elems(l) \ {Head(l)}
         /\ Once(Tail(l))
  <1>1. Len(l) \in Nat /\ l \in [1 .. Len(l) -> Workers]
    BY LenProperties
  <1>2. Len(l) # 0
    BY EmptySeq
  <1>3. /\ Head(l) = l[1] /\ Tail(l) \in Seq(Workers)
        /\ Len(Tail(l)) = Len(l) - 1
        /\ \A i \in 1 .. Len(Tail(l)) : Tail(l)[i] = l[i + 1]
    BY HeadTailProperties
  <1>. DEFINE m == Tail(l)
  <1>. HIDE DEF m
  <1>4. /\ m \in Seq(Workers) /\ Len(m) = Len(l) - 1
        /\ \A i \in 1 .. Len(m) : m[i] = l[i + 1]
    BY <1>3 DEF m
  <1>5. Head(l) \in Elems(l) /\ Head(l) \in Workers
    BY <1>1, <1>2, <1>3 DEF Elems
  <1>6. Elems(m) = Elems(l) \ {Head(l)}
    <2>1. \A i \in 1 .. Len(m) : m[i] \in Elems(l) /\ m[i] # l[1]
      BY <1>1, <1>2, <1>4 DEF Elems, Once
    <2>2. \A i \in 1 .. Len(l) : l[i] # l[1] => i - 1 \in 1 .. Len(m) /\ m[i - 1] = l[i]
      BY <1>1, <1>2, <1>4
    <2>3. \A x \in Elems(m) : x \in Elems(l) \ {Head(l)}
      BY <2>1, <1>3 DEF Elems
    <2>4. \A x \in Elems(l) \ {Head(l)} : x \in Elems(m)
      BY <2>2, <1>3 DEF Elems
    <2>. QED
      BY <2>3, <2>4
  <1>7. Once(m)
    BY <1>1, <1>2, <1>4 DEF Once
  <1>. QED
    BY <1>3, <1>5, <1>6, <1>7 DEF m

-----------------------------------------------------------------------------
LEMMA InitIInv == Init => IInv
  <1>. SUFFICES ASSUME Init PROVE IInv
    OBVIOUS
  <1>. USE PoolAssumption DEF Init
  <1>1. TypeOK
    <2>1. <<>> \in Seq(Workers)
      OBVIOUS
    <2>. QED
      BY <2>1 DEF TypeOK, WorkerPCs
  <1>2. HasJob /\ InCall /\ HasVictim /\ HasBorn /\ OwnsList
    BY DEF HasJob, InCall, HasVictim, HasBorn, OwnsList, Agents
  <1>3. Listed = {} /\ Alive = {}
    BY DEF Listed, Alive
  <1>4. Accounted
    BY <1>3 DEF Accounted
  <1>. QED
    BY <1>1, <1>2, <1>4 DEF IInv

-----------------------------------------------------------------------------
(* Steps that create and end no thread.                                     *)
LEMMA SameThreads ==
  ASSUME Accounted, UNCHANGED <<list, born, victim>>,
         \A w \in Workers : wpc'[w] = "none" <=> wpc[w] = "none"
  PROVE  Accounted'
  <1>1. Listed' = Listed
    BY DEF Listed
  <1>2. Alive' = Alive
    BY DEF Alive
  <1>. QED
    BY <1>1, <1>2 DEF Accounted

(* Steps in which nobody begins or ends to make a worker.                   *)
LEMMA SameBuilder ==
  ASSUME HasBorn, born' = born, ctl' = "listing" <=> ctl = "listing",
         \A a \in Agents : epc'[a] = "listing" <=> epc[a] = "listing"
  PROVE  HasBorn'
  BY DEF HasBorn

(* The thread of a new worker starts and no other changes.                  *)
LEMMA Started ==
  ASSUME IInv, StartThread
  PROVE  /\ wpc' \in [Workers -> WorkerPCs]
         /\ born = NoWorker /\ born' \in Workers
         /\ owner \notin {"pop", "joining"}
         /\ \A w \in Workers : wpc[w] # "none" => wpc'[w] = wpc[w]
         /\ \A w \in Workers : wpc[w] = "none" => wpc'[w] \in {"none", "loop"}
         /\ UNCHANGED <<list, victim>> => Accounted'
  <1>1. PICK w \in Workers :
          /\ wpc[w] = "none"
          /\ wpc' = [wpc EXCEPT ![w] = "loop"]
          /\ born' = w
    BY DEF StartThread
  <1>2. wpc \in [Workers -> WorkerPCs] /\ Accounted
    BY DEF IInv, TypeOK
  <1>3. born = NoWorker /\ owner \notin {"pop", "joining"}
    BY DEF StartThread, ListFree
  <1>4. w \notin Alive /\ w # NoWorker
    BY <1>1, PoolAssumption DEF Alive
  <1>5. /\ wpc' \in [Workers -> WorkerPCs]
        /\ \A x \in Workers : wpc'[x] = IF x = w THEN "loop" ELSE wpc[x]
    BY <1>1, <1>2 DEF WorkerPCs
  <1>6. ASSUME UNCHANGED <<list, victim>> PROVE Accounted'
    <2>1. Alive' = Alive \cup {w}
      BY <1>5 DEF Alive
    <2>2. Listed' = Listed
      BY <1>6 DEF Listed
    <2>3. w \notin Listed /\ w # victim
      BY <1>2, <1>4 DEF Accounted
    <2>. QED
      BY <1>1, <1>2, <1>3, <1>4, <1>6, <2>1, <2>2, <2>3 DEF Accounted
  <1>. QED
    BY <1>1, <1>3, <1>5, <1>6

(* The worker in the making is put at the end of the list.                  *)
LEMMA Appended ==
  ASSUME IInv, ListWorker, born # NoWorker, UNCHANGED <<wpc, victim>>
  PROVE  /\ list' \in Seq(Workers) /\ list' # <<>>
         /\ born' = NoWorker
         /\ owner \notin {"pop", "joining", "dead"}
         /\ Accounted'
  <1>1. /\ list' = Append(list, born) /\ born' = NoWorker
        /\ born \in Workers /\ list \in Seq(Workers) /\ Accounted
    BY DEF ListWorker, IInv, TypeOK
  <1>2. /\ Listed = Elems(list) /\ Listed' = Elems(list') /\ Once(list)
        /\ born \notin Elems(list) /\ born # victim
    BY <1>1 DEF Listed, Elems, Once, Accounted
  <1>3. /\ list' \in Seq(Workers) /\ Elems(list') = Elems(list) \cup {born} /\ Once(list')
    BY <1>1, <1>2, AppendWorker
  <1>4. list' # <<>>
    BY <1>3 DEF Elems
  <1>5. Alive' = Alive
    BY DEF Alive
  <1>6. NoWorker \notin Listed'
    <2>1. list' \in [1 .. Len(list') -> Workers]
      BY <1>3, LenProperties
    <2>. QED
      BY <2>1, PoolAssumption DEF Listed
  <1>7. Accounted'
    BY <1>1, <1>2, <1>3, <1>5, <1>6 DEF Accounted, Once
  <1>8. owner \notin {"pop", "joining", "dead"}
    BY DEF IInv, OwnsList
  <1>. QED
    BY <1>1, <1>3, <1>4, <1>7, <1>8

(* Steps of enqueue.                                                        *)
LEMMA EnqueueStep ==
  ASSUME IInv, NEW a \in Agents, Enqueue(a)
  PROVE  IInv'
  <1>. USE DEF IInv, queueVars, workerVars, callVars, ctlVars
  <1>1. CASE Push(a)
    <2>1. TypeOK'
      BY <1>1 DEF Push, TypeOK, HasJob
    <2>2. Accounted'
      BY <1>1, SameThreads DEF Push
    <2>3. HasJob' /\ InCall' /\ HasVictim' /\ OwnsList'
      BY <1>1 DEF Push, TypeOK, HasJob, InCall, HasVictim, OwnsList, Agents
    <2>4. HasBorn'
      BY <1>1, SameBuilder DEF Push, TypeOK
    <2>. QED
      BY <2>1, <2>2, <2>3, <2>4
  <1>2. CASE Notify(a)
    <2>1. wpc' = wpc \/ \E w \in Workers : wpc[w] = "waiting" /\ wpc' = [wpc EXCEPT ![w] = "retake"]
      BY <1>2 DEF Notify, NotifyOne
    <2>2. /\ wpc' \in [Workers -> WorkerPCs]
          /\ \A w \in Workers : wpc'[w] = wpc[w] \/ (wpc[w] = "waiting" /\ wpc'[w] = "retake")
      BY <2>1 DEF TypeOK, WorkerPCs
    <2>3. TypeOK'
      BY <1>2, <2>2 DEF Notify, TypeOK
    <2>4. Accounted'
      BY <1>2, <2>2, SameThreads DEF Notify
    <2>5. HasJob' /\ InCall' /\ HasVictim' /\ OwnsList'
      BY <1>2, <2>2 DEF Notify, TypeOK, HasJob, InCall, HasVictim, OwnsList, Agents
    <2>6. HasBorn'
      BY <1>2, SameBuilder DEF Notify, TypeOK
    <2>. QED
      BY <2>3, <2>4, <2>5, <2>6
  <1>3. CASE Look(a)
    <2>1. TypeOK'
      BY <1>3 DEF Look, TypeOK
    <2>2. Accounted'
      BY <1>3, SameThreads DEF Look
    <2>3. HasJob' /\ InCall' /\ HasVictim' /\ OwnsList'
      BY <1>3 DEF Look, TypeOK, HasJob, InCall, HasVictim, OwnsList, Agents
    <2>4. HasBorn'
      BY <1>3, SameBuilder DEF Look, TypeOK
    <2>. QED
      BY <2>1, <2>2, <2>3, <2>4
  <1>4. CASE Create(a)
    <2>1. /\ StartThread /\ epc[a] = "create"
          /\ epc' = [epc EXCEPT ![a] = "listing"]
          /\ UNCHANGED <<term, queue, fresh, list, told, job, ejob, ctl, victim, owner>>
      BY <1>4 DEF Create
    <2>2. /\ wpc' \in [Workers -> WorkerPCs]
          /\ born = NoWorker /\ born' \in Workers
          /\ owner \notin {"pop", "joining"}
          /\ \A w \in Workers : wpc[w] # "none" => wpc'[w] = wpc[w]
          /\ \A w \in Workers : wpc[w] = "none" => wpc'[w] \in {"none", "loop"}
          /\ Accounted'
      BY <2>1, Started
    <2>3. owner # "dead"
      <3>1. SUFFICES ASSUME owner = "dead" PROVE FALSE
        OBVIOUS
      <3>2. a \in Workers /\ wpc[a] = "calling"
        BY <2>1, <3>1 DEF InCall, Agents
      <3>3. Listed = {} /\ victim = NoWorker
        BY <3>1 DEF OwnsList, HasVictim, Listed
      <3>4. a \in Alive
        BY <3>2 DEF Alive
      <3>. QED
        BY <2>2, <3>3, <3>4 DEF Accounted
    <2>4. TypeOK'
      BY <2>1, <2>2 DEF TypeOK
    <2>5. HasJob' /\ InCall'
      BY <2>1, <2>2 DEF TypeOK, HasJob, InCall, Agents
    <2>6. HasVictim' /\ OwnsList'
      BY <2>1, <2>2, <2>3 DEF HasVictim, OwnsList
    <2>7. HasBorn'
      <3>1. \A b \in Agents : epc'[b] = IF b = a THEN "listing" ELSE epc[b]
        BY <2>1 DEF TypeOK
      <3>2. ctl # "listing" /\ \A b \in Agents : epc[b] # "listing"
        BY <2>2 DEF HasBorn
      <3>. QED
        BY <2>1, <2>2, <3>1, <3>2, PoolAssumption DEF HasBorn
    <2>. QED
      BY <2>2, <2>4, <2>5, <2>6, <2>7
  <1>5. CASE Created(a)
    <2>1. /\ ListWorker /\ epc[a] = "listing"
          /\ epc' = [epc EXCEPT ![a] = "out"]
          /\ UNCHANGED <<term, queue, fresh, wpc, told, job, ejob, ctl, victim, owner>>
      BY <1>5 DEF Created
    <2>2. born # NoWorker
      BY <2>1 DEF HasBorn
    <2>3. /\ list' \in Seq(Workers) /\ list' # <<>> /\ born' = NoWorker
          /\ owner \notin {"pop", "joining", "dead"} /\ Accounted'
      BY <2>1, <2>2, Appended
    <2>4. TypeOK'
      BY <2>1, <2>3 DEF TypeOK
    <2>5. HasJob' /\ InCall' /\ HasVictim' /\ OwnsList'
      BY <2>1, <2>3 DEF TypeOK, HasJob, InCall, HasVictim, OwnsList, Agents
    <2>6. HasBorn'
      <3>1. \A b \in Agents : epc'[b] = IF b = a THEN "out" ELSE epc[b]
        BY <2>1 DEF TypeOK
      <3>. QED
        BY <2>1, <2>3, <3>1 DEF HasBorn
    <2>. QED
      BY <2>3, <2>4, <2>5, <2>6
  <1>. QED
    BY <1>1, <1>2, <1>3, <1>4, <1>5 DEF Enqueue

(* Steps of a caller and of a worker thread.                                *)
LEMMA SubmitStep ==
  ASSUME IInv, NEW c \in Callers, Submit(c)
  PROVE  IInv'
  <1>. USE DEF IInv, queueVars, workerVars, callVars, ctlVars, Submit
  <1>1. TypeOK'
    BY DEF TypeOK, Agents
  <1>2. Accounted'
    BY SameThreads
  <1>3. HasJob' /\ InCall' /\ HasVictim' /\ OwnsList'
    BY PoolAssumption DEF TypeOK, HasJob, InCall, HasVictim, OwnsList, Agents
  <1>4. HasBorn'
    BY SameBuilder DEF TypeOK
  <1>. QED
    BY <1>1, <1>2, <1>3, <1>4

LEMMA WorkStep ==
  ASSUME IInv, NEW w \in Workers, Work(w)
  PROVE  IInv'
  <1>. USE DEF IInv, queueVars, workerVars, callVars, ctlVars
  <1>1. CASE Loop(w) \/ TakeNothing(w) \/ WaitFor(w) \/ TimeOut(w)
    <2>1. /\ wpc[w] \notin {"none", "busy", "calling"}
          /\ \E p \in WorkerPCs \ {"none", "busy", "calling"} : wpc' = [wpc EXCEPT ![w] = p]
          /\ UNCHANGED <<term, queue, fresh, list, born, told, job, epc, ejob, ctl, victim, owner>>
      BY <1>1 DEF Loop, TakeNothing, WaitFor, TimeOut, WorkerPCs
    <2>2. /\ wpc' \in [Workers -> WorkerPCs]
          /\ \A x \in Workers : x # w => wpc'[x] = wpc[x]
          /\ wpc'[w] \notin {"none", "busy", "calling"}
      BY <2>1 DEF TypeOK
    <2>3. TypeOK'
      BY <2>1, <2>2 DEF TypeOK
    <2>4. Accounted'
      BY <2>1, <2>2, SameThreads
    <2>5. HasJob' /\ InCall' /\ HasVictim' /\ OwnsList'
      BY <2>1, <2>2 DEF HasJob, InCall, HasVictim, OwnsList
    <2>6. HasBorn'
      BY <2>1, SameBuilder
    <2>. QED
      BY <2>3, <2>4, <2>5, <2>6
  <1>2. CASE Take(w)
    <2>1. PICK j \in queue : queue' = queue \ {j} /\ job' = [job EXCEPT ![w] = j]
      BY <1>2 DEF Take
    <2>2. /\ wpc[w] \in {"take", "retake"} /\ wpc' = [wpc EXCEPT ![w] = "busy"]
          /\ UNCHANGED <<term, fresh, list, born, told, epc, ejob, ctl, victim, owner>>
      BY <1>2 DEF Take
    <2>3. /\ wpc' \in [Workers -> WorkerPCs]
          /\ \A x \in Workers : wpc'[x] = IF x = w THEN "busy" ELSE wpc[x]
          /\ job' \in [Workers -> Jobs \cup {NoJob}]
          /\ \A x \in Workers : job'[x] = IF x = w THEN j ELSE job[x]
          /\ j \in Jobs
      BY <2>1, <2>2 DEF TypeOK, WorkerPCs
    <2>4. TypeOK'
      BY <2>1, <2>2, <2>3 DEF TypeOK
    <2>5. Accounted'
      BY <2>2, <2>3, SameThreads
    <2>6. HasJob' /\ InCall' /\ HasVictim' /\ OwnsList'
      BY <2>2, <2>3 DEF HasJob, InCall, HasVictim, OwnsList
    <2>7. HasBorn'
      BY <2>2, SameBuilder
    <2>. QED
      BY <2>4, <2>5, <2>6, <2>7
  <1>3. CASE Resubmit(w)
    <2>1. /\ wpc[w] = "busy" /\ wpc' = [wpc EXCEPT ![w] = "calling"]
          /\ UNCHANGED <<term, queue, fresh, list, born, told, job, ctl, victim, owner>>
          /\ Follow[job[w]] \in Jobs
      BY <1>3, PoolAssumption DEF Resubmit, HasJob
    <2>2. /\ wpc' \in [Workers -> WorkerPCs]
          /\ \A x \in Workers : wpc'[x] = IF x = w THEN "calling" ELSE wpc[x]
      BY <2>1 DEF TypeOK, WorkerPCs
    <2>3. \/ UNCHANGED <<epc, ejob>>
          \/ /\ epc' = [epc EXCEPT ![w] = "push"]
             /\ ejob' = [ejob EXCEPT ![w] = Follow[job[w]]]
      BY <1>3 DEF Resubmit
    <2>4. TypeOK'
      BY <2>1, <2>2, <2>3 DEF TypeOK
    <2>5. Accounted'
      BY <2>1, <2>2, SameThreads
    <2>6. HasJob'
      BY <2>1, <2>2, <2>3 DEF HasJob, TypeOK, Agents
    <2>7. InCall'
      BY <2>1, <2>2, <2>3, PoolAssumption DEF InCall, TypeOK, Agents
    <2>8. HasVictim' /\ OwnsList'
      BY <2>1 DEF HasVictim, OwnsList
    <2>9. HasBorn'
      <3>1. epc[w] # "listing"
        BY <2>1 DEF InCall
      <3>. QED
        BY <2>1, <2>3, <3>1, SameBuilder DEF TypeOK, Agents
    <2>. QED
      BY <2>4, <2>5, <2>6, <2>7, <2>8, <2>9
  <1>4. CASE Served(w)
    <2>1. /\ wpc[w] \in {"busy", "calling"} /\ (wpc[w] = "calling" => epc[w] = "out")
          /\ wpc' = [wpc EXCEPT ![w] = "loop"] /\ job' = [job EXCEPT ![w] = NoJob]
          /\ UNCHANGED <<term, queue, fresh, list, born, told, epc, ejob, ctl, victim, owner>>
      BY <1>4 DEF Served
    <2>2. /\ wpc' \in [Workers -> WorkerPCs]
          /\ \A x \in Workers : wpc'[x] = IF x = w THEN "loop" ELSE wpc[x]
      BY <2>1 DEF TypeOK, WorkerPCs
    <2>3. TypeOK'
      BY <2>1, <2>2 DEF TypeOK
    <2>4. Accounted'
      BY <2>1, <2>2, SameThreads
    <2>5. HasJob' /\ InCall' /\ HasVictim' /\ OwnsList'
      BY <2>1, <2>2 DEF TypeOK, HasJob, InCall, HasVictim, OwnsList
    <2>6. HasBorn'
      BY <2>1, SameBuilder
    <2>. QED
      BY <2>3, <2>4, <2>5, <2>6
  <1>. QED
    BY <1>1, <1>2, <1>3, <1>4 DEF Work

-----------------------------------------------------------------------------
(* A thread that has ended is joined and its worker goes.                   *)
LEMMA JoinedThread ==
  ASSUME IInv, NEW w \in Workers, Joined(w)
  PROVE  /\ wpc' \in [Workers -> WorkerPCs]
         /\ \A x \in Workers : wpc'[x] = IF x = w THEN "none" ELSE wpc[x]
         /\ told' \subseteq Workers
         /\ Alive' = Alive \ {w}
         /\ epc[w] = "out"
  <1>1. wpc[w] = "gone" /\ wpc' = [wpc EXCEPT ![w] = "none"] /\ told' = told \ {w}
    BY DEF Joined
  <1>2. wpc \in [Workers -> WorkerPCs] /\ told \subseteq Workers /\ epc \in [Agents -> {"out", "push", "notify", "look", "create", "listing"}]
    BY DEF IInv, TypeOK
  <1>3. /\ wpc' \in [Workers -> WorkerPCs]
        /\ \A x \in Workers : wpc'[x] = IF x = w THEN "none" ELSE wpc[x]
        /\ told' \subseteq Workers
    BY <1>1, <1>2 DEF WorkerPCs
  <1>4. Alive' = Alive \ {w}
    BY <1>3 DEF Alive
  <1>5. epc[w] = "out"
    BY <1>1 DEF IInv, InCall
  <1>. QED
    BY <1>3, <1>4, <1>5

(* Steps of the control thread.                                             *)
LEMMA CtlStep ==
  ASSUME IInv, Ctl
  PROVE  IInv'
  <1>. USE DEF IInv, queueVars, workerVars, callVars, ctlVars
  <1>1. CASE CtlLoop \/ CtlKillCheck \/ CtlSpawnCheck
    <2>1. /\ ctl \in {"top", "load", "check"} /\ ctl' \in {"done", "load", "kill", "check", "spawn", "top"}
          /\ UNCHANGED <<term, queue, fresh, list, born, wpc, told, job, epc, ejob, victim, owner>>
      BY <1>1 DEF CtlLoop, CtlKillCheck, CtlSpawnCheck
    <2>2. TypeOK' /\ HasJob' /\ InCall'
      BY <2>1 DEF TypeOK, HasJob, InCall
    <2>3. HasVictim' /\ OwnsList'
      BY <2>1 DEF HasVictim, OwnsList
    <2>4. Accounted'
      BY <2>1, SameThreads
    <2>5. HasBorn'
      BY <2>1, SameBuilder
    <2>. QED
      BY <2>2, <2>3, <2>4, <2>5
  <1>2. CASE CtlKill
    <2>1. /\ ctl = "kill" /\ ctl' \in {"top", "notify"} /\ born = NoWorker
          /\ UNCHANGED <<term, queue, fresh, born, wpc, job, epc, ejob, owner>>
      BY <1>2 DEF CtlKill, ListFree
    <2>2. HasJob' /\ InCall'
      BY <2>1 DEF HasJob, InCall
    <2>5. HasBorn'
      BY <2>1, SameBuilder
    <2>3. CASE list = <<>>
      <3>1. ctl' = "top" /\ UNCHANGED <<list, told, victim>>
        BY <1>2, <2>3 DEF CtlKill
      <3>2. TypeOK' /\ HasVictim' /\ OwnsList'
        BY <2>1, <3>1 DEF TypeOK, HasVictim, OwnsList
      <3>3. Accounted'
        BY <2>1, <3>1, SameThreads
      <3>. QED
        BY <2>2, <2>5, <3>2, <3>3
    <2>4. CASE list # <<>>
      <3>. DEFINE v == Head(list)
      <3>1. /\ victim' = v /\ list' = Tail(list) /\ told' = told \cup {v}
            /\ ctl' = "notify"
        BY <1>2, <2>4 DEF CtlKill
      <3>2. /\ Listed = Elems(list) /\ Listed' = Elems(list') /\ Once(list)
            /\ Alive = Listed /\ victim = NoWorker
            /\ list \in Seq(Workers)
        BY <2>1 DEF Listed, Elems, Once, Accounted, HasVictim, TypeOK
      <3>3. /\ v \in Elems(list) /\ v \in Workers /\ list' \in Seq(Workers)
            /\ Elems(list') = Elems(list) \ {v} /\ Once(list')
        BY <2>4, <3>1, <3>2, TailWorkers
      <3>. HIDE DEF v
      <3>4. v # NoWorker
        BY <3>3, PoolAssumption
      <3>5. TypeOK'
        BY <2>1, <3>1, <3>3 DEF TypeOK
      <3>6. HasVictim' /\ OwnsList'
        BY <2>1, <3>1, <3>4 DEF HasVictim, OwnsList
      <3>7. Alive' = Alive
        BY <2>1 DEF Alive
      <3>8. Accounted'
        BY <2>1, <3>1, <3>2, <3>3, <3>4, <3>7 DEF Accounted, Once
      <3>. QED
        BY <2>2, <2>5, <3>5, <3>6, <3>8
    <2>. QED
      BY <2>3, <2>4
  <1>3. CASE CtlNotify
    <2>1. /\ ctl = "notify" /\ ctl' = "join" /\ NotifyAll
          /\ UNCHANGED <<term, queue, fresh, list, born, told, job, epc, ejob, victim, owner>>
      BY <1>3 DEF CtlNotify
    <2>2. /\ wpc' \in [Workers -> WorkerPCs]
          /\ \A w \in Workers : wpc'[w] = wpc[w] \/ (wpc[w] = "waiting" /\ wpc'[w] = "retake")
      BY <2>1 DEF NotifyAll, TypeOK, WorkerPCs
    <2>3. TypeOK'
      BY <2>1, <2>2 DEF TypeOK
    <2>4. Accounted'
      BY <2>1, <2>2, SameThreads
    <2>5. HasJob' /\ InCall' /\ HasVictim' /\ OwnsList'
      BY <2>1, <2>2 DEF HasJob, InCall, HasVictim, OwnsList
    <2>6. HasBorn'
      BY <2>1, SameBuilder
    <2>. QED
      BY <2>3, <2>4, <2>5, <2>6
  <1>4. CASE CtlJoin
    <2>1. /\ ctl = "join" /\ Joined(victim) /\ victim' = NoWorker /\ ctl' = "top"
          /\ UNCHANGED <<term, queue, fresh, list, born, job, epc, ejob, owner>>
      BY <1>4 DEF CtlJoin
    <2>2. victim \in Workers
      BY <2>1 DEF HasVictim, TypeOK
    <2>3. /\ wpc' \in [Workers -> WorkerPCs]
          /\ \A x \in Workers : wpc'[x] = IF x = victim THEN "none" ELSE wpc[x]
          /\ told' \subseteq Workers
          /\ Alive' = Alive \ {victim}
          /\ epc[victim] = "out"
      BY <2>1, <2>2, JoinedThread
    <2>4. TypeOK'
      BY <2>1, <2>3 DEF TypeOK
    <2>5. HasJob' /\ InCall' /\ HasVictim' /\ OwnsList'
      BY <2>1, <2>3 DEF HasJob, InCall, HasVictim, OwnsList
    <2>6. Listed' = Listed /\ NoWorker \notin Listed
      <3>1. list \in [1 .. Len(list) -> Workers]
        BY LenProperties DEF TypeOK
      <3>. QED
        BY <2>1, <3>1, PoolAssumption DEF Listed
    <2>7. Accounted'
      BY <2>1, <2>3, <2>6 DEF Accounted
    <2>8. HasBorn'
      BY <2>1, SameBuilder
    <2>. QED
      BY <2>4, <2>5, <2>7, <2>8
  <1>5. CASE CtlSpawn
    <2>1. /\ ctl = "spawn" /\ StartThread /\ ctl' = "listing"
          /\ UNCHANGED <<term, queue, fresh, list, told, job, epc, ejob, victim, owner>>
      BY <1>5 DEF CtlSpawn
    <2>2. /\ wpc' \in [Workers -> WorkerPCs]
          /\ born = NoWorker /\ born' \in Workers
          /\ \A w \in Workers : wpc[w] # "none" => wpc'[w] = wpc[w]
          /\ \A w \in Workers : wpc[w] = "none" => wpc'[w] \in {"none", "loop"}
          /\ Accounted'
      BY <2>1, Started
    <2>3. TypeOK'
      BY <2>1, <2>2 DEF TypeOK
    <2>4. HasJob' /\ InCall'
      BY <2>1, <2>2 DEF HasJob, InCall
    <2>5. HasVictim' /\ OwnsList'
      BY <2>1, <2>2 DEF HasVictim, OwnsList
    <2>6. HasBorn'
      BY <2>1, <2>2, PoolAssumption DEF HasBorn
    <2>. QED
      BY <2>2, <2>3, <2>4, <2>5, <2>6
  <1>6. CASE CtlSpawned
    <2>1. /\ ctl = "listing" /\ ListWorker /\ ctl' = "top"
          /\ UNCHANGED <<term, queue, fresh, wpc, told, job, epc, ejob, victim, owner>>
      BY <1>6 DEF CtlSpawned
    <2>2. born # NoWorker
      BY <2>1 DEF HasBorn
    <2>3. /\ list' \in Seq(Workers) /\ list' # <<>> /\ born' = NoWorker
          /\ owner \notin {"pop", "joining", "dead"} /\ Accounted'
      BY <2>1, <2>2, Appended
    <2>4. TypeOK'
      BY <2>1, <2>3 DEF TypeOK
    <2>5. HasJob' /\ InCall' /\ HasVictim' /\ OwnsList'
      BY <2>1, <2>3 DEF HasJob, InCall, HasVictim, OwnsList
    <2>6. HasBorn'
      BY <2>1, <2>3 DEF HasBorn
    <2>. QED
      BY <2>3, <2>4, <2>5, <2>6
  <1>. QED
    BY <1>1, <1>2, <1>3, <1>4, <1>5, <1>6 DEF Ctl

(* Steps of the destructor.                                                 *)
LEMMA OwnerStep ==
  ASSUME IInv, Terminate \/ Destroy
  PROVE  IInv'
  <1>. USE DEF IInv, queueVars, workerVars, callVars, ctlVars
  <1>1. CASE Terminate \/ Drain \/ Wait \/ PopWorker
    <2>1. /\ UNCHANGED <<list, born, wpc, job, epc, ejob, ctl, victim>>
          /\ owner \in {"alive", "drain", "wait", "pop"}
          /\ owner = "alive" => \A c \in Callers : epc[c] = "out"
          /\ owner \in {"alive", "drain"} => owner' \in {"drain", "notify"}
          /\ owner = "wait" => owner' = "pop" /\ ctl = "done" /\ born = NoWorker
          /\ owner = "pop" => owner' = IF list = <<>> THEN "dead" ELSE "joining"
      BY <1>1 DEF Terminate, Drain, Wait, PopWorker, ListFree
    <2>2. told' \subseteq Workers
      <3>1. CASE PopWorker /\ list # <<>>
        <4>1. Once(list) /\ list \in Seq(Workers)
          BY DEF Once, Accounted, TypeOK
        <4>. QED
          BY <3>1, <4>1, TailWorkers DEF PopWorker, TypeOK
      <3>2. CASE ~(PopWorker /\ list # <<>>)
        BY <1>1, <3>2 DEF Terminate, Drain, Wait, PopWorker, TypeOK
      <3>. QED
        BY <3>1, <3>2
    <2>3. term' \in BOOLEAN /\ queue' \subseteq Jobs /\ fresh' \subseteq Jobs
      BY <1>1 DEF Terminate, Drain, Wait, PopWorker, TypeOK
    <2>4. TypeOK'
      BY <2>1, <2>2, <2>3 DEF TypeOK
    <2>5. HasJob' /\ InCall' /\ HasVictim' /\ OwnsList'
      BY <2>1 DEF HasJob, InCall, HasVictim, OwnsList
    <2>6. Accounted'
      BY <2>1, SameThreads
    <2>7. HasBorn'
      BY <2>1, SameBuilder
    <2>. QED
      BY <2>4, <2>5, <2>6, <2>7
  <1>2. CASE WakeAll
    <2>1. /\ owner = "notify" /\ owner' = "wait" /\ NotifyAll
          /\ UNCHANGED <<term, queue, fresh, list, born, told, job, epc, ejob, ctl, victim>>
      BY <1>2 DEF WakeAll
    <2>2. /\ wpc' \in [Workers -> WorkerPCs]
          /\ \A w \in Workers : wpc'[w] = wpc[w] \/ (wpc[w] = "waiting" /\ wpc'[w] = "retake")
      BY <2>1 DEF NotifyAll, TypeOK, WorkerPCs
    <2>3. TypeOK'
      BY <2>1, <2>2 DEF TypeOK
    <2>4. Accounted'
      BY <2>1, <2>2, SameThreads
    <2>5. HasJob' /\ InCall' /\ HasVictim' /\ OwnsList'
      BY <2>1, <2>2 DEF HasJob, InCall, HasVictim, OwnsList
    <2>6. HasBorn'
      BY <2>1, SameBuilder
    <2>. QED
      BY <2>3, <2>4, <2>5, <2>6
  <1>3. CASE JoinPopped
    <2>. DEFINE v == Head(list)
    <2>1. /\ owner = "joining" /\ Joined(v) /\ list' = Tail(list) /\ owner' = "pop"
          /\ UNCHANGED <<term, queue, fresh, born, job, epc, ejob, ctl, victim>>
      BY <1>3 DEF JoinPopped
    <2>2. /\ Listed = Elems(list) /\ Listed' = Elems(list') /\ Once(list)
          /\ Alive = Listed /\ victim = NoWorker /\ born = NoWorker
          /\ list \in Seq(Workers) /\ list # <<>>
      BY <2>1 DEF Listed, Elems, Once, Accounted, HasVictim, OwnsList, TypeOK
    <2>3. /\ v \in Elems(list) /\ v \in Workers /\ list' \in Seq(Workers)
          /\ Elems(list') = Elems(list) \ {v} /\ Once(list')
      BY <2>1, <2>2, TailWorkers
    <2>. HIDE DEF v
    <2>4. /\ wpc' \in [Workers -> WorkerPCs]
          /\ \A x \in Workers : wpc'[x] = IF x = v THEN "none" ELSE wpc[x]
          /\ told' \subseteq Workers
          /\ Alive' = Alive \ {v}
          /\ epc[v] = "out"
      BY <2>1, <2>3, JoinedThread
    <2>5. NoWorker \notin Listed'
      <3>1. list' \in [1 .. Len(list') -> Workers]
        BY <2>3, LenProperties
      <3>. QED
        BY <3>1, PoolAssumption DEF Listed
    <2>6. TypeOK'
      BY <2>1, <2>3, <2>4 DEF TypeOK
    <2>7. HasJob' /\ InCall' /\ HasVictim' /\ OwnsList'
      BY <2>1, <2>4 DEF HasJob, InCall, HasVictim, OwnsList
    <2>8. Accounted'
      BY <2>1, <2>2, <2>3, <2>4, <2>5 DEF Accounted, Once
    <2>9. HasBorn'
      BY <2>1, SameBuilder
    <2>. QED
      BY <2>6, <2>7, <2>8, <2>9
  <1>. QED
    BY <1>1, <1>2, <1>3 DEF Destroy

-----------------------------------------------------------------------------
LEMMA NextIInv == IInv /\ [Next]_vars => IInv'
  <1>. SUFFICES ASSUME IInv, [Next]_vars PROVE IInv'
    OBVIOUS
  <1>1. CASE UNCHANGED vars
    <2>1. UNCHANGED <<term, queue, fresh, list, born, wpc, told, job, epc, ejob, ctl, victim, owner>>
      BY <1>1 DEF vars, queueVars, workerVars, callVars, ctlVars
    <2>2. TypeOK' /\ HasJob' /\ InCall' /\ HasVictim' /\ OwnsList'
      BY <2>1 DEF IInv, TypeOK, HasJob, InCall, HasVictim, OwnsList
    <2>3. Accounted'
      BY <2>1, SameThreads DEF IInv
    <2>4. HasBorn'
      BY <2>1, SameBuilder DEF IInv
    <2>. QED
      BY <2>2, <2>3, <2>4 DEF IInv
  <1>2. CASE Next
    BY <1>2, OwnerStep, CtlStep, SubmitStep, EnqueueStep, WorkStep DEF Next
  <1>. QED
    BY <1>1, <1>2

(* The inductive invariant of the pool.                                     *)
THEOREM Invariance == Spec => []IInv
  BY InitIInv, NextIInv, PTL DEF Spec

(* Every variable of the pool keeps its type, for any number of callers,    *)
(* worker threads and jobs.                                                 *)
THEOREM TypeCorrect == Spec => []TypeOK
  <1>1. IInv => TypeOK
    BY DEF IInv
  <1>. QED
    BY <1>1, Invariance, PTL

(* Every running worker thread is in the list, once, or about to be put     *)
(* there, or about to be joined by the control thread, whoever creates and  *)
(* kills workers.                                                           *)
THEOREM NoThreadLost == Spec => []Accounted
  <1>1. IInv => Accounted
    BY DEF IInv
  <1>. QED
    BY <1>1, Invariance, PTL

(* The destructor leaves no worker thread, no control thread and no call of *)
(* enqueue behind.                                                          *)
THEOREM DestroyedIsEmpty == Spec => []NothingLeft
  <1>1. IInv => NothingLeft
    <2>. SUFFICES ASSUME IInv, owner = "dead"
         PROVE  Alive = {} /\ ctl = "done" /\ \A a \in Agents : epc[a] = "out"
      BY DEF NothingLeft
    <2>1. ctl = "done" /\ born = NoWorker /\ victim = NoWorker /\ list = <<>>
      BY DEF IInv, OwnsList, HasVictim
    <2>2. Listed = {}
      BY <2>1 DEF Listed
    <2>3. Alive = {}
      BY <2>1, <2>2 DEF IInv, Accounted
    <2>4. \A w \in Workers : epc[w] = "out"
      BY <2>3 DEF Alive, IInv, InCall
    <2>5. \A c \in Callers : epc[c] = "out"
      BY DEF IInv, InCall
    <2>. QED
      BY <2>1, <2>3, <2>4, <2>5 DEF Agents
  <1>. QED
    BY <1>1, Invariance, PTL
=============================================================================
