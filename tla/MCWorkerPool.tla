---------------------------- MODULE MCWorkerPool ----------------------------
EXTENDS WorkerPool, TLC

CONSTANTS j1, j2, j3

(* j1 enqueues j2 when it runs.                                             *)
Chained == (j1 :> j2) @@ (j2 :> NoJob) @@ (j3 :> NoJob)
=============================================================================
