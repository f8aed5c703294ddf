------------------------------- MODULE JobPool -------------------------------
(***************************************************************************)
(* What CPLWorkerThreadPool (port/cpl_worker_thread_pool.cpp) promises to  *)
(* the code that submits jobs to it: every submitted job is run to its end *)
(* exactly once; jobs that are not run by the submitter are started in     *)
(* submission order, at most NThreads at a time.  No thread, mutex or      *)
(* condition variable appears here: module WorkerThreadPool, which has     *)
(* them, is shown to implement this one, and module GzipWriter uses this   *)
(* one for its own pool.                                                   *)
(***************************************************************************)
EXTENDS Integers, Sequences, FiniteSets

CONSTANTS
    Jobs,           \* jobs, each submitted at most once
    Children,       \* jobs that a job submits itself, and waits for
    NThreads,       \* number of worker threads
    MaxBatch        \* largest number of jobs given to one SubmitJobs()

ASSUME ChildrenAssumption == Children \in [Jobs -> SUBSET Jobs]
ASSUME NThreadsAssumption == NThreads \in Nat \ {0}
ASSUME MaxBatchAssumption == MaxBatch \in Nat \ {0}

VARIABLES
    queued,         \* submitted and not started, in submission order
    running,        \* being run by a worker that took them from the queue
    inline,         \* being run synchronously by the thread that submits them
    done            \* run to their end

poolVars == <<queued, running, inline, done>>

QueuedJobs == {queued[i] : i \in DOMAIN queued}
Fresh == Jobs \ (QueuedJobs \cup running \cup inline \cup done)

PoolInit ==
    /\ queued = <<>>
    /\ running = {}
    /\ inline = {}
    /\ done = {}

(* SubmitJob() and SubmitJobs() *)
Submit(js) ==
    /\ \A i \in DOMAIN js : js[i] \in Fresh
    /\ \A i, k \in DOMAIN js : i # k => js[i] # js[k]
    /\ queued' = queued \o js
    /\ UNCHANGED <<running, inline, done>>

RunInline(j) ==
    /\ j \in Fresh
    /\ inline' = inline \cup {j}
    /\ UNCHANGED <<queued, running, done>>

Take ==
    /\ queued # <<>>
    /\ Cardinality(running) < NThreads
    /\ running' = running \cup {Head(queued)}
    /\ queued' = Tail(queued)
    /\ UNCHANGED <<inline, done>>

Finish(j) ==
    /\ j \in running \cup inline
    /\ Children[j] \subseteq done
    /\ running' = running \ {j}
    /\ inline' = inline \ {j}
    /\ done' = done \cup {j}
    /\ UNCHANGED queued

Batches == UNION {[1..n -> Fresh] : n \in 1..MaxBatch}

PoolNext ==
    \/ \E js \in Batches : Submit(js)
    \/ \E j \in Fresh : RunInline(j)
    \/ Take
    \/ \E j \in running \cup inline : Finish(j)

(* A started job ends once its children have, and a queued job is started  *)
(* when a worker can take it.                                              *)
PoolFairness ==
    /\ WF_poolVars(Take)
    /\ \A j \in Jobs : WF_poolVars(Finish(j))

PoolSafety == PoolInit /\ [][PoolNext]_poolVars
PoolSpec == PoolSafety /\ PoolFairness
==============================================================================
