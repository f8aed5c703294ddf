--------------------------- MODULE WorkerThreadPool ---------------------------
(***************************************************************************)
(* port/cpl_worker_thread_pool.cpp: CPLWorkerThreadPool and CPLJobQueue.   *)
(*                                                                         *)
(* Client threads set the pool up, submit jobs to it or to their own       *)
(* CPLJobQueue, and wait.  A job may itself submit jobs (Children) through *)
(* a queue that it creates and waits for.  Worker threads are created on   *)
(* demand; an idle one pushes itself on psWaitingWorkerThreadsList and     *)
(* sleeps on its own condition variable.                                   *)
(*                                                                         *)
(* Steps are the critical sections of the code.  A section that locks      *)
(* m_mutex and releases it without taking another mutex is one action,     *)
(* enabled when m_mutex is free.  m_mutex stays held across steps only     *)
(* where the code takes a worker's mutex under it.                         *)
(***************************************************************************)
EXTENDS Integers, Sequences, FiniteSets, SequencesExt

CONSTANTS
    Clients,        \* threads that are not workers of the pool
    Calls,          \* the calls each of them makes (see ClientCall)
    NThreads,       \* largest number of threads Setup() is called with
    Jobs,
    Children,       \* jobs that a job submits through a queue of its own
    QueueJobs,      \* jobs that clients submit through their CPLJobQueue
    WakingJobs,     \* jobs that call WakeUpWaitEvent()
    MaxBatch,       \* largest vector given to SubmitJobs()
    MaxRemaining,   \* largest nMaxRemainingJobs given to WaitCompletion()
    ThreadFailures, \* submissions in which CPLCreateJoinableThread() may fail:
                    \* "first" (no worker yet), "later", "nested" (in a job)
    Spurious,       \* condition variables that may wake up by themselves:
                    \* "pool" (m_cv of the pool), "queue" (m_cv of a
                    \* CPLJobQueue), "worker" (m_cv of a worker)
    NoThread        \* a mutex that is not held, no queue

Workers == 1..NThreads
Threads == Clients \cup Workers
ChildJobs == UNION {Children[j] : j \in Jobs}
TopJobs == Jobs \ ChildJobs
Parents == {j \in Jobs : Children[j] # {}}
Queues == Clients \cup Parents      \* a queue is named by its owner

ASSUME ThreadsAssumption ==
    /\ NThreads \in Nat \ {0}
    /\ Clients \cap Workers = {}
    /\ NoThread \notin Threads \cup Jobs
ASSUME CallsAssumption ==
    Calls \in [Clients -> SUBSET {"setup", "submit", "queueSubmit", "wait",
                                   "queueWait", "destroy"}]
ASSUME JobsAssumption ==
    /\ IsFiniteSet(Jobs)
    /\ Children \in [Jobs -> SUBSET Jobs]
    /\ \A i, j \in Jobs : i # j => Children[i] \cap Children[j] = {}
    /\ QueueJobs \subseteq TopJobs
    /\ WakingJobs \subseteq Jobs
ASSUME BoundsAssumption ==
    /\ MaxBatch \in Nat \ {0}
    /\ MaxRemaining \in Nat
    /\ ThreadFailures \subseteq {"first", "later", "nested"}
    /\ Spurious \subseteq {"pool", "queue", "worker"}

VARIABLES
    m_mutex,        \* holder of CPLWorkerThreadPool::m_mutex between steps
    eState,         \* CPLWTS_OK or CPLWTS_STOP
    jobQueue,
    nPendingJobs,
    m_bNotifyEvent,
    psWaitingWorkerThreadsList,     \* newest first
    nWaitingWorkerThreads,
    m_nMaxThreads,
    aWT,            \* number of workers created, the workers 1..aWT
    bMarkedAsWaiting,
    wtMutex,        \* holder of CPLWorkerThread::m_mutex
    pc,             \* what a thread does next (see ClientPcs and WorkerPcs)
    call,           \* the call a client is in, with its parameter
    target,         \* the worker a thread is about to notify
    stack,          \* jobs a worker is inside of, innermost last
    reserved,       \* the child a worker is about to enqueue
    queueOf,        \* the CPLJobQueue a job was submitted through
    m_nPendingJobs, \* CPLJobQueue::m_nPendingJobs
    submitted, done \* jobs given to a Submit call, jobs that returned

poolState == <<eState, jobQueue, nPendingJobs, psWaitingWorkerThreadsList,
               nWaitingWorkerThreads, m_nMaxThreads, aWT, bMarkedAsWaiting>>
jobState == <<stack, reserved, queueOf, m_nPendingJobs, submitted, done>>
vars == <<m_mutex, poolState, m_bNotifyEvent, wtMutex, pc, call, target,
          jobState>>

(* idle: between calls.  cv, cvWoken: asleep in m_cv.wait(), about to      *)
(* evaluate its condition.  queueCv, queueWoken: the same for the          *)
(* CPLJobQueue.  notify: about to notify the worker taken off the waiting  *)
(* list.  batch: in the loop of SubmitJobs() that wakes workers up.  stop, *)
(* join, joining, gone: in the destructor.                                 *)
ClientPcs == {"idle", "cv", "cvWoken", "queueCv", "queueWoken", "notify",
              "batch", "stop", "join", "joining", "gone"}

(* next: about to call GetNextJob().  lockOwn: marked as waiting, about to *)
(* lock its own mutex.  asleep, woken, relock: in its condition variable,  *)
(* notified, notified and holding its own mutex.  run: inside a job.       *)
(* reserved: in SubmitJob() called by a job, between its two critical      *)
(* sections.  finish: about to call DeclareJobFinished().                  *)
WorkerPcs == {"none", "next", "lockOwn", "asleep", "woken", "relock", "run",
              "reserved", "notify", "queueCv", "finish", "exit"}

CallOps == {"none", "WaitCompletion", "WaitEvent", "Setup", "Destroy",
            "SubmitJob", "SubmitJobs"}
NoCall == [op |-> "none", n |-> 0]

Init ==
    /\ m_mutex = NoThread
    /\ eState = "OK"
    /\ jobQueue = <<>>
    /\ nPendingJobs = 0
    /\ m_bNotifyEvent = FALSE
    /\ psWaitingWorkerThreadsList = <<>>
    /\ nWaitingWorkerThreads = 0
    /\ m_nMaxThreads = 0
    /\ aWT = 0
    /\ bMarkedAsWaiting = [w \in Workers |-> FALSE]
    /\ wtMutex = [w \in Workers |-> NoThread]
    /\ pc = [t \in Threads |-> IF t \in Clients THEN "idle" ELSE "none"]
    /\ call = [c \in Clients |-> NoCall]
    /\ target = [t \in Threads |-> 0]
    /\ stack = [w \in Workers |-> <<>>]
    /\ reserved = [w \in Workers |-> NoThread]
    /\ queueOf = [j \in Jobs |-> NoThread]
    /\ m_nPendingJobs = [q \in Queues |-> 0]
    /\ submitted = {}
    /\ done = {}

-----------------------------------------------------------------------------
(* Operators whose name ends in Ignored, Forgotten, Early... are used      *)
(* nowhere: each is the operator below it with a mistake that the code     *)
(* could have, which the properties must detect.                           *)

(* m_cv.notify_one(), with f the pc after the other effects of the step:   *)
(* one of the threads waiting on m_cv, if any, is released.                *)
NotifyOne(f) ==
    LET sleepers == {c \in Clients : f[c] = "cv"}
    IN  IF sleepers = {} THEN {f}
        ELSE {[f EXCEPT ![c] = "cvWoken"] : c \in sleepers}

InJob(w) == pc[w] = "run"
CurrentJob(w) == Last(stack[w])

(* The thread asleep in CPLJobQueue::WaitCompletion() of queue q.          *)
QueueSleepers(q) ==
    {t \in Threads : /\ pc[t] = "queueCv"
                     /\ IF t \in Clients THEN t = q ELSE CurrentJob(t) = q}

(* CPLCreateJoinableThread() when fewer than m_nMaxThreads threads run:    *)
(* the numbers of threads there may be after the attempt of thread t.      *)
ThreadCountsAfter(n, t) ==
    LET kind == IF t \in Workers THEN "nested"
                ELSE IF n = 0 THEN "first" ELSE "later"
    IN  IF n >= m_nMaxThreads THEN {n}
        ELSE {n + 1} \cup (IF kind \in ThreadFailures THEN {n} ELSE {})

(* pc with the workers up to n started. *)
Started(f, n) ==
    [t \in Threads |-> IF t \in Workers /\ aWT < t /\ t <= n THEN "next" ELSE f[t]]

(* Takes the worker at the head of the waiting list off it, n being the    *)
(* count of waiting workers and f the pc so far; thread t keeps m_mutex    *)
(* until it has locked the mutex of that worker.                           *)
PopWaitingWorkerForgotten(t, f, n) ==
    LET w == Head(psWaitingWorkerThreadsList)
    IN  /\ UNCHANGED <<psWaitingWorkerThreadsList, bMarkedAsWaiting>>
        /\ nWaitingWorkerThreads' = n - 1
        /\ target' = [target EXCEPT ![t] = w]
        /\ m_mutex' = t
        /\ pc' = [f EXCEPT ![t] = "notify"]
PopWaitingWorker(t, f, n) ==
    LET w == Head(psWaitingWorkerThreadsList)
    IN  /\ psWaitingWorkerThreadsList' = Tail(psWaitingWorkerThreadsList)
        /\ bMarkedAsWaiting' = [bMarkedAsWaiting EXCEPT ![w] = FALSE]
        /\ nWaitingWorkerThreads' = n - 1
        /\ target' = [target EXCEPT ![t] = w]
        /\ m_mutex' = t
        /\ pc' = [f EXCEPT ![t] = "notify"]

(* The pool is given to its users when Setup() has returned, and is used   *)
(* until its destructor is entered.                                        *)
Usable == \A c \in Clients : call[c].op \notin {"Setup", "Destroy"}
Idle(c) == pc[c] = "idle" /\ Usable
PoolFree == m_mutex = NoThread

-----------------------------------------------------------------------------
(* Setup *)

(* Setup(n, nullptr, nullptr, false) only raises the limit. *)
SetupLazy(c, n) ==
    /\ Idle(c)
    /\ PoolFree
    /\ n > aWT
    /\ m_nMaxThreads' = IF n > m_nMaxThreads THEN n ELSE m_nMaxThreads
    /\ UNCHANGED <<m_mutex, eState, jobQueue, nPendingJobs, m_bNotifyEvent,
                   psWaitingWorkerThreadsList, nWaitingWorkerThreads, aWT,
                   bMarkedAsWaiting, wtMutex, pc, call, target, jobState>>

GDALGetGlobalThreadPool(c, n) == n > m_nMaxThreads /\ SetupLazy(c, n)

(* Setup(n, ..., true) of a new pool creates the threads, k of which the   *)
(* system grants, and waits for them.                                      *)
Setup(c, n) ==
    /\ Idle(c)
    /\ m_nMaxThreads = 0
    /\ \E k \in 0..n :
          /\ \/ k = n
             \/ k = 0 /\ "first" \in ThreadFailures
             \/ k > 0 /\ "later" \in ThreadFailures
          /\ aWT' = k
          /\ m_nMaxThreads' = k
          /\ call' = [call EXCEPT ![c] = [op |-> "Setup", n |-> k]]
          /\ pc' = [Started(pc, k) EXCEPT ![c] = "cvWoken"]
    /\ UNCHANGED <<m_mutex, eState, jobQueue, nPendingJobs, m_bNotifyEvent,
                   psWaitingWorkerThreadsList, nWaitingWorkerThreads,
                   bMarkedAsWaiting, wtMutex, target, jobState>>

-----------------------------------------------------------------------------
(* Submission *)

(* A worker has to be told of a job that is queued. *)
WakesWorkerIfQueueEmpty == psWaitingWorkerThreadsList # <<>> /\ jobQueue = <<>>
WakesWorker == psWaitingWorkerThreadsList # <<>>

(* The end of SubmitJob(): j is queued, and one waiting worker is woken.   *)
Enqueue(t, j, n) ==
    /\ \E k \in ThreadCountsAfter(aWT, t) :
          /\ aWT' = k
          /\ IF WakesWorker
             THEN PopWaitingWorker(t, Started(pc, k), n)
             ELSE /\ pc' = [Started(pc, k) EXCEPT
                              ![t] = IF t \in Workers THEN "run" ELSE "idle"]
                  /\ nWaitingWorkerThreads' = n
                  /\ UNCHANGED <<m_mutex, psWaitingWorkerThreadsList,
                                 bMarkedAsWaiting, target>>
    /\ jobQueue' = Append(jobQueue, j)
    /\ nPendingJobs' = nPendingJobs + 1
    /\ UNCHANGED <<eState, m_bNotifyEvent, m_nMaxThreads, wtMutex>>

(* CPLJobQueue::SubmitJob() first counts the job in queue q. *)
CountInQueueForgotten(q, j) ==
    /\ queueOf' = [queueOf EXCEPT ![j] = q]
    /\ UNCHANGED m_nPendingJobs
CountInQueue(q, j) ==
    /\ queueOf' = [queueOf EXCEPT ![j] = q]
    /\ m_nPendingJobs' = [m_nPendingJobs EXCEPT ![q] = @ + 1]

(* SubmitJob() called by a thread that is not a worker. *)
SubmitJob(c, j) ==
    /\ Idle(c)
    /\ m_nMaxThreads > 0
    /\ PoolFree
    /\ Enqueue(c, j, nWaitingWorkerThreads)
    /\ IF j \in QueueJobs THEN CountInQueue(c, j)
                          ELSE UNCHANGED <<queueOf, m_nPendingJobs>>
    /\ submitted' = submitted \cup {j}
    /\ UNCHANGED <<call, stack, reserved, done>>

(* Numbers of threads after SubmitJobs() of n jobs: one more attempt per   *)
(* job.  Without any thread it returns false at once and does nothing.     *)
ThreadCountsAfterBatch(n) ==
    LET most == IF aWT + n < m_nMaxThreads THEN aWT + n ELSE m_nMaxThreads
    IN  IF "later" \in ThreadFailures THEN {k \in aWT..most : k > 0} ELSE {most}

(* SubmitJobs(): all the jobs are queued, then as many waiting workers are *)
(* woken one after the other, m_mutex being released for each.             *)
SubmitJobs(c, js) ==
    /\ Idle(c)
    /\ m_nMaxThreads > 0
    /\ PoolFree
    /\ \E k \in ThreadCountsAfterBatch(Len(js)) :
          /\ aWT' = k
          /\ IF WakesWorker
             THEN /\ PopWaitingWorker(c, Started(pc, k), nWaitingWorkerThreads)
                  /\ call' = [call EXCEPT ![c] = [op |-> "SubmitJobs",
                                                  n  |-> Len(js) - 1]]
             ELSE /\ pc' = Started(pc, k)
                  /\ UNCHANGED <<m_mutex, psWaitingWorkerThreadsList, call,
                                 nWaitingWorkerThreads, bMarkedAsWaiting, target>>
    /\ jobQueue' = jobQueue \o js
    /\ nPendingJobs' = nPendingJobs + Len(js)
    /\ submitted' = submitted \cup Range(js)
    /\ UNCHANGED <<eState, m_bNotifyEvent, m_nMaxThreads, wtMutex, stack,
                   reserved, queueOf, m_nPendingJobs, done>>

BatchNext(c) ==
    /\ pc[c] = "batch"
    /\ PoolFree
    /\ IF call[c].n > 0 /\ psWaitingWorkerThreadsList # <<>>
       THEN /\ PopWaitingWorker(c, pc, nWaitingWorkerThreads)
            /\ call' = [call EXCEPT ![c].n = @ - 1]
       ELSE /\ pc' = [pc EXCEPT ![c] = "idle"]
            /\ call' = [call EXCEPT ![c] = NoCall]
            /\ UNCHANGED <<m_mutex, psWaitingWorkerThreadsList,
                           nWaitingWorkerThreads, bMarkedAsWaiting, target>>
    /\ UNCHANGED <<eState, jobQueue, nPendingJobs, m_bNotifyEvent,
                   m_nMaxThreads, aWT, wtMutex, jobState>>

(* The thread that took a worker off the waiting list locks the mutex of   *)
(* that worker, unlocks m_mutex and notifies it.                           *)
Notify(t) ==
    /\ pc[t] = "notify"
    /\ wtMutex[target[t]] = NoThread
    /\ m_mutex' = NoThread
    /\ pc' = [pc EXCEPT
                ![target[t]] = IF @ = "asleep" THEN "woken" ELSE @,
                ![t] = IF t \in Workers THEN "run"
                       ELSE IF call[t].op = "SubmitJobs" THEN "batch" ELSE "idle"]
    /\ UNCHANGED <<poolState, m_bNotifyEvent, wtMutex, call, target, jobState>>

(* A worker will be there for a job that is queued. *)
CanQueueNestedAlways == TRUE
CanQueueNested == nWaitingWorkerThreads > 0 \/ aWT < m_nMaxThreads

(* SubmitJob() called by a job: it may queue its child only if a worker    *)
(* will be there for it, which it reserves by decrementing                 *)
(* nWaitingWorkerThreads; otherwise it runs the child itself.              *)
SubmitNested(w, k) ==
    /\ InJob(w)
    /\ k \in Children[CurrentJob(w)] \ submitted
    /\ PoolFree
    /\ IF CanQueueNested
       THEN /\ nWaitingWorkerThreads' = nWaitingWorkerThreads - 1
            /\ reserved' = [reserved EXCEPT ![w] = k]
            /\ pc' = [pc EXCEPT ![w] = "reserved"]
            /\ UNCHANGED stack
       ELSE /\ stack' = [stack EXCEPT ![w] = Append(@, k)]
            /\ UNCHANGED <<nWaitingWorkerThreads, reserved, pc>>
    /\ CountInQueue(CurrentJob(w), k)
    /\ submitted' = submitted \cup {k}
    /\ UNCHANGED <<m_mutex, eState, jobQueue, nPendingJobs, m_bNotifyEvent,
                   psWaitingWorkerThreadsList, m_nMaxThreads, aWT,
                   bMarkedAsWaiting, wtMutex, call, target, done>>

EnqueueNested(w) ==
    /\ pc[w] = "reserved"
    /\ PoolFree
    /\ Enqueue(w, reserved[w], nWaitingWorkerThreads + 1)
    /\ reserved' = [reserved EXCEPT ![w] = NoThread]
    /\ UNCHANGED <<call, stack, queueOf, m_nPendingJobs, submitted, done>>

(* SubmitJobs() called by a job runs the jobs itself. *)
SubmitJobsNested(w, k) ==
    /\ InJob(w)
    /\ k \in Children[CurrentJob(w)] \ submitted
    /\ stack' = [stack EXCEPT ![w] = Append(@, k)]
    /\ submitted' = submitted \cup {k}
    /\ UNCHANGED <<m_mutex, poolState, m_bNotifyEvent, wtMutex, pc, call, target,
                   reserved, queueOf, m_nPendingJobs, done>>

-----------------------------------------------------------------------------
(* Workers *)

(* The entry GetNextJob() pushes on the list of waiting workers. *)
MarkAsWaiting(w) ==
    IF bMarkedAsWaiting[w]
    THEN UNCHANGED <<bMarkedAsWaiting, nWaitingWorkerThreads,
                     psWaitingWorkerThreadsList>>
    ELSE /\ bMarkedAsWaiting' = [bMarkedAsWaiting EXCEPT ![w] = TRUE]
         /\ nWaitingWorkerThreads' = nWaitingWorkerThreads + 1
         /\ psWaitingWorkerThreadsList' = <<w>> \o psWaitingWorkerThreadsList

(* GetNextJob(), from the locking of m_mutex, at its entry or after a      *)
(* wake-up, to its return or to the moment it locks its own mutex, with    *)
(* m_mutex still held.  The guard on its own mutex dies with the iteration.*)
GetNextJob(w) ==
    /\ pc[w] \in {"next", "relock"}
    /\ PoolFree
    /\ wtMutex' = IF pc[w] = "relock" THEN [wtMutex EXCEPT ![w] = NoThread]
                                      ELSE wtMutex
    /\ \/ /\ eState = "STOP"
          /\ pc' = [pc EXCEPT ![w] = "exit"]
          /\ UNCHANGED <<m_mutex, jobQueue, stack, bMarkedAsWaiting,
                         nWaitingWorkerThreads, psWaitingWorkerThreadsList>>
       \/ /\ eState # "STOP" /\ jobQueue # <<>>
          /\ stack' = [stack EXCEPT ![w] = <<Head(jobQueue)>>]
          /\ jobQueue' = Tail(jobQueue)
          /\ pc' = [pc EXCEPT ![w] = "run"]
          /\ UNCHANGED <<m_mutex, bMarkedAsWaiting, nWaitingWorkerThreads,
                         psWaitingWorkerThreadsList>>
       \/ /\ eState # "STOP" /\ jobQueue = <<>>
          /\ MarkAsWaiting(w)
          /\ pc' \in NotifyOne([pc EXCEPT ![w] = "lockOwn"])
          /\ m_mutex' = w
          /\ UNCHANGED <<jobQueue, stack>>
    /\ UNCHANGED <<eState, nPendingJobs, m_bNotifyEvent, m_nMaxThreads, aWT, call,
                   target, reserved, queueOf, m_nPendingJobs, submitted, done>>

(* It locks its own mutex, unlocks m_mutex and waits, which unlocks its    *)
(* own mutex: nobody can notify it before it waits.                        *)
FallAsleep(w) ==
    /\ pc[w] = "lockOwn"
    /\ wtMutex[w] = NoThread
    /\ m_mutex' = NoThread
    /\ pc' = [pc EXCEPT ![w] = "asleep"]
    /\ UNCHANGED <<poolState, m_bNotifyEvent, wtMutex, call, target, jobState>>

(* A notified worker leaves wait() with its own mutex locked, and keeps it *)
(* while it waits for m_mutex.                                             *)
WakeUp(w) ==
    /\ pc[w] = "woken"
    /\ wtMutex[w] = NoThread
    /\ wtMutex' = [wtMutex EXCEPT ![w] = w]
    /\ pc' = [pc EXCEPT ![w] = "relock"]
    /\ UNCHANGED <<m_mutex, poolState, m_bNotifyEvent, call, target, jobState>>

(* A job that has submitted its children waits for its queue. *)
QueueEmpty(j) == j \in Parents => m_nPendingJobs[j] = 0
JobWaits(w) ==
    /\ InJob(w)
    /\ Children[CurrentJob(w)] \subseteq submitted
    /\ ~QueueEmpty(CurrentJob(w))
    /\ pc' = [pc EXCEPT ![w] = "queueCv"]
    /\ UNCHANGED <<m_mutex, poolState, m_bNotifyEvent, wtMutex, call, target,
                   jobState>>

(* The task returns; if it was submitted through a CPLJobQueue, its        *)
(* lambda then calls DeclareJobFinished() of that queue.                   *)
PcsAfterQueueNotifyForgotten(q) == pc
PcsAfterQueueNotify(q) ==
    [t \in Threads |-> IF t \notin QueueSleepers(q) THEN pc[t]
                       ELSE IF t \in Workers THEN "run" ELSE "queueWoken"]
JobReturns(w) ==
    LET j == CurrentJob(w)
        q == queueOf[j]
    IN  /\ InJob(w)
        /\ Children[j] \subseteq submitted
        /\ QueueEmpty(j)
        /\ done' = done \cup {j}
        /\ stack' = [stack EXCEPT ![w] = Front(@)]
        /\ m_nPendingJobs' = IF q = NoThread THEN m_nPendingJobs
                             ELSE [m_nPendingJobs EXCEPT ![q] = @ - 1]
        /\ pc' = [PcsAfterQueueNotify(q) EXCEPT
                    ![w] = IF Len(stack[w]) = 1 THEN "finish" ELSE "run"]
        /\ UNCHANGED <<m_mutex, poolState, m_bNotifyEvent, wtMutex, call, target,
                       reserved, queueOf, submitted>>

(* CPLWorkerThreadPool::DeclareJobFinished() *)
DeclareJobFinished(w) ==
    /\ pc[w] = "finish"
    /\ PoolFree
    /\ nPendingJobs' = nPendingJobs - 1
    /\ pc' \in NotifyOne([pc EXCEPT ![w] = "next"])
    /\ UNCHANGED <<m_mutex, eState, jobQueue, psWaitingWorkerThreadsList,
                   nWaitingWorkerThreads, m_nMaxThreads, aWT, bMarkedAsWaiting,
                   m_bNotifyEvent, wtMutex, call, target, jobState>>

WakeUpWaitEvent(w) ==
    /\ InJob(w)
    /\ CurrentJob(w) \in WakingJobs
    /\ PoolFree
    /\ m_bNotifyEvent' = TRUE
    /\ pc' \in NotifyOne(pc)
    /\ UNCHANGED <<m_mutex, poolState, wtMutex, call, target, jobState>>

-----------------------------------------------------------------------------
(* Waiting *)

(* The condition of the wait a client is in. *)
WaitIsOver(op, n) ==
    CASE op = "WaitCompletion" -> nPendingJobs <= n
      [] op = "WaitEvent"      -> nPendingJobs < n \/ m_bNotifyEvent
      [] op = "Setup"          -> nWaitingWorkerThreads >= n
      [] op = "Destroy"        -> nPendingJobs <= 0

(* m_cv.wait(): the condition is evaluated with m_mutex locked; if it does *)
(* not hold, the thread sleeps.                                            *)
WaitOnPool(c, op, n) ==
    /\ IF WaitIsOver(op, n)
       THEN /\ pc' = [pc EXCEPT ![c] = IF op = "Destroy" THEN "stop" ELSE "idle"]
            /\ call' = IF op = "Destroy" THEN call
                       ELSE [call EXCEPT ![c] = NoCall]
            /\ m_bNotifyEvent' = (m_bNotifyEvent /\ op # "WaitEvent")
       ELSE /\ pc' = [pc EXCEPT ![c] = "cv"]
            /\ call' = [call EXCEPT ![c] = [op |-> op, n |-> n]]
            /\ UNCHANGED m_bNotifyEvent
    /\ UNCHANGED <<m_mutex, poolState, wtMutex, target, jobState>>

WaitCompletion(c, n) ==
    Idle(c) /\ PoolFree /\ WaitOnPool(c, "WaitCompletion", n)

WaitEvent(c) ==
    /\ Idle(c)
    /\ PoolFree
    /\ nPendingJobs # 0
    /\ WaitOnPool(c, "WaitEvent", nPendingJobs)

WaitAgain(c) ==
    /\ pc[c] = "cvWoken"
    /\ PoolFree
    /\ WaitOnPool(c, call[c].op, call[c].n)

(* CPLJobQueue::WaitCompletion() and WaitEvent() of the queue of a client *)
QueueWaitIsOverEarly(c, op, n) ==
    \/ op = "WaitCompletion" /\ m_nPendingJobs[c] <= n + 1
    \/ op = "WaitEvent" /\ m_nPendingJobs[c] < n
QueueWaitIsOver(c, op, n) ==
    \/ op = "WaitCompletion" /\ m_nPendingJobs[c] <= n
    \/ op = "WaitEvent" /\ m_nPendingJobs[c] < n

WaitOnQueue(c, op, n) ==
    /\ IF QueueWaitIsOver(c, op, n)
       THEN /\ pc' = [pc EXCEPT ![c] = "idle"]
            /\ call' = [call EXCEPT ![c] = NoCall]
       ELSE /\ pc' = [pc EXCEPT ![c] = "queueCv"]
            /\ call' = [call EXCEPT ![c] = [op |-> op, n |-> n]]
    /\ UNCHANGED <<m_mutex, poolState, m_bNotifyEvent, wtMutex, target, jobState>>

QueueWaitCompletion(c, n) ==
    /\ Idle(c)
    /\ pc' = [pc EXCEPT ![c] = "queueWoken"]
    /\ call' = [call EXCEPT ![c] = [op |-> "WaitCompletion", n |-> n]]
    /\ UNCHANGED <<m_mutex, poolState, m_bNotifyEvent, wtMutex, target, jobState>>

QueueWaitEvent(c) ==
    /\ Idle(c)
    /\ m_nPendingJobs[c] # 0
    /\ WaitOnQueue(c, "WaitEvent", m_nPendingJobs[c])

QueueWaitAgain(c) ==
    pc[c] = "queueWoken" /\ WaitOnQueue(c, call[c].op, call[c].n)

KindOfWait(t) == CASE pc[t] = "cv"      -> "pool"
                   [] pc[t] = "queueCv" -> "queue"
                   [] pc[t] = "asleep"  -> "worker"

(* A wait on a condition variable may return without having been notified; *)
(* the waits of the pool and of a queue then evaluate their condition, the *)
(* one of a worker goes on as if it had been notified.                     *)
SpuriousWakeUp(t) ==
    /\ pc[t] \in {"cv", "queueCv", "asleep"}
    /\ KindOfWait(t) \in Spurious
    /\ pc' = [pc EXCEPT ![t] = CASE @ = "cv" -> "cvWoken"
                                 [] @ = "asleep" -> "woken"
                                 [] OTHER -> IF t \in Workers THEN "run"
                                             ELSE "queueWoken"]
    /\ UNCHANGED <<m_mutex, poolState, m_bNotifyEvent, wtMutex, call, target,
                   jobState>>

-----------------------------------------------------------------------------
(* Destruction, by one client when the others are through with the pool    *)
(* and the job queues have been destroyed                                  *)

Destroy(c) ==
    /\ \A d \in Clients : Idle(d) /\ m_nPendingJobs[d] = 0
    /\ m_nMaxThreads > 0
    /\ pc' = [pc EXCEPT ![c] = "cvWoken"]
    /\ call' = [call EXCEPT ![c] = [op |-> "Destroy", n |-> 0]]
    /\ UNCHANGED <<m_mutex, poolState, m_bNotifyEvent, wtMutex, target, jobState>>

Stop(c) ==
    /\ pc[c] = "stop"
    /\ PoolFree
    /\ eState' = "STOP"
    /\ pc' = [pc EXCEPT ![c] = "join"]
    /\ target' = [target EXCEPT ![c] = 1]
    /\ UNCHANGED <<m_mutex, jobQueue, nPendingJobs, psWaitingWorkerThreadsList,
                   nWaitingWorkerThreads, m_nMaxThreads, aWT, bMarkedAsWaiting,
                   m_bNotifyEvent, wtMutex, call, jobState>>

(* Each worker in turn is notified under its own mutex ... *)
NotifyStop(c) ==
    /\ pc[c] = "join"
    /\ target[c] <= aWT
    /\ wtMutex[target[c]] = NoThread
    /\ pc' = [pc EXCEPT ![c] = "joining",
                        ![target[c]] = IF @ = "asleep" THEN "woken" ELSE @]
    /\ UNCHANGED <<m_mutex, poolState, m_bNotifyEvent, wtMutex, call, target,
                   jobState>>

(* ... and joined. *)
Joined(w) == pc[w] = "exit"
Join(c) ==
    /\ pc[c] = "joining"
    /\ Joined(target[c])
    /\ pc' = [pc EXCEPT ![c] = "join"]
    /\ target' = [target EXCEPT ![c] = @ + 1]
    /\ UNCHANGED <<m_mutex, poolState, m_bNotifyEvent, wtMutex, call, jobState>>

Destroyed(c) ==
    /\ pc[c] = "join"
    /\ target[c] > aWT
    /\ pc' = [pc EXCEPT ![c] = "gone"]
    /\ UNCHANGED <<m_mutex, poolState, m_bNotifyEvent, wtMutex, call, target,
                   jobState>>

-----------------------------------------------------------------------------
(* What a thread does by itself once it has started a call or a job ... *)
ClientStep(c) ==
    \/ BatchNext(c) \/ Notify(c) \/ WaitAgain(c) \/ QueueWaitAgain(c)
    \/ Stop(c) \/ NotifyStop(c) \/ Join(c) \/ Destroyed(c)

WorkerStep(w) ==
    \/ GetNextJob(w) \/ FallAsleep(w) \/ WakeUp(w)
    \/ \E k \in ChildJobs : SubmitNested(w, k) \/ SubmitJobsNested(w, k)
    \/ EnqueueNested(w) \/ Notify(w)
    \/ JobWaits(w) \/ JobReturns(w) \/ DeclareJobFinished(w)

(* ... and what it may choose to do. *)
Batches == {js \in UNION {[1..n -> TopJobs \ (QueueJobs \cup submitted)] :
                          n \in 1..MaxBatch} : IsInjective(js)}

ClientCall(c) ==
    \/ /\ "setup" \in Calls[c]
       /\ \E n \in 1..NThreads : GDALGetGlobalThreadPool(c, n) \/ Setup(c, n)
    \/ /\ "submit" \in Calls[c]
       /\ \/ \E j \in TopJobs \ (QueueJobs \cup submitted) : SubmitJob(c, j)
          \/ \E js \in Batches : SubmitJobs(c, js)
    \/ /\ "queueSubmit" \in Calls[c]
       /\ \E j \in QueueJobs \ submitted : SubmitJob(c, j)
    \/ /\ "wait" \in Calls[c]
       /\ \/ \E n \in 0..MaxRemaining : WaitCompletion(c, n)
          \/ WaitEvent(c)
    \/ /\ "queueWait" \in Calls[c]
       /\ \/ \E n \in 0..MaxRemaining : QueueWaitCompletion(c, n)
          \/ QueueWaitEvent(c)
    \/ /\ "destroy" \in Calls[c]
       /\ Destroy(c)

Next ==
    \/ \E c \in Clients : ClientStep(c) \/ ClientCall(c)
    \/ \E w \in Workers : WorkerStep(w) \/ WakeUpWaitEvent(w)
    \/ \E t \in Threads : SpuriousWakeUp(t)

(* Threads are scheduled and mutexes are granted, and jobs return. *)
Fairness ==
    /\ \A c \in Clients : WF_vars(ClientStep(c))
    /\ \A w \in Workers : WF_vars(WorkerStep(w))

Spec == Init /\ [][Next]_vars
FairSpec == Spec /\ Fairness

-----------------------------------------------------------------------------
(* Properties *)

(* Every variable keeps its type; the pool never has more threads than     *)
(* m_nMaxThreads.                                                          *)
TypeOK ==
    /\ m_mutex \in Threads \cup {NoThread}
    /\ eState \in {"OK", "STOP"}
    /\ jobQueue \in Seq(Jobs)
    /\ nPendingJobs \in 0..Cardinality(Jobs)
    /\ m_bNotifyEvent \in BOOLEAN
    /\ psWaitingWorkerThreadsList \in Seq(Workers)
    /\ nWaitingWorkerThreads \in -NThreads..NThreads
    /\ m_nMaxThreads \in 0..NThreads
    /\ aWT \in 0..m_nMaxThreads
    /\ bMarkedAsWaiting \in [Workers -> BOOLEAN]
    /\ wtMutex \in [Workers -> Threads \cup {NoThread}]
    /\ \A c \in Clients : pc[c] \in ClientPcs
    /\ \A w \in Workers : pc[w] \in WorkerPcs
    /\ call \in [Clients -> [op : CallOps, n : Int]]
    /\ target \in [Threads -> 0..NThreads + 1]
    /\ stack \in [Workers -> Seq(Jobs)]
    /\ reserved \in [Workers -> Jobs \cup {NoThread}]
    /\ queueOf \in [Jobs -> Queues \cup {NoThread}]
    /\ m_nPendingJobs \in [Queues -> 0..Cardinality(Jobs)]
    /\ done \subseteq submitted /\ submitted \subseteq Jobs

(* The list of waiting workers holds each marked worker once, and          *)
(* nWaitingWorkerThreads is its length less the reservations of the jobs   *)
(* that are between the two critical sections of SubmitJob().              *)
WaitingListExact ==
    /\ IsInjective(psWaitingWorkerThreadsList)
    /\ Range(psWaitingWorkerThreadsList) = {w \in Workers : bMarkedAsWaiting[w]}
    /\ nWaitingWorkerThreads = Len(psWaitingWorkerThreadsList)
                               - Cardinality({w \in Workers : pc[w] = "reserved"})

(* nPendingJobs counts the jobs queued or being run by a worker that took  *)
(* them from the queue; m_nPendingJobs of a CPLJobQueue the jobs submitted *)
(* through it that have not returned.                                      *)
PendingExact ==
    /\ nPendingJobs = Len(jobQueue)
         + Cardinality({w \in Workers : stack[w] # <<>> \/ pc[w] = "finish"})
    /\ \A q \in Queues : m_nPendingJobs[q] =
         Cardinality({j \in submitted \ done : queueOf[j] = q})

(* No wake-up is lost: while a worker is in the waiting list, the queued   *)
(* jobs do not outnumber the workers that are on their way to GetNextJob() *)
(* and the wake-ups that SubmitJobs() has still to do.                     *)
Coming == {w \in Workers :
              \/ pc[w] \in {"next", "woken", "relock"}
              \/ \E t \in Threads : pc[t] = "notify" /\ target[t] = w}
WakeUpsLeft ==
    LET batches == {c \in Clients : call[c].op = "SubmitJobs"}
    IN  FoldFunctionOnSet(+, 0, [c \in Clients |-> call[c].n], batches)
NoWakeUpLost ==
    psWaitingWorkerThreadsList # <<>> =>
        Len(jobQueue) <= Cardinality(Coming) + WakeUpsLeft

(* m_mutex and the mutexes of the workers are taken in both orders: a      *)
(* submitter locks the mutex of a waiting worker under m_mutex, a worker   *)
(* that comes out of its wait locks m_mutex under its own mutex.  No       *)
(* submitter waits for a worker that waits for it.                         *)
NoCircularWait ==
    ~\E t \in Threads, w \in Workers :
        /\ m_mutex = t /\ pc[t] = "notify" /\ target[t] = w
        /\ wtMutex[w] = w /\ pc[w] = "relock"

(* The counters and the list that the critical sections keep agree with    *)
(* what the threads are doing, also between the two critical sections of a *)
(* SubmitJob() called from a job.                                          *)
PoolConsistent == TypeOK /\ WaitingListExact /\ PendingExact

(* A client that comes back from WaitCompletion(0) of its queue finds all  *)
(* the jobs of the queue done; one that comes back from the destructor of  *)
(* the pool finds every job done and every worker out of                   *)
(* WorkerThreadFunction().                                                 *)
ReturnsFromQueueWait(c) ==
    /\ pc[c] = "queueWoken" /\ pc'[c] = "idle"
    /\ call[c] = [op |-> "WaitCompletion", n |-> 0]
ReturnsFromDestructor(c) == pc[c] # "gone" /\ pc'[c] = "gone"
CompletionMeansDone ==
    [][\A c \in Clients :
          /\ ReturnsFromQueueWait(c) =>
                \A j \in submitted : queueOf[j] = c => j \in done
          /\ ReturnsFromDestructor(c) =>
                submitted = done /\ \A w \in 1..aWT : pc[w] = "exit"]_vars

Pool == INSTANCE JobPool WITH
    queued  <- jobQueue,
    running <- {stack[w][1] : w \in {v \in Workers : stack[v] # <<>>}},
    inline  <- UNION {{stack[w][i] : i \in 2..Len(stack[w])} : w \in Workers},
    done    <- done

(* The pool implements JobPool: each submitted job is run exactly once, in *)
(* submission order, and ends, even when jobs submit jobs and wait for     *)
(* them in the same pool.                                                  *)
ImplementsJobPool == Pool!PoolSpec

(* Every call of a client returns: SubmitJob(), SubmitJobs(), Setup(), the *)
(* waits for the pool or for a queue, and the destructor of the pool.      *)
CallsReturn == \A c \in Clients : pc[c] # "idle" ~> pc[c] \in {"idle", "gone"}
==============================================================================
