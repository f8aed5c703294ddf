------------------------ MODULE WorkerThreadPoolProofs ------------------------
(***************************************************************************)
(* Proofs about WorkerThreadPool, for every number of clients, workers and *)
(* jobs: what the counters, lists and stacks mean, and that its threads,   *)
(* mutexes and condition variables do what JobPool says (the safety part   *)
(* of ImplementsJobPool).                                                  *)
(***************************************************************************)
EXTENDS WorkerThreadPool, TLAPS, FiniteSetTheorems, SequenceTheorems

USE ThreadsAssumption

-----------------------------------------------------------------------------
(* The inductive invariant, in the order in which its parts are proved *)

Pcs == ClientPcs \cup WorkerPcs

(* Every variable keeps its type.  The counters are only known to be       *)
(* integers so far: their bounds come from what they count.                *)
PoolTypes ==
    /\ m_mutex \in Threads \cup {NoThread}
    /\ eState \in {"OK", "STOP"}
    /\ jobQueue \in Seq(Jobs)
    /\ nPendingJobs \in Int
    /\ m_nMaxThreads \in 0..NThreads
    /\ aWT \in 0..m_nMaxThreads

WaitingTypes ==
    /\ psWaitingWorkerThreadsList \in Seq(Workers)
    /\ nWaitingWorkerThreads \in Int
    /\ bMarkedAsWaiting \in [Workers -> BOOLEAN]
    /\ wtMutex \in [Workers -> Threads \cup {NoThread}]

ThreadTypes ==
    /\ pc \in [Threads -> Pcs]
    /\ call \in [Clients -> [op : CallOps, n : Int]]
    /\ target \in [Threads -> 0..NThreads + 1]

JobTypes ==
    /\ stack \in [Workers -> Seq(Jobs)]
    /\ reserved \in [Workers -> Jobs \cup {NoThread}]
    /\ queueOf \in [Jobs -> Queues \cup {NoThread}]
    /\ m_nPendingJobs \in [Queues -> Int]
    /\ submitted \subseteq Jobs /\ done \subseteq Jobs

Types == PoolTypes /\ WaitingTypes /\ ThreadTypes /\ JobTypes

(* Where a thread is in its code determines what it has at hand. *)
Busy == {"run", "reserved", "notify", "queueCv"}

ClientControl(c) ==
    /\ pc[c] \in ClientPcs
    /\ pc[c] \in {"cv", "cvWoken"} =>
          call[c].op \in {"WaitCompletion", "WaitEvent", "Setup", "Destroy"}
    /\ pc[c] \in {"queueCv", "queueWoken"} =>
          call[c].op \in {"WaitCompletion", "WaitEvent"}
    /\ pc[c] = "notify" => target[c] \in 1..aWT
    /\ pc[c] \in {"join", "joining"} => target[c] \in 1..aWT + 1
    /\ pc[c] = "joining" => target[c] <= aWT

WorkerControl(w) ==
    /\ pc[w] \in WorkerPcs
    /\ pc[w] = "none" <=> w > aWT
    /\ bMarkedAsWaiting[w] => w <= aWT
    /\ pc[w] = "notify" => target[w] \in 1..aWT
    /\ stack[w] # <<>> <=> pc[w] \in Busy
    /\ reserved[w] # NoThread <=> pc[w] = "reserved"

Control ==
    /\ \A c \in Clients : ClientControl(c)
    /\ \A w \in Workers : WorkerControl(w)
    /\ \A i \in DOMAIN psWaitingWorkerThreadsList :
          psWaitingWorkerThreadsList[i] <= aWT

(* A job that was submitted and has not returned is in one place: the      *)
(* queue, the stack of a worker, or the hands of a job that is about to    *)
(* queue it.                                                               *)
Queued(j) == \E i \in DOMAIN jobQueue : jobQueue[i] = j
StackedBy(w, j) == \E i \in DOMAIN stack[w] : stack[w][i] = j
ReservedBy(w, j) == reserved[w] = j

Placed ==
    /\ done \subseteq submitted
    /\ \A j \in Jobs : j \in submitted \ done <=>
          Queued(j) \/ \E w \in Workers : StackedBy(w, j) \/ ReservedBy(w, j)

InOnePlace ==
    \A j \in Jobs : \A v, w \in Workers :
        /\ StackedBy(v, j) => ~Queued(j)
        /\ ReservedBy(v, j) => ~Queued(j) /\ ~StackedBy(w, j)
        /\ v # w => ~(StackedBy(v, j) /\ StackedBy(w, j))
        /\ v # w => ~(ReservedBy(v, j) /\ ReservedBy(w, j))

NoRepeats ==
    /\ \A i, k \in DOMAIN jobQueue : jobQueue[i] = jobQueue[k] => i = k
    /\ \A w \in Workers : \A i, k \in DOMAIN stack[w] :
          stack[w][i] = stack[w][k] => i = k

JobInOnePlace == Placed /\ InOnePlace /\ NoRepeats

(* The counters and what they count. *)
InReserve == {w \in Workers : pc[w] = "reserved"}
TakenFromQueue == {w \in Workers : stack[w] # <<>> \/ pc[w] = "finish"}
PendingIn(q) == {j \in submitted \ done : queueOf[j] = q}

Unqueued == \A j \in Jobs \ submitted : queueOf[j] = NoThread

PendingAreSubmitted ==
    nPendingJobs + Cardinality(InReserve) <= Cardinality(submitted)

(* A client in the destructor is alone, and once it has seen that no job   *)
(* is pending, none is unfinished; the workers that it has joined are out. *)
Destroying(c) == call[c].op = "Destroy"
DestroyPcs == {"cv", "cvWoken", "stop", "join", "joining", "gone"}
AfterWait == {"stop", "join", "joining", "gone"}
DestructorAlone ==
    \A c \in Clients :
        /\ pc[c] \in AfterWait => Destroying(c)
        /\ Destroying(c) =>
              /\ pc[c] \in DestroyPcs
              /\ \A d \in Clients \ {c} : pc[d] = "idle" /\ ~Destroying(d)
              /\ pc[c] \in AfterWait => nPendingJobs <= 0
              /\ pc[c] \in {"join", "joining"} =>
                    \A w \in Workers : w < target[c] => pc[w] = "exit"

(* A child that was submitted is done, or counted in the queue of its      *)
(* parent, or run by the thread of its parent above it on the stack.       *)
ChildAbove(w, i, k) == \E n \in DOMAIN stack[w] : n > i /\ stack[w][n] = k
ChildrenFollowed ==
    \A w \in Workers : \A i \in DOMAIN stack[w] :
        \A k \in Children[stack[w][i]] \cap (submitted \ done) :
            queueOf[k] = stack[w][i] \/ ChildAbove(w, i, k)

-----------------------------------------------------------------------------
(* What the helpers of the actions return *)

LEMMA NotifyOneFrame ==
    ASSUME NEW f \in [Threads -> Pcs], NEW g \in NotifyOne(f)
    PROVE  /\ g \in [Threads -> Pcs]
           /\ \A t \in Threads :
                 \/ g[t] = f[t]
                 \/ t \in Clients /\ f[t] = "cv" /\ g[t] = "cvWoken"
BY DEF NotifyOne, Threads, Pcs, ClientPcs, WorkerPcs

LEMMA StartedFrame ==
    ASSUME NEW f \in [Threads -> Pcs], NEW n, aWT \in Nat, n \in Nat
    PROVE  /\ Started(f, n) \in [Threads -> Pcs]
           /\ \A c \in Clients : Started(f, n)[c] = f[c]
           /\ \A w \in Workers : Started(f, n)[w] =
                 IF aWT < w /\ w <= n THEN "next" ELSE f[w]
BY DEF Started, Threads, Workers, Pcs, ClientPcs, WorkerPcs

LEMMA ThreadCounts ==
    ASSUME Types, NEW t, NEW k \in ThreadCountsAfter(aWT, t)
    PROVE  k \in aWT..m_nMaxThreads
BY DEF ThreadCountsAfter, Types, PoolTypes

LEMMA BatchThreadCounts ==
    ASSUME Types, NEW n \in Nat, NEW k \in ThreadCountsAfterBatch(n)
    PROVE  k \in aWT..m_nMaxThreads
BY DEF ThreadCountsAfterBatch, Types, PoolTypes

Shape == Types /\ Control

LEMMA Shape_Init == Init => Shape
<1> SUFFICES ASSUME Init PROVE Shape
  OBVIOUS
<1> USE DEF Init
<1>1. pc \in [Threads -> Pcs]
  BY DEF Pcs, ClientPcs, WorkerPcs
<1>2. Types
  BY <1>1 DEF Types, PoolTypes, WaitingTypes, ThreadTypes, JobTypes, NoCall, CallOps
<1>3. ASSUME NEW c \in Clients PROVE ClientControl(c)
  BY DEF ClientControl, ClientPcs, Threads
<1>4. ASSUME NEW w \in Workers PROVE WorkerControl(w)
  <2>1. pc[w] = "none"
    BY DEF Threads, Workers
  <2>2. w > 0 BY DEF Workers
  <2>3. ~bMarkedAsWaiting[w] OBVIOUS
  <2>4. stack[w] = <<>> /\ reserved[w] = NoThread OBVIOUS
  <2> QED
  BY <2>1, <2>2, <2>3, <2>4 DEF WorkerControl, WorkerPcs, Busy
<1> QED
  BY <1>2, <1>3, <1>4 DEF Shape, Control

-----------------------------------------------------------------------------
(* Types and control: clients *)

LEMMA Shape_SetupLazy ==
    ASSUME Shape, NEW c \in Clients, NEW n \in 1..NThreads, SetupLazy(c, n)
    PROVE  Shape'
<1> USE DEF Shape, SetupLazy, jobState
<1>1. PoolTypes'
  BY DEF Types, PoolTypes
<1>2. WaitingTypes' /\ ThreadTypes' /\ JobTypes'
  BY DEF Types, WaitingTypes, ThreadTypes, JobTypes
<1>3. Control'
  BY DEF Control, ClientControl, WorkerControl
<1> QED
  BY <1>1, <1>2, <1>3 DEF Types

LEMMA Shape_Setup ==
    ASSUME Shape, NEW c \in Clients, NEW n \in 1..NThreads, Setup(c, n)
    PROVE  Shape'
<1> USE DEF Shape, Types
<1>1. PICK k \in 0..n : /\ aWT' = k
                        /\ m_nMaxThreads' = k
                        /\ call' = [call EXCEPT ![c] = [op |-> "Setup", n |-> k]]
                        /\ pc' = [Started(pc, k) EXCEPT ![c] = "cvWoken"]
  BY DEF Setup
<1>2. aWT = 0 /\ k \in Nat
  BY DEF Setup, PoolTypes
<1>3. /\ Started(pc, k) \in [Threads -> Pcs]
      /\ \A d \in Clients : Started(pc, k)[d] = pc[d]
      /\ \A w \in Workers : Started(pc, k)[w] =
            IF aWT < w /\ w <= k THEN "next" ELSE pc[w]
  BY <1>2, StartedFrame DEF ThreadTypes
<1>4. UNCHANGED <<m_mutex, eState, jobQueue, nPendingJobs, m_bNotifyEvent,
                   psWaitingWorkerThreadsList, nWaitingWorkerThreads,
                   bMarkedAsWaiting, wtMutex, target, stack, reserved, queueOf,
                   m_nPendingJobs, submitted, done>>
  BY DEF Setup, jobState
<1>5. PoolTypes' /\ WaitingTypes' /\ JobTypes'
  BY <1>1, <1>4 DEF PoolTypes, WaitingTypes, JobTypes
<1>6. ThreadTypes'
  <2>1. [op |-> "Setup", n |-> k] \in [op : CallOps, n : Int]
    BY DEF CallOps
  <2> QED
    BY <1>1, <1>2, <1>3, <1>4, <2>1 DEF ThreadTypes, Pcs, ClientPcs
<1>7. ASSUME NEW d \in Clients PROVE ClientControl(d)'
  <2>1. CASE d = c
    BY <1>1, <1>3, <2>1 DEF ClientControl, ClientPcs, ThreadTypes, Threads
  <2>2. CASE d # c
    <3>1. pc'[d] = pc[d] /\ call'[d] = call[d] /\ target'[d] = target[d]
      BY <1>1, <1>3, <1>4, <2>2 DEF ThreadTypes, Threads
    <3> QED
      BY <1>1, <1>2, <3>1 DEF Control, ClientControl
  <2> QED
    BY <2>1, <2>2
<1>8. ASSUME NEW w \in Workers PROVE WorkerControl(w)'
  <2>1. pc[w] = "none" /\ ~bMarkedAsWaiting[w] /\ w \in Nat \ {0}
    BY <1>2 DEF Control, WorkerControl, Workers
  <2>2. pc'[w] = IF w <= k THEN "next" ELSE "none"
    BY <1>1, <1>2, <1>3, <2>1 DEF ThreadTypes, Threads
  <2> QED
    BY <1>1, <1>2, <1>4, <2>1, <2>2 DEF Control, WorkerControl, WorkerPcs, Busy
<1>9. \A i \in DOMAIN psWaitingWorkerThreadsList :
          psWaitingWorkerThreadsList'[i] <= aWT'
  BY <1>1, <1>2, <1>4 DEF Control, WaitingTypes, Workers
<1> QED
  BY <1>4, <1>5, <1>6, <1>7, <1>8, <1>9 DEF Control

-----------------------------------------------------------------------------
(* A thread that a step does not touch keeps its part of Control, also     *)
(* when workers are created meanwhile.                                     *)

LEMMA ClientKeeps ==
    ASSUME NEW d \in Clients, ClientControl(d), aWT \in Nat, aWT' \in Nat,
           aWT <= aWT', pc'[d] = pc[d], call'[d] = call[d],
           target'[d] = target[d]
    PROVE  ClientControl(d)'
BY DEF ClientControl

LEMMA WorkerKeeps ==
    ASSUME NEW w \in Workers, WorkerControl(w), aWT \in Nat, aWT' \in Nat,
           aWT <= aWT', pc'[w] = pc[w], target'[w] = target[w],
           bMarkedAsWaiting'[w] => bMarkedAsWaiting[w],
           stack'[w] = stack[w], reserved'[w] = reserved[w],
           w > aWT => w > aWT'
    PROVE  WorkerControl(w)'
BY DEF WorkerControl, Workers

LEMMA WorkerStarts ==
    ASSUME Shape, Types', NEW w \in Workers, aWT <= aWT',
           pc'[w] = Started(pc, aWT')[w], target'[w] = target[w],
           bMarkedAsWaiting'[w] => bMarkedAsWaiting[w],
           stack'[w] = stack[w], reserved'[w] = reserved[w]
    PROVE  WorkerControl(w)'
<1>1. WorkerControl(w) /\ w \in Nat
  BY DEF Shape, Control, Workers
<1>0. aWT \in Nat /\ aWT' \in Nat /\ pc \in [Threads -> Pcs]
  BY DEF Shape, Types, PoolTypes, ThreadTypes
<1>2. pc'[w] = IF aWT < w /\ w <= aWT' THEN "next" ELSE pc[w]
  BY <1>0, StartedFrame
<1>3. CASE aWT < w /\ w <= aWT'
  BY <1>0, <1>1, <1>2, <1>3 DEF WorkerControl, WorkerPcs, Busy
<1>4. CASE ~(aWT < w /\ w <= aWT')
  BY <1>0, <1>1, <1>2, <1>4 DEF WorkerControl, WorkerPcs, Busy
<1> QED
  BY <1>3, <1>4

(* Submitting: what PopWaitingWorker() and Enqueue() do. *)

LEMMA PopFrame ==
    ASSUME Shape, NEW t \in Threads, NEW f \in [Threads -> Pcs], NEW n \in Int,
           psWaitingWorkerThreadsList # <<>>, PopWaitingWorker(t, f, n)
    PROVE  /\ UNCHANGED wtMutex => WaitingTypes'
           /\ m_mutex' = t
           /\ pc' \in [Threads -> Pcs] /\ target' \in [Threads -> 0..NThreads + 1]
           /\ pc'[t] = "notify" /\ target'[t] \in 1..aWT
           /\ \A u \in Threads \ {t} : pc'[u] = f[u] /\ target'[u] = target[u]
           /\ \A w \in Workers : bMarkedAsWaiting'[w] => bMarkedAsWaiting[w]
           /\ \A i \in DOMAIN psWaitingWorkerThreadsList' :
                 psWaitingWorkerThreadsList'[i] \in 1..aWT
<1> DEFINE h == Head(psWaitingWorkerThreadsList)
<1> USE DEF Shape, Types, PopWaitingWorker
<1>1. h \in Workers /\ h \in 1..aWT
  BY DEF WaitingTypes, Control, Workers
<1>2. UNCHANGED wtMutex => WaitingTypes'
  BY <1>1 DEF WaitingTypes
<1>3. pc' \in [Threads -> Pcs] /\ target' \in [Threads -> 0..NThreads + 1]
  BY <1>1 DEF ThreadTypes, Pcs, ClientPcs, Workers, PoolTypes
<1>4. /\ pc'[t] = "notify" /\ target'[t] \in 1..aWT
      /\ \A u \in Threads \ {t} : pc'[u] = f[u] /\ target'[u] = target[u]
  BY <1>1 DEF ThreadTypes
<1>5. \A w \in Workers : bMarkedAsWaiting'[w] => bMarkedAsWaiting[w]
  BY <1>1 DEF WaitingTypes
<1>6. \A i \in DOMAIN psWaitingWorkerThreadsList' :
          psWaitingWorkerThreadsList'[i] \in 1..aWT
  BY DEF WaitingTypes, Control, Workers
<1> QED
  BY <1>2, <1>3, <1>4, <1>5, <1>6

LEMMA EnqueueFrame ==
    ASSUME Shape, NEW t \in Threads, NEW j \in Jobs, NEW n \in Int, Enqueue(t, j, n)
    PROVE  /\ PoolTypes' /\ WaitingTypes'
           /\ pc' \in [Threads -> Pcs] /\ target' \in [Threads -> 0..NThreads + 1]
           /\ aWT <= aWT'
           /\ \/ pc'[t] = "notify" /\ target'[t] \in 1..aWT
              \/ pc'[t] = IF t \in Workers THEN "run" ELSE "idle"
           /\ \A u \in Threads \ {t} :
                 pc'[u] = Started(pc, aWT')[u] /\ target'[u] = target[u]
           /\ \A w \in Workers : bMarkedAsWaiting'[w] => bMarkedAsWaiting[w]
           /\ \A i \in DOMAIN psWaitingWorkerThreadsList' :
                 psWaitingWorkerThreadsList'[i] <= aWT'
<1> USE DEF Shape, Types
<1>1. aWT' \in aWT..m_nMaxThreads
  BY ThreadCounts DEF Enqueue
<1>2. aWT \in Nat /\ aWT' \in Nat /\ aWT <= aWT'
  BY <1>1 DEF PoolTypes
<1>3. Started(pc, aWT') \in [Threads -> Pcs]
  BY <1>2, StartedFrame DEF ThreadTypes
<1>4. CASE WakesWorker
  <2>1. PopWaitingWorker(t, Started(pc, aWT'), n) /\ psWaitingWorkerThreadsList # <<>>
    BY <1>4 DEF Enqueue, WakesWorker
  <2>2. UNCHANGED wtMutex
    BY DEF Enqueue
  <2>3. PoolTypes'
    BY <1>1, <2>1, PopFrame, <1>3 DEF PoolTypes, Enqueue
  <2>4. \A i \in DOMAIN psWaitingWorkerThreadsList' :
                 psWaitingWorkerThreadsList'[i] <= aWT'
    BY <1>2, <1>3, <2>1, PopFrame
  <2> HIDE DEF Shape, Types
  <2> QED
    BY <1>2, <1>3, <2>1, <2>2, <2>3, <2>4, PopFrame
<1>5. CASE ~WakesWorker
  <2>1. /\ pc' = [Started(pc, aWT') EXCEPT ![t] = IF t \in Workers THEN "run" ELSE "idle"]
        /\ nWaitingWorkerThreads' = n
        /\ UNCHANGED <<m_mutex, psWaitingWorkerThreadsList, bMarkedAsWaiting, target>>
    BY <1>5 DEF Enqueue
  <2>2. PoolTypes'
    BY <1>1, <2>1 DEF PoolTypes, Enqueue
  <2>3. WaitingTypes'
    BY <2>1 DEF WaitingTypes, Enqueue
  <2>4. pc' \in [Threads -> Pcs] /\ target' \in [Threads -> 0..NThreads + 1]
    BY <1>3, <2>1 DEF ThreadTypes, Pcs, ClientPcs, WorkerPcs
  <2>5. \A i \in DOMAIN psWaitingWorkerThreadsList' :
                 psWaitingWorkerThreadsList'[i] <= aWT'
    BY <1>2, <2>1 DEF Control, WaitingTypes, Workers
  <2> QED
    BY <1>2, <1>3, <2>1, <2>2, <2>3, <2>4, <2>5 DEF ThreadTypes, WaitingTypes
<1> QED
  BY <1>4, <1>5

LEMMA Shape_SubmitJob ==
    ASSUME Shape, NEW c \in Clients, NEW j \in Jobs, SubmitJob(c, j)
    PROVE  Shape'
<1> USE DEF Shape
<1>1. /\ nWaitingWorkerThreads \in Int /\ c \in Threads /\ c \notin Workers
      /\ Enqueue(c, j, nWaitingWorkerThreads)
  BY DEF Types, WaitingTypes, SubmitJob, Threads
<1>2. /\ UNCHANGED <<call, stack, reserved, done>>
      /\ submitted' = submitted \cup {j}
  BY DEF SubmitJob
<1>3. JobTypes'
  <2>1. CASE j \in QueueJobs
    <3>1. CountInQueue(c, j) /\ c \in Queues
      BY <2>1 DEF SubmitJob, Queues
    <3> QED
      BY <1>2, <3>1 DEF Types, JobTypes, CountInQueue
  <2>2. CASE j \notin QueueJobs
    BY <1>2, <2>2 DEF Types, JobTypes, SubmitJob
  <2> QED BY <2>1, <2>2
<1>4. Types'
  BY <1>1, <1>2, <1>3, EnqueueFrame DEF Types, ThreadTypes
<1>5. ASSUME NEW d \in Clients PROVE ClientControl(d)'
  <2>1. CASE d = c
    BY <1>1, <1>4, <2>1, EnqueueFrame
    DEF ClientControl, ClientPcs, Types, PoolTypes
  <2>2. CASE d # c
    <3>1. pc'[d] = pc[d] /\ target'[d] = target[d] /\ call'[d] = call[d]
      <4>1. /\ pc'[d] = Started(pc, aWT')[d] /\ target'[d] = target[d]
            /\ aWT \in Nat /\ aWT' \in Nat /\ pc \in [Threads -> Pcs]
        BY <1>1, <1>4, <2>2, EnqueueFrame DEF Types, PoolTypes, ThreadTypes, Threads
      <4> QED
        BY <1>2, <4>1, StartedFrame
    <3> QED
      BY <1>1, <1>4, <3>1, EnqueueFrame, ClientKeeps DEF Control, Types, PoolTypes
  <2> QED BY <2>1, <2>2
<1>6. ASSUME NEW w \in Workers PROVE WorkerControl(w)'
  <2>1. w \in Threads \ {c}
    BY DEF Threads
  <2> QED
    BY <1>1, <1>2, <1>4, <2>1, EnqueueFrame, WorkerStarts
<1> QED
  BY <1>1, <1>4, <1>5, <1>6, EnqueueFrame DEF Control

(* Steps that only move threads, with the mutexes, eState and nPendingJobs. *)
SameActivity(w) ==
    \/ pc'[w] = pc[w] /\ target'[w] = target[w]
    \/ /\ pc'[w] \in WorkerPcs \ {"none", "reserved", "notify"}
       /\ pc[w] \in WorkerPcs \ {"none", "reserved"}
       /\ pc[w] \in Busy <=> pc'[w] \in Busy

LEMMA Shape_Local ==
    ASSUME Shape, ThreadTypes',
           m_mutex' \in Threads \cup {NoThread}, eState' \in {"OK", "STOP"},
           wtMutex' \in [Workers -> Threads \cup {NoThread}], nPendingJobs' \in Int,
           UNCHANGED <<jobQueue, psWaitingWorkerThreadsList, nWaitingWorkerThreads,
                       m_nMaxThreads, aWT, bMarkedAsWaiting, jobState>>,
           \A c \in Clients : ClientControl(c)',
           \A w \in Workers : SameActivity(w)
    PROVE  Shape'
<1> USE DEF Shape
<1>1. Types'
  BY DEF Types, PoolTypes, WaitingTypes, JobTypes, jobState
<1>2. ASSUME NEW w \in Workers PROVE WorkerControl(w)'
  BY DEF Control, WorkerControl, SameActivity, jobState
<1> QED
  BY <1>1, <1>2 DEF Control

(* A client that is the only thread to move. *)
LEMMA Shape_ClientMoves ==
    ASSUME Shape, NEW c \in Clients, ThreadTypes',
           UNCHANGED <<m_mutex, wtMutex, jobQueue, psWaitingWorkerThreadsList,
                       nPendingJobs, nWaitingWorkerThreads,
                       m_nMaxThreads, aWT, bMarkedAsWaiting, jobState>>,
           eState' \in {"OK", "STOP"},
           ClientControl(c)',
           \A t \in Threads \ {c} : pc'[t] = pc[t] /\ target'[t] = target[t],
           \A d \in Clients \ {c} : call'[d] = call[d]
    PROVE  Shape'
<1>1. ASSUME NEW d \in Clients PROVE ClientControl(d)'
  <2>1. CASE d = c
    BY <2>1
  <2>2. CASE d # c
    BY <2>2, ClientKeeps DEF Shape, Control, Types, PoolTypes, Threads
  <2> QED BY <2>1, <2>2
<1>2. ASSUME NEW w \in Workers PROVE SameActivity(w)
  BY DEF SameActivity, Threads
<1>3. /\ m_mutex' \in Threads \cup {NoThread} /\ nPendingJobs' \in Int
      /\ wtMutex' \in [Workers -> Threads \cup {NoThread}]
  BY DEF Shape, Types, PoolTypes, WaitingTypes
<1> QED
  BY <1>1, <1>2, <1>3, Shape_Local

LEMMA Shape_WaitOnPool ==
    ASSUME Shape, NEW c \in Clients, NEW n \in Int,
           NEW op \in {"WaitCompletion", "WaitEvent", "Setup", "Destroy"},
           WaitOnPool(c, op, n)
    PROVE  Shape'
<1> USE DEF Shape, Types
<1>1. /\ pc' \in [Threads -> Pcs]
      /\ call' \in [Clients -> [op : CallOps, n : Int]]
      /\ pc'[c] \in {"idle", "stop", "cv"}
      /\ pc'[c] = "cv" => call'[c].op = op
      /\ \A t \in Threads \ {c} : pc'[t] = pc[t]
      /\ \A d \in Clients \ {c} : call'[d] = call[d]
  <2>1. CASE WaitIsOver(op, n)
    BY <2>1 DEF WaitOnPool, ThreadTypes, Pcs, ClientPcs, CallOps, NoCall, Threads
  <2>2. CASE ~WaitIsOver(op, n)
    BY <2>2 DEF WaitOnPool, ThreadTypes, Pcs, ClientPcs, CallOps, Threads
  <2> QED BY <2>1, <2>2
<1>2. UNCHANGED <<m_mutex, poolState, wtMutex, target, jobState>>
  BY DEF WaitOnPool
<1>3. ClientControl(c)'
  BY <1>1, <1>2 DEF ClientControl, ClientPcs
<1> QED
  BY <1>1, <1>2, <1>3, Shape_ClientMoves DEF poolState, PoolTypes, ThreadTypes

LEMMA Shape_WaitOnQueue ==
    ASSUME Shape, NEW c \in Clients, NEW n \in Int,
           NEW op \in {"WaitCompletion", "WaitEvent"}, WaitOnQueue(c, op, n)
    PROVE  Shape'
<1> USE DEF Shape, Types
<1>1. /\ pc' \in [Threads -> Pcs]
      /\ call' \in [Clients -> [op : CallOps, n : Int]]
      /\ pc'[c] \in {"idle", "queueCv"}
      /\ pc'[c] = "queueCv" => call'[c].op = op
      /\ \A t \in Threads \ {c} : pc'[t] = pc[t]
      /\ \A d \in Clients \ {c} : call'[d] = call[d]
  <2>1. CASE QueueWaitIsOver(c, op, n)
    BY <2>1 DEF WaitOnQueue, ThreadTypes, Pcs, ClientPcs, CallOps, NoCall, Threads
  <2>2. CASE ~QueueWaitIsOver(c, op, n)
    BY <2>2 DEF WaitOnQueue, ThreadTypes, Pcs, ClientPcs, CallOps, Threads
  <2> QED BY <2>1, <2>2
<1>2. UNCHANGED <<m_mutex, poolState, wtMutex, target, jobState>>
  BY DEF WaitOnQueue
<1>3. ClientControl(c)'
  BY <1>1, <1>2 DEF ClientControl, ClientPcs
<1> QED
  BY <1>1, <1>2, <1>3, Shape_ClientMoves DEF poolState, PoolTypes, ThreadTypes

LEMMA Shape_ClientWaits ==
    ASSUME Shape, NEW c \in Clients,
           \/ \E n \in 0..MaxRemaining : WaitCompletion(c, n)
           \/ WaitEvent(c)
           \/ WaitAgain(c)
           \/ \E n \in 0..MaxRemaining : QueueWaitCompletion(c, n)
           \/ QueueWaitEvent(c)
           \/ QueueWaitAgain(c)
    PROVE  Shape'
<1>1. ASSUME NEW n \in 0..MaxRemaining, WaitCompletion(c, n) PROVE Shape'
  BY <1>1, Shape_WaitOnPool, BoundsAssumption DEF WaitCompletion
<1>2. CASE WaitEvent(c)
  BY <1>2, Shape_WaitOnPool DEF WaitEvent, Shape, Types, PoolTypes
<1>3. CASE WaitAgain(c)
  <2>1. /\ call[c].op \in {"WaitCompletion", "WaitEvent", "Setup", "Destroy"}
        /\ call[c].n \in Int
    BY <1>3 DEF WaitAgain, Shape, Control, ClientControl, Types, ThreadTypes
  <2> QED
    BY <1>3, <2>1, Shape_WaitOnPool DEF WaitAgain
<1>4. ASSUME NEW n \in 0..MaxRemaining, QueueWaitCompletion(c, n) PROVE Shape'
  <2> n \in Int
    BY BoundsAssumption
  <2>1. /\ pc' = [pc EXCEPT ![c] = "queueWoken"]
        /\ call' = [call EXCEPT ![c] = [op |-> "WaitCompletion", n |-> n]]
        /\ UNCHANGED <<m_mutex, poolState, wtMutex, target, jobState>>
    BY <1>4 DEF QueueWaitCompletion
  <2>2. ThreadTypes'
    BY <2>1 DEF Shape, Types, ThreadTypes, CallOps, Pcs, ClientPcs
  <2>3. ClientControl(c)'
    BY <2>1 DEF Shape, Types, ThreadTypes, ClientControl, ClientPcs, Threads
  <2> QED
    BY <2>1, <2>2, <2>3, Shape_ClientMoves
    DEF Shape, Types, ThreadTypes, PoolTypes, poolState
<1>5. CASE QueueWaitEvent(c)
  <2>1. m_nPendingJobs[c] \in Int
    BY DEF Shape, Types, JobTypes, Queues
  <2> QED
    BY <1>5, <2>1, Shape_WaitOnQueue DEF QueueWaitEvent
<1>6. CASE QueueWaitAgain(c)
  <2>1. call[c].op \in {"WaitCompletion", "WaitEvent"} /\ call[c].n \in Int
    BY <1>6 DEF QueueWaitAgain, Shape, Control, ClientControl, Types, ThreadTypes
  <2> QED
    BY <1>6, <2>1, Shape_WaitOnQueue DEF QueueWaitAgain
<1> QED
  BY <1>1, <1>2, <1>3, <1>4, <1>5, <1>6

(* The destructor. *)
LEMMA Shape_Destroy ==
    ASSUME Shape, NEW c \in Clients,
           Destroy(c) \/ Stop(c) \/ NotifyStop(c) \/ Join(c) \/ Destroyed(c)
    PROVE  Shape'
<1> c \in Threads
  BY DEF Threads
<1>1. CASE Destroy(c)
  <2>1. ThreadTypes' /\ ClientControl(c)'
    BY <1>1 DEF Destroy, Shape, Types, ThreadTypes, CallOps, Pcs, ClientPcs, ClientControl
  <2> QED
    BY <1>1, <2>1, Shape_ClientMoves
    DEF Destroy, Shape, Types, ThreadTypes, PoolTypes, poolState
<1>2. CASE Stop(c)
  <2>1. ThreadTypes' /\ ClientControl(c)'
    BY <1>2 DEF Stop, Shape, Types, ThreadTypes, PoolTypes, Pcs, ClientPcs, ClientControl
  <2> QED
    BY <1>2, <2>1, Shape_ClientMoves DEF Stop, Shape, Types, ThreadTypes
<1>3. CASE NotifyStop(c)
  <2>1. target[c] \in Workers /\ target[c] \in 1..aWT /\ target[c] # c
    BY <1>3 DEF NotifyStop, Shape, Control, ClientControl, Types, PoolTypes, Workers
  <2>2. ThreadTypes'
    BY <1>3, <2>1 DEF NotifyStop, Shape, Types, ThreadTypes, Threads, Pcs, ClientPcs, WorkerPcs
  <2>3. ASSUME NEW d \in Clients PROVE ClientControl(d)'
    <3>1. CASE d = c
      BY <1>3, <2>1, <3>1 DEF NotifyStop, Shape, Types, ThreadTypes, PoolTypes,
             poolState, Control, ClientControl, ClientPcs
    <3>2. CASE d # c
      BY <1>3, <2>1, <3>2, ClientKeeps
      DEF NotifyStop, Shape, Types, ThreadTypes, PoolTypes, poolState, Control, Threads
    <3> QED BY <3>1, <3>2
  <2>4. ASSUME NEW w \in Workers PROVE SameActivity(w)
    BY <1>3, <2>1 DEF NotifyStop, Shape, Types, ThreadTypes, Threads, SameActivity,
                      WorkerPcs, Busy
  <2> QED
    BY <1>3, <2>2, <2>3, <2>4, Shape_Local
    DEF NotifyStop, Shape, Types, PoolTypes, WaitingTypes, poolState
<1>4. CASE Join(c)
  <2>1. target[c] \in 1..aWT
    BY <1>4 DEF Join, Shape, Control, ClientControl, Types, PoolTypes
  <2>2. ThreadTypes' /\ ClientControl(c)'
    BY <1>4, <2>1 DEF Join, Shape, Types, ThreadTypes, PoolTypes, poolState, Pcs, ClientPcs,
                      ClientControl
  <2> QED
    BY <1>4, <2>2, Shape_ClientMoves
    DEF Join, Shape, Types, ThreadTypes, PoolTypes, poolState
<1>5. CASE Destroyed(c)
  <2>1. ThreadTypes' /\ ClientControl(c)'
    BY <1>5 DEF Destroyed, Shape, Types, ThreadTypes, Pcs, ClientPcs, ClientControl
  <2> QED
    BY <1>5, <2>1, Shape_ClientMoves
    DEF Destroyed, Shape, Types, ThreadTypes, PoolTypes, poolState
<1> QED
  BY <1>1, <1>2, <1>3, <1>4, <1>5

(* Batches and notifications. *)
LEMMA BatchIsSeq ==
    ASSUME NEW js \in Batches
    PROVE  /\ js \in Seq(Jobs) /\ Len(js) \in Nat \ {0} /\ Len(js) <= MaxBatch
           /\ DOMAIN js = 1..Len(js)
           /\ \A i \in DOMAIN js : js[i] \in TopJobs \ (QueueJobs \cup submitted)
           /\ \A i, k \in DOMAIN js : js[i] = js[k] => i = k
<1>1. PICK n \in 1..MaxBatch : js \in [1..n -> TopJobs \ (QueueJobs \cup submitted)]
  BY DEF Batches
<1>2. n \in Nat \ {0} /\ n <= MaxBatch
  BY BoundsAssumption
<1>3. js \in [1..n -> Jobs]
  BY <1>1 DEF TopJobs
<1>4. js \in Seq(Jobs) /\ Len(js) = n
  BY <1>2, <1>3
<1>5. \A i, k \in DOMAIN js : js[i] = js[k] => i = k
  BY DEF Batches, IsInjective
<1> QED
  BY <1>1, <1>2, <1>4, <1>5

LEMMA Shape_SubmitJobs ==
    ASSUME Shape, NEW c \in Clients, NEW js \in Batches, SubmitJobs(c, js)
    PROVE  Shape'
<1> DEFINE n == Len(js)
<1>0. js \in Seq(Jobs) /\ n \in Nat \ {0} /\ Range(js) \subseteq Jobs
  BY BatchIsSeq DEF Range
<1> c \in Threads /\ c \notin Workers
  BY DEF Threads
<1>1. aWT' \in aWT..m_nMaxThreads
  BY <1>0, BatchThreadCounts DEF SubmitJobs, Shape
<1>2. aWT \in Nat /\ aWT' \in Nat /\ aWT <= aWT' /\ pc \in [Threads -> Pcs]
      /\ nWaitingWorkerThreads \in Int
  BY <1>1 DEF Shape, Types, PoolTypes, ThreadTypes, WaitingTypes
<1>3. Started(pc, aWT') \in [Threads -> Pcs]
  BY <1>2, StartedFrame
<1>4. JobTypes'
  BY <1>0 DEF SubmitJobs, Shape, Types, JobTypes
<1>5. /\ WaitingTypes' /\ ThreadTypes'
      /\ m_mutex' \in Threads \cup {NoThread}
      /\ ClientControl(c)'
      /\ \A u \in Threads \ {c} : pc'[u] = Started(pc, aWT')[u] /\ target'[u] = target[u]
      /\ \A d \in Clients \ {c} : call'[d] = call[d]
      /\ \A w \in Workers : bMarkedAsWaiting'[w] => bMarkedAsWaiting[w]
      /\ \A i \in DOMAIN psWaitingWorkerThreadsList' :
            psWaitingWorkerThreadsList'[i] <= aWT'
  <2>1. CASE WakesWorker
    <3>1. /\ PopWaitingWorker(c, Started(pc, aWT'), nWaitingWorkerThreads)
          /\ psWaitingWorkerThreadsList # <<>>
          /\ call' = [call EXCEPT ![c] = [op |-> "SubmitJobs", n |-> n - 1]]
          /\ UNCHANGED wtMutex
      BY <2>1 DEF SubmitJobs, WakesWorker
    <3>2. [op |-> "SubmitJobs", n |-> n - 1] \in [op : CallOps, n : Int]
      BY <1>0 DEF CallOps
    <3>3. /\ call' \in [Clients -> [op : CallOps, n : Int]]
          /\ \A d \in Clients \ {c} : call'[d] = call[d]
      BY <3>1, <3>2 DEF Shape, Types, ThreadTypes
    <3>4. /\ WaitingTypes' /\ ThreadTypes'
          /\ m_mutex' \in Threads \cup {NoThread}
          /\ pc'[c] = "notify" /\ target'[c] \in 1..aWT
      BY <1>2, <1>3, <3>1, <3>3, PopFrame DEF ThreadTypes
    <3>5. ClientControl(c)'
      BY <1>2, <3>4 DEF ClientControl, ClientPcs
    <3>6. \A i \in DOMAIN psWaitingWorkerThreadsList' :
             psWaitingWorkerThreadsList'[i] <= aWT'
      BY <1>2, <1>3, <3>1, PopFrame
    <3> QED
      BY <1>2, <1>3, <3>1, <3>3, <3>4, <3>5, <3>6, PopFrame
  <2>2. CASE ~WakesWorker
    <3>1. /\ pc' = Started(pc, aWT')
          /\ UNCHANGED <<m_mutex, psWaitingWorkerThreadsList, call,
                         nWaitingWorkerThreads, bMarkedAsWaiting, target, wtMutex>>
          /\ pc[c] = "idle"
      BY <2>2 DEF SubmitJobs, Idle
    <3>2. pc'[c] = "idle"
      BY <1>2, <3>1, StartedFrame
    <3>3. WaitingTypes' /\ ThreadTypes' /\ m_mutex' \in Threads \cup {NoThread}
      BY <1>3, <3>1 DEF Shape, Types, PoolTypes, WaitingTypes, ThreadTypes
    <3>4. ClientControl(c)'
      BY <3>2 DEF ClientControl, ClientPcs
    <3>5. \A i \in DOMAIN psWaitingWorkerThreadsList' :
             psWaitingWorkerThreadsList'[i] <= aWT'
      BY <1>2, <3>1 DEF Shape, Types, WaitingTypes, Control, Workers
    <3> QED
      BY <3>1, <3>3, <3>4, <3>5
  <2> QED BY <2>1, <2>2
<1>6. PoolTypes'
  BY <1>0, <1>1, <1>5 DEF SubmitJobs, Shape, Types, PoolTypes
<1>7. Types'
  BY <1>4, <1>5, <1>6 DEF Types
<1>8. ASSUME NEW d \in Clients, d # c PROVE ClientControl(d)'
  <2>1. pc'[d] = pc[d] /\ target'[d] = target[d] /\ call'[d] = call[d]
    BY <1>2, <1>5, <1>8, StartedFrame DEF Threads
  <2> QED
    BY <1>2, <2>1, ClientKeeps DEF Shape, Control
<1>9. ASSUME NEW w \in Workers PROVE WorkerControl(w)'
  <2>1. w \in Threads \ {c} /\ stack' = stack /\ reserved' = reserved
    BY DEF Threads, SubmitJobs
  <2> QED
    BY <1>2, <1>5, <1>7, <2>1, WorkerStarts
<1> QED
  BY <1>5, <1>7, <1>8, <1>9 DEF Shape, Control

LEMMA Shape_BatchNext ==
    ASSUME Shape, NEW c \in Clients, BatchNext(c)
    PROVE  Shape'
<1> c \in Threads /\ c \notin Workers
  BY DEF Threads
<1>0. /\ aWT' = aWT /\ aWT \in Nat /\ pc \in [Threads -> Pcs]
      /\ nWaitingWorkerThreads \in Int /\ call[c].n \in Int
  BY DEF BatchNext, Shape, Types, PoolTypes, ThreadTypes, WaitingTypes
<1>1. CASE call[c].n > 0 /\ psWaitingWorkerThreadsList # <<>>
  <2>1. /\ PopWaitingWorker(c, pc, nWaitingWorkerThreads)
        /\ call' = [call EXCEPT ![c].n = @ - 1]
        /\ UNCHANGED <<eState, jobQueue, nPendingJobs, m_nMaxThreads, aWT, wtMutex,
                       jobState>>
    BY <1>1 DEF BatchNext
  <2>2. /\ call' \in [Clients -> [op : CallOps, n : Int]]
        /\ \A d \in Clients \ {c} : call'[d] = call[d]
    BY <1>0, <2>1 DEF Shape, Types, ThreadTypes
  <2>3. /\ WaitingTypes' /\ ThreadTypes'
        /\ m_mutex' \in Threads \cup {NoThread}
        /\ pc'[c] = "notify" /\ target'[c] \in 1..aWT
    BY <1>0, <1>1, <2>1, <2>2, PopFrame DEF ThreadTypes
  <2>4. PoolTypes' /\ JobTypes'
    BY <2>1, <2>3 DEF Shape, Types, PoolTypes, JobTypes, jobState
  <2>5. ASSUME NEW d \in Clients PROVE ClientControl(d)'
    <3>1. CASE d = c
      BY <1>0, <2>3, <3>1 DEF ClientControl, ClientPcs
    <3>2. CASE d # c
      <4>0. d \in Threads \ {c} /\ call'[d] = call[d]
        BY <2>2, <3>2 DEF Threads
      <4>1. pc'[d] = pc[d] /\ target'[d] = target[d] /\ call'[d] = call[d]
        BY <1>0, <1>1, <2>1, <4>0, PopFrame
      <4> QED
        BY <1>0, <4>1, ClientKeeps DEF Shape, Control
    <3> QED BY <3>1, <3>2
  <2>6. ASSUME NEW w \in Workers PROVE WorkerControl(w)'
    <3>0. w \in Threads \ {c}
      BY DEF Threads
    <3>1. /\ \A u \in Threads \ {c} : pc'[u] = pc[u] /\ target'[u] = target[u]
          /\ \A v \in Workers : bMarkedAsWaiting'[v] => bMarkedAsWaiting[v]
      BY <1>0, <1>1, <2>1, PopFrame
    <3>2. /\ pc'[w] = pc[w] /\ target'[w] = target[w]
          /\ bMarkedAsWaiting'[w] => bMarkedAsWaiting[w]
      BY <3>0, <3>1
    <3> QED
      BY <1>0, <2>1, <3>2, WorkerKeeps DEF Shape, Control, jobState
  <2>7. \A i \in DOMAIN psWaitingWorkerThreadsList' :
           psWaitingWorkerThreadsList'[i] <= aWT'
    BY <1>0, <1>1, <2>1, PopFrame
  <2> QED
    BY <2>3, <2>4, <2>5, <2>6, <2>7 DEF Shape, Types, Control
<1>2. CASE ~(call[c].n > 0 /\ psWaitingWorkerThreadsList # <<>>)
  <2>1. /\ pc' = [pc EXCEPT ![c] = "idle"]
        /\ call' = [call EXCEPT ![c] = NoCall]
        /\ UNCHANGED <<m_mutex, psWaitingWorkerThreadsList, nWaitingWorkerThreads,
                       bMarkedAsWaiting, target, eState, jobQueue, nPendingJobs,
                       m_nMaxThreads, aWT, wtMutex, jobState>>
    BY <1>2 DEF BatchNext
  <2>2. ThreadTypes' /\ ClientControl(c)'
    BY <2>1 DEF Shape, Types, ThreadTypes, CallOps, NoCall, Pcs, ClientPcs, ClientControl
  <2> QED
    BY <2>1, <2>2, Shape_ClientMoves DEF Shape, Types, ThreadTypes, PoolTypes
<1> QED
  BY <1>1, <1>2

LEMMA Shape_Notify ==
    ASSUME Shape, NEW t \in Threads, Notify(t)
    PROVE  Shape'
<1> DEFINE h == target[t]
           after == IF t \in Workers THEN "run"
                    ELSE IF call[t].op = "SubmitJobs" THEN "batch" ELSE "idle"
<1>0. h \in Workers /\ h \in Threads /\ h \in 1..aWT /\ pc[t] = "notify"
  BY DEF Notify, Shape, Control, ClientControl, WorkerControl, Types, PoolTypes,
         Threads, Workers
<1>1. pc' = [pc EXCEPT ![h] = IF @ = "asleep" THEN "woken" ELSE @, ![t] = after]
  BY DEF Notify
<1>2. /\ pc'[t] = after
      /\ h # t => pc'[h] = IF pc[h] = "asleep" THEN "woken" ELSE pc[h]
      /\ \A u \in Threads \ {t, h} : pc'[u] = pc[u]
  BY <1>0, <1>1 DEF Shape, Types, ThreadTypes
<1>3. pc' \in [Threads -> Pcs]
  BY <1>0, <1>1 DEF Shape, Types, ThreadTypes, Pcs, ClientPcs, WorkerPcs
<1>4. /\ m_mutex' = NoThread
      /\ UNCHANGED <<poolState, wtMutex, call, target, jobState>>
  BY DEF Notify
<1>5. ASSUME NEW d \in Clients PROVE ClientControl(d)'
  <2>1. CASE d = t
    BY <1>2, <2>1 DEF ClientControl, ClientPcs
  <2>2. CASE d # t
    BY <1>0, <1>2, <1>4, <2>2, ClientKeeps
    DEF Shape, Control, Types, PoolTypes, poolState, Threads
  <2> QED BY <2>1, <2>2
<1>6. ASSUME NEW w \in Workers PROVE SameActivity(w)
  <2>1. CASE w = t
    BY <1>0, <1>2, <2>1 DEF SameActivity, WorkerPcs, Busy
  <2>2. CASE w # t
    BY <1>0, <1>2, <1>4, <2>2 DEF SameActivity, WorkerPcs, Busy, Threads
  <2> QED BY <2>1, <2>2
<1> QED
  BY <1>3, <1>4, <1>5, <1>6, Shape_Local
  DEF Shape, Types, PoolTypes, WaitingTypes, ThreadTypes, poolState

LEMMA Shape_SpuriousWakeUp ==
    ASSUME Shape, NEW t \in Threads, SpuriousWakeUp(t)
    PROVE  Shape'
<1>1. /\ pc[t] \in {"cv", "queueCv", "asleep"}
      /\ \A u \in Threads \ {t} : pc'[u] = pc[u]
      /\ pc'[t] = CASE pc[t] = "cv" -> "cvWoken"
                    [] pc[t] = "asleep" -> "woken"
                    [] OTHER -> IF t \in Workers THEN "run" ELSE "queueWoken"
      /\ UNCHANGED <<m_mutex, poolState, wtMutex, call, target, jobState>>
  BY DEF SpuriousWakeUp, Shape, Types, ThreadTypes
<1>2. pc' \in [Threads -> Pcs]
  BY DEF SpuriousWakeUp, Shape, Types, ThreadTypes, Pcs, ClientPcs, WorkerPcs
<1>3. ASSUME NEW d \in Clients PROVE ClientControl(d)'
  <2>1. CASE d = t
    BY <1>1, <2>1 DEF Shape, Control, ClientControl, ClientPcs
  <2>2. CASE d # t
    BY <1>1, <2>2, ClientKeeps DEF Shape, Control, Types, PoolTypes, poolState, Threads
  <2> QED BY <2>1, <2>2
<1>4. ASSUME NEW w \in Workers PROVE SameActivity(w)
  <2>1. CASE w = t
    BY <1>1, <2>1 DEF Shape, Control, WorkerControl, SameActivity, WorkerPcs, Busy
  <2>2. CASE w # t
    BY <1>1, <2>2 DEF SameActivity, Threads
  <2> QED BY <2>1, <2>2
<1> QED
  BY <1>1, <1>2, <1>3, <1>4, Shape_Local
  DEF Shape, Types, PoolTypes, WaitingTypes, ThreadTypes, poolState

-----------------------------------------------------------------------------
(* Types and control: workers *)

(* A worker whose steps move no other worker. *)
LEMMA Shape_WorkerMoves ==
    ASSUME Shape, Types', NEW w \in Workers, WorkerControl(w)',
           UNCHANGED <<psWaitingWorkerThreadsList, aWT, call>>,
           \A t \in Threads \ {w} : target'[t] = target[t],
           \A v \in Workers \ {w} :
              /\ pc'[v] = pc[v] /\ bMarkedAsWaiting'[v] = bMarkedAsWaiting[v]
              /\ stack'[v] = stack[v] /\ reserved'[v] = reserved[v],
           \A c \in Clients : \/ pc'[c] = pc[c]
                              \/ pc[c] = "cv" /\ pc'[c] = "cvWoken"
    PROVE  Shape'
<1>0. aWT \in Nat
  BY DEF Shape, Types, PoolTypes
<1>1. ASSUME NEW c \in Clients PROVE ClientControl(c)'
  <2>1. ClientControl(c) /\ target'[c] = target[c]
    BY DEF Shape, Control, Threads
  <2> QED
    BY <2>1 DEF ClientControl, ClientPcs
<1>2. ASSUME NEW v \in Workers \ {w} PROVE WorkerControl(v)'
  <2>1. WorkerControl(v) /\ target'[v] = target[v]
    BY DEF Shape, Control, Threads
  <2> QED
    BY <2>1 DEF WorkerControl
<1> QED
  BY <1>1, <1>2 DEF Shape, Control

LEMMA Shape_SubmitNested ==
    ASSUME Shape, NEW w \in Workers, NEW k \in Jobs, SubmitNested(w, k)
    PROVE  Shape'
<1> USE DEF Shape
<1> DEFINE j == CurrentJob(w)
<1>0. /\ pc[w] = "run" /\ stack[w] # <<>> /\ w \in Threads /\ WorkerControl(w)
      /\ j \in Jobs /\ j \in Queues
  BY JobsAssumption
  DEF SubmitNested, InJob, Control, WorkerControl, Busy, CurrentJob, Last, Types, JobTypes,
      Queues, Parents, Threads
<1>1. /\ CountInQueue(j, k)
      /\ submitted' = submitted \cup {k}
      /\ UNCHANGED <<m_mutex, eState, jobQueue, nPendingJobs, m_bNotifyEvent,
                   psWaitingWorkerThreadsList, m_nMaxThreads, aWT,
                   bMarkedAsWaiting, wtMutex, call, target, done>>
  BY DEF SubmitNested
<1>2. CASE CanQueueNested
  <2>1. /\ nWaitingWorkerThreads' = nWaitingWorkerThreads - 1
        /\ reserved' = [reserved EXCEPT ![w] = k]
        /\ pc' = [pc EXCEPT ![w] = "reserved"]
        /\ UNCHANGED stack
    BY <1>2 DEF SubmitNested
  <2>2. Types'
    <3>1. PoolTypes' /\ WaitingTypes'
      BY <1>1, <2>1 DEF Types, PoolTypes, WaitingTypes
    <3>2. ThreadTypes'
      BY <1>1, <2>1 DEF Types, ThreadTypes, Pcs, WorkerPcs
    <3>3. JobTypes'
      BY <1>0, <1>1, <2>1 DEF Types, JobTypes, CountInQueue
    <3> QED BY <3>1, <3>2, <3>3 DEF Types
  <2>3. WorkerControl(w)'
    BY <1>0, <1>1, <2>1 DEF WorkerControl, WorkerPcs, Busy, Types, ThreadTypes, JobTypes
  <2> QED
    BY <1>1, <2>1, <2>2, <2>3, Shape_WorkerMoves
    DEF Types, ThreadTypes, JobTypes, Threads
<1>3. CASE ~CanQueueNested
  <2>1. /\ stack' = [stack EXCEPT ![w] = Append(@, k)]
        /\ UNCHANGED <<nWaitingWorkerThreads, reserved, pc>>
    BY <1>3 DEF SubmitNested
  <2>2. Types'
    <3>1. PoolTypes' /\ WaitingTypes' /\ ThreadTypes'
      BY <1>1, <2>1 DEF Types, PoolTypes, WaitingTypes, ThreadTypes
    <3>2. JobTypes'
      BY <1>0, <1>1, <2>1 DEF Types, JobTypes, CountInQueue
    <3> QED BY <3>1, <3>2 DEF Types
  <2>3. WorkerControl(w)'
    <3>1. stack'[w] # <<>>
      BY <2>1 DEF Types, JobTypes
    <3> QED
      BY <1>0, <1>1, <2>1, <3>1 DEF WorkerControl, WorkerPcs, Busy
  <2> QED
    BY <1>1, <2>1, <2>2, <2>3, Shape_WorkerMoves DEF Types, JobTypes
<1> QED
  BY <1>2, <1>3

LEMMA Shape_SubmitJobsNested ==
    ASSUME Shape, NEW w \in Workers, NEW k \in Jobs, SubmitJobsNested(w, k)
    PROVE  Shape'
<1> USE DEF Shape
<1>1. /\ stack' = [stack EXCEPT ![w] = Append(@, k)]
      /\ submitted' = submitted \cup {k}
      /\ UNCHANGED <<m_mutex, poolState, m_bNotifyEvent, wtMutex, pc, call, target,
                     reserved, queueOf, m_nPendingJobs, done>>
      /\ pc[w] = "run"
  BY DEF SubmitJobsNested, InJob
<1>2. PoolTypes' /\ WaitingTypes' /\ ThreadTypes'
  BY <1>1 DEF Types, PoolTypes, WaitingTypes, ThreadTypes, poolState
<1>3. JobTypes'
  BY <1>1 DEF Types, JobTypes
<1>4. WorkerControl(w)'
  <2>1. stack'[w] # <<>> /\ WorkerControl(w)
    BY <1>1 DEF Types, JobTypes, Control
  <2> QED
    BY <1>1, <2>1 DEF WorkerControl, WorkerPcs, Busy, poolState
<1> QED
  BY <1>1, <1>2, <1>3, <1>4, Shape_WorkerMoves DEF Types, JobTypes, poolState

LEMMA Shape_EnqueueNested ==
    ASSUME Shape, NEW w \in Workers, EnqueueNested(w)
    PROVE  Shape'
<1> USE DEF Shape
<1>0. /\ pc[w] = "reserved" /\ WorkerControl(w) /\ reserved[w] \in Jobs
      /\ w \in Threads /\ nWaitingWorkerThreads + 1 \in Int
      /\ Enqueue(w, reserved[w], nWaitingWorkerThreads + 1)
      /\ reserved' = [reserved EXCEPT ![w] = NoThread]
      /\ UNCHANGED <<call, stack, queueOf, m_nPendingJobs, submitted, done>>
  BY DEF EnqueueNested, Control, WorkerControl, Types, JobTypes, WaitingTypes, Threads
<1>1. JobTypes'
  BY <1>0 DEF Types, JobTypes
<1>2. Types'
  BY <1>0, <1>1, EnqueueFrame DEF Types, ThreadTypes
<1>3. aWT \in Nat /\ aWT' \in Nat /\ aWT <= aWT' /\ pc \in [Threads -> Pcs]
  BY <1>0, <1>2, EnqueueFrame DEF Types, PoolTypes, ThreadTypes
<1>4. ASSUME NEW d \in Clients PROVE ClientControl(d)'
  <2>1. d \in Threads \ {w} /\ call'[d] = call[d]
    BY <1>0 DEF Threads
  <2>2. pc'[d] = Started(pc, aWT')[d] /\ target'[d] = target[d]
    BY <1>0, <2>1, EnqueueFrame
  <2>3. pc'[d] = pc[d]
    BY <1>3, <2>2, StartedFrame
  <2> QED
    BY <1>3, <2>1, <2>2, <2>3, ClientKeeps DEF Control
<1>5. ASSUME NEW v \in Workers PROVE WorkerControl(v)'
  <2>1. CASE v = w
    <3>1. /\ \/ pc'[w] = "notify" /\ target'[w] \in 1..aWT
             \/ pc'[w] = "run"
          /\ bMarkedAsWaiting'[w] => bMarkedAsWaiting[w]
      BY <1>0, EnqueueFrame
    <3>2. stack'[w] # <<>> /\ reserved'[w] = NoThread /\ w <= aWT /\ w \in Nat
      BY <1>0 DEF WorkerControl, Busy, Types, JobTypes, Workers, PoolTypes
    <3> QED
      BY <1>3, <2>1, <3>1, <3>2 DEF WorkerControl, WorkerPcs, Busy
  <2>2. CASE v # w
    <3>1. v \in Threads \ {w} /\ stack'[v] = stack[v] /\ reserved'[v] = reserved[v]
      BY <1>0, <2>2 DEF Threads, Types, JobTypes
    <3> QED
      BY <1>0, <1>2, <1>3, <3>1, EnqueueFrame, WorkerStarts
  <2> QED BY <2>1, <2>2
<1> QED
  BY <1>0, <1>2, <1>4, <1>5, EnqueueFrame DEF Control

LEMMA MarkFrame ==
    ASSUME WaitingTypes, NEW w \in Workers, MarkAsWaiting(w)
    PROVE  /\ psWaitingWorkerThreadsList' \in Seq(Workers)
           /\ nWaitingWorkerThreads' \in Int
           /\ bMarkedAsWaiting' \in [Workers -> BOOLEAN]
           /\ \A v \in Workers \ {w} : bMarkedAsWaiting'[v] = bMarkedAsWaiting[v]
           /\ \A i \in DOMAIN psWaitingWorkerThreadsList' :
                 \/ psWaitingWorkerThreadsList'[i] = w
                 \/ \E k \in DOMAIN psWaitingWorkerThreadsList :
                       psWaitingWorkerThreadsList'[i] = psWaitingWorkerThreadsList[k]
<1>1. CASE bMarkedAsWaiting[w]
  BY <1>1 DEF MarkAsWaiting, WaitingTypes
<1>2. CASE ~bMarkedAsWaiting[w]
  <2> DEFINE l == psWaitingWorkerThreadsList
  <2>1. l \in Seq(Workers) /\ <<w>> \in Seq(Workers) /\ Len(<<w>>) = 1 /\ <<w>>[1] = w
    BY DEF WaitingTypes
  <2>2. /\ <<w>> \o l \in Seq(Workers)
        /\ Len(<<w>> \o l) = 1 + Len(l)
        /\ \A i \in 1..1 + Len(l) : (<<w>> \o l)[i] = IF i <= 1 THEN w ELSE l[i - 1]
    BY <2>1
  <2>3. l' = <<w>> \o l
    BY <1>2 DEF MarkAsWaiting
  <2>4. \A i \in DOMAIN l' : l'[i] = w \/ \E k \in DOMAIN l : l'[i] = l[k]
    <3> SUFFICES ASSUME NEW i \in DOMAIN l', i # 1 PROVE l'[i] = l[i - 1] /\ i - 1 \in DOMAIN l
      BY <2>2, <2>3
    <3> QED BY <2>1, <2>2, <2>3
  <2>5. /\ nWaitingWorkerThreads' = nWaitingWorkerThreads + 1
        /\ bMarkedAsWaiting' = [bMarkedAsWaiting EXCEPT ![w] = TRUE]
    BY <1>2 DEF MarkAsWaiting
  <2>6. nWaitingWorkerThreads' \in Int
    BY <2>5 DEF WaitingTypes
  <2>7. bMarkedAsWaiting' \in [Workers -> BOOLEAN]
    BY <2>5 DEF WaitingTypes
  <2>8. \A v \in Workers \ {w} : bMarkedAsWaiting'[v] = bMarkedAsWaiting[v]
    BY <2>5 DEF WaitingTypes
  <2> QED
    BY <2>2, <2>3, <2>4, <2>6, <2>7, <2>8
<1> QED
  BY <1>1, <1>2

LEMMA Shape_GetNextJob ==
    ASSUME Shape, NEW w \in Workers, GetNextJob(w)
    PROVE  Shape'
<1> USE DEF Shape
<1>0. /\ pc[w] \in {"next", "relock"} /\ WorkerControl(w) /\ w \in Threads
      /\ stack[w] = <<>> /\ reserved[w] = NoThread /\ w <= aWT /\ w \in Nat
  BY DEF GetNextJob, Control, WorkerControl, Busy, Threads, Workers, Types, PoolTypes
<1>1. /\ wtMutex' \in [Workers -> Threads \cup {NoThread}]
      /\ UNCHANGED <<eState, nPendingJobs, m_bNotifyEvent, m_nMaxThreads, aWT, call,
                   target, reserved, queueOf, m_nPendingJobs, submitted, done>>
  BY DEF GetNextJob, Types, WaitingTypes
<1>2. CASE /\ pc' = [pc EXCEPT ![w] = "exit"]
           /\ UNCHANGED <<m_mutex, jobQueue, stack, bMarkedAsWaiting,
                          nWaitingWorkerThreads, psWaitingWorkerThreadsList>>
  <2>1. PoolTypes' /\ WaitingTypes' /\ JobTypes'
    BY <1>1, <1>2 DEF Types, PoolTypes, WaitingTypes, JobTypes
  <2>2. ThreadTypes'
    BY <1>1, <1>2 DEF Types, ThreadTypes, Pcs, WorkerPcs
  <2>3. WorkerControl(w)'
    BY <1>0, <1>1, <1>2 DEF WorkerControl, WorkerPcs, Busy, Types, ThreadTypes
  <2> QED
    BY <1>1, <1>2, <2>1, <2>2, <2>3, Shape_WorkerMoves DEF Types, ThreadTypes, Threads
<1>3. CASE /\ jobQueue # <<>>
           /\ stack' = [stack EXCEPT ![w] = <<Head(jobQueue)>>]
           /\ jobQueue' = Tail(jobQueue)
           /\ pc' = [pc EXCEPT ![w] = "run"]
           /\ UNCHANGED <<m_mutex, bMarkedAsWaiting, nWaitingWorkerThreads,
                          psWaitingWorkerThreadsList>>
  <2>1. PoolTypes' /\ WaitingTypes'
    BY <1>1, <1>3 DEF Types, PoolTypes, WaitingTypes
  <2>2. ThreadTypes'
    BY <1>1, <1>3 DEF Types, ThreadTypes, Pcs, WorkerPcs
  <2>3. <<Head(jobQueue)>> \in Seq(Jobs) /\ <<Head(jobQueue)>> # <<>>
    BY <1>3 DEF Types, PoolTypes
  <2>4. JobTypes'
    BY <1>1, <1>3, <2>3 DEF Types, JobTypes
  <2>5. WorkerControl(w)'
    BY <1>0, <1>1, <1>3, <2>3
    DEF WorkerControl, WorkerPcs, Busy, Types, ThreadTypes, JobTypes
  <2> QED
    BY <1>1, <1>3, <2>1, <2>2, <2>4, <2>5, Shape_WorkerMoves
    DEF Types, ThreadTypes, JobTypes, Threads
<1>4. CASE /\ MarkAsWaiting(w)
           /\ pc' \in NotifyOne([pc EXCEPT ![w] = "lockOwn"])
           /\ m_mutex' = w
           /\ UNCHANGED <<jobQueue, stack>>
  <2> DEFINE f == [pc EXCEPT ![w] = "lockOwn"]
  <2>1. f \in [Threads -> Pcs] /\ f[w] = "lockOwn" /\ \A t \in Threads \ {w} : f[t] = pc[t]
    BY <1>0 DEF Types, ThreadTypes, Pcs, WorkerPcs
  <2>2. /\ pc' \in [Threads -> Pcs]
        /\ \A t \in Threads : \/ pc'[t] = f[t]
                              \/ t \in Clients /\ f[t] = "cv" /\ pc'[t] = "cvWoken"
    BY <1>4, <2>1, NotifyOneFrame
  <2>3. PoolTypes' /\ JobTypes' /\ ThreadTypes'
    BY <1>0, <1>1, <1>4, <2>2 DEF Types, PoolTypes, JobTypes, ThreadTypes
  <2>4. WaitingTypes'
    BY <1>1, <1>4, MarkFrame DEF Types, WaitingTypes
  <2>5. WorkerControl(w)'
    BY <1>0, <1>1, <1>4, <2>1, <2>2 DEF WorkerControl, WorkerPcs, Busy
  <2>6. /\ \A v \in Workers \ {w} : pc'[v] = pc[v] /\ stack'[v] = stack[v]
              /\ reserved'[v] = reserved[v]
              /\ bMarkedAsWaiting'[v] = bMarkedAsWaiting[v]
        /\ \A c \in Clients : pc'[c] = pc[c] \/ (pc[c] = "cv" /\ pc'[c] = "cvWoken")
    BY <1>1, <1>4, <2>1, <2>2, MarkFrame DEF Threads, Types
  <2>7. \A i \in DOMAIN psWaitingWorkerThreadsList' :
           psWaitingWorkerThreadsList'[i] <= aWT'
    BY <1>0, <1>1, <1>4, MarkFrame DEF Control, Types
  <2>8. ASSUME NEW c \in Clients PROVE ClientControl(c)'
    <3>1. ClientControl(c) /\ target'[c] = target[c] /\ call'[c] = call[c]
      BY <1>1 DEF Control
    <3> QED
      BY <1>1, <2>6, <3>1 DEF ClientControl, ClientPcs
  <2>9. ASSUME NEW v \in Workers \ {w} PROVE WorkerControl(v)'
    <3>1. WorkerControl(v)
      BY DEF Control
    <3> QED
      BY <1>1, <2>6, <3>1 DEF WorkerControl
  <2> QED
    BY <2>3, <2>4, <2>5, <2>7, <2>8, <2>9 DEF Types, Control
<1> QED
  BY <1>2, <1>3, <1>4 DEF GetNextJob

LEMMA Shape_WorkerLocal ==
    ASSUME Shape, NEW w \in Workers,
           \/ FallAsleep(w) \/ WakeUp(w) \/ JobWaits(w) \/ DeclareJobFinished(w)
           \/ WakeUpWaitEvent(w)
    PROVE  Shape'
<1> USE DEF Shape
<1>0. w \in Threads /\ WorkerControl(w)
  BY DEF Threads, Control
<1>1. /\ pc' \in [Threads -> Pcs]
      /\ pc[w] \in WorkerPcs \ {"none", "reserved"}
      /\ pc'[w] \in WorkerPcs \ {"none", "reserved", "notify"}
      /\ pc[w] \in Busy <=> pc'[w] \in Busy
      /\ \A v \in Workers \ {w} : pc'[v] = pc[v]
      /\ \A c \in Clients : pc'[c] = pc[c] \/ (pc[c] = "cv" /\ pc'[c] = "cvWoken")
  <2>1. CASE FallAsleep(w) \/ WakeUp(w) \/ JobWaits(w)
    BY <1>0, <2>1
    DEF FallAsleep, WakeUp, JobWaits, InJob, Types, ThreadTypes, Pcs, WorkerPcs, Busy, Threads
  <2>2. CASE DeclareJobFinished(w)
    <3> DEFINE f == [pc EXCEPT ![w] = "next"]
    <3>1. f \in [Threads -> Pcs] /\ f[w] = "next" /\ \A t \in Threads \ {w} : f[t] = pc[t]
      BY <1>0 DEF Types, ThreadTypes, Pcs, WorkerPcs
    <3>2. /\ pc' \in [Threads -> Pcs]
          /\ \A t \in Threads : \/ pc'[t] = f[t]
                                \/ t \in Clients /\ f[t] = "cv" /\ pc'[t] = "cvWoken"
      BY <2>2, <3>1, NotifyOneFrame DEF DeclareJobFinished
    <3> QED
      BY <1>0, <2>2, <3>1, <3>2 DEF DeclareJobFinished, WorkerPcs, Busy, Threads
  <2>3. CASE WakeUpWaitEvent(w)
    <3>1. pc \in [Threads -> Pcs]
      BY DEF Types, ThreadTypes
    <3>2. /\ pc' \in [Threads -> Pcs]
          /\ \A t \in Threads : \/ pc'[t] = pc[t]
                                \/ t \in Clients /\ pc[t] = "cv" /\ pc'[t] = "cvWoken"
      BY <2>3, <3>1, NotifyOneFrame DEF WakeUpWaitEvent
    <3> QED
      BY <1>0, <2>3, <3>2 DEF WakeUpWaitEvent, InJob, WorkerPcs, Busy, Threads
  <2> QED BY <2>1, <2>2, <2>3
<1>2. /\ m_mutex' \in Threads \cup {NoThread} /\ eState' \in {"OK", "STOP"}
      /\ nPendingJobs' \in Int
      /\ UNCHANGED <<jobQueue, psWaitingWorkerThreadsList, nWaitingWorkerThreads,
                     m_nMaxThreads, aWT, bMarkedAsWaiting, jobState, call, target>>
  BY DEF FallAsleep, WakeUp, JobWaits, DeclareJobFinished, WakeUpWaitEvent, poolState,
         Types, PoolTypes
<1>3. wtMutex' \in [Workers -> Threads \cup {NoThread}]
  BY <1>0 DEF FallAsleep, WakeUp, JobWaits, DeclareJobFinished, WakeUpWaitEvent, Types,
              WaitingTypes
<1>4. ThreadTypes'
  BY <1>1, <1>2 DEF Types, ThreadTypes
<1>5. ASSUME NEW c \in Clients PROVE ClientControl(c)'
  <2>1. ClientControl(c)
    BY DEF Control
  <2> QED
    BY <1>1, <1>2, <2>1 DEF ClientControl, ClientPcs
<1>6. ASSUME NEW v \in Workers PROVE SameActivity(v)
  BY <1>1, <1>2 DEF SameActivity
<1> QED
  BY <1>2, <1>3, <1>4, <1>5, <1>6, Shape_Local

LEMMA Shape_JobReturns ==
    ASSUME Shape, NEW w \in Workers, JobReturns(w)
    PROVE  Shape'
<1> USE DEF Shape
<1> DEFINE j == CurrentJob(w)
           q == queueOf[j]
           n == Len(stack[w])
<1>0. /\ pc[w] = "run" /\ WorkerControl(w) /\ w \in Threads
      /\ stack[w] \in Seq(Jobs) /\ n \in Nat \ {0}
  BY DEF JobReturns, InJob, Control, WorkerControl, Busy, Types, JobTypes, Threads
<1>1. j \in Jobs /\ q \in Queues \cup {NoThread}
  BY <1>0 DEF CurrentJob, Last, Types, JobTypes
<1>2. Front(stack[w]) \in Seq(Jobs) /\ (Front(stack[w]) = <<>> <=> n = 1)
  <2>1. /\ SubSeq(stack[w], 1, n - 1) \in Seq(Jobs)
        /\ Len(SubSeq(stack[w], 1, n - 1)) = n - 1
    <3> HIDE DEF n
    <3>1. \A i \in 1..n - 1 : stack[w][i] \in Jobs
      BY <1>0 DEF n
    <3>2. n - 1 \in Int /\ (1 <= n - 1 \/ n - 1 = 0)
      BY <1>0
    <3> QED
      BY <3>1, <3>2, SubSeqProperties
  <2>2. Front(stack[w]) = SubSeq(stack[w], 1, n - 1)
    BY DEF Front
  <2>3. Len(Front(stack[w])) = n - 1 /\ Front(stack[w]) \in Seq(Jobs)
    BY <2>1, <2>2
  <2>4. Front(stack[w]) = <<>> => Len(Front(stack[w])) = 0
    OBVIOUS
  <2>5. Front(stack[w]) # <<>> => Len(Front(stack[w])) # 0
    BY <2>3, EmptySeq
  <2> HIDE DEF n
  <2> QED
    BY <1>0, <2>3, <2>4, <2>5
<1>3. /\ done' = done \cup {j}
      /\ stack' = [stack EXCEPT ![w] = Front(@)]
      /\ m_nPendingJobs' = IF q = NoThread THEN m_nPendingJobs
                           ELSE [m_nPendingJobs EXCEPT ![q] = @ - 1]
      /\ pc' = [PcsAfterQueueNotify(q) EXCEPT ![w] = IF n = 1 THEN "finish" ELSE "run"]
      /\ UNCHANGED <<m_mutex, poolState, m_bNotifyEvent, wtMutex, call, target,
                     reserved, queueOf, submitted>>
  BY DEF JobReturns
<1>4. /\ pc' \in [Threads -> Pcs]
      /\ pc'[w] = IF n = 1 THEN "finish" ELSE "run"
      /\ \A t \in Threads \ {w} :
            \/ pc'[t] = pc[t]
            \/ pc[t] = "queueCv" /\ pc'[t] = IF t \in Workers THEN "run" ELSE "queueWoken"
  <2> DEFINE f == PcsAfterQueueNotify(q)
  <2>1. ASSUME NEW t \in Threads
        PROVE  \/ f[t] = pc[t]
               \/ pc[t] = "queueCv" /\ f[t] = IF t \in Workers THEN "run" ELSE "queueWoken"
    BY DEF PcsAfterQueueNotify, QueueSleepers
  <2>2. f \in [Threads -> Pcs]
    BY <2>1 DEF PcsAfterQueueNotify, Types, ThreadTypes, Pcs, ClientPcs, WorkerPcs
  <2> HIDE DEF f
  <2> QED
    BY <1>0, <1>3, <2>1, <2>2 DEF f, Pcs, WorkerPcs
<1>5. PoolTypes' /\ WaitingTypes' /\ ThreadTypes'
  BY <1>3, <1>4 DEF Types, PoolTypes, WaitingTypes, ThreadTypes, poolState
<1>6. stack' \in [Workers -> Seq(Jobs)]
  BY <1>2, <1>3 DEF Types, JobTypes
<1>7. m_nPendingJobs' \in [Queues -> Int]
  BY <1>1, <1>3 DEF Types, JobTypes
<1>8. done' \subseteq Jobs
  BY <1>1, <1>3 DEF Types, JobTypes
<1>9. Types'
  BY <1>3, <1>5, <1>6, <1>7, <1>8 DEF Types, JobTypes
<1>10. ASSUME NEW c \in Clients PROVE ClientControl(c)'
  <2>1. ClientControl(c) /\ c \in Threads \ {w} /\ c \notin Workers
    BY DEF Control, Threads
  <2> QED
    BY <1>3, <1>4, <2>1 DEF ClientControl, ClientPcs, poolState
<1>11. ASSUME NEW v \in Workers PROVE WorkerControl(v)'
  <2>1. CASE v = w
    BY <1>0, <1>2, <1>3, <1>4, <2>1
    DEF WorkerControl, WorkerPcs, Busy, poolState, Types, JobTypes
  <2>2. CASE v # w
    <3>1. WorkerControl(v) /\ v \in Threads \ {w} /\ stack'[v] = stack[v]
      BY <1>3, <2>2 DEF Control, Threads, Types, JobTypes
    <3> QED
      BY <1>3, <1>4, <3>1 DEF WorkerControl, WorkerPcs, Busy, poolState
  <2> QED BY <2>1, <2>2
<1> QED
  BY <1>3, <1>9, <1>10, <1>11 DEF Control, poolState

LEMMA Shape_Next == Shape /\ [Next]_vars => Shape'
<1> SUFFICES ASSUME Shape, [Next]_vars PROVE Shape'
  OBVIOUS
<1>0. TopJobs \subseteq Jobs /\ QueueJobs \subseteq Jobs /\ ChildJobs \subseteq Jobs
  BY JobsAssumption DEF TopJobs, ChildJobs
<1>1. CASE UNCHANGED vars
  <2>1. Types'
    BY <1>1 DEF vars, poolState, jobState, Shape, Types, PoolTypes, WaitingTypes,
                ThreadTypes, JobTypes
  <2>2. Control'
    BY <1>1 DEF vars, poolState, jobState, Shape, Control, ClientControl, WorkerControl
  <2> QED BY <2>1, <2>2 DEF Shape
<1>2. ASSUME NEW c \in Clients, ClientStep(c) PROVE Shape'
  BY <1>2, Shape_BatchNext, Shape_Notify, Shape_ClientWaits, Shape_Destroy
  DEF ClientStep, Threads
<1>3. ASSUME NEW c \in Clients, ClientCall(c) PROVE Shape'
  <2>1. ASSUME NEW n \in 1..NThreads, GDALGetGlobalThreadPool(c, n) \/ Setup(c, n)
        PROVE  Shape'
    BY <2>1, Shape_SetupLazy, Shape_Setup DEF GDALGetGlobalThreadPool
  <2>2. ASSUME NEW j \in TopJobs \cup QueueJobs, SubmitJob(c, j) PROVE Shape'
    BY <1>0, <2>2, Shape_SubmitJob
  <2>3. ASSUME NEW js \in Batches, SubmitJobs(c, js) PROVE Shape'
    BY <2>3, Shape_SubmitJobs
  <2> QED
    BY <1>3, <2>1, <2>2, <2>3, Shape_ClientWaits, Shape_Destroy DEF ClientCall
<1>4. ASSUME NEW w \in Workers, WorkerStep(w) \/ WakeUpWaitEvent(w) PROVE Shape'
  <2>1. ASSUME NEW k \in ChildJobs, SubmitNested(w, k) \/ SubmitJobsNested(w, k)
        PROVE  Shape'
    BY <1>0, <2>1, Shape_SubmitNested, Shape_SubmitJobsNested
  <2> QED
    BY <1>4, <2>1, Shape_GetNextJob, Shape_EnqueueNested, Shape_Notify,
       Shape_WorkerLocal, Shape_JobReturns DEF WorkerStep, Threads
<1> QED
  BY <1>1, <1>2, <1>3, <1>4, Shape_SpuriousWakeUp DEF Next

LEMMA ShapeInvariant == Spec => []Shape
BY Shape_Init, Shape_Next, PTL DEF Spec

-----------------------------------------------------------------------------
(* Jobs: each is in one place.  A step leaves the jobs where they are, or  *)
(* adds new ones to the queue, or moves one.                               *)

LEMMA PlacesKept ==
    ASSUME JobInOnePlace, UNCHANGED <<jobQueue, stack, reserved, submitted, done>>
    PROVE  JobInOnePlace'
BY DEF JobInOnePlace, Placed, InOnePlace, NoRepeats, Queued, StackedBy, ReservedBy

(* js is queued behind the jobs that are in the queue. *)
Extends(s, js) ==
    /\ s \in Seq(Jobs) /\ js \in Seq(Jobs)
    /\ Len(s) = Len(jobQueue) + Len(js)
    /\ \A i \in 1..Len(jobQueue) : s[i] = jobQueue[i]
    /\ \A i \in 1..Len(js) : s[Len(jobQueue) + i] = js[i]

LEMMA QueueExtends ==
    ASSUME Shape, NEW s, NEW js, Extends(s, js)
    PROVE  /\ \A j : (\E i \in DOMAIN s : s[i] = j) <=>
                        Queued(j) \/ \E i \in DOMAIN js : js[i] = j
           /\ \A i \in DOMAIN s :
                 \/ i \in DOMAIN jobQueue /\ s[i] = jobQueue[i]
                 \/ \E k \in DOMAIN js : i = Len(jobQueue) + k /\ s[i] = js[k]
<1> DEFINE n == Len(jobQueue)
           m == Len(js)
<1>1. /\ jobQueue \in Seq(Jobs) /\ n \in Nat /\ m \in Nat /\ DOMAIN jobQueue = 1..n
      /\ DOMAIN js = 1..m /\ DOMAIN s = 1..n + m
  BY DEF Extends, Shape, Types, PoolTypes
<1>2. /\ \A i \in 1..n : s[i] = jobQueue[i]
      /\ \A i \in 1..m : s[n + i] = js[i]
  BY DEF Extends
<1> HIDE DEF n, m
<1>3. ASSUME NEW i \in DOMAIN s
      PROVE  \/ i \in DOMAIN jobQueue /\ s[i] = jobQueue[i]
             \/ \E k \in DOMAIN js : i = n + k /\ s[i] = js[k]
  <2>1. CASE i <= n
    BY <1>1, <1>2, <2>1
  <2>2. CASE i > n
    <3>1. i - n \in 1..m /\ n + (i - n) = i
      BY <1>1, <2>2
    <3> QED BY <1>1, <1>2, <3>1
  <2> QED BY <1>1, <2>1, <2>2
<1>4. \A i \in 1..n : i \in DOMAIN s
  BY <1>1
<1>5. \A i \in 1..m : n + i \in DOMAIN s
  BY <1>1
<1>6. ASSUME NEW j
      PROVE  (\E i \in DOMAIN s : s[i] = j) <=> Queued(j) \/ \E i \in DOMAIN js : js[i] = j
  BY <1>1, <1>2, <1>3, <1>4, <1>5 DEF Queued
<1> QED
  BY <1>3, <1>6 DEF n

LEMMA Places_Queue ==
    ASSUME Shape, Shape', JobInOnePlace, NEW js, Extends(jobQueue', js),
           \A i, k \in DOMAIN js : js[i] = js[k] => i = k,
           \A i \in DOMAIN js : js[i] \notin submitted,
           \A j : j \in submitted' <=> j \in submitted \/ \E i \in DOMAIN js : js[i] = j,
           UNCHANGED <<stack, reserved, done>>
    PROVE  JobInOnePlace'
<1>1. \A j : Queued(j)' <=> Queued(j) \/ \E i \in DOMAIN js : js[i] = j
  BY QueueExtends DEF Queued
<1>2. \A w \in Workers : \A j : StackedBy(w, j)' <=> StackedBy(w, j)
  BY DEF StackedBy
<1>3. \A w \in Workers : \A j : ReservedBy(w, j)' <=> ReservedBy(w, j)
  BY DEF ReservedBy
<1>4. Placed'
  BY <1>1, <1>2, <1>3 DEF JobInOnePlace, Placed
<1>5. InOnePlace'
  BY <1>1, <1>2, <1>3 DEF JobInOnePlace, InOnePlace, Placed
<1>6. \A i, k \in DOMAIN jobQueue' : jobQueue'[i] = jobQueue'[k] => i = k
  <2>1. \A i \in DOMAIN jobQueue : jobQueue[i] \in submitted
    BY DEF JobInOnePlace, Placed, Queued, Shape, Types, PoolTypes
  <2>2. \A i \in DOMAIN jobQueue' :
                 \/ i \in DOMAIN jobQueue /\ jobQueue'[i] = jobQueue[i]
                 \/ \E k \in DOMAIN js : i = Len(jobQueue) + k /\ jobQueue'[i] = js[k]
    BY QueueExtends
  <2> QED
    BY <2>1, <2>2 DEF JobInOnePlace, NoRepeats
<1>7. NoRepeats'
  BY <1>6 DEF JobInOnePlace, NoRepeats
<1> QED
  BY <1>4, <1>5, <1>7 DEF JobInOnePlace

LEMMA OneMore ==
    ASSUME Shape, NEW j \in Jobs
    PROVE  Extends(Append(jobQueue, j), <<j>>)
BY DEF Extends, Shape, Types, PoolTypes

LEMMA Places_SubmitJob ==
    ASSUME Shape, Shape', JobInOnePlace, NEW c \in Clients, NEW j \in Jobs \ submitted,
           SubmitJob(c, j)
    PROVE  JobInOnePlace'
<1>1. /\ jobQueue' = Append(jobQueue, j) /\ submitted' = submitted \cup {j}
      /\ UNCHANGED <<stack, reserved, done>>
  BY DEF SubmitJob, Enqueue
<1>2. DOMAIN <<j>> = {1} /\ <<j>>[1] = j
  OBVIOUS
<1> QED
  BY <1>1, <1>2, OneMore, Places_Queue

LEMMA Places_SubmitJobs ==
    ASSUME Shape, Shape', JobInOnePlace, NEW c \in Clients, NEW js \in Batches,
           SubmitJobs(c, js)
    PROVE  JobInOnePlace'
<1>1. /\ jobQueue' = jobQueue \o js /\ submitted' = submitted \cup Range(js)
      /\ UNCHANGED <<stack, reserved, done>>
  BY DEF SubmitJobs
<1>2. /\ js \in Seq(Jobs)
      /\ \A i, k \in DOMAIN js : js[i] = js[k] => i = k
      /\ \A i \in DOMAIN js : js[i] \notin submitted
  BY BatchIsSeq
<1>3. Extends(jobQueue', js)
  BY <1>1, <1>2, ConcatProperties DEF Extends, Shape, Types, PoolTypes
<1>4. \A j : j \in submitted' <=> j \in submitted \/ \E i \in DOMAIN js : js[i] = j
  BY <1>1 DEF Range
<1> QED
  BY <1>1, <1>2, <1>3, <1>4, Places_Queue

LEMMA Places_EnqueueNested ==
    ASSUME Shape, Shape', JobInOnePlace, NEW w \in Workers, EnqueueNested(w)
    PROVE  JobInOnePlace'
<1> DEFINE k == reserved[w]
<1>0. k \in Jobs /\ NoThread \notin Jobs
  BY DEF EnqueueNested, Shape, Control, WorkerControl, Types, JobTypes
<1>1. /\ jobQueue' = Append(jobQueue, k) /\ reserved' = [reserved EXCEPT ![w] = NoThread]
      /\ UNCHANGED <<stack, submitted, done>>
  BY DEF EnqueueNested, Enqueue
<1>2. Extends(jobQueue', <<k>>) /\ DOMAIN <<k>> = {1} /\ <<k>>[1] = k
  BY <1>0, <1>1, OneMore
<1>3. \A j : Queued(j)' <=> Queued(j) \/ j = k
  BY <1>2, QueueExtends DEF Queued
<1>4. \A v \in Workers : \A j : StackedBy(v, j)' <=> StackedBy(v, j)
  BY <1>1 DEF StackedBy
<1>5. \A v \in Workers, j \in Jobs : ReservedBy(v, j)' <=> ReservedBy(v, j) /\ v # w
  BY <1>0, <1>1 DEF ReservedBy, Shape, Types, JobTypes
<1>6. ReservedBy(w, k)
  BY DEF ReservedBy
<1>11. \A j \in Jobs : ReservedBy(w, j) => j = k
  BY DEF ReservedBy
<1> HIDE DEF k
<1>7. Placed'
  BY <1>0, <1>1, <1>3, <1>4, <1>5, <1>6, <1>11 DEF JobInOnePlace, Placed
<1>8. InOnePlace'
  BY <1>0, <1>3, <1>4, <1>5, <1>6 DEF JobInOnePlace, InOnePlace
<1>9. \A i, n \in DOMAIN jobQueue' : jobQueue'[i] = jobQueue'[n] => i = n
  <2>1. ~Queued(k)
    BY <1>0, <1>6 DEF JobInOnePlace, InOnePlace
  <2>2. \A i \in DOMAIN jobQueue' :
                 \/ i \in DOMAIN jobQueue /\ jobQueue'[i] = jobQueue[i]
                 \/ i = Len(jobQueue) + 1 /\ jobQueue'[i] = k
    BY <1>2, QueueExtends
  <2> QED
    BY <2>1, <2>2 DEF JobInOnePlace, NoRepeats, Queued
<1>10. NoRepeats'
  BY <1>1, <1>9 DEF JobInOnePlace, NoRepeats
<1> QED
  BY <1>7, <1>8, <1>10 DEF JobInOnePlace

LEMMA Places_Reserve ==
    ASSUME Shape, JobInOnePlace, NEW w \in Workers, NEW k \in Jobs \ submitted,
           reserved[w] = NoThread, reserved' = [reserved EXCEPT ![w] = k],
           submitted' = submitted \cup {k}, UNCHANGED <<jobQueue, stack, done>>
    PROVE  JobInOnePlace'
<1>0. NoThread \notin Jobs
  OBVIOUS
<1>1. \A j : Queued(j)' <=> Queued(j)
  BY DEF Queued
<1>2. \A v \in Workers : \A j : StackedBy(v, j)' <=> StackedBy(v, j)
  BY DEF StackedBy
<1>3. \A v \in Workers, j \in Jobs : ReservedBy(v, j)' <=>
         ReservedBy(v, j) \/ (v = w /\ j = k)
  BY <1>0 DEF ReservedBy, Shape, Types, JobTypes
<1>4. \A v \in Workers : ~Queued(k) /\ ~StackedBy(v, k) /\ ~ReservedBy(v, k)
  BY DEF JobInOnePlace, Placed
<1>5. Placed'
  BY <1>1, <1>2, <1>3 DEF JobInOnePlace, Placed
<1>6. InOnePlace'
  BY <1>1, <1>2, <1>3, <1>4 DEF JobInOnePlace, InOnePlace
<1>7. NoRepeats'
  BY DEF JobInOnePlace, NoRepeats
<1> QED
  BY <1>5, <1>6, <1>7 DEF JobInOnePlace

LEMMA Places_Push ==
    ASSUME Shape, JobInOnePlace, NEW w \in Workers, NEW k \in Jobs \ submitted,
           stack' = [stack EXCEPT ![w] = Append(@, k)],
           submitted' = submitted \cup {k}, UNCHANGED <<jobQueue, reserved, done>>
    PROVE  JobInOnePlace'
<1>0. /\ stack[w] \in Seq(Jobs)
      /\ stack'[w] = Append(stack[w], k) /\ \A v \in Workers \ {w} : stack'[v] = stack[v]
  BY DEF Shape, Types, JobTypes
<1>1. \A j : Queued(j)' <=> Queued(j)
  BY DEF Queued
<1>2. \A v \in Workers : \A j : ReservedBy(v, j)' <=> ReservedBy(v, j)
  BY DEF ReservedBy
<1>3. \A i \in DOMAIN stack'[w] : \/ i \in DOMAIN stack[w] /\ stack'[w][i] = stack[w][i]
                                  \/ i = Len(stack[w]) + 1 /\ stack'[w][i] = k
  <2> DEFINE m == Len(stack[w])
  <2>1. /\ m \in Nat /\ DOMAIN stack[w] = 1..m /\ DOMAIN stack'[w] = 1..m + 1
        /\ \A i \in 1..m : stack'[w][i] = stack[w][i]
        /\ stack'[w][m + 1] = k
    BY <1>0
  <2> HIDE DEF m
  <2>2. \A i \in 1..m + 1 : i \in 1..m \/ i = m + 1
    BY <2>1
  <2>3. \A i \in DOMAIN stack'[w] : \/ i \in DOMAIN stack[w] /\ stack'[w][i] = stack[w][i]
                                    \/ i = m + 1 /\ stack'[w][i] = k
    BY <2>1, <2>2
  <2> QED
    BY <2>3 DEF m
<1>4. /\ \A i \in DOMAIN stack[w] : i \in DOMAIN stack'[w] /\ stack'[w][i] = stack[w][i]
      /\ Len(stack[w]) + 1 \in DOMAIN stack'[w] /\ stack'[w][Len(stack[w]) + 1] = k
  BY <1>0
<1>5. \A v \in Workers : \A j : StackedBy(v, j)' <=> StackedBy(v, j) \/ (v = w /\ j = k)
  BY <1>0, <1>3, <1>4 DEF StackedBy
<1>6. \A v \in Workers : ~Queued(k) /\ ~StackedBy(v, k) /\ ~ReservedBy(v, k)
  BY DEF JobInOnePlace, Placed
<1>7. Placed'
  BY <1>1, <1>2, <1>5 DEF JobInOnePlace, Placed
<1>8. InOnePlace'
  BY <1>1, <1>2, <1>5, <1>6 DEF JobInOnePlace, InOnePlace
<1>9. NoRepeats'
  <2>1. \A i \in DOMAIN stack[w] : stack[w][i] # k
    BY <1>6 DEF StackedBy
  <2>2. \A i, n \in DOMAIN stack'[w] : stack'[w][i] = stack'[w][n] => i = n
    BY <1>3, <2>1 DEF JobInOnePlace, NoRepeats
  <2> QED
    BY <1>0, <2>2 DEF JobInOnePlace, NoRepeats
<1> QED
  BY <1>7, <1>8, <1>9 DEF JobInOnePlace

LEMMA Places_SubmitNested ==
    ASSUME Shape, JobInOnePlace, NEW w \in Workers, NEW k \in Jobs,
           SubmitNested(w, k) \/ SubmitJobsNested(w, k)
    PROVE  JobInOnePlace'
<1>1. k \notin submitted
  BY DEF SubmitNested, SubmitJobsNested
<1>2. CASE SubmitNested(w, k) /\ CanQueueNested
  <2>1. reserved[w] = NoThread
    BY <1>2 DEF SubmitNested, InJob, Shape, Control, WorkerControl
  <2> QED
    BY <1>1, <1>2, <2>1, Places_Reserve DEF SubmitNested
<1>3. CASE SubmitNested(w, k) /\ ~CanQueueNested
  BY <1>1, <1>3, Places_Push DEF SubmitNested
<1>4. CASE SubmitJobsNested(w, k)
  BY <1>1, <1>4, Places_Push DEF SubmitJobsNested, poolState
<1> QED
  BY <1>2, <1>3, <1>4

LEMMA Places_Take ==
    ASSUME Shape, JobInOnePlace, NEW w \in Workers,
           stack[w] = <<>>, jobQueue # <<>>,
           stack' = [stack EXCEPT ![w] = <<Head(jobQueue)>>],
           jobQueue' = Tail(jobQueue), UNCHANGED <<reserved, submitted, done>>
    PROVE  JobInOnePlace'
<1> DEFINE n == Len(jobQueue)
<1>h. PICK h : h = Head(jobQueue)
  OBVIOUS
<1>0. /\ jobQueue \in Seq(Jobs) /\ stack \in [Workers -> Seq(Jobs)]
      /\ h \in Jobs /\ h = jobQueue[1] /\ n \in Nat \ {0} /\ DOMAIN jobQueue = 1..n
      /\ DOMAIN jobQueue' = 1..n - 1 /\ \A i \in 1..n - 1 : jobQueue'[i] = jobQueue[i + 1]
  BY <1>h DEF Shape, Types, JobTypes, PoolTypes
<1>11. stack'[w] = <<h>> /\ \A v \in Workers \ {w} : stack'[v] = stack[v]
  BY <1>0, <1>h
<1> HIDE DEF n
<1>1. \A j \in Jobs : Queued(j) <=> Queued(j)' \/ j = h
  <2>1. ASSUME NEW i \in 1..n PROVE i = 1 \/ (i - 1 \in 1..n - 1 /\ jobQueue'[i - 1] = jobQueue[i])
    <3>1. CASE i # 1
      <4>1. i - 1 \in 1..n - 1 /\ (i - 1) + 1 = i
        BY <1>0, <3>1
      <4> QED BY <1>0, <4>1
    <3> QED BY <3>1
  <2>2. \A i \in 1..n - 1 : i + 1 \in 1..n
    BY <1>0
  <2>3. 1 \in 1..n
    BY <1>0
  <2> QED
    BY <1>0, <2>1, <2>2, <2>3 DEF Queued
<1>2. ~Queued(h)'
  <2>1. \A i \in 1..n - 1 : i + 1 \in 1..n /\ 1 \in 1..n /\ i + 1 # 1
    BY <1>0
  <2>2. \A i, k \in 1..n : jobQueue[i] = jobQueue[k] => i = k
    BY <1>0 DEF JobInOnePlace, NoRepeats
  <2>3. SUFFICES ASSUME NEW i \in 1..n - 1, jobQueue'[i] = h PROVE FALSE
    BY <1>0 DEF Queued
  <2>4. jobQueue[i + 1] = jobQueue[1]
    BY <1>0, <2>3
  <2> QED
    BY <2>1, <2>2, <2>4
<1>3. \A v \in Workers : \A j : ReservedBy(v, j)' <=> ReservedBy(v, j)
  BY DEF ReservedBy
<1>4. /\ stack'[w] = <<h>> /\ DOMAIN <<h>> = {1} /\ <<h>>[1] = h
      /\ \A v \in Workers \ {w} : stack'[v] = stack[v]
  BY <1>11
<1>5. \A v \in Workers : \A j : StackedBy(v, j)' <=> StackedBy(v, j) \/ (v = w /\ j = h)
  <2>1. \A j : ~StackedBy(w, j)
    BY DEF StackedBy
  <2> QED
    BY <1>4, <2>1 DEF StackedBy
<1>7. Placed'
  BY <1>0, <1>1, <1>2, <1>3, <1>5 DEF JobInOnePlace, Placed
<1>8. InOnePlace'
  <2>1. Queued(h)
    BY <1>0, <1>1
  <2>2. \A v \in Workers : ~StackedBy(v, h) /\ ~ReservedBy(v, h)
    BY <1>0, <2>1 DEF JobInOnePlace, InOnePlace
  <2>3. ASSUME NEW j \in Jobs, NEW v \in Workers, NEW u \in Workers, j # h
        PROVE  /\ Queued(j)' <=> Queued(j)
               /\ StackedBy(v, j)' <=> StackedBy(v, j)
               /\ StackedBy(u, j)' <=> StackedBy(u, j)
    BY <1>1, <1>5, <2>3
  <2>4. ASSUME NEW v \in Workers
        PROVE  ~Queued(h)' /\ ~ReservedBy(v, h)' /\ (StackedBy(v, h)' <=> v = w)
    BY <1>2, <1>3, <1>5, <2>2
  <2>5. ASSUME NEW j \in Jobs, NEW v \in Workers, NEW u \in Workers
        PROVE  /\ StackedBy(v, j)' => ~Queued(j)'
               /\ ReservedBy(v, j)' => ~Queued(j)' /\ ~StackedBy(u, j)'
               /\ v # u => ~(StackedBy(v, j)' /\ StackedBy(u, j)')
               /\ v # u => ~(ReservedBy(v, j)' /\ ReservedBy(u, j)')
    <3>1. CASE j = h
      BY <2>4, <3>1
    <3>2. CASE j # h
      BY <1>3, <2>3, <3>2 DEF JobInOnePlace, InOnePlace
    <3> QED BY <3>1, <3>2
  <2> QED
    BY <2>5 DEF InOnePlace
<1>9. \A i, k \in DOMAIN jobQueue' : jobQueue'[i] = jobQueue'[k] => i = k
  <2>1. \A i \in 1..n - 1 : i + 1 \in DOMAIN jobQueue
    BY <1>0
  <2> QED
    BY <1>0, <2>1 DEF JobInOnePlace, NoRepeats
<1>10. NoRepeats'
  BY <1>4, <1>9 DEF JobInOnePlace, NoRepeats
<1> QED
  BY <1>7, <1>8, <1>10 DEF JobInOnePlace

LEMMA Places_GetNextJob ==
    ASSUME Shape, JobInOnePlace, NEW w \in Workers, GetNextJob(w)
    PROVE  JobInOnePlace'
<1>1. stack[w] = <<>> /\ UNCHANGED <<reserved, submitted, done>>
  BY DEF GetNextJob, Shape, Control, WorkerControl, Busy
<1>2. CASE UNCHANGED <<jobQueue, stack>>
  BY <1>1, <1>2, PlacesKept
<1>3. CASE /\ jobQueue # <<>>
           /\ stack' = [stack EXCEPT ![w] = <<Head(jobQueue)>>]
           /\ jobQueue' = Tail(jobQueue)
  BY <1>1, <1>3, Places_Take
<1> QED
  BY <1>2, <1>3 DEF GetNextJob

LEMMA Places_JobReturns ==
    ASSUME Shape, JobInOnePlace, NEW w \in Workers, JobReturns(w)
    PROVE  JobInOnePlace'
<1> DEFINE n == Len(stack[w])
<1>k. PICK k : k = stack[w][n]
  OBVIOUS
<1>0. /\ stack \in [Workers -> Seq(Jobs)] /\ n \in Nat \ {0} /\ DOMAIN stack[w] = 1..n
      /\ k \in Jobs
  BY <1>k DEF JobReturns, InJob, Shape, Control, WorkerControl, Busy, Types, JobTypes
<1>1. /\ done' = done \cup {k} /\ stack' = [stack EXCEPT ![w] = Front(@)]
      /\ UNCHANGED <<jobQueue, reserved, submitted>>
  BY <1>k DEF JobReturns, CurrentJob, Last, poolState
<1>2. /\ stack'[w] = SubSeq(stack[w], 1, n - 1)
      /\ \A v \in Workers \ {w} : stack'[v] = stack[v]
  <2> QED BY <1>0, <1>1 DEF Front
<1>3. DOMAIN stack'[w] = 1..n - 1 /\ \A i \in 1..n - 1 : stack'[w][i] = stack[w][i]
  <2> HIDE DEF n
  <2>1. /\ stack[w] \in Seq(Jobs) /\ n - 1 \in Int
        /\ \A i \in 1..n - 1 : stack[w][i] \in Jobs
    BY <1>0
  <2>2. /\ stack'[w] \in Seq(Jobs) /\ Len(stack'[w]) = n - 1
        /\ \A i \in 1..n - 1 : stack'[w][i] = stack[w][i]
    <3>1. (IF 1 <= n - 1 THEN (n - 1) - 1 + 1 ELSE 0) = n - 1 /\ (n - 1) - 1 + 1 = n - 1
      BY <1>0
    <3>2. \A i \in 1..n - 1 : 1 + i - 1 = i
      BY <1>0
    <3> QED BY <1>2, <2>1, <3>1, <3>2, SubSeqProperties
  <2> QED BY <2>2
<1> HIDE DEF n
<1>4. \A i \in 1..n - 1 : i \in 1..n /\ i # n
  BY <1>0
<1>5. \A i \in 1..n : i \in 1..n - 1 \/ i = n
  BY <1>0
<1>6. StackedBy(w, k)
  BY <1>0, <1>k DEF StackedBy
<1>7. \A i \in 1..n - 1 : stack[w][i] # k
  BY <1>0, <1>4, <1>k DEF JobInOnePlace, NoRepeats
<1>8. \A v \in Workers, j \in Jobs : StackedBy(v, j)' <=> StackedBy(v, j) /\ ~(v = w /\ j = k)
  <2>1. ASSUME NEW j \in Jobs PROVE StackedBy(w, j)' <=> StackedBy(w, j) /\ j # k
    BY <1>0, <1>3, <1>4, <1>5, <1>7, <1>k DEF StackedBy
  <2>2. ASSUME NEW v \in Workers \ {w}, NEW j PROVE StackedBy(v, j)' <=> StackedBy(v, j)
    BY <1>2 DEF StackedBy
  <2> QED BY <2>1, <2>2
<1>9. \A j : Queued(j)' <=> Queued(j)
  BY <1>1 DEF Queued
<1>10. \A v \in Workers : \A j : ReservedBy(v, j)' <=> ReservedBy(v, j)
  BY <1>1 DEF ReservedBy
<1>11. \A v \in Workers : ~Queued(k)' /\ ~ReservedBy(v, k)' /\ ~StackedBy(v, k)'
  <2>1. \A v \in Workers : ~Queued(k) /\ ~ReservedBy(v, k) /\ (v # w => ~StackedBy(v, k))
    BY <1>0, <1>6 DEF JobInOnePlace, InOnePlace
  <2> QED
    BY <1>0, <1>8, <1>9, <1>10, <2>1
<1>12. k \in submitted \ done
  BY <1>0, <1>6 DEF JobInOnePlace, Placed
<1>13. Placed'
  <2>1. ASSUME NEW j \in Jobs
        PROVE  j \in submitted' \ done' <=>
          Queued(j)' \/ \E v \in Workers : StackedBy(v, j)' \/ ReservedBy(v, j)'
    <3>1. CASE j = k
      BY <1>1, <1>11, <3>1
    <3>2. CASE j # k
      BY <1>1, <1>8, <1>9, <1>10, <3>2 DEF JobInOnePlace, Placed
    <3> QED BY <3>1, <3>2
  <2> QED
    BY <1>1, <1>12, <2>1 DEF JobInOnePlace, Placed
<1>14. InOnePlace'
  BY <1>8, <1>9, <1>10 DEF JobInOnePlace, InOnePlace
<1>15. NoRepeats'
  <2>1. \A i, m \in DOMAIN stack'[w] : stack'[w][i] = stack'[w][m] => i = m
    BY <1>0, <1>3, <1>4 DEF JobInOnePlace, NoRepeats
  <2> QED
    BY <1>1, <1>2, <2>1 DEF JobInOnePlace, NoRepeats
<1> QED
  BY <1>13, <1>14, <1>15 DEF JobInOnePlace

(* Steps that leave the queue, the stacks, the list and the counters alone. *)
Quiet ==
    /\ UNCHANGED <<jobQueue, nPendingJobs, psWaitingWorkerThreadsList,
                   nWaitingWorkerThreads, bMarkedAsWaiting, jobState>>
    /\ \A w \in Workers : pc'[w] = "finish" <=> pc[w] = "finish"

LEMMA Quiet_Client ==
    ASSUME Shape, NEW c \in Clients,
           \/ \E n \in 1..NThreads : GDALGetGlobalThreadPool(c, n) \/ Setup(c, n)
           \/ \E n \in 0..MaxRemaining : WaitCompletion(c, n)
           \/ WaitEvent(c) \/ WaitAgain(c)
           \/ \E n \in 0..MaxRemaining : QueueWaitCompletion(c, n)
           \/ QueueWaitEvent(c) \/ QueueWaitAgain(c)
           \/ Destroy(c) \/ Stop(c) \/ NotifyStop(c) \/ Join(c) \/ Destroyed(c)
    PROVE  Quiet
<1>0. c \in Threads /\ c \notin Workers /\ pc \in [Threads -> Pcs]
  BY DEF Threads, Shape, Types, ThreadTypes
<1>1. ASSUME NEW n \in 1..NThreads, GDALGetGlobalThreadPool(c, n) PROVE Quiet
  BY <1>1 DEF GDALGetGlobalThreadPool, SetupLazy, Quiet
<1>2. ASSUME NEW n \in 1..NThreads, Setup(c, n) PROVE Quiet
  <2>1. PICK k \in 0..n : pc' = [Started(pc, k) EXCEPT ![c] = "cvWoken"]
    BY <1>2 DEF Setup
  <2>2. aWT = 0 /\ k \in Nat
    BY <1>2 DEF Setup, Shape, Types, PoolTypes
  <2>3. ASSUME NEW w \in Workers PROVE pc'[w] = "finish" <=> pc[w] = "finish"
    <3>1. w \in Threads \ {c} /\ pc[w] = "none" /\ w > 0
      BY <1>0, <2>2 DEF Threads, Shape, Control, WorkerControl, Workers
    <3>2. pc'[w] = IF aWT < w /\ w <= k THEN "next" ELSE pc[w]
      BY <1>0, <2>1, <2>2, <3>1, StartedFrame
    <3> QED BY <3>1, <3>2
  <2> QED
    BY <1>2, <2>3 DEF Setup, Quiet
<1>3. CASE \/ \E n \in 0..MaxRemaining : WaitCompletion(c, n)
           \/ WaitEvent(c) \/ WaitAgain(c)
  <2>1. PICK op, n : WaitOnPool(c, op, n)
    BY <1>3 DEF WaitCompletion, WaitEvent, WaitAgain
  <2>2. \A w \in Workers : pc'[w] = pc[w]
    BY <1>0, <2>1 DEF WaitOnPool, Threads
  <2> QED
    BY <2>1, <2>2 DEF WaitOnPool, Quiet, poolState
<1>4. CASE \/ \E n \in 0..MaxRemaining : QueueWaitCompletion(c, n)
           \/ QueueWaitEvent(c) \/ QueueWaitAgain(c)
  <2>1. CASE \E n \in 0..MaxRemaining : QueueWaitCompletion(c, n)
    BY <1>0, <2>1 DEF QueueWaitCompletion, Quiet, poolState
  <2>2. CASE QueueWaitEvent(c) \/ QueueWaitAgain(c)
    <3>1. PICK op, n : WaitOnQueue(c, op, n)
      BY <2>2 DEF QueueWaitEvent, QueueWaitAgain
    <3>2. \A w \in Workers : pc'[w] = pc[w]
      BY <1>0, <3>1 DEF WaitOnQueue, Threads
    <3> QED
      BY <3>1, <3>2 DEF WaitOnQueue, Quiet, poolState
  <2> QED BY <1>4, <2>1, <2>2
<1>5. CASE Destroy(c) \/ Stop(c) \/ Join(c) \/ Destroyed(c)
  <2>1. \A w \in Workers : pc'[w] = pc[w]
    BY <1>0, <1>5 DEF Destroy, Stop, Join, Destroyed, Threads
  <2>2. UNCHANGED <<jobQueue, nPendingJobs, psWaitingWorkerThreadsList,
                    nWaitingWorkerThreads, bMarkedAsWaiting, jobState>>
    BY <1>5 DEF Destroy, Stop, Join, Destroyed, poolState
  <2> QED
    BY <2>1, <2>2 DEF Quiet
<1>6. CASE NotifyStop(c)
  <2>1. ASSUME NEW w \in Workers PROVE pc'[w] = "finish" <=> pc[w] = "finish"
    BY <1>0, <1>6 DEF NotifyStop, Threads
  <2> QED
    BY <1>6, <2>1 DEF NotifyStop, Quiet, poolState
<1> QED
  BY <1>1, <1>2, <1>3, <1>4, <1>5, <1>6

LEMMA Quiet_Worker ==
    ASSUME Shape, NEW w \in Workers,
           FallAsleep(w) \/ WakeUp(w) \/ JobWaits(w) \/ WakeUpWaitEvent(w)
    PROVE  Quiet
<1>0. pc \in [Threads -> Pcs] /\ Workers \cap Clients = {} /\ w \in Threads
  BY DEF Threads, Shape, Types, ThreadTypes
<1>1. CASE FallAsleep(w) \/ WakeUp(w) \/ JobWaits(w)
  BY <1>0, <1>1 DEF FallAsleep, WakeUp, JobWaits, InJob, Quiet, poolState, Threads
<1>2. CASE WakeUpWaitEvent(w)
  <2>1. \A v \in Workers : pc'[v] = pc[v]
    BY <1>0, <1>2, NotifyOneFrame DEF WakeUpWaitEvent, Threads
  <2> QED
    BY <1>2, <2>1 DEF WakeUpWaitEvent, Quiet, poolState
<1> QED
  BY <1>1, <1>2

LEMMA Quiet_Notify ==
    ASSUME Shape, NEW t \in Threads, Notify(t) \/ SpuriousWakeUp(t)
    PROVE  Quiet
<1>0. pc \in [Threads -> Pcs]
  BY DEF Shape, Types, ThreadTypes
<1>1. CASE Notify(t)
  BY <1>0, <1>1 DEF Notify, Quiet, poolState, Threads
<1>2. CASE SpuriousWakeUp(t)
  BY <1>0, <1>2 DEF SpuriousWakeUp, Quiet, poolState, Threads
<1> QED
  BY <1>1, <1>2

LEMMA Places_Next == Shape /\ Shape' /\ JobInOnePlace /\ [Next]_vars => JobInOnePlace'
<1> SUFFICES ASSUME Shape, Shape', JobInOnePlace, [Next]_vars PROVE JobInOnePlace'
  OBVIOUS
<1>0. /\ TopJobs \subseteq Jobs /\ QueueJobs \subseteq Jobs /\ ChildJobs \subseteq Jobs
      /\ Clients \subseteq Threads /\ Workers \subseteq Threads
  BY JobsAssumption DEF TopJobs, ChildJobs, Threads
<1>1. Quiet => JobInOnePlace'
  BY PlacesKept DEF Quiet, jobState
<1>2. CASE UNCHANGED vars
  BY <1>2, PlacesKept DEF vars, poolState, jobState
<1>3. ASSUME NEW c \in Clients, ClientStep(c) PROVE JobInOnePlace'
  <2>1. CASE BatchNext(c)
    BY <2>1, PlacesKept DEF BatchNext, jobState
  <2> QED
    BY <1>0, <1>1, <1>3, <2>1, Quiet_Client, Quiet_Notify DEF ClientStep
<1>4. ASSUME NEW c \in Clients, ClientCall(c) PROVE JobInOnePlace'
  <2>1. ASSUME NEW j \in (TopJobs \cup QueueJobs) \ submitted, SubmitJob(c, j)
        PROVE  JobInOnePlace'
    BY <1>0, <2>1, Places_SubmitJob
  <2>2. ASSUME NEW js \in Batches, SubmitJobs(c, js) PROVE JobInOnePlace'
    BY <2>2, Places_SubmitJobs
  <2> QED
    BY <1>1, <1>4, <2>1, <2>2, Quiet_Client DEF ClientCall
<1>5. ASSUME NEW w \in Workers, WorkerStep(w) \/ WakeUpWaitEvent(w) PROVE JobInOnePlace'
  <2>1. ASSUME NEW k \in ChildJobs, SubmitNested(w, k) \/ SubmitJobsNested(w, k)
        PROVE  JobInOnePlace'
    BY <1>0, <2>1, Places_SubmitNested
  <2>2. CASE DeclareJobFinished(w)
    BY <2>2, PlacesKept DEF DeclareJobFinished, jobState
  <2> QED
    BY <1>0, <1>1, <1>5, <2>1, <2>2, Places_GetNextJob, Places_EnqueueNested,
       Places_JobReturns, Quiet_Worker, Quiet_Notify DEF WorkerStep
<1>6. ASSUME NEW t \in Threads, SpuriousWakeUp(t) PROVE JobInOnePlace'
  BY <1>1, <1>6, Quiet_Notify
<1> QED
  BY <1>2, <1>3, <1>4, <1>5, <1>6 DEF Next

-----------------------------------------------------------------------------
(* The waiting list and its counter *)

LEMMA FiniteWorkers ==
    /\ IsFiniteSet(Workers) /\ Cardinality(Workers) = NThreads
    /\ \A S \in SUBSET Workers :
          IsFiniteSet(S) /\ Cardinality(S) \in Nat /\ Cardinality(S) <= NThreads
<1>1. IsFiniteSet(1..NThreads) /\ Cardinality(1..NThreads) = NThreads
  BY FS_Interval
<1>2. IsFiniteSet(Workers) /\ Cardinality(Workers) = NThreads
  BY <1>1 DEF Workers
<1>3. ASSUME NEW S \in SUBSET Workers
      PROVE  IsFiniteSet(S) /\ Cardinality(S) \in Nat /\ Cardinality(S) <= NThreads
  BY <1>2, FS_Subset, FS_CardinalityType
<1> QED
  BY <1>2, <1>3

LEMMA InReserveIs ==
    /\ Shape => InReserve = {w \in Workers : reserved[w] # NoThread}
    /\ Shape' => InReserve' = {w \in Workers : reserved'[w] # NoThread}
BY DEF InReserve, Shape, Control, WorkerControl

Marked == {w \in Workers : bMarkedAsWaiting[w]}
ListExact ==
    IsInjective(psWaitingWorkerThreadsList) /\ Range(psWaitingWorkerThreadsList) = Marked

LEMMA ListExactKept ==
    ASSUME ListExact, UNCHANGED <<psWaitingWorkerThreadsList, bMarkedAsWaiting>>
    PROVE  ListExact'
BY DEF ListExact, Marked, IsInjective, Range

LEMMA PopExact ==
    ASSUME Shape, ListExact, NEW t, NEW f, NEW n,
           psWaitingWorkerThreadsList # <<>>, PopWaitingWorker(t, f, n)
    PROVE  /\ ListExact'
           /\ Len(psWaitingWorkerThreadsList') = Len(psWaitingWorkerThreadsList) - 1
           /\ nWaitingWorkerThreads' = n - 1
<1> DEFINE l == psWaitingWorkerThreadsList
<1>1. PICK m : m = Len(l)
  OBVIOUS
<1>2. PICK h : h = Head(l)
  OBVIOUS
<1>3. /\ l \in Seq(Workers) /\ bMarkedAsWaiting \in [Workers -> BOOLEAN]
      /\ m \in Nat \ {0} /\ DOMAIN l = 1..m /\ h = l[1] /\ h \in Workers
  BY <1>1, <1>2 DEF Shape, Types, WaitingTypes
<1>4. /\ l' = Tail(l) /\ bMarkedAsWaiting' = [bMarkedAsWaiting EXCEPT ![h] = FALSE]
      /\ nWaitingWorkerThreads' = n - 1
  BY <1>2 DEF PopWaitingWorker
<1>5. Len(l') = m - 1 /\ DOMAIN l' = 1..m - 1 /\ \A i \in 1..m - 1 : l'[i] = l[i + 1]
  BY <1>1, <1>3, <1>4
<1>6. /\ \A i, k \in 1..m : l[i] = l[k] => i = k
      /\ \A w \in Workers : bMarkedAsWaiting[w] <=> \E i \in 1..m : l[i] = w
  BY <1>3 DEF ListExact, Marked, IsInjective, Range
<1>7. \A i \in 1..m - 1 : i + 1 \in 1..m /\ i + 1 # 1 /\ 1 \in 1..m
  BY <1>3
<1>8. IsInjective(l')
  BY <1>5, <1>6, <1>7 DEF IsInjective
<1>9. ASSUME NEW w \in Workers
      PROVE  bMarkedAsWaiting'[w] <=> \E i \in 1..m - 1 : l'[i] = w
  <2>1. bMarkedAsWaiting'[w] <=> w # h /\ bMarkedAsWaiting[w]
    BY <1>3, <1>4
  <2>2. ASSUME NEW i \in 1..m, i # 1 PROVE i - 1 \in 1..m - 1 /\ l'[i - 1] = l[i]
    <3>1. i - 1 \in 1..m - 1 /\ (i - 1) + 1 = i
      BY <1>3, <2>2
    <3> QED BY <1>5, <3>1
  <2>3. ASSUME NEW i \in 1..m - 1, l'[i] = h PROVE FALSE
    BY <1>3, <1>5, <1>6, <1>7, <2>3
  <2>4. w # h => (bMarkedAsWaiting[w] <=> \E i \in 1..m - 1 : l'[i] = w)
    <3>1. ASSUME w # h, bMarkedAsWaiting[w] PROVE \E i \in 1..m - 1 : l'[i] = w
      <4>1. PICK i \in 1..m : l[i] = w
        BY <1>6, <3>1
      <4> QED BY <1>3, <2>2, <3>1, <4>1
    <3>2. ASSUME NEW i \in 1..m - 1, l'[i] = w PROVE bMarkedAsWaiting[w]
      BY <1>5, <1>6, <1>7, <3>2
    <3> QED BY <3>1, <3>2
  <2> QED BY <2>1, <2>3, <2>4
<1>10. \A i \in 1..m - 1 : l'[i] \in Workers
  BY <1>3, <1>5, <1>7
<1>11. Range(l') = Marked'
  BY <1>5, <1>9, <1>10 DEF Range, Marked
<1> QED
  BY <1>1, <1>4, <1>5, <1>8, <1>11 DEF ListExact

LEMMA MarkExact ==
    ASSUME Shape, ListExact, NEW w \in Workers, MarkAsWaiting(w)
    PROVE  /\ ListExact'
           /\ Len(psWaitingWorkerThreadsList') - nWaitingWorkerThreads' =
                 Len(psWaitingWorkerThreadsList) - nWaitingWorkerThreads
<1>1. CASE bMarkedAsWaiting[w]
  BY <1>1, ListExactKept DEF MarkAsWaiting
<1>2. CASE ~bMarkedAsWaiting[w]
  <2> DEFINE l == psWaitingWorkerThreadsList
  <2>0. PICK m : m = Len(l)
    OBVIOUS
  <2>1. /\ l \in Seq(Workers) /\ <<w>> \in Seq(Workers) /\ Len(<<w>>) = 1 /\ <<w>>[1] = w
        /\ m \in Nat /\ DOMAIN l = 1..m /\ bMarkedAsWaiting \in [Workers -> BOOLEAN]
        /\ nWaitingWorkerThreads \in Int
    BY <2>0 DEF Shape, Types, WaitingTypes
  <2>2. /\ l' = <<w>> \o l
        /\ nWaitingWorkerThreads' = nWaitingWorkerThreads + 1
        /\ bMarkedAsWaiting' = [bMarkedAsWaiting EXCEPT ![w] = TRUE]
    BY <1>2 DEF MarkAsWaiting
  <2>3. /\ Len(l') = m + 1 /\ DOMAIN l' = 1..m + 1
        /\ \A i \in 1..m + 1 : l'[i] = IF i = 1 THEN w ELSE l[i - 1]
    <3>1. /\ <<w>> \o l \in Seq(Workers)
          /\ Len(<<w>> \o l) = 1 + m
          /\ \A i \in 1..1 + m : (<<w>> \o l)[i] = IF i <= 1 THEN w ELSE l[i - 1]
      BY <2>0, <2>1
    <3> QED BY <2>1, <2>2, <3>1
  <2>4. /\ \A i, k \in 1..m : l[i] = l[k] => i = k
        /\ \A v \in Workers : bMarkedAsWaiting[v] <=> \E i \in 1..m : l[i] = v
    BY <2>1 DEF ListExact, Marked, IsInjective, Range
  <2>5. \A i \in 1..m + 1 : i = 1 \/ (i - 1 \in 1..m /\ l'[i] = l[i - 1])
    BY <2>1, <2>3
  <2>6. \A i \in 1..m : i + 1 \in 1..m + 1 /\ l'[i + 1] = l[i]
    <3>1. ASSUME NEW i \in 1..m PROVE i + 1 \in 1..m + 1 /\ (i + 1) - 1 = i /\ i + 1 # 1
      BY <2>1
    <3> QED BY <2>3, <3>1
  <2>7. 1 \in 1..m + 1 /\ l'[1] = w
    BY <2>1, <2>3
  <2>8. \A i \in 1..m : l[i] # w
    BY <1>2, <2>4
  <2>9. ASSUME NEW i \in 1..m + 1, NEW k \in 1..m + 1, l'[i] = l'[k] PROVE i = k
    <3>1. CASE i = 1 \/ k = 1
      BY <2>5, <2>7, <2>8, <2>9, <3>1
    <3>2. CASE i # 1 /\ k # 1
      <4>1. i - 1 = k - 1
        BY <2>4, <2>5, <2>9, <3>2
      <4> QED BY <2>1, <4>1
    <3> QED BY <3>1, <3>2
  <2>10. ASSUME NEW v \in Workers
         PROVE  bMarkedAsWaiting'[v] <=> \E i \in 1..m + 1 : l'[i] = v
    <3>1. bMarkedAsWaiting'[v] <=> v = w \/ bMarkedAsWaiting[v]
      BY <2>1, <2>2
    <3> QED
      BY <2>4, <2>5, <2>6, <2>7, <3>1
  <2>11. \A i \in 1..m + 1 : l'[i] \in Workers
    BY <2>1, <2>5, <2>7
  <2>12. IsInjective(l') /\ Range(l') = Marked'
    BY <2>3, <2>9, <2>10, <2>11 DEF Range, Marked, IsInjective
  <2> QED
    BY <2>0, <2>1, <2>2, <2>3, <2>12 DEF ListExact
<1> QED
  BY <1>1, <1>2

LEMMA WaitingListIs ==
    /\ WaitingListExact <=>
          ListExact /\ nWaitingWorkerThreads = Len(psWaitingWorkerThreadsList)
                                               - Cardinality(InReserve)
    /\ WaitingListExact' <=>
          ListExact' /\ nWaitingWorkerThreads' = Len(psWaitingWorkerThreadsList')
                                                 - Cardinality(InReserve')
BY DEF WaitingListExact, ListExact, Marked, InReserve

LEMMA Waiting_Kept ==
    ASSUME Shape, Shape', WaitingListExact,
           UNCHANGED <<psWaitingWorkerThreadsList, nWaitingWorkerThreads,
                       bMarkedAsWaiting, reserved>>
    PROVE  WaitingListExact'
<1>1. InReserve' = InReserve
  BY InReserveIs
<1>2. ListExact'
  BY WaitingListIs, ListExactKept
<1> QED
  BY <1>1, <1>2, WaitingListIs

LEMMA ReserveCount ==
    /\ IsFiniteSet(InReserve) /\ Cardinality(InReserve) \in 0..NThreads
    /\ IsFiniteSet(InReserve') /\ Cardinality(InReserve') \in 0..NThreads
BY FiniteWorkers DEF InReserve

(* Popping a worker off the list for a job whose reservation, if there was *)
(* one, is released in the same step.                                      *)
LEMMA Waiting_Pop ==
    ASSUME Shape, Shape', WaitingListExact, NEW t, NEW f, NEW n \in Int,
           psWaitingWorkerThreadsList # <<>>, PopWaitingWorker(t, f, n),
           n + Cardinality(InReserve') = nWaitingWorkerThreads + Cardinality(InReserve)
    PROVE  WaitingListExact'
<1>1. /\ Cardinality(InReserve) \in Nat /\ Cardinality(InReserve') \in Nat
      /\ Len(psWaitingWorkerThreadsList) \in Nat /\ nWaitingWorkerThreads \in Int
  BY ReserveCount DEF Shape, Types, WaitingTypes
<1>2. ListExact /\ nWaitingWorkerThreads = Len(psWaitingWorkerThreadsList)
                                           - Cardinality(InReserve)
  BY WaitingListIs
<1>3. /\ ListExact'
      /\ Len(psWaitingWorkerThreadsList') = Len(psWaitingWorkerThreadsList) - 1
      /\ nWaitingWorkerThreads' = n - 1
  BY <1>2, PopExact
<1>4. nWaitingWorkerThreads' = Len(psWaitingWorkerThreadsList') - Cardinality(InReserve')
  <2>1. n + Cardinality(InReserve') = Len(psWaitingWorkerThreadsList)
    BY <1>1, <1>2
  <2>2. n - 1 = (Len(psWaitingWorkerThreadsList) - 1) - Cardinality(InReserve')
    BY <1>1, <2>1
  <2> QED
    BY <1>3, <2>2
<1> QED
  BY <1>3, <1>4, WaitingListIs

LEMMA Waiting_Enqueue ==
    ASSUME Shape, Shape', WaitingListExact, NEW t, NEW j, NEW n \in Int,
           Enqueue(t, j, n),
           n + Cardinality(InReserve') = nWaitingWorkerThreads + Cardinality(InReserve)
    PROVE  WaitingListExact'
<1>1. CASE WakesWorker
  BY <1>1, Waiting_Pop DEF Enqueue, WakesWorker
<1>2. CASE ~WakesWorker
  <2>1. /\ Cardinality(InReserve) \in Nat /\ Cardinality(InReserve') \in Nat
        /\ Len(psWaitingWorkerThreadsList) \in Nat /\ nWaitingWorkerThreads \in Int
    BY ReserveCount DEF Shape, Types, WaitingTypes
  <2>2. /\ nWaitingWorkerThreads' = n
        /\ UNCHANGED <<psWaitingWorkerThreadsList, bMarkedAsWaiting>>
    BY <1>2 DEF Enqueue
  <2>3. ListExact'
    BY <2>2, WaitingListIs, ListExactKept
  <2>4. nWaitingWorkerThreads' = Len(psWaitingWorkerThreadsList') - Cardinality(InReserve')
    BY <2>1, <2>2, WaitingListIs
  <2> QED
    BY <2>3, <2>4, WaitingListIs
<1> QED
  BY <1>1, <1>2

LEMMA Waiting_Clients ==
    ASSUME Shape, Shape', WaitingListExact, NEW c \in Clients,
           \/ \E j \in Jobs : SubmitJob(c, j)
           \/ \E js \in Batches : SubmitJobs(c, js)
           \/ BatchNext(c)
    PROVE  WaitingListExact'
<1>1. UNCHANGED reserved
  BY DEF SubmitJob, SubmitJobs, BatchNext, jobState
<1>2. InReserve' = InReserve
  BY <1>1, InReserveIs
<1>3. nWaitingWorkerThreads \in Int
  BY DEF Shape, Types, WaitingTypes
<1>4. ASSUME NEW j \in Jobs, SubmitJob(c, j) PROVE WaitingListExact'
  BY <1>2, <1>3, <1>4, Waiting_Enqueue DEF SubmitJob
<1>5. ASSUME NEW js \in Batches, SubmitJobs(c, js) PROVE WaitingListExact'
  <2>1. CASE WakesWorker
    <3>1. PICK k : PopWaitingWorker(c, Started(pc, k), nWaitingWorkerThreads)
      BY <1>5, <2>1 DEF SubmitJobs
    <3> QED BY <1>2, <1>3, <2>1, <3>1, Waiting_Pop DEF WakesWorker
  <2>2. CASE ~WakesWorker
    BY <1>1, <1>5, <2>2, Waiting_Kept DEF SubmitJobs
  <2> QED BY <2>1, <2>2
<1>6. CASE BatchNext(c)
  <2>1. CASE call[c].n > 0 /\ psWaitingWorkerThreadsList # <<>>
    BY <1>2, <1>3, <1>6, <2>1, Waiting_Pop DEF BatchNext
  <2>2. CASE ~(call[c].n > 0 /\ psWaitingWorkerThreadsList # <<>>)
    BY <1>1, <1>6, <2>2, Waiting_Kept DEF BatchNext
  <2> QED BY <2>1, <2>2
<1> QED
  BY <1>4, <1>5, <1>6

LEMMA Waiting_SubmitNested ==
    ASSUME Shape, Shape', WaitingListExact, NEW w \in Workers, NEW k \in Jobs,
           SubmitNested(w, k)
    PROVE  WaitingListExact'
<1>1. CASE CanQueueNested
  <2>1. /\ nWaitingWorkerThreads' = nWaitingWorkerThreads - 1
        /\ reserved' = [reserved EXCEPT ![w] = k]
        /\ UNCHANGED <<psWaitingWorkerThreadsList, bMarkedAsWaiting>>
    BY <1>1 DEF SubmitNested
  <2>2. reserved \in [Workers -> Jobs \cup {NoThread}] /\ reserved[w] = NoThread
    BY DEF SubmitNested, InJob, Shape, Control, WorkerControl, Types, JobTypes
  <2>3. InReserve' = InReserve \cup {w} /\ w \notin InReserve
    BY <2>1, <2>2, InReserveIs
  <2>4. Cardinality(InReserve') = Cardinality(InReserve) + 1
    BY <2>3, FS_AddElement, ReserveCount
  <2>5. /\ Cardinality(InReserve) \in Nat
        /\ Len(psWaitingWorkerThreadsList) \in Nat /\ nWaitingWorkerThreads \in Int
    BY ReserveCount DEF Shape, Types, WaitingTypes
  <2>6. nWaitingWorkerThreads' = Len(psWaitingWorkerThreadsList') - Cardinality(InReserve')
    BY <2>1, <2>4, <2>5, WaitingListIs
  <2> QED
    BY <2>1, <2>6, WaitingListIs, ListExactKept
<1>2. CASE ~CanQueueNested
  BY <1>2, Waiting_Kept DEF SubmitNested
<1> QED
  BY <1>1, <1>2

LEMMA Waiting_EnqueueNested ==
    ASSUME Shape, Shape', WaitingListExact, NEW w \in Workers, EnqueueNested(w)
    PROVE  WaitingListExact'
<1>1. /\ reserved \in [Workers -> Jobs \cup {NoThread}] /\ reserved[w] # NoThread
      /\ reserved' = [reserved EXCEPT ![w] = NoThread]
      /\ Enqueue(w, reserved[w], nWaitingWorkerThreads + 1)
  BY DEF EnqueueNested, Shape, Control, WorkerControl, Types, JobTypes
<1>2. InReserve' = InReserve \ {w} /\ w \in InReserve
  BY <1>1, InReserveIs
<1>3. Cardinality(InReserve') = Cardinality(InReserve) - 1
  BY <1>2, FS_RemoveElement, ReserveCount
<1>4. Cardinality(InReserve) \in Nat /\ nWaitingWorkerThreads \in Int
  BY ReserveCount DEF Shape, Types, WaitingTypes
<1>5. /\ nWaitingWorkerThreads + 1 \in Int
      /\ (nWaitingWorkerThreads + 1) + Cardinality(InReserve')
            = nWaitingWorkerThreads + Cardinality(InReserve)
  BY <1>3, <1>4
<1> QED
  BY <1>1, <1>5, Waiting_Enqueue

LEMMA Waiting_GetNextJob ==
    ASSUME Shape, Shape', WaitingListExact, NEW w \in Workers, GetNextJob(w)
    PROVE  WaitingListExact'
<1>1. UNCHANGED reserved
  BY DEF GetNextJob
<1>2. CASE UNCHANGED <<bMarkedAsWaiting, nWaitingWorkerThreads, psWaitingWorkerThreadsList>>
  BY <1>1, <1>2, Waiting_Kept
<1>3. CASE MarkAsWaiting(w)
  <2>1. InReserve' = InReserve
    BY <1>1, InReserveIs
  <2>2. /\ Cardinality(InReserve) \in Nat
        /\ Len(psWaitingWorkerThreadsList) \in Nat /\ nWaitingWorkerThreads \in Int
        /\ Len(psWaitingWorkerThreadsList') \in Nat /\ nWaitingWorkerThreads' \in Int
    BY ReserveCount DEF Shape, Types, WaitingTypes
  <2>3. /\ ListExact'
        /\ Len(psWaitingWorkerThreadsList') - nWaitingWorkerThreads' =
              Len(psWaitingWorkerThreadsList) - nWaitingWorkerThreads
    BY <1>3, MarkExact, WaitingListIs
  <2>4. nWaitingWorkerThreads' = Len(psWaitingWorkerThreadsList') - Cardinality(InReserve')
    BY <2>1, <2>2, <2>3, WaitingListIs
  <2> QED
    BY <2>3, <2>4, WaitingListIs
<1> QED
  BY <1>2, <1>3 DEF GetNextJob

LEMMA Waiting_Next == Shape /\ Shape' /\ WaitingListExact /\ [Next]_vars => WaitingListExact'
<1> SUFFICES ASSUME Shape, Shape', WaitingListExact, [Next]_vars PROVE WaitingListExact'
  OBVIOUS
<1>0. /\ TopJobs \subseteq Jobs /\ QueueJobs \subseteq Jobs /\ ChildJobs \subseteq Jobs
      /\ Clients \subseteq Threads /\ Workers \subseteq Threads
  BY JobsAssumption DEF TopJobs, ChildJobs, Threads
<1>1. Quiet => WaitingListExact'
  BY Waiting_Kept DEF Quiet, jobState
<1>2. CASE UNCHANGED vars
  BY <1>2, Waiting_Kept DEF vars, poolState, jobState
<1>3. ASSUME NEW c \in Clients, ClientStep(c) \/ ClientCall(c) PROVE WaitingListExact'
  <2>1. CASE ClientStep(c)
    BY <1>0, <1>1, <2>1, Waiting_Clients, Quiet_Client, Quiet_Notify DEF ClientStep
  <2>2. CASE ClientCall(c)
    BY <1>0, <1>1, <2>2, Waiting_Clients, Quiet_Client DEF ClientCall
  <2> QED BY <1>3, <2>1, <2>2
<1>4. ASSUME NEW w \in Workers, WorkerStep(w) \/ WakeUpWaitEvent(w) PROVE WaitingListExact'
  <2>1. ASSUME NEW k \in ChildJobs, SubmitNested(w, k) \/ SubmitJobsNested(w, k)
        PROVE  WaitingListExact'
    BY <1>0, <2>1, Waiting_SubmitNested, Waiting_Kept DEF SubmitJobsNested, poolState
  <2>2. CASE DeclareJobFinished(w) \/ JobReturns(w)
    BY <2>2, Waiting_Kept DEF DeclareJobFinished, JobReturns, jobState, poolState
  <2> QED
    BY <1>0, <1>1, <1>4, <2>1, <2>2, Waiting_GetNextJob, Waiting_EnqueueNested,
       Quiet_Worker, Quiet_Notify DEF WorkerStep
<1>5. ASSUME NEW t \in Threads, SpuriousWakeUp(t) PROVE WaitingListExact'
  BY <1>1, <1>5, Quiet_Notify
<1> QED
  BY <1>2, <1>3, <1>4, <1>5 DEF Next

-----------------------------------------------------------------------------
(* The jobs that nPendingJobs counts *)

PoolPending == nPendingJobs = Len(jobQueue) + Cardinality(TakenFromQueue)

LEMMA TakenIs ==
    /\ Shape => TakenFromQueue = {w \in Workers : pc[w] \in Busy \cup {"finish"}}
    /\ Shape' => TakenFromQueue' = {w \in Workers : pc'[w] \in Busy \cup {"finish"}}
BY DEF TakenFromQueue, Shape, Control, WorkerControl

LEMMA TakenCount ==
    /\ IsFiniteSet(TakenFromQueue) /\ Cardinality(TakenFromQueue) \in 0..NThreads
    /\ IsFiniteSet(TakenFromQueue') /\ Cardinality(TakenFromQueue') \in 0..NThreads
BY FiniteWorkers DEF TakenFromQueue

LEMMA Pending_Kept ==
    ASSUME PoolPending, UNCHANGED <<nPendingJobs, jobQueue>>,
           TakenFromQueue' = TakenFromQueue
    PROVE  PoolPending'
BY DEF PoolPending

LEMMA TakenKept ==
    ASSUME UNCHANGED stack, \A w \in Workers : pc'[w] = "finish" <=> pc[w] = "finish"
    PROVE  TakenFromQueue' = TakenFromQueue
BY DEF TakenFromQueue

(* Creating workers finishes no job. *)
LEMMA StartedNotFinish ==
    ASSUME Shape, NEW n \in Nat, NEW w \in Workers
    PROVE  Started(pc, n)[w] = "finish" <=> pc[w] = "finish"
<1>1. aWT \in Nat /\ pc \in [Threads -> Pcs] /\ w \in Nat
  BY DEF Shape, Types, PoolTypes, ThreadTypes, Workers
<1>2. Started(pc, n)[w] = IF aWT < w /\ w <= n THEN "next" ELSE pc[w]
  BY <1>1, StartedFrame
<1>3. aWT < w => pc[w] = "none"
  BY <1>1 DEF Shape, Control, WorkerControl
<1> QED
  BY <1>2, <1>3

LEMMA Pending_Enqueue ==
    ASSUME Shape, Shape', PoolPending, NEW t \in Threads, NEW j \in Jobs, NEW n \in Int,
           Enqueue(t, j, n), pc[t] # "finish", UNCHANGED stack
    PROVE  PoolPending'
<1>1. jobQueue' = Append(jobQueue, j) /\ nPendingJobs' = nPendingJobs + 1
  BY DEF Enqueue
<1>2. aWT' \in Nat
  BY DEF Shape, Types, PoolTypes
<1>3. ASSUME NEW w \in Workers PROVE pc'[w] = "finish" <=> pc[w] = "finish"
  <2>1. CASE w = t
    BY <2>1, EnqueueFrame
  <2>2. CASE w # t
    <3>1. w \in Threads \ {t}
      BY <2>2 DEF Threads
    <3>2. pc'[w] = Started(pc, aWT')[w]
      BY <3>1, EnqueueFrame
    <3> QED BY <1>2, <3>2, StartedNotFinish
  <2> QED BY <2>1, <2>2
<1>4. TakenFromQueue' = TakenFromQueue
  BY <1>3, TakenKept
<1>5. /\ Len(jobQueue') = Len(jobQueue) + 1 /\ Len(jobQueue) \in Nat
      /\ Cardinality(TakenFromQueue) \in Nat
  BY <1>1, TakenCount DEF Shape, Types, PoolTypes
<1> QED
  BY <1>1, <1>4, <1>5 DEF PoolPending

LEMMA Pending_SubmitJobs ==
    ASSUME Shape, Shape', PoolPending, NEW c \in Clients, NEW js \in Batches,
           SubmitJobs(c, js)
    PROVE  PoolPending'
<1>1. /\ jobQueue' = jobQueue \o js /\ nPendingJobs' = nPendingJobs + Len(js)
      /\ UNCHANGED stack
  BY DEF SubmitJobs
<1>2. js \in Seq(Jobs) /\ jobQueue \in Seq(Jobs) /\ aWT' \in Nat /\ pc \in [Threads -> Pcs]
      /\ aWT \in Nat
  BY BatchIsSeq DEF Shape, Types, PoolTypes, ThreadTypes
<1>3. Len(jobQueue') = Len(jobQueue) + Len(js) /\ Len(jobQueue) \in Nat /\ Len(js) \in Nat
  BY <1>1, <1>2, ConcatProperties
<1>4. ASSUME NEW w \in Workers PROVE pc'[w] = "finish" <=> pc[w] = "finish"
  <2>1. w \in Threads \ {c}
    BY DEF Threads
  <2>2. Started(pc, aWT') \in [Threads -> Pcs]
    BY <1>2, StartedFrame
  <2>3. pc'[w] = Started(pc, aWT')[w]
    <3>1. CASE WakesWorker
      <4>1. pc' = [Started(pc, aWT') EXCEPT ![c] = "notify"]
        BY <3>1 DEF SubmitJobs, PopWaitingWorker
      <4> QED BY <2>1, <2>2, <4>1
    <3>2. CASE ~WakesWorker
      BY <3>2 DEF SubmitJobs
    <3> QED BY <3>1, <3>2
  <2> QED
    BY <1>2, <2>3, StartedNotFinish
<1>5. TakenFromQueue' = TakenFromQueue /\ Cardinality(TakenFromQueue) \in Nat
  BY <1>1, <1>4, TakenKept, TakenCount
<1> QED
  BY <1>1, <1>3, <1>5 DEF PoolPending

LEMMA Pending_GetNextJob ==
    ASSUME Shape, Shape', PoolPending, NEW w \in Workers, GetNextJob(w)
    PROVE  PoolPending'
<1>0. /\ pc \in [Threads -> Pcs] /\ w \in Threads /\ pc[w] \in {"next", "relock"}
      /\ Workers \subseteq Threads /\ Clients \cap Workers = {}
      /\ UNCHANGED nPendingJobs
  BY DEF GetNextJob, Shape, Types, ThreadTypes, Threads
<1>1. CASE UNCHANGED jobQueue /\ UNCHANGED stack
  <2>1. \A v \in Workers : pc'[v] = "finish" <=> pc[v] = "finish"
    <3>1. CASE pc' = [pc EXCEPT ![w] = "exit"]
      BY <1>0, <3>1
    <3>2. CASE pc' \in NotifyOne([pc EXCEPT ![w] = "lockOwn"])
      <4> DEFINE f == [pc EXCEPT ![w] = "lockOwn"]
      <4>1. f \in [Threads -> Pcs] /\ f[w] = "lockOwn" /\ \A t \in Threads \ {w} : f[t] = pc[t]
        BY <1>0 DEF Pcs, WorkerPcs
      <4>2. \A v \in Workers : pc'[v] = f[v]
        BY <1>0, <3>2, <4>1, NotifyOneFrame
      <4> QED BY <1>0, <4>1, <4>2
    <3>3. jobQueue # <<>> => Tail(jobQueue) # jobQueue
      <4>1. jobQueue # <<>> => Len(Tail(jobQueue)) = Len(jobQueue) - 1 /\ Len(jobQueue) \in Nat
        BY DEF Shape, Types, PoolTypes
      <4> QED BY <4>1
    <3> QED BY <1>1, <3>1, <3>2, <3>3 DEF GetNextJob
  <2> QED
    BY <1>0, <1>1, <2>1, TakenKept, Pending_Kept
<1>2. CASE /\ jobQueue # <<>> /\ jobQueue' = Tail(jobQueue)
           /\ pc' = [pc EXCEPT ![w] = "run"]
  <2>1. TakenFromQueue' = TakenFromQueue \cup {w} /\ w \notin TakenFromQueue
    BY <1>0, <1>2, TakenIs DEF Busy
  <2>2. Cardinality(TakenFromQueue') = Cardinality(TakenFromQueue) + 1
    BY <2>1, TakenCount, FS_AddElement
  <2>3. /\ Len(jobQueue') = Len(jobQueue) - 1 /\ Len(jobQueue) \in Nat
        /\ Cardinality(TakenFromQueue) \in Nat
    BY <1>2, TakenCount DEF Shape, Types, PoolTypes
  <2> QED
    BY <1>0, <2>2, <2>3 DEF PoolPending
<1> QED
  BY <1>1, <1>2 DEF GetNextJob

LEMMA Pending_JobReturns ==
    ASSUME Shape, Shape', PoolPending, NEW w \in Workers, JobReturns(w)
    PROVE  PoolPending'
<1> DEFINE f == PcsAfterQueueNotify(queueOf[CurrentJob(w)])
<1>0. /\ pc \in [Threads -> Pcs] /\ pc[w] = "run" /\ Workers \subseteq Threads
      /\ UNCHANGED <<nPendingJobs, jobQueue>>
      /\ pc' = [f EXCEPT ![w] = IF Len(stack[w]) = 1 THEN "finish" ELSE "run"]
  BY DEF JobReturns, InJob, Shape, Types, ThreadTypes, poolState, Threads
<1>1. DOMAIN f = Threads /\ \A v \in Workers : f[v] = pc[v] \/ (pc[v] = "queueCv" /\ f[v] = "run")
  BY <1>0 DEF PcsAfterQueueNotify, QueueSleepers
<1> HIDE DEF f
<1>2. \A v \in Workers : pc'[v] \in Busy \cup {"finish"} <=> pc[v] \in Busy \cup {"finish"}
  BY <1>0, <1>1 DEF Busy
<1>3. TakenFromQueue' = TakenFromQueue
  BY <1>2, TakenIs
<1> QED
  BY <1>0, <1>3, Pending_Kept

LEMMA Pending_DeclareJobFinished ==
    ASSUME Shape, Shape', PoolPending, NEW w \in Workers, DeclareJobFinished(w)
    PROVE  PoolPending'
<1> DEFINE f == [pc EXCEPT ![w] = "next"]
<1>0. /\ pc \in [Threads -> Pcs] /\ pc[w] = "finish" /\ Workers \subseteq Threads
      /\ Clients \cap Workers = {} /\ UNCHANGED jobQueue
      /\ nPendingJobs' = nPendingJobs - 1 /\ pc' \in NotifyOne(f)
  BY DEF DeclareJobFinished, Shape, Types, ThreadTypes, Threads
<1>1. f \in [Threads -> Pcs] /\ f[w] = "next" /\ \A t \in Threads \ {w} : f[t] = pc[t]
  BY <1>0 DEF Pcs, WorkerPcs
<1>2. \A v \in Workers : pc'[v] = f[v]
  BY <1>0, <1>1, NotifyOneFrame
<1> HIDE DEF f
<1>3. TakenFromQueue' = TakenFromQueue \ {w} /\ w \in TakenFromQueue
  BY <1>0, <1>1, <1>2, TakenIs DEF Busy
<1>4. Cardinality(TakenFromQueue') = Cardinality(TakenFromQueue) - 1
  BY <1>3, TakenCount, FS_RemoveElement
<1>5. Len(jobQueue) \in Nat /\ Cardinality(TakenFromQueue) \in Nat
  BY TakenCount DEF Shape, Types, PoolTypes
<1> QED
  BY <1>0, <1>4, <1>5 DEF PoolPending

LEMMA Pending_Nested ==
    ASSUME Shape, Shape', PoolPending, NEW w \in Workers, NEW k \in Jobs,
           SubmitNested(w, k) \/ SubmitJobsNested(w, k)
    PROVE  PoolPending'
<1>0. /\ pc \in [Threads -> Pcs] /\ pc[w] = "run" /\ Workers \subseteq Threads
      /\ UNCHANGED <<nPendingJobs, jobQueue>>
      /\ UNCHANGED pc \/ pc' = [pc EXCEPT ![w] = "reserved"]
  BY DEF SubmitNested, SubmitJobsNested, InJob, Shape, Types, ThreadTypes, poolState, Threads
<1>1. \A v \in Workers : pc'[v] \in Busy \cup {"finish"} <=> pc[v] \in Busy \cup {"finish"}
  BY <1>0 DEF Busy
<1>2. TakenFromQueue' = TakenFromQueue
  BY <1>1, TakenIs
<1> QED
  BY <1>0, <1>2, Pending_Kept

LEMMA Pending_Next == Shape /\ Shape' /\ PoolPending /\ [Next]_vars => PoolPending'
<1> SUFFICES ASSUME Shape, Shape', PoolPending, [Next]_vars PROVE PoolPending'
  OBVIOUS
<1>0. /\ TopJobs \subseteq Jobs /\ QueueJobs \subseteq Jobs /\ ChildJobs \subseteq Jobs
      /\ Clients \subseteq Threads /\ Workers \subseteq Threads
      /\ pc \in [Threads -> Pcs] /\ nWaitingWorkerThreads \in Int
      /\ nWaitingWorkerThreads + 1 \in Int
  BY JobsAssumption DEF TopJobs, ChildJobs, Threads, Shape, Types, ThreadTypes, WaitingTypes
<1>1. Quiet => PoolPending'
  BY TakenKept, Pending_Kept DEF Quiet, jobState
<1>2. CASE UNCHANGED vars
  BY <1>2, TakenKept, Pending_Kept DEF vars, poolState, jobState
<1>3. ASSUME NEW c \in Clients, ClientStep(c) PROVE PoolPending'
  <2>1. CASE BatchNext(c)
    <3>1. UNCHANGED <<nPendingJobs, jobQueue, stack>>
      BY <2>1 DEF BatchNext, jobState
    <3>2. \A w \in Workers : w \in Threads \ {c}
      BY DEF Threads
    <3>3. \A w \in Workers : pc'[w] = pc[w]
      BY <1>0, <2>1, <3>2 DEF BatchNext, PopWaitingWorker
    <3> QED BY <3>1, <3>3, TakenKept, Pending_Kept
  <2> QED
    BY <1>0, <1>1, <1>3, <2>1, Quiet_Client, Quiet_Notify DEF ClientStep
<1>4. ASSUME NEW c \in Clients, ClientCall(c) PROVE PoolPending'
  <2>1. ASSUME NEW j \in Jobs, SubmitJob(c, j) PROVE PoolPending'
    BY <1>0, <2>1, Pending_Enqueue DEF SubmitJob, Idle
  <2>2. ASSUME NEW js \in Batches, SubmitJobs(c, js) PROVE PoolPending'
    BY <2>2, Pending_SubmitJobs
  <2> QED
    BY <1>0, <1>1, <1>4, <2>1, <2>2, Quiet_Client DEF ClientCall
<1>5. ASSUME NEW w \in Workers, WorkerStep(w) \/ WakeUpWaitEvent(w) PROVE PoolPending'
  <2>1. ASSUME NEW k \in ChildJobs, SubmitNested(w, k) \/ SubmitJobsNested(w, k)
        PROVE  PoolPending'
    BY <1>0, <2>1, Pending_Nested
  <2>2. CASE EnqueueNested(w)
    <3>1. reserved[w] \in Jobs
      BY <2>2 DEF EnqueueNested, Shape, Control, WorkerControl, Types, JobTypes
    <3> QED
      BY <1>0, <2>2, <3>1, Pending_Enqueue DEF EnqueueNested
  <2> QED
    BY <1>0, <1>1, <1>5, <2>1, <2>2, Pending_GetNextJob, Pending_JobReturns,
       Pending_DeclareJobFinished, Quiet_Worker, Quiet_Notify DEF WorkerStep
<1>6. ASSUME NEW t \in Threads, SpuriousWakeUp(t) PROVE PoolPending'
  BY <1>1, <1>6, Quiet_Notify
<1> QED
  BY <1>2, <1>3, <1>4, <1>5, <1>6 DEF Next

-----------------------------------------------------------------------------
(* The jobs that a CPLJobQueue counts *)

QueuePending ==
    /\ \A q \in Queues : m_nPendingJobs[q] = Cardinality(PendingIn(q))
    /\ Unqueued

LEMMA QueueFacts ==
    /\ NoThread \notin Queues
    /\ TopJobs \subseteq Jobs /\ QueueJobs \subseteq Jobs /\ ChildJobs \subseteq Jobs
    /\ Clients \subseteq Threads /\ Workers \subseteq Threads
    /\ Clients \cap Workers = {}
BY JobsAssumption DEF TopJobs, ChildJobs, Threads, Queues, Parents

LEMMA PendingFinite ==
    ASSUME Shape, NEW q
    PROVE  IsFiniteSet(PendingIn(q)) /\ Cardinality(PendingIn(q)) \in 0..Cardinality(Jobs)
<1>1. PendingIn(q) \in SUBSET Jobs
  BY DEF PendingIn, Shape, Types, JobTypes
<1> QED
  BY <1>1, JobsAssumption, FS_Subset, FS_CardinalityType

LEMMA Queues_Kept ==
    ASSUME QueuePending, UNCHANGED <<submitted, done, queueOf, m_nPendingJobs>>
    PROVE  QueuePending'
BY DEF QueuePending, PendingIn, Unqueued

(* Jobs that are given to the pool without a CPLJobQueue. *)
LEMMA Queues_Submit ==
    ASSUME Shape, JobInOnePlace, QueuePending, NEW S \in SUBSET (Jobs \ submitted),
           submitted' = submitted \cup S, UNCHANGED <<done, queueOf, m_nPendingJobs>>
    PROVE  QueuePending'
<1>1. \A j \in S : queueOf[j] = NoThread
  BY DEF QueuePending, Unqueued
<1>2. ASSUME NEW q \in Queues PROVE PendingIn(q)' = PendingIn(q)
  BY <1>1, QueueFacts DEF PendingIn
<1> QED
  BY <1>2 DEF QueuePending, Unqueued

(* A job that is given to queue q. *)
LEMMA Queues_Count ==
    ASSUME Shape, JobInOnePlace, QueuePending, NEW q \in Queues, NEW j \in Jobs \ submitted,
           CountInQueue(q, j), submitted' = submitted \cup {j}, UNCHANGED done
    PROVE  QueuePending'
<1>1. /\ queueOf \in [Jobs -> Queues \cup {NoThread}] /\ m_nPendingJobs \in [Queues -> Int]
      /\ queueOf[j] = NoThread /\ j \notin done
  BY DEF Shape, Types, JobTypes, QueuePending, Unqueued, JobInOnePlace, Placed
<1>2. /\ queueOf' = [queueOf EXCEPT ![j] = q]
      /\ m_nPendingJobs' = [m_nPendingJobs EXCEPT ![q] = @ + 1]
  BY DEF CountInQueue
<1>3. PendingIn(q)' = PendingIn(q) \cup {j} /\ j \notin PendingIn(q)
  BY <1>1, <1>2, QueueFacts DEF PendingIn, Shape, Types, JobTypes
<1>4. \A p \in Queues \ {q} : PendingIn(p)' = PendingIn(p)
  BY <1>1, <1>2, QueueFacts DEF PendingIn, Shape, Types, JobTypes
<1>5. m_nPendingJobs'[q] = Cardinality(PendingIn(q)')
  <2>1. Cardinality(PendingIn(q)') = Cardinality(PendingIn(q)) + 1
    BY <1>3, PendingFinite, FS_AddElement
  <2>2. m_nPendingJobs'[q] = m_nPendingJobs[q] + 1
    BY <1>1, <1>2
  <2> QED
    BY <2>1, <2>2 DEF QueuePending
<1>6. \A p \in Queues \ {q} : m_nPendingJobs'[p] = Cardinality(PendingIn(p)')
  BY <1>1, <1>2, <1>4 DEF QueuePending
<1>7. Unqueued'
  BY <1>1, <1>2 DEF QueuePending, Unqueued
<1> QED
  BY <1>5, <1>6, <1>7 DEF QueuePending

LEMMA Queues_SubmitJob ==
    ASSUME Shape, JobInOnePlace, QueuePending, NEW c \in Clients, NEW j \in Jobs \ submitted,
           SubmitJob(c, j)
    PROVE  QueuePending'
<1>1. submitted' = submitted \cup {j} /\ UNCHANGED done
  BY DEF SubmitJob
<1>2. CASE j \in QueueJobs
  BY <1>1, <1>2, Queues_Count DEF SubmitJob, Queues
<1>3. CASE j \notin QueueJobs
  <2>1. {j} \in SUBSET (Jobs \ submitted)
    OBVIOUS
  <2> QED
    BY <1>1, <1>3, <2>1, Queues_Submit DEF SubmitJob
<1> QED
  BY <1>2, <1>3

LEMMA Queues_SubmitJobs ==
    ASSUME Shape, JobInOnePlace, QueuePending, NEW c \in Clients, NEW js \in Batches,
           SubmitJobs(c, js)
    PROVE  QueuePending'
<1>1. Range(js) \in SUBSET (Jobs \ submitted)
  BY BatchIsSeq, QueueFacts DEF Range
<1> QED
  BY <1>1, Queues_Submit DEF SubmitJobs

LEMMA CurrentIsOnStack ==
    ASSUME Shape, JobInOnePlace, NEW w \in Workers, pc[w] = "run"
    PROVE  /\ CurrentJob(w) \in submitted \ done /\ CurrentJob(w) \in Jobs
           /\ StackedBy(w, CurrentJob(w))
<1>1. /\ stack[w] \in Seq(Jobs) /\ Len(stack[w]) \in Nat \ {0}
      /\ DOMAIN stack[w] = 1..Len(stack[w])
  BY DEF Shape, Control, WorkerControl, Busy, Types, JobTypes
<1>2. Len(stack[w]) \in DOMAIN stack[w] /\ CurrentJob(w) = stack[w][Len(stack[w])]
  BY <1>1 DEF CurrentJob, Last
<1>3. CurrentJob(w) \in Jobs /\ StackedBy(w, CurrentJob(w))
  BY <1>1, <1>2 DEF StackedBy
<1> QED
  BY <1>3 DEF JobInOnePlace, Placed

LEMMA Queues_Nested ==
    ASSUME Shape, JobInOnePlace, QueuePending, NEW w \in Workers, NEW k \in Jobs,
           SubmitNested(w, k) \/ SubmitJobsNested(w, k)
    PROVE  QueuePending'
<1>1. /\ k \in Jobs \ submitted /\ submitted' = submitted \cup {k} /\ UNCHANGED done
      /\ k \in Children[CurrentJob(w)] /\ pc[w] = "run"
  BY DEF SubmitNested, SubmitJobsNested, InJob
<1>2. CASE SubmitNested(w, k)
  <2>1. CurrentJob(w) \in Queues
    BY <1>1, CurrentIsOnStack DEF Queues, Parents
  <2> QED
    BY <1>1, <1>2, <2>1, Queues_Count DEF SubmitNested
<1>3. CASE SubmitJobsNested(w, k)
  <2>1. {k} \in SUBSET (Jobs \ submitted)
    BY <1>1
  <2> QED
    BY <1>1, <1>3, <2>1, Queues_Submit DEF SubmitJobsNested
<1> QED
  BY <1>2, <1>3

LEMMA Queues_JobReturns ==
    ASSUME Shape, JobInOnePlace, QueuePending, NEW w \in Workers, JobReturns(w)
    PROVE  QueuePending'
<1>0. PICK j : j = CurrentJob(w)
  OBVIOUS
<1>1. PICK q : q = queueOf[j]
  OBVIOUS
<1>2. /\ j \in submitted \ done /\ j \in Jobs /\ q \in Queues \cup {NoThread}
      /\ m_nPendingJobs \in [Queues -> Int]
  BY <1>0, <1>1, CurrentIsOnStack DEF JobReturns, InJob, Shape, Types, JobTypes
<1>3. /\ done' = done \cup {j} /\ UNCHANGED <<submitted, queueOf>>
      /\ m_nPendingJobs' = IF q = NoThread THEN m_nPendingJobs
                           ELSE [m_nPendingJobs EXCEPT ![q] = @ - 1]
  BY <1>0, <1>1 DEF JobReturns
<1>4. \A p \in Queues : p # q => PendingIn(p)' = PendingIn(p)
  BY <1>1, <1>2, <1>3 DEF PendingIn
<1>5. PendingIn(q)' = PendingIn(q) \ {j} /\ j \in PendingIn(q)
  BY <1>1, <1>2, <1>3 DEF PendingIn
<1>6. \A p \in Queues : p # q => m_nPendingJobs'[p] = Cardinality(PendingIn(p)')
  BY <1>2, <1>3, <1>4 DEF QueuePending
<1>7. q \in Queues => m_nPendingJobs'[q] = Cardinality(PendingIn(q)')
  <2>1. Cardinality(PendingIn(q)') = Cardinality(PendingIn(q)) - 1
    BY <1>5, PendingFinite, FS_RemoveElement
  <2>2. q \in Queues => m_nPendingJobs'[q] = m_nPendingJobs[q] - 1
    BY <1>2, <1>3, QueueFacts
  <2> QED
    BY <2>1, <2>2 DEF QueuePending
<1>8. Unqueued'
  BY <1>3 DEF QueuePending, Unqueued
<1> QED
  BY <1>6, <1>7, <1>8 DEF QueuePending

LEMMA Queues_Next == Shape /\ JobInOnePlace /\ QueuePending /\ [Next]_vars => QueuePending'
<1> SUFFICES ASSUME Shape, JobInOnePlace, QueuePending, [Next]_vars PROVE QueuePending'
  OBVIOUS
<1>1. Quiet => QueuePending'
  BY Queues_Kept DEF Quiet, jobState
<1>2. CASE UNCHANGED vars
  BY <1>2, Queues_Kept DEF vars, poolState, jobState
<1>3. ASSUME NEW c \in Clients, ClientStep(c) PROVE QueuePending'
  <2>1. CASE BatchNext(c)
    BY <2>1, Queues_Kept DEF BatchNext, jobState
  <2> QED
    BY <1>1, <1>3, <2>1, Quiet_Client, Quiet_Notify, QueueFacts DEF ClientStep
<1>4. ASSUME NEW c \in Clients, ClientCall(c) PROVE QueuePending'
  <2>1. ASSUME NEW j \in (TopJobs \cup QueueJobs) \ submitted, SubmitJob(c, j)
        PROVE  QueuePending'
    BY <2>1, Queues_SubmitJob, QueueFacts
  <2>2. ASSUME NEW js \in Batches, SubmitJobs(c, js) PROVE QueuePending'
    BY <2>2, Queues_SubmitJobs
  <2> QED
    BY <1>1, <1>4, <2>1, <2>2, Quiet_Client DEF ClientCall
<1>5. ASSUME NEW w \in Workers, WorkerStep(w) \/ WakeUpWaitEvent(w) PROVE QueuePending'
  <2>1. ASSUME NEW k \in ChildJobs, SubmitNested(w, k) \/ SubmitJobsNested(w, k)
        PROVE  QueuePending'
    BY <2>1, Queues_Nested, QueueFacts
  <2>2. CASE DeclareJobFinished(w) \/ GetNextJob(w) \/ EnqueueNested(w)
    BY <2>2, Queues_Kept DEF DeclareJobFinished, GetNextJob, EnqueueNested, jobState
  <2> QED
    BY <1>1, <1>5, <2>1, <2>2, Queues_JobReturns, Quiet_Worker, Quiet_Notify,
       QueueFacts DEF WorkerStep
<1>6. ASSUME NEW t \in Threads, SpuriousWakeUp(t) PROVE QueuePending'
  BY <1>1, <1>6, Quiet_Notify
<1> QED
  BY <1>2, <1>3, <1>4, <1>5, <1>6 DEF Next

-----------------------------------------------------------------------------
(* The bounds of the counters *)

LEMMA SubmittedFinite ==
    /\ Shape => IsFiniteSet(submitted) /\ Cardinality(submitted) \in 0..Cardinality(Jobs)
    /\ Cardinality(Jobs) \in Nat
BY JobsAssumption, FS_Subset, FS_CardinalityType DEF Shape, Types, JobTypes

LEMMA BatchCount ==
    ASSUME NEW js \in Batches
    PROVE  IsFiniteSet(Range(js)) /\ Cardinality(Range(js)) = Len(js)
<1>1. PICK n : n = Len(js)
  OBVIOUS
<1>2. /\ n \in Nat \ {0} /\ js \in Seq(Jobs) /\ DOMAIN js = 1..n
      /\ \A i, k \in DOMAIN js : js[i] = js[k] => i = k
  BY <1>1, BatchIsSeq
<1>3. js \in [1..n -> Range(js)]
  BY <1>2 DEF Range
<1>4. js \in Surjection(1..n, Range(js)) /\ js \in Injection(1..n, Range(js))
  BY <1>2, <1>3 DEF Surjection, Injection, IsInjective, Range
<1>5. IsFiniteSet(1..n) /\ Cardinality(1..n) = n
  BY <1>2, FS_Interval
<1> QED
  BY <1>1, <1>4, <1>5, FS_Surjection

LEMMA Bounds_Kept ==
    ASSUME Shape, Shape', PendingAreSubmitted, nPendingJobs' <= nPendingJobs,
           UNCHANGED <<reserved, submitted>>
    PROVE  PendingAreSubmitted'
<1>1. InReserve' = InReserve
  BY InReserveIs
<1>2. /\ nPendingJobs \in Int /\ nPendingJobs' \in Int
      /\ Cardinality(InReserve) \in Nat /\ Cardinality(submitted) \in Nat
  BY ReserveCount, SubmittedFinite DEF Shape, Types, PoolTypes
<1> QED
  BY <1>1, <1>2 DEF PendingAreSubmitted

LEMMA Bounds_Submit ==
    ASSUME Shape, Shape', PendingAreSubmitted, NEW S \in SUBSET (Jobs \ submitted),
           IsFiniteSet(S), submitted' = submitted \cup S,
           \/ UNCHANGED reserved /\ nPendingJobs' <= nPendingJobs + Cardinality(S)
           \/ /\ UNCHANGED nPendingJobs /\ S # {}
              /\ \E w \in Workers, k \in Jobs : /\ reserved[w] = NoThread
                                                /\ reserved' = [reserved EXCEPT ![w] = k]
    PROVE  PendingAreSubmitted'
<1>1. /\ nPendingJobs \in Int /\ nPendingJobs' \in Int
      /\ IsFiniteSet(InReserve) /\ Cardinality(InReserve) \in Nat
      /\ IsFiniteSet(submitted) /\ Cardinality(submitted) \in Nat
      /\ Cardinality(S) \in Nat
  BY ReserveCount, SubmittedFinite, FS_CardinalityType DEF Shape, Types, PoolTypes
<1>2. Cardinality(submitted') = Cardinality(submitted) + Cardinality(S)
  <2>1. submitted \cap S = {} /\ Cardinality({}) = 0
    BY FS_EmptySet
  <2>2. Cardinality(submitted \cup S) =
           Cardinality(submitted) + Cardinality(S) - Cardinality(submitted \cap S)
    BY <1>1, FS_Union
  <2>3. submitted' = submitted \cup S
    OBVIOUS
  <2>4. Cardinality(submitted \cup S) = Cardinality(submitted) + Cardinality(S) - 0
    BY <2>1, <2>2
  <2> QED
    BY <1>1, <2>3, <2>4
<1>3. CASE UNCHANGED reserved /\ nPendingJobs' <= nPendingJobs + Cardinality(S)
  <2>1. InReserve' = InReserve
    BY <1>3, InReserveIs
  <2> QED
    BY <1>1, <1>2, <1>3, <2>1 DEF PendingAreSubmitted
<1>4. ASSUME NEW w \in Workers, NEW k \in Jobs, reserved[w] = NoThread,
             reserved' = [reserved EXCEPT ![w] = k], UNCHANGED nPendingJobs, S # {}
      PROVE  PendingAreSubmitted'
  <2>1. reserved \in [Workers -> Jobs \cup {NoThread}]
    BY DEF Shape, Types, JobTypes
  <2>2. InReserve' = InReserve \cup {w} /\ w \notin InReserve
    BY <1>4, <2>1, InReserveIs
  <2>3. Cardinality(InReserve') = Cardinality(InReserve) + 1
    BY <1>1, <2>2, FS_AddElement
  <2>4. Cardinality(S) # 0
    BY <1>4, FS_EmptySet
  <2> QED
    BY <1>1, <1>2, <1>4, <2>3, <2>4 DEF PendingAreSubmitted
<1> QED
  BY <1>3, <1>4

LEMMA Bounds_EnqueueNested ==
    ASSUME Shape, Shape', PendingAreSubmitted, NEW w \in Workers, EnqueueNested(w)
    PROVE  PendingAreSubmitted'
<1>1. /\ reserved \in [Workers -> Jobs \cup {NoThread}] /\ reserved[w] # NoThread
      /\ reserved' = [reserved EXCEPT ![w] = NoThread]
      /\ nPendingJobs' = nPendingJobs + 1 /\ UNCHANGED submitted
  BY DEF EnqueueNested, Enqueue, Shape, Control, WorkerControl, Types, JobTypes
<1>2. InReserve' = InReserve \ {w} /\ w \in InReserve
  BY <1>1, InReserveIs
<1>3. Cardinality(InReserve') = Cardinality(InReserve) - 1
  BY <1>2, FS_RemoveElement, ReserveCount
<1>4. /\ nPendingJobs \in Int /\ Cardinality(InReserve) \in Nat
      /\ Cardinality(submitted) \in Nat
  BY ReserveCount, SubmittedFinite DEF Shape, Types, PoolTypes
<1> QED
  BY <1>1, <1>3, <1>4 DEF PendingAreSubmitted

LEMMA Bounds_Next ==
    Shape /\ Shape' /\ PendingAreSubmitted /\ [Next]_vars => PendingAreSubmitted'
<1> SUFFICES ASSUME Shape, Shape', PendingAreSubmitted, [Next]_vars
             PROVE  PendingAreSubmitted'
  OBVIOUS
<1>0. nPendingJobs \in Int
  BY DEF Shape, Types, PoolTypes
<1>1. Quiet => PendingAreSubmitted'
  BY <1>0, Bounds_Kept DEF Quiet, jobState
<1>2. CASE UNCHANGED vars
  BY <1>0, <1>2, Bounds_Kept DEF vars, poolState, jobState
<1>3. ASSUME NEW c \in Clients, ClientStep(c) PROVE PendingAreSubmitted'
  <2>1. CASE BatchNext(c)
    BY <1>0, <2>1, Bounds_Kept DEF BatchNext, jobState
  <2> QED
    BY <1>1, <1>3, <2>1, Quiet_Client, Quiet_Notify, QueueFacts DEF ClientStep
<1>4. ASSUME NEW c \in Clients, ClientCall(c) PROVE PendingAreSubmitted'
  <2>1. ASSUME NEW j \in (TopJobs \cup QueueJobs) \ submitted, SubmitJob(c, j)
        PROVE  PendingAreSubmitted'
    <3>1. /\ {j} \in SUBSET (Jobs \ submitted) /\ IsFiniteSet({j}) /\ Cardinality({j}) = 1
          /\ submitted' = submitted \cup {j} /\ UNCHANGED reserved
          /\ nPendingJobs' <= nPendingJobs + 1
      <4>1. nPendingJobs' = nPendingJobs + 1
        BY <2>1 DEF SubmitJob, Enqueue
      <4>2. nPendingJobs' <= nPendingJobs + 1
        BY <1>0, <4>1
      <4> QED BY <2>1, <4>2, QueueFacts, FS_Singleton DEF SubmitJob
    <3> QED BY <3>1, Bounds_Submit
  <2>2. ASSUME NEW js \in Batches, SubmitJobs(c, js) PROVE PendingAreSubmitted'
    <3>1. /\ Range(js) \in SUBSET (Jobs \ submitted) /\ Len(js) \in Nat
          /\ IsFiniteSet(Range(js)) /\ Cardinality(Range(js)) = Len(js)
      <4>1. Range(js) \in SUBSET (Jobs \ submitted)
        <5>1. \A i \in DOMAIN js : js[i] \in Jobs \ submitted
          BY BatchIsSeq, QueueFacts
        <5> QED BY <5>1 DEF Range
      <4>2. Len(js) \in Nat
        BY BatchIsSeq
      <4> QED BY <4>1, <4>2, BatchCount
    <3>2. /\ submitted' = submitted \cup Range(js) /\ UNCHANGED reserved
          /\ nPendingJobs' <= nPendingJobs + Cardinality(Range(js))
      <4>1. /\ submitted' = submitted \cup Range(js) /\ UNCHANGED reserved
            /\ nPendingJobs' = nPendingJobs + Len(js)
        BY <2>2 DEF SubmitJobs
      <4>2. nPendingJobs' <= nPendingJobs + Len(js)
        BY <1>0, <3>1, <4>1
      <4> QED BY <3>1, <4>1, <4>2
    <3> QED BY <3>1, <3>2, Bounds_Submit
  <2> QED
    BY <1>1, <1>4, <2>1, <2>2, Quiet_Client DEF ClientCall
<1>5. ASSUME NEW w \in Workers, WorkerStep(w) \/ WakeUpWaitEvent(w) PROVE PendingAreSubmitted'
  <2>1. ASSUME NEW k \in ChildJobs, SubmitNested(w, k) \/ SubmitJobsNested(w, k)
        PROVE  PendingAreSubmitted'
    <3>1. /\ {k} \in SUBSET (Jobs \ submitted) /\ IsFiniteSet({k}) /\ Cardinality({k}) = 1
          /\ submitted' = submitted \cup {k} /\ UNCHANGED nPendingJobs /\ k \in Jobs
      BY <2>1, QueueFacts, FS_Singleton DEF SubmitNested, SubmitJobsNested, poolState
    <3>2. \/ UNCHANGED reserved
          \/ reserved[w] = NoThread /\ reserved' = [reserved EXCEPT ![w] = k]
      <4>1. pc[w] = "run"
        BY <2>1 DEF SubmitNested, SubmitJobsNested, InJob
      <4>2. reserved[w] = NoThread
        BY <4>1 DEF Shape, Control, WorkerControl
      <4> QED BY <2>1, <4>2 DEF SubmitNested, SubmitJobsNested
    <3>3. CASE UNCHANGED reserved
      <4>1. nPendingJobs' <= nPendingJobs + Cardinality({k})
        BY <1>0, <3>1
      <4> QED BY <3>1, <3>3, <4>1, Bounds_Submit
    <3>4. CASE reserved[w] = NoThread /\ reserved' = [reserved EXCEPT ![w] = k]
      BY <3>1, <3>4, Bounds_Submit
    <3> QED BY <3>2, <3>3, <3>4
  <2>2. CASE DeclareJobFinished(w) \/ GetNextJob(w) \/ JobReturns(w)
    <3>1. UNCHANGED <<reserved, submitted>> /\ nPendingJobs' \in {nPendingJobs, nPendingJobs - 1}
      BY <2>2 DEF DeclareJobFinished, GetNextJob, JobReturns, jobState, poolState
    <3>2. nPendingJobs' <= nPendingJobs
      BY <1>0, <3>1
    <3> QED BY <3>1, <3>2, Bounds_Kept
  <2> QED
    BY <1>1, <1>5, <2>1, <2>2, Bounds_EnqueueNested, Quiet_Worker, Quiet_Notify,
       QueueFacts DEF WorkerStep
<1>6. ASSUME NEW t \in Threads, SpuriousWakeUp(t) PROVE PendingAreSubmitted'
  BY <1>1, <1>6, Quiet_Notify
<1> QED
  BY <1>2, <1>3, <1>4, <1>5, <1>6 DEF Next

(* m_bNotifyEvent is written by WakeUpWaitEvent() and by the waits only. *)
NotifyEventTyped == m_bNotifyEvent \in BOOLEAN

LEMMA NotifyEvent_Next == NotifyEventTyped /\ [Next]_vars => NotifyEventTyped'
<1> SUFFICES ASSUME m_bNotifyEvent \in BOOLEAN, [Next]_vars
             PROVE  m_bNotifyEvent' \in BOOLEAN
  BY DEF NotifyEventTyped
<1>1. CASE UNCHANGED vars
  BY <1>1 DEF vars
<1>2. ASSUME NEW c \in Clients, NEW op, NEW n, WaitOnPool(c, op, n)
      PROVE  m_bNotifyEvent' \in BOOLEAN
  BY <1>2, Zenon DEF WaitOnPool
<1>3. ASSUME NEW c \in Clients, ClientStep(c) PROVE m_bNotifyEvent' \in BOOLEAN
  <2>1. CASE WaitAgain(c)
    BY <1>2, <2>1, Zenon DEF WaitAgain
  <2>2. CASE \/ BatchNext(c) \/ Notify(c) \/ QueueWaitAgain(c) \/ Stop(c) \/ NotifyStop(c)
             \/ Join(c) \/ Destroyed(c)
    <3>1. UNCHANGED m_bNotifyEvent
      BY <2>2 DEF BatchNext, Notify, QueueWaitAgain, WaitOnQueue, Stop, NotifyStop, Join,
                  Destroyed
    <3> QED BY <3>1
  <2> QED BY <1>3, <2>1, <2>2 DEF ClientStep
<1>4. ASSUME NEW c \in Clients, ClientCall(c) PROVE m_bNotifyEvent' \in BOOLEAN
  <2>1. CASE (\E n \in 0..MaxRemaining : WaitCompletion(c, n)) \/ WaitEvent(c)
    BY <1>2, <2>1, Zenon DEF WaitCompletion, WaitEvent
  <2>2. CASE \/ \E n \in 1..NThreads : GDALGetGlobalThreadPool(c, n) \/ Setup(c, n)
             \/ \E j \in TopJobs \ (QueueJobs \cup submitted) : SubmitJob(c, j)
             \/ \E js \in Batches : SubmitJobs(c, js)
             \/ \E j \in QueueJobs \ submitted : SubmitJob(c, j)
             \/ \E n \in 0..MaxRemaining : QueueWaitCompletion(c, n)
             \/ QueueWaitEvent(c) \/ Destroy(c)
    <3>1. UNCHANGED m_bNotifyEvent
      BY <2>2 DEF GDALGetGlobalThreadPool, SetupLazy, Setup, SubmitJob, Enqueue, SubmitJobs,
                  QueueWaitCompletion, QueueWaitEvent, WaitOnQueue, Destroy
    <3> QED BY <3>1
  <2> QED BY <1>4, <2>1, <2>2 DEF ClientCall
<1>5. ASSUME NEW w \in Workers, WorkerStep(w) \/ WakeUpWaitEvent(w)
      PROVE  m_bNotifyEvent' \in BOOLEAN
  <2>1. CASE WakeUpWaitEvent(w)
    BY <2>1, Zenon DEF WakeUpWaitEvent
  <2>2. CASE WorkerStep(w)
    <3>1. UNCHANGED m_bNotifyEvent
      BY <2>2 DEF WorkerStep, GetNextJob, FallAsleep, WakeUp, SubmitNested, SubmitJobsNested,
                  EnqueueNested, Enqueue, Notify, JobWaits, JobReturns, DeclareJobFinished
    <3> QED BY <3>1
  <2> QED BY <1>5, <2>1, <2>2
<1>6. ASSUME NEW t \in Threads, SpuriousWakeUp(t) PROVE m_bNotifyEvent' \in BOOLEAN
  BY <1>6 DEF SpuriousWakeUp
<1> QED
  BY <1>1, <1>3, <1>4, <1>5, <1>6 DEF Next

-----------------------------------------------------------------------------
(* The inductive invariant of the counters, and what it gives *)

Counted ==
    /\ Shape
    /\ JobInOnePlace
    /\ WaitingListExact
    /\ PoolPending
    /\ QueuePending
    /\ PendingAreSubmitted
    /\ NotifyEventTyped

LEMMA Counted_Init == Init => Counted
<1> SUFFICES ASSUME Init PROVE Counted
  OBVIOUS
<1>1. Shape
  BY Shape_Init
<1>2. /\ jobQueue = <<>> /\ psWaitingWorkerThreadsList = <<>> /\ submitted = {} /\ done = {}
      /\ \A w \in Workers : stack[w] = <<>> /\ reserved[w] = NoThread /\ pc[w] = "none"
                            /\ ~bMarkedAsWaiting[w]
      /\ nPendingJobs = 0 /\ nWaitingWorkerThreads = 0
      /\ NoThread \notin Jobs
  BY DEF Init, Threads
<1>3. JobInOnePlace
  BY <1>2 DEF JobInOnePlace, Placed, InOnePlace, NoRepeats, Queued, StackedBy, ReservedBy
<1>4. InReserve = {} /\ TakenFromQueue = {} /\ Cardinality({}) = 0
  BY <1>2, FS_EmptySet DEF InReserve, TakenFromQueue
<1>5. WaitingListExact
  <2>1. IsInjective(<<>>) /\ Range(<<>>) = {} /\ Marked = {}
    BY <1>2 DEF IsInjective, Range, Marked
  <2> QED BY <1>2, <1>4, <2>1, WaitingListIs DEF ListExact
<1>6. PoolPending /\ PendingAreSubmitted
  BY <1>2, <1>4 DEF PoolPending, PendingAreSubmitted
<1>7. QueuePending
  <2>1. \A q \in Queues : PendingIn(q) = {}
    BY <1>2 DEF PendingIn
  <2> QED BY <1>4, <2>1 DEF QueuePending, Unqueued, Init
<1>8. NotifyEventTyped
  BY Zenon DEF NotifyEventTyped, Init
<1> QED
  BY <1>1, <1>3, <1>5, <1>6, <1>7, <1>8 DEF Counted

LEMMA CountedInvariant == Spec => []Counted
<1>1. Counted /\ [Next]_vars => Counted'
  BY Shape_Next, Places_Next, Waiting_Next, Pending_Next, Queues_Next, Bounds_Next,
     NotifyEvent_Next DEF Counted
<1> QED
  BY <1>1, Counted_Init, PTL DEF Spec

LEMMA Counted_TypeOK == Counted => TypeOK
<1> SUFFICES ASSUME Counted PROVE TypeOK
  OBVIOUS
<1>1. Types /\ Control /\ done \subseteq submitted
  BY DEF Counted, Shape, JobInOnePlace, Placed
<1>2. nPendingJobs \in 0..Cardinality(Jobs)
  <2>1. /\ Len(jobQueue) \in Nat /\ Cardinality(TakenFromQueue) \in Nat
        /\ nPendingJobs = Len(jobQueue) + Cardinality(TakenFromQueue)
    BY <1>1, TakenCount DEF Counted, PoolPending, Types, PoolTypes
  <2>2. /\ nPendingJobs + Cardinality(InReserve) <= Cardinality(submitted)
        /\ Cardinality(InReserve) \in Nat /\ Cardinality(Jobs) \in Nat
        /\ Cardinality(submitted) \in 0..Cardinality(Jobs)
    BY ReserveCount, SubmittedFinite DEF Counted, PendingAreSubmitted
  <2> QED BY <2>1, <2>2
<1>3. nWaitingWorkerThreads \in -NThreads..NThreads
  <2> DEFINE l == psWaitingWorkerThreadsList
  <2>1. l \in [1..Len(l) -> Workers] /\ Len(l) \in Nat /\ l \in Seq(Workers)
    BY <1>1 DEF Types, WaitingTypes
  <2>2. l \in Injection(1..Len(l), Workers)
    <3>1. IsInjective(l)
      BY WaitingListIs DEF Counted, ListExact
    <3> QED BY <2>1, <3>1 DEF Injection
  <2>3. Cardinality(1..Len(l)) <= NThreads /\ Cardinality(1..Len(l)) = Len(l)
    <3> HIDE DEF l
    <3>1. Cardinality(1..Len(l)) <= Cardinality(Workers)
      BY <2>2, FiniteWorkers, FS_Injection
    <3>2. \A m \in Nat : Cardinality(1..m) = m
      BY FS_Interval
    <3> QED BY <2>1, <3>1, <3>2, FiniteWorkers
  <2>4. nWaitingWorkerThreads = Len(l) - Cardinality(InReserve)
    BY WaitingListIs DEF Counted
  <2> HIDE DEF l
  <2> QED BY <2>1, <2>3, <2>4, ReserveCount
<1>4. m_nPendingJobs \in [Queues -> 0..Cardinality(Jobs)]
  BY <1>1, PendingFinite DEF Counted, QueuePending, Types, JobTypes
<1>5. m_bNotifyEvent \in BOOLEAN
  BY Zenon DEF Counted, NotifyEventTyped
<1>6. /\ \A c \in Clients : pc[c] \in ClientPcs
      /\ \A w \in Workers : pc[w] \in WorkerPcs
  BY <1>1 DEF Control, ClientControl, WorkerControl
<1>7. /\ m_mutex \in Threads \cup {NoThread}
      /\ eState \in {"OK", "STOP"}
      /\ jobQueue \in Seq(Jobs)
      /\ psWaitingWorkerThreadsList \in Seq(Workers)
      /\ m_nMaxThreads \in 0..NThreads
      /\ aWT \in 0..m_nMaxThreads
      /\ bMarkedAsWaiting \in [Workers -> BOOLEAN]
      /\ wtMutex \in [Workers -> Threads \cup {NoThread}]
  BY <1>1 DEF Types, PoolTypes, WaitingTypes
<1>8. /\ call \in [Clients -> [op : CallOps, n : Int]]
      /\ target \in [Threads -> 0..NThreads + 1]
      /\ stack \in [Workers -> Seq(Jobs)]
      /\ reserved \in [Workers -> Jobs \cup {NoThread}]
      /\ queueOf \in [Jobs -> Queues \cup {NoThread}]
      /\ submitted \subseteq Jobs
  BY <1>1 DEF Types, ThreadTypes, JobTypes
<1> QED
  BY <1>1, <1>2, <1>3, <1>4, <1>5, <1>6, <1>7, <1>8, Zenon DEF TypeOK

(* The counters and the lists that the critical sections of                *)
(* CPLWorkerThreadPool and CPLJobQueue keep agree with what the threads    *)
(* are doing, also between the two critical sections of a SubmitJob()      *)
(* called from a job, for every number of clients, workers and jobs and    *)
(* whatever thread creations fail: nWaitingWorkerThreads is the length of  *)
(* the waiting list less the reservations, nPendingJobs the number of jobs *)
(* queued or being run, m_nPendingJobs the number of unfinished jobs of    *)
(* the queue, and none of them leaves its range.                           *)
THEOREM CountersExact == Spec => []PoolConsistent
<1>1. Counted => PoolConsistent
  <2> SUFFICES ASSUME Counted PROVE PoolConsistent
    OBVIOUS
  <2>1. PendingExact
    BY DEF Counted, PoolPending, QueuePending, PendingExact, TakenFromQueue, PendingIn
  <2> QED
    BY <2>1, Counted_TypeOK DEF Counted, PoolConsistent
<1> QED
  BY <1>1, CountedInvariant, PTL

-----------------------------------------------------------------------------
(* Waiting and destruction *)

(* A step of a worker, and a wake-up, as the clients see it. *)
ClientsWoken ==
    /\ UNCHANGED call
    /\ \A c \in Clients :
          /\ target'[c] = target[c]
          /\ \/ pc'[c] = pc[c]
             \/ pc[c] = "cv" /\ pc'[c] = "cvWoken"
             \/ pc[c] = "queueCv" /\ pc'[c] = "queueWoken"
    /\ \A w \in Workers : pc[w] = "exit" => pc'[w] = "exit"

LEMMA Woken_ByNotifyOne ==
    ASSUME Shape, NEW w \in Workers, UNCHANGED <<call, target>>,
           NEW f \in [Threads -> Pcs], pc[w] # "exit",
           \A t \in Threads \ {w} : f[t] = pc[t], pc' \in NotifyOne(f)
    PROVE  ClientsWoken
<1>1. \A t \in Threads : \/ pc'[t] = f[t]
                         \/ t \in Clients /\ f[t] = "cv" /\ pc'[t] = "cvWoken"
  BY NotifyOneFrame
<1>2. /\ \A c \in Clients : c \in Threads \ {w}
      /\ \A v \in Workers \ {w} : v \in Threads \ {w} /\ v \notin Clients
  BY DEF Threads
<1>3. \A c \in Clients : pc'[c] = pc[c] \/ (pc[c] = "cv" /\ pc'[c] = "cvWoken")
  BY <1>1, <1>2
<1>4. \A v \in Workers \ {w} : pc'[v] = pc[v]
  BY <1>1, <1>2
<1> QED
  BY <1>2, <1>3, <1>4 DEF ClientsWoken

(* A worker that moves alone, and may have started others. *)
LEMMA Woken_ByWorker ==
    ASSUME Shape, Shape', NEW w \in Workers, UNCHANGED call, pc[w] # "exit",
           \A t \in Threads \ {w} :
              target'[t] = target[t] /\ pc'[t] \in {pc[t], Started(pc, aWT')[t]}
    PROVE  ClientsWoken
<1>0. aWT \in Nat /\ aWT' \in Nat /\ pc \in [Threads -> Pcs]
  BY DEF Shape, Types, PoolTypes, ThreadTypes
<1>1. ASSUME NEW c \in Clients PROVE target'[c] = target[c] /\ pc'[c] = pc[c]
  <2>1. c \in Threads \ {w}
    BY DEF Threads
  <2> QED BY <1>0, <2>1, StartedFrame
<1>2. ASSUME NEW v \in Workers, pc[v] = "exit" PROVE pc'[v] = "exit"
  <2>1. v \in Threads \ {w} /\ v <= aWT /\ v \in Nat
    BY <1>2, <1>0 DEF Threads, Shape, Control, WorkerControl, Workers
  <2>2. Started(pc, aWT')[v] = pc[v]
    BY <1>0, <2>1, StartedFrame
  <2> QED BY <1>2, <2>1, <2>2
<1> QED
  BY <1>1, <1>2 DEF ClientsWoken

LEMMA Woken_ByWorkerStep ==
    ASSUME Shape, Shape', NEW w \in Workers, WorkerStep(w) \/ WakeUpWaitEvent(w)
    PROVE  ClientsWoken
<1>0. /\ pc \in [Threads -> Pcs] /\ w \in Threads /\ target \in [Threads -> 0..NThreads + 1]
      /\ nWaitingWorkerThreads + 1 \in Int
  BY DEF Shape, Types, ThreadTypes, Threads, WaitingTypes
<1>1. CASE GetNextJob(w)
  <2>1. UNCHANGED <<call, target>> /\ pc[w] # "exit"
    BY <1>1 DEF GetNextJob
  <2>2. CASE pc' = [pc EXCEPT ![w] = "exit"] \/ pc' = [pc EXCEPT ![w] = "run"]
    BY <1>0, <2>1, <2>2, Woken_ByWorker
  <2>3. CASE pc' \in NotifyOne([pc EXCEPT ![w] = "lockOwn"])
    <3>1. [pc EXCEPT ![w] = "lockOwn"] \in [Threads -> Pcs]
      BY <1>0 DEF Pcs, WorkerPcs
    <3>2. \A t \in Threads \ {w} : [pc EXCEPT ![w] = "lockOwn"][t] = pc[t]
      BY <1>0
    <3> QED BY <2>1, <2>3, <3>1, <3>2, Woken_ByNotifyOne
  <2> QED BY <1>1, <2>2, <2>3 DEF GetNextJob
<1>2. CASE DeclareJobFinished(w)
  <2>1. [pc EXCEPT ![w] = "next"] \in [Threads -> Pcs]
    BY <1>0 DEF Pcs, WorkerPcs
  <2>2. \A t \in Threads \ {w} : [pc EXCEPT ![w] = "next"][t] = pc[t]
    BY <1>0
  <2>3. UNCHANGED <<call, target>> /\ pc[w] # "exit"
    BY <1>2 DEF DeclareJobFinished
  <2> QED BY <1>2, <2>1, <2>2, <2>3, Woken_ByNotifyOne DEF DeclareJobFinished
<1>3. CASE WakeUpWaitEvent(w)
  <2>1. UNCHANGED <<call, target>> /\ pc[w] # "exit"
    BY <1>3 DEF WakeUpWaitEvent, InJob
  <2> QED BY <1>0, <1>3, <2>1, Woken_ByNotifyOne DEF WakeUpWaitEvent
<1>4. CASE FallAsleep(w) \/ WakeUp(w) \/ JobWaits(w)
  <2>1. UNCHANGED <<call, target>> /\ pc[w] # "exit"
    BY <1>4 DEF FallAsleep, WakeUp, JobWaits, InJob
  <2>2. \A t \in Threads \ {w} : pc'[t] = pc[t]
    BY <1>0, <1>4 DEF FallAsleep, WakeUp, JobWaits
  <2> QED BY <2>1, <2>2, Woken_ByWorker
<1>5. ASSUME NEW k \in ChildJobs, SubmitNested(w, k) \/ SubmitJobsNested(w, k)
      PROVE  ClientsWoken
  <2>1. UNCHANGED <<call, target>> /\ pc[w] # "exit"
    BY <1>5 DEF SubmitNested, SubmitJobsNested, InJob
  <2>2. \A t \in Threads \ {w} : pc'[t] = pc[t]
    BY <1>0, <1>5 DEF SubmitNested, SubmitJobsNested
  <2> QED BY <2>1, <2>2, Woken_ByWorker
<1>6. CASE EnqueueNested(w)
  <2>1. /\ UNCHANGED call /\ pc[w] # "exit" /\ reserved[w] \in Jobs
        /\ Enqueue(w, reserved[w], nWaitingWorkerThreads + 1)
    BY <1>6 DEF EnqueueNested, Shape, Control, WorkerControl, Types, JobTypes
  <2>2. \A t \in Threads \ {w} : pc'[t] = Started(pc, aWT')[t] /\ target'[t] = target[t]
    BY <1>0, <2>1, EnqueueFrame
  <2> QED BY <2>1, <2>2, Woken_ByWorker
<1>7. CASE Notify(w)
  <2>1. UNCHANGED <<call, target>> /\ pc[w] = "notify" /\ target[w] \in Workers
    BY <1>7 DEF Notify, Shape, Control, WorkerControl, Types, PoolTypes, Workers
  <2>2. \A t \in Threads \ {w, target[w]} : pc'[t] = pc[t]
    BY <1>0, <1>7 DEF Notify
  <2>3. pc[target[w]] = "exit" => target[w] # w /\ pc'[target[w]] = "exit"
    BY <1>0, <1>7, <2>1 DEF Notify, Threads
  <2>4. \A c \in Clients : c \in Threads \ {w, target[w]}
    BY <2>1 DEF Threads
  <2>5. \A v \in Workers : v \in Threads
    BY DEF Threads
  <2> QED BY <2>1, <2>2, <2>3, <2>4, <2>5 DEF ClientsWoken
<1>8. CASE JobReturns(w)
  <2> DEFINE f == PcsAfterQueueNotify(queueOf[CurrentJob(w)])
  <2>1. /\ UNCHANGED <<call, target>> /\ pc[w] = "run"
        /\ pc' = [f EXCEPT ![w] = IF Len(stack[w]) = 1 THEN "finish" ELSE "run"]
    BY <1>8 DEF JobReturns, InJob
  <2>2. DOMAIN f = Threads
    BY DEF PcsAfterQueueNotify
  <2>3. ASSUME NEW t \in Threads
        PROVE  \/ f[t] = pc[t]
               \/ pc[t] = "queueCv" /\ f[t] = IF t \in Workers THEN "run" ELSE "queueWoken"
    BY DEF PcsAfterQueueNotify, QueueSleepers
  <2> HIDE DEF f
  <2>4. \A t \in Threads \ {w} : pc'[t] = f[t]
    BY <2>1, <2>2
  <2>5. /\ \A c \in Clients : c \in Threads \ {w} /\ c \notin Workers
        /\ \A v \in Workers \ {w} : v \in Threads \ {w}
    BY DEF Threads
  <2> QED BY <2>1, <2>3, <2>4, <2>5 DEF ClientsWoken
<1> QED
  BY <1>1, <1>2, <1>3, <1>4, <1>5, <1>6, <1>7, <1>8 DEF WorkerStep

LEMMA Woken_BySpurious ==
    ASSUME Shape, NEW t \in Threads, SpuriousWakeUp(t)
    PROVE  ClientsWoken
<1>1. /\ pc \in [Threads -> Pcs] /\ UNCHANGED <<call, target>>
      /\ pc[t] \in {"cv", "queueCv", "asleep"} /\ Clients \cap Workers = {}
      /\ \A u \in Threads \ {t} : pc'[u] = pc[u]
      /\ Clients \cup Workers = Threads
  BY DEF SpuriousWakeUp, Shape, Types, ThreadTypes, Threads
<1>2. ASSUME t \in Clients
      PROVE  \/ pc[t] = "cv" /\ pc'[t] = "cvWoken"
             \/ pc[t] = "queueCv" /\ pc'[t] = "queueWoken"
  <2>1. pc[t] # "asleep"
    BY <1>2 DEF Shape, Control, ClientControl, ClientPcs
  <2> QED
    BY <1>1, <1>2, <2>1 DEF SpuriousWakeUp
<1> QED
  BY <1>1, <1>2 DEF ClientsWoken

(* While jobs are unfinished nPendingJobs is positive. *)
LEMMA BusyIsPending ==
    ASSUME Shape, PoolPending, NEW w \in Workers, pc[w] \in Busy \cup {"finish"}
    PROVE  nPendingJobs > 0
<1>1. w \in TakenFromQueue
  BY TakenIs
<1>2. Cardinality(TakenFromQueue) # 0
  BY <1>1, TakenCount, FS_EmptySet
<1>3. Len(jobQueue) \in Nat /\ Cardinality(TakenFromQueue) \in Nat
  BY TakenCount DEF Shape, Types, PoolTypes
<1> QED
  BY <1>2, <1>3 DEF PoolPending

LEMMA Alone_Woken ==
    ASSUME Shape, DestructorAlone, ClientsWoken, nPendingJobs <= 0 => nPendingJobs' <= 0
    PROVE  DestructorAlone'
<1> SUFFICES ASSUME NEW c \in Clients
             PROVE  /\ pc'[c] \in AfterWait => Destroying(c)'
                    /\ Destroying(c)' =>
                          /\ pc'[c] \in DestroyPcs
                          /\ \A d \in Clients \ {c} : pc'[d] = "idle" /\ ~Destroying(d)'
                          /\ pc'[c] \in AfterWait => nPendingJobs' <= 0
                          /\ pc'[c] \in {"join", "joining"} =>
                                \A w \in Workers : w < target'[c] => pc'[w] = "exit"
  BY DEF DestructorAlone
<1>1. \A d \in Clients : Destroying(d)' <=> Destroying(d)
  BY DEF ClientsWoken, Destroying
<1>2. pc'[c] \in AfterWait => pc'[c] = pc[c]
  BY DEF ClientsWoken, AfterWait
<1>3. pc[c] \in DestroyPcs => pc'[c] \in DestroyPcs
  BY DEF ClientsWoken, DestroyPcs
<1>4. \A d \in Clients : pc[d] = "idle" => pc'[d] = "idle"
  BY DEF ClientsWoken
<1>5. pc'[c] \in {"join", "joining"} => pc'[c] = pc[c] /\ target'[c] = target[c]
  BY DEF ClientsWoken
<1>6. \A w \in Workers : pc[w] = "exit" => pc'[w] = "exit"
  BY DEF ClientsWoken
<1>7. pc'[c] \in AfterWait => Destroying(c)'
  BY <1>1, <1>2 DEF DestructorAlone
<1>8. ASSUME Destroying(c)'
      PROVE  /\ pc'[c] \in DestroyPcs
             /\ \A d \in Clients \ {c} : pc'[d] = "idle" /\ ~Destroying(d)'
  BY <1>1, <1>3, <1>4, <1>8 DEF DestructorAlone
<1>9. ASSUME Destroying(c)', pc'[c] \in AfterWait PROVE nPendingJobs' <= 0
  BY <1>1, <1>2, <1>9 DEF DestructorAlone
<1>10. ASSUME Destroying(c)', pc'[c] \in {"join", "joining"},
              NEW w \in Workers, w < target'[c]
       PROVE  pc'[w] = "exit"
  <2>1. Destroying(c) /\ pc[c] \in {"join", "joining"} /\ w < target[c]
    BY <1>1, <1>5, <1>10
  <2>2. pc[w] = "exit"
    BY <2>1 DEF DestructorAlone
  <2> QED BY <1>6, <2>2
<1> QED
  BY <1>7, <1>8, <1>9, <1>10

(* Steps taken while no client is in the destructor. *)
LEMMA Alone_None ==
    ASSUME \A c \in Clients : ~Destroying(c)' /\ pc'[c] \notin AfterWait
    PROVE  DestructorAlone'
BY DEF DestructorAlone

(* A client that is in a call other than the destructor, or starts one. *)
LEMMA Alone_OtherClient ==
    ASSUME Shape, DestructorAlone, NEW c \in Clients, \A d \in Clients : ~Destroying(d),
           \A d \in Clients \ {c} : pc'[d] = pc[d] /\ call'[d] = call[d],
           ~Destroying(c)', pc'[c] \notin AfterWait
    PROVE  DestructorAlone'
<1>1. ASSUME NEW d \in Clients PROVE ~Destroying(d)' /\ pc'[d] \notin AfterWait
  <2>1. CASE d = c
    BY <2>1
  <2>2. CASE d # c
    BY <2>2 DEF DestructorAlone, Destroying
  <2> QED BY <2>1, <2>2
<1> QED
  BY <1>1, Alone_None

LEMMA Usable_None == Usable => \A c \in Clients : ~Destroying(c)
BY DEF Usable, Destroying

LEMMA Alone_WaitOnPool ==
    ASSUME Shape, DestructorAlone, NEW c \in Clients, \A d \in Clients : ~Destroying(d),
           NEW op \in {"WaitCompletion", "WaitEvent", "Setup"}, NEW n, WaitOnPool(c, op, n)
    PROVE  DestructorAlone'
<1>1. /\ pc \in [Threads -> Pcs] /\ Clients \subseteq Threads
      /\ call \in [Clients -> [op : CallOps, n : Int]]
  BY DEF Shape, Types, ThreadTypes, Threads
<1>2. CASE WaitIsOver(op, n)
  <2>1. pc' = [pc EXCEPT ![c] = "idle"] /\ call' = [call EXCEPT ![c] = NoCall]
    BY <1>2 DEF WaitOnPool
  <2> QED
    BY <1>1, <2>1, Alone_OtherClient DEF Destroying, NoCall, AfterWait
<1>3. CASE ~WaitIsOver(op, n)
  <2>1. pc' = [pc EXCEPT ![c] = "cv"] /\ call' = [call EXCEPT ![c] = [op |-> op, n |-> n]]
    BY <1>3 DEF WaitOnPool
  <2> QED
    BY <1>1, <2>1, Alone_OtherClient DEF Destroying, AfterWait
<1> QED BY <1>2, <1>3

LEMMA Alone_WaitOnQueue ==
    ASSUME Shape, DestructorAlone, NEW c \in Clients, \A d \in Clients : ~Destroying(d),
           NEW op \in {"WaitCompletion", "WaitEvent"}, NEW n,
           \/ WaitOnQueue(c, op, n)
           \/ /\ pc' = [pc EXCEPT ![c] = "queueWoken"]
              /\ call' = [call EXCEPT ![c] = [op |-> op, n |-> n]]
    PROVE  DestructorAlone'
<1>1. /\ pc \in [Threads -> Pcs] /\ Clients \subseteq Threads
      /\ call \in [Clients -> [op : CallOps, n : Int]]
  BY DEF Shape, Types, ThreadTypes, Threads
<1>2. /\ pc' = [pc EXCEPT ![c] = pc'[c]] /\ pc'[c] \in {"idle", "queueCv", "queueWoken"}
      /\ \/ call' = [call EXCEPT ![c] = NoCall]
         \/ call' = [call EXCEPT ![c] = [op |-> op, n |-> n]]
  BY <1>1 DEF WaitOnQueue
<1>3. \A d \in Clients \ {c} : pc'[d] = pc[d] /\ call'[d] = call[d]
  BY <1>1, <1>2
<1>4. ~Destroying(c)'
  BY <1>1, <1>2 DEF Destroying, NoCall
<1> QED
  BY <1>2, <1>3, <1>4, Alone_OtherClient DEF AfterWait

LEMMA Alone_ClientCall ==
    ASSUME Shape, Shape', DestructorAlone, NEW c \in Clients, ClientCall(c)
    PROVE  DestructorAlone'
<1>a. aWT \in Nat /\ nWaitingWorkerThreads \in Int
  BY DEF Shape, Types, PoolTypes, WaitingTypes
<1>b. aWT' \in Nat
  BY DEF Shape, Types, PoolTypes
<1>0. /\ pc \in [Threads -> Pcs] /\ Clients \subseteq Threads /\ aWT \in Nat /\ aWT' \in Nat
      /\ call \in [Clients -> [op : CallOps, n : Int]] /\ nWaitingWorkerThreads \in Int
      /\ Clients \cap Workers = {}
  BY <1>a, <1>b DEF Shape, Types, ThreadTypes, Threads
<1>1. \A d \in Clients : ~Destroying(d)
  BY Usable_None DEF ClientCall, GDALGetGlobalThreadPool, SetupLazy, Setup, SubmitJob,
     SubmitJobs, WaitCompletion, WaitEvent, QueueWaitCompletion, QueueWaitEvent, Destroy,
     Idle
<1>2. ASSUME NEW n \in 1..NThreads, GDALGetGlobalThreadPool(c, n) PROVE DestructorAlone'
  <2>1. UNCHANGED <<pc, call>> /\ pc[c] = "idle"
    BY <1>2 DEF GDALGetGlobalThreadPool, SetupLazy, Idle
  <2> QED BY <1>1, <2>1, Alone_OtherClient DEF Destroying, AfterWait
<1>3. ASSUME NEW n \in 1..NThreads, Setup(c, n) PROVE DestructorAlone'
  <2>1. PICK k \in 0..n : /\ call' = [call EXCEPT ![c] = [op |-> "Setup", n |-> k]]
                          /\ pc' = [Started(pc, k) EXCEPT ![c] = "cvWoken"]
    BY <1>3 DEF Setup
  <2>2. \A d \in Clients \ {c} : pc'[d] = pc[d] /\ call'[d] = call[d]
    BY <1>0, <2>1, StartedFrame
  <2>3. Started(pc, k) \in [Threads -> Pcs]
    BY <1>0, StartedFrame
  <2>4. pc'[c] = "cvWoken" /\ ~Destroying(c)'
    BY <1>0, <2>1, <2>3 DEF Destroying
  <2> QED BY <1>1, <2>2, <2>4, Alone_OtherClient DEF AfterWait
<1>4. ASSUME NEW j \in Jobs, SubmitJob(c, j) PROVE DestructorAlone'
  <2>1. UNCHANGED call /\ Enqueue(c, j, nWaitingWorkerThreads) /\ c \in Threads
    BY <1>0, <1>4 DEF SubmitJob
  <2>2. /\ pc'[c] \in {"notify", "idle"}
        /\ \A u \in Threads \ {c} : pc'[u] = Started(pc, aWT')[u]
    BY <1>0, <2>1, EnqueueFrame
  <2>3. \A d \in Clients \ {c} : pc'[d] = pc[d] /\ call'[d] = call[d]
    BY <1>0, <2>1, <2>2, StartedFrame
  <2> QED
    BY <1>1, <2>1, <2>2, <2>3, Alone_OtherClient DEF Destroying, AfterWait
<1>5. ASSUME NEW js \in Batches, SubmitJobs(c, js) PROVE DestructorAlone'
  <2>1. PICK k : /\ aWT' = k
                 /\ \/ /\ pc' = [Started(pc, k) EXCEPT ![c] = "notify"]
                       /\ call' = [call EXCEPT ![c] = [op |-> "SubmitJobs", n |-> Len(js) - 1]]
                    \/ pc' = Started(pc, k) /\ UNCHANGED call
    BY <1>5 DEF SubmitJobs, PopWaitingWorker
  <2>2. /\ Started(pc, k) \in [Threads -> Pcs]
        /\ \A d \in Clients : Started(pc, k)[d] = pc[d]
    BY <1>0, <2>1, StartedFrame
  <2>3. pc[c] = "idle"
    BY <1>5 DEF SubmitJobs, Idle
  <2>4. /\ \A d \in Clients \ {c} : pc'[d] = pc[d] /\ call'[d] = call[d]
        /\ pc'[c] \in {"notify", "idle"} /\ ~Destroying(c)'
    BY <1>0, <1>1, <2>1, <2>2, <2>3 DEF Destroying
  <2> QED
    BY <1>1, <2>4, Alone_OtherClient DEF AfterWait
<1>6. CASE (\E n \in 0..MaxRemaining : WaitCompletion(c, n)) \/ WaitEvent(c)
  BY <1>1, <1>6, Alone_WaitOnPool DEF WaitCompletion, WaitEvent
<1>7. CASE (\E n \in 0..MaxRemaining : QueueWaitCompletion(c, n)) \/ QueueWaitEvent(c)
  BY <1>1, <1>7, Alone_WaitOnQueue DEF QueueWaitCompletion, QueueWaitEvent
<1>8. CASE Destroy(c)
  <2>1. /\ \A d \in Clients : pc[d] = "idle"
        /\ pc' = [pc EXCEPT ![c] = "cvWoken"]
        /\ call' = [call EXCEPT ![c] = [op |-> "Destroy", n |-> 0]]
    BY <1>8 DEF Destroy, Idle
  <2>2. /\ pc'[c] = "cvWoken" /\ \A d \in Clients \ {c} : pc'[d] = "idle" /\ ~Destroying(d)'
        /\ Destroying(c)'
    BY <1>0, <1>1, <2>1 DEF Destroying
  <2> QED
    BY <2>2 DEF DestructorAlone, AfterWait, DestroyPcs
<1> QED
  BY <1>2, <1>3, <1>4, <1>5, <1>6, <1>7, <1>8, QueueFacts DEF ClientCall

LEMMA Alone_ClientStep ==
    ASSUME Shape, Shape', PoolPending, DestructorAlone, NEW c \in Clients, ClientStep(c)
    PROVE  DestructorAlone'
<1>0. /\ pc \in [Threads -> Pcs] /\ Clients \subseteq Threads
      /\ call \in [Clients -> [op : CallOps, n : Int]]
      /\ target \in [Threads -> 0..NThreads + 1] /\ nPendingJobs \in Int
      /\ Clients \cap Workers = {} /\ Workers \subseteq Threads
  BY DEF Shape, Types, ThreadTypes, PoolTypes, Threads
<1>1. pc[c] # "idle"
  BY DEF ClientStep, BatchNext, Notify, WaitAgain, QueueWaitAgain, Stop, NotifyStop, Join,
         Destroyed
<1>2. \A d \in Clients \ {c} : ~Destroying(d)
  BY <1>1 DEF DestructorAlone
<1>3. CASE ~Destroying(c)
  <2>0. pc[c] \notin AfterWait /\ \A d \in Clients : ~Destroying(d)
    BY <1>2, <1>3 DEF DestructorAlone
  <2>1. CASE BatchNext(c)
    <3>1. CASE call[c].n > 0 /\ psWaitingWorkerThreadsList # <<>>
      <4>1. pc' = [pc EXCEPT ![c] = "notify"] /\ call' = [call EXCEPT ![c].n = @ - 1]
        BY <2>1, <3>1 DEF BatchNext, PopWaitingWorker
      <4> QED
        BY <1>0, <1>3, <2>0, <4>1, Alone_OtherClient DEF Destroying, AfterWait
    <3>2. CASE ~(call[c].n > 0 /\ psWaitingWorkerThreadsList # <<>>)
      <4>1. pc' = [pc EXCEPT ![c] = "idle"] /\ call' = [call EXCEPT ![c] = NoCall]
        BY <2>1, <3>2 DEF BatchNext
      <4> QED
        BY <1>0, <2>0, <4>1, Alone_OtherClient DEF Destroying, NoCall, AfterWait
    <3> QED BY <3>1, <3>2
  <2>2. CASE Notify(c)
    <3>1. target[c] \in Workers
      BY <2>2 DEF Notify, Shape, Control, ClientControl, Types, PoolTypes, Workers
    <3>2. /\ UNCHANGED call /\ pc'[c] \in {"batch", "idle"}
          /\ \A d \in Clients \ {c} : pc'[d] = pc[d]
      BY <1>0, <2>2, <3>1 DEF Notify
    <3> QED
      BY <1>3, <2>0, <3>2, Alone_OtherClient DEF Destroying, AfterWait
  <2>3. CASE WaitAgain(c)
    <3>1. call[c].op \in {"WaitCompletion", "WaitEvent", "Setup"}
      BY <1>3, <2>3 DEF WaitAgain, Shape, Control, ClientControl, Destroying
    <3> QED
      BY <2>0, <2>3, <3>1, Alone_WaitOnPool DEF WaitAgain
  <2>4. CASE QueueWaitAgain(c)
    <3>1. call[c].op \in {"WaitCompletion", "WaitEvent"}
      BY <2>4 DEF QueueWaitAgain, Shape, Control, ClientControl
    <3> QED
      BY <2>0, <2>4, <3>1, Alone_WaitOnQueue DEF QueueWaitAgain
  <2> QED
    BY <2>0, <2>1, <2>2, <2>3, <2>4
    DEF ClientStep, Stop, NotifyStop, Join, Destroyed, AfterWait
<1>4. CASE Destroying(c)
  <2>0. /\ \A d \in Clients \ {c} : pc[d] = "idle" /\ ~Destroying(d)
        /\ pc[c] \in DestroyPcs
        /\ pc[c] \in AfterWait => nPendingJobs <= 0
    BY <1>4 DEF DestructorAlone
  <2>1. ASSUME pc'[c] \in DestroyPcs, UNCHANGED call,
               \A d \in Clients \ {c} : pc'[d] = pc[d],
               pc'[c] \in AfterWait => nPendingJobs' <= 0,
               pc'[c] \in {"join", "joining"} =>
                  \A w \in Workers : w < target'[c] => pc'[w] = "exit"
        PROVE  DestructorAlone'
    <3>1. \A d \in Clients : Destroying(d)' <=> d = c
      BY <1>4, <2>0, <2>1 DEF Destroying
    <3>2. \A d \in Clients \ {c} : pc'[d] = "idle"
      BY <2>0, <2>1
    <3> QED
      BY <2>1, <3>1, <3>2 DEF DestructorAlone, AfterWait
  <2>2. CASE WaitAgain(c)
    <3>1. call[c].op = "Destroy" /\ WaitOnPool(c, "Destroy", call[c].n)
      BY <1>4, <2>2 DEF WaitAgain, Destroying
    <3>2. CASE WaitIsOver("Destroy", call[c].n)
      <4>1. pc' = [pc EXCEPT ![c] = "stop"] /\ UNCHANGED <<call, nPendingJobs>>
            /\ nPendingJobs <= 0
        BY <3>1, <3>2 DEF WaitOnPool, WaitIsOver, poolState
      <4>2. pc'[c] = "stop" /\ \A d \in Clients \ {c} : pc'[d] = pc[d]
        BY <1>0, <4>1
      <4> QED
        BY <2>1, <4>1, <4>2 DEF DestroyPcs
    <3>3. CASE ~WaitIsOver("Destroy", call[c].n)
      <4>1. /\ pc' = [pc EXCEPT ![c] = "cv"]
            /\ call' = [call EXCEPT ![c] = [op |-> "Destroy", n |-> call[c].n]]
        BY <3>1, <3>3 DEF WaitOnPool
      <4>2. call' = call
        BY <1>0, <3>1, <4>1
      <4>3. pc'[c] = "cv" /\ \A d \in Clients \ {c} : pc'[d] = pc[d]
        BY <1>0, <4>1
      <4> QED
        BY <2>1, <4>2, <4>3 DEF DestroyPcs, AfterWait
    <3> QED BY <3>2, <3>3
  <2>3. CASE Stop(c)
    <3>1. /\ UNCHANGED <<call, nPendingJobs>> /\ pc'[c] = "join" /\ target'[c] = 1
          /\ \A d \in Clients \ {c} : pc'[d] = pc[d]
      BY <1>0, <2>3 DEF Stop
    <3>2. \A w \in Workers : ~(w < 1)
      BY DEF Workers
    <3>3. nPendingJobs <= 0
      BY <2>0, <2>3 DEF Stop, AfterWait
    <3> QED
      BY <2>1, <3>1, <3>2, <3>3 DEF DestroyPcs
  <2>4. CASE NotifyStop(c)
    <3>1. target[c] \in Workers
      BY <2>4 DEF NotifyStop, Shape, Control, ClientControl, Types, PoolTypes, Workers
    <3>2. /\ UNCHANGED <<call, nPendingJobs, target>> /\ pc'[c] = "joining"
          /\ \A d \in Clients \ {c} : pc'[d] = pc[d]
          /\ \A w \in Workers : pc[w] = "exit" => pc'[w] = "exit"
          /\ pc[c] = "join"
      BY <1>0, <2>4, <3>1 DEF NotifyStop, poolState
    <3>3. \A w \in Workers : w < target[c] => pc[w] = "exit"
      BY <1>4, <3>2 DEF DestructorAlone
    <3> QED
      BY <2>0, <2>1, <3>2, <3>3 DEF DestroyPcs, AfterWait
  <2>5. CASE Join(c)
    <3>1. /\ UNCHANGED <<call, nPendingJobs>> /\ pc'[c] = "join" /\ pc[c] = "joining"
          /\ \A t \in Threads \ {c} : pc'[t] = pc[t]
          /\ target'[c] = target[c] + 1 /\ pc[target[c]] = "exit"
      BY <1>0, <2>5 DEF Join, Joined, poolState
    <3>2. \A w \in Workers : w < target[c] => pc[w] = "exit"
      BY <1>4, <3>1 DEF DestructorAlone
    <3>3. \A w \in Workers : w < target[c] + 1 => w < target[c] \/ w = target[c]
      BY <1>0 DEF Workers
    <3>4. \A w \in Workers : w < target'[c] => pc'[w] = "exit"
      BY <1>0, <3>1, <3>2, <3>3
    <3>5. \A d \in Clients \ {c} : pc'[d] = pc[d]
      BY <1>0, <3>1
    <3> QED
      BY <2>0, <2>1, <3>1, <3>4, <3>5 DEF DestroyPcs, AfterWait
  <2>6. CASE Destroyed(c)
    <3>1. /\ UNCHANGED <<call, nPendingJobs>> /\ pc'[c] = "gone" /\ pc[c] = "join"
          /\ \A d \in Clients \ {c} : pc'[d] = pc[d]
      BY <1>0, <2>6 DEF Destroyed, poolState
    <3> QED
      BY <2>0, <2>1, <3>1 DEF DestroyPcs, AfterWait
  <2> QED
    BY <2>0, <2>2, <2>3, <2>4, <2>5, <2>6
    DEF ClientStep, BatchNext, Notify, QueueWaitAgain, DestroyPcs
<1> QED
  BY <1>3, <1>4

LEMMA PendingFalls ==
    ASSUME Shape, PoolPending, NEW w \in Workers, WorkerStep(w) \/ WakeUpWaitEvent(w)
    PROVE  nPendingJobs <= 0 => nPendingJobs' <= 0
<1>0. nPendingJobs \in Int
  BY DEF Shape, Types, PoolTypes
<1>1. CASE EnqueueNested(w)
  BY <1>0, <1>1, BusyIsPending DEF EnqueueNested, Busy
<1>2. CASE DeclareJobFinished(w)
  BY <1>0, <1>2 DEF DeclareJobFinished
<1>3. ASSUME NEW k \in ChildJobs, SubmitNested(w, k) \/ SubmitJobsNested(w, k)
      PROVE  nPendingJobs' = nPendingJobs
  BY <1>3 DEF SubmitNested, SubmitJobsNested, poolState
<1>4. ASSUME \/ GetNextJob(w) \/ FallAsleep(w) \/ WakeUp(w) \/ Notify(w) \/ JobWaits(w)
             \/ JobReturns(w) \/ WakeUpWaitEvent(w)
      PROVE  nPendingJobs' = nPendingJobs
  BY <1>4 DEF GetNextJob, FallAsleep, WakeUp, Notify, JobWaits, JobReturns,
     WakeUpWaitEvent, poolState
<1> QED
  BY <1>1, <1>2, <1>3, <1>4 DEF WorkerStep

LEMMA Alone_Next ==
    Shape /\ Shape' /\ PoolPending /\ DestructorAlone /\ [Next]_vars => DestructorAlone'
<1> SUFFICES ASSUME Shape, Shape', PoolPending, DestructorAlone, [Next]_vars
             PROVE  DestructorAlone'
  OBVIOUS
<1>1. ASSUME NEW c \in Clients, ClientStep(c) \/ ClientCall(c) PROVE DestructorAlone'
  BY <1>1, Alone_ClientStep, Alone_ClientCall
<1>2. ASSUME NEW w \in Workers, WorkerStep(w) \/ WakeUpWaitEvent(w) PROVE DestructorAlone'
  BY <1>2, Woken_ByWorkerStep, PendingFalls, Alone_Woken
<1>3. ASSUME NEW t \in Threads, SpuriousWakeUp(t) PROVE DestructorAlone'
  <2>1. nPendingJobs' = nPendingJobs
    BY <1>3 DEF SpuriousWakeUp, poolState
  <2> QED BY <1>3, <2>1, Woken_BySpurious, Alone_Woken
<1>4. CASE UNCHANGED vars
  BY <1>4 DEF vars, poolState, DestructorAlone, Destroying
<1> QED
  BY <1>1, <1>2, <1>3, <1>4 DEF Next

LEMMA AloneInvariant == Spec => []DestructorAlone
<1>1. Init => DestructorAlone
  BY DEF Init, DestructorAlone, Destroying, AfterWait, NoCall, Threads
<1>2. Counted => Shape /\ PoolPending
  BY DEF Counted
<1> QED
  BY <1>1, <1>2, CountedInvariant, Alone_Next, PTL DEF Spec

(* The steps that take client c out of a wait of its queue, or out of the  *)
(* destructor of the pool, are steps of c itself.                          *)
LEMMA OthersKeepClient ==
    ASSUME Shape, Shape', NEW c \in Clients, NEW d \in Clients \ {c},
           ClientStep(d) \/ ClientCall(d)
    PROVE  pc'[c] = pc[c]
<1>1. aWT \in Nat /\ nWaitingWorkerThreads \in Int
  BY DEF Shape, Types, PoolTypes, WaitingTypes
<1>2. aWT' \in Nat
  BY DEF Shape, Types, PoolTypes
<1>3. /\ pc \in [Threads -> Pcs] /\ c \in Threads /\ d \in Threads /\ c # d
      /\ Clients \cap Workers = {}
  BY DEF Shape, Types, ThreadTypes, Threads
<1>4. CASE BatchNext(d)
  BY <1>3, <1>4 DEF BatchNext, PopWaitingWorker
<1>5. CASE Notify(d)
  <2>1. target[d] \in Workers
    BY <1>5 DEF Notify, Shape, Control, ClientControl, Types, PoolTypes, Workers
  <2> QED BY <1>3, <1>5, <2>1 DEF Notify
<1>6. CASE NotifyStop(d)
  <2>1. target[d] \in Workers
    BY <1>6 DEF NotifyStop, Shape, Control, ClientControl, Types, PoolTypes, Workers
  <2> QED BY <1>3, <1>6, <2>1 DEF NotifyStop
<1>7. CASE WaitAgain(d) \/ QueueWaitAgain(d)
  BY <1>3, <1>7 DEF WaitAgain, QueueWaitAgain, WaitOnPool, WaitOnQueue
<1>8. CASE Stop(d) \/ Join(d) \/ Destroyed(d) \/ Destroy(d)
  BY <1>3, <1>8 DEF Stop, Join, Destroyed, Destroy
<1>9. ASSUME NEW n \in 1..NThreads, GDALGetGlobalThreadPool(d, n) PROVE pc'[c] = pc[c]
  BY <1>9 DEF GDALGetGlobalThreadPool, SetupLazy
<1>10. ASSUME NEW n \in 1..NThreads, Setup(d, n) PROVE pc'[c] = pc[c]
  <2>1. PICK k \in 0..n : pc' = [Started(pc, k) EXCEPT ![d] = "cvWoken"]
    BY <1>10 DEF Setup
  <2> QED BY <1>1, <1>3, <2>1, StartedFrame
<1>11. ASSUME NEW j \in Jobs, SubmitJob(d, j) PROVE pc'[c] = pc[c]
  <2>1. pc'[c] = Started(pc, aWT')[c]
    BY <1>1, <1>3, <1>11, EnqueueFrame DEF SubmitJob
  <2> QED BY <1>1, <1>2, <1>3, <2>1, StartedFrame
<1>12. ASSUME NEW js \in Batches, SubmitJobs(d, js) PROVE pc'[c] = pc[c]
  <2>1. \/ pc' = [Started(pc, aWT') EXCEPT ![d] = "notify"]
        \/ pc' = Started(pc, aWT')
    BY <1>12 DEF SubmitJobs, PopWaitingWorker
  <2> QED BY <1>1, <1>2, <1>3, <2>1, StartedFrame
<1>13. CASE (\E n \in 0..MaxRemaining : WaitCompletion(d, n)) \/ WaitEvent(d)
  BY <1>3, <1>13 DEF WaitCompletion, WaitEvent, WaitOnPool
<1>14. CASE (\E n \in 0..MaxRemaining : QueueWaitCompletion(d, n)) \/ QueueWaitEvent(d)
  BY <1>3, <1>14 DEF QueueWaitCompletion, QueueWaitEvent, WaitOnQueue
<1> QED
  BY <1>4, <1>5, <1>6, <1>7, <1>8, <1>9, <1>10, <1>11, <1>12, <1>13, <1>14, QueueFacts
  DEF ClientStep, ClientCall

LEMMA ReturnIsOwnStep ==
    ASSUME Shape, Shape', [Next]_vars, NEW c \in Clients,
           \/ pc[c] = "queueWoken" /\ pc'[c] = "idle"
           \/ pc[c] # "gone" /\ pc'[c] = "gone"
    PROVE  ClientStep(c) \/ ClientCall(c)
<1>1. pc'[c] # pc[c]
  OBVIOUS
<1>2. ~ClientsWoken
  BY DEF ClientsWoken
<1>3. ASSUME NEW w \in Workers, WorkerStep(w) \/ WakeUpWaitEvent(w) PROVE FALSE
  BY <1>2, <1>3, Woken_ByWorkerStep
<1>4. ASSUME NEW t \in Threads, SpuriousWakeUp(t) PROVE FALSE
  BY <1>2, <1>4, Woken_BySpurious
<1>5. ASSUME NEW d \in Clients, ClientStep(d) \/ ClientCall(d), d # c PROVE FALSE
  BY <1>1, <1>5, OthersKeepClient
<1>6. ~UNCHANGED vars
  BY <1>1 DEF vars
<1> QED
  BY <1>3, <1>4, <1>5, <1>6 DEF Next

LEMMA QueueReturn ==
    ASSUME Shape, NEW c \in Clients, ClientStep(c) \/ ClientCall(c),
           pc[c] = "queueWoken", pc'[c] = "idle"
    PROVE  QueueWaitAgain(c)
<1>1. ~ClientCall(c)
  BY DEF ClientCall, GDALGetGlobalThreadPool, SetupLazy, Setup, SubmitJob, SubmitJobs,
     WaitCompletion, WaitEvent, QueueWaitCompletion, QueueWaitEvent, Destroy, Idle
<1> QED
  BY <1>1 DEF ClientStep, BatchNext, Notify, WaitAgain, Stop, NotifyStop, Join, Destroyed

LEMMA DestructorReturn ==
    ASSUME Shape, Shape', NEW c \in Clients, ClientStep(c) \/ ClientCall(c),
           pc[c] # "gone", pc'[c] = "gone"
    PROVE  Destroyed(c)
<1>1. aWT \in Nat /\ nWaitingWorkerThreads \in Int
  BY DEF Shape, Types, PoolTypes, WaitingTypes
<1>2. aWT' \in Nat
  BY DEF Shape, Types, PoolTypes
<1>3. pc \in [Threads -> Pcs] /\ c \in Threads /\ c \notin Workers
  BY DEF Shape, Types, ThreadTypes, Threads
<1>4. ~BatchNext(c)
  BY <1>3 DEF BatchNext, PopWaitingWorker
<1>5. ~Notify(c)
  BY <1>3 DEF Notify
<1>6. ~NotifyStop(c)
  <2> SUFFICES ASSUME NotifyStop(c) PROVE FALSE
    OBVIOUS
  <2>1. target[c] \in Workers
    BY DEF NotifyStop, Shape, Control, ClientControl, Types, PoolTypes, Workers
  <2> QED BY <1>3, <2>1 DEF NotifyStop
<1>7. ~WaitAgain(c) /\ ~QueueWaitAgain(c)
  BY <1>3 DEF WaitAgain, QueueWaitAgain, WaitOnPool, WaitOnQueue
<1>8. ~Stop(c) /\ ~Join(c) /\ ~Destroy(c)
  BY <1>3 DEF Stop, Join, Destroy
<1>9. ASSUME NEW n \in 1..NThreads, GDALGetGlobalThreadPool(c, n) PROVE FALSE
  BY <1>9 DEF GDALGetGlobalThreadPool, SetupLazy
<1>10. ASSUME NEW n \in 1..NThreads, Setup(c, n) PROVE FALSE
  <2>1. PICK k \in 0..n : pc' = [Started(pc, k) EXCEPT ![c] = "cvWoken"]
    BY <1>10 DEF Setup
  <2> QED BY <1>1, <1>3, <2>1, StartedFrame
<1>11. ASSUME NEW j \in Jobs, SubmitJob(c, j) PROVE FALSE
  BY <1>1, <1>3, <1>11, EnqueueFrame DEF SubmitJob
<1>12. ASSUME NEW js \in Batches, SubmitJobs(c, js) PROVE FALSE
  <2>1. \/ pc' = [Started(pc, aWT') EXCEPT ![c] = "notify"]
        \/ pc' = Started(pc, aWT')
    BY <1>12 DEF SubmitJobs, PopWaitingWorker
  <2> QED BY <1>1, <1>2, <1>3, <2>1, StartedFrame
<1>13. CASE (\E n \in 0..MaxRemaining : WaitCompletion(c, n)) \/ WaitEvent(c)
  BY <1>3, <1>13 DEF WaitCompletion, WaitEvent, WaitOnPool
<1>14. CASE (\E n \in 0..MaxRemaining : QueueWaitCompletion(c, n)) \/ QueueWaitEvent(c)
  BY <1>3, <1>14 DEF QueueWaitCompletion, QueueWaitEvent, WaitOnQueue
<1> QED
  BY <1>4, <1>5, <1>6, <1>7, <1>8, <1>9, <1>10, <1>11, <1>12, <1>13, <1>14, QueueFacts
  DEF ClientStep, ClientCall

(* A job is done when nothing is pending. *)
LEMMA NothingPending ==
    ASSUME Counted, nPendingJobs <= 0
    PROVE  submitted = done
<1>1. Shape /\ JobInOnePlace /\ PoolPending
  BY DEF Counted
<1>2. \A w \in Workers : pc[w] \notin Busy \cup {"finish"}
  BY <1>1, BusyIsPending DEF Shape, Types, PoolTypes
<1>3. \A w \in Workers : stack[w] = <<>> /\ reserved[w] = NoThread
  BY <1>1, <1>2 DEF Shape, Control, WorkerControl, Busy
<1>4. jobQueue = <<>>
  <2>1. jobQueue \in Seq(Jobs) /\ Len(jobQueue) \in Nat /\ nPendingJobs \in Int
    BY <1>1 DEF Shape, Types, PoolTypes
  <2>2. Cardinality(TakenFromQueue) \in Nat
    BY TakenCount
  <2>3. Len(jobQueue) = 0
    BY <1>1, <2>1, <2>2 DEF PoolPending
  <2> QED BY <2>1, <2>3
<1>5. \A j \in Jobs : /\ ~Queued(j)
                      /\ \A w \in Workers : ~StackedBy(w, j) /\ ~ReservedBy(w, j)
  BY <1>3, <1>4 DEF Queued, StackedBy, ReservedBy
<1>6. submitted \subseteq Jobs /\ done \subseteq submitted
  BY <1>1 DEF Shape, Types, JobTypes, JobInOnePlace, Placed
<1> QED
  BY <1>1, <1>5, <1>6 DEF JobInOnePlace, Placed

Completed(c) ==
    /\ ReturnsFromQueueWait(c) => \A j \in submitted : queueOf[j] = c => j \in done
    /\ ReturnsFromDestructor(c) =>
          submitted = done /\ \A w \in 1..aWT : pc[w] = "exit"

LEMMA ReturnsComplete ==
    ASSUME Counted, Shape', DestructorAlone, [Next]_vars, NEW c \in Clients
    PROVE  Completed(c)
<1>0. Shape
  BY DEF Counted
<1>1. ASSUME ReturnsFromQueueWait(c), NEW j \in submitted, queueOf[j] = c
      PROVE  j \in done
  <2>1. QueueWaitAgain(c)
    BY <1>0, <1>1, ReturnIsOwnStep, QueueReturn DEF ReturnsFromQueueWait
  <2>2. WaitOnQueue(c, "WaitCompletion", 0)
    BY <1>1, <2>1 DEF QueueWaitAgain, ReturnsFromQueueWait
  <2>3. pc \in [Threads -> Pcs] /\ c \in Threads
    BY <1>0 DEF Shape, Types, ThreadTypes, Threads
  <2>4. QueueWaitIsOver(c, "WaitCompletion", 0)
    BY <1>1, <2>2, <2>3 DEF WaitOnQueue, ReturnsFromQueueWait
  <2>5. m_nPendingJobs[c] <= 0
    BY <2>4 DEF QueueWaitIsOver
  <2>6. m_nPendingJobs[c] = Cardinality(PendingIn(c))
    BY DEF Counted, QueuePending, Queues
  <2>7. IsFiniteSet(PendingIn(c)) /\ Cardinality(PendingIn(c)) \in Nat
    BY <1>0, PendingFinite, FS_CardinalityType
  <2>8. PendingIn(c) = {}
    BY <2>5, <2>6, <2>7, FS_EmptySet
  <2> QED
    BY <1>1, <2>8 DEF PendingIn
<1>2. ASSUME ReturnsFromDestructor(c)
      PROVE  submitted = done /\ \A w \in 1..aWT : pc[w] = "exit"
  <2>1. Destroyed(c)
    BY <1>0, <1>2, ReturnIsOwnStep, DestructorReturn DEF ReturnsFromDestructor
  <2>2. pc[c] = "join" /\ target[c] > aWT /\ pc[c] \in AfterWait
    BY <2>1 DEF Destroyed, AfterWait
  <2>3. nPendingJobs <= 0 /\ \A w \in Workers : w < target[c] => pc[w] = "exit"
    BY <2>2 DEF DestructorAlone
  <2>4. /\ target[c] \in Int /\ aWT \in 0..NThreads
    BY <1>0 DEF Shape, Types, PoolTypes, ThreadTypes, Threads
  <2>5. \A w \in 1..aWT : w \in Workers /\ w < target[c]
    BY <2>2, <2>4 DEF Workers
  <2> QED
    BY <2>3, <2>5, NothingPending
<1> QED
  BY <1>1, <1>2 DEF Completed

(* Whoever waits for completion gets it.  A client that comes back from    *)
(* CPLJobQueue::WaitCompletion(0) finds every job of its queue returned,   *)
(* also if its wake-up was spurious or meant for an earlier wait; when     *)
(* ~CPLWorkerThreadPool() returns every job ever submitted has returned    *)
(* and every worker has left WorkerThreadFunction(), so that no job runs   *)
(* in a pool that is gone.                                                 *)
THEOREM CompletionIsReal == Spec => CompletionMeansDone
<1>1. Counted /\ Counted' /\ DestructorAlone /\ [Next]_vars => \A c \in Clients : Completed(c)
  BY ReturnsComplete DEF Counted
<1>2. Spec => [][\A c \in Clients : Completed(c)]_vars
  BY <1>1, CountedInvariant, AloneInvariant, PTL DEF Spec
<1> QED
  BY <1>2 DEF CompletionMeansDone, Completed

-----------------------------------------------------------------------------
(* The refinement of JobPool *)

(* The steps of Next, as the jobs see them. *)
Kept == UNCHANGED <<jobQueue, stack, submitted, done, queueOf>>
TakesJob(w) ==
    /\ stack[w] = <<>> /\ jobQueue # <<>>
    /\ stack' = [stack EXCEPT ![w] = <<Head(jobQueue)>>]
    /\ jobQueue' = Tail(jobQueue)
    /\ UNCHANGED <<submitted, done, queueOf>>

LEMMA StepKinds ==
    ASSUME Shape, [Next]_vars
    PROVE  \/ Kept
           \/ \E c \in Clients, j \in TopJobs \ submitted : SubmitJob(c, j)
           \/ \E c \in Clients, js \in Batches : SubmitJobs(c, js)
           \/ \E w \in Workers, k \in ChildJobs : SubmitNested(w, k) \/ SubmitJobsNested(w, k)
           \/ \E w \in Workers : EnqueueNested(w) \/ TakesJob(w) \/ JobReturns(w)
<1>1. Quiet => Kept
  BY DEF Quiet, jobState, Kept
<1>2. CASE UNCHANGED vars
  BY <1>2 DEF vars, poolState, jobState, Kept
<1>3. ASSUME NEW c \in Clients, ClientStep(c) PROVE Kept
  <2>1. CASE BatchNext(c)
    BY <2>1 DEF BatchNext, jobState, Kept
  <2> QED
    BY <1>1, <1>3, <2>1, Quiet_Client, Quiet_Notify, QueueFacts DEF ClientStep
<1>4. ASSUME NEW c \in Clients, ClientCall(c)
      PROVE  \/ Kept
             \/ \E j \in TopJobs \ submitted : SubmitJob(c, j)
             \/ \E js \in Batches : SubmitJobs(c, js)
  <2>1. QueueJobs \subseteq TopJobs
    BY JobsAssumption
  <2> QED
    BY <1>1, <1>4, <2>1, Quiet_Client DEF ClientCall
<1>5. ASSUME NEW w \in Workers, WorkerStep(w) \/ WakeUpWaitEvent(w)
      PROVE  \/ Kept
             \/ \E k \in ChildJobs : SubmitNested(w, k) \/ SubmitJobsNested(w, k)
             \/ EnqueueNested(w) \/ TakesJob(w) \/ JobReturns(w)
  <2>1. CASE GetNextJob(w)
    <3>1. stack[w] = <<>> /\ UNCHANGED <<submitted, done, queueOf>>
      BY <2>1 DEF GetNextJob, Shape, Control, WorkerControl, Busy
    <3> QED BY <2>1, <3>1 DEF GetNextJob, TakesJob, Kept
  <2>2. CASE DeclareJobFinished(w)
    BY <2>2 DEF DeclareJobFinished, jobState, Kept
  <2> QED
    BY <1>1, <1>5, <2>1, <2>2, Quiet_Worker, Quiet_Notify, QueueFacts DEF WorkerStep
<1>6. ASSUME NEW t \in Threads, SpuriousWakeUp(t) PROVE Kept
  BY <1>1, <1>6, Quiet_Notify
<1> QED
  BY <1>2, <1>3, <1>4, <1>5, <1>6 DEF Next

-----------------------------------------------------------------------------
(* What a job that returns knows of the jobs it submitted *)

(* A job submits its children while it runs. *)
StartedJob(j) == j \in done \/ \E w \in Workers : StackedBy(w, j)
ChildrenAfterStart ==
    \A j \in Jobs : Children[j] \cap submitted # {} => StartedJob(j)

Family == ChildrenAfterStart /\ ChildrenFollowed

(* The stack of w gets job k on top, loses its top, or only holds h. *)
LEMMA Pushed ==
    ASSUME Shape, NEW w \in Workers, NEW k \in Jobs,
           stack' = [stack EXCEPT ![w] = Append(@, k)]
    PROVE  /\ \A v \in Workers \ {w} : stack'[v] = stack[v]
           /\ \A i \in DOMAIN stack'[w] : \/ i \in DOMAIN stack[w] /\ stack'[w][i] = stack[w][i]
                                          \/ i = Len(stack[w]) + 1 /\ stack'[w][i] = k
           /\ \A i \in DOMAIN stack[w] : i \in DOMAIN stack'[w] /\ stack'[w][i] = stack[w][i]
           /\ Len(stack[w]) + 1 \in DOMAIN stack'[w] /\ stack'[w][Len(stack[w]) + 1] = k
           /\ \A i \in DOMAIN stack[w] : i < Len(stack[w]) + 1 /\ i \in Nat
<1>0. /\ stack[w] \in Seq(Jobs)
      /\ stack'[w] = Append(stack[w], k) /\ \A v \in Workers \ {w} : stack'[v] = stack[v]
  BY DEF Shape, Types, JobTypes
<1>m. PICK m : m = Len(stack[w])
  OBVIOUS
<1>1. /\ m \in Nat /\ DOMAIN stack[w] = 1..m /\ DOMAIN stack'[w] = 1..m + 1
      /\ \A i \in 1..m : stack'[w][i] = stack[w][i]
      /\ stack'[w][m + 1] = k
  BY <1>0, <1>m
<1>2. \A i \in 1..m + 1 : i \in 1..m \/ i = m + 1
  BY <1>1
<1>3. \A i \in 1..m : i \in 1..m + 1 /\ i < m + 1 /\ i \in Nat
  BY <1>1
<1>4. m + 1 \in 1..m + 1
  BY <1>1
<1> QED
  BY <1>0, <1>1, <1>2, <1>3, <1>4, <1>m

LEMMA Popped ==
    ASSUME Shape, NEW w \in Workers, stack[w] # <<>>,
           stack' = [stack EXCEPT ![w] = Front(@)]
    PROVE  /\ \A v \in Workers \ {w} : stack'[v] = stack[v]
           /\ Len(stack[w]) \in Nat \ {0} /\ DOMAIN stack[w] = 1..Len(stack[w])
           /\ DOMAIN stack'[w] = 1..Len(stack[w]) - 1
           /\ \A i \in 1..Len(stack[w]) - 1 : stack'[w][i] = stack[w][i]
<1>n. PICK n : n = Len(stack[w])
  OBVIOUS
<1>0. /\ stack[w] \in Seq(Jobs) /\ n \in Nat \ {0} /\ DOMAIN stack[w] = 1..n
      /\ stack \in [Workers -> Seq(Jobs)]
  BY <1>n DEF Shape, Types, JobTypes
<1>1. /\ stack'[w] = SubSeq(stack[w], 1, n - 1)
      /\ \A v \in Workers \ {w} : stack'[v] = stack[v]
  BY <1>0, <1>n DEF Front
<1>2. \A i \in 1..n - 1 : stack[w][i] \in Jobs
  BY <1>0
<1>3. (IF 1 <= n - 1 THEN (n - 1) - 1 + 1 ELSE 0) = n - 1 /\ (n - 1) - 1 + 1 = n - 1
  BY <1>0
<1>4. \A i \in 1..n - 1 : 1 + i - 1 = i
  BY <1>0
<1>5. /\ stack'[w] \in Seq(Jobs) /\ Len(stack'[w]) = n - 1
      /\ \A i \in 1..n - 1 : stack'[w][i] = stack[w][i]
  BY <1>0, <1>1, <1>2, <1>3, <1>4, SubSeqProperties
<1>6. DOMAIN stack'[w] = 1..n - 1
  BY <1>5
<1> QED
  BY <1>0, <1>1, <1>5, <1>6, <1>n

LEMMA OneParent ==
    ASSUME NEW i \in Jobs, NEW j \in Jobs, NEW k \in Children[i], k \in Children[j]
    PROVE  i = j
BY JobsAssumption

LEMMA NotTop ==
    ASSUME NEW j \in Jobs, NEW k \in TopJobs
    PROVE  k \notin Children[j]
BY DEF TopJobs, ChildJobs

LEMMA StartedKept ==
    ASSUME done \subseteq done', \A w \in Workers : UNCHANGED stack[w], NEW j, StartedJob(j)
    PROVE  StartedJob(j)'
BY DEF StartedJob, StackedBy

LEMMA Family_Kept ==
    ASSUME Family, UNCHANGED <<stack, submitted, done, queueOf>>
    PROVE  Family'
BY DEF Family, ChildrenAfterStart, ChildrenFollowed, ChildAbove, StartedJob, StackedBy

(* Jobs that are nobody's children are submitted. *)
LEMMA Family_Submit ==
    ASSUME Family, NEW S \in SUBSET (TopJobs \ submitted), submitted' = submitted \cup S,
           \A j \in Jobs \ S : queueOf'[j] = queueOf[j], UNCHANGED <<stack, done>>,
           Shape
    PROVE  Family'
<1>1. \A j \in Jobs : Children[j] \cap submitted' = Children[j] \cap submitted
  BY NotTop
<1>2. \A j \in Jobs : \A k \in Children[j] : k \in Jobs \ S
  BY NotTop, JobsAssumption
<1>3. ChildrenAfterStart'
  BY <1>1 DEF Family, ChildrenAfterStart, StartedJob, StackedBy
<1>4. ASSUME NEW w \in Workers, NEW i \in DOMAIN stack'[w],
             NEW k \in Children[stack'[w][i]] \cap (submitted' \ done')
      PROVE  queueOf'[k] = stack'[w][i] \/ ChildAbove(w, i, k)'
  <2>1. i \in DOMAIN stack[w] /\ stack[w][i] \in Jobs /\ k \in Children[stack[w][i]]
    BY <1>4 DEF Shape, Types, JobTypes
  <2>2. k \in submitted \ done /\ queueOf'[k] = queueOf[k]
    BY <1>1, <1>2, <1>4, <2>1
  <2> QED
    BY <2>1, <2>2 DEF Family, ChildrenFollowed, ChildAbove
<1> QED
  BY <1>3, <1>4 DEF Family, ChildrenFollowed

LEMMA Family_Take ==
    ASSUME Shape, JobInOnePlace, Family, NEW w \in Workers, TakesJob(w)
    PROVE  Family'
<1>h. PICK h : h = Head(jobQueue)
  OBVIOUS
<1>1. /\ h \in Jobs /\ Queued(h) /\ stack'[w] = <<h>> /\ DOMAIN stack'[w] = {1}
      /\ stack'[w][1] = h /\ \A v \in Workers \ {w} : stack'[v] = stack[v]
      /\ UNCHANGED <<submitted, done, queueOf>> /\ stack[w] = <<>>
  <2>1. jobQueue \in Seq(Jobs) /\ stack \in [Workers -> Seq(Jobs)] /\ jobQueue # <<>>
    BY DEF Shape, Types, PoolTypes, JobTypes, TakesJob
  <2>2. h \in Jobs /\ h = jobQueue[1] /\ 1 \in DOMAIN jobQueue
    BY <1>h, <2>1
  <2>3. stack'[w] = <<h>> /\ \A v \in Workers \ {w} : stack'[v] = stack[v]
    BY <1>h, <2>1 DEF TakesJob
  <2> QED
    BY <2>2, <2>3 DEF Queued, TakesJob
<1>2. \A v \in Workers, j \in Jobs : StackedBy(v, j) => StackedBy(v, j)'
  BY <1>1 DEF StackedBy
<1>3. ChildrenAfterStart'
  BY <1>1, <1>2 DEF Family, ChildrenAfterStart, StartedJob
<1>4. ~StartedJob(h)
  BY <1>1 DEF StartedJob, JobInOnePlace, Placed, InOnePlace
<1>5. Children[h] \cap submitted' = {}
  BY <1>1, <1>4 DEF Family, ChildrenAfterStart
<1>6. ASSUME NEW v \in Workers, NEW i \in DOMAIN stack'[v],
             NEW k \in Children[stack'[v][i]] \cap (submitted' \ done')
      PROVE  queueOf'[k] = stack'[v][i] \/ ChildAbove(v, i, k)'
  <2>1. v # w
    BY <1>1, <1>5, <1>6
  <2>2. stack'[v] = stack[v]
    BY <1>1, <2>1
  <2> QED
    BY <1>1, <1>6, <2>2 DEF Family, ChildrenFollowed, ChildAbove
<1> QED
  BY <1>3, <1>6 DEF Family, ChildrenFollowed

(* A job submits child k: k is counted in the queue of the job or is run   *)
(* at once, on top of the stack, and no child of k was submitted before.   *)
LEMMA Family_Nested ==
    ASSUME Shape, JobInOnePlace, Family, NEW w \in Workers, NEW k \in Jobs,
           SubmitNested(w, k) \/ SubmitJobsNested(w, k)
    PROVE  Family'
<1>p. PICK p : p = CurrentJob(w)
  OBVIOUS
<1>1. /\ k \in Children[p] \ submitted /\ submitted' = submitted \cup {k}
      /\ UNCHANGED done /\ pc[w] = "run"
      /\ \/ queueOf' = [queueOf EXCEPT ![k] = p] /\ UNCHANGED stack
         \/ /\ queueOf' = [queueOf EXCEPT ![k] = p]
            /\ stack' = [stack EXCEPT ![w] = Append(@, k)]
         \/ stack' = [stack EXCEPT ![w] = Append(@, k)] /\ UNCHANGED queueOf
  BY <1>p DEF SubmitNested, SubmitJobsNested, InJob, CountInQueue
<1>2. p \in submitted /\ p \in Jobs /\ StackedBy(w, p) /\ p # k
  BY <1>1, <1>p, CurrentIsOnStack
<1>3. \A v \in Workers, j \in Jobs : StackedBy(v, j) => StackedBy(v, j)'
  <2>1. CASE UNCHANGED stack
    BY <2>1 DEF StackedBy
  <2>2. CASE stack' = [stack EXCEPT ![w] = Append(@, k)]
    BY <2>2, Pushed DEF StackedBy
  <2> QED BY <1>1, <2>1, <2>2
<1>4. \A j \in Jobs : StartedJob(j) => StartedJob(j)'
  BY <1>1, <1>3 DEF StartedJob
<1>5. ASSUME NEW j \in Jobs, Children[j] \cap submitted' # {} PROVE StartedJob(j)'
  <2>1. CASE Children[j] \cap submitted # {}
    BY <1>4, <2>1 DEF Family, ChildrenAfterStart
  <2>2. CASE k \in Children[j]
    <3>1. j = p
      BY <1>1, <1>2, <2>2, OneParent
    <3> QED BY <1>2, <1>3, <3>1 DEF StartedJob
  <2> QED BY <1>1, <1>5, <2>1, <2>2
<1>6. Children[k] \cap submitted' = {}
  <2>1. ~StartedJob(k)
    BY <1>1 DEF StartedJob, JobInOnePlace, Placed
  <2>2. k \notin Children[k]
    BY <1>1, <1>2, OneParent
  <2> QED
    BY <1>1, <2>1, <2>2 DEF Family, ChildrenAfterStart
<1>7. /\ stack[w] \in Seq(Jobs) /\ Len(stack[w]) \in Nat \ {0}
      /\ Len(stack[w]) \in DOMAIN stack[w] /\ p = stack[w][Len(stack[w])]
      /\ queueOf \in [Jobs -> Queues \cup {NoThread}] /\ stack \in [Workers -> Seq(Jobs)]
  BY <1>1, <1>p DEF CurrentJob, Last, Shape, Control, WorkerControl, Busy, Types, JobTypes
<1>8. ASSUME NEW v \in Workers, NEW i \in DOMAIN stack[v],
             NEW m \in Children[stack[v][i]] \cap (submitted' \ done')
      PROVE  queueOf'[m] = stack[v][i] \/ ChildAbove(v, i, m)'
  <2>0. stack[v][i] \in Jobs /\ m \in Jobs
    BY <1>7, <1>8, JobsAssumption
  <2>1. CASE m # k
    <3>1. m \in submitted \ done /\ queueOf'[m] = queueOf[m]
      BY <1>1, <1>7, <2>1, <2>0
    <3>2. queueOf[m] = stack[v][i] \/ ChildAbove(v, i, m)
      BY <1>8, <3>1 DEF Family, ChildrenFollowed
    <3>3. ChildAbove(v, i, m) => ChildAbove(v, i, m)'
      <4>1. CASE UNCHANGED stack
        BY <4>1 DEF ChildAbove
      <4>2. CASE stack' = [stack EXCEPT ![w] = Append(@, k)]
        BY <4>2, Pushed DEF ChildAbove
      <4> QED BY <1>1, <4>1, <4>2
    <3> QED BY <3>1, <3>2, <3>3
  <2>2. CASE m = k
    <3>1. stack[v][i] = p
      BY <1>1, <1>2, <1>8, <2>0, <2>2, OneParent
    <3>2. v = w /\ i = Len(stack[w])
      <4>1. StackedBy(v, p)
        BY <1>8, <3>1 DEF StackedBy
      <4>2. v = w
        BY <1>2, <4>1 DEF JobInOnePlace, InOnePlace
      <4> QED
        BY <1>7, <1>8, <3>1, <4>2 DEF JobInOnePlace, NoRepeats
    <3>3. CASE queueOf' = [queueOf EXCEPT ![k] = p]
      BY <1>7, <2>2, <3>1, <3>3
    <3>4. CASE stack' = [stack EXCEPT ![w] = Append(@, k)]
      <4>1. /\ Len(stack[w]) + 1 \in DOMAIN stack'[w] /\ stack'[w][Len(stack[w]) + 1] = k
            /\ Len(stack[w]) + 1 > Len(stack[w])
        BY <1>7, <3>4, Pushed
      <4> QED BY <2>2, <3>2, <4>1 DEF ChildAbove
    <3> QED BY <1>1, <3>3, <3>4
  <2> QED BY <2>1, <2>2
<1>9. ASSUME NEW v \in Workers, NEW i \in DOMAIN stack'[v],
             NEW m \in Children[stack'[v][i]] \cap (submitted' \ done')
      PROVE  queueOf'[m] = stack'[v][i] \/ ChildAbove(v, i, m)'
  <2>1. i \in DOMAIN stack[v] /\ stack'[v][i] = stack[v][i]
    <3>1. CASE UNCHANGED stack
      BY <1>9, <3>1
    <3>2. CASE stack' = [stack EXCEPT ![w] = Append(@, k)]
      <4>1. CASE v = w
        BY <1>6, <1>9, <3>2, <4>1, Pushed
      <4>2. CASE v # w
        BY <1>9, <3>2, <4>2, Pushed
      <4> QED BY <4>1, <4>2
    <3> QED BY <1>1, <3>1, <3>2
  <2> QED
    BY <1>8, <1>9, <2>1
<1> QED
  BY <1>5, <1>9 DEF Family, ChildrenAfterStart, ChildrenFollowed

LEMMA Family_JobReturns ==
    ASSUME Shape, JobInOnePlace, Family, NEW w \in Workers, JobReturns(w)
    PROVE  Family'
<1>n. PICK n : n = Len(stack[w])
  OBVIOUS
<1>p. PICK p : p = stack[w][n]
  OBVIOUS
<1>1. /\ done' = done \cup {p} /\ UNCHANGED <<submitted, queueOf>>
      /\ stack' = [stack EXCEPT ![w] = Front(@)] /\ stack[w] # <<>>
  BY <1>n, <1>p DEF JobReturns, CurrentJob, Last, InJob, Shape, Control, WorkerControl, Busy
<1>2. /\ \A v \in Workers \ {w} : stack'[v] = stack[v]
      /\ n \in Nat \ {0} /\ DOMAIN stack[w] = 1..n /\ DOMAIN stack'[w] = 1..n - 1
      /\ \A i \in 1..n - 1 : stack'[w][i] = stack[w][i]
  BY <1>1, <1>n, Popped
<1>3. /\ \A i \in 1..n - 1 : i \in 1..n
      /\ \A i \in 1..n : i \in 1..n - 1 \/ i = n
  BY <1>2
<1>4. \A v \in Workers, j \in Jobs : StackedBy(v, j) => StackedBy(v, j)' \/ j = p
  BY <1>2, <1>3, <1>p DEF StackedBy
<1>5. ChildrenAfterStart'
  BY <1>1, <1>4 DEF Family, ChildrenAfterStart, StartedJob
<1>6. ASSUME NEW v \in Workers, NEW i \in DOMAIN stack'[v],
             NEW k \in Children[stack'[v][i]] \cap (submitted' \ done')
      PROVE  queueOf'[k] = stack'[v][i] \/ ChildAbove(v, i, k)'
  <2>1. i \in DOMAIN stack[v] /\ stack'[v][i] = stack[v][i] /\ k \in submitted \ done /\ k # p
    BY <1>1, <1>2, <1>3, <1>6
  <2>2. queueOf[k] = stack[v][i] \/ ChildAbove(v, i, k)
    BY <1>6, <2>1 DEF Family, ChildrenFollowed
  <2>3. ASSUME ChildAbove(v, i, k) PROVE ChildAbove(v, i, k)'
    <3>1. PICK m \in DOMAIN stack[v] : m > i /\ stack[v][m] = k
      BY <2>3 DEF ChildAbove
    <3>2. m \in DOMAIN stack'[v] /\ stack'[v][m] = stack[v][m]
      BY <1>2, <1>3, <1>p, <2>1, <3>1
    <3> QED BY <3>1, <3>2 DEF ChildAbove
  <2> QED
    BY <1>1, <2>1, <2>2, <2>3
<1> QED
  BY <1>5, <1>6 DEF Family, ChildrenFollowed

LEMMA Family_Next == Shape /\ JobInOnePlace /\ Family /\ [Next]_vars => Family'
<1> SUFFICES ASSUME Shape, JobInOnePlace, Family, [Next]_vars PROVE Family'
  OBVIOUS
<1>1. CASE Kept
  BY <1>1, Family_Kept DEF Kept
<1>2. ASSUME NEW c \in Clients, NEW j \in TopJobs \ submitted, SubmitJob(c, j) PROVE Family'
  <2>1. /\ {j} \in SUBSET (TopJobs \ submitted) /\ submitted' = submitted \cup {j}
        /\ UNCHANGED <<stack, done>>
    BY <1>2 DEF SubmitJob
  <2>2. \A i \in Jobs \ {j} : queueOf'[i] = queueOf[i]
    BY <1>2 DEF SubmitJob, CountInQueue, Shape, Types, JobTypes
  <2> QED BY <2>1, <2>2, Family_Submit
<1>3. ASSUME NEW c \in Clients, NEW js \in Batches, SubmitJobs(c, js) PROVE Family'
  <2>1. Range(js) \in SUBSET (TopJobs \ submitted)
    BY <1>3, BatchIsSeq DEF Range
  <2>2. submitted' = submitted \cup Range(js) /\ UNCHANGED <<stack, done, queueOf>>
    BY <1>3 DEF SubmitJobs
  <2> QED BY <2>1, <2>2, Family_Submit
<1>4. ASSUME NEW w \in Workers, NEW k \in ChildJobs, SubmitNested(w, k) \/ SubmitJobsNested(w, k)
      PROVE  Family'
  BY <1>4, Family_Nested, QueueFacts
<1>5. ASSUME NEW w \in Workers, EnqueueNested(w) PROVE Family'
  BY <1>5, Family_Kept DEF EnqueueNested
<1> QED
  BY <1>1, <1>2, <1>3, <1>4, <1>5, Family_Take, Family_JobReturns, StepKinds

LEMMA FamilyInvariant == Spec => []Family
<1>1. Init => Family
  BY DEF Init, Family, ChildrenAfterStart, ChildrenFollowed
<1>2. Counted => Shape /\ JobInOnePlace
  BY DEF Counted
<1> QED
  BY <1>1, <1>2, CountedInvariant, Family_Next, PTL DEF Spec

-----------------------------------------------------------------------------
(* The refinement mapping *)

Running == {stack[w][1] : w \in {v \in Workers : stack[v] # <<>>}}
Inline == UNION {{stack[w][i] : i \in 2..Len(stack[w])} : w \in Workers}

(* The jobs that JobPool takes for new were not submitted, or are on their *)
(* way into the queue.                                                     *)
LEMMA FreshJobs ==
    ASSUME Shape, JobInOnePlace, NEW j \in Jobs,
           j \notin submitted \/ \E w \in Workers : ReservedBy(w, j)
    PROVE  j \in Pool!Fresh
<1>1. ~Queued(j) /\ j \notin done /\ \A w \in Workers : ~StackedBy(w, j)
  BY DEF JobInOnePlace, Placed, InOnePlace
<1>2. j \notin {jobQueue[i] : i \in DOMAIN jobQueue}
  BY <1>1 DEF Queued
<1>3. \A w \in Workers : stack[w] \in Seq(Jobs)
  BY DEF Shape, Types, JobTypes
<1>4. \A w \in Workers : stack[w] # <<>> => 1 \in DOMAIN stack[w]
  BY <1>3
<1>5. \A w \in Workers : \A i \in 2..Len(stack[w]) : i \in DOMAIN stack[w]
  BY <1>3
<1>6. j \notin Running /\ j \notin Inline
  BY <1>1, <1>4, <1>5 DEF StackedBy, Running, Inline
<1> QED
  BY <1>1, <1>2, <1>6 DEF Pool!Fresh, Pool!QueuedJobs, Running, Inline

LEMMA Refines_Submit ==
    ASSUME NEW n \in 1..MaxBatch, NEW js \in [1..n -> Pool!Fresh],
           \A i, k \in DOMAIN js : js[i] = js[k] => i = k,
           jobQueue' = jobQueue \o js, UNCHANGED <<stack, done>>
    PROVE  Pool!PoolNext
<1>1. js \in Pool!Batches
  BY DEF Pool!Batches
<1>2. Pool!Submit(js)
  BY DEF Pool!Submit
<1> QED
  BY <1>1, <1>2 DEF Pool!PoolNext

LEMMA Refines_SubmitOne ==
    ASSUME Shape, NEW j \in Jobs, j \in Pool!Fresh, jobQueue' = Append(jobQueue, j),
           UNCHANGED <<stack, done>>
    PROVE  Pool!PoolNext
<1>1. jobQueue' = jobQueue \o <<j>>
  BY AppendIsConcat DEF Shape, Types, PoolTypes
<1>2. <<j>> \in [1..1 -> Pool!Fresh] /\ DOMAIN <<j>> = {1}
  OBVIOUS
<1>3. 1 \in 1..MaxBatch
  BY BoundsAssumption
<1> QED
  BY <1>1, <1>2, <1>3, Refines_Submit

LEMMA Refines_Push ==
    ASSUME Shape, NEW w \in Workers, NEW k \in Jobs, k \in Pool!Fresh, stack[w] # <<>>,
           stack' = [stack EXCEPT ![w] = Append(@, k)], UNCHANGED <<jobQueue, done>>
    PROVE  Pool!PoolNext
<1>m. PICK m : m = Len(stack[w])
  OBVIOUS
<1>1. /\ stack[w] \in Seq(Jobs) /\ stack'[w] = Append(stack[w], k) /\ m \in Nat \ {0}
      /\ Len(stack'[w]) = m + 1 /\ stack'[w] # <<>>
      /\ \A i \in 1..m : stack'[w][i] = stack[w][i]
      /\ stack'[w][m + 1] = k /\ \A v \in Workers \ {w} : stack'[v] = stack[v]
  BY <1>m, AppendProperties DEF Shape, Types, JobTypes
<1>2. /\ 1 \in 1..m /\ \A i \in 2..m : i \in 1..m /\ i \in 2..m + 1
      /\ \A i \in 2..m + 1 : i \in 2..m \/ i = m + 1
      /\ m + 1 \in 2..m + 1
  BY <1>1
<1>3. Running' = Running
  BY <1>1, <1>2 DEF Running
<1>4. Inline' = Inline \cup {k}
  <2>1. ASSUME NEW j PROVE j \in Inline' <=> j \in Inline \/ j = k
    <3>1. j \in Inline' => j \in Inline \/ j = k
      BY <1>1, <1>2, <1>m DEF Inline
    <3>2. k \in Inline'
      BY <1>1, <1>2 DEF Inline
    <3>3. j \in Inline => j \in Inline'
      BY <1>1, <1>2, <1>m DEF Inline
    <3> QED BY <3>1, <3>2, <3>3
  <2> QED BY <2>1
<1>5. Pool!RunInline(k)
  BY <1>3, <1>4 DEF Pool!RunInline, Running, Inline
<1> QED
  BY <1>5 DEF Pool!PoolNext

LEMMA PoolCardinality == \A S : Pool!Cardinality(S) = Cardinality(S)
BY DEF Pool!Cardinality, Cardinality

LEMMA Refines_Take ==
    ASSUME Shape, NEW w \in Workers, TakesJob(w)
    PROVE  Pool!PoolNext
<1>h. PICK h : h = Head(jobQueue)
  OBVIOUS
<1>1. /\ stack \in [Workers -> Seq(Jobs)] /\ stack[w] = <<>> /\ jobQueue # <<>>
      /\ jobQueue' = Tail(jobQueue) /\ UNCHANGED done
      /\ stack'[w] = <<h>> /\ \A v \in Workers \ {w} : stack'[v] = stack[v]
  BY <1>h DEF TakesJob, Shape, Types, JobTypes
<1>2. Running' = Running \cup {h}
  <2>1. stack'[w] # <<>> /\ stack'[w][1] = h
    BY <1>1
  <2>2. \A v \in Workers : stack'[v] # <<>> <=> stack[v] # <<>> \/ v = w
    BY <1>1, <2>1
  <2>3. \A v \in Workers : stack[v] # <<>> => stack'[v][1] = stack[v][1]
    BY <1>1
  <2>4. \A j : j \in Running' <=> j \in Running \/ j = h
    BY <2>1, <2>2, <2>3 DEF Running
  <2> QED BY <2>4
<1>3. Inline' = Inline
  <2>1. \A i \in 2..Len(stack[w]) : FALSE
    BY <1>1
  <2>2. \A i \in 2..Len(stack'[w]) : FALSE
    BY <1>1
  <2>3. ASSUME NEW j PROVE j \in Inline' <=> j \in Inline
    <3>1. /\ j \in Inline <=> \E v \in Workers : \E i \in 2..Len(stack[v]) :
                                 j = stack[v][i]
          /\ j \in Inline' <=> \E v \in Workers : \E i \in 2..Len(stack'[v]) :
                                  j = stack'[v][i]
      BY DEF Inline
    <3>2. \A v \in Workers : \A i \in 2..Len(stack'[v]) :
             v # w /\ stack'[v] = stack[v]
      BY <1>1, <2>2
    <3>3. \A v \in Workers : \A i \in 2..Len(stack[v]) :
             v # w /\ stack'[v] = stack[v]
      BY <1>1, <2>1
    <3> QED BY <3>1, <3>2, <3>3
  <2> QED BY <2>3
<1>4. Cardinality(Running) < NThreads
  <2>s. PICK S : S = {v \in Workers : stack[v] # <<>>}
    OBVIOUS
  <2>1. /\ IsFiniteSet(Workers \ {w}) /\ Cardinality(Workers \ {w}) = NThreads - 1
    BY FiniteWorkers, FS_RemoveElement
  <2>2. S \subseteq Workers \ {w}
    BY <1>1, <2>s
  <2>3. IsFiniteSet(S) /\ Cardinality(S) <= NThreads - 1
    BY <2>1, <2>2, FS_Subset
  <2> DEFINE f == [v \in S |-> stack[v][1]]
  <2>4. f \in Surjection(S, Running)
    <3>1. Running = {stack[v][1] : v \in S}
      BY <2>s DEF Running
    <3> QED BY <3>1 DEF Surjection
  <2> HIDE DEF f
  <2>5. IsFiniteSet(Running) /\ Cardinality(Running) <= Cardinality(S)
    BY <2>3, <2>4, FS_Surjection
  <2>6. Cardinality(Running) \in Nat /\ Cardinality(S) \in Nat
    BY <2>3, <2>5, FS_CardinalityType
  <2> QED BY <2>3, <2>5, <2>6, ThreadsAssumption
<1>5. Pool!Take
  BY <1>1, <1>2, <1>3, <1>4, <1>h, PoolCardinality DEF Pool!Take, Running, Inline
<1> QED
  BY <1>5 DEF Pool!PoolNext

LEMMA Refines_Return ==
    ASSUME Counted, Family, NEW w \in Workers, JobReturns(w)
    PROVE  Pool!PoolNext
<1>0. Shape /\ JobInOnePlace /\ QueuePending
  BY DEF Counted
<1>n. PICK n : n = Len(stack[w])
  OBVIOUS
<1>p. PICK p : p = stack[w][n]
  OBVIOUS
<1>1. /\ done' = done \cup {p} /\ stack' = [stack EXCEPT ![w] = Front(@)]
      /\ stack[w] # <<>> /\ UNCHANGED jobQueue
      /\ Children[p] \subseteq submitted /\ QueueEmpty(p)
  BY <1>0, <1>n, <1>p DEF JobReturns, CurrentJob, Last, InJob, Shape, Control, WorkerControl,
     Busy, poolState
<1>2. /\ \A v \in Workers \ {w} : stack'[v] = stack[v]
      /\ n \in Nat \ {0} /\ DOMAIN stack[w] = 1..n /\ DOMAIN stack'[w] = 1..n - 1
      /\ \A i \in 1..n - 1 : stack'[w][i] = stack[w][i]
  BY <1>0, <1>1, <1>n, Popped
<1>3. /\ stack \in [Workers -> Seq(Jobs)] /\ n \in DOMAIN stack[w] /\ p \in Jobs
  BY <1>0, <1>2, <1>p DEF Shape, Types, JobTypes
<1>4. Children[p] \subseteq done
  <2> SUFFICES ASSUME NEW k \in Children[p], k \notin done PROVE FALSE
    OBVIOUS
  <2>1. k \in submitted \ done
    BY <1>1
  <2>2. queueOf[k] = p \/ ChildAbove(w, n, k)
    BY <1>3, <1>p, <2>1 DEF Family, ChildrenFollowed
  <2>3. ~ChildAbove(w, n, k)
    BY <1>2 DEF ChildAbove
  <2>4. p \in Parents /\ p \in Queues
    BY <1>3 DEF Parents, Queues
  <2>5. Cardinality(PendingIn(p)) = 0
    BY <1>0, <1>1, <2>4 DEF QueueEmpty, QueuePending
  <2>6. PendingIn(p) = {}
    BY <1>0, <2>5, PendingFinite, FS_EmptySet
  <2> QED
    BY <2>1, <2>2, <2>3, <2>6 DEF PendingIn
<1>5. /\ \A v \in Workers \ {w} : ~StackedBy(v, p)
      /\ \A i \in 1..n - 1 : stack[w][i] # p
  <2>1. StackedBy(w, p)
    BY <1>3, <1>p DEF StackedBy
  <2>2. \A i \in 1..n - 1 : i \in 1..n /\ i # n
    BY <1>2
  <2> QED
    BY <1>0, <1>2, <1>3, <1>p, <2>1, <2>2 DEF JobInOnePlace, InOnePlace, NoRepeats
<1>6. ASSUME NEW v \in Workers \ {w}
      PROVE  /\ stack'[v] = stack[v] /\ Len(stack'[v]) = Len(stack[v])
             /\ stack[v] # <<>> => stack[v][1] # p
             /\ \A i \in 2..Len(stack[v]) : stack[v][i] # p
  <2>1. stack[v] \in Seq(Jobs) /\ \A i \in DOMAIN stack[v] : stack[v][i] # p
    BY <1>3, <1>5 DEF StackedBy
  <2>2. stack[v] # <<>> => 1 \in DOMAIN stack[v]
    BY <2>1
  <2>3. \A i \in 2..Len(stack[v]) : i \in DOMAIN stack[v]
    BY <2>1
  <2> QED BY <1>2, <2>1, <2>2, <2>3
<1>7. Len(stack'[w]) = n - 1 /\ Len(stack[w]) = n /\ stack'[w] \in Seq(Jobs)
  <2>1. stack'[w] \in Seq(Jobs)
    <3>1. stack'[w] = SubSeq(stack[w], 1, n - 1)
      BY <1>1, <1>3, <1>n DEF Front
    <3>2. stack[w] \in Seq(Jobs) /\ \A i \in 1..n - 1 : stack[w][i] \in Jobs
      BY <1>2, <1>3
    <3> QED BY <1>2, <3>1, <3>2, SubSeqProperties
  <2> QED BY <1>2, <1>n, <2>1
<1>8. Running' = Running \ {p}
  <2>1. CASE n = 1
    <3>1. stack'[w] = <<>> /\ stack[w][1] = p /\ stack[w] # <<>>
      BY <1>1, <1>7, <1>p, <2>1
    <3> QED BY <1>6, <3>1 DEF Running
  <2>2. CASE n # 1
    <3>1. 1 \in 1..n - 1
      BY <1>2, <2>2
    <3>2. stack'[w] # <<>> /\ stack[w] # <<>> /\ stack'[w][1] = stack[w][1] /\ stack[w][1] # p
      BY <1>1, <1>2, <1>5, <3>1
    <3> QED BY <1>6, <3>2 DEF Running
  <2> QED BY <2>1, <2>2
<1>9. Inline' = Inline \ {p}
  <2>1. /\ \A i \in 2..n : i \in 2..n - 1 \/ i = n
        /\ \A i \in 2..n - 1 : i \in 2..n /\ i \in 1..n - 1
    BY <1>2
  <2>2. ASSUME NEW j, j \in Inline' PROVE j \in Inline \ {p}
    <3>1. PICK v \in Workers : \E i \in 2..Len(stack'[v]) : j = stack'[v][i]
      BY <2>2 DEF Inline
    <3>2. CASE v = w
      <4>1. PICK i \in 2..n - 1 : j = stack'[w][i]
        BY <1>7, <3>1, <3>2
      <4>2. i \in 2..Len(stack[w]) /\ j = stack[w][i] /\ j # p
        BY <1>2, <1>5, <1>7, <2>1, <4>1
      <4> QED BY <4>2 DEF Inline
    <3>3. CASE v # w
      BY <1>6, <3>1, <3>3 DEF Inline
    <3> QED BY <3>2, <3>3
  <2>3. ASSUME NEW j, j \in Inline \ {p} PROVE j \in Inline'
    <3>1. PICK v \in Workers : \E i \in 2..Len(stack[v]) : j = stack[v][i]
      BY <2>3 DEF Inline
    <3>2. CASE v = w
      BY <1>2, <1>7, <1>p, <2>1, <2>3, <3>1, <3>2 DEF Inline
    <3>3. CASE v # w
      BY <1>6, <3>1, <3>3 DEF Inline
    <3> QED BY <3>2, <3>3
  <2> QED BY <2>2, <2>3
<1>10. p \in Running \cup Inline
  <2>1. CASE n = 1
    BY <1>1, <1>p, <2>1 DEF Running
  <2>2. CASE n # 1
    <3>1. n \in 2..n
      BY <1>2, <2>2
    <3> QED BY <1>7, <1>p, <3>1 DEF Inline
  <2> QED BY <2>1, <2>2
<1>11. Pool!Finish(p)
  BY <1>1, <1>4, <1>8, <1>9, <1>10 DEF Pool!Finish, Running, Inline
<1> QED
  BY <1>10, <1>11 DEF Pool!PoolNext, Running, Inline

LEMMA Refines_Next ==
    ASSUME Counted, Family, [Next]_vars
    PROVE  [Pool!PoolNext]_(Pool!poolVars)
<1>0. Shape /\ JobInOnePlace
  BY DEF Counted
<1>1. CASE UNCHANGED <<jobQueue, stack, done>>
  BY <1>1 DEF Pool!poolVars
<1>2. ASSUME NEW c \in Clients, NEW j \in TopJobs \ submitted, SubmitJob(c, j)
      PROVE  Pool!PoolNext
  <2>1. j \in Jobs /\ j \in Pool!Fresh
    BY <1>0, FreshJobs, QueueFacts
  <2> QED
    BY <1>0, <1>2, <2>1, Refines_SubmitOne DEF SubmitJob, Enqueue
<1>3. ASSUME NEW c \in Clients, NEW js \in Batches, SubmitJobs(c, js)
      PROVE  Pool!PoolNext
  <2>n. PICK n : n = Len(js)
    OBVIOUS
  <2>1. /\ js \in Seq(Jobs) /\ n \in Nat \ {0} /\ n <= MaxBatch /\ DOMAIN js = 1..n
        /\ \A i \in DOMAIN js : js[i] \in Jobs \ submitted
        /\ \A i, k \in DOMAIN js : js[i] = js[k] => i = k
    BY <2>n, BatchIsSeq, QueueFacts
  <2>2. \A i \in 1..n : js[i] \in Pool!Fresh
    BY <1>0, <2>1, FreshJobs
  <2>3. js \in [1..n -> Pool!Fresh] /\ n \in 1..MaxBatch
    BY <2>1, <2>2, BoundsAssumption
  <2>4. jobQueue' = jobQueue \o js /\ UNCHANGED <<stack, done>>
    BY <1>3 DEF SubmitJobs
  <2> QED
    BY <2>1, <2>3, <2>4, Refines_Submit
<1>4. ASSUME NEW w \in Workers, NEW k \in ChildJobs,
             SubmitNested(w, k) \/ SubmitJobsNested(w, k),
             ~UNCHANGED <<jobQueue, stack, done>>
      PROVE  Pool!PoolNext
  <2>1. /\ stack' = [stack EXCEPT ![w] = Append(@, k)] /\ UNCHANGED <<jobQueue, done>>
        /\ k \notin submitted /\ pc[w] = "run"
    BY <1>4 DEF SubmitNested, SubmitJobsNested, InJob, poolState
  <2>2. stack[w] # <<>>
    BY <1>0, <2>1 DEF Shape, Control, WorkerControl, Busy
  <2>3. k \in Jobs /\ k \in Pool!Fresh
    BY <1>0, <2>1, FreshJobs, QueueFacts
  <2> QED
    BY <1>0, <2>1, <2>2, <2>3, Refines_Push
<1>5. ASSUME NEW w \in Workers, EnqueueNested(w) PROVE Pool!PoolNext
  <2>1. reserved[w] \in Jobs
    BY <1>0, <1>5 DEF EnqueueNested, Shape, Control, WorkerControl, Types, JobTypes
  <2>2. reserved[w] \in Pool!Fresh
    BY <1>0, <2>1, FreshJobs DEF ReservedBy
  <2> QED
    BY <1>0, <1>5, <2>1, <2>2, Refines_SubmitOne DEF EnqueueNested, Enqueue
<1> QED
  BY <1>0, <1>1, <1>2, <1>3, <1>4, <1>5, Refines_Take, Refines_Return, StepKinds DEF Kept

(* CPLWorkerThreadPool does what its users rely on, whatever its threads   *)
(* do and whichever of them cannot be created: a job is given to a worker  *)
(* or run by its submitter once, jobs leave the queue in the order they    *)
(* came in, no more than NThreads run at a time, and a job that submitted  *)
(* jobs through a CPLJobQueue of its own returns after all of them.  What  *)
(* JobPool says of progress is left to model checking.                     *)
THEOREM PoolRefinesJobPool == Spec => Pool!PoolSafety
<1>1. Init => Pool!PoolInit
  BY DEF Init, Pool!PoolInit
<1>2. Counted /\ Family /\ [Next]_vars => [Pool!PoolNext]_(Pool!poolVars)
  BY Refines_Next
<1> QED
  BY <1>1, <1>2, CountedInvariant, FamilyInvariant, PTL DEF Spec, Pool!PoolSafety

-----------------------------------------------------------------------------
(* The order in which mutexes are taken *)

(* Whoever is about to lock the mutex of a worker holds m_mutex and has    *)
(* taken off the list a worker that sleeps; until the destructor wakes     *)
(* everybody up, a worker in the list is about to sleep or asleep.         *)
Stopping == \E c \in Clients : pc[c] \in AfterWait
NotifiesSleeper(t) ==
    pc[t] = "notify" =>
        /\ m_mutex = t
        /\ pc[target[t]] = "asleep" /\ ~bMarkedAsWaiting[target[t]]
ListedSleeps(w) ==
    /\ pc[w] = "lockOwn" => m_mutex = w
    /\ bMarkedAsWaiting[w] /\ ~Stopping => pc[w] \in {"lockOwn", "asleep"}
LockOrder ==
    /\ \A t \in Threads : NotifiesSleeper(t)
    /\ \A w \in Workers : ListedSleeps(w)

(* A step in which t gets nearer to no lock. *)
KeepsClear(t) ==
    /\ \/ pc'[t] = pc[t]
       \/ /\ pc[t] \notin {"lockOwn", "asleep", "notify"}
          /\ pc'[t] \notin {"lockOwn", "notify"}
    /\ pc[t] = "notify" => target'[t] = target[t]
    /\ pc[t] \in AfterWait => pc'[t] \in AfterWait

LEMMA TargetIsWorker ==
    ASSUME Shape, NEW t \in Threads, pc[t] = "notify"
    PROVE  target[t] \in Workers /\ target[t] \in Threads /\ target[t] \in 1..aWT
BY DEF Shape, Control, ClientControl, WorkerControl, Types, PoolTypes, Threads, Workers

LEMMA Order_Kept ==
    ASSUME Shape, LockOrder, UNCHANGED <<m_mutex, bMarkedAsWaiting>>,
           \A t \in Threads : KeepsClear(t)
    PROVE  LockOrder'
<1>1. ASSUME NEW t \in Threads PROVE NotifiesSleeper(t)'
  <2> SUFFICES ASSUME pc'[t] = "notify"
               PROVE  /\ m_mutex' = t
                      /\ pc'[target'[t]] = "asleep" /\ ~bMarkedAsWaiting'[target'[t]]
    BY DEF NotifiesSleeper
  <2>1. pc[t] = "notify" /\ target'[t] = target[t]
    BY DEF KeepsClear
  <2>2. m_mutex = t /\ pc[target[t]] = "asleep" /\ ~bMarkedAsWaiting[target[t]]
    BY <2>1 DEF LockOrder, NotifiesSleeper
  <2>3. pc'[target[t]] = pc[target[t]]
    BY <2>1, <2>2, TargetIsWorker DEF KeepsClear
  <2> QED BY <2>1, <2>2, <2>3
<1>2. Stopping => Stopping'
  BY DEF Stopping, KeepsClear, Threads
<1>3. ASSUME NEW w \in Workers PROVE ListedSleeps(w)'
  <2>1. ListedSleeps(w) /\ KeepsClear(w)
    BY DEF LockOrder, Threads
  <2> QED BY <1>2, <2>1 DEF ListedSleeps, KeepsClear
<1> QED
  BY <1>1, <1>3 DEF LockOrder

(* m_mutex is free: nobody is about to lock the mutex of a worker. *)
LEMMA Order_Free ==
    ASSUME LockOrder, PoolFree
    PROVE  /\ \A t \in Threads : pc[t] # "notify"
           /\ \A w \in Workers : pc[w] # "lockOwn"
BY DEF LockOrder, NotifiesSleeper, ListedSleeps, PoolFree, Threads

LEMMA StoppedIsQuiet ==
    ASSUME Shape, PoolPending, DestructorAlone, Stopping
    PROVE  \A t \in Threads : pc[t] \notin {"notify", "reserved", "batch"}
<1>1. PICK c \in Clients : pc[c] \in AfterWait
  BY DEF Stopping
<1>2. nPendingJobs <= 0 /\ nPendingJobs \in Int /\ \A d \in Clients \ {c} : pc[d] = "idle"
  BY <1>1 DEF DestructorAlone, Shape, Types, PoolTypes
<1>3. \A w \in Workers : pc[w] \notin {"notify", "reserved"}
  BY <1>2, BusyIsPending DEF Busy
<1>4. \A w \in Workers : pc[w] # "batch"
  BY DEF Shape, Control, WorkerControl, WorkerPcs
<1> QED
  BY <1>1, <1>2, <1>3, <1>4 DEF AfterWait, Threads

LEMMA Order_Pop ==
    ASSUME Shape, ListExact, LockOrder, ~Stopping, PoolFree,
           NEW t \in Threads, pc[t] \in {"idle", "batch", "reserved"},
           NEW f \in [Threads -> Pcs], NEW n \in Int,
           \A u \in Threads \ {t} :
              \/ f[u] = pc[u]
              \/ u \in Workers /\ u > aWT /\ f[u] = "next",
           psWaitingWorkerThreadsList # <<>>, PopWaitingWorker(t, f, n)
    PROVE  LockOrder'
<1>1. PICK h : h = Head(psWaitingWorkerThreadsList)
  OBVIOUS
<1>2. /\ h \in Workers /\ h \in Threads /\ h <= aWT /\ h \in Nat /\ aWT \in Nat
      /\ bMarkedAsWaiting[h]
  <2>1. /\ psWaitingWorkerThreadsList \in Seq(Workers)
        /\ 1 \in DOMAIN psWaitingWorkerThreadsList /\ h = psWaitingWorkerThreadsList[1]
    BY <1>1 DEF Shape, Types, WaitingTypes
  <2>2. h \in Range(psWaitingWorkerThreadsList)
    BY <2>1 DEF Range
  <2> QED
    BY <2>1, <2>2 DEF ListExact, Marked, Shape, Control, Types, PoolTypes, Threads, Workers
<1>3. pc[h] = "asleep" /\ h # t
  BY <1>2, Order_Free DEF LockOrder, ListedSleeps
<1>4. /\ bMarkedAsWaiting' = [bMarkedAsWaiting EXCEPT ![h] = FALSE]
      /\ target' = [target EXCEPT ![t] = h] /\ m_mutex' = t
      /\ pc' = [f EXCEPT ![t] = "notify"]
  BY <1>1 DEF PopWaitingWorker
<1>5. /\ pc'[t] = "notify" /\ target'[t] = h /\ pc'[h] = "asleep"
      /\ ~bMarkedAsWaiting'[h]
      /\ \A u \in Threads \ {t} : pc'[u] = f[u]
      /\ \A w \in Workers : bMarkedAsWaiting'[w] => bMarkedAsWaiting[w]
  BY <1>2, <1>3, <1>4 DEF Shape, Types, WaitingTypes, ThreadTypes
<1>6. ASSUME NEW u \in Threads PROVE NotifiesSleeper(u)'
  BY <1>4, <1>5, Order_Free DEF NotifiesSleeper
<1>7. ASSUME NEW w \in Workers PROVE ListedSleeps(w)'
  <2>1. CASE w = t
    <3>1. ~bMarkedAsWaiting[w]
      BY <2>1 DEF LockOrder, ListedSleeps
    <3> QED BY <1>5, <2>1, <3>1 DEF ListedSleeps
  <2>2. CASE w # t
    <3>1. w \in Threads \ {t} /\ w \in Nat
      BY <2>2 DEF Threads, Workers
    <3>2. pc'[w] # "lockOwn"
      BY <1>5, <3>1, Order_Free
    <3>3. bMarkedAsWaiting'[w] => pc[w] = "asleep" /\ w <= aWT
      BY <1>5, Order_Free DEF LockOrder, ListedSleeps, Shape, Control, WorkerControl
    <3>4. bMarkedAsWaiting'[w] => pc'[w] = "asleep"
      BY <1>2, <1>5, <3>1, <3>3
    <3> QED BY <3>2, <3>4 DEF ListedSleeps
  <2> QED BY <2>1, <2>2
<1> QED
  BY <1>6, <1>7 DEF LockOrder

(* pc after new workers have been started. *)
LEMMA StartedMoves ==
    ASSUME Shape, NEW k \in Nat
    PROVE  /\ Started(pc, k) \in [Threads -> Pcs]
           /\ \A u \in Threads :
                 \/ Started(pc, k)[u] = pc[u]
                 \/ /\ u \in Workers /\ u > aWT
                    /\ Started(pc, k)[u] = "next" /\ pc[u] = "none"
<1>1. pc \in [Threads -> Pcs] /\ aWT \in Nat
  BY DEF Shape, Types, ThreadTypes, PoolTypes
<1>2. \A w \in Workers : w > aWT => pc[w] = "none"
  BY DEF Shape, Control, WorkerControl
<1> QED
  BY <1>1, <1>2, StartedFrame DEF Threads, Workers

LEMMA Order_Enqueue ==
    ASSUME Shape, Shape', ListExact, LockOrder, ~Stopping, PoolFree,
           NEW t \in Threads, pc[t] \in {"idle", "reserved"},
           NEW j \in Jobs, NEW n \in Int, Enqueue(t, j, n)
    PROVE  LockOrder'
<1>1. aWT' \in Nat
  BY DEF Shape, Types, PoolTypes
<1>2. CASE WakesWorker
  BY <1>1, <1>2, StartedMoves, Order_Pop DEF Enqueue, WakesWorker
<1>3. CASE ~WakesWorker
  <2>1. /\ pc' = [Started(pc, aWT') EXCEPT ![t] = IF t \in Workers THEN "run" ELSE "idle"]
        /\ UNCHANGED <<m_mutex, bMarkedAsWaiting, target>>
    BY <1>3 DEF Enqueue
  <2>2. ASSUME NEW u \in Threads PROVE KeepsClear(u)
    BY <1>1, <2>1, StartedMoves DEF KeepsClear, AfterWait
  <2> QED BY <2>1, <2>2, Order_Kept
<1> QED
  BY <1>2, <1>3

LEMMA Order_Notify ==
    ASSUME Shape, LockOrder, NEW t \in Threads, Notify(t)
    PROVE  LockOrder'
<1>1. PICK h : h = target[t]
  OBVIOUS
<1>2. /\ h \in Workers /\ h \in Threads /\ pc[t] = "notify" /\ m_mutex = t
      /\ pc[h] = "asleep" /\ ~bMarkedAsWaiting[h] /\ h # t
  BY <1>1, TargetIsWorker DEF LockOrder, NotifiesSleeper, Notify
<1>3. /\ pc'[t] \in {"run", "batch", "idle"} /\ pc'[h] = "woken"
      /\ \A u \in Threads \ {t, h} : pc'[u] = pc[u]
      /\ UNCHANGED bMarkedAsWaiting
  BY <1>1, <1>2 DEF Notify, Shape, Types, ThreadTypes, poolState
<1>4. \A u \in Threads : pc'[u] # "notify"
  BY <1>2, <1>3 DEF LockOrder, NotifiesSleeper
<1>5. Stopping => Stopping'
  BY <1>2, <1>3 DEF Stopping, AfterWait, Threads
<1>6. ASSUME NEW w \in Workers PROVE ListedSleeps(w)'
  <2>1. ListedSleeps(w) /\ w \in Threads
    BY DEF LockOrder, Threads
  <2> QED BY <1>2, <1>3, <1>5, <2>1 DEF ListedSleeps
<1> QED
  BY <1>4, <1>6 DEF LockOrder, NotifiesSleeper

LEMMA Order_GetNextJob ==
    ASSUME Shape, LockOrder, NEW w \in Workers, GetNextJob(w)
    PROVE  LockOrder'
<1>1. pc[w] \in {"next", "relock"} /\ PoolFree /\ w \in Threads /\ UNCHANGED target
  BY DEF GetNextJob, Threads
<1>2. CASE /\ pc' = [pc EXCEPT ![w] = "exit"] \/ pc' = [pc EXCEPT ![w] = "run"]
           /\ UNCHANGED <<m_mutex, bMarkedAsWaiting>>
  <2>1. ASSUME NEW u \in Threads PROVE KeepsClear(u)
    BY <1>1, <1>2 DEF KeepsClear, AfterWait, Shape, Types, ThreadTypes
  <2> QED BY <1>2, <2>1, Order_Kept
<1>3. CASE MarkAsWaiting(w) /\ pc' \in NotifyOne([pc EXCEPT ![w] = "lockOwn"]) /\ m_mutex' = w
  <2> DEFINE f == [pc EXCEPT ![w] = "lockOwn"]
  <2>1. f \in [Threads -> Pcs] /\ f[w] = "lockOwn" /\ \A u \in Threads \ {w} : f[u] = pc[u]
    BY <1>1 DEF Shape, Types, ThreadTypes, Pcs, WorkerPcs
  <2>2. \A u \in Threads : \/ pc'[u] = f[u]
                           \/ u \in Clients /\ f[u] = "cv" /\ pc'[u] = "cvWoken"
    BY <1>3, <2>1, NotifyOneFrame
  <2>3. /\ pc'[w] = "lockOwn"
        /\ \A v \in Workers \ {w} : pc'[v] = pc[v]
        /\ \A c \in Clients : pc'[c] = pc[c] \/ (pc[c] = "cv" /\ pc'[c] = "cvWoken")
    BY <2>1, <2>2 DEF Threads
  <2>4. \A v \in Workers \ {w} : bMarkedAsWaiting'[v] = bMarkedAsWaiting[v]
    BY <1>3, MarkFrame DEF Shape, Types
  <2>5. \A u \in Threads : pc'[u] # "notify"
    BY <1>1, <2>3, Order_Free DEF Threads
  <2>6. Stopping => Stopping'
    BY <2>3 DEF Stopping, AfterWait
  <2>7. ASSUME NEW v \in Workers PROVE ListedSleeps(v)'
    <3>1. ListedSleeps(v)
      BY DEF LockOrder
    <3> QED BY <1>1, <1>3, <2>3, <2>4, <2>6, <3>1, Order_Free DEF ListedSleeps
  <2> QED BY <2>5, <2>7 DEF LockOrder, NotifiesSleeper
<1> QED
  BY <1>2, <1>3 DEF GetNextJob

LEMMA Order_FallAsleep ==
    ASSUME Shape, LockOrder, NEW w \in Workers, FallAsleep(w)
    PROVE  LockOrder'
<1>1. /\ pc[w] = "lockOwn" /\ m_mutex = w /\ w \in Threads
      /\ \A u \in Threads \ {w} : pc'[u] = pc[u]
      /\ pc'[w] = "asleep" /\ UNCHANGED <<bMarkedAsWaiting, target>>
  BY DEF FallAsleep, LockOrder, ListedSleeps, Threads, Shape, Types, ThreadTypes, poolState
<1>2. \A u \in Threads : pc'[u] # "notify"
  BY <1>1 DEF LockOrder, NotifiesSleeper
<1>3. Stopping => Stopping'
  BY <1>1 DEF Stopping, AfterWait, Threads
<1>4. ASSUME NEW v \in Workers PROVE ListedSleeps(v)'
  <2>1. ListedSleeps(v) /\ v \in Threads
    BY DEF LockOrder, Threads
  <2> QED BY <1>1, <1>3, <2>1 DEF ListedSleeps
<1> QED
  BY <1>2, <1>4 DEF LockOrder, NotifiesSleeper

(* The destructor wakes up workers in the list, when nobody can submit. *)
LEMMA Order_NotifyStop ==
    ASSUME Shape, PoolPending, DestructorAlone, LockOrder, NEW c \in Clients, NotifyStop(c)
    PROVE  LockOrder'
<1>1. Stopping /\ c \in Threads /\ pc[c] = "join"
  BY DEF NotifyStop, Stopping, AfterWait, Threads
<1>2. target[c] \in Workers /\ target[c] \in Threads /\ target[c] # c
  BY DEF NotifyStop, Shape, Control, ClientControl, Types, PoolTypes, Workers, Threads
<1>3. /\ pc'[c] = "joining" /\ UNCHANGED m_mutex
      /\ pc'[target[c]] \in {pc[target[c]], "woken"}
      /\ \A u \in Threads \ {c, target[c]} : pc'[u] = pc[u]
  BY <1>1, <1>2 DEF NotifyStop, Shape, Types, ThreadTypes
<1>4. \A u \in Threads : pc'[u] # "notify"
  BY <1>1, <1>2, <1>3, StoppedIsQuiet
<1>5. Stopping'
  BY <1>3 DEF Stopping, AfterWait
<1>6. ASSUME NEW v \in Workers PROVE ListedSleeps(v)'
  <2>1. ListedSleeps(v) /\ v \in Threads /\ v # c
    BY DEF LockOrder, Threads
  <2> QED BY <1>2, <1>3, <1>5, <2>1 DEF ListedSleeps
<1> QED
  BY <1>4, <1>6 DEF LockOrder, NotifiesSleeper

LEMMA Order_ClientStep ==
    ASSUME Shape, PoolPending, DestructorAlone, ListExact, LockOrder,
           NEW c \in Clients, ClientStep(c)
    PROVE  LockOrder'
<1>0. /\ pc \in [Threads -> Pcs] /\ target \in [Threads -> 0..NThreads + 1]
      /\ c \in Threads /\ nWaitingWorkerThreads \in Int
  BY DEF Shape, Types, ThreadTypes, WaitingTypes, Threads
<1>1. CASE BatchNext(c)
  <2>1. pc[c] = "batch" /\ PoolFree /\ ~Stopping
    BY <1>0, <1>1, StoppedIsQuiet DEF BatchNext
  <2>2. CASE psWaitingWorkerThreadsList # <<>> /\ PopWaitingWorker(c, pc, nWaitingWorkerThreads)
    BY <1>0, <2>1, <2>2, Order_Pop
  <2>3. CASE pc' = [pc EXCEPT ![c] = "idle"] /\ UNCHANGED <<m_mutex, bMarkedAsWaiting, target>>
    <3>1. ASSUME NEW u \in Threads PROVE KeepsClear(u)
      BY <1>0, <2>1, <2>3 DEF KeepsClear, AfterWait
    <3> QED BY <2>3, <3>1, Order_Kept
  <2> QED BY <1>1, <2>2, <2>3 DEF BatchNext
<1>2. CASE WaitAgain(c) \/ QueueWaitAgain(c)
  <2>1. ASSUME NEW u \in Threads PROVE KeepsClear(u)
    BY <1>0, <1>2 DEF WaitAgain, QueueWaitAgain, WaitOnPool, WaitOnQueue, KeepsClear, AfterWait
  <2>2. UNCHANGED <<m_mutex, bMarkedAsWaiting>>
    BY <1>2 DEF WaitAgain, QueueWaitAgain, WaitOnPool, WaitOnQueue, poolState
  <2> QED BY <2>1, <2>2, Order_Kept
<1>3. CASE Stop(c) \/ Join(c) \/ Destroyed(c)
  <2>1. ASSUME NEW u \in Threads PROVE KeepsClear(u)
    BY <1>0, <1>3 DEF Stop, Join, Destroyed, KeepsClear, AfterWait
  <2>2. UNCHANGED <<m_mutex, bMarkedAsWaiting>>
    BY <1>3 DEF Stop, Join, Destroyed, poolState
  <2> QED BY <2>1, <2>2, Order_Kept
<1> QED
  BY <1>0, <1>1, <1>2, <1>3, Order_Notify, Order_NotifyStop DEF ClientStep

LEMMA Order_ClientCall ==
    ASSUME Shape, Shape', DestructorAlone, ListExact, LockOrder,
           NEW c \in Clients, ClientCall(c)
    PROVE  LockOrder'
<1>0. /\ pc \in [Threads -> Pcs] /\ target \in [Threads -> 0..NThreads + 1]
      /\ c \in Threads /\ nWaitingWorkerThreads \in Int
  BY DEF Shape, Types, ThreadTypes, WaitingTypes, Threads
<1>1. Idle(c)
  BY DEF ClientCall, GDALGetGlobalThreadPool, SetupLazy, Setup, SubmitJob,
     SubmitJobs, WaitCompletion, WaitEvent, QueueWaitCompletion, QueueWaitEvent, Destroy
<1>2. pc[c] = "idle" /\ ~Stopping
  BY <1>1, Usable_None DEF Idle, Stopping, DestructorAlone
<1>3. ASSUME NEW n \in 1..NThreads, GDALGetGlobalThreadPool(c, n) PROVE LockOrder'
  <2>1. UNCHANGED <<pc, target, m_mutex, bMarkedAsWaiting>>
    BY <1>3 DEF GDALGetGlobalThreadPool, SetupLazy
  <2>2. ASSUME NEW u \in Threads PROVE KeepsClear(u)
    BY <2>1 DEF KeepsClear
  <2> QED BY <2>1, <2>2, Order_Kept
<1>4. ASSUME NEW n \in 1..NThreads, Setup(c, n) PROVE LockOrder'
  <2>1. PICK k \in 0..n : pc' = [Started(pc, k) EXCEPT ![c] = "cvWoken"]
    BY <1>4 DEF Setup
  <2>2. UNCHANGED <<target, m_mutex, bMarkedAsWaiting>>
    BY <1>4 DEF Setup
  <2>3. ASSUME NEW u \in Threads PROVE KeepsClear(u)
    BY <1>2, <2>1, <2>2, StartedMoves DEF KeepsClear, AfterWait
  <2> QED BY <2>2, <2>3, Order_Kept
<1>5. ASSUME NEW j \in Jobs, SubmitJob(c, j) PROVE LockOrder'
  BY <1>0, <1>2, <1>5, Order_Enqueue DEF SubmitJob
<1>6. ASSUME NEW js \in Batches, SubmitJobs(c, js) PROVE LockOrder'
  <2>1. aWT' \in Nat /\ PoolFree
    BY <1>6 DEF SubmitJobs, Shape, Types, PoolTypes
  <2>2. CASE WakesWorker
    <3>1. PopWaitingWorker(c, Started(pc, aWT'), nWaitingWorkerThreads)
      BY <1>6, <2>2 DEF SubmitJobs
    <3> QED BY <1>0, <1>2, <2>1, <2>2, <3>1, StartedMoves, Order_Pop DEF WakesWorker
  <2>3. CASE ~WakesWorker
    <3>1. pc' = Started(pc, aWT') /\ UNCHANGED <<target, m_mutex, bMarkedAsWaiting>>
      BY <1>6, <2>3 DEF SubmitJobs
    <3>2. ASSUME NEW u \in Threads PROVE KeepsClear(u)
      BY <2>1, <3>1, StartedMoves DEF KeepsClear, AfterWait
    <3> QED BY <3>1, <3>2, Order_Kept
  <2> QED BY <2>2, <2>3
<1>7. CASE \/ \E n \in 0..MaxRemaining : WaitCompletion(c, n) \/ QueueWaitCompletion(c, n)
           \/ WaitEvent(c) \/ QueueWaitEvent(c) \/ Destroy(c)
  <2>1. UNCHANGED <<target, m_mutex, bMarkedAsWaiting>>
    BY <1>7 DEF WaitCompletion, WaitEvent, QueueWaitCompletion, QueueWaitEvent, Destroy,
                WaitOnPool, WaitOnQueue, poolState
  <2>2. /\ \A u \in Threads \ {c} : pc'[u] = pc[u]
        /\ pc'[c] \notin {"lockOwn", "notify"}
    BY <1>0, <1>7 DEF WaitCompletion, WaitEvent, QueueWaitCompletion, QueueWaitEvent,
                      Destroy, WaitOnPool, WaitOnQueue
  <2>3. ASSUME NEW u \in Threads PROVE KeepsClear(u)
    BY <1>2, <2>1, <2>2 DEF KeepsClear, AfterWait
  <2> QED BY <2>1, <2>3, Order_Kept
<1> QED
  BY <1>3, <1>4, <1>5, <1>6, <1>7, QueueFacts DEF ClientCall

LEMMA Order_Worker ==
    ASSUME Shape, Shape', PoolPending, DestructorAlone, ListExact, LockOrder,
           NEW w \in Workers, WorkerStep(w) \/ WakeUpWaitEvent(w)
    PROVE  LockOrder'
<1>0. /\ pc \in [Threads -> Pcs] /\ w \in Threads /\ nWaitingWorkerThreads \in Int
      /\ Clients \cap Workers = {}
  BY DEF Shape, Types, ThreadTypes, WaitingTypes, Threads
<1>1. CASE EnqueueNested(w)
  <2>1. /\ pc[w] = "reserved" /\ PoolFree /\ reserved[w] \in Jobs
        /\ Enqueue(w, reserved[w], nWaitingWorkerThreads + 1)
    BY <1>1 DEF EnqueueNested, Shape, Control, WorkerControl, Types, JobTypes
  <2>2. ~Stopping
    BY <1>0, <2>1, StoppedIsQuiet
  <2> QED BY <1>0, <2>1, <2>2, Order_Enqueue
<1>2. CASE \/ \E k \in ChildJobs : SubmitNested(w, k) \/ SubmitJobsNested(w, k)
           \/ WakeUp(w) \/ JobWaits(w)
  <2>1. UNCHANGED <<target, m_mutex, bMarkedAsWaiting>>
    BY <1>2 DEF SubmitNested, SubmitJobsNested, WakeUp, JobWaits, poolState
  <2>2. /\ \A u \in Threads \ {w} : pc'[u] = pc[u]
        /\ pc[w] \in {"run", "woken"} /\ pc'[w] \notin {"lockOwn", "notify"}
    BY <1>0, <1>2 DEF SubmitNested, SubmitJobsNested, WakeUp, JobWaits, InJob
  <2>3. ASSUME NEW u \in Threads PROVE KeepsClear(u)
    BY <2>1, <2>2 DEF KeepsClear, AfterWait
  <2> QED BY <2>1, <2>3, Order_Kept
<1>3. CASE DeclareJobFinished(w) \/ WakeUpWaitEvent(w)
  <2>1. UNCHANGED <<target, m_mutex, bMarkedAsWaiting>>
    BY <1>3 DEF DeclareJobFinished, WakeUpWaitEvent, poolState
  <2>2. /\ pc[w] \in {"run", "finish"}
        /\ \/ pc' \in NotifyOne([pc EXCEPT ![w] = "next"])
           \/ pc' \in NotifyOne(pc)
    BY <1>3 DEF DeclareJobFinished, WakeUpWaitEvent, InJob
  <2>3. [pc EXCEPT ![w] = "next"] \in [Threads -> Pcs]
    BY <1>0 DEF Pcs, WorkerPcs
  <2>a. PICK f \in [Threads -> Pcs] :
             /\ pc' \in NotifyOne(f) /\ f[w] \in {pc[w], "next"}
             /\ \A u \in Threads \ {w} : f[u] = pc[u]
    BY <1>0, <2>2, <2>3
  <2>b. \A u \in Threads : \/ pc'[u] = f[u]
                           \/ u \in Clients /\ f[u] = "cv" /\ pc'[u] = "cvWoken"
    BY <2>a, NotifyOneFrame
  <2>4. \A u \in Threads \ {w} : pc'[u] = pc[u] \/ (pc[u] = "cv" /\ pc'[u] = "cvWoken")
    BY <2>a, <2>b
  <2>5. pc'[w] \in {pc[w], "next"}
    BY <1>0, <2>a, <2>b
  <2>6. ASSUME NEW u \in Threads PROVE KeepsClear(u)
    BY <2>1, <2>2, <2>4, <2>5 DEF KeepsClear, AfterWait
  <2> QED BY <2>1, <2>6, Order_Kept
<1>4. CASE JobReturns(w)
  <2> DEFINE f == PcsAfterQueueNotify(queueOf[CurrentJob(w)])
  <2>1. /\ UNCHANGED <<target, m_mutex, bMarkedAsWaiting>> /\ pc[w] = "run"
        /\ pc' = [f EXCEPT ![w] = IF Len(stack[w]) = 1 THEN "finish" ELSE "run"]
    BY <1>4 DEF JobReturns, InJob, poolState
  <2>2. DOMAIN f = Threads
    BY DEF PcsAfterQueueNotify
  <2>3. ASSUME NEW t \in Threads
        PROVE  f[t] = pc[t] \/ (pc[t] = "queueCv" /\ f[t] \in {"run", "queueWoken"})
    BY DEF PcsAfterQueueNotify, QueueSleepers
  <2> HIDE DEF f
  <2>4. ASSUME NEW u \in Threads PROVE KeepsClear(u)
    BY <1>0, <2>1, <2>2, <2>3 DEF KeepsClear, AfterWait
  <2> QED BY <2>1, <2>4, Order_Kept
<1> QED
  BY <1>0, <1>1, <1>2, <1>3, <1>4, Order_Notify, Order_GetNextJob, Order_FallAsleep
  DEF WorkerStep

LEMMA Order_Spurious ==
    ASSUME Shape, LockOrder, "worker" \notin Spurious, NEW t \in Threads, SpuriousWakeUp(t)
    PROVE  LockOrder'
<1>1. pc[t] \in {"cv", "queueCv"} /\ UNCHANGED <<target, m_mutex, bMarkedAsWaiting>>
  BY DEF SpuriousWakeUp, KindOfWait, poolState
<1>2. /\ pc'[t] \notin {"lockOwn", "notify"}
      /\ \A u \in Threads \ {t} : pc'[u] = pc[u]
  BY <1>1 DEF SpuriousWakeUp, Shape, Types, ThreadTypes
<1>3. ASSUME NEW u \in Threads PROVE KeepsClear(u)
  BY <1>1, <1>2 DEF KeepsClear, AfterWait
<1> QED
  BY <1>1, <1>3, Order_Kept

LEMMA Order_Next ==
    ASSUME Shape, Shape', PoolPending, DestructorAlone, ListExact, LockOrder,
           "worker" \notin Spurious, [Next]_vars
    PROVE  LockOrder'
<1>1. CASE UNCHANGED vars
  BY <1>1 DEF vars, poolState, LockOrder, NotifiesSleeper, ListedSleeps, Stopping
<1> QED
  BY <1>1, Order_ClientStep, Order_ClientCall, Order_Worker, Order_Spurious DEF Next

(* A submitter locks the mutex of a worker under m_mutex, and a worker     *)
(* that has been woken locks m_mutex under its own mutex.  The two never   *)
(* wait for each other as long as the waits of the workers only end when   *)
(* they are notified: a worker that is taken off the list is asleep, and   *)
(* its mutex is free, until its submitter has locked it and released       *)
(* m_mutex.                                                                *)
THEOREM LocksInBothOrders ==
    ASSUME "worker" \notin Spurious
    PROVE  Spec => []NoCircularWait
<1>1. Init => LockOrder
  BY DEF Init, LockOrder, NotifiesSleeper, ListedSleeps, Threads, Workers
<1>2. Counted => Shape /\ PoolPending /\ ListExact
  BY DEF Counted, WaitingListExact, ListExact, Marked
<1>3. Counted /\ Counted' /\ DestructorAlone /\ LockOrder /\ [Next]_vars => LockOrder'
  BY <1>2, Order_Next DEF Counted
<1>4. LockOrder => NoCircularWait
  BY DEF LockOrder, NotifiesSleeper, NoCircularWait
<1> QED
  BY <1>1, <1>3, <1>4, CountedInvariant, AloneInvariant, PTL DEF Spec
==============================================================================
