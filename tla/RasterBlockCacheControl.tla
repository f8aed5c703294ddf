------------------------ MODULE RasterBlockCacheControl ------------------------
(***************************************************************************)
(* The control of the block cache, for any number of threads, datasets,    *)
(* bands and blocks.  First the mutual exclusion of hRBLock: the eviction  *)
(* scans of Internalize() and FlushCacheBlock(), which are several steps   *)
(* long and follow the links of the list, run one at a time, and no other  *)
(* thread moves the blocks of the list meanwhile.  Then which call a       *)
(* thread is in at each of its steps, which pointers it holds there, and   *)
(* that the pointers of an eviction scan point into the global list, which *)
(* is a list without repetitions.  This is what the ownership of blocks    *)
(* (RasterBlockCacheOwnership) builds on.                                  *)
(***************************************************************************)
EXTENDS RasterBlockCache, TLAPS, SequenceTheorems, WellFoundedInduction

PcOK == pc \in [Threads -> Labels]

(* hRBLock is owned by the thread inside a scan of the list. *)
CriticalSection == \A t \in Threads : (hRBLock = t) <=> (pc[t] \in CriticalLabels)

MutexInv == PcOK /\ CriticalSection

USE NamesAssumption

(* No thread is in the critical section when the program starts.           *)
LEMMA MutexInv_Init == Init => MutexInv
BY DEF Init, MutexInv, PcOK, CriticalSection, Labels, CriticalLabels

(* A thread moves inside, or outside, the critical section.                *)
LEMMA Stays ==
    ASSUME MutexInv, NEW t \in Threads, NEW l \in Labels,
           pc' = [pc EXCEPT ![t] = l], hRBLock' = hRBLock,
           l \in CriticalLabels <=> pc[t] \in CriticalLabels
    PROVE  MutexInv'
BY DEF MutexInv, PcOK, CriticalSection

(* A thread enters the critical section when the lock is free.             *)
LEMMA Enters ==
    ASSUME MutexInv, NEW t \in Threads, NEW l \in Labels,
           pc' = [pc EXCEPT ![t] = l], hRBLock = NoThread, hRBLock' = t,
           l \in CriticalLabels
    PROVE  MutexInv'
BY DEF MutexInv, PcOK, CriticalSection

(* The thread in the critical section leaves it.                           *)
LEMMA Leaves ==
    ASSUME MutexInv, NEW t \in Threads, NEW l \in Labels,
           pc' = [pc EXCEPT ![t] = l], hRBLock' = NoThread,
           pc[t] \in CriticalLabels, l \notin CriticalLabels
    PROVE  MutexInv'
BY DEF MutexInv, PcOK, CriticalSection

(* No other variable matters.                                              *)
LEMMA Same == ASSUME MutexInv, UNCHANGED <<pc, hRBLock>> PROVE MutexInv'
BY DEF MutexInv, PcOK, CriticalSection

-----------------------------------------------------------------------------
LEMMA Mutex_Start ==
    ASSUME MutexInv, NEW t \in Threads, Start(t) PROVE MutexInv'
<1> USE DEF Labels, CriticalLabels
<1>1. ASSUME NEW o \in Ops, NEW k \in Keys, StartIO(t, o, k) PROVE MutexInv'
  <2>1. hRBLock' = hRBLock
    BY <1>1 DEF StartIO, cacheVars
  <2>2. CASE o \in {"write", "writeFull"} /\ eFlushBlockErr[BandOf(k)]
    BY <1>1, <2>1, <2>2, Same DEF StartIO
  <2>3. CASE ~(o \in {"write", "writeFull"} /\ eFlushBlockErr[BandOf(k)])
    <3>1. /\ pc[t] = "idle"
          /\ pc' = [pc EXCEPT ![t] = IF o \in RasterIoOps THEN "enterRW" ELSE "tryGet"]
      BY <1>1, <2>3 DEF StartIO, Goto
    <3> QED
      BY <2>1, <3>1, Stays
  <2> QED
    BY <2>2, <2>3
<1>2. ASSUME NEW o \in Ops, NEW k \in Keys, StartFlush(t, o, k) PROVE MutexInv'
  BY <1>2, Stays DEF StartFlush, Goto, cacheVars
<1>3. ASSUME NEW o \in Ops, StartGlobal(t, o) PROVE MutexInv'
  BY <1>3, Stays DEF StartGlobal, Goto
<1>4. ASSUME NEW ds \in Datasets, Reopen(t, ds) PROVE MutexInv'
  BY <1>4, Same DEF Reopen, cacheVars
<1>5. CASE EnterDisableDirtyBlockFlush(t) \/ LeaveDisableDirtyBlockFlush(t)
  BY <1>5, Same DEF EnterDisableDirtyBlockFlush, LeaveDisableDirtyBlockFlush
<1> QED
  BY <1>1, <1>2, <1>3, <1>4, <1>5 DEF Start

LEMMA Mutex_IoStep ==
    ASSUME MutexInv, NEW t \in Threads, IoStep(t) PROVE MutexInv'
<1> USE DEF Labels, CriticalLabels, Goto, cacheVars
<1>1. CASE WaitPendingTasks(t)
  BY <1>1, Same DEF WaitPendingTasks
<1>2. CASE EnterReadWrite(t)
  BY <1>2, Stays DEF EnterReadWrite
<1>3. CASE TryGetLockedBlockRef(t)
  BY <1>3, Stays DEF TryGetLockedBlockRef
<1>4. CASE TakeLock(t)
  BY <1>4, Stays DEF TakeLock
<1>5. CASE TakeLockFailed(t)
  BY <1>5, Stays DEF TakeLockFailed
<1>6. CASE Touch(t)
  BY <1>6, Stays DEF Touch
<1>7. CASE TouchLocked(t)
  BY <1>7, Stays DEF TouchLocked
<1>8. CASE CreateBlockFails(t)
  BY <1>8, Stays DEF CreateBlockFails
<1>9. CASE ReacquireReadWriteLock(t)
  BY <1>9, Stays DEF ReacquireReadWriteLock
<1>10. ASSUME NEW b \in Blocks, CreateBlock(t, b) PROVE MutexInv'
  BY <1>10, Stays DEF CreateBlock
<1>11. ASSUME NEW ok \in BOOLEAN, Allocate(t, ok) PROVE MutexInv'
  BY <1>11, Stays DEF Allocate
<1>12. ASSUME NEW ok \in BOOLEAN, AdoptBlock(t, ok) PROVE MutexInv'
  BY <1>12, Stays DEF AdoptBlock
<1>13. ASSUME NEW ok \in BOOLEAN, ReadBlock(t, ok) PROVE MutexInv'
  BY <1>13, Stays DEF ReadBlock
<1>14. CASE WriteLocked(t)
  BY <1>14, Stays DEF WriteLocked
<1>15. CASE Discard(t)
  BY <1>15, Stays DEF Discard
<1>16. CASE Failed(t)
  BY <1>16, Stays DEF Failed, Return
<1>17. ASSUME NEW more \in BOOLEAN, DropLock(t, more) PROVE MutexInv'
  BY <1>17, Stays DEF DropLock, Return
<1> QED
  BY <1>1, <1>2, <1>3, <1>4, <1>5, <1>6, <1>7, <1>8, <1>9, <1>10, <1>11, <1>12,
     <1>13, <1>14, <1>15, <1>16, <1>17 DEF IoStep

LEMMA Mutex_EvictStep ==
    ASSUME MutexInv, NEW t \in Threads, EvictStep(t) PROVE MutexInv'
<1> USE DEF Labels, CriticalLabels, Goto, cacheVars
<1>1. CASE InternalizeLock(t)
  BY <1>1, Enters DEF InternalizeLock, RBLockFree
<1>2. CASE Scan(t)
  <2>1. CASE UNCHANGED pc
    BY <1>2, <2>1, Same DEF Scan
  <2>2. CASE ~UNCHANGED pc
    BY <1>2, <2>2, Stays DEF Scan
  <2> QED
    BY <2>1, <2>2
<1>3. ASSUME NEW b, NEW next, NEW retry \in {"scan", "fallback", "flushScan"},
             pc[t] \in {"exchange", "exchangeOther", "fallback", "flushExchange"},
             Claim(t, b, next, retry)
      PROVE  MutexInv'
  BY <1>3, Stays DEF Claim
<1>4. CASE Exchange(t)
  BY <1>3, <1>4 DEF Exchange
<1>5. CASE ExchangeOther(t)
  BY <1>3, <1>5 DEF ExchangeOther
<1>6. CASE Fallback(t)
  BY <1>3, <1>6 DEF Fallback
<1>7. CASE FallbackEnds(t)
  BY <1>7, Stays DEF FallbackEnds
<1>8. CASE Detach(t)
  BY <1>8, Stays DEF Detach
<1>9. CASE UnreferenceBlock(t)
  BY <1>9, Stays DEF UnreferenceBlock
<1>10. CASE Scanned(t)
  BY <1>10, Leaves DEF Scanned
<1>11. CASE FreeNext(t)
  BY <1>11, Stays DEF FreeNext
<1>12. CASE Release(t)
  BY <1>12, Stays DEF Release
<1>13. CASE KeepAliveDec(t)
  BY <1>13, Stays DEF KeepAliveDec
<1>14. CASE FreeEnds(t)
  BY <1>14, Stays DEF FreeEnds
<1>15. ASSUME NEW ok \in BOOLEAN, WriteEvicted(t, ok) PROVE MutexInv'
  BY <1>15, Stays DEF WriteEvicted
<1>16. CASE SetCacheMaxLoop(t)
  BY <1>16, Stays DEF SetCacheMaxLoop
<1>17. CASE FlushCacheBlock(t)
  BY <1>17, Enters DEF FlushCacheBlock, RBLockFree
<1>18. CASE FlushScan(t)
  <2>1. CASE UNCHANGED pc
    BY <1>18, <2>1, Same DEF FlushScan
  <2>2. CASE ~UNCHANGED pc
    BY <1>18, <2>2, Stays DEF FlushScan
  <2> QED
    BY <2>1, <2>2
<1>19. CASE FlushExchange(t)
  BY <1>3, <1>19 DEF FlushExchange
<1>20. CASE FlushScanEnds(t)
  BY <1>20, Leaves DEF FlushScanEnds
<1>21. CASE FlushedOne(t)
  BY <1>21, Stays DEF FlushedOne
<1> QED
  BY <1>1, <1>2, <1>4, <1>5, <1>6, <1>7, <1>8, <1>9, <1>10, <1>11, <1>12, <1>13,
     <1>14, <1>15, <1>16, <1>17, <1>18, <1>19, <1>20, <1>21 DEF EvictStep

LEMMA Mutex_FlushStep ==
    ASSUME MutexInv, NEW t \in Threads, FlushStep(t) PROVE MutexInv'
<1> USE DEF Labels, CriticalLabels, Goto, cacheVars
<1>1. CASE FlushBlock(t)
  BY <1>1, Stays DEF FlushBlock, AfterFlushBlock
<1>2. CASE ClaimFlush(t)
  BY <1>2, Stays DEF ClaimFlush
<1>3. CASE FlushWait(t)
  BY <1>3, Stays DEF FlushWait, AfterFlushBlock
<1>4. CASE FlushDetach(t)
  BY <1>4, Stays DEF FlushDetach
<1>5. CASE FlushWrite(t)
  BY <1>5, Stays DEF FlushWrite
<1>6. CASE Delete(t)
  BY <1>6, Stays DEF Delete, AfterFlushBlock
<1>7. CASE FlushCache(t)
  BY <1>7, Stays DEF FlushCache
<1>8. CASE FlushStorage(t)
  BY <1>8, Stays DEF FlushStorage
<1>9. CASE FlushNext(t)
  BY <1>9, Stays DEF FlushNext
<1>10. CASE FlushEnds(t)
  BY <1>10, Stays DEF FlushEnds
<1>11. CASE Destroy(t)
  BY <1>11, Stays DEF Destroy
<1>12. CASE Flushed(t)
  BY <1>12, Stays DEF Flushed, Return
<1>13. ASSUME NEW ok \in BOOLEAN, FlushIO(t, ok) PROVE MutexInv'
  BY <1>13, Stays DEF FlushIO
<1> QED
  BY <1>1, <1>2, <1>3, <1>4, <1>5, <1>6, <1>7, <1>8, <1>9, <1>10, <1>11, <1>12,
     <1>13 DEF FlushStep

LEMMA MutexInv_Next == MutexInv /\ [Next]_vars => MutexInv'
<1> SUFFICES ASSUME MutexInv, [Next]_vars PROVE MutexInv'
  OBVIOUS
<1>1. ASSUME NEW t \in Threads, Start(t) \/ Step(t) PROVE MutexInv'
  BY <1>1, Mutex_Start, Mutex_IoStep, Mutex_EvictStep, Mutex_FlushStep DEF Step
<1>2. CASE UNCHANGED vars
  BY <1>2, Same DEF vars, cacheVars
<1> QED
  BY <1>1, <1>2 DEF Next

-----------------------------------------------------------------------------
(* The blocks to free.  RoundLabels are the steps during which a thread    *)
(* may hold evicted blocks, Collecting those that lead to storing one      *)
(* more, Releasing those that need one.                                    *)
RoundLabels == {"scan", "exchange", "exchangeOther", "fallback", "detach",
                "unreference", "scanned", "free", "write", "release", "keepAlive"}
Collecting == {"scan", "exchange", "exchangeOther", "fallback", "detach"}
Releasing == {"write", "release"}

(* toFree[t] is a sequence, empty outside a round, with room for one more  *)
(* block as long as the scan goes on: this is what StopsRound() ensures.   *)
RoundOf(t) ==
    /\ \E S : toFree[t] \in Seq(S)
    /\ pc[t] \notin RoundLabels => toFree[t] = <<>>
    /\ Len(toFree[t]) <= BlocksToFreeSize
    /\ pc[t] \in Collecting => Len(toFree[t]) < BlocksToFreeSize
    /\ pc[t] \in Releasing => toFree[t] # <<>>

RoundInv == /\ PcOK
            /\ toFree = [t \in Threads |-> toFree[t]]
            /\ \A t \in Threads : RoundOf(t)

LEMMA RoundInv_Init == Init => RoundInv
<1> SUFFICES ASSUME Init PROVE RoundInv
  OBVIOUS
<1>1. PcOK /\ toFree = [t \in Threads |-> toFree[t]]
  BY DEF Init, PcOK, Labels
<1>2. ASSUME NEW t \in Threads PROVE RoundOf(t)
  <2>1. toFree[t] = <<>> /\ pc[t] = "idle"
    BY DEF Init
  <2>2. <<>> \in Seq({})
    OBVIOUS
  <2> QED
    BY <2>1, <2>2, BoundsAssumption DEF RoundOf, RoundLabels, Collecting, Releasing
<1> QED
  BY <1>1, <1>2 DEF RoundInv

(* Only the thread that moves is concerned.                                *)
LEMMA RoundMoves ==
    ASSUME RoundInv, NEW t \in Threads, NEW l \in Labels,
           pc' = [pc EXCEPT ![t] = l], NEW s, toFree' = [toFree EXCEPT ![t] = s],
           RoundOf(t)'
    PROVE  RoundInv'
<1>1. PcOK'
  BY DEF RoundInv, PcOK
<1>2. toFree' = [u \in Threads |-> toFree'[u]]
  BY DEF RoundInv
<1>3. ASSUME NEW u \in Threads PROVE RoundOf(u)'
  <2>1. CASE u = t
    BY <2>1
  <2>2. CASE u # t
    <3>1. pc'[u] = pc[u] /\ toFree'[u] = toFree[u]
      BY <2>2 DEF RoundInv, PcOK
    <3>2. RoundOf(u)
      BY DEF RoundInv
    <3> QED
      BY <3>1, <3>2 DEF RoundOf
  <2> QED
    BY <2>1, <2>2
<1> QED
  BY <1>1, <1>2, <1>3 DEF RoundInv

(* A step that neither starts nor ends a round, and stores nothing.        *)
LEMMA RoundStays ==
    ASSUME RoundInv, NEW t \in Threads, NEW l \in Labels,
           pc' = [pc EXCEPT ![t] = l], toFree' = toFree,
           \/ pc[t] \notin RoundLabels
           \/ l \in RoundLabels /\ (l \in Collecting => pc[t] \in Collecting),
           l \notin Releasing
    PROVE  RoundInv'
<1>1. toFree' = [toFree EXCEPT ![t] = toFree[t]]
  BY DEF RoundInv
<1>2. pc'[t] = l /\ toFree'[t] = toFree[t] /\ RoundOf(t)
  BY DEF RoundInv, PcOK
<1>3. Len(<<>>) = 0 /\ 0 < BlocksToFreeSize
  BY BoundsAssumption
<1>4. RoundOf(t)'
  BY <1>2, <1>3 DEF RoundOf
<1> QED
  BY <1>1, <1>4, RoundMoves

LEMMA RoundSame == ASSUME RoundInv, UNCHANGED <<pc, toFree>> PROVE RoundInv'
BY DEF RoundInv, PcOK, RoundOf

LEMMA Round_Start ==
    ASSUME RoundInv, NEW t \in Threads, Start(t) PROVE RoundInv'
<1> USE DEF Labels, RoundLabels, Collecting, Releasing
<1>1. ASSUME NEW o \in Ops, NEW k \in Keys, StartIO(t, o, k) PROVE RoundInv'
  <2>1. toFree' = toFree
    BY <1>1 DEF StartIO, scanVars
  <2>2. CASE o \in {"write", "writeFull"} /\ eFlushBlockErr[BandOf(k)]
    BY <1>1, <2>1, <2>2, RoundSame DEF StartIO
  <2>3. CASE ~(o \in {"write", "writeFull"} /\ eFlushBlockErr[BandOf(k)])
    <3>1. /\ pc[t] = "idle"
          /\ pc' = [pc EXCEPT ![t] = IF o \in RasterIoOps THEN "enterRW" ELSE "tryGet"]
      BY <1>1, <2>3 DEF StartIO, Goto
    <3> QED
      BY <2>1, <3>1, RoundStays
  <2> QED
    BY <2>2, <2>3
<1>2. ASSUME NEW o \in Ops, NEW k \in Keys, StartFlush(t, o, k) PROVE RoundInv'
  BY <1>2, RoundStays DEF StartFlush, Goto, scanVars
<1>3. ASSUME NEW o \in Ops, StartGlobal(t, o) PROVE RoundInv'
  BY <1>3, RoundStays DEF StartGlobal, Goto, scanVars
<1>4. ASSUME NEW ds \in Datasets, Reopen(t, ds) PROVE RoundInv'
  BY <1>4, RoundSame DEF Reopen, scanVars
<1>5. CASE EnterDisableDirtyBlockFlush(t) \/ LeaveDisableDirtyBlockFlush(t)
  BY <1>5, RoundSame
     DEF EnterDisableDirtyBlockFlush, LeaveDisableDirtyBlockFlush, scanVars
<1> QED
  BY <1>1, <1>2, <1>3, <1>4, <1>5 DEF Start

LEMMA Round_IoStep ==
    ASSUME RoundInv, NEW t \in Threads, IoStep(t) PROVE RoundInv'
<1> USE DEF Labels, RoundLabels, Collecting, Releasing, Goto, scanVars
<1>1. CASE WaitPendingTasks(t)
  BY <1>1, RoundSame DEF WaitPendingTasks
<1>2. CASE EnterReadWrite(t)
  BY <1>2, RoundStays DEF EnterReadWrite
<1>3. CASE TryGetLockedBlockRef(t)
  BY <1>3, RoundStays DEF TryGetLockedBlockRef
<1>4. CASE TakeLock(t)
  BY <1>4, RoundStays DEF TakeLock
<1>5. CASE TakeLockFailed(t)
  BY <1>5, RoundStays DEF TakeLockFailed
<1>6. CASE Touch(t)
  BY <1>6, RoundStays DEF Touch
<1>7. CASE TouchLocked(t)
  BY <1>7, RoundStays DEF TouchLocked
<1>8. CASE CreateBlockFails(t)
  BY <1>8, RoundStays DEF CreateBlockFails
<1>9. CASE ReacquireReadWriteLock(t)
  BY <1>9, RoundStays DEF ReacquireReadWriteLock
<1>10. ASSUME NEW b \in Blocks, CreateBlock(t, b) PROVE RoundInv'
  BY <1>10, RoundStays DEF CreateBlock
<1>11. ASSUME NEW ok \in BOOLEAN, Allocate(t, ok) PROVE RoundInv'
  BY <1>11, RoundStays DEF Allocate
<1>12. ASSUME NEW ok \in BOOLEAN, AdoptBlock(t, ok) PROVE RoundInv'
  BY <1>12, RoundStays DEF AdoptBlock
<1>13. ASSUME NEW ok \in BOOLEAN, ReadBlock(t, ok) PROVE RoundInv'
  BY <1>13, RoundStays DEF ReadBlock
<1>14. CASE WriteLocked(t)
  BY <1>14, RoundStays DEF WriteLocked
<1>15. CASE Discard(t)
  BY <1>15, RoundStays DEF Discard
<1>16. CASE Failed(t)
  BY <1>16, RoundStays DEF Failed, Return
<1>17. ASSUME NEW more \in BOOLEAN, DropLock(t, more) PROVE RoundInv'
  BY <1>17, RoundStays DEF DropLock, Return
<1> QED
  BY <1>1, <1>2, <1>3, <1>4, <1>5, <1>6, <1>7, <1>8, <1>9, <1>10, <1>11, <1>12,
     <1>13, <1>14, <1>15, <1>16, <1>17 DEF IoStep

LEMMA Round_EvictStep ==
    ASSUME RoundInv, NEW t \in Threads, EvictStep(t) PROVE RoundInv'
<1> USE DEF Labels, RoundLabels, Collecting, Releasing, Goto, scanVars
<1>1. CASE InternalizeLock(t)
  BY <1>1, RoundStays DEF InternalizeLock
<1>2. CASE Scan(t)
  <2>1. CASE UNCHANGED pc
    BY <1>2, <2>1, RoundSame DEF Scan
  <2>2. CASE ~UNCHANGED pc
    BY <1>2, <2>2, RoundStays DEF Scan
  <2> QED
    BY <2>1, <2>2
<1>3. ASSUME NEW b, NEW next, NEW retry, Claim(t, b, next, retry),
             \/ pc[t] \in Collecting /\ retry \in {"scan", "fallback"}
             \/ pc[t] = "flushExchange" /\ retry = "flushScan"
      PROVE  RoundInv'
  BY <1>3, RoundStays DEF Claim
<1>4. CASE Exchange(t)
  BY <1>3, <1>4 DEF Exchange
<1>5. CASE ExchangeOther(t)
  BY <1>3, <1>5 DEF ExchangeOther
<1>6. CASE Fallback(t)
  BY <1>3, <1>6 DEF Fallback
<1>7. CASE FallbackEnds(t)
  BY <1>7, RoundStays DEF FallbackEnds
<1>8. CASE Detach(t)
  <2>1. /\ pc[t] = "detach"
        /\ pc' = [pc EXCEPT ![t] = "unreference"]
        /\ toFree' = [toFree EXCEPT ![t] = Append(toFree[t], poTarget[t])]
    BY <1>8 DEF Detach
  <2>2. pc'[t] = "unreference" /\ toFree'[t] = Append(toFree[t], poTarget[t])
    BY <2>1 DEF RoundInv, PcOK
  <2>3. PICK S : toFree[t] \in Seq(S)
    BY DEF RoundInv, RoundOf
  <2>4. toFree[t] \in Seq(S \cup {poTarget[t]})
    BY <2>3
  <2>5. /\ Append(toFree[t], poTarget[t]) \in Seq(S \cup {poTarget[t]})
        /\ Len(Append(toFree[t], poTarget[t])) = Len(toFree[t]) + 1
        /\ Len(toFree[t]) \in Nat
    BY <2>4
  <2>6. Len(toFree[t]) < BlocksToFreeSize
    BY <2>1 DEF RoundInv, RoundOf
  <2>7. RoundOf(t)'
    BY <2>2, <2>5, <2>6, BoundsAssumption DEF RoundOf
  <2> QED
    BY <2>1, <2>7, RoundMoves
<1>9. CASE UnreferenceBlock(t)
  <2>1. /\ pc[t] = "unreference" /\ toFree' = [toFree EXCEPT ![t] = toFree[t]]
        /\ toFree'[t] = toFree[t]
    BY <1>9 DEF UnreferenceBlock, RoundInv
  <2>2. PICK l \in {"scan", "scanned"} :
           /\ pc' = [pc EXCEPT ![t] = l]
           /\ l = "scan" => Len(toFree[t]) # BlocksToFreeSize
    BY <1>9 DEF UnreferenceBlock, StopsRound
  <2>3. pc'[t] = l
    BY <2>2 DEF RoundInv, PcOK
  <2>4. RoundOf(t)
    BY DEF RoundInv
  <2>5. Len(toFree[t]) \in Nat
    BY <2>4 DEF RoundOf
  <2>6. RoundOf(t)'
    BY <2>1, <2>2, <2>3, <2>4, <2>5, BoundsAssumption DEF RoundOf
  <2> QED
    BY <2>1, <2>2, <2>6, RoundMoves
<1>10. CASE Scanned(t)
  BY <1>10, RoundStays DEF Scanned
<1>11. CASE FreeNext(t)
  <2>1. /\ pc[t] = "free" /\ toFree[t] # <<>>
        /\ toFree' = [toFree EXCEPT ![t] = toFree[t]] /\ toFree'[t] = toFree[t]
    BY <1>11 DEF FreeNext, RoundInv
  <2>2. PICK l \in {"write", "release"} : pc' = [pc EXCEPT ![t] = l]
    BY <1>11 DEF FreeNext
  <2>3. pc'[t] = l /\ RoundOf(t)
    BY <2>2 DEF RoundInv, PcOK
  <2>4. RoundOf(t)'
    BY <2>1, <2>3 DEF RoundOf
  <2> QED
    BY <2>1, <2>2, <2>4, RoundMoves
<1>12. CASE Release(t)
  <2>1. /\ pc[t] = "release"
        /\ pc' = [pc EXCEPT ![t] = "keepAlive"]
        /\ toFree' = [toFree EXCEPT ![t] = Tail(toFree[t])]
    BY <1>12 DEF Release
  <2>2. pc'[t] = "keepAlive" /\ toFree'[t] = Tail(toFree[t]) /\ RoundOf(t)
    BY <2>1 DEF RoundInv, PcOK
  <2>3. PICK S : toFree[t] \in Seq(S)
    BY <2>2 DEF RoundOf
  <2>4. toFree[t] # <<>>
    BY <2>1, <2>2 DEF RoundOf
  <2>5. /\ Tail(toFree[t]) \in Seq(S)
        /\ Len(Tail(toFree[t])) = Len(toFree[t]) - 1
        /\ Len(toFree[t]) \in Nat
    BY <2>3, <2>4
  <2>6. Len(Tail(toFree[t])) <= BlocksToFreeSize
    BY <2>2, <2>5, BoundsAssumption DEF RoundOf
  <2>7. RoundOf(t)'
    BY <2>2, <2>5, <2>6 DEF RoundOf
  <2> QED
    BY <2>1, <2>7, RoundMoves
<1>13. CASE KeepAliveDec(t)
  BY <1>13, RoundStays DEF KeepAliveDec
<1>14. CASE FreeEnds(t)
  <2>1. /\ pc[t] = "free" /\ toFree[t] = <<>>
        /\ toFree' = [toFree EXCEPT ![t] = toFree[t]] /\ toFree'[t] = toFree[t]
    BY <1>14 DEF FreeEnds, RoundInv
  <2>2. PICK l \in {"internalize", "allocate", "flushCacheBlock", "flushedOne"} :
           pc' = [pc EXCEPT ![t] = l]
    BY <1>14 DEF FreeEnds
  <2>3. pc'[t] = l /\ RoundOf(t)
    BY <2>2 DEF RoundInv, PcOK
  <2>4. RoundOf(t)'
    BY <2>1, <2>3 DEF RoundOf
  <2> QED
    BY <2>1, <2>2, <2>4, RoundMoves
<1>15. ASSUME NEW ok \in BOOLEAN, WriteEvicted(t, ok) PROVE RoundInv'
  <2>1. /\ pc[t] = "write" /\ pc' = [pc EXCEPT ![t] = "release"]
        /\ toFree' = [toFree EXCEPT ![t] = toFree[t]] /\ toFree'[t] = toFree[t]
    BY <1>15 DEF WriteEvicted, RoundInv
  <2>2. pc'[t] = "release" /\ RoundOf(t)
    BY <2>1 DEF RoundInv, PcOK
  <2>3. RoundOf(t)'
    BY <2>1, <2>2 DEF RoundOf
  <2> QED
    BY <2>1, <2>3, RoundMoves
<1>16. CASE SetCacheMaxLoop(t)
  BY <1>16, RoundStays DEF SetCacheMaxLoop
<1>17. CASE FlushCacheBlock(t)
  BY <1>17, RoundStays DEF FlushCacheBlock
<1>18. CASE FlushScan(t)
  <2>1. CASE UNCHANGED pc
    BY <1>18, <2>1, RoundSame DEF FlushScan
  <2>2. CASE ~UNCHANGED pc
    BY <1>18, <2>2, RoundStays DEF FlushScan
  <2> QED
    BY <2>1, <2>2
<1>19. CASE FlushExchange(t)
  BY <1>3, <1>19 DEF FlushExchange
<1>20. CASE FlushScanEnds(t)
  BY <1>20, RoundStays DEF FlushScanEnds
<1>21. CASE FlushedOne(t)
  BY <1>21, RoundStays DEF FlushedOne
<1> QED
  BY <1>1, <1>2, <1>4, <1>5, <1>6, <1>7, <1>8, <1>9, <1>10, <1>11, <1>12, <1>13,
     <1>14, <1>15, <1>16, <1>17, <1>18, <1>19, <1>20, <1>21 DEF EvictStep

LEMMA Round_FlushStep ==
    ASSUME RoundInv, NEW t \in Threads, FlushStep(t) PROVE RoundInv'
<1> USE DEF Labels, RoundLabels, Collecting, Releasing, Goto, scanVars
<1>1. CASE FlushBlock(t)
  BY <1>1, RoundStays DEF FlushBlock, AfterFlushBlock
<1>2. CASE ClaimFlush(t)
  BY <1>2, RoundStays DEF ClaimFlush
<1>3. CASE FlushWait(t)
  BY <1>3, RoundStays DEF FlushWait, AfterFlushBlock
<1>4. CASE FlushDetach(t)
  BY <1>4, RoundStays DEF FlushDetach
<1>5. CASE FlushWrite(t)
  BY <1>5, RoundStays DEF FlushWrite
<1>6. CASE Delete(t)
  BY <1>6, RoundStays DEF Delete, AfterFlushBlock
<1>7. CASE FlushCache(t)
  BY <1>7, RoundStays DEF FlushCache
<1>8. CASE FlushStorage(t)
  BY <1>8, RoundStays DEF FlushStorage
<1>9. CASE FlushNext(t)
  BY <1>9, RoundStays DEF FlushNext
<1>10. CASE FlushEnds(t)
  BY <1>10, RoundStays DEF FlushEnds
<1>11. CASE Destroy(t)
  BY <1>11, RoundStays DEF Destroy
<1>12. CASE Flushed(t)
  BY <1>12, RoundStays DEF Flushed, Return
<1>13. ASSUME NEW ok \in BOOLEAN, FlushIO(t, ok) PROVE RoundInv'
  BY <1>13, RoundStays DEF FlushIO
<1> QED
  BY <1>1, <1>2, <1>3, <1>4, <1>5, <1>6, <1>7, <1>8, <1>9, <1>10, <1>11, <1>12,
     <1>13 DEF FlushStep

LEMMA RoundInv_Next == RoundInv /\ [Next]_vars => RoundInv'
<1> SUFFICES ASSUME RoundInv, [Next]_vars PROVE RoundInv'
  OBVIOUS
<1>1. ASSUME NEW t \in Threads, Start(t) \/ Step(t) PROVE RoundInv'
  BY <1>1, Round_Start, Round_IoStep, Round_EvictStep, Round_FlushStep DEF Step
<1>2. CASE UNCHANGED vars
  BY <1>2, RoundSame DEF vars, scanVars
<1> QED
  BY <1>1, <1>2 DEF Next

-----------------------------------------------------------------------------
(* For any size of apoBlocksToFree[] and any number of blocks, the rounds  *)
(* of Internalize() and FlushCacheBlock() never store past its end.        *)
THEOREM BlocksToFreeBounded == Spec => []BlocksToFreeInBounds
<1>1. RoundInv => BlocksToFreeInBounds
  BY DEF RoundInv, RoundOf, BlocksToFreeInBounds
<1> QED
  BY <1>1, RoundInv_Init, RoundInv_Next, PTL DEF Spec

-----------------------------------------------------------------------------
(* Disabled flushing.  With one thread, bDirty cannot change between the   *)
(* test of a block and its exchange, and the thread is not in a call when  *)
(* it disables flushing.                                                   *)
SingleThread == \A t, u \in Threads : t = u

(* The steps that look for a block to evict.                               *)
SearchLabels == {"scan", "exchange", "exchangeOther", "fallback"}

(* While flushing is disabled the scan remembers no dirty block, so that   *)
(* it never falls back on one, and its candidate is clean.                 *)
DisabledOf(t) ==
    /\ pc[t] = "exchange" => disablers = {} \/ ~bDirty[poTarget[t]]
    /\ pc[t] \in {"scan", "exchange"} /\ poOther[t] # Null => disablers = {}
    /\ pc[t] \in {"exchangeOther", "fallback"} => disablers = {}

DisableInv == /\ PcOK
              /\ DOMAIN poOther = Threads /\ DOMAIN poTarget = Threads
              /\ \A t \in Threads : DisabledOf(t)

(* No call is under way when the program starts.                           *)
LEMMA DisableInv_Init == Init => DisableInv
BY DEF Init, DisableInv, DisabledOf, PcOK, Labels

(* The thread moves.                                                       *)
LEMMA DisableMoves ==
    ASSUME SingleThread, DisableInv, NEW t \in Threads, NEW l \in Labels,
           pc' = [pc EXCEPT ![t] = l], DOMAIN poOther' = Threads,
           DOMAIN poTarget' = Threads, DisabledOf(t)'
    PROVE  DisableInv'
<1>1. PcOK'
  BY DEF DisableInv, PcOK
<1>2. ASSUME NEW u \in Threads PROVE DisabledOf(u)'
  <2>1. u = t
    BY DEF SingleThread
  <2> QED
    BY <2>1
<1> QED
  BY <1>1, <1>2 DEF DisableInv

(* It does not look for a block.                                           *)
LEMMA DisableAway ==
    ASSUME SingleThread, DisableInv, NEW t \in Threads,
           NEW l \in Labels \ SearchLabels,
           pc' = [pc EXCEPT ![t] = l],
           poOther' = poOther \/ DOMAIN poOther' = Threads,
           poTarget' = poTarget \/ DOMAIN poTarget' = Threads
    PROVE  DisableInv'
<1>1. pc'[t] = l /\ DOMAIN poOther' = Threads /\ DOMAIN poTarget' = Threads
  BY DEF DisableInv, PcOK
<1>2. DisabledOf(t)'
  BY <1>1 DEF DisabledOf, SearchLabels
<1> QED
  BY <1>1, <1>2, DisableMoves

(* It does nothing that the search depends on.                             *)
LEMMA DisableSame ==
    ASSUME SingleThread, DisableInv, NEW t \in Threads,
           pc[t] \notin SearchLabels, UNCHANGED <<pc, poOther, poTarget>>
    PROVE  DisableInv'
<1>1. pc' = [pc EXCEPT ![t] = pc[t]] /\ pc[t] \in Labels \ SearchLabels
  BY DEF DisableInv, PcOK
<1> QED
  BY <1>1, DisableAway

(* The start of a call, EnterDisableDirtyBlockFlush() included.            *)
LEMMA Disable_Start ==
    ASSUME SingleThread, DisableInv, NEW t \in Threads, Start(t)
    PROVE  DisableInv'
<1> USE DEF Labels, SearchLabels
<1>1. ASSUME NEW o \in Ops, NEW k \in Keys, StartIO(t, o, k) PROVE DisableInv'
  <2>1. pc[t] = "idle" /\ UNCHANGED <<poOther, poTarget>>
    BY <1>1 DEF StartIO, scanVars
  <2>2. CASE o \in {"write", "writeFull"} /\ eFlushBlockErr[BandOf(k)]
    BY <1>1, <2>1, <2>2, DisableSame DEF StartIO
  <2>3. CASE ~(o \in {"write", "writeFull"} /\ eFlushBlockErr[BandOf(k)])
    <3>1. pc' = [pc EXCEPT ![t] = IF o \in RasterIoOps THEN "enterRW" ELSE "tryGet"]
      BY <1>1, <2>3 DEF StartIO, Goto
    <3> QED
      BY <2>1, <3>1, DisableAway
  <2> QED
    BY <2>2, <2>3
<1>2. ASSUME NEW o \in Ops, NEW k \in Keys, StartFlush(t, o, k) PROVE DisableInv'
  BY <1>2, DisableAway DEF StartFlush, Goto, scanVars
<1>3. ASSUME NEW o \in Ops, StartGlobal(t, o) PROVE DisableInv'
  BY <1>3, DisableAway DEF StartGlobal, Goto, scanVars
<1>4. ASSUME NEW ds \in Datasets, Reopen(t, ds) PROVE DisableInv'
  BY <1>4, DisableSame DEF Reopen, scanVars
<1>5. CASE EnterDisableDirtyBlockFlush(t) \/ LeaveDisableDirtyBlockFlush(t)
  BY <1>5, DisableSame
     DEF EnterDisableDirtyBlockFlush, LeaveDisableDirtyBlockFlush, scanVars
<1> QED
  BY <1>1, <1>2, <1>3, <1>4, <1>5 DEF Start

(* GetLockedBlockRef() and its callers.                                     *)
LEMMA Disable_IoStep ==
    ASSUME SingleThread, DisableInv, NEW t \in Threads, IoStep(t)
    PROVE  DisableInv'
<1> USE DEF Labels, SearchLabels, Goto, scanVars
<1>1. CASE WaitPendingTasks(t)
  BY <1>1, DisableSame DEF WaitPendingTasks
<1>2. CASE EnterReadWrite(t)
  BY <1>2, DisableAway DEF EnterReadWrite
<1>3. CASE TryGetLockedBlockRef(t)
  BY <1>3, DisableAway DEF TryGetLockedBlockRef
<1>4. CASE TakeLock(t)
  BY <1>4, DisableAway DEF TakeLock
<1>5. CASE TakeLockFailed(t)
  BY <1>5, DisableAway DEF TakeLockFailed
<1>6. CASE Touch(t)
  BY <1>6, DisableAway DEF Touch
<1>7. CASE TouchLocked(t)
  BY <1>7, DisableAway DEF TouchLocked
<1>8. CASE CreateBlockFails(t)
  BY <1>8, DisableAway DEF CreateBlockFails
<1>9. CASE ReacquireReadWriteLock(t)
  BY <1>9, DisableAway DEF ReacquireReadWriteLock
<1>10. ASSUME NEW b \in Blocks, CreateBlock(t, b) PROVE DisableInv'
  BY <1>10, DisableAway DEF CreateBlock
<1>11. ASSUME NEW ok \in BOOLEAN, Allocate(t, ok) PROVE DisableInv'
  BY <1>11, DisableAway DEF Allocate
<1>12. ASSUME NEW ok \in BOOLEAN, AdoptBlock(t, ok) PROVE DisableInv'
  BY <1>12, DisableAway DEF AdoptBlock
<1>13. ASSUME NEW ok \in BOOLEAN, ReadBlock(t, ok) PROVE DisableInv'
  BY <1>13, DisableAway DEF ReadBlock
<1>14. CASE WriteLocked(t)
  BY <1>14, DisableAway DEF WriteLocked
<1>15. CASE Discard(t)
  BY <1>15, DisableAway DEF Discard
<1>16. CASE Failed(t)
  BY <1>16, DisableAway DEF Failed, Return
<1>17. ASSUME NEW more \in BOOLEAN, DropLock(t, more) PROVE DisableInv'
  BY <1>17, DisableAway DEF DropLock, Return
<1> QED
  BY <1>1, <1>2, <1>3, <1>4, <1>5, <1>6, <1>7, <1>8, <1>9, <1>10, <1>11, <1>12,
     <1>13, <1>14, <1>15, <1>16, <1>17 DEF IoStep

(* The search itself, and what follows it.                                  *)
LEMMA Disable_EvictStep ==
    ASSUME SingleThread, DisableInv, NEW t \in Threads, EvictStep(t)
    PROVE  DisableInv'
<1> USE DEF Labels, SearchLabels, Goto, scanVars
<1>1. CASE InternalizeLock(t)
  <2>1. /\ pc' = [pc EXCEPT ![t] = "scan"] /\ pc'[t] = "scan"
        /\ poOther'[t] = Null /\ DOMAIN poOther' = Threads
        /\ DOMAIN poTarget' = Threads
    BY <1>1 DEF InternalizeLock, DisableInv, PcOK
  <2> QED
    BY <2>1, DisableMoves DEF DisabledOf
<1>2. CASE Scan(t)
  <2>1. /\ pc[t] = "scan" /\ UNCHANGED <<bDirty, disablers>> /\ DisabledOf(t)
        /\ DOMAIN poOther' = Threads /\ DOMAIN poTarget' = Threads
    BY <1>2 DEF Scan, DisableInv, blockVars, cacheVars
  <2>2. CASE UNCHANGED pc
    <3>1. pc' = [pc EXCEPT ![t] = "scan"] /\ pc'[t] = "scan"
      BY <2>1, <2>2 DEF DisableInv, PcOK
    <3>2. poOther'[t] # Null => disablers = {}
      BY <1>2, <2>1, <2>2 DEF Scan, DisabledOf, DirtyFlushEnabled, DisableInv
    <3> QED
      BY <2>1, <3>1, <3>2, DisableMoves DEF DisabledOf
  <2>3. CASE ~UNCHANGED pc
    <3>1. PICK l \in {"scanned", "exchangeOther", "exchange"} :
             /\ pc' = [pc EXCEPT ![t] = l]
             /\ UNCHANGED <<poTarget, poOther>>
             /\ l = "exchangeOther" => poOther[t] # Null
             /\ l = "exchange" => ~bDirty[poTarget[t]] \/ DirtyFlushEnabled
      BY <1>2, <2>3 DEF Scan
    <3>2. pc'[t] = l
      BY <3>1 DEF DisableInv, PcOK
    <3> QED
      BY <2>1, <3>1, <3>2, DisableMoves DEF DisabledOf, DirtyFlushEnabled
  <2> QED
    BY <2>2, <2>3
<1>3. ASSUME NEW b, NEW next, NEW retry, Claim(t, b, next, retry),
             pc[t] \in SearchLabels,
             retry = "scan" => pc[t] = "exchange",
             retry = "fallback" => pc[t] \in {"exchangeOther", "fallback"},
             retry \in {"scan", "fallback"}
      PROVE  DisableInv'
  <2>1. /\ UNCHANGED <<disablers, poOther>> /\ DisabledOf(t)
        /\ DOMAIN poOther' = Threads /\ DOMAIN poTarget' = Threads
    BY <1>3 DEF Claim, DisableInv, cacheVars
  <2>2. PICK l \in {"detach", retry} : pc' = [pc EXCEPT ![t] = l]
    BY <1>3 DEF Claim
  <2>3. pc'[t] = l
    BY <1>3, <2>2 DEF DisableInv, PcOK
  <2> QED
    BY <1>3, <2>1, <2>2, <2>3, DisableMoves DEF DisabledOf
<1>4. CASE Exchange(t)
  BY <1>3, <1>4 DEF Exchange
<1>5. CASE ExchangeOther(t)
  BY <1>3, <1>5 DEF ExchangeOther
<1>6. CASE Fallback(t)
  BY <1>3, <1>6 DEF Fallback
<1>7. CASE FallbackEnds(t)
  BY <1>7, DisableAway DEF FallbackEnds
<1>8. CASE Detach(t)
  BY <1>8, DisableAway DEF Detach, DisableInv
<1>9. CASE UnreferenceBlock(t)
  <2>1. /\ poOther'[t] = Null /\ DOMAIN poOther' = Threads
        /\ DOMAIN poTarget' = Threads
    BY <1>9 DEF UnreferenceBlock, DisableInv
  <2>2. PICK l \in {"scan", "scanned"} : pc' = [pc EXCEPT ![t] = l]
    BY <1>9 DEF UnreferenceBlock
  <2>3. pc'[t] = l
    BY <2>2 DEF DisableInv, PcOK
  <2> QED
    BY <2>1, <2>2, <2>3, DisableMoves DEF DisabledOf
<1>10. CASE Scanned(t)
  BY <1>10, DisableAway DEF Scanned, DisableInv
<1>11. CASE FreeNext(t)
  BY <1>11, DisableAway DEF FreeNext
<1>12. CASE Release(t)
  BY <1>12, DisableAway DEF Release
<1>13. CASE KeepAliveDec(t)
  BY <1>13, DisableAway DEF KeepAliveDec
<1>14. CASE FreeEnds(t)
  BY <1>14, DisableAway DEF FreeEnds
<1>15. ASSUME NEW ok \in BOOLEAN, WriteEvicted(t, ok) PROVE DisableInv'
  BY <1>15, DisableAway DEF WriteEvicted
<1>16. CASE SetCacheMaxLoop(t)
  BY <1>16, DisableAway DEF SetCacheMaxLoop
<1>17. CASE FlushCacheBlock(t)
  BY <1>17, DisableAway DEF FlushCacheBlock, DisableInv
<1>18. CASE FlushScan(t)
  <2>1. DOMAIN poOther' = Threads /\ DOMAIN poTarget' = Threads
    BY <1>18 DEF FlushScan, DisableInv
  <2>2. PICK l \in {"flushScan", "flushExchange"} : pc' = [pc EXCEPT ![t] = l]
    BY <1>18 DEF FlushScan, DisableInv, PcOK
  <2> QED
    BY <2>1, <2>2, DisableAway
<1>19. CASE FlushExchange(t)
  <2>1. DOMAIN poOther' = Threads /\ DOMAIN poTarget' = Threads
    BY <1>19 DEF FlushExchange, Claim, DisableInv
  <2>2. PICK l \in {"detach", "flushScan"} : pc' = [pc EXCEPT ![t] = l]
    BY <1>19 DEF FlushExchange, Claim
  <2> QED
    BY <2>1, <2>2, DisableAway
<1>20. CASE FlushScanEnds(t)
  BY <1>20, DisableAway DEF FlushScanEnds, DisableInv
<1>21. CASE FlushedOne(t)
  BY <1>21, DisableAway DEF FlushedOne
<1> QED
  BY <1>1, <1>2, <1>4, <1>5, <1>6, <1>7, <1>8, <1>9, <1>10, <1>11, <1>12, <1>13,
     <1>14, <1>15, <1>16, <1>17, <1>18, <1>19, <1>20, <1>21 DEF EvictStep

(* FlushBlock(), FlushCache() and the destructors.                          *)
LEMMA Disable_FlushStep ==
    ASSUME SingleThread, DisableInv, NEW t \in Threads, FlushStep(t)
    PROVE  DisableInv'
<1> USE DEF Labels, SearchLabels, Goto, scanVars
<1>1. CASE FlushBlock(t)
  BY <1>1, DisableAway DEF FlushBlock, AfterFlushBlock
<1>2. CASE ClaimFlush(t)
  BY <1>2, DisableAway DEF ClaimFlush
<1>3. CASE FlushWait(t)
  BY <1>3, DisableAway DEF FlushWait, AfterFlushBlock
<1>4. CASE FlushDetach(t)
  BY <1>4, DisableAway DEF FlushDetach
<1>5. CASE FlushWrite(t)
  BY <1>5, DisableAway DEF FlushWrite
<1>6. CASE Delete(t)
  BY <1>6, DisableAway DEF Delete, AfterFlushBlock
<1>7. CASE FlushCache(t)
  BY <1>7, DisableAway DEF FlushCache
<1>8. CASE FlushStorage(t)
  BY <1>8, DisableAway DEF FlushStorage
<1>9. CASE FlushNext(t)
  BY <1>9, DisableAway DEF FlushNext
<1>10. CASE FlushEnds(t)
  BY <1>10, DisableAway DEF FlushEnds
<1>11. CASE Destroy(t)
  BY <1>11, DisableAway DEF Destroy
<1>12. CASE Flushed(t)
  BY <1>12, DisableAway DEF Flushed, Return
<1>13. ASSUME NEW ok \in BOOLEAN, FlushIO(t, ok) PROVE DisableInv'
  BY <1>13, DisableAway DEF FlushIO
<1> QED
  BY <1>1, <1>2, <1>3, <1>4, <1>5, <1>6, <1>7, <1>8, <1>9, <1>10, <1>11, <1>12,
     <1>13 DEF FlushStep

(* Every step preserves it.                                                *)
LEMMA DisableInv_Next == SingleThread /\ DisableInv /\ [Next]_vars => DisableInv'
<1> SUFFICES ASSUME SingleThread, DisableInv, [Next]_vars PROVE DisableInv'
  OBVIOUS
<1>1. ASSUME NEW t \in Threads, Start(t) \/ Step(t) PROVE DisableInv'
  BY <1>1, Disable_Start, Disable_IoStep, Disable_EvictStep, Disable_FlushStep
     DEF Step
<1>2. CASE UNCHANGED vars
  BY <1>2 DEF DisableInv, DisabledOf, PcOK, vars, scanVars, cacheVars, blockVars
<1> QED
  BY <1>1, <1>2 DEF Next

(* The steps of other labels do not happen at the exchange.                *)
LEMMA OnlyExchange ==
    ASSUME NEW t \in Threads, pc[t] = "exchange", Start(t) \/ Step(t)
    PROVE  Exchange(t)
<1>1. ~Start(t)
  BY DEF Start, StartIO, StartFlush, StartGlobal, Reopen,
         EnterDisableDirtyBlockFlush, LeaveDisableDirtyBlockFlush
<1>2. ~IoStep(t)
  BY DEF IoStep,
         WaitPendingTasks, EnterReadWrite, TryGetLockedBlockRef, TakeLock,
         TakeLockFailed, Touch, TouchLocked, CreateBlockFails,
         ReacquireReadWriteLock, CreateBlock, Allocate, AdoptBlock,
         ReadBlock, WriteLocked, Discard, Failed, DropLock
<1>3. EvictStep(t) => Exchange(t)
  BY DEF EvictStep,
         InternalizeLock, Scan, ExchangeOther, Fallback, FallbackEnds,
         Detach, UnreferenceBlock, Scanned, FreeNext, Release, KeepAliveDec,
         FreeEnds, WriteEvicted, SetCacheMaxLoop, FlushCacheBlock, FlushScan,
         FlushExchange, FlushScanEnds, FlushedOne
<1>4. ~FlushStep(t)
  BY DEF FlushStep,
         FlushBlock, ClaimFlush, FlushWait, FlushDetach, FlushWrite, Delete,
         FlushCache, FlushStorage, FlushNext, FlushEnds, Destroy, Flushed,
         FlushIO
<1> QED
  BY <1>1, <1>2, <1>3, <1>4 DEF Step

(* What the thread claims in its search is clean, or flushing is enabled.  *)
LEMMA ClaimsClean ==
    ASSUME SingleThread, DisableInv, [Next]_vars, NEW t \in Threads,
           pc[t] \in {"exchange", "exchangeOther", "fallback"}, pc'[t] = "detach"
    PROVE  disablers = {} \/ ~bDirty[poTarget'[t]]
<1>1. DisabledOf(t) /\ DOMAIN poTarget = Threads
  BY DEF DisableInv
<1>2. CASE pc[t] = "exchange"
  <2>1. Exchange(t)
    <3>1. CASE Next
      <4>1. PICK u \in Threads : Start(u) \/ Step(u)
        BY <3>1 DEF Next
      <4>2. u = t
        BY DEF SingleThread
      <4> QED
        BY <1>2, <4>1, <4>2, OnlyExchange
    <3>2. CASE UNCHANGED vars
      BY <1>2, <3>2 DEF vars
    <3> QED
      BY <3>1, <3>2
  <2>2. poTarget'[t] = poTarget[t]
    <3>1. CASE Claimable(poTarget[t])
      BY <1>1, <2>1, <3>1 DEF Exchange, Claim
    <3>2. CASE ~Claimable(poTarget[t])
      <4>1. pc' = [pc EXCEPT ![t] = "scan"]
        BY <2>1, <3>2 DEF Exchange, Claim, Goto
      <4>2. pc'[t] = "scan"
        BY <4>1 DEF DisableInv, PcOK
      <4> QED
        BY <4>2
    <3> QED
      BY <3>1, <3>2
  <2> QED
    BY <1>1, <1>2, <2>2 DEF DisabledOf
<1>3. CASE pc[t] # "exchange"
  BY <1>1, <1>3 DEF DisabledOf
<1> QED
  BY <1>2, <1>3

(* With one thread, for any number of datasets, bands and blocks: while    *)
(* EnterDisableDirtyBlockFlush() is in force, Internalize() claims no      *)
(* dirty block, neither as a candidate, nor as the remembered block of     *)
(* another dataset, nor in its last resort.                                *)
THEOREM DisabledFlushIsKept == SingleThread => (Spec => DisabledFlushKeepsDirty)
<1> SUFFICES ASSUME SingleThread PROVE Spec => DisabledFlushKeepsDirty
  OBVIOUS
<1>1. DisableInv /\ [Next]_vars =>
          [\A t \in Threads :
             pc[t] \in {"exchange", "exchangeOther", "fallback"} /\ pc'[t] = "detach"
               => disablers = {} \/ ~bDirty[poTarget'[t]]]_vars
  BY ClaimsClean
<1>2. DisableInv /\ [Next]_vars => DisableInv'
  BY DisableInv_Next
<1> QED
  BY <1>1, <1>2, DisableInv_Init, PTL DEF Spec, DisabledFlushKeepsDirty

HIDE NamesAssumption

-----------------------------------------------------------------------------
(* The calls and what a thread holds in them *)

OwnerOps == IoOps \cup FlushOps \cup {"flushBlock"}

IoLabels ==
    {"enterRW", "tryGet", "takeLock", "takeLockFailed", "touch", "touchLocked",
     "create", "internalize", "scan", "exchange", "exchangeOther", "fallback",
     "allocate", "reacquire", "adopt", "readRW", "locked", "drop", "discard",
     "discarded", "failed"}
RoundEnd == {"free", "write", "release", "keepAlive"}
FlushLabels == {"claimFlush", "flushWait", "flushDetach", "flushWrite",
                "flushIO", "delete"}
GlobalLabels == {"setCacheMax", "flushCacheBlock", "flushScan",
                 "flushExchange", "flushedOne"}

(* The call that thread t is in.                                           *)
OpOf(t) ==
    /\ pc[t] = "idle" => op[t] = "none"
    /\ pc[t] \in IoLabels => op[t] \in IoOps
    /\ pc[t] \in {"detach", "unreference", "scanned"} \cup RoundEnd =>
          op[t] \in IoOps \cup GlobalOps
    /\ pc[t] = "flushBlock" => op[t] \in IoOps \cup {"flushBlock"}
    /\ pc[t] \in FlushLabels => op[t] \in OwnerOps
    /\ pc[t] \in {"flushCache", "flushStorage", "flushNext"} => op[t] \in FlushOps
    /\ pc[t] = "destroy" => op[t] \in {"close", "suppress"}
    /\ pc[t] = "flushed" => op[t] \in FlushOps \cup {"flushBlock"} \cup GlobalOps
    /\ pc[t] \in GlobalLabels => op[t] \in GlobalOps

-----------------------------------------------------------------------------
(* Sequences without repetitions, as the sets of their elements.           *)
NoDuplicates(s) == \A i, j \in DOMAIN s : s[i] = s[j] => i = j

(* The elements of a sequence are of the type of the sequence, and each    *)
(* has a position.                                                         *)
LEMMA Elements ==
    ASSUME NEW S, NEW s \in Seq(S)
    PROVE  /\ \A x : x \in ToSet(s) <=> \E i \in 1..Len(s) : x = s[i]
           /\ NoDuplicates(s) <=> \A i, j \in 1..Len(s) : s[i] = s[j] => i = j
           /\ ToSet(s) \subseteq S
           /\ Len(s) \in Nat
BY DEF ToSet, NoDuplicates

(* First(S) is the least element of a finite set of numbers.               *)
LEMMA FirstIsLeast ==
    ASSUME NEW S, S \subseteq Nat, S # {}
    PROVE  First(S) \in S /\ \A y \in S : First(S) <= y
<1>r. PICK R : R = OpToRel(<, Nat)
  OBVIOUS
<1>0. IsWellFoundedOn(R, Nat)
  BY <1>r, NatLessThanWellFounded
<1>1. \E x \in S : \A y \in S : ~(<<y, x>> \in R)
  BY <1>0, WFMin
<1>2. \E x \in S : \A y \in S : x <= y
  <2>1. R = {p \in Nat \X Nat : p[1] < p[2]}
    BY <1>r DEF OpToRel
  <2>2. ASSUME NEW x \in Nat, NEW y \in Nat, y < x PROVE <<y, x>> \in R
    BY <2>1, <2>2
  <2>3. PICK x \in S : \A y \in S : ~(<<y, x>> \in R)
    BY <1>1
  <2>4. \A y \in S : ~(y < x)
    BY <2>2, <2>3
  <2>5. \A y \in S : x <= y
    BY <2>4
  <2> QED BY <2>5
<1> QED
  BY <1>2 DEF First

(* The loops over the blocks of a band skip no offset: none lies between   *)
(* an offset and the next one.                                             *)
LEMMA NextOffProperties ==
    ASSUME NEW o \in Offs
    PROVE  /\ NextOff(o) \in Offs \cup {0}
           /\ \A n \in Offs : NextOff(o) = 0 \/ n < NextOff(o) => n <= o
<1> DEFINE S == {n \in Offs : n > o}
<1>1. S \subseteq Nat /\ Offs \subseteq Nat
  BY BandsAssumption
<1>2. CASE S = {}
  <2>1. NextOff(o) = 0
    BY <1>2 DEF NextOff
  <2>2. \A n \in Offs : ~(n > o)
    BY <1>2
  <2> QED
    BY <1>1, <2>1, <2>2
<1>3. CASE S # {}
  <2>1. NextOff(o) = First(S)
    BY <1>3 DEF NextOff
  <2>2. First(S) \in S /\ \A y \in S : First(S) <= y
    BY <1>1, <1>3, FirstIsLeast
  <2>3. NextOff(o) \in Offs /\ NextOff(o) # 0
    BY <2>1, <2>2, BandsAssumption
  <2> QED
    BY <1>1, <2>1, <2>2, <2>3
<1> QED
  BY <1>2, <1>3

(* Detach_unlocked() takes one block out of the list and keeps the others. *)
LEMMA DetachedProperties ==
    ASSUME NEW S, NEW s \in Seq(S), NoDuplicates(s), NEW b
    PROVE  /\ Detached(s, b) \in Seq(S)
           /\ NoDuplicates(Detached(s, b))
           /\ ToSet(Detached(s, b)) = ToSet(s) \ {b}
<1>1. CASE \E i \in DOMAIN s : s[i] = b
  <2>p. PICK p : p = PositionOf(s, b)
    OBVIOUS
  <2>1. p \in 1..Len(s) /\ s[p] = b /\ Len(s) \in Nat
    BY <1>1, <2>p DEF PositionOf
  <2>u. PICK u : u = SubSeq(s, 1, p - 1)
    OBVIOUS
  <2>v. PICK v : v = SubSeq(s, p + 1, Len(s))
    OBVIOUS
  <2>w. PICK w : w = u \o v
    OBVIOUS
  <2>2. Detached(s, b) = w
    BY <1>1, <2>p, <2>u, <2>v, <2>w DEF Detached, RemoveAt
  <2>3. /\ u \in Seq(S) /\ Len(u) = p - 1 /\ \A i \in 1..p - 1 : u[i] = s[i]
        /\ v \in Seq(S) /\ Len(v) = Len(s) - p
        /\ \A i \in 1..Len(s) - p : v[i] = s[p + i]
    BY <2>1, <2>u, <2>v
  <2>4. /\ w \in Seq(S) /\ Len(w) = Len(s) - 1
        /\ \A i \in 1..Len(s) - 1 : w[i] = IF i < p THEN s[i] ELSE s[i + 1]
    <3>1. /\ w \in Seq(S) /\ Len(w) = Len(u) + Len(v)
          /\ \A i \in 1..Len(u) + Len(v) :
               w[i] = IF i <= Len(u) THEN u[i] ELSE v[i - Len(u)]
      BY <2>3, <2>w, ConcatProperties
    <3>2. Len(u) + Len(v) = Len(s) - 1
      BY <2>1, <2>3
    <3>3. ASSUME NEW i \in 1..Len(s) - 1
          PROVE  w[i] = IF i < p THEN s[i] ELSE s[i + 1]
      <4>0. i \in 1..Len(u) + Len(v) /\ i \in Int /\ p \in Int
        BY <2>1, <3>2
      <4>1. CASE i < p
        <5>1. i \in 1..p - 1 /\ i <= Len(u)
          BY <2>1, <2>3, <4>1
        <5>2. w[i] = u[i]
          BY <3>1, <4>0, <5>1
        <5> QED BY <2>3, <4>1, <5>1, <5>2
      <4>2. CASE ~(i < p)
        <5>1. i - (p - 1) \in 1..Len(s) - p /\ p + (i - (p - 1)) = i + 1
          BY <2>1, <4>2
        <5>2. w[i] = v[i - (p - 1)]
          <6>1. ~(i <= Len(u)) /\ Len(u) = p - 1
            BY <2>1, <2>3, <4>2
          <6> QED BY <3>1, <4>0, <6>1
        <5> QED BY <2>3, <4>2, <5>1, <5>2
      <4> QED BY <4>1, <4>2
    <3> QED BY <3>1, <3>2, <3>3
  <2>5. /\ \A i, j \in 1..Len(s) : s[i] = s[j] => i = j
        /\ \A x : x \in ToSet(s) <=> \E i \in 1..Len(s) : x = s[i]
        /\ \A x : x \in ToSet(w) <=> \E i \in 1..Len(s) - 1 : x = w[i]
    BY <2>4, Elements
  <2>6. NoDuplicates(w)
    <3>1. \A i, j \in 1..Len(s) - 1 : w[i] = w[j] => i = j
      BY <2>1, <2>4, <2>5
    <3> QED BY <2>4, <3>1, Elements
  <2>7. ASSUME NEW x \in ToSet(w) PROVE x \in ToSet(s) \ {b}
    <3>1. PICK i \in 1..Len(s) - 1 : x = w[i]
      BY <2>5
    <3>2. PICK j \in 1..Len(s) : j # p /\ x = s[j]
      BY <2>1, <2>4, <3>1
    <3> QED BY <2>1, <2>5, <3>2
  <2>8. ASSUME NEW x \in ToSet(s), x # b PROVE x \in ToSet(w)
    <3>1. PICK i \in 1..Len(s) : x = s[i] /\ i # p
      BY <2>1, <2>5, <2>8
    <3>2. CASE i < p
      <4>1. i \in 1..Len(s) - 1 /\ w[i] = x
        BY <2>1, <2>4, <3>1, <3>2
      <4> QED BY <2>5, <4>1
    <3>3. CASE i > p
      <4>1. i - 1 \in 1..Len(s) - 1 /\ (i - 1) + 1 = i /\ ~(i - 1 < p)
        BY <2>1, <3>1, <3>3
      <4>2. w[i - 1] = x
        BY <2>4, <3>1, <4>1
      <4> QED BY <2>5, <4>1, <4>2
    <3> QED BY <2>1, <3>1, <3>2, <3>3
  <2> QED
    BY <2>2, <2>4, <2>6, <2>7, <2>8
<1>2. CASE ~\E i \in DOMAIN s : s[i] = b
  <2>1. Detached(s, b) = s /\ b \notin ToSet(s)
    BY <1>2 DEF Detached, ToSet
  <2> QED BY <2>1
<1> QED BY <1>1, <1>2

(* A block pushed in front of a list is in it, with the ones that were     *)
(* there.                                                                  *)
LEMMA PushProperties ==
    ASSUME NEW S, NEW s \in Seq(S), NEW b \in S
    PROVE  /\ <<b>> \o s \in Seq(S)
           /\ ToSet(<<b>> \o s) = ToSet(s) \cup {b}
           /\ NoDuplicates(s) /\ b \notin ToSet(s) => NoDuplicates(<<b>> \o s)
<1>w. PICK w : w = <<b>> \o s
  OBVIOUS
<1>1. /\ w \in Seq(S) /\ Len(w) = Len(s) + 1 /\ Len(s) \in Nat
      /\ \A i \in 1..Len(s) + 1 : w[i] = IF i = 1 THEN b ELSE s[i - 1]
  BY <1>w
<1>2. /\ \A x : x \in ToSet(s) <=> \E i \in 1..Len(s) : x = s[i]
      /\ \A x : x \in ToSet(w) <=> \E i \in 1..Len(s) + 1 : x = w[i]
  BY <1>1, Elements
<1>3. ASSUME NEW x \in ToSet(w) PROVE x \in ToSet(s) \cup {b}
  <2>1. PICK i \in 1..Len(s) + 1 : x = w[i]
    BY <1>2
  <2>2. i = 1 \/ i - 1 \in 1..Len(s)
    BY <1>1
  <2> QED BY <1>1, <1>2, <2>1, <2>2
<1>4. ASSUME NEW x \in ToSet(s) PROVE x \in ToSet(w)
  <2>1. PICK i \in 1..Len(s) : x = s[i]
    BY <1>2
  <2>2. i + 1 \in 1..Len(s) + 1 /\ (i + 1) - 1 = i /\ i + 1 # 1
    BY <1>1
  <2>3. w[i + 1] = x
    BY <1>1, <2>1, <2>2
  <2> QED BY <1>2, <2>2, <2>3
<1>5. b \in ToSet(w)
  <2>1. 1 \in 1..Len(s) + 1 /\ w[1] = b
    BY <1>1
  <2> QED BY <1>2, <2>1
<1>6. ASSUME NoDuplicates(s), b \notin ToSet(s) PROVE NoDuplicates(w)
  <2>1. /\ \A i \in 1..Len(s) : s[i] # b
        /\ \A i, j \in 1..Len(s) : s[i] = s[j] => i = j
    BY <1>2, <1>6, Elements
  <2>2. ASSUME NEW i \in 1..Len(s) + 1, NEW j \in 1..Len(s) + 1, w[i] = w[j]
        PROVE  i = j
    <3>1. /\ i # 1 => i - 1 \in 1..Len(s) /\ w[i] = s[i - 1]
          /\ j # 1 => j - 1 \in 1..Len(s) /\ w[j] = s[j - 1]
      BY <1>1
    <3>2. i = 1 <=> j = 1
      BY <1>1, <2>1, <2>2, <3>1
    <3>3. i # 1 /\ j # 1 => i - 1 = j - 1
      BY <2>1, <2>2, <3>1
    <3> QED BY <3>2, <3>3
  <2> QED BY <1>1, <2>2, Elements
<1> QED BY <1>w, <1>1, <1>3, <1>4, <1>5, <1>6

(* Touch_unlocked() leaves the touched block and the blocks that were      *)
(* there in the list.                                                      *)
LEMMA TouchedProperties ==
    ASSUME NEW S, NEW s \in Seq(S), NoDuplicates(s), NEW b \in S
    PROVE  /\ Touched(s, b) \in Seq(S)
           /\ NoDuplicates(Touched(s, b))
           /\ ToSet(Touched(s, b)) = ToSet(s) \cup {b}
BY DetachedProperties, PushProperties DEF Touched

(* Taking the head of a sequence without repetitions takes one element out *)
(* of it.                                                                  *)
LEMMA TailProperties ==
    ASSUME NEW S, NEW s \in Seq(S), s # <<>>
    PROVE  /\ Tail(s) \in Seq(S) /\ Head(s) \in S
           /\ Head(s) \in ToSet(s) /\ ToSet(Tail(s)) \subseteq ToSet(s)
           /\ ToSet(s) \subseteq ToSet(Tail(s)) \cup {Head(s)}
           /\ NoDuplicates(s) =>
                NoDuplicates(Tail(s)) /\ ToSet(Tail(s)) = ToSet(s) \ {Head(s)}
<1>1. /\ Tail(s) \in Seq(S) /\ Len(Tail(s)) = Len(s) - 1 /\ Len(s) \in Nat \ {0}
      /\ \A i \in 1..Len(s) - 1 : Tail(s)[i] = s[i + 1]
      /\ Head(s) = s[1] /\ s[1] \in S
  OBVIOUS
<1>2. Head(s) \in ToSet(s)
  <2>1. 1 \in DOMAIN s
    BY <1>1
  <2> QED BY <1>1, <2>1 DEF ToSet
<1>3. ASSUME NEW x \in ToSet(Tail(s)) PROVE x \in ToSet(s)
  <2>1. PICK i \in 1..Len(s) - 1 : x = Tail(s)[i]
    BY <1>1 DEF ToSet
  <2>2. i + 1 \in 1..Len(s) /\ x = s[i + 1]
    BY <1>1, <2>1
  <2> QED BY <2>2 DEF ToSet
<1>4. ASSUME NEW x \in ToSet(s), x # Head(s) PROVE x \in ToSet(Tail(s))
  <2>1. PICK i \in 1..Len(s) : x = s[i]
    BY DEF ToSet
  <2>2. i - 1 \in 1..Len(s) - 1 /\ (i - 1) + 1 = i
    BY <1>1, <1>4, <2>1
  <2>3. Tail(s)[i - 1] = x
    BY <1>1, <2>1, <2>2
  <2> QED BY <1>1, <2>2, <2>3, Elements
<1>5. ASSUME NoDuplicates(s)
      PROVE  NoDuplicates(Tail(s)) /\ Head(s) \notin ToSet(Tail(s))
  <2>1. NoDuplicates(Tail(s))
    BY <1>1, <1>5 DEF NoDuplicates
  <2>2. \A i \in 1..Len(s) - 1 : Tail(s)[i] # s[1]
    BY <1>1, <1>5 DEF NoDuplicates
  <2> QED BY <1>1, <2>1, <2>2 DEF ToSet
<1> QED BY <1>1, <1>2, <1>3, <1>4, <1>5

(* Storing a block in apoBlocksToFree[] adds one element to it.            *)
LEMMA AppendedProperties ==
    ASSUME NEW S, NEW s \in Seq(S), NEW b \in S
    PROVE  /\ Append(s, b) \in Seq(S) /\ Append(s, b) # <<>>
           /\ ToSet(Append(s, b)) = ToSet(s) \cup {b}
           /\ Append(s, b)[Len(Append(s, b))] = b
           /\ NoDuplicates(s) /\ b \notin ToSet(s) => NoDuplicates(Append(s, b))
<1>1. /\ Append(s, b) \in Seq(S) /\ Len(Append(s, b)) = Len(s) + 1 /\ Len(s) \in Nat
      /\ \A i \in 1..Len(s) + 1 : Append(s, b)[i] = IF i = Len(s) + 1 THEN b ELSE s[i]
  OBVIOUS
<1>2. ASSUME NEW x PROVE x \in ToSet(Append(s, b)) <=> x \in ToSet(s) \cup {b}
  <2>1. ASSUME x \in ToSet(Append(s, b)) PROVE x \in ToSet(s) \cup {b}
    <3>1. PICK i \in 1..Len(s) + 1 : x = Append(s, b)[i]
      BY <1>1, <2>1 DEF ToSet
    <3> QED BY <1>1, <3>1 DEF ToSet
  <2>2. ASSUME x \in ToSet(s) PROVE x \in ToSet(Append(s, b))
    <3>1. PICK i \in 1..Len(s) : x = s[i]
      BY <2>2 DEF ToSet
    <3>2. i \in 1..Len(s) + 1 /\ Append(s, b)[i] = x
      BY <1>1, <3>1
    <3> QED BY <1>1, <3>2 DEF ToSet
  <2>3. b \in ToSet(Append(s, b))
    <3>1. Len(s) + 1 \in 1..Len(s) + 1 /\ Append(s, b)[Len(s) + 1] = b
      BY <1>1
    <3> QED BY <1>1, <3>1 DEF ToSet
  <2> QED BY <2>1, <2>2, <2>3
<1>3. ASSUME NoDuplicates(s), b \notin ToSet(s) PROVE NoDuplicates(Append(s, b))
  <2>1. \A i \in 1..Len(s) : s[i] # b
    BY <1>3 DEF ToSet
  <2> QED BY <1>1, <1>3, <2>1 DEF NoDuplicates
<1>4. Append(s, b)[Len(Append(s, b))] = b /\ Append(s, b) # <<>>
  BY <1>1
<1> QED BY <1>1, <1>2, <1>3, <1>4

(* The last block of apoBlocksToFree[] is one of its blocks.               *)
LEMMA LastProperties ==
    ASSUME NEW S, NEW s \in Seq(S), s # <<>>
    PROVE  s[Len(s)] \in ToSet(s) /\ ToSet(s) \subseteq S
<1>1. Len(s) \in DOMAIN s
  OBVIOUS
<1> QED BY <1>1 DEF ToSet

(* The scan pointers: the neighbour of a block, and the end of the list.   *)
LEMMA PreviousProperties ==
    ASSUME lru \in Seq(Blocks), NoDuplicates(lru), NEW b \in ToSet(lru)
    PROVE  PreviousOf(b) \in (ToSet(lru) \ {b}) \cup {Null}
<1>1. PICK p : p = PositionOf(lru, b)
  OBVIOUS
<1>2. p \in 1..Len(lru) /\ lru[p] = b /\ Len(lru) \in Nat
  BY <1>1 DEF PositionOf, ToSet
<1>3. CASE p = 1
  BY <1>1, <1>3 DEF PreviousOf
<1>4. CASE p # 1
  <2>1. PreviousOf(b) = lru[p - 1] /\ p - 1 \in 1..Len(lru)
    BY <1>1, <1>2, <1>4 DEF PreviousOf
  <2>2. lru[p - 1] # b
    BY <1>2, <2>1 DEF NoDuplicates
  <2> QED BY <2>1, <2>2 DEF ToSet
<1> QED BY <1>3, <1>4

(* poOldest is a block of the list, or nullptr when the list is empty.     *)
LEMMA OldestProperties ==
    ASSUME lru \in Seq(Blocks)
    PROVE  Oldest \in ToSet(lru) \cup {Null}
BY LastProperties DEF Oldest

(* A deleted block has no band.                                            *)
LEMMA NoKeyIsNoKey == NoKey \notin Keys
BY DEF NoKey, Keys
-----------------------------------------------------------------------------
(* The types, except that the pixels on disk may be NoData and that the    *)
(* band of a released block may be that of a deleted one: that they are    *)
(* not needs the ownership of blocks.                                      *)
BlockTypes ==
    /\ nLockCount \in [Blocks -> Int]
    /\ bDirty \in [Blocks -> BOOLEAN]
    /\ pData \in [Blocks -> Values \cup {NoData}]
    /\ key \in [Blocks -> Keys \cup {NoKey}]
    /\ bMustDetach \in [Blocks -> BOOLEAN]
CacheTypes ==
    /\ lru \in Seq(Blocks) /\ NoDuplicates(lru)
    /\ nCacheUsed \in Int
    /\ nCacheMax \in CacheMaxes
    /\ hRBLock \in Threads \cup {NoThread}
    /\ disablers \subseteq Threads
BandTypes ==
    /\ slot \in [Keys -> BlockOrNull]
    /\ psListBlocksToFree \in [Bands -> Seq(Blocks)]
    /\ nKeepAliveCounter \in [Bands -> Int]
    /\ nDirtyBlocks \in [Bands -> Int]
    /\ eFlushBlockErr \in [Bands -> BOOLEAN]
    /\ alive \in [Bands -> BOOLEAN]
DataTypes ==
    /\ hMutex \in [Datasets -> Threads \cup {NoThread}]
    /\ disk \in [Keys -> Values \cup {NoData}]
    /\ last \in [Keys -> Values \cup {NoData}]
CallTypes ==
    /\ pc \in [Threads -> Labels]
    /\ op \in [Threads -> AllOps \cup {"none"}]
    /\ at \in [Threads -> Keys \cup {NoKey}]
    /\ poBlock \in [Threads -> BlockOrNull]
ScanTypes ==
    /\ poTarget \in [Threads -> BlockOrNull]
    /\ poOther \in [Threads -> BlockOrNull]
    /\ toFree \in [Threads -> Seq(Blocks)]
    /\ bLoopAgain \in [Threads -> BOOLEAN]
    /\ bFirstIter \in [Threads -> BOOLEAN]
    /\ bNewData \in [Threads -> BOOLEAN]
    /\ nSaved \in [Threads -> Int]
    /\ keptBand \in [Threads -> Bands \cup {0, BandOf(NoKey)}]
FlushTypes ==
    /\ waitFor \in [Threads -> SUBSET Bands]
    /\ iOff \in [Threads -> Offs \cup {0}]
    /\ oOldSet \in [Threads -> [Offs -> BlockOrNull]]
    /\ bInDestructor \in [Threads -> BOOLEAN]
    /\ eGlobalErr \in [Threads -> BOOLEAN]
Types == /\ BlockTypes /\ CacheTypes /\ BandTypes /\ DataTypes
         /\ CallTypes /\ ScanTypes /\ FlushTypes

(* Thread t will use poBlock[t].                                           *)
HasPointer(t) ==
    \/ HasLock(t)
    \/ pc[t] \in {"takeLock", "takeLockFailed", "discarded"} \cup FlushLabels

(* The call that thread t is in, the block it is about, its pointers and   *)
(* the band it keeps alive.                                                *)
CallOf(t) ==
    /\ OpOf(t)
    /\ op[t] \in OwnerOps => at[t] \in Keys /\ Owner[DatasetOfKey(at[t])] = t
    /\ HasPointer(t) => poBlock[t] \in Blocks
    /\ keptBand[t] # 0 => pc[t] = "keepAlive"

(* The block that a scan has just put in apoBlocksToFree[].                *)
LastFreed(t) == toFree[t][Len(toFree[t])]

(* The pointers of a scan point into the list, but for the remembered      *)
(* block after it was itself detached.                                     *)
ScanOf(t) ==
    /\ pc[t] \notin CriticalLabels => poTarget[t] = Null /\ poOther[t] = Null
    /\ pc[t] \in {"exchange", "detach", "flushExchange"} => poTarget[t] # Null
    /\ pc[t] = "exchangeOther" => poOther[t] # Null
    /\ op[t] \notin IoOps => poOther[t] = Null
    /\ poTarget[t] \in ToSet(lru) \cup {Null}
    /\ \/ poOther[t] \in ToSet(lru) \cup {Null}
       \/ pc[t] = "unreference" /\ poOther[t] = LastFreed(t)
    /\ pc[t] = "unreference" => toFree[t] # <<>>

ControlInv ==
    /\ MutexInv /\ RoundInv
    /\ Types
    /\ \A t \in Threads : CallOf(t)
    /\ \A t \in Threads : ScanOf(t)

(* The labels of calls on a band, with their block; those at which poBlock *)
(* is used.                                                                *)
OwnerLabels == IoLabels \cup FlushLabels
    \cup {"flushBlock", "flushCache", "flushStorage", "flushNext", "destroy"}
PointerLabels == FlushLabels \cup
    {"takeLock", "takeLockFailed", "touch", "touchLocked", "allocate",
     "reacquire", "adopt", "readRW", "locked", "drop", "discard", "discarded"}

(* A call on a band has a block of that band, in a dataset that the thread *)
(* uses.                                                                   *)
LEMMA AtIsKey ==
    ASSUME NEW t \in Threads, CallOf(t),
           pc[t] \in OwnerLabels \/ op[t] \in OwnerOps
    PROVE  /\ op[t] \in OwnerOps
           /\ at[t] \in Keys /\ BandOf(at[t]) \in Bands /\ at[t][2] \in Offs
           /\ Owner[DatasetOfKey(at[t])] = t
<1>1. op[t] \in OwnerOps
  BY DEF CallOf, OpOf, OwnerLabels, OwnerOps, IoLabels, FlushLabels, IoOps,
         ReadOps, WriteOps, FlushOps
<1>2. at[t] \in Keys /\ Owner[DatasetOfKey(at[t])] = t
  BY <1>1 DEF CallOf
<1> QED
  BY <1>1, <1>2 DEF Keys, BandOf

(* Where a step uses poBlock, it points to a block object.                 *)
LEMMA PointerIsBlock ==
    ASSUME NEW t \in Threads, CallOf(t),
           \/ pc[t] \in PointerLabels
           \/ op[t] \in IoOps /\ pc[t] \in EvictLabels
    PROVE  poBlock[t] \in Blocks
BY DEF CallOf, HasPointer, HasLock, Internalizing, PointerLabels, FlushLabels

(* A key is a band and an offset.                                          *)
LEMMA KeyParts ==
    /\ \A k \in Keys : BandOf(k) \in Bands /\ k[2] \in Offs
    /\ \A d \in Bands, o \in Offs : <<d, o>> \in Keys
    /\ \A k \in Keys : k = <<BandOf(k), k[2]>>
BY DEF Keys, BandOf

(* The bands of a dataset are bands.                                       *)
LEMMA BandsOfIsSubset == \A ds : BandsOf(ds) \subseteq Bands
BY DEF BandsOf

(* Counters stay numbers.                                                  *)
LEMMA CounterTypes ==
    ASSUME NEW S, NEW f \in [S -> Int], NEW x
    PROVE  /\ [f EXCEPT ![x] = @ + 1] \in [S -> Int]
           /\ [f EXCEPT ![x] = @ - 1] \in [S -> Int]
<1>1. CASE x \in S
  BY <1>1
<1>2. CASE x \notin S
  <2>1. [f EXCEPT ![x] = @ + 1] = f /\ [f EXCEPT ![x] = @ - 1] = f
    BY <1>2
  <2> QED BY <2>1
<1> QED BY <1>1, <1>2

(* The loops over the blocks of a band start at its first block.           *)
LEMMA FirstOff == First(Offs) \in Offs /\ \A o \in Offs : First(Offs) <= o
<1>1. Offs \subseteq Nat /\ Offs # {}
  BY BandsAssumption
<1> QED
  BY <1>1, FirstIsLeast

(* Pixels: memory just allocated, and the next value written.              *)
LEMMA PixelTypes ==
    /\ 0 \in Values
    /\ \A v \in Values \cup {NoData} : (v + 1) % NValues \in Values
<1>1. NValues \in Nat /\ NValues > 0
  BY BoundsAssumption
<1>2. \A v \in Nat : v % NValues \in 0..NValues - 1
  BY <1>1
<1>3. \A v \in Values \cup {NoData} : v + 1 \in Nat
  BY DEF Values, NoData
<1> QED
  BY <1>1, <1>2, <1>3 DEF Values

(* The block that an evictor writes and releases.                          *)
LEMMA TargetIsBlock ==
    ASSUME ControlInv, NEW t \in Threads, toFree[t] # <<>>
    PROVE  /\ Target(t) \in Blocks /\ Target(t) \in ToSet(toFree[t])
           /\ LastFreed(t) \in Blocks /\ LastFreed(t) \in ToSet(toFree[t])
<1>1. toFree[t] \in Seq(Blocks)
  BY DEF ControlInv, Types, ScanTypes
<1> QED
  BY <1>1, TailProperties, LastProperties DEF Target, LastFreed

(* The start of a call keeps the types.                                    *)
LEMMA Types_Start ==
    ASSUME ControlInv, NEW t \in Threads, Start(t)
    PROVE  Types'
<1>0. /\ BlockTypes /\ CacheTypes /\ BandTypes /\ DataTypes
      /\ CallTypes /\ ScanTypes /\ FlushTypes /\ CallOf(t) /\ ScanOf(t)
  BY DEF ControlInv, Types
<1>1. ASSUME NEW o \in Ops, NEW k \in Keys, StartIO(t, o, k) PROVE Types'
  <2>1. BlockTypes' /\ CacheTypes' /\ DataTypes' /\ ScanTypes'
    BY <1>0, <1>1 DEF StartIO, blockVars, cacheVars, dataVars, scanVars,
       BlockTypes, CacheTypes, DataTypes, ScanTypes
  <2>2. BandTypes'
    BY <1>0, <1>1 DEF StartIO, BandTypes, bandVars
  <2>3. CallTypes'
    BY <1>0, <1>1 DEF StartIO, CallTypes, callVars, Goto, Labels, AllOps,
       IoOps, FlushOps, GlobalOps
  <2>4. FlushTypes'
    BY <1>0, <1>1 DEF StartIO, FlushTypes, flushVars, BandsOf
  <2> QED BY <2>1, <2>2, <2>3, <2>4 DEF Types
<1>2. ASSUME NEW o \in Ops, NEW k \in Keys, StartFlush(t, o, k) PROVE Types'
  <2>1. BlockTypes' /\ CacheTypes' /\ BandTypes' /\ DataTypes' /\ ScanTypes' /\ FlushTypes'
    BY <1>0, <1>2 DEF StartFlush, blockVars, cacheVars, bandVars, dataVars,
       scanVars, flushVars, BlockTypes, CacheTypes, BandTypes, DataTypes,
       ScanTypes, FlushTypes
  <2>2. CallTypes'
    BY <1>0, <1>2 DEF StartFlush, CallTypes, callVars, Goto, Labels, AllOps,
       IoOps, FlushOps, GlobalOps
  <2> QED BY <2>1, <2>2 DEF Types
<1>3. ASSUME NEW o \in Ops, StartGlobal(t, o) PROVE Types'
  <2>1. BlockTypes' /\ BandTypes' /\ DataTypes' /\ ScanTypes' /\ FlushTypes'
    BY <1>0, <1>3 DEF StartGlobal, blockVars, bandVars, dataVars, scanVars,
       flushVars, BlockTypes, BandTypes, DataTypes, ScanTypes, FlushTypes
  <2>2. CacheTypes'
    BY <1>0, <1>3 DEF StartGlobal, CacheTypes, cacheVars
  <2>3. CallTypes'
    BY <1>0, <1>3 DEF StartGlobal, CallTypes, callVars, Goto, Labels, AllOps,
       IoOps, FlushOps, GlobalOps
  <2> QED BY <2>1, <2>2, <2>3 DEF Types
<1>4. ASSUME NEW ds \in Datasets, Reopen(t, ds) PROVE Types'
  <2>1. BlockTypes' /\ CacheTypes' /\ DataTypes' /\ CallTypes' /\ ScanTypes' /\ FlushTypes'
    BY <1>0, <1>4 DEF Reopen, blockVars, cacheVars, dataVars, callVars,
       scanVars, flushVars, BlockTypes, CacheTypes, DataTypes, CallTypes,
       ScanTypes, FlushTypes
  <2>2. BandTypes'
    BY <1>0, <1>4 DEF Reopen, BandTypes, bandVars
  <2> QED BY <2>1, <2>2 DEF Types
<1>5. CASE EnterDisableDirtyBlockFlush(t)
  <2>1. BlockTypes' /\ BandTypes' /\ DataTypes' /\ CallTypes' /\ ScanTypes' /\ FlushTypes'
    BY <1>0, <1>5 DEF EnterDisableDirtyBlockFlush, blockVars, bandVars,
       dataVars, callVars, scanVars, flushVars, BlockTypes, BandTypes,
       DataTypes, CallTypes, ScanTypes, FlushTypes
  <2>2. CacheTypes'
    BY <1>0, <1>5 DEF EnterDisableDirtyBlockFlush, CacheTypes, cacheVars
  <2> QED BY <2>1, <2>2 DEF Types
<1>6. CASE LeaveDisableDirtyBlockFlush(t)
  <2>1. BlockTypes' /\ BandTypes' /\ DataTypes' /\ CallTypes' /\ ScanTypes' /\ FlushTypes'
    BY <1>0, <1>6 DEF LeaveDisableDirtyBlockFlush, blockVars, bandVars,
       dataVars, callVars, scanVars, flushVars, BlockTypes, BandTypes,
       DataTypes, CallTypes, ScanTypes, FlushTypes
  <2>2. CacheTypes'
    BY <1>0, <1>6 DEF LeaveDisableDirtyBlockFlush, CacheTypes, cacheVars
  <2> QED BY <2>1, <2>2 DEF Types
<1> QED BY <1>1, <1>2, <1>3, <1>4, <1>5, <1>6 DEF Start

(* GetLockedBlockRef() and its callers keep the types.                     *)
LEMMA Types_Io ==
    ASSUME ControlInv, NEW t \in Threads, IoStep(t)
    PROVE  Types'
<1>0. /\ BlockTypes /\ CacheTypes /\ BandTypes /\ DataTypes
      /\ CallTypes /\ ScanTypes /\ FlushTypes /\ CallOf(t) /\ ScanOf(t)
  BY DEF ControlInv, Types
<1>1. CASE WaitPendingTasks(t)
  <2>1. BlockTypes' /\ CacheTypes' /\ BandTypes' /\ DataTypes' /\ CallTypes' /\ ScanTypes'
    BY <1>0, <1>1 DEF WaitPendingTasks, blockVars, cacheVars, bandVars,
       dataVars, callVars, scanVars, BlockTypes, CacheTypes, BandTypes,
       DataTypes, CallTypes, ScanTypes
  <2>2. FlushTypes'
    BY <1>0, <1>1 DEF WaitPendingTasks, FlushTypes, flushVars
  <2> QED BY <2>1, <2>2 DEF Types
<1>2. CASE EnterReadWrite(t)
  <2>1. BlockTypes' /\ CacheTypes' /\ BandTypes' /\ ScanTypes' /\ FlushTypes'
    BY <1>0, <1>2 DEF EnterReadWrite, blockVars, cacheVars, bandVars,
       scanVars, flushVars, BlockTypes, CacheTypes, BandTypes, ScanTypes,
       FlushTypes
  <2>2. DataTypes'
    BY <1>0, <1>2 DEF EnterReadWrite, DataTypes, dataVars
  <2>3. CallTypes'
    BY <1>0, <1>2 DEF EnterReadWrite, CallTypes, callVars, Goto, Labels
  <2> QED BY <2>1, <2>2, <2>3 DEF Types
<1>3. CASE TryGetLockedBlockRef(t)
  <2>1. at[t] \in Keys /\ BandOf(at[t]) \in Bands /\ at[t][2] \in Offs
    BY <1>0, <1>3, AtIsKey DEF TryGetLockedBlockRef, OwnerLabels, IoLabels,
       FlushLabels
  <2>2. BlockTypes' /\ CacheTypes' /\ BandTypes' /\ DataTypes' /\ ScanTypes' /\ FlushTypes'
    BY <1>0, <1>3 DEF TryGetLockedBlockRef, blockVars, cacheVars, bandVars,
       dataVars, scanVars, flushVars, BlockTypes, CacheTypes, BandTypes,
       DataTypes, ScanTypes, FlushTypes
  <2>3. CallTypes'
    BY <1>0, <1>3, <2>1 DEF TryGetLockedBlockRef, CallTypes, callVars, Goto,
       Labels, BandTypes
  <2> QED BY <2>2, <2>3 DEF Types
<1>4. CASE TakeLock(t)
  <2>1. poBlock[t] \in Blocks
    BY <1>0, <1>4, PointerIsBlock DEF TakeLock, PointerLabels, FlushLabels
  <2>2. CacheTypes' /\ BandTypes' /\ DataTypes' /\ ScanTypes' /\ FlushTypes'
    BY <1>0, <1>4 DEF TakeLock, cacheVars, bandVars, dataVars, scanVars,
       flushVars, CacheTypes, BandTypes, DataTypes, ScanTypes, FlushTypes
  <2>3. BlockTypes'
    BY <1>0, <1>4, <2>1, CounterTypes DEF TakeLock, BlockTypes, blockVars
  <2>4. CallTypes'
    BY <1>0, <1>4, <2>1 DEF TakeLock, CallTypes, callVars, Goto, Labels
  <2> QED BY <2>2, <2>3, <2>4 DEF Types
<1>5. CASE TakeLockFailed(t)
  <2>1. poBlock[t] \in Blocks
    BY <1>0, <1>5, PointerIsBlock DEF TakeLockFailed, PointerLabels,
       FlushLabels
  <2>2. CacheTypes' /\ BandTypes' /\ DataTypes' /\ ScanTypes' /\ FlushTypes'
    BY <1>0, <1>5 DEF TakeLockFailed, cacheVars, bandVars, dataVars, scanVars,
       flushVars, CacheTypes, BandTypes, DataTypes, ScanTypes, FlushTypes
  <2>3. BlockTypes'
    BY <1>0, <1>5, <2>1, CounterTypes DEF TakeLockFailed, BlockTypes, blockVars
  <2>4. CallTypes'
    BY <1>0, <1>5, <2>1 DEF TakeLockFailed, CallTypes, callVars, Goto, Labels,
       BlockOrNull
  <2> QED BY <2>2, <2>3, <2>4 DEF Types
<1>6. CASE Touch(t)
  <2>1. BlockTypes' /\ CacheTypes' /\ BandTypes' /\ DataTypes' /\ ScanTypes' /\ FlushTypes'
    BY <1>0, <1>6 DEF Touch, blockVars, cacheVars, bandVars, dataVars,
       scanVars, flushVars, BlockTypes, CacheTypes, BandTypes, DataTypes,
       ScanTypes, FlushTypes
  <2>2. CallTypes'
    BY <1>0, <1>6 DEF Touch, CallTypes, callVars, Goto, Labels
  <2> QED BY <2>1, <2>2 DEF Types
<1>7. CASE TouchLocked(t)
  <2>1. poBlock[t] \in Blocks
    BY <1>0, <1>7, PointerIsBlock DEF TouchLocked, PointerLabels, FlushLabels
  <2>2. BlockTypes' /\ BandTypes' /\ DataTypes' /\ ScanTypes' /\ FlushTypes'
    BY <1>0, <1>7 DEF TouchLocked, blockVars, bandVars, dataVars, scanVars,
       flushVars, BlockTypes, BandTypes, DataTypes, ScanTypes, FlushTypes
  <2>3. CacheTypes'
    BY <1>0, <1>7, <2>1, TouchedProperties DEF TouchLocked, CacheTypes,
       cacheVars, LruTouch
  <2>4. CallTypes'
    BY <1>0, <1>7, <2>1 DEF TouchLocked, CallTypes, callVars, Goto, Labels
  <2> QED BY <2>2, <2>3, <2>4 DEF Types
<1>8. CASE CreateBlockFails(t)
  <2>1. BlockTypes' /\ CacheTypes' /\ BandTypes' /\ DataTypes' /\ ScanTypes' /\ FlushTypes'
    BY <1>0, <1>8 DEF CreateBlockFails, blockVars, cacheVars, bandVars,
       dataVars, scanVars, flushVars, BlockTypes, CacheTypes, BandTypes,
       DataTypes, ScanTypes, FlushTypes
  <2>2. CallTypes'
    BY <1>0, <1>8 DEF CreateBlockFails, CallTypes, callVars, Goto, Labels
  <2> QED BY <2>1, <2>2 DEF Types
<1>9. CASE ReacquireReadWriteLock(t)
  <2>1. BlockTypes' /\ CacheTypes' /\ BandTypes' /\ ScanTypes' /\ FlushTypes'
    BY <1>0, <1>9 DEF ReacquireReadWriteLock, blockVars, cacheVars, bandVars,
       scanVars, flushVars, BlockTypes, CacheTypes, BandTypes, ScanTypes,
       FlushTypes
  <2>2. DataTypes'
    BY <1>0, <1>9 DEF ReacquireReadWriteLock, DataTypes, dataVars
  <2>3. CallTypes'
    BY <1>0, <1>9 DEF ReacquireReadWriteLock, CallTypes, callVars, Goto, Labels
  <2> QED BY <2>1, <2>2, <2>3 DEF Types
<1>10. ASSUME NEW b \in Blocks, CreateBlock(t, b) PROVE Types'
  <2>1. at[t] \in Keys /\ BandOf(at[t]) \in Bands /\ at[t][2] \in Offs
    BY <1>0, <1>10, AtIsKey DEF CreateBlock, OwnerLabels, IoLabels, FlushLabels
  <2>2. CacheTypes' /\ FlushTypes'
    BY <1>0, <1>10 DEF CreateBlock, cacheVars, flushVars, CacheTypes,
       FlushTypes
  <2>3. BlockTypes'
    BY <1>0, <1>10, <2>1 DEF CreateBlock, BlockTypes, blockVars
  <2>4. BandTypes'
    <3>1. psListBlocksToFree' \in [Bands -> Seq(Blocks)]
      <4>1. CASE psListBlocksToFree[BandOf(at[t])] # <<>>
        <5>1. Tail(psListBlocksToFree[BandOf(at[t])]) \in Seq(Blocks)
          BY <1>0, <2>1, <4>1, TailProperties DEF BandTypes
        <5> QED BY <1>0, <1>10, <4>1, <5>1 DEF CreateBlock, BandTypes
      <4>2. CASE psListBlocksToFree[BandOf(at[t])] = <<>>
        BY <1>0, <1>10, <4>2 DEF CreateBlock, BandTypes
      <4> QED BY <4>1, <4>2
    <3> QED BY <1>0, <1>10, <3>1 DEF CreateBlock, BandTypes
  <2>5. DataTypes'
    BY <1>0, <1>10, <2>1 DEF CreateBlock, DataTypes, dataVars, LeaveReadWrite
  <2>6. CallTypes'
    BY <1>0, <1>10, <2>1 DEF CreateBlock, CallTypes, callVars, Goto, Labels,
       BlockOrNull
  <2>7. ScanTypes'
    BY <1>0, <1>10, <2>1, BoundsAssumption DEF CreateBlock, ScanTypes,
       scanVars, CacheTypes
  <2> QED BY <2>2, <2>3, <2>4, <2>5, <2>6, <2>7 DEF Types
<1>11. ASSUME NEW ok \in BOOLEAN, Allocate(t, ok) PROVE Types'
  <2>1. CacheTypes' /\ BandTypes' /\ DataTypes' /\ FlushTypes'
    BY <1>0, <1>11 DEF Allocate, cacheVars, bandVars, dataVars, flushVars,
       CacheTypes, BandTypes, DataTypes, FlushTypes
  <2>2. BlockTypes'
    BY <1>0, <1>11, PixelTypes DEF Allocate, BlockTypes, blockVars
  <2>3. CallTypes'
    BY <1>0, <1>11 DEF Allocate, CallTypes, callVars, Goto, Labels
  <2>4. ScanTypes'
    BY <1>0, <1>11 DEF Allocate, ScanTypes, scanVars
  <2> QED BY <2>1, <2>2, <2>3, <2>4 DEF Types
<1>12. ASSUME NEW ok \in BOOLEAN, AdoptBlock(t, ok) PROVE Types'
  <2>1. at[t] \in Keys /\ BandOf(at[t]) \in Bands /\ at[t][2] \in Offs
    BY <1>0, <1>12, AtIsKey DEF AdoptBlock, OwnerLabels, IoLabels, FlushLabels
  <2>2. poBlock[t] \in Blocks
    BY <1>0, <1>12, PointerIsBlock DEF AdoptBlock, PointerLabels, FlushLabels
  <2>3. CacheTypes' /\ DataTypes' /\ ScanTypes'
    BY <1>0, <1>12 DEF AdoptBlock, cacheVars, dataVars, scanVars, CacheTypes,
       DataTypes, ScanTypes
  <2>4. BlockTypes'
    BY <1>0, <1>12, <2>1, <2>2 DEF AdoptBlock, BlockTypes, blockVars,
       FreeDanglingBlocks, Deleted
  <2>5. BandTypes'
    BY <1>0, <1>12, <2>1, <2>2 DEF AdoptBlock, BandTypes, bandVars,
       FreeDanglingBlocks, Deleted, BlockOrNull
  <2>6. CallTypes'
    BY <1>0, <1>12, <2>1, <2>2 DEF AdoptBlock, CallTypes, callVars, Goto,
       Labels
  <2>7. FlushTypes'
    BY <1>0, <1>12, <2>1, <2>2 DEF AdoptBlock, FlushTypes, flushVars, BandsOf
  <2> QED BY <2>3, <2>4, <2>5, <2>6, <2>7 DEF Types
<1>13. ASSUME NEW ok \in BOOLEAN, ReadBlock(t, ok) PROVE Types'
  <2>1. at[t] \in Keys /\ BandOf(at[t]) \in Bands /\ at[t][2] \in Offs
    BY <1>0, <1>13, AtIsKey DEF ReadBlock, OwnerLabels, IoLabels, FlushLabels
  <2>2. poBlock[t] \in Blocks
    BY <1>0, <1>13, PointerIsBlock DEF ReadBlock, PointerLabels, FlushLabels
  <2>3. CacheTypes' /\ BandTypes' /\ DataTypes' /\ ScanTypes' /\ FlushTypes'
    BY <1>0, <1>13 DEF ReadBlock, cacheVars, bandVars, dataVars, scanVars,
       flushVars, CacheTypes, BandTypes, DataTypes, ScanTypes, FlushTypes
  <2>4. BlockTypes'
    BY <1>0, <1>13, <2>1, <2>2, CounterTypes DEF ReadBlock, BlockTypes,
       blockVars, DataTypes
  <2>5. CallTypes'
    BY <1>0, <1>13, <2>1, <2>2 DEF ReadBlock, CallTypes, callVars, Goto, Labels
  <2> QED BY <2>3, <2>4, <2>5 DEF Types
<1>14. CASE WriteLocked(t)
  <2>1. at[t] \in Keys /\ BandOf(at[t]) \in Bands /\ at[t][2] \in Offs
    BY <1>0, <1>14, AtIsKey DEF WriteLocked, OwnerLabels, IoLabels, FlushLabels
  <2>2. poBlock[t] \in Blocks
    BY <1>0, <1>14, PointerIsBlock DEF WriteLocked, PointerLabels, FlushLabels
  <2>3. CacheTypes' /\ ScanTypes' /\ FlushTypes'
    BY <1>0, <1>14 DEF WriteLocked, cacheVars, scanVars, flushVars,
       CacheTypes, ScanTypes, FlushTypes
  <2>4. BlockTypes'
    BY <1>0, <1>14, <2>1, <2>2, PixelTypes DEF WriteLocked, BlockTypes,
       blockVars, DataTypes
  <2>5. BandTypes'
    BY <1>0, <1>14, <2>1, <2>2, CounterTypes DEF WriteLocked, BandTypes,
       bandVars
  <2>6. DataTypes'
    BY <1>0, <1>14, <2>1, <2>2, PixelTypes DEF WriteLocked, DataTypes, dataVars
  <2>7. CallTypes'
    BY <1>0, <1>14, <2>1, <2>2 DEF WriteLocked, CallTypes, callVars, Goto,
       Labels
  <2> QED BY <2>3, <2>4, <2>5, <2>6, <2>7 DEF Types
<1>15. CASE Discard(t)
  <2>1. poBlock[t] \in Blocks
    BY <1>0, <1>15, PointerIsBlock DEF Discard, PointerLabels, FlushLabels
  <2>2. CacheTypes' /\ BandTypes' /\ DataTypes' /\ ScanTypes' /\ FlushTypes'
    BY <1>0, <1>15 DEF Discard, cacheVars, bandVars, dataVars, scanVars,
       flushVars, CacheTypes, BandTypes, DataTypes, ScanTypes, FlushTypes
  <2>3. BlockTypes'
    BY <1>0, <1>15, <2>1, CounterTypes DEF Discard, BlockTypes, blockVars
  <2>4. CallTypes'
    BY <1>0, <1>15, <2>1 DEF Discard, CallTypes, callVars, Goto, Labels
  <2> QED BY <2>2, <2>3, <2>4 DEF Types
<1>16. CASE Failed(t)
  <2>1. BlockTypes' /\ CacheTypes' /\ BandTypes' /\ ScanTypes'
    BY <1>0, <1>16 DEF Failed, blockVars, cacheVars, bandVars, scanVars,
       BlockTypes, CacheTypes, BandTypes, ScanTypes
  <2>2. DataTypes'
    BY <1>0, <1>16 DEF Failed, DataTypes, dataVars, LeaveReadWrite
  <2>3. CallTypes'
    BY <1>0, <1>16 DEF Failed, CallTypes, callVars, Goto, Labels, Return,
       BlockOrNull
  <2>4. FlushTypes'
    BY <1>0, <1>16 DEF Failed, FlushTypes, flushVars, Return
  <2> QED BY <2>1, <2>2, <2>3, <2>4 DEF Types
<1>17. ASSUME NEW more \in BOOLEAN, DropLock(t, more) PROVE Types'
  <2>1. at[t] \in Keys /\ BandOf(at[t]) \in Bands /\ at[t][2] \in Offs
    BY <1>0, <1>17, AtIsKey DEF DropLock, OwnerLabels, IoLabels, FlushLabels
  <2>2. poBlock[t] \in Blocks
    BY <1>0, <1>17, PointerIsBlock DEF DropLock, PointerLabels, FlushLabels
  <2>3. NextOff(at[t][2]) # 0 => <<BandOf(at[t]), NextOff(at[t][2])>> \in Keys
    BY <2>1, NextOffProperties, KeyParts
  <2>4. CacheTypes' /\ BandTypes' /\ ScanTypes'
    BY <1>0, <1>17 DEF DropLock, cacheVars, bandVars, scanVars, CacheTypes,
       BandTypes, ScanTypes
  <2>5. BlockTypes'
    BY <1>0, <1>17, <2>1, <2>2, <2>3, CounterTypes DEF DropLock, BlockTypes,
       blockVars
  <2>6. DataTypes'
    BY <1>0, <1>17, <2>1, <2>2, <2>3 DEF DropLock, DataTypes, dataVars,
       LeaveReadWrite
  <2>7. CallTypes'
    BY <1>0, <1>17, <2>1, <2>2, <2>3 DEF DropLock, CallTypes, callVars, Goto,
       Labels, Return, BlockOrNull
  <2>8. FlushTypes'
    BY <1>0, <1>17, <2>1, <2>2, <2>3 DEF DropLock, FlushTypes, flushVars,
       Return
  <2> QED BY <2>4, <2>5, <2>6, <2>7, <2>8 DEF Types
<1> QED BY <1>1, <1>2, <1>3, <1>4, <1>5, <1>6, <1>7, <1>8, <1>9, <1>10, <1>11,
   <1>12, <1>13, <1>14, <1>15, <1>16, <1>17 DEF IoStep

(* The steps of an eviction keep the types.                                *)
LEMMA Types_Evict ==
    ASSUME ControlInv, NEW t \in Threads, EvictStep(t)
    PROVE  Types'
<1>0. /\ BlockTypes /\ CacheTypes /\ BandTypes /\ DataTypes
      /\ CallTypes /\ ScanTypes /\ FlushTypes /\ CallOf(t) /\ ScanOf(t)
  BY DEF ControlInv, Types
<1>1. CASE InternalizeLock(t)
  <2>1. Oldest \in BlockOrNull /\ Null \in BlockOrNull
    BY <1>0, OldestProperties, Elements DEF CacheTypes, BlockOrNull
  <2>2. BlockTypes' /\ BandTypes' /\ DataTypes' /\ FlushTypes'
    BY <1>0, <1>1 DEF InternalizeLock, blockVars, bandVars, dataVars,
       flushVars, BlockTypes, BandTypes, DataTypes, FlushTypes
  <2>3. CacheTypes'
    BY <1>0, <1>1, <2>1 DEF InternalizeLock, CacheTypes, cacheVars
  <2>4. CallTypes'
    BY <1>0, <1>1, <2>1 DEF InternalizeLock, CallTypes, callVars, Goto, Labels
  <2>5. ScanTypes'
    BY <1>0, <1>1, <2>1 DEF InternalizeLock, ScanTypes, scanVars, StartRound
  <2> QED BY <2>2, <2>3, <2>4, <2>5 DEF Types
<1>2. CASE Scan(t)
  <2>1. /\ poTarget[t] # Null => PreviousOf(poTarget[t]) \in BlockOrNull
        /\ Oldest \in BlockOrNull /\ Null \in BlockOrNull
    BY <1>0, PreviousProperties, OldestProperties, Elements
       DEF
       CacheTypes, BlockOrNull, ScanOf
  <2>2. BlockTypes' /\ CacheTypes' /\ BandTypes' /\ DataTypes' /\ FlushTypes'
    BY <1>0, <1>2 DEF Scan, blockVars, cacheVars, bandVars, dataVars,
       flushVars, BlockTypes, CacheTypes, BandTypes, DataTypes, FlushTypes
  <2>3. CallTypes'
    BY <1>0, <1>2, <2>1 DEF Scan, CallTypes, callVars, Goto, Labels
  <2>4. ScanTypes'
    BY <1>0, <1>2, <2>1 DEF Scan, ScanTypes, scanVars
  <2> QED BY <2>2, <2>3, <2>4 DEF Types
<1>3. CASE Exchange(t)
  <2>1. /\ poTarget[t] # Null => PreviousOf(poTarget[t]) \in BlockOrNull
        /\ Oldest \in BlockOrNull /\ Null \in BlockOrNull
    BY <1>0, PreviousProperties, OldestProperties, Elements
       DEF
       CacheTypes, BlockOrNull, ScanOf
  <2>2. CacheTypes' /\ BandTypes' /\ DataTypes' /\ FlushTypes'
    BY <1>0, <1>3 DEF Exchange, Claim, cacheVars, bandVars, dataVars,
       flushVars, CacheTypes, BandTypes, DataTypes, FlushTypes
  <2>3. BlockTypes'
    BY <1>0, <1>3, <2>1 DEF Exchange, BlockTypes, blockVars, Claim
  <2>4. CallTypes'
    BY <1>0, <1>3, <2>1 DEF Exchange, CallTypes, callVars, Goto, Labels, Claim
  <2>5. ScanTypes'
    BY <1>0, <1>3, <2>1 DEF Exchange, ScanTypes, scanVars, Claim, ScanOf
  <2> QED BY <2>2, <2>3, <2>4, <2>5 DEF Types
<1>4. CASE ExchangeOther(t)
  <2>1. /\ poTarget[t] # Null => PreviousOf(poTarget[t]) \in BlockOrNull
        /\ Oldest \in BlockOrNull /\ Null \in BlockOrNull
    BY <1>0, PreviousProperties, OldestProperties, Elements
       DEF
       CacheTypes, BlockOrNull, ScanOf
  <2>2. CacheTypes' /\ BandTypes' /\ DataTypes' /\ FlushTypes'
    BY <1>0, <1>4 DEF ExchangeOther, Claim, cacheVars, bandVars, dataVars,
       flushVars, CacheTypes, BandTypes, DataTypes, FlushTypes
  <2>3. BlockTypes'
    BY <1>0, <1>4, <2>1 DEF ExchangeOther, BlockTypes, blockVars, Claim
  <2>4. CallTypes'
    BY <1>0, <1>4, <2>1 DEF ExchangeOther, CallTypes, callVars, Goto, Labels,
       Claim
  <2>5. ScanTypes'
    BY <1>0, <1>4, <2>1 DEF ExchangeOther, ScanTypes, scanVars, Claim, ScanOf
  <2> QED BY <2>2, <2>3, <2>4, <2>5 DEF Types
<1>5. CASE Fallback(t)
  <2>1. /\ poTarget[t] # Null => PreviousOf(poTarget[t]) \in BlockOrNull
        /\ Oldest \in BlockOrNull /\ Null \in BlockOrNull
    BY <1>0, PreviousProperties, OldestProperties, Elements
       DEF
       CacheTypes, BlockOrNull, ScanOf
  <2>2. CacheTypes' /\ BandTypes' /\ DataTypes' /\ FlushTypes'
    BY <1>0, <1>5 DEF Fallback, Claim, cacheVars, bandVars, dataVars,
       flushVars, CacheTypes, BandTypes, DataTypes, FlushTypes
  <2>3. BlockTypes'
    BY <1>0, <1>5, <2>1 DEF Fallback, BlockTypes, blockVars, Claim
  <2>4. CallTypes'
    BY <1>0, <1>5, <2>1 DEF Fallback, CallTypes, callVars, Goto, Labels, Claim
  <2>5. ScanTypes'
    BY <1>0, <1>5, <2>1 DEF Fallback, ScanTypes, scanVars, Claim
  <2> QED BY <2>2, <2>3, <2>4, <2>5 DEF Types
<1>6. CASE FallbackEnds(t)
  <2>1. BlockTypes' /\ CacheTypes' /\ BandTypes' /\ DataTypes' /\ ScanTypes' /\ FlushTypes'
    BY <1>0, <1>6 DEF FallbackEnds, blockVars, cacheVars, bandVars, dataVars,
       scanVars, flushVars, BlockTypes, CacheTypes, BandTypes, DataTypes,
       ScanTypes, FlushTypes
  <2>2. CallTypes'
    BY <1>0, <1>6 DEF FallbackEnds, CallTypes, callVars, Goto, Labels
  <2> QED BY <2>1, <2>2 DEF Types
<1>7. CASE Detach(t)
  <2>1. /\ poTarget[t] # Null => PreviousOf(poTarget[t]) \in BlockOrNull
        /\ Oldest \in BlockOrNull /\ Null \in BlockOrNull
    BY <1>0, PreviousProperties, OldestProperties, Elements
       DEF
       CacheTypes, BlockOrNull, ScanOf
  <2>2. poTarget[t] \in Blocks
    BY <1>0, <1>7, Elements DEF Detach, ScanOf, CacheTypes
  <2>3. Append(toFree[t], poTarget[t]) \in Seq(Blocks)
    BY <1>0, <2>2, AppendedProperties DEF ScanTypes
  <2>4. DataTypes' /\ FlushTypes'
    BY <1>0, <1>7 DEF Detach, dataVars, flushVars, DataTypes, FlushTypes
  <2>5. BlockTypes'
    BY <1>0, <1>7, <2>1, <2>2, <2>3 DEF Detach, BlockTypes, blockVars,
       DetachUnlocked
  <2>6. CacheTypes'
    BY <1>0, <1>7, <2>1, <2>2, <2>3, DetachedProperties DEF Detach,
       CacheTypes, cacheVars, DetachUnlocked
  <2>7. BandTypes'
    BY <1>0, <1>7, <2>1, <2>2, <2>3, CounterTypes DEF Detach, BandTypes,
       bandVars
  <2>8. CallTypes'
    BY <1>0, <1>7, <2>1, <2>2, <2>3 DEF Detach, CallTypes, callVars, Goto,
       Labels
  <2>9. ScanTypes'
    BY <1>0, <1>7, <2>1, <2>2, <2>3, NamesAssumption DEF Detach, ScanTypes,
       scanVars
  <2> QED BY <2>4, <2>5, <2>6, <2>7, <2>8, <2>9 DEF Types
<1>8. CASE UnreferenceBlock(t)
  <2>1. Null \in BlockOrNull
    BY DEF BlockOrNull
  <2>2. BlockTypes' /\ CacheTypes' /\ DataTypes' /\ FlushTypes'
    BY <1>0, <1>8 DEF UnreferenceBlock, blockVars, cacheVars, dataVars,
       flushVars, BlockTypes, CacheTypes, DataTypes, FlushTypes
  <2>3. BandTypes'
    BY <1>0, <1>8, <2>1 DEF UnreferenceBlock, BandTypes, bandVars, Unreferenced
  <2>4. CallTypes'
    BY <1>0, <1>8, <2>1 DEF UnreferenceBlock, CallTypes, callVars, Goto, Labels
  <2>5. ScanTypes'
    BY <1>0, <1>8, <2>1 DEF UnreferenceBlock, ScanTypes, scanVars
  <2> QED BY <2>2, <2>3, <2>4, <2>5 DEF Types
<1>9. CASE Scanned(t)
  <2>1. Null \in BlockOrNull
    BY DEF BlockOrNull
  <2>2. op[t] \in IoOps => poBlock[t] \in Blocks
    BY <1>0, <1>9, PointerIsBlock DEF Scanned, EvictLabels, CriticalLabels
  <2>3. BlockTypes' /\ BandTypes' /\ DataTypes' /\ FlushTypes'
    BY <1>0, <1>9 DEF Scanned, blockVars, bandVars, dataVars, flushVars,
       BlockTypes, BandTypes, DataTypes, FlushTypes
  <2>4. CacheTypes'
    BY <1>0, <1>9, <2>1, <2>2, TouchedProperties DEF Scanned, CacheTypes,
       cacheVars, LruTouch
  <2>5. CallTypes'
    BY <1>0, <1>9, <2>1, <2>2 DEF Scanned, CallTypes, callVars, Goto, Labels
  <2>6. ScanTypes'
    BY <1>0, <1>9, <2>1, <2>2 DEF Scanned, ScanTypes, scanVars
  <2> QED BY <2>3, <2>4, <2>5, <2>6 DEF Types
<1>10. CASE FreeNext(t)
  <2>1. CacheTypes' /\ DataTypes' /\ ScanTypes' /\ FlushTypes'
    BY <1>0, <1>10 DEF FreeNext, cacheVars, dataVars, scanVars, flushVars,
       CacheTypes, DataTypes, ScanTypes, FlushTypes
  <2>2. BlockTypes'
    BY <1>0, <1>10 DEF FreeNext, BlockTypes, blockVars, MarkClean
  <2>3. BandTypes'
    BY <1>0, <1>10 DEF FreeNext, BandTypes, bandVars, MarkClean
  <2>4. CallTypes'
    BY <1>0, <1>10 DEF FreeNext, CallTypes, callVars, Goto, Labels
  <2> QED BY <2>1, <2>2, <2>3, <2>4 DEF Types
<1>11. CASE Release(t)
  <2>1. toFree[t] # <<>> /\ Target(t) \in Blocks
    BY <1>11, TargetIsBlock DEF Release, ControlInv, RoundInv, RoundOf,
       Releasing
  <2>2. \A d \in Bands : <<Target(t)>> \o psListBlocksToFree[d] \in Seq(Blocks)
    BY <1>0, <2>1, PushProperties DEF BandTypes
  <2>3. Tail(toFree[t]) \in Seq(Blocks)
    BY <1>0, <2>1, TailProperties DEF ScanTypes
  <2>4. BandOf(key[Target(t)]) \in Bands \cup {0, BandOf(NoKey)}
    BY <1>0, <2>1, KeyParts DEF BlockTypes
  <2>5. CacheTypes' /\ DataTypes' /\ FlushTypes'
    BY <1>0, <1>11 DEF Release, cacheVars, dataVars, flushVars, CacheTypes,
       DataTypes, FlushTypes
  <2>6. BlockTypes'
    BY <1>0, <1>11, <2>1, <2>2, <2>3, <2>4 DEF Release, BlockTypes, blockVars
  <2>7. BandTypes'
    BY <1>0, <1>11, <2>1, <2>2, <2>3, <2>4 DEF Release, BandTypes, bandVars
  <2>8. CallTypes'
    BY <1>0, <1>11, <2>1, <2>2, <2>3, <2>4 DEF Release, CallTypes, callVars,
       Goto, Labels
  <2>9. ScanTypes'
    BY <1>0, <1>11, <2>1, <2>2, <2>3, <2>4 DEF Release, ScanTypes, scanVars
  <2> QED BY <2>5, <2>6, <2>7, <2>8, <2>9 DEF Types
<1>12. CASE KeepAliveDec(t)
  <2>1. BlockTypes' /\ CacheTypes' /\ DataTypes' /\ FlushTypes'
    BY <1>0, <1>12 DEF KeepAliveDec, blockVars, cacheVars, dataVars,
       flushVars, BlockTypes, CacheTypes, DataTypes, FlushTypes
  <2>2. BandTypes'
    BY <1>0, <1>12, CounterTypes DEF KeepAliveDec, BandTypes, bandVars
  <2>3. CallTypes'
    BY <1>0, <1>12 DEF KeepAliveDec, CallTypes, callVars, Goto, Labels
  <2>4. ScanTypes'
    BY <1>0, <1>12 DEF KeepAliveDec, ScanTypes, scanVars
  <2> QED BY <2>1, <2>2, <2>3, <2>4 DEF Types
<1>13. CASE FreeEnds(t)
  <2>1. BlockTypes' /\ CacheTypes' /\ BandTypes' /\ DataTypes' /\ ScanTypes' /\ FlushTypes'
    BY <1>0, <1>13 DEF FreeEnds, blockVars, cacheVars, bandVars, dataVars,
       scanVars, flushVars, BlockTypes, CacheTypes, BandTypes, DataTypes,
       ScanTypes, FlushTypes
  <2>2. CallTypes'
    BY <1>0, <1>13 DEF FreeEnds, CallTypes, callVars, Goto, Labels
  <2> QED BY <2>1, <2>2 DEF Types
<1>14. ASSUME NEW ok \in BOOLEAN, WriteEvicted(t, ok) PROVE Types'
  <2>1. Target(t) \in Blocks
    BY <1>14, TargetIsBlock DEF WriteEvicted, ControlInv, RoundInv, RoundOf,
       Releasing
  <2>2. BlockTypes' /\ CacheTypes' /\ ScanTypes' /\ FlushTypes'
    BY <1>0, <1>14 DEF WriteEvicted, blockVars, cacheVars, scanVars,
       flushVars, BlockTypes, CacheTypes, ScanTypes, FlushTypes
  <2>3. BandTypes'
    BY <1>0, <1>14, <2>1 DEF WriteEvicted, BandTypes, bandVars
  <2>4. DataTypes'
    BY <1>0, <1>14, <2>1 DEF WriteEvicted, DataTypes, dataVars, BlockTypes
  <2>5. CallTypes'
    BY <1>0, <1>14, <2>1 DEF WriteEvicted, CallTypes, callVars, Goto, Labels
  <2> QED BY <2>2, <2>3, <2>4, <2>5 DEF Types
<1>15. CASE SetCacheMaxLoop(t)
  <2>1. BlockTypes' /\ CacheTypes' /\ BandTypes' /\ DataTypes' /\ FlushTypes'
    BY <1>0, <1>15 DEF SetCacheMaxLoop, blockVars, cacheVars, bandVars,
       dataVars, flushVars, BlockTypes, CacheTypes, BandTypes, DataTypes,
       FlushTypes
  <2>2. CallTypes'
    BY <1>0, <1>15 DEF SetCacheMaxLoop, CallTypes, callVars, Goto, Labels
  <2>3. ScanTypes'
    BY <1>0, <1>15 DEF SetCacheMaxLoop, ScanTypes, scanVars, CacheTypes
  <2> QED BY <2>1, <2>2, <2>3 DEF Types
<1>16. CASE FlushCacheBlock(t)
  <2>1. Oldest \in BlockOrNull /\ Null \in BlockOrNull
    BY <1>0, OldestProperties, Elements DEF CacheTypes, BlockOrNull
  <2>2. BlockTypes' /\ BandTypes' /\ DataTypes' /\ FlushTypes'
    BY <1>0, <1>16 DEF FlushCacheBlock, blockVars, bandVars, dataVars,
       flushVars, BlockTypes, BandTypes, DataTypes, FlushTypes
  <2>3. CacheTypes'
    BY <1>0, <1>16, <2>1 DEF FlushCacheBlock, CacheTypes, cacheVars
  <2>4. CallTypes'
    BY <1>0, <1>16, <2>1 DEF FlushCacheBlock, CallTypes, callVars, Goto, Labels
  <2>5. ScanTypes'
    BY <1>0, <1>16, <2>1 DEF FlushCacheBlock, ScanTypes, scanVars
  <2> QED BY <2>2, <2>3, <2>4, <2>5 DEF Types
<1>17. CASE FlushScan(t)
  <2>1. /\ poTarget[t] # Null => PreviousOf(poTarget[t]) \in BlockOrNull
        /\ Oldest \in BlockOrNull /\ Null \in BlockOrNull
    BY <1>0, PreviousProperties, OldestProperties, Elements
       DEF
       CacheTypes, BlockOrNull, ScanOf
  <2>2. BlockTypes' /\ CacheTypes' /\ BandTypes' /\ DataTypes' /\ FlushTypes'
    BY <1>0, <1>17 DEF FlushScan, blockVars, cacheVars, bandVars, dataVars,
       flushVars, BlockTypes, CacheTypes, BandTypes, DataTypes, FlushTypes
  <2>3. CallTypes'
    BY <1>0, <1>17, <2>1 DEF FlushScan, CallTypes, callVars, Goto, Labels
  <2>4. ScanTypes'
    BY <1>0, <1>17, <2>1 DEF FlushScan, ScanTypes, scanVars
  <2> QED BY <2>2, <2>3, <2>4 DEF Types
<1>18. CASE FlushExchange(t)
  <2>1. /\ poTarget[t] # Null => PreviousOf(poTarget[t]) \in BlockOrNull
        /\ Oldest \in BlockOrNull /\ Null \in BlockOrNull
    BY <1>0, PreviousProperties, OldestProperties, Elements
       DEF
       CacheTypes, BlockOrNull, ScanOf
  <2>2. CacheTypes' /\ BandTypes' /\ DataTypes' /\ FlushTypes'
    BY <1>0, <1>18 DEF FlushExchange, Claim, cacheVars, bandVars, dataVars,
       flushVars, CacheTypes, BandTypes, DataTypes, FlushTypes
  <2>3. BlockTypes'
    BY <1>0, <1>18, <2>1 DEF FlushExchange, BlockTypes, blockVars, Claim
  <2>4. CallTypes'
    BY <1>0, <1>18, <2>1 DEF FlushExchange, CallTypes, callVars, Goto, Labels,
       Claim
  <2>5. ScanTypes'
    BY <1>0, <1>18, <2>1 DEF FlushExchange, ScanTypes, scanVars, Claim, ScanOf
  <2> QED BY <2>2, <2>3, <2>4, <2>5 DEF Types
<1>19. CASE FlushScanEnds(t)
  <2>1. BlockTypes' /\ BandTypes' /\ DataTypes' /\ ScanTypes' /\ FlushTypes'
    BY <1>0, <1>19 DEF FlushScanEnds, blockVars, bandVars, dataVars, scanVars,
       flushVars, BlockTypes, BandTypes, DataTypes, ScanTypes, FlushTypes
  <2>2. CacheTypes'
    BY <1>0, <1>19 DEF FlushScanEnds, CacheTypes, cacheVars
  <2>3. CallTypes'
    BY <1>0, <1>19 DEF FlushScanEnds, CallTypes, callVars, Goto, Labels
  <2> QED BY <2>1, <2>2, <2>3 DEF Types
<1>20. CASE FlushedOne(t)
  <2>1. BlockTypes' /\ CacheTypes' /\ BandTypes' /\ DataTypes' /\ FlushTypes'
    BY <1>0, <1>20 DEF FlushedOne, blockVars, cacheVars, bandVars, dataVars,
       flushVars, BlockTypes, CacheTypes, BandTypes, DataTypes, FlushTypes
  <2>2. CallTypes'
    BY <1>0, <1>20 DEF FlushedOne, CallTypes, callVars, Goto, Labels
  <2>3. ScanTypes'
    BY <1>0, <1>20 DEF FlushedOne, ScanTypes, scanVars
  <2> QED BY <2>1, <2>2, <2>3 DEF Types
<1> QED BY <1>1, <1>2, <1>3, <1>4, <1>5, <1>6, <1>7, <1>8, <1>9, <1>10, <1>11,
   <1>12, <1>13, <1>14, <1>15, <1>16, <1>17, <1>18, <1>19, <1>20 DEF EvictStep

(* FlushBlock(), FlushCache() and the destructors keep the types.          *)
LEMMA Types_Flush ==
    ASSUME ControlInv, NEW t \in Threads, FlushStep(t)
    PROVE  Types'
<1>0. /\ BlockTypes /\ CacheTypes /\ BandTypes /\ DataTypes
      /\ CallTypes /\ ScanTypes /\ FlushTypes /\ CallOf(t) /\ ScanOf(t)
  BY DEF ControlInv, Types
<1>1. CASE FlushBlock(t)
  <2>1. at[t] \in Keys /\ BandOf(at[t]) \in Bands /\ at[t][2] \in Offs
    BY <1>0, <1>1, AtIsKey DEF FlushBlock, OwnerLabels, IoLabels, FlushLabels
  <2>2. BlockTypes' /\ CacheTypes' /\ DataTypes' /\ ScanTypes' /\ FlushTypes'
    BY <1>0, <1>1 DEF FlushBlock, blockVars, cacheVars, dataVars, scanVars,
       flushVars, BlockTypes, CacheTypes, DataTypes, ScanTypes, FlushTypes
  <2>3. BandTypes'
    BY <1>0, <1>1, <2>1 DEF FlushBlock, BandTypes, bandVars, BlockOrNull
  <2>4. CallTypes'
    BY <1>0, <1>1, <2>1 DEF FlushBlock, CallTypes, callVars, Goto, Labels,
       BandTypes, AfterFlushBlock
  <2> QED BY <2>2, <2>3, <2>4 DEF Types
<1>2. CASE ClaimFlush(t)
  <2>1. CacheTypes' /\ BandTypes' /\ DataTypes' /\ ScanTypes' /\ FlushTypes'
    BY <1>0, <1>2 DEF ClaimFlush, cacheVars, bandVars, dataVars, scanVars,
       flushVars, CacheTypes, BandTypes, DataTypes, ScanTypes, FlushTypes
  <2>2. BlockTypes'
    BY <1>0, <1>2 DEF ClaimFlush, BlockTypes, blockVars
  <2>3. CallTypes'
    BY <1>0, <1>2 DEF ClaimFlush, CallTypes, callVars, Goto, Labels
  <2> QED BY <2>1, <2>2, <2>3 DEF Types
<1>3. CASE FlushWait(t)
  <2>1. BlockTypes' /\ CacheTypes' /\ BandTypes' /\ DataTypes' /\ ScanTypes' /\ FlushTypes'
    BY <1>0, <1>3 DEF FlushWait, blockVars, cacheVars, bandVars, dataVars,
       scanVars, flushVars, BlockTypes, CacheTypes, BandTypes, DataTypes,
       ScanTypes, FlushTypes
  <2>2. CallTypes'
    BY <1>0, <1>3 DEF FlushWait, CallTypes, callVars, Goto, Labels,
       BlockOrNull, AfterFlushBlock
  <2> QED BY <2>1, <2>2 DEF Types
<1>4. CASE FlushDetach(t)
  <2>1. poBlock[t] \in Blocks
    BY <1>0, <1>4, PointerIsBlock DEF FlushDetach, PointerLabels, FlushLabels
  <2>2. BandTypes' /\ DataTypes' /\ ScanTypes' /\ FlushTypes'
    BY <1>0, <1>4 DEF FlushDetach, bandVars, dataVars, scanVars, flushVars,
       BandTypes, DataTypes, ScanTypes, FlushTypes
  <2>3. BlockTypes'
    BY <1>0, <1>4, <2>1 DEF FlushDetach, BlockTypes, blockVars, DetachUnlocked
  <2>4. CacheTypes'
    <3>1. CASE bMustDetach[poBlock[t]]
      BY <1>0, <1>4, <3>1, DetachedProperties DEF FlushDetach, CacheTypes, DetachUnlocked
    <3>2. CASE ~bMustDetach[poBlock[t]]
      BY <1>0, <1>4, <3>2 DEF FlushDetach, CacheTypes
    <3> QED BY <3>1, <3>2
  <2>5. CallTypes'
    BY <1>0, <1>4, <2>1 DEF FlushDetach, CallTypes, callVars, Goto, Labels
  <2> QED BY <2>2, <2>3, <2>4, <2>5 DEF Types
<1>5. CASE FlushWrite(t)
  <2>1. at[t] \in Keys /\ BandOf(at[t]) \in Bands /\ at[t][2] \in Offs
    BY <1>0, <1>5, AtIsKey DEF FlushWrite, OwnerLabels, IoLabels, FlushLabels
  <2>2. CacheTypes' /\ DataTypes' /\ ScanTypes'
    BY <1>0, <1>5 DEF FlushWrite, cacheVars, dataVars, scanVars, CacheTypes,
       DataTypes, ScanTypes
  <2>3. BlockTypes'
    BY <1>0, <1>5, <2>1 DEF FlushWrite, BlockTypes, blockVars, MarkClean
  <2>4. BandTypes'
    BY <1>0, <1>5, <2>1 DEF FlushWrite, BandTypes, bandVars, MarkClean
  <2>5. CallTypes'
    BY <1>0, <1>5, <2>1 DEF FlushWrite, CallTypes, callVars, Goto, Labels
  <2>6. FlushTypes'
    BY <1>0, <1>5, <2>1 DEF FlushWrite, FlushTypes, flushVars, BandTypes
  <2> QED BY <2>2, <2>3, <2>4, <2>5, <2>6 DEF Types
<1>6. CASE Delete(t)
  <2>1. poBlock[t] \in Blocks
    BY <1>0, <1>6, PointerIsBlock DEF Delete, PointerLabels, FlushLabels
  <2>2. BandTypes' /\ DataTypes' /\ ScanTypes' /\ FlushTypes'
    BY <1>0, <1>6 DEF Delete, bandVars, dataVars, scanVars, flushVars,
       BandTypes, DataTypes, ScanTypes, FlushTypes
  <2>3. BlockTypes'
    <3>1. bMustDetach' \in [Blocks -> BOOLEAN]
      BY <1>0, <1>6 DEF Delete, BlockTypes, DetachUnlocked
    <3>2. /\ nLockCount' \in [Blocks -> Int] /\ bDirty' \in [Blocks -> BOOLEAN]
          /\ pData' \in [Blocks -> Values \cup {NoData}]
          /\ key' \in [Blocks -> Keys \cup {NoKey}]
      BY <1>0, <1>6 DEF Delete, BlockTypes, Deleted
    <3> QED BY <3>1, <3>2 DEF BlockTypes
  <2>4. CacheTypes'
    <3>1. CASE bMustDetach[poBlock[t]]
      BY <1>0, <1>6, <3>1, DetachedProperties DEF Delete, CacheTypes, DetachUnlocked
    <3>2. CASE ~bMustDetach[poBlock[t]]
      BY <1>0, <1>6, <3>2 DEF Delete, CacheTypes
    <3> QED BY <3>1, <3>2
  <2>5. CallTypes'
    BY <1>0, <1>6, <2>1 DEF Delete, CallTypes, callVars, Goto, Labels,
       BlockOrNull, AfterFlushBlock
  <2> QED BY <2>2, <2>3, <2>4, <2>5 DEF Types
<1>7. CASE FlushCache(t)
  <2>1. BlockTypes' /\ CacheTypes' /\ DataTypes' /\ ScanTypes' /\ FlushTypes'
    BY <1>0, <1>7 DEF FlushCache, blockVars, cacheVars, dataVars, scanVars,
       flushVars, BlockTypes, CacheTypes, DataTypes, ScanTypes, FlushTypes
  <2>2. BandTypes'
    BY <1>0, <1>7 DEF FlushCache, BandTypes, bandVars
  <2>3. CallTypes'
    BY <1>0, <1>7 DEF FlushCache, CallTypes, callVars, Goto, Labels
  <2> QED BY <2>1, <2>2, <2>3 DEF Types
<1>8. CASE FlushStorage(t)
  <2>1. at[t] \in Keys /\ BandOf(at[t]) \in Bands /\ at[t][2] \in Offs
    BY <1>0, <1>8, AtIsKey DEF FlushStorage, OwnerLabels, IoLabels, FlushLabels
  <2>2. CacheTypes' /\ DataTypes' /\ ScanTypes'
    BY <1>0, <1>8 DEF FlushStorage, cacheVars, dataVars, scanVars, CacheTypes,
       DataTypes, ScanTypes
  <2>3. BlockTypes'
    BY <1>0, <1>8, <2>1 DEF FlushStorage, BlockTypes, blockVars,
       FreeDanglingBlocks, Deleted
  <2>4. BandTypes'
    BY <1>0, <1>8, <2>1 DEF FlushStorage, BandTypes, bandVars,
       FreeDanglingBlocks, Deleted, BlockOrNull
  <2>5. CallTypes'
    BY <1>0, <1>8, <2>1 DEF FlushStorage, CallTypes, callVars, Goto, Labels
  <2>6. FlushTypes'
    <3>1. [o \in Offs |-> slot[<<BandOf(at[t]), o>>]] \in [Offs -> BlockOrNull]
      BY <1>0, <2>1, KeyParts DEF BandTypes
    <3>2. eFlushBlockErr[BandOf(at[t])] \in BOOLEAN
      BY <1>0, <2>1 DEF BandTypes
    <3> QED
      BY <1>0, <1>8, <3>1, <3>2, FirstOff DEF FlushStorage, FlushTypes
  <2> QED BY <2>2, <2>3, <2>4, <2>5, <2>6 DEF Types
<1>9. CASE FlushNext(t)
  <2>1. at[t] \in Keys /\ BandOf(at[t]) \in Bands /\ at[t][2] \in Offs
    BY <1>0, <1>9, AtIsKey DEF FlushNext, OwnerLabels, IoLabels, FlushLabels
  <2>2. /\ iOff[t] # 0 => iOff[t] \in Offs /\ NextOff(iOff[t]) \in Offs \cup {0}
        /\ Null \in BlockOrNull
    BY <1>0, NextOffProperties DEF FlushTypes, BlockOrNull
  <2>3. iOff[t] # 0 => slot[<<BandOf(at[t]), iOff[t]>>] \in BlockOrNull /\ oOldSet[t][iOff[t]] \in BlockOrNull
    BY <1>0, <2>1, <2>2, KeyParts DEF BandTypes, FlushTypes
  <2>4. BlockTypes' /\ CacheTypes' /\ DataTypes' /\ ScanTypes'
    BY <1>0, <1>9 DEF FlushNext, blockVars, cacheVars, dataVars, scanVars,
       BlockTypes, CacheTypes, DataTypes, ScanTypes
  <2>5. BandTypes'
    BY <1>0, <1>9, <2>1, <2>2, <2>3 DEF FlushNext, BandTypes, bandVars
  <2>6. CallTypes'
    BY <1>0, <1>9, <2>1, <2>2, <2>3 DEF FlushNext, CallTypes, callVars, Goto,
       Labels
  <2>7. FlushTypes'
    BY <1>0, <1>9, <2>1, <2>2, <2>3 DEF FlushNext, FlushTypes, flushVars
  <2> QED BY <2>4, <2>5, <2>6, <2>7 DEF Types
<1>10. CASE FlushEnds(t)
  <2>1. BlockTypes' /\ CacheTypes' /\ BandTypes' /\ ScanTypes'
    BY <1>0, <1>10 DEF FlushEnds, blockVars, cacheVars, bandVars, scanVars,
       BlockTypes, CacheTypes, BandTypes, ScanTypes
  <2>2. DataTypes'
    BY <1>0, <1>10 DEF FlushEnds, DataTypes, dataVars
  <2>3. CallTypes'
    BY <1>0, <1>10 DEF FlushEnds, CallTypes, callVars, Goto, Labels
  <2>4. FlushTypes'
    BY <1>0, <1>10 DEF FlushEnds, FlushTypes, flushVars
  <2> QED BY <2>1, <2>2, <2>3, <2>4 DEF Types
<1>11. CASE Destroy(t)
  <2>1. at[t] \in Keys /\ BandOf(at[t]) \in Bands /\ at[t][2] \in Offs
    BY <1>0, <1>11, AtIsKey DEF Destroy, OwnerLabels, IoLabels, FlushLabels
  <2>2. \A S : S \subseteq Bands /\ S # {} => <<First(S), First(Offs)>> \in Keys
    BY FirstOff, FirstIsLeast, KeyParts, BandsAssumption
  <2>3. CacheTypes' /\ ScanTypes' /\ FlushTypes'
    BY <1>0, <1>11 DEF Destroy, cacheVars, scanVars, flushVars, CacheTypes,
       ScanTypes, FlushTypes
  <2>4. BlockTypes'
    BY <1>0, <1>11, <2>1, <2>2 DEF Destroy, BlockTypes, blockVars,
       FreeDanglingBlocks, Deleted
  <2>5. BandTypes'
    BY <1>0, <1>11, <2>1, <2>2 DEF Destroy, BandTypes, bandVars,
       FreeDanglingBlocks, Deleted
  <2>6. DataTypes'
    BY <1>0, <1>11, <2>1, <2>2 DEF Destroy, DataTypes, dataVars
  <2>7. CallTypes'
    <3>r. PICK rest : rest = {e \in BandsOf(DatasetOf[BandOf(at[t])]) : e > BandOf(at[t])}
      OBVIOUS
    <3>1. CASE rest = {}
      BY <1>0, <1>11, <3>r, <3>1 DEF Destroy, CallTypes, Goto, Labels
    <3>2. CASE rest # {}
      <4>1. <<First(rest), First(Offs)>> \in Keys
        BY <2>2, <3>r, <3>2 DEF BandsOf
      <4> QED BY <1>0, <1>11, <3>r, <3>2, <4>1 DEF Destroy, CallTypes, Goto, Labels
    <3> QED BY <3>1, <3>2
  <2> QED BY <2>3, <2>4, <2>5, <2>6, <2>7 DEF Types
<1>12. CASE Flushed(t)
  <2>1. BlockTypes' /\ CacheTypes' /\ BandTypes' /\ DataTypes' /\ ScanTypes'
    BY <1>0, <1>12 DEF Flushed, blockVars, cacheVars, bandVars, dataVars,
       scanVars, BlockTypes, CacheTypes, BandTypes, DataTypes, ScanTypes
  <2>2. CallTypes'
    BY <1>0, <1>12 DEF Flushed, CallTypes, callVars, Goto, Labels, Return,
       BlockOrNull
  <2>3. FlushTypes'
    BY <1>0, <1>12 DEF Flushed, FlushTypes, flushVars, Return
  <2> QED BY <2>1, <2>2, <2>3 DEF Types
<1>13. ASSUME NEW ok \in BOOLEAN, FlushIO(t, ok) PROVE Types'
  <2>1. poBlock[t] \in Blocks
    BY <1>0, <1>13, PointerIsBlock DEF FlushIO, PointerLabels, FlushLabels
  <2>2. BlockTypes' /\ CacheTypes' /\ BandTypes' /\ ScanTypes'
    BY <1>0, <1>13 DEF FlushIO, blockVars, cacheVars, bandVars, scanVars,
       BlockTypes, CacheTypes, BandTypes, ScanTypes
  <2>3. DataTypes'
    BY <1>0, <1>13, <2>1 DEF FlushIO, DataTypes, dataVars, BlockTypes
  <2>4. CallTypes'
    BY <1>0, <1>13, <2>1 DEF FlushIO, CallTypes, callVars, Goto, Labels
  <2>5. FlushTypes'
    BY <1>0, <1>13, <2>1 DEF FlushIO, FlushTypes, flushVars
  <2> QED BY <2>2, <2>3, <2>4, <2>5 DEF Types
<1> QED BY <1>1, <1>2, <1>3, <1>4, <1>5, <1>6, <1>7, <1>8, <1>9, <1>10, <1>11,
   <1>12, <1>13 DEF FlushStep

-----------------------------------------------------------------------------
(* A step of thread t changes its own locals only.                         *)
Others(t) == \A u \in Threads \ {t} :
    /\ pc'[u] = pc[u] /\ op'[u] = op[u]
    /\ at'[u] = at[u] /\ poBlock'[u] = poBlock[u]
    /\ poTarget'[u] = poTarget[u] /\ poOther'[u] = poOther[u]
    /\ toFree'[u] = toFree[u] /\ keptBand'[u] = keptBand[u]
    /\ bLoopAgain'[u] = bLoopAgain[u] /\ bFirstIter'[u] = bFirstIter[u]
    /\ iOff'[u] = iOff[u] /\ oOldSet'[u] = oOldSet[u]

(* The start of a call changes no local of another thread.                 *)
LEMMA Others_Start ==
    ASSUME ControlInv, NEW t \in Threads, Start(t)
    PROVE  Others(t)
<1>0. CallTypes /\ ScanTypes /\ FlushTypes
  BY DEF ControlInv, Types
<1> USE DEF Others, CallTypes, ScanTypes, FlushTypes, callVars, scanVars, flushVars, Goto
<1>1. ASSUME NEW o \in Ops, NEW k \in Keys, StartIO(t, o, k) PROVE Others(t)
  BY <1>0, <1>1 DEF StartIO
<1>2. ASSUME NEW o \in Ops, NEW k \in Keys, StartFlush(t, o, k) PROVE Others(t)
  BY <1>0, <1>2 DEF StartFlush
<1>3. ASSUME NEW o \in Ops, StartGlobal(t, o) PROVE Others(t)
  BY <1>0, <1>3 DEF StartGlobal
<1>4. ASSUME NEW ds \in Datasets, Reopen(t, ds) PROVE Others(t)
  BY <1>0, <1>4 DEF Reopen
<1>5. CASE EnterDisableDirtyBlockFlush(t)
  BY <1>0, <1>5 DEF EnterDisableDirtyBlockFlush
<1>6. CASE LeaveDisableDirtyBlockFlush(t)
  BY <1>0, <1>6 DEF LeaveDisableDirtyBlockFlush
<1> QED BY <1>1, <1>2, <1>3, <1>4, <1>5, <1>6 DEF Start

(* GetLockedBlockRef() and its callers change no local of another thread.  *)
LEMMA Others_Io ==
    ASSUME ControlInv, NEW t \in Threads, IoStep(t)
    PROVE  Others(t)
<1>0. CallTypes /\ ScanTypes /\ FlushTypes
  BY DEF ControlInv, Types
<1> USE DEF Others, CallTypes, ScanTypes, FlushTypes, callVars, scanVars, flushVars, Goto
<1>1. CASE WaitPendingTasks(t)
  BY <1>0, <1>1 DEF WaitPendingTasks
<1>2. CASE EnterReadWrite(t)
  BY <1>0, <1>2 DEF EnterReadWrite
<1>3. CASE TryGetLockedBlockRef(t)
  BY <1>0, <1>3 DEF TryGetLockedBlockRef
<1>4. CASE TakeLock(t)
  BY <1>0, <1>4 DEF TakeLock
<1>5. CASE TakeLockFailed(t)
  BY <1>0, <1>5 DEF TakeLockFailed
<1>6. CASE Touch(t)
  BY <1>0, <1>6 DEF Touch
<1>7. CASE TouchLocked(t)
  BY <1>0, <1>7 DEF TouchLocked
<1>8. CASE CreateBlockFails(t)
  BY <1>0, <1>8 DEF CreateBlockFails
<1>9. CASE ReacquireReadWriteLock(t)
  BY <1>0, <1>9 DEF ReacquireReadWriteLock
<1>10. ASSUME NEW b \in Blocks, CreateBlock(t, b) PROVE Others(t)
  BY <1>0, <1>10 DEF CreateBlock
<1>11. ASSUME NEW ok \in BOOLEAN, Allocate(t, ok) PROVE Others(t)
  BY <1>0, <1>11 DEF Allocate
<1>12. ASSUME NEW ok \in BOOLEAN, AdoptBlock(t, ok) PROVE Others(t)
  BY <1>0, <1>12 DEF AdoptBlock
<1>13. ASSUME NEW ok \in BOOLEAN, ReadBlock(t, ok) PROVE Others(t)
  BY <1>0, <1>13 DEF ReadBlock
<1>14. CASE WriteLocked(t)
  BY <1>0, <1>14 DEF WriteLocked
<1>15. CASE Discard(t)
  BY <1>0, <1>15 DEF Discard
<1>16. CASE Failed(t)
  BY <1>0, <1>16 DEF Failed, Return
<1>17. ASSUME NEW more \in BOOLEAN, DropLock(t, more) PROVE Others(t)
  BY <1>0, <1>17 DEF DropLock, Return
<1> QED BY <1>1, <1>2, <1>3, <1>4, <1>5, <1>6, <1>7, <1>8, <1>9, <1>10, <1>11,
   <1>12, <1>13, <1>14, <1>15, <1>16, <1>17 DEF IoStep

(* An eviction changes no local of another thread.                         *)
LEMMA Others_Evict ==
    ASSUME ControlInv, NEW t \in Threads, EvictStep(t)
    PROVE  Others(t)
<1>0. CallTypes /\ ScanTypes /\ FlushTypes
  BY DEF ControlInv, Types
<1> USE DEF Others, CallTypes, ScanTypes, FlushTypes, callVars, scanVars, flushVars, Goto
<1>1. CASE InternalizeLock(t)
  BY <1>0, <1>1 DEF InternalizeLock, StartRound
<1>2. CASE Scan(t)
  BY <1>0, <1>2 DEF Scan
<1>3. CASE Exchange(t)
  BY <1>0, <1>3 DEF Exchange, Claim
<1>4. CASE ExchangeOther(t)
  BY <1>0, <1>4 DEF ExchangeOther, Claim
<1>5. CASE Fallback(t)
  BY <1>0, <1>5 DEF Fallback, Claim
<1>6. CASE FallbackEnds(t)
  BY <1>0, <1>6 DEF FallbackEnds
<1>7. CASE Detach(t)
  BY <1>0, <1>7 DEF Detach
<1>8. CASE UnreferenceBlock(t)
  BY <1>0, <1>8 DEF UnreferenceBlock
<1>9. CASE Scanned(t)
  BY <1>0, <1>9 DEF Scanned
<1>10. CASE FreeNext(t)
  BY <1>0, <1>10 DEF FreeNext
<1>11. CASE Release(t)
  BY <1>0, <1>11 DEF Release
<1>12. CASE KeepAliveDec(t)
  BY <1>0, <1>12 DEF KeepAliveDec
<1>13. CASE FreeEnds(t)
  BY <1>0, <1>13 DEF FreeEnds
<1>14. ASSUME NEW ok \in BOOLEAN, WriteEvicted(t, ok) PROVE Others(t)
  BY <1>0, <1>14 DEF WriteEvicted
<1>15. CASE SetCacheMaxLoop(t)
  BY <1>0, <1>15 DEF SetCacheMaxLoop
<1>16. CASE FlushCacheBlock(t)
  BY <1>0, <1>16 DEF FlushCacheBlock
<1>17. CASE FlushScan(t)
  BY <1>0, <1>17 DEF FlushScan
<1>18. CASE FlushExchange(t)
  BY <1>0, <1>18 DEF FlushExchange, Claim
<1>19. CASE FlushScanEnds(t)
  BY <1>0, <1>19 DEF FlushScanEnds
<1>20. CASE FlushedOne(t)
  BY <1>0, <1>20 DEF FlushedOne
<1> QED BY <1>1, <1>2, <1>3, <1>4, <1>5, <1>6, <1>7, <1>8, <1>9, <1>10, <1>11,
   <1>12, <1>13, <1>14, <1>15, <1>16, <1>17, <1>18, <1>19, <1>20 DEF EvictStep

(* FlushBlock(), FlushCache() and the destructors change no local of       *)
(* another thread.                                                         *)
LEMMA Others_Flush ==
    ASSUME ControlInv, NEW t \in Threads, FlushStep(t)
    PROVE  Others(t)
<1>0. CallTypes /\ ScanTypes /\ FlushTypes
  BY DEF ControlInv, Types
<1> USE DEF Others, CallTypes, ScanTypes, FlushTypes, callVars, scanVars, flushVars, Goto
<1>1. CASE FlushBlock(t)
  BY <1>0, <1>1 DEF FlushBlock
<1>2. CASE ClaimFlush(t)
  BY <1>0, <1>2 DEF ClaimFlush
<1>3. CASE FlushWait(t)
  BY <1>0, <1>3 DEF FlushWait
<1>4. CASE FlushDetach(t)
  BY <1>0, <1>4 DEF FlushDetach
<1>5. CASE FlushWrite(t)
  BY <1>0, <1>5 DEF FlushWrite
<1>6. CASE Delete(t)
  BY <1>0, <1>6 DEF Delete
<1>7. CASE FlushCache(t)
  BY <1>0, <1>7 DEF FlushCache
<1>8. CASE FlushStorage(t)
  BY <1>0, <1>8 DEF FlushStorage
<1>9. CASE FlushNext(t)
  BY <1>0, <1>9 DEF FlushNext
<1>10. CASE FlushEnds(t)
  BY <1>0, <1>10 DEF FlushEnds
<1>11. CASE Destroy(t)
  BY <1>0, <1>11 DEF Destroy
<1>12. CASE Flushed(t)
  BY <1>0, <1>12 DEF Flushed, Return
<1>13. ASSUME NEW ok \in BOOLEAN, FlushIO(t, ok) PROVE Others(t)
  BY <1>0, <1>13 DEF FlushIO
<1> QED BY <1>1, <1>2, <1>3, <1>4, <1>5, <1>6, <1>7, <1>8, <1>9, <1>10, <1>11,
   <1>12, <1>13 DEF FlushStep

(* The start of a call puts a thread in a call that its next step belongs  *)
(* to.                                                                     *)
LEMMA Call_Start ==
    ASSUME ControlInv, NEW t \in Threads, Start(t)
    PROVE  CallOf(t)'
<1>0. CallTypes /\ ScanTypes /\ FlushTypes /\ BandTypes /\ CallOf(t)
  BY DEF ControlInv, Types
<1> USE DEF Goto, callVars, scanVars, CallTypes, ScanTypes, OwnerOps, IoOps,
            ReadOps, WriteOps, FlushOps, GlobalOps, IoLabels, RoundEnd,
            FlushLabels, GlobalLabels
<1>1. ASSUME NEW o \in Ops, NEW k \in Keys, StartIO(t, o, k) PROVE CallOf(t)'
  <2>1. OpOf(t)'
    BY <1>0, <1>1 DEF StartIO, CallOf, OpOf
  <2>2. /\ op'[t] \in OwnerOps =>
              at'[t] \in Keys /\ Owner[DatasetOfKey(at'[t])] = t
        /\ keptBand'[t] # 0 => pc'[t] = "keepAlive"
    <3>1. BandOf(k) = k[1] /\ DatasetOfKey(k) = DatasetOf[k[1]]
      BY DEF BandOf, DatasetOfKey
    <3> QED
      BY <1>0, <1>1, <3>1 DEF StartIO, CallOf
  <2>3. HasPointer(t)' => poBlock'[t] \in Blocks
    BY <1>0, <1>1 DEF StartIO, CallOf, OpOf, HasPointer, HasLock,
       Internalizing, EvictLabels, CriticalLabels
  <2> QED BY <2>1, <2>2, <2>3 DEF CallOf
<1>2. ASSUME NEW o \in Ops, NEW k \in Keys, StartFlush(t, o, k) PROVE CallOf(t)'
  <2>1. OpOf(t)'
    BY <1>0, <1>2 DEF StartFlush, CallOf, OpOf
  <2>2. /\ op'[t] \in OwnerOps =>
              at'[t] \in Keys /\ Owner[DatasetOfKey(at'[t])] = t
        /\ keptBand'[t] # 0 => pc'[t] = "keepAlive"
    BY <1>0, <1>2 DEF StartFlush, CallOf
  <2>3. HasPointer(t)' => poBlock'[t] \in Blocks
    BY <1>0, <1>2 DEF StartFlush, CallOf, OpOf, HasPointer, HasLock,
       Internalizing, EvictLabels, CriticalLabels
  <2> QED BY <2>1, <2>2, <2>3 DEF CallOf
<1>3. ASSUME NEW o \in Ops, StartGlobal(t, o) PROVE CallOf(t)'
  <2>1. OpOf(t)'
    BY <1>0, <1>3 DEF StartGlobal, CallOf, OpOf
  <2>2. /\ op'[t] \in OwnerOps =>
              at'[t] \in Keys /\ Owner[DatasetOfKey(at'[t])] = t
        /\ keptBand'[t] # 0 => pc'[t] = "keepAlive"
    BY <1>0, <1>3 DEF StartGlobal, CallOf
  <2>3. HasPointer(t)' => poBlock'[t] \in Blocks
    BY <1>0, <1>3 DEF StartGlobal, CallOf, OpOf, HasPointer, HasLock,
       Internalizing, EvictLabels, CriticalLabels
  <2> QED BY <2>1, <2>2, <2>3 DEF CallOf
<1>4. ASSUME NEW ds \in Datasets, Reopen(t, ds) PROVE CallOf(t)'
  <2>1. OpOf(t)'
    BY <1>0, <1>4 DEF Reopen, CallOf, OpOf
  <2>2. /\ op'[t] \in OwnerOps =>
              at'[t] \in Keys /\ Owner[DatasetOfKey(at'[t])] = t
        /\ keptBand'[t] # 0 => pc'[t] = "keepAlive"
    BY <1>0, <1>4 DEF Reopen, CallOf
  <2>3. HasPointer(t)' => poBlock'[t] \in Blocks
    BY <1>0, <1>4 DEF Reopen, CallOf, OpOf, HasPointer, HasLock,
       Internalizing, EvictLabels, CriticalLabels
  <2> QED BY <2>1, <2>2, <2>3 DEF CallOf
<1>5. CASE EnterDisableDirtyBlockFlush(t)
  <2>1. OpOf(t)'
    BY <1>0, <1>5 DEF EnterDisableDirtyBlockFlush, CallOf, OpOf
  <2>2. /\ op'[t] \in OwnerOps =>
              at'[t] \in Keys /\ Owner[DatasetOfKey(at'[t])] = t
        /\ keptBand'[t] # 0 => pc'[t] = "keepAlive"
    BY <1>0, <1>5 DEF EnterDisableDirtyBlockFlush, CallOf
  <2>3. HasPointer(t)' => poBlock'[t] \in Blocks
    BY <1>0, <1>5 DEF EnterDisableDirtyBlockFlush, CallOf, OpOf, HasPointer,
       HasLock, Internalizing, EvictLabels, CriticalLabels
  <2> QED BY <2>1, <2>2, <2>3 DEF CallOf
<1>6. CASE LeaveDisableDirtyBlockFlush(t)
  <2>1. OpOf(t)'
    BY <1>0, <1>6 DEF LeaveDisableDirtyBlockFlush, CallOf, OpOf
  <2>2. /\ op'[t] \in OwnerOps =>
              at'[t] \in Keys /\ Owner[DatasetOfKey(at'[t])] = t
        /\ keptBand'[t] # 0 => pc'[t] = "keepAlive"
    BY <1>0, <1>6 DEF LeaveDisableDirtyBlockFlush, CallOf
  <2>3. HasPointer(t)' => poBlock'[t] \in Blocks
    BY <1>0, <1>6 DEF LeaveDisableDirtyBlockFlush, CallOf, OpOf, HasPointer,
       HasLock, Internalizing, EvictLabels, CriticalLabels
  <2> QED BY <2>1, <2>2, <2>3 DEF CallOf
<1> QED BY <1>1, <1>2, <1>3, <1>4, <1>5, <1>6 DEF Start

(* GetLockedBlockRef() and its callers stay in their call, with the        *)
(* pointers it needs.                                                      *)
LEMMA Call_Io ==
    ASSUME ControlInv, NEW t \in Threads, IoStep(t)
    PROVE  CallOf(t)'
<1>0. CallTypes /\ ScanTypes /\ FlushTypes /\ BandTypes /\ CallOf(t)
  BY DEF ControlInv, Types
<1> USE DEF Goto, callVars, scanVars, CallTypes, ScanTypes, OwnerOps, IoOps,
            ReadOps, WriteOps, FlushOps, GlobalOps, IoLabels, RoundEnd,
            FlushLabels, GlobalLabels
<1>1. CASE WaitPendingTasks(t)
  <2>1. OpOf(t)'
    BY <1>0, <1>1 DEF WaitPendingTasks, CallOf, OpOf
  <2>2. /\ op'[t] \in OwnerOps =>
              at'[t] \in Keys /\ Owner[DatasetOfKey(at'[t])] = t
        /\ keptBand'[t] # 0 => pc'[t] = "keepAlive"
    BY <1>0, <1>1 DEF WaitPendingTasks, CallOf
  <2>3. HasPointer(t)' => poBlock'[t] \in Blocks
    BY <1>0, <1>1 DEF WaitPendingTasks, CallOf, OpOf, HasPointer, HasLock,
       Internalizing, EvictLabels, CriticalLabels
  <2> QED BY <2>1, <2>2, <2>3 DEF CallOf
<1>2. CASE EnterReadWrite(t)
  <2>1. OpOf(t)'
    BY <1>0, <1>2 DEF EnterReadWrite, CallOf, OpOf
  <2>2. /\ op'[t] \in OwnerOps =>
              at'[t] \in Keys /\ Owner[DatasetOfKey(at'[t])] = t
        /\ keptBand'[t] # 0 => pc'[t] = "keepAlive"
    BY <1>0, <1>2 DEF EnterReadWrite, CallOf
  <2>3. HasPointer(t)' => poBlock'[t] \in Blocks
    BY <1>0, <1>2 DEF EnterReadWrite, CallOf, OpOf, HasPointer, HasLock,
       Internalizing, EvictLabels, CriticalLabels
  <2> QED BY <2>1, <2>2, <2>3 DEF CallOf
<1>3. CASE TryGetLockedBlockRef(t)
  <2>0. /\ at[t] \in Keys /\ BandOf(at[t]) \in Bands /\ at[t][2] \in Offs
        /\ Owner[DatasetOfKey(at[t])] = t
    BY <1>0, <1>3, AtIsKey DEF TryGetLockedBlockRef, OwnerLabels
  <2>1. OpOf(t)'
    BY <1>0, <1>3 DEF TryGetLockedBlockRef, CallOf, OpOf
  <2>2. /\ op'[t] \in OwnerOps =>
              at'[t] \in Keys /\ Owner[DatasetOfKey(at'[t])] = t
        /\ keptBand'[t] # 0 => pc'[t] = "keepAlive"
    BY <1>0, <1>3 DEF TryGetLockedBlockRef, CallOf
  <2>3. HasPointer(t)' => poBlock'[t] \in Blocks
    BY <1>0, <1>3, <2>0 DEF TryGetLockedBlockRef, CallOf, OpOf, HasPointer,
       HasLock, Internalizing, EvictLabels, CriticalLabels, BandTypes,
       BlockOrNull
  <2> QED BY <2>1, <2>2, <2>3 DEF CallOf
<1>4. CASE TakeLock(t)
  <2>1. OpOf(t)'
    BY <1>0, <1>4 DEF TakeLock, CallOf, OpOf
  <2>2. /\ op'[t] \in OwnerOps =>
              at'[t] \in Keys /\ Owner[DatasetOfKey(at'[t])] = t
        /\ keptBand'[t] # 0 => pc'[t] = "keepAlive"
    BY <1>0, <1>4 DEF TakeLock, CallOf
  <2>3. HasPointer(t)' => poBlock'[t] \in Blocks
    BY <1>0, <1>4 DEF TakeLock, CallOf, OpOf, HasPointer, HasLock,
       Internalizing, EvictLabels, CriticalLabels
  <2> QED BY <2>1, <2>2, <2>3 DEF CallOf
<1>5. CASE TakeLockFailed(t)
  <2>1. OpOf(t)'
    BY <1>0, <1>5 DEF TakeLockFailed, CallOf, OpOf
  <2>2. /\ op'[t] \in OwnerOps =>
              at'[t] \in Keys /\ Owner[DatasetOfKey(at'[t])] = t
        /\ keptBand'[t] # 0 => pc'[t] = "keepAlive"
    BY <1>0, <1>5 DEF TakeLockFailed, CallOf
  <2>3. HasPointer(t)' => poBlock'[t] \in Blocks
    BY <1>0, <1>5 DEF TakeLockFailed, CallOf, OpOf, HasPointer, HasLock,
       Internalizing, EvictLabels, CriticalLabels
  <2> QED BY <2>1, <2>2, <2>3 DEF CallOf
<1>6. CASE Touch(t)
  <2>1. OpOf(t)'
    BY <1>0, <1>6 DEF Touch, IsNewest, CallOf, OpOf
  <2>2. /\ op'[t] \in OwnerOps =>
              at'[t] \in Keys /\ Owner[DatasetOfKey(at'[t])] = t
        /\ keptBand'[t] # 0 => pc'[t] = "keepAlive"
    BY <1>0, <1>6 DEF Touch, IsNewest, CallOf
  <2>3. HasPointer(t)' => poBlock'[t] \in Blocks
    BY <1>0, <1>6 DEF Touch, IsNewest, CallOf, OpOf, HasPointer, HasLock,
       Internalizing, EvictLabels, CriticalLabels
  <2> QED BY <2>1, <2>2, <2>3 DEF CallOf
<1>7. CASE TouchLocked(t)
  <2>1. OpOf(t)'
    BY <1>0, <1>7 DEF TouchLocked, CallOf, OpOf
  <2>2. /\ op'[t] \in OwnerOps =>
              at'[t] \in Keys /\ Owner[DatasetOfKey(at'[t])] = t
        /\ keptBand'[t] # 0 => pc'[t] = "keepAlive"
    BY <1>0, <1>7 DEF TouchLocked, CallOf
  <2>3. HasPointer(t)' => poBlock'[t] \in Blocks
    BY <1>0, <1>7 DEF TouchLocked, CallOf, OpOf, HasPointer, HasLock,
       Internalizing, EvictLabels, CriticalLabels
  <2> QED BY <2>1, <2>2, <2>3 DEF CallOf
<1>8. CASE CreateBlockFails(t)
  <2>1. OpOf(t)'
    BY <1>0, <1>8 DEF CreateBlockFails, CallOf, OpOf
  <2>2. /\ op'[t] \in OwnerOps =>
              at'[t] \in Keys /\ Owner[DatasetOfKey(at'[t])] = t
        /\ keptBand'[t] # 0 => pc'[t] = "keepAlive"
    BY <1>0, <1>8 DEF CreateBlockFails, CallOf
  <2>3. HasPointer(t)' => poBlock'[t] \in Blocks
    BY <1>0, <1>8 DEF CreateBlockFails, CallOf, OpOf, HasPointer, HasLock,
       Internalizing, EvictLabels, CriticalLabels
  <2> QED BY <2>1, <2>2, <2>3 DEF CallOf
<1>9. CASE ReacquireReadWriteLock(t)
  <2>1. OpOf(t)'
    BY <1>0, <1>9 DEF ReacquireReadWriteLock, CallOf, OpOf
  <2>2. /\ op'[t] \in OwnerOps =>
              at'[t] \in Keys /\ Owner[DatasetOfKey(at'[t])] = t
        /\ keptBand'[t] # 0 => pc'[t] = "keepAlive"
    BY <1>0, <1>9 DEF ReacquireReadWriteLock, CallOf
  <2>3. HasPointer(t)' => poBlock'[t] \in Blocks
    BY <1>0, <1>9 DEF ReacquireReadWriteLock, CallOf, OpOf, HasPointer,
       HasLock, Internalizing, EvictLabels, CriticalLabels
  <2> QED BY <2>1, <2>2, <2>3 DEF CallOf
<1>10. ASSUME NEW b \in Blocks, CreateBlock(t, b) PROVE CallOf(t)'
  <2>1. OpOf(t)'
    BY <1>0, <1>10 DEF CreateBlock, CallOf, OpOf
  <2>2. /\ op'[t] \in OwnerOps =>
              at'[t] \in Keys /\ Owner[DatasetOfKey(at'[t])] = t
        /\ keptBand'[t] # 0 => pc'[t] = "keepAlive"
    BY <1>0, <1>10 DEF CreateBlock, CallOf
  <2>3. HasPointer(t)' => poBlock'[t] \in Blocks
    BY <1>0, <1>10 DEF CreateBlock, CallOf, OpOf, HasPointer, HasLock,
       Internalizing, EvictLabels, CriticalLabels
  <2> QED BY <2>1, <2>2, <2>3 DEF CallOf
<1>11. ASSUME NEW ok \in BOOLEAN, Allocate(t, ok) PROVE CallOf(t)'
  <2>1. OpOf(t)'
    BY <1>0, <1>11 DEF Allocate, CallOf, OpOf
  <2>2. /\ op'[t] \in OwnerOps =>
              at'[t] \in Keys /\ Owner[DatasetOfKey(at'[t])] = t
        /\ keptBand'[t] # 0 => pc'[t] = "keepAlive"
    BY <1>0, <1>11 DEF Allocate, CallOf
  <2>3. HasPointer(t)' => poBlock'[t] \in Blocks
    BY <1>0, <1>11 DEF Allocate, CallOf, OpOf, HasPointer, HasLock,
       Internalizing, EvictLabels, CriticalLabels
  <2> QED BY <2>1, <2>2, <2>3 DEF CallOf
<1>12. ASSUME NEW ok \in BOOLEAN, AdoptBlock(t, ok) PROVE CallOf(t)'
  <2>1. OpOf(t)'
    BY <1>0, <1>12 DEF AdoptBlock, MustRead, CallOf, OpOf
  <2>2. /\ op'[t] \in OwnerOps =>
              at'[t] \in Keys /\ Owner[DatasetOfKey(at'[t])] = t
        /\ keptBand'[t] # 0 => pc'[t] = "keepAlive"
    BY <1>0, <1>12 DEF AdoptBlock, MustRead, CallOf
  <2>3. HasPointer(t)' => poBlock'[t] \in Blocks
    BY <1>0, <1>12 DEF AdoptBlock, MustRead, CallOf, OpOf, HasPointer,
       HasLock, Internalizing, EvictLabels, CriticalLabels
  <2> QED BY <2>1, <2>2, <2>3 DEF CallOf
<1>13. ASSUME NEW ok \in BOOLEAN, ReadBlock(t, ok) PROVE CallOf(t)'
  <2>1. OpOf(t)'
    BY <1>0, <1>13 DEF ReadBlock, CallOf, OpOf
  <2>2. /\ op'[t] \in OwnerOps =>
              at'[t] \in Keys /\ Owner[DatasetOfKey(at'[t])] = t
        /\ keptBand'[t] # 0 => pc'[t] = "keepAlive"
    BY <1>0, <1>13 DEF ReadBlock, CallOf
  <2>3. HasPointer(t)' => poBlock'[t] \in Blocks
    BY <1>0, <1>13 DEF ReadBlock, CallOf, OpOf, HasPointer, HasLock,
       Internalizing, EvictLabels, CriticalLabels
  <2> QED BY <2>1, <2>2, <2>3 DEF CallOf
<1>14. CASE WriteLocked(t)
  <2>1. OpOf(t)'
    BY <1>0, <1>14 DEF WriteLocked, CallOf, OpOf
  <2>2. /\ op'[t] \in OwnerOps =>
              at'[t] \in Keys /\ Owner[DatasetOfKey(at'[t])] = t
        /\ keptBand'[t] # 0 => pc'[t] = "keepAlive"
    BY <1>0, <1>14 DEF WriteLocked, CallOf
  <2>3. HasPointer(t)' => poBlock'[t] \in Blocks
    BY <1>0, <1>14 DEF WriteLocked, CallOf, OpOf, HasPointer, HasLock,
       Internalizing, EvictLabels, CriticalLabels
  <2> QED BY <2>1, <2>2, <2>3 DEF CallOf
<1>15. CASE Discard(t)
  <2>1. OpOf(t)'
    BY <1>0, <1>15 DEF Discard, CallOf, OpOf
  <2>2. /\ op'[t] \in OwnerOps =>
              at'[t] \in Keys /\ Owner[DatasetOfKey(at'[t])] = t
        /\ keptBand'[t] # 0 => pc'[t] = "keepAlive"
    BY <1>0, <1>15 DEF Discard, CallOf
  <2>3. HasPointer(t)' => poBlock'[t] \in Blocks
    BY <1>0, <1>15 DEF Discard, CallOf, OpOf, HasPointer, HasLock,
       Internalizing, EvictLabels, CriticalLabels
  <2> QED BY <2>1, <2>2, <2>3 DEF CallOf
<1>16. CASE Failed(t)
  <2>1. OpOf(t)'
    BY <1>0, <1>16 DEF Failed, Return, CallOf, OpOf
  <2>2. /\ op'[t] \in OwnerOps =>
              at'[t] \in Keys /\ Owner[DatasetOfKey(at'[t])] = t
        /\ keptBand'[t] # 0 => pc'[t] = "keepAlive"
    BY <1>0, <1>16 DEF Failed, Return, CallOf
  <2>3. HasPointer(t)' => poBlock'[t] \in Blocks
    BY <1>0, <1>16 DEF Failed, Return, CallOf, OpOf, HasPointer, HasLock,
       Internalizing, EvictLabels, CriticalLabels
  <2> QED BY <2>1, <2>2, <2>3 DEF CallOf
<1>17. ASSUME NEW more \in BOOLEAN, DropLock(t, more) PROVE CallOf(t)'
  <2>0. /\ at[t] \in Keys /\ BandOf(at[t]) \in Bands /\ at[t][2] \in Offs
        /\ Owner[DatasetOfKey(at[t])] = t
    BY <1>0, <1>17, AtIsKey DEF DropLock, OwnerLabels
  <2>1. OpOf(t)'
    BY <1>0, <1>17 DEF DropLock, Return, CallOf, OpOf
  <2>2. /\ op'[t] \in OwnerOps =>
              at'[t] \in Keys /\ Owner[DatasetOfKey(at'[t])] = t
        /\ keptBand'[t] # 0 => pc'[t] = "keepAlive"
    <3>1. CASE more
      <4>1. NextOff(at[t][2]) \in Offs
        BY <1>17, <2>0, <3>1, NextOffProperties DEF DropLock
      <4>k. PICK k : k = <<BandOf(at[t]), NextOff(at[t][2])>>
        OBVIOUS
      <4>2. at'[t] = k /\ UNCHANGED <<op, keptBand>>
        BY <1>0, <1>17, <3>1, <4>k DEF DropLock
      <4>3. k \in Keys
        BY <2>0, <4>1, <4>k, KeyParts
      <4>4. DatasetOfKey(k) = DatasetOfKey(at[t])
        BY <4>k DEF DatasetOfKey, BandOf
      <4>5. keptBand[t] = 0
        BY <1>0, <1>17 DEF DropLock, CallOf
      <4> QED
        BY <2>0, <4>2, <4>3, <4>4, <4>5
    <3>2. CASE ~more
      BY <1>0, <1>17, <3>2 DEF DropLock, Return, CallOf
    <3> QED BY <3>1, <3>2
  <2>3. HasPointer(t)' => poBlock'[t] \in Blocks
    BY <1>0, <1>17 DEF DropLock, Return, CallOf, OpOf, HasPointer, HasLock,
       Internalizing, EvictLabels, CriticalLabels
  <2> QED BY <2>1, <2>2, <2>3 DEF CallOf
<1> QED BY <1>1, <1>2, <1>3, <1>4, <1>5, <1>6, <1>7, <1>8, <1>9, <1>10, <1>11,
   <1>12, <1>13, <1>14, <1>15, <1>16, <1>17 DEF IoStep

(* An eviction returns to the call that made it.                           *)
LEMMA Call_Evict ==
    ASSUME ControlInv, NEW t \in Threads, EvictStep(t)
    PROVE  CallOf(t)'
<1>0. CallTypes /\ ScanTypes /\ FlushTypes /\ BandTypes /\ CallOf(t)
  BY DEF ControlInv, Types
<1> USE DEF Goto, callVars, scanVars, CallTypes, ScanTypes, OwnerOps, IoOps,
            ReadOps, WriteOps, FlushOps, GlobalOps, IoLabels, RoundEnd,
            FlushLabels, GlobalLabels
<1>1. CASE InternalizeLock(t)
  <2>1. OpOf(t)'
    BY <1>0, <1>1 DEF InternalizeLock, StartRound, CallOf, OpOf
  <2>2. /\ op'[t] \in OwnerOps =>
              at'[t] \in Keys /\ Owner[DatasetOfKey(at'[t])] = t
        /\ keptBand'[t] # 0 => pc'[t] = "keepAlive"
    BY <1>0, <1>1 DEF InternalizeLock, StartRound, CallOf
  <2>3. HasPointer(t)' => poBlock'[t] \in Blocks
    BY <1>0, <1>1 DEF InternalizeLock, StartRound, CallOf, OpOf, HasPointer,
       HasLock, Internalizing, EvictLabels, CriticalLabels
  <2> QED BY <2>1, <2>2, <2>3 DEF CallOf
<1>2. CASE Scan(t)
  <2>1. OpOf(t)'
    BY <1>0, <1>2 DEF Scan, CallOf, OpOf
  <2>2. /\ op'[t] \in OwnerOps =>
              at'[t] \in Keys /\ Owner[DatasetOfKey(at'[t])] = t
        /\ keptBand'[t] # 0 => pc'[t] = "keepAlive"
    BY <1>0, <1>2 DEF Scan, CallOf
  <2>3. HasPointer(t)' => poBlock'[t] \in Blocks
    BY <1>0, <1>2 DEF Scan, CallOf, OpOf, HasPointer, HasLock, Internalizing,
       EvictLabels, CriticalLabels
  <2> QED BY <2>1, <2>2, <2>3 DEF CallOf
<1>3. CASE Exchange(t)
  <2>1. OpOf(t)'
    BY <1>0, <1>3 DEF Exchange, Claim, CallOf, OpOf
  <2>2. /\ op'[t] \in OwnerOps =>
              at'[t] \in Keys /\ Owner[DatasetOfKey(at'[t])] = t
        /\ keptBand'[t] # 0 => pc'[t] = "keepAlive"
    BY <1>0, <1>3 DEF Exchange, Claim, CallOf
  <2>3. HasPointer(t)' => poBlock'[t] \in Blocks
    BY <1>0, <1>3 DEF Exchange, Claim, CallOf, OpOf, HasPointer, HasLock,
       Internalizing, EvictLabels, CriticalLabels
  <2> QED BY <2>1, <2>2, <2>3 DEF CallOf
<1>4. CASE ExchangeOther(t)
  <2>1. OpOf(t)'
    BY <1>0, <1>4 DEF ExchangeOther, Claim, CallOf, OpOf
  <2>2. /\ op'[t] \in OwnerOps =>
              at'[t] \in Keys /\ Owner[DatasetOfKey(at'[t])] = t
        /\ keptBand'[t] # 0 => pc'[t] = "keepAlive"
    BY <1>0, <1>4 DEF ExchangeOther, Claim, CallOf
  <2>3. HasPointer(t)' => poBlock'[t] \in Blocks
    BY <1>0, <1>4 DEF ExchangeOther, Claim, CallOf, OpOf, HasPointer, HasLock,
       Internalizing, EvictLabels, CriticalLabels
  <2> QED BY <2>1, <2>2, <2>3 DEF CallOf
<1>5. CASE Fallback(t)
  <2>1. OpOf(t)'
    BY <1>0, <1>5 DEF Fallback, Claim, CallOf, OpOf
  <2>2. /\ op'[t] \in OwnerOps =>
              at'[t] \in Keys /\ Owner[DatasetOfKey(at'[t])] = t
        /\ keptBand'[t] # 0 => pc'[t] = "keepAlive"
    BY <1>0, <1>5 DEF Fallback, Claim, CallOf
  <2>3. HasPointer(t)' => poBlock'[t] \in Blocks
    BY <1>0, <1>5 DEF Fallback, Claim, CallOf, OpOf, HasPointer, HasLock,
       Internalizing, EvictLabels, CriticalLabels
  <2> QED BY <2>1, <2>2, <2>3 DEF CallOf
<1>6. CASE FallbackEnds(t)
  <2>1. OpOf(t)'
    BY <1>0, <1>6 DEF FallbackEnds, CallOf, OpOf
  <2>2. /\ op'[t] \in OwnerOps =>
              at'[t] \in Keys /\ Owner[DatasetOfKey(at'[t])] = t
        /\ keptBand'[t] # 0 => pc'[t] = "keepAlive"
    BY <1>0, <1>6 DEF FallbackEnds, CallOf
  <2>3. HasPointer(t)' => poBlock'[t] \in Blocks
    BY <1>0, <1>6 DEF FallbackEnds, CallOf, OpOf, HasPointer, HasLock,
       Internalizing, EvictLabels, CriticalLabels
  <2> QED BY <2>1, <2>2, <2>3 DEF CallOf
<1>7. CASE Detach(t)
  <2>1. OpOf(t)'
    BY <1>0, <1>7 DEF Detach, CallOf, OpOf
  <2>2. /\ op'[t] \in OwnerOps =>
              at'[t] \in Keys /\ Owner[DatasetOfKey(at'[t])] = t
        /\ keptBand'[t] # 0 => pc'[t] = "keepAlive"
    BY <1>0, <1>7 DEF Detach, CallOf
  <2>3. HasPointer(t)' => poBlock'[t] \in Blocks
    BY <1>0, <1>7 DEF Detach, CallOf, OpOf, HasPointer, HasLock,
       Internalizing, EvictLabels, CriticalLabels
  <2> QED BY <2>1, <2>2, <2>3 DEF CallOf
<1>8. CASE UnreferenceBlock(t)
  <2>1. OpOf(t)'
    BY <1>0, <1>8 DEF UnreferenceBlock, CallOf, OpOf
  <2>2. /\ op'[t] \in OwnerOps =>
              at'[t] \in Keys /\ Owner[DatasetOfKey(at'[t])] = t
        /\ keptBand'[t] # 0 => pc'[t] = "keepAlive"
    BY <1>0, <1>8 DEF UnreferenceBlock, CallOf
  <2>3. HasPointer(t)' => poBlock'[t] \in Blocks
    BY <1>0, <1>8 DEF UnreferenceBlock, CallOf, OpOf, HasPointer, HasLock,
       Internalizing, EvictLabels, CriticalLabels
  <2> QED BY <2>1, <2>2, <2>3 DEF CallOf
<1>9. CASE Scanned(t)
  <2>1. OpOf(t)'
    BY <1>0, <1>9 DEF Scanned, CallOf, OpOf
  <2>2. /\ op'[t] \in OwnerOps =>
              at'[t] \in Keys /\ Owner[DatasetOfKey(at'[t])] = t
        /\ keptBand'[t] # 0 => pc'[t] = "keepAlive"
    BY <1>0, <1>9 DEF Scanned, CallOf
  <2>3. HasPointer(t)' => poBlock'[t] \in Blocks
    BY <1>0, <1>9 DEF Scanned, CallOf, OpOf, HasPointer, HasLock,
       Internalizing, EvictLabels, CriticalLabels
  <2> QED BY <2>1, <2>2, <2>3 DEF CallOf
<1>10. CASE FreeNext(t)
  <2>1. OpOf(t)'
    BY <1>0, <1>10 DEF FreeNext, CallOf, OpOf
  <2>2. /\ op'[t] \in OwnerOps =>
              at'[t] \in Keys /\ Owner[DatasetOfKey(at'[t])] = t
        /\ keptBand'[t] # 0 => pc'[t] = "keepAlive"
    BY <1>0, <1>10 DEF FreeNext, CallOf
  <2>3. HasPointer(t)' => poBlock'[t] \in Blocks
    BY <1>0, <1>10 DEF FreeNext, CallOf, OpOf, HasPointer, HasLock,
       Internalizing, EvictLabels, CriticalLabels
  <2> QED BY <2>1, <2>2, <2>3 DEF CallOf
<1>11. CASE Release(t)
  <2>1. OpOf(t)'
    BY <1>0, <1>11 DEF Release, CallOf, OpOf
  <2>2. /\ op'[t] \in OwnerOps =>
              at'[t] \in Keys /\ Owner[DatasetOfKey(at'[t])] = t
        /\ keptBand'[t] # 0 => pc'[t] = "keepAlive"
    BY <1>0, <1>11 DEF Release, CallOf
  <2>3. HasPointer(t)' => poBlock'[t] \in Blocks
    BY <1>0, <1>11 DEF Release, CallOf, OpOf, HasPointer, HasLock,
       Internalizing, EvictLabels, CriticalLabels
  <2> QED BY <2>1, <2>2, <2>3 DEF CallOf
<1>12. CASE KeepAliveDec(t)
  <2>1. OpOf(t)'
    BY <1>0, <1>12 DEF KeepAliveDec, CallOf, OpOf
  <2>2. /\ op'[t] \in OwnerOps =>
              at'[t] \in Keys /\ Owner[DatasetOfKey(at'[t])] = t
        /\ keptBand'[t] # 0 => pc'[t] = "keepAlive"
    BY <1>0, <1>12 DEF KeepAliveDec, CallOf
  <2>3. HasPointer(t)' => poBlock'[t] \in Blocks
    BY <1>0, <1>12 DEF KeepAliveDec, CallOf, OpOf, HasPointer, HasLock,
       Internalizing, EvictLabels, CriticalLabels
  <2> QED BY <2>1, <2>2, <2>3 DEF CallOf
<1>13. CASE FreeEnds(t)
  <2>1. OpOf(t)'
    BY <1>0, <1>13 DEF FreeEnds, CallOf, OpOf
  <2>2. /\ op'[t] \in OwnerOps =>
              at'[t] \in Keys /\ Owner[DatasetOfKey(at'[t])] = t
        /\ keptBand'[t] # 0 => pc'[t] = "keepAlive"
    BY <1>0, <1>13 DEF FreeEnds, CallOf
  <2>3. HasPointer(t)' => poBlock'[t] \in Blocks
    BY <1>0, <1>13 DEF FreeEnds, CallOf, OpOf, HasPointer, HasLock,
       Internalizing, EvictLabels, CriticalLabels
  <2> QED BY <2>1, <2>2, <2>3 DEF CallOf
<1>14. ASSUME NEW ok \in BOOLEAN, WriteEvicted(t, ok) PROVE CallOf(t)'
  <2>1. OpOf(t)'
    BY <1>0, <1>14 DEF WriteEvicted, CallOf, OpOf
  <2>2. /\ op'[t] \in OwnerOps =>
              at'[t] \in Keys /\ Owner[DatasetOfKey(at'[t])] = t
        /\ keptBand'[t] # 0 => pc'[t] = "keepAlive"
    BY <1>0, <1>14 DEF WriteEvicted, CallOf
  <2>3. HasPointer(t)' => poBlock'[t] \in Blocks
    BY <1>0, <1>14 DEF WriteEvicted, CallOf, OpOf, HasPointer, HasLock,
       Internalizing, EvictLabels, CriticalLabels
  <2> QED BY <2>1, <2>2, <2>3 DEF CallOf
<1>15. CASE SetCacheMaxLoop(t)
  <2>1. OpOf(t)'
    BY <1>0, <1>15 DEF SetCacheMaxLoop, CallOf, OpOf
  <2>2. /\ op'[t] \in OwnerOps =>
              at'[t] \in Keys /\ Owner[DatasetOfKey(at'[t])] = t
        /\ keptBand'[t] # 0 => pc'[t] = "keepAlive"
    BY <1>0, <1>15 DEF SetCacheMaxLoop, CallOf
  <2>3. HasPointer(t)' => poBlock'[t] \in Blocks
    BY <1>0, <1>15 DEF SetCacheMaxLoop, CallOf, OpOf, HasPointer, HasLock,
       Internalizing, EvictLabels, CriticalLabels
  <2> QED BY <2>1, <2>2, <2>3 DEF CallOf
<1>16. CASE FlushCacheBlock(t)
  <2>1. OpOf(t)'
    BY <1>0, <1>16 DEF FlushCacheBlock, CallOf, OpOf
  <2>2. /\ op'[t] \in OwnerOps =>
              at'[t] \in Keys /\ Owner[DatasetOfKey(at'[t])] = t
        /\ keptBand'[t] # 0 => pc'[t] = "keepAlive"
    BY <1>0, <1>16 DEF FlushCacheBlock, CallOf
  <2>3. HasPointer(t)' => poBlock'[t] \in Blocks
    BY <1>0, <1>16 DEF FlushCacheBlock, CallOf, OpOf, HasPointer, HasLock,
       Internalizing, EvictLabels, CriticalLabels
  <2> QED BY <2>1, <2>2, <2>3 DEF CallOf
<1>17. CASE FlushScan(t)
  <2>1. OpOf(t)'
    BY <1>0, <1>17 DEF FlushScan, CallOf, OpOf
  <2>2. /\ op'[t] \in OwnerOps =>
              at'[t] \in Keys /\ Owner[DatasetOfKey(at'[t])] = t
        /\ keptBand'[t] # 0 => pc'[t] = "keepAlive"
    BY <1>0, <1>17 DEF FlushScan, CallOf
  <2>3. HasPointer(t)' => poBlock'[t] \in Blocks
    BY <1>0, <1>17 DEF FlushScan, CallOf, OpOf, HasPointer, HasLock,
       Internalizing, EvictLabels, CriticalLabels
  <2> QED BY <2>1, <2>2, <2>3 DEF CallOf
<1>18. CASE FlushExchange(t)
  <2>1. OpOf(t)'
    BY <1>0, <1>18 DEF FlushExchange, Claim, CallOf, OpOf
  <2>2. /\ op'[t] \in OwnerOps =>
              at'[t] \in Keys /\ Owner[DatasetOfKey(at'[t])] = t
        /\ keptBand'[t] # 0 => pc'[t] = "keepAlive"
    BY <1>0, <1>18 DEF FlushExchange, Claim, CallOf
  <2>3. HasPointer(t)' => poBlock'[t] \in Blocks
    BY <1>0, <1>18 DEF FlushExchange, Claim, CallOf, OpOf, HasPointer,
       HasLock, Internalizing, EvictLabels, CriticalLabels
  <2> QED BY <2>1, <2>2, <2>3 DEF CallOf
<1>19. CASE FlushScanEnds(t)
  <2>1. OpOf(t)'
    BY <1>0, <1>19 DEF FlushScanEnds, CallOf, OpOf
  <2>2. /\ op'[t] \in OwnerOps =>
              at'[t] \in Keys /\ Owner[DatasetOfKey(at'[t])] = t
        /\ keptBand'[t] # 0 => pc'[t] = "keepAlive"
    BY <1>0, <1>19 DEF FlushScanEnds, CallOf
  <2>3. HasPointer(t)' => poBlock'[t] \in Blocks
    BY <1>0, <1>19 DEF FlushScanEnds, CallOf, OpOf, HasPointer, HasLock,
       Internalizing, EvictLabels, CriticalLabels
  <2> QED BY <2>1, <2>2, <2>3 DEF CallOf
<1>20. CASE FlushedOne(t)
  <2>1. OpOf(t)'
    BY <1>0, <1>20 DEF FlushedOne, CallOf, OpOf
  <2>2. /\ op'[t] \in OwnerOps =>
              at'[t] \in Keys /\ Owner[DatasetOfKey(at'[t])] = t
        /\ keptBand'[t] # 0 => pc'[t] = "keepAlive"
    BY <1>0, <1>20 DEF FlushedOne, CallOf
  <2>3. HasPointer(t)' => poBlock'[t] \in Blocks
    BY <1>0, <1>20 DEF FlushedOne, CallOf, OpOf, HasPointer, HasLock,
       Internalizing, EvictLabels, CriticalLabels
  <2> QED BY <2>1, <2>2, <2>3 DEF CallOf
<1> QED BY <1>1, <1>2, <1>3, <1>4, <1>5, <1>6, <1>7, <1>8, <1>9, <1>10, <1>11,
   <1>12, <1>13, <1>14, <1>15, <1>16, <1>17, <1>18, <1>19, <1>20 DEF EvictStep

(* FlushBlock() returns to the call that made it, FlushCache() and the     *)
(* destructors stay in theirs.                                             *)
LEMMA Call_Flush ==
    ASSUME ControlInv, NEW t \in Threads, FlushStep(t)
    PROVE  CallOf(t)'
<1>0. CallTypes /\ ScanTypes /\ FlushTypes /\ BandTypes /\ CallOf(t)
  BY DEF ControlInv, Types
<1> USE DEF Goto, callVars, scanVars, CallTypes, ScanTypes, OwnerOps, IoOps,
            ReadOps, WriteOps, FlushOps, GlobalOps, IoLabels, RoundEnd,
            FlushLabels, GlobalLabels
<1>1. CASE FlushBlock(t)
  <2>0. /\ at[t] \in Keys /\ BandOf(at[t]) \in Bands /\ at[t][2] \in Offs
        /\ Owner[DatasetOfKey(at[t])] = t
    BY <1>0, <1>1, AtIsKey DEF FlushBlock, OwnerLabels
  <2>1. OpOf(t)'
    BY <1>0, <1>1 DEF FlushBlock, AfterFlushBlock, CallOf, OpOf
  <2>2. /\ op'[t] \in OwnerOps =>
              at'[t] \in Keys /\ Owner[DatasetOfKey(at'[t])] = t
        /\ keptBand'[t] # 0 => pc'[t] = "keepAlive"
    BY <1>0, <1>1 DEF FlushBlock, AfterFlushBlock, CallOf
  <2>3. HasPointer(t)' => poBlock'[t] \in Blocks
    BY <1>0, <1>1, <2>0 DEF FlushBlock, AfterFlushBlock, CallOf, OpOf,
       HasPointer, HasLock, Internalizing, EvictLabels, CriticalLabels,
       BandTypes, BlockOrNull
  <2> QED BY <2>1, <2>2, <2>3 DEF CallOf
<1>2. CASE ClaimFlush(t)
  <2>1. OpOf(t)'
    BY <1>0, <1>2 DEF ClaimFlush, CallOf, OpOf
  <2>2. /\ op'[t] \in OwnerOps =>
              at'[t] \in Keys /\ Owner[DatasetOfKey(at'[t])] = t
        /\ keptBand'[t] # 0 => pc'[t] = "keepAlive"
    BY <1>0, <1>2 DEF ClaimFlush, CallOf
  <2>3. HasPointer(t)' => poBlock'[t] \in Blocks
    BY <1>0, <1>2 DEF ClaimFlush, CallOf, OpOf, HasPointer, HasLock,
       Internalizing, EvictLabels, CriticalLabels
  <2> QED BY <2>1, <2>2, <2>3 DEF CallOf
<1>3. CASE FlushWait(t)
  <2>1. OpOf(t)'
    BY <1>0, <1>3 DEF FlushWait, AfterFlushBlock, CallOf, OpOf
  <2>2. /\ op'[t] \in OwnerOps =>
              at'[t] \in Keys /\ Owner[DatasetOfKey(at'[t])] = t
        /\ keptBand'[t] # 0 => pc'[t] = "keepAlive"
    BY <1>0, <1>3 DEF FlushWait, AfterFlushBlock, CallOf
  <2>3. HasPointer(t)' => poBlock'[t] \in Blocks
    BY <1>0, <1>3 DEF FlushWait, AfterFlushBlock, CallOf, OpOf, HasPointer,
       HasLock, Internalizing, EvictLabels, CriticalLabels
  <2> QED BY <2>1, <2>2, <2>3 DEF CallOf
<1>4. CASE FlushDetach(t)
  <2>1. OpOf(t)'
    BY <1>0, <1>4 DEF FlushDetach, CallOf, OpOf
  <2>2. /\ op'[t] \in OwnerOps =>
              at'[t] \in Keys /\ Owner[DatasetOfKey(at'[t])] = t
        /\ keptBand'[t] # 0 => pc'[t] = "keepAlive"
    BY <1>0, <1>4 DEF FlushDetach, CallOf
  <2>3. HasPointer(t)' => poBlock'[t] \in Blocks
    BY <1>0, <1>4 DEF FlushDetach, CallOf, OpOf, HasPointer, HasLock,
       Internalizing, EvictLabels, CriticalLabels
  <2> QED BY <2>1, <2>2, <2>3 DEF CallOf
<1>5. CASE FlushWrite(t)
  <2>1. OpOf(t)'
    BY <1>0, <1>5 DEF FlushWrite, CallOf, OpOf
  <2>2. /\ op'[t] \in OwnerOps =>
              at'[t] \in Keys /\ Owner[DatasetOfKey(at'[t])] = t
        /\ keptBand'[t] # 0 => pc'[t] = "keepAlive"
    BY <1>0, <1>5 DEF FlushWrite, CallOf
  <2>3. HasPointer(t)' => poBlock'[t] \in Blocks
    BY <1>0, <1>5 DEF FlushWrite, CallOf, OpOf, HasPointer, HasLock,
       Internalizing, EvictLabels, CriticalLabels
  <2> QED BY <2>1, <2>2, <2>3 DEF CallOf
<1>6. CASE Delete(t)
  <2>1. OpOf(t)'
    BY <1>0, <1>6 DEF Delete, AfterFlushBlock, CallOf, OpOf
  <2>2. /\ op'[t] \in OwnerOps =>
              at'[t] \in Keys /\ Owner[DatasetOfKey(at'[t])] = t
        /\ keptBand'[t] # 0 => pc'[t] = "keepAlive"
    BY <1>0, <1>6 DEF Delete, AfterFlushBlock, CallOf
  <2>3. HasPointer(t)' => poBlock'[t] \in Blocks
    BY <1>0, <1>6 DEF Delete, AfterFlushBlock, CallOf, OpOf, HasPointer,
       HasLock, Internalizing, EvictLabels, CriticalLabels
  <2> QED BY <2>1, <2>2, <2>3 DEF CallOf
<1>7. CASE FlushCache(t)
  <2>1. OpOf(t)'
    BY <1>0, <1>7 DEF FlushCache, CallOf, OpOf
  <2>2. /\ op'[t] \in OwnerOps =>
              at'[t] \in Keys /\ Owner[DatasetOfKey(at'[t])] = t
        /\ keptBand'[t] # 0 => pc'[t] = "keepAlive"
    BY <1>0, <1>7 DEF FlushCache, CallOf
  <2>3. HasPointer(t)' => poBlock'[t] \in Blocks
    BY <1>0, <1>7 DEF FlushCache, CallOf, OpOf, HasPointer, HasLock,
       Internalizing, EvictLabels, CriticalLabels
  <2> QED BY <2>1, <2>2, <2>3 DEF CallOf
<1>8. CASE FlushStorage(t)
  <2>1. OpOf(t)'
    BY <1>0, <1>8 DEF FlushStorage, CallOf, OpOf
  <2>2. /\ op'[t] \in OwnerOps =>
              at'[t] \in Keys /\ Owner[DatasetOfKey(at'[t])] = t
        /\ keptBand'[t] # 0 => pc'[t] = "keepAlive"
    BY <1>0, <1>8 DEF FlushStorage, CallOf
  <2>3. HasPointer(t)' => poBlock'[t] \in Blocks
    BY <1>0, <1>8 DEF FlushStorage, CallOf, OpOf, HasPointer, HasLock,
       Internalizing, EvictLabels, CriticalLabels
  <2> QED BY <2>1, <2>2, <2>3 DEF CallOf
<1>9. CASE FlushNext(t)
  <2>0. /\ at[t] \in Keys /\ BandOf(at[t]) \in Bands /\ at[t][2] \in Offs
        /\ Owner[DatasetOfKey(at[t])] = t
    BY <1>0, <1>9, AtIsKey DEF FlushNext, OwnerLabels
  <2>1. OpOf(t)'
    BY <1>0, <1>9 DEF FlushNext, CallOf, OpOf
  <2>2. /\ op'[t] \in OwnerOps =>
              at'[t] \in Keys /\ Owner[DatasetOfKey(at'[t])] = t
        /\ keptBand'[t] # 0 => pc'[t] = "keepAlive"
    BY <1>0, <1>9 DEF FlushNext, CallOf
  <2>3. HasPointer(t)' => poBlock'[t] \in Blocks
    <3>1. /\ iOff[t] \in Offs
          /\ slot[<<BandOf(at[t]), iOff[t]>>] \in BlockOrNull
          /\ oOldSet[t][iOff[t]] \in BlockOrNull
      BY <1>0, <1>9, <2>0, KeyParts DEF FlushNext, BandTypes, FlushTypes
    <3>2. pc'[t] = "claimFlush" => poBlock'[t] \in Blocks
      BY <1>0, <1>9, <3>1 DEF FlushNext, BlockOrNull
    <3>3. pc'[t] \in {"flushNext", "claimFlush"} /\ op'[t] \in FlushOps
      BY <1>0, <1>9 DEF FlushNext, CallOf, OpOf
    <3> QED
      BY <3>2, <3>3 DEF HasPointer, HasLock, Internalizing, EvictLabels,
         CriticalLabels
  <2> QED BY <2>1, <2>2, <2>3 DEF CallOf
<1>10. CASE FlushEnds(t)
  <2>1. OpOf(t)'
    BY <1>0, <1>10 DEF FlushEnds, CallOf, OpOf
  <2>2. /\ op'[t] \in OwnerOps =>
              at'[t] \in Keys /\ Owner[DatasetOfKey(at'[t])] = t
        /\ keptBand'[t] # 0 => pc'[t] = "keepAlive"
    BY <1>0, <1>10 DEF FlushEnds, CallOf
  <2>3. HasPointer(t)' => poBlock'[t] \in Blocks
    BY <1>0, <1>10 DEF FlushEnds, CallOf, OpOf, HasPointer, HasLock,
       Internalizing, EvictLabels, CriticalLabels
  <2> QED BY <2>1, <2>2, <2>3 DEF CallOf
<1>11. CASE Destroy(t)
  <2>0. /\ at[t] \in Keys /\ BandOf(at[t]) \in Bands /\ at[t][2] \in Offs
        /\ Owner[DatasetOfKey(at[t])] = t
    BY <1>0, <1>11, AtIsKey DEF Destroy, OwnerLabels
  <2>1. OpOf(t)'
    BY <1>0, <1>11 DEF Destroy, CallOf, OpOf
  <2>2. /\ op'[t] \in OwnerOps =>
              at'[t] \in Keys /\ Owner[DatasetOfKey(at'[t])] = t
        /\ keptBand'[t] # 0 => pc'[t] = "keepAlive"
    <3>r. PICK rest :
             rest = {e \in BandsOf(DatasetOf[BandOf(at[t])]) : e > BandOf(at[t])}
      OBVIOUS
    <3>1. CASE rest = {}
      BY <1>0, <1>11, <3>r, <3>1 DEF Destroy, CallOf
    <3>2. CASE rest # {}
      <4>0. rest \subseteq Bands
        BY <3>r DEF BandsOf
      <4>1. First(rest) \in rest
        BY <3>2, <4>0, FirstIsLeast, BandsAssumption
      <4>k. PICK k : k = <<First(rest), First(Offs)>>
        OBVIOUS
      <4>2. at'[t] = k /\ UNCHANGED <<op, keptBand>>
        BY <1>0, <1>11, <3>r, <3>2, <4>k DEF Destroy
      <4>3. k \in Keys
        BY <4>0, <4>1, <4>k, FirstOff, KeyParts
      <4>4. DatasetOf[First(rest)] = DatasetOf[BandOf(at[t])]
        BY <3>r, <4>1 DEF BandsOf
      <4>5. DatasetOfKey(k) = DatasetOfKey(at[t])
        BY <4>k, <4>4 DEF DatasetOfKey, BandOf
      <4>6. keptBand[t] = 0
        BY <1>0, <1>11 DEF Destroy, CallOf
      <4> QED
        BY <2>0, <4>2, <4>3, <4>5, <4>6
    <3> QED BY <3>1, <3>2
  <2>3. HasPointer(t)' => poBlock'[t] \in Blocks
    BY <1>0, <1>11 DEF Destroy, CallOf, OpOf, HasPointer, HasLock,
       Internalizing, EvictLabels, CriticalLabels
  <2> QED BY <2>1, <2>2, <2>3 DEF CallOf
<1>12. CASE Flushed(t)
  <2>1. OpOf(t)'
    BY <1>0, <1>12 DEF Flushed, Return, CallOf, OpOf
  <2>2. /\ op'[t] \in OwnerOps =>
              at'[t] \in Keys /\ Owner[DatasetOfKey(at'[t])] = t
        /\ keptBand'[t] # 0 => pc'[t] = "keepAlive"
    BY <1>0, <1>12 DEF Flushed, Return, CallOf
  <2>3. HasPointer(t)' => poBlock'[t] \in Blocks
    BY <1>0, <1>12 DEF Flushed, Return, CallOf, OpOf, HasPointer, HasLock,
       Internalizing, EvictLabels, CriticalLabels
  <2> QED BY <2>1, <2>2, <2>3 DEF CallOf
<1>13. ASSUME NEW ok \in BOOLEAN, FlushIO(t, ok) PROVE CallOf(t)'
  <2>1. OpOf(t)'
    BY <1>0, <1>13 DEF FlushIO, CallOf, OpOf
  <2>2. /\ op'[t] \in OwnerOps =>
              at'[t] \in Keys /\ Owner[DatasetOfKey(at'[t])] = t
        /\ keptBand'[t] # 0 => pc'[t] = "keepAlive"
    BY <1>0, <1>13 DEF FlushIO, CallOf
  <2>3. HasPointer(t)' => poBlock'[t] \in Blocks
    BY <1>0, <1>13 DEF FlushIO, CallOf, OpOf, HasPointer, HasLock,
       Internalizing, EvictLabels, CriticalLabels
  <2> QED BY <2>1, <2>2, <2>3 DEF CallOf
<1> QED BY <1>1, <1>2, <1>3, <1>4, <1>5, <1>6, <1>7, <1>8, <1>9, <1>10, <1>11,
   <1>12, <1>13 DEF FlushStep

(* Outside its scan a thread has no scan pointer.                          *)
LEMMA ScanIdle ==
    ASSUME NEW t \in Threads, ScanOf(t), pc[t] \notin CriticalLabels,
           pc'[t] \notin CriticalLabels,
           poTarget'[t] = poTarget[t], poOther'[t] = poOther[t]
    PROVE  ScanOf(t)'
BY DEF ScanOf, CriticalLabels

(* An idle thread has no scan pointer.                                     *)
LEMMA Scan_Start ==
    ASSUME ControlInv, NEW t \in Threads, Start(t)
    PROVE  ScanOf(t)'
<1>0. /\ CallTypes /\ ScanTypes /\ CallOf(t) /\ ScanOf(t)
      /\ lru \in Seq(Blocks) /\ NoDuplicates(lru)
  BY DEF ControlInv, Types, CacheTypes
<1> USE DEF Goto, callVars, scanVars, CallTypes, ScanTypes, CriticalLabels
<1>1. ASSUME NEW o \in Ops, NEW k \in Keys, StartIO(t, o, k) PROVE ScanOf(t)'
  BY <1>0, <1>1, ScanIdle DEF StartIO
<1>2. ASSUME NEW o \in Ops, NEW k \in Keys, StartFlush(t, o, k) PROVE ScanOf(t)'
  BY <1>0, <1>2, ScanIdle DEF StartFlush
<1>3. ASSUME NEW o \in Ops, StartGlobal(t, o) PROVE ScanOf(t)'
  BY <1>0, <1>3, ScanIdle DEF StartGlobal
<1>4. ASSUME NEW ds \in Datasets, Reopen(t, ds) PROVE ScanOf(t)'
  BY <1>0, <1>4, ScanIdle DEF Reopen
<1>5. CASE EnterDisableDirtyBlockFlush(t)
  BY <1>0, <1>5, ScanIdle DEF EnterDisableDirtyBlockFlush
<1>6. CASE LeaveDisableDirtyBlockFlush(t)
  BY <1>0, <1>6, ScanIdle DEF LeaveDisableDirtyBlockFlush
<1> QED BY <1>1, <1>2, <1>3, <1>4, <1>5, <1>6 DEF Start

(* GetLockedBlockRef() has no scan pointer outside Internalize().          *)
LEMMA Scan_Io ==
    ASSUME ControlInv, NEW t \in Threads, IoStep(t)
    PROVE  ScanOf(t)'
<1>0. /\ CallTypes /\ ScanTypes /\ CallOf(t) /\ ScanOf(t)
      /\ lru \in Seq(Blocks) /\ NoDuplicates(lru)
  BY DEF ControlInv, Types, CacheTypes
<1> USE DEF Goto, callVars, scanVars, CallTypes, ScanTypes, CriticalLabels
<1>1. CASE WaitPendingTasks(t)
  BY <1>0, <1>1, ScanIdle DEF WaitPendingTasks
<1>2. CASE EnterReadWrite(t)
  BY <1>0, <1>2, ScanIdle DEF EnterReadWrite
<1>3. CASE TryGetLockedBlockRef(t)
  BY <1>0, <1>3, ScanIdle DEF TryGetLockedBlockRef
<1>4. CASE TakeLock(t)
  BY <1>0, <1>4, ScanIdle DEF TakeLock
<1>5. CASE TakeLockFailed(t)
  BY <1>0, <1>5, ScanIdle DEF TakeLockFailed
<1>6. CASE Touch(t)
  BY <1>0, <1>6, ScanIdle DEF Touch, IsNewest
<1>7. CASE TouchLocked(t)
  BY <1>0, <1>7, ScanIdle DEF TouchLocked
<1>8. CASE CreateBlockFails(t)
  BY <1>0, <1>8, ScanIdle DEF CreateBlockFails
<1>9. CASE ReacquireReadWriteLock(t)
  BY <1>0, <1>9, ScanIdle DEF ReacquireReadWriteLock
<1>10. ASSUME NEW b \in Blocks, CreateBlock(t, b) PROVE ScanOf(t)'
  BY <1>0, <1>10, ScanIdle DEF CreateBlock
<1>11. ASSUME NEW ok \in BOOLEAN, Allocate(t, ok) PROVE ScanOf(t)'
  BY <1>0, <1>11, ScanIdle DEF Allocate
<1>12. ASSUME NEW ok \in BOOLEAN, AdoptBlock(t, ok) PROVE ScanOf(t)'
  BY <1>0, <1>12, ScanIdle DEF AdoptBlock, MustRead
<1>13. ASSUME NEW ok \in BOOLEAN, ReadBlock(t, ok) PROVE ScanOf(t)'
  BY <1>0, <1>13, ScanIdle DEF ReadBlock
<1>14. CASE WriteLocked(t)
  BY <1>0, <1>14, ScanIdle DEF WriteLocked
<1>15. CASE Discard(t)
  BY <1>0, <1>15, ScanIdle DEF Discard
<1>16. CASE Failed(t)
  BY <1>0, <1>16, ScanIdle DEF Failed, Return
<1>17. ASSUME NEW more \in BOOLEAN, DropLock(t, more) PROVE ScanOf(t)'
  BY <1>0, <1>17, ScanIdle DEF DropLock, Return
<1> QED BY <1>1, <1>2, <1>3, <1>4, <1>5, <1>6, <1>7, <1>8, <1>9, <1>10, <1>11,
   <1>12, <1>13, <1>14, <1>15, <1>16, <1>17 DEF IoStep

(* The pointers of a scan follow the list.                                 *)
LEMMA Scan_Evict ==
    ASSUME ControlInv, NEW t \in Threads, EvictStep(t)
    PROVE  ScanOf(t)'
<1>0. /\ CallTypes /\ ScanTypes /\ CallOf(t) /\ ScanOf(t)
      /\ lru \in Seq(Blocks) /\ NoDuplicates(lru)
  BY DEF ControlInv, Types, CacheTypes
<1> USE DEF Goto, callVars, scanVars, CallTypes, ScanTypes, CriticalLabels
<1>1. CASE InternalizeLock(t)
  <2>1. poTarget[t] # Null => PreviousOf(poTarget[t]) \in ToSet(lru) \cup {Null}
    BY <1>0, PreviousProperties DEF ScanOf
  <2>2. Oldest \in ToSet(lru) \cup {Null} /\ UNCHANGED lru
    BY <1>0, <1>1, OldestProperties DEF InternalizeLock, cacheVars
  <2> QED
    BY <1>0, <1>1, <2>1, <2>2, NamesAssumption DEF InternalizeLock, ScanOf
<1>2. CASE Scan(t)
  <2>1. poTarget[t] # Null => PreviousOf(poTarget[t]) \in ToSet(lru) \cup {Null}
    BY <1>0, PreviousProperties DEF ScanOf
  <2>2. Oldest \in ToSet(lru) \cup {Null} /\ UNCHANGED lru
    BY <1>0, <1>2, OldestProperties DEF Scan, cacheVars
  <2> QED
    BY <1>0, <1>2, <2>1, <2>2, NamesAssumption DEF Scan, ScanOf, CallOf, OpOf,
       IoLabels
<1>3. CASE Exchange(t)
  <2>1. poTarget[t] # Null => PreviousOf(poTarget[t]) \in ToSet(lru) \cup {Null}
    BY <1>0, PreviousProperties DEF ScanOf
  <2>2. Oldest \in ToSet(lru) \cup {Null} /\ UNCHANGED lru
    BY <1>0, <1>3, OldestProperties DEF Exchange, Claim, cacheVars
  <2> QED
    BY <1>0, <1>3, <2>1, <2>2, NamesAssumption DEF Exchange, Claim, ScanOf
<1>4. CASE ExchangeOther(t)
  <2>1. poTarget[t] # Null => PreviousOf(poTarget[t]) \in ToSet(lru) \cup {Null}
    BY <1>0, PreviousProperties DEF ScanOf
  <2>2. Oldest \in ToSet(lru) \cup {Null} /\ UNCHANGED lru
    BY <1>0, <1>4, OldestProperties DEF ExchangeOther, Claim, cacheVars
  <2> QED
    BY <1>0, <1>4, <2>1, <2>2, NamesAssumption DEF ExchangeOther, Claim, ScanOf
<1>5. CASE Fallback(t)
  <2>1. poTarget[t] # Null => PreviousOf(poTarget[t]) \in ToSet(lru) \cup {Null}
    BY <1>0, PreviousProperties DEF ScanOf
  <2>2. Oldest \in ToSet(lru) \cup {Null} /\ UNCHANGED lru
    BY <1>0, <1>5, OldestProperties DEF Fallback, Claim, cacheVars
  <2> QED
    BY <1>0, <1>5, <2>1, <2>2, NamesAssumption DEF Fallback, Claim, ScanOf
<1>6. CASE FallbackEnds(t)
  BY <1>0, <1>6 DEF FallbackEnds, ScanOf, cacheVars
<1>7. CASE Detach(t)
  <2>b. PICK b : b = poTarget[t]
    OBVIOUS
  <2>1. b \in ToSet(lru) /\ b \in Blocks
    BY <1>0, <1>7, <2>b, Elements DEF Detach, ScanOf
  <2>2. PreviousOf(b) \in (ToSet(lru) \ {b}) \cup {Null}
    BY <1>0, <2>1, PreviousProperties
  <2>3. ToSet(lru') = ToSet(lru) \ {b}
    BY <1>0, <1>7, <2>b, DetachedProperties DEF Detach, DetachUnlocked
  <2>4. /\ poTarget'[t] = PreviousOf(b) /\ poOther'[t] = poOther[t]
        /\ pc'[t] = "unreference" /\ toFree'[t] = Append(toFree[t], b)
    BY <1>0, <1>7, <2>b DEF Detach
  <2>5. LastFreed(t)' = b /\ toFree'[t] # <<>>
    <3>1. toFree[t] \in Seq(Blocks)
      BY <1>0
    <3>2. Append(toFree[t], b) # <<>> /\ Append(toFree[t], b)[Len(Append(toFree[t], b))] = b
      BY <2>1, <3>1, AppendedProperties
    <3> QED BY <2>4, <3>2 DEF LastFreed
  <2>6. poOther[t] \in ToSet(lru) \cup {Null} /\ op'[t] = op[t]
    BY <1>0, <1>7 DEF Detach, ScanOf
  <2> QED
    BY <1>0, <2>2, <2>3, <2>4, <2>5, <2>6 DEF ScanOf
<1>8. CASE UnreferenceBlock(t)
  BY <1>0, <1>8 DEF UnreferenceBlock, ScanOf, cacheVars
<1>9. CASE Scanned(t)
  BY <1>0, <1>9 DEF Scanned, ScanOf, cacheVars
<1>10. CASE FreeNext(t)
  BY <1>0, <1>10, ScanIdle DEF FreeNext
<1>11. CASE Release(t)
  BY <1>0, <1>11, ScanIdle DEF Release
<1>12. CASE KeepAliveDec(t)
  BY <1>0, <1>12, ScanIdle DEF KeepAliveDec
<1>13. CASE FreeEnds(t)
  BY <1>0, <1>13, ScanIdle DEF FreeEnds
<1>14. ASSUME NEW ok \in BOOLEAN, WriteEvicted(t, ok) PROVE ScanOf(t)'
  BY <1>0, <1>14, ScanIdle DEF WriteEvicted
<1>15. CASE SetCacheMaxLoop(t)
  BY <1>0, <1>15, ScanIdle DEF SetCacheMaxLoop
<1>16. CASE FlushCacheBlock(t)
  <2>1. poTarget[t] # Null => PreviousOf(poTarget[t]) \in ToSet(lru) \cup {Null}
    BY <1>0, PreviousProperties DEF ScanOf
  <2>2. Oldest \in ToSet(lru) \cup {Null} /\ UNCHANGED lru
    BY <1>0, <1>16, OldestProperties DEF FlushCacheBlock, cacheVars
  <2> QED
    BY <1>0, <1>16, <2>1, <2>2, NamesAssumption DEF FlushCacheBlock, ScanOf
<1>17. CASE FlushScan(t)
  <2>1. poTarget[t] # Null => PreviousOf(poTarget[t]) \in ToSet(lru) \cup {Null}
    BY <1>0, PreviousProperties DEF ScanOf
  <2>2. Oldest \in ToSet(lru) \cup {Null} /\ UNCHANGED lru
    BY <1>0, <1>17, OldestProperties DEF FlushScan, cacheVars
  <2> QED
    BY <1>0, <1>17, <2>1, <2>2, NamesAssumption DEF FlushScan, ScanOf
<1>18. CASE FlushExchange(t)
  <2>1. poTarget[t] # Null => PreviousOf(poTarget[t]) \in ToSet(lru) \cup {Null}
    BY <1>0, PreviousProperties DEF ScanOf
  <2>2. Oldest \in ToSet(lru) \cup {Null} /\ UNCHANGED lru
    BY <1>0, <1>18, OldestProperties DEF FlushExchange, Claim, cacheVars
  <2> QED
    BY <1>0, <1>18, <2>1, <2>2, NamesAssumption DEF FlushExchange, Claim,
       ScanOf
<1>19. CASE FlushScanEnds(t)
  <2>1. poOther[t] = Null
    BY <1>0, <1>19 DEF FlushScanEnds, ScanOf, CallOf, OpOf, GlobalLabels,
       GlobalOps, IoOps, ReadOps, WriteOps
  <2> QED
    BY <1>0, <1>19, <2>1 DEF FlushScanEnds, ScanOf, cacheVars
<1>20. CASE FlushedOne(t)
  BY <1>0, <1>20, ScanIdle DEF FlushedOne
<1> QED BY <1>1, <1>2, <1>3, <1>4, <1>5, <1>6, <1>7, <1>8, <1>9, <1>10, <1>11,
   <1>12, <1>13, <1>14, <1>15, <1>16, <1>17, <1>18, <1>19, <1>20 DEF EvictStep

(* FlushBlock() and FlushCache() have no scan pointer.                     *)
LEMMA Scan_Flush ==
    ASSUME ControlInv, NEW t \in Threads, FlushStep(t)
    PROVE  ScanOf(t)'
<1>0. /\ CallTypes /\ ScanTypes /\ CallOf(t) /\ ScanOf(t)
      /\ lru \in Seq(Blocks) /\ NoDuplicates(lru)
  BY DEF ControlInv, Types, CacheTypes
<1> USE DEF Goto, callVars, scanVars, CallTypes, ScanTypes, CriticalLabels
<1>1. CASE FlushBlock(t)
  BY <1>0, <1>1, ScanIdle DEF FlushBlock, AfterFlushBlock
<1>2. CASE ClaimFlush(t)
  BY <1>0, <1>2, ScanIdle DEF ClaimFlush
<1>3. CASE FlushWait(t)
  BY <1>0, <1>3, ScanIdle DEF FlushWait, AfterFlushBlock
<1>4. CASE FlushDetach(t)
  BY <1>0, <1>4, ScanIdle DEF FlushDetach
<1>5. CASE FlushWrite(t)
  BY <1>0, <1>5, ScanIdle DEF FlushWrite
<1>6. CASE Delete(t)
  BY <1>0, <1>6, ScanIdle DEF Delete, AfterFlushBlock
<1>7. CASE FlushCache(t)
  BY <1>0, <1>7, ScanIdle DEF FlushCache
<1>8. CASE FlushStorage(t)
  BY <1>0, <1>8, ScanIdle DEF FlushStorage
<1>9. CASE FlushNext(t)
  BY <1>0, <1>9, ScanIdle DEF FlushNext
<1>10. CASE FlushEnds(t)
  BY <1>0, <1>10, ScanIdle DEF FlushEnds
<1>11. CASE Destroy(t)
  BY <1>0, <1>11, ScanIdle DEF Destroy
<1>12. CASE Flushed(t)
  BY <1>0, <1>12, ScanIdle DEF Flushed, Return
<1>13. ASSUME NEW ok \in BOOLEAN, FlushIO(t, ok) PROVE ScanOf(t)'
  BY <1>0, <1>13, ScanIdle DEF FlushIO
<1> QED BY <1>1, <1>2, <1>3, <1>4, <1>5, <1>6, <1>7, <1>8, <1>9, <1>10, <1>11,
   <1>12, <1>13 DEF FlushStep

(* The list changes under hRBLock only.                                    *)
LEMMA Lru_Start ==
    ASSUME MutexInv, NEW t \in Threads, Start(t)
    PROVE  lru' = lru \/ hRBLock \in {NoThread, t}
<1> USE DEF cacheVars
<1>1. ASSUME NEW o \in Ops, NEW k \in Keys, StartIO(t, o, k)
      PROVE  lru' = lru \/ hRBLock \in {NoThread, t}
  BY <1>1 DEF StartIO
<1>2. ASSUME NEW o \in Ops, NEW k \in Keys, StartFlush(t, o, k)
      PROVE  lru' = lru \/ hRBLock \in {NoThread, t}
  BY <1>2 DEF StartFlush
<1>3. ASSUME NEW o \in Ops, StartGlobal(t, o)
      PROVE  lru' = lru \/ hRBLock \in {NoThread, t}
  BY <1>3 DEF StartGlobal
<1>4. ASSUME NEW ds \in Datasets, Reopen(t, ds)
      PROVE  lru' = lru \/ hRBLock \in {NoThread, t}
  BY <1>4 DEF Reopen
<1>5. CASE EnterDisableDirtyBlockFlush(t)
  BY <1>5 DEF EnterDisableDirtyBlockFlush
<1>6. CASE LeaveDisableDirtyBlockFlush(t)
  BY <1>6 DEF LeaveDisableDirtyBlockFlush
<1> QED BY <1>1, <1>2, <1>3, <1>4, <1>5, <1>6 DEF Start

(* GetLockedBlockRef() changes the list when no other thread scans it.     *)
LEMMA Lru_Io ==
    ASSUME MutexInv, NEW t \in Threads, IoStep(t)
    PROVE  lru' = lru \/ hRBLock \in {NoThread, t}
<1> USE DEF cacheVars
<1>1. CASE WaitPendingTasks(t)
  BY <1>1 DEF WaitPendingTasks
<1>2. CASE EnterReadWrite(t)
  BY <1>2 DEF EnterReadWrite
<1>3. CASE TryGetLockedBlockRef(t)
  BY <1>3 DEF TryGetLockedBlockRef
<1>4. CASE TakeLock(t)
  BY <1>4 DEF TakeLock
<1>5. CASE TakeLockFailed(t)
  BY <1>5 DEF TakeLockFailed
<1>6. CASE Touch(t)
  BY <1>6 DEF Touch
<1>7. CASE TouchLocked(t)
  BY <1>7 DEF TouchLocked, RBLockFree
<1>8. CASE CreateBlockFails(t)
  BY <1>8 DEF CreateBlockFails
<1>9. CASE ReacquireReadWriteLock(t)
  BY <1>9 DEF ReacquireReadWriteLock
<1>10. ASSUME NEW b \in Blocks, CreateBlock(t, b)
      PROVE  lru' = lru \/ hRBLock \in {NoThread, t}
  BY <1>10 DEF CreateBlock
<1>11. ASSUME NEW ok \in BOOLEAN, Allocate(t, ok)
      PROVE  lru' = lru \/ hRBLock \in {NoThread, t}
  BY <1>11 DEF Allocate
<1>12. ASSUME NEW ok \in BOOLEAN, AdoptBlock(t, ok)
      PROVE  lru' = lru \/ hRBLock \in {NoThread, t}
  BY <1>12 DEF AdoptBlock
<1>13. ASSUME NEW ok \in BOOLEAN, ReadBlock(t, ok)
      PROVE  lru' = lru \/ hRBLock \in {NoThread, t}
  BY <1>13 DEF ReadBlock
<1>14. CASE WriteLocked(t)
  BY <1>14 DEF WriteLocked
<1>15. CASE Discard(t)
  BY <1>15 DEF Discard
<1>16. CASE Failed(t)
  BY <1>16 DEF Failed
<1>17. ASSUME NEW more \in BOOLEAN, DropLock(t, more)
      PROVE  lru' = lru \/ hRBLock \in {NoThread, t}
  BY <1>17 DEF DropLock
<1> QED BY <1>1, <1>2, <1>3, <1>4, <1>5, <1>6, <1>7, <1>8, <1>9, <1>10, <1>11,
   <1>12, <1>13, <1>14, <1>15, <1>16, <1>17 DEF IoStep

(* An eviction changes the list under hRBLock, when no other thread scans  *)
(* it.                                                                     *)
LEMMA Lru_Evict ==
    ASSUME MutexInv, NEW t \in Threads, EvictStep(t)
    PROVE  lru' = lru \/ hRBLock \in {NoThread, t}
<1> USE DEF cacheVars
<1>1. CASE InternalizeLock(t)
  BY <1>1 DEF InternalizeLock
<1>2. CASE Scan(t)
  BY <1>2 DEF Scan
<1>3. CASE Exchange(t)
  BY <1>3 DEF Exchange, Claim
<1>4. CASE ExchangeOther(t)
  BY <1>4 DEF ExchangeOther, Claim
<1>5. CASE Fallback(t)
  BY <1>5 DEF Fallback, Claim
<1>6. CASE FallbackEnds(t)
  BY <1>6 DEF FallbackEnds
<1>7. CASE Detach(t)
  BY <1>7 DEF Detach, MutexInv, CriticalSection, CriticalLabels
<1>8. CASE UnreferenceBlock(t)
  BY <1>8 DEF UnreferenceBlock
<1>9. CASE Scanned(t)
  BY <1>9 DEF Scanned, MutexInv, CriticalSection, CriticalLabels
<1>10. CASE FreeNext(t)
  BY <1>10 DEF FreeNext
<1>11. CASE Release(t)
  BY <1>11 DEF Release
<1>12. CASE KeepAliveDec(t)
  BY <1>12 DEF KeepAliveDec
<1>13. CASE FreeEnds(t)
  BY <1>13 DEF FreeEnds
<1>14. ASSUME NEW ok \in BOOLEAN, WriteEvicted(t, ok)
      PROVE  lru' = lru \/ hRBLock \in {NoThread, t}
  BY <1>14 DEF WriteEvicted
<1>15. CASE SetCacheMaxLoop(t)
  BY <1>15 DEF SetCacheMaxLoop
<1>16. CASE FlushCacheBlock(t)
  BY <1>16 DEF FlushCacheBlock
<1>17. CASE FlushScan(t)
  BY <1>17 DEF FlushScan
<1>18. CASE FlushExchange(t)
  BY <1>18 DEF FlushExchange, Claim
<1>19. CASE FlushScanEnds(t)
  BY <1>19 DEF FlushScanEnds
<1>20. CASE FlushedOne(t)
  BY <1>20 DEF FlushedOne
<1> QED BY <1>1, <1>2, <1>3, <1>4, <1>5, <1>6, <1>7, <1>8, <1>9, <1>10, <1>11,
   <1>12, <1>13, <1>14, <1>15, <1>16, <1>17, <1>18, <1>19, <1>20 DEF EvictStep

(* FlushBlock() and FlushCache() change the list when no other thread      *)
(* scans it.                                                               *)
LEMMA Lru_Flush ==
    ASSUME MutexInv, NEW t \in Threads, FlushStep(t)
    PROVE  lru' = lru \/ hRBLock \in {NoThread, t}
<1> USE DEF cacheVars
<1>1. CASE FlushBlock(t)
  BY <1>1 DEF FlushBlock
<1>2. CASE ClaimFlush(t)
  BY <1>2 DEF ClaimFlush
<1>3. CASE FlushWait(t)
  BY <1>3 DEF FlushWait
<1>4. CASE FlushDetach(t)
  BY <1>4 DEF FlushDetach, RBLockFree
<1>5. CASE FlushWrite(t)
  BY <1>5 DEF FlushWrite
<1>6. CASE Delete(t)
  BY <1>6 DEF Delete, RBLockFree
<1>7. CASE FlushCache(t)
  BY <1>7 DEF FlushCache
<1>8. CASE FlushStorage(t)
  BY <1>8 DEF FlushStorage
<1>9. CASE FlushNext(t)
  BY <1>9 DEF FlushNext
<1>10. CASE FlushEnds(t)
  BY <1>10 DEF FlushEnds
<1>11. CASE Destroy(t)
  BY <1>11 DEF Destroy
<1>12. CASE Flushed(t)
  BY <1>12 DEF Flushed
<1>13. ASSUME NEW ok \in BOOLEAN, FlushIO(t, ok)
      PROVE  lru' = lru \/ hRBLock \in {NoThread, t}
  BY <1>13 DEF FlushIO
<1> QED BY <1>1, <1>2, <1>3, <1>4, <1>5, <1>6, <1>7, <1>8, <1>9, <1>10, <1>11,
   <1>12, <1>13 DEF FlushStep

-----------------------------------------------------------------------------
(* The steps of a thread do not disturb the calls and scans of the others. *)
LEMMA CallMoves ==
    ASSUME ControlInv, NEW t \in Threads, Others(t), CallOf(t)'
    PROVE  \A u \in Threads : CallOf(u)'
<1> SUFFICES ASSUME NEW u \in Threads, u # t PROVE CallOf(u)'
  OBVIOUS
<1>1. CallOf(u)
  BY DEF ControlInv
<1>2. /\ pc'[u] = pc[u] /\ op'[u] = op[u] /\ at'[u] = at[u]
      /\ poBlock'[u] = poBlock[u] /\ keptBand'[u] = keptBand[u]
  BY DEF Others
<1>3. OpOf(u)' /\ (HasPointer(u)' <=> HasPointer(u))
  BY <1>1, <1>2 DEF CallOf, OpOf, HasPointer, HasLock, Internalizing
<1> QED
  BY <1>1, <1>2, <1>3 DEF CallOf

(* A scan is not disturbed by the steps of other threads: they cannot      *)
(* change the list meanwhile.                                              *)
LEMMA ScanMoves ==
    ASSUME ControlInv, NEW t \in Threads, Others(t), ScanOf(t)',
           lru' = lru \/ hRBLock \in {NoThread, t}
    PROVE  \A u \in Threads : ScanOf(u)'
<1> SUFFICES ASSUME NEW u \in Threads, u # t PROVE ScanOf(u)'
  OBVIOUS
<1>1. ScanOf(u)
  BY DEF ControlInv
<1>2. /\ pc'[u] = pc[u] /\ op'[u] = op[u] /\ poTarget'[u] = poTarget[u]
      /\ poOther'[u] = poOther[u] /\ toFree'[u] = toFree[u]
  BY DEF Others
<1>3. CASE lru' = lru
  BY <1>1, <1>2, <1>3 DEF ScanOf, LastFreed
<1>4. CASE hRBLock \in {NoThread, t}
  <2>1. pc[u] \notin CriticalLabels
    BY <1>4, NamesAssumption DEF ControlInv, MutexInv, CriticalSection
  <2>2. poTarget[u] = Null /\ poOther[u] = Null
    BY <1>1, <2>1 DEF ScanOf
  <2> QED
    BY <1>2, <2>1, <2>2 DEF ScanOf, CriticalLabels
<1> QED BY <1>3, <1>4

(* The control invariant holds when no thread has made a call.             *)
LEMMA ControlInv_Init == Init => ControlInv
<1> SUFFICES ASSUME Init PROVE ControlInv
  OBVIOUS
<1>1. MutexInv /\ RoundInv
  BY MutexInv_Init, RoundInv_Init
<1>2. BlockTypes
  BY DEF Init, BlockTypes, NoKey, NoData
<1>3. CacheTypes
  BY BoundsAssumption DEF Init, CacheTypes, LruInit, NoDuplicates
<1>4. BandTypes
  BY DEF Init, BandTypes, BlockOrNull
<1>5. DataTypes
  BY PixelTypes DEF Init, DataTypes
<1>6. CallTypes
  BY DEF Init, CallTypes, Labels, BlockOrNull, NoKey
<1>7. ScanTypes
  BY DEF Init, ScanTypes, BlockOrNull
<1>8. FlushTypes
  BY DEF Init, FlushTypes, BlockOrNull
<1>9. ASSUME NEW t \in Threads PROVE CallOf(t) /\ ScanOf(t)
  <2>1. /\ pc[t] = "idle" /\ op[t] = "none" /\ poTarget[t] = Null
        /\ poOther[t] = Null /\ keptBand[t] = 0
    BY DEF Init
  <2>2. OpOf(t)
    BY <2>1 DEF OpOf, IoLabels, RoundEnd, FlushLabels, GlobalLabels
  <2>3. op[t] \notin OwnerOps /\ op[t] \notin IoOps
    BY <2>1 DEF OwnerOps, IoOps, ReadOps, WriteOps, FlushOps
  <2>4. ~HasPointer(t) /\ pc[t] \notin CriticalLabels
    BY <2>1 DEF HasPointer, HasLock, Internalizing, EvictLabels, CriticalLabels,
       FlushLabels
  <2>5. CallOf(t)
    BY <2>1, <2>2, <2>3, <2>4 DEF CallOf
  <2> QED
    BY <2>1, <2>4, <2>5 DEF ScanOf
<1> QED
  BY <1>1, <1>2, <1>3, <1>4, <1>5, <1>6, <1>7, <1>8, <1>9 DEF ControlInv, Types

(* Every step of every thread keeps the control invariant.                 *)
LEMMA ControlInv_Next == ControlInv /\ [Next]_vars => ControlInv'
<1> SUFFICES ASSUME ControlInv, [Next]_vars PROVE ControlInv'
  OBVIOUS
<1>1. MutexInv' /\ RoundInv' /\ MutexInv
  BY MutexInv_Next, RoundInv_Next DEF ControlInv
<1>2. ASSUME NEW t \in Threads, Start(t) \/ Step(t) PROVE ControlInv'
  <2>1. Start(t) \/ IoStep(t) \/ EvictStep(t) \/ FlushStep(t)
    BY <1>2 DEF Step
  <2>2. Types'
    BY <2>1, Types_Start, Types_Io, Types_Evict, Types_Flush
  <2>3. Others(t)
    BY <2>1, Others_Start, Others_Io, Others_Evict, Others_Flush
  <2>4. CallOf(t)'
    BY <2>1, Call_Start, Call_Io, Call_Evict, Call_Flush
  <2>5. ScanOf(t)'
    BY <2>1, Scan_Start, Scan_Io, Scan_Evict, Scan_Flush
  <2>6. lru' = lru \/ hRBLock \in {NoThread, t}
    BY <1>1, <2>1, Lru_Start, Lru_Io, Lru_Evict, Lru_Flush
  <2> QED
    BY <1>1, <2>2, <2>3, <2>4, <2>5, <2>6, CallMoves, ScanMoves DEF ControlInv
<1>3. CASE UNCHANGED vars
  <2> USE <1>3 DEF vars, blockVars, cacheVars, bandVars, dataVars, callVars,
                   scanVars, flushVars
  <2>1. Types'
    <3>1. BlockTypes' /\ CacheTypes' /\ BandTypes' /\ DataTypes'
      BY DEF ControlInv, Types, BlockTypes, CacheTypes, BandTypes, DataTypes
    <3>2. CallTypes' /\ ScanTypes' /\ FlushTypes'
      BY DEF ControlInv, Types, CallTypes, ScanTypes, FlushTypes
    <3> QED BY <3>1, <3>2 DEF Types
  <2>2. ASSUME NEW t \in Threads PROVE CallOf(t)' /\ ScanOf(t)'
    <3>1. CallOf(t)'
      BY DEF ControlInv, CallOf, OpOf, HasPointer, HasLock, Internalizing
    <3>2. ScanOf(t)'
      BY DEF ControlInv, ScanOf, LastFreed
    <3> QED BY <3>1, <3>2
  <2> QED
    BY <1>1, <2>1, <2>2 DEF ControlInv
<1> QED
  BY <1>2, <1>3 DEF Next

=============================================================================
