--------------------------- MODULE RasterBlockCache ---------------------------
(***************************************************************************)
(* GDAL's raster block cache: the threads that read, write, flush and      *)
(* close the bands of their datasets, and that evict each other's blocks   *)
(* when the cache is full.                                                 *)
(*                                                                         *)
(* A dataset is used by one thread at a time (GDAL's threading rule); what *)
(* threads share is the global LRU list, its lock hRBLock, the counters    *)
(* nCacheUsed and nLockCount and, through eviction, the bands of the other *)
(* threads' datasets.  A step is one access to that shared state, or a     *)
(* critical section during which nothing else that the section touches can *)
(* be accessed.  Sizes are counted in blocks: all blocks have one size.    *)
(***************************************************************************)
EXTENDS Integers, FiniteSets, BlockLru

CONSTANTS
    Threads,
    Datasets,
    Bands,              \* bands of all datasets, as numbers in band order
    Offs,               \* block offsets within a band
    DatasetOf,          \* the dataset of a band
    Owner,              \* the thread that uses a dataset
    HashSet,            \* bands stored in a GDALHashSetBandBlockCache
    Null,               \* nullptr
    NoThread,           \* the owner of a free mutex
    CacheMaxes,         \* values given to nCacheMax
    NValues,            \* number of pixel values
    BlocksToFreeSize,   \* size of apoBlocksToFree[] (64 in the code)
    MaxDirtyCount,      \* bound on m_nDirtyBlocks
    MaxCacheUsed,       \* bound on nCacheUsed, for allocations that fail
    Ops,                \* operations the threads may start
    Failures            \* steps that may fail

ReadOps == {"read", "readBlock", "write"}
WriteOps == {"write", "writeFull", "fill"}
IoOps == ReadOps \cup WriteOps
(* Operations run by RasterIO() and Fill() under the RW mutex; readBlock   *)
(* is GetLockedBlockRef() called by the application itself.                *)
RasterIoOps == {"read", "write", "writeFull", "fill"}
FlushOps == {"flushCache", "dropCache", "close", "suppress"}
GlobalOps == {"flushCacheBlock", "flushDirtyBlocks", "setCacheMax"}
AllOps == IoOps \cup FlushOps \cup GlobalOps
            \cup {"flushBlock", "disable", "reopen"}

Keys == Bands \X Offs
NoKey == <<>>
NoData == -1
Values == 0 .. NValues - 1
BlockOrNull == Blocks \cup {Null}
BandsOf(ds) == {d \in Bands : DatasetOf[d] = ds}
First(S) == CHOOSE x \in S : \A y \in S : x <= y

ASSUME NamesAssumption == Null \notin Blocks /\ NoThread \notin Threads
(* 0 is no band and no offset: it stands for none.                         *)
ASSUME BandsAssumption ==
    /\ Bands \subseteq Nat \ {0} /\ IsFiniteSet(Bands)
    /\ Offs \subseteq Nat \ {0} /\ IsFiniteSet(Offs) /\ Offs # {}
    /\ DatasetOf \in [Bands -> Datasets]
    /\ Owner \in [Datasets -> Threads]
    /\ HashSet \subseteq Bands
ASSUME FiniteAssumption == IsFiniteSet(Threads) /\ IsFiniteSet(Blocks)
ASSUME BoundsAssumption ==
    /\ CacheMaxes \subseteq Nat /\ CacheMaxes # {}
    /\ NValues \in Nat \ {0}
    /\ BlocksToFreeSize \in Nat \ {0}
    /\ MaxDirtyCount \in Nat /\ MaxCacheUsed \in Nat
    /\ Ops \subseteq AllOps
    /\ Failures \subseteq {"IReadBlock", "IWriteBlock", "Internalize",
                          "AdoptBlock"}

VARIABLES
    \* GDALRasterBlock
    nLockCount, bDirty, pData, key, bMustDetach,
    \* statics of gdalrasterblock.cpp (the list itself is lru, of BlockLru)
    nCacheUsed, nCacheMax, hRBLock, disablers,
    \* GDALRasterBand and its GDALAbstractBandBlockCache
    slot, psListBlocksToFree, nKeepAliveCounter, nDirtyBlocks,
    eFlushBlockErr, alive,
    \* GDALDataset::Private::hMutex, the pixels on disk, the last pixels written
    hMutex, disk, last,
    \* locals of a thread
    pc, op, at, poBlock, poTarget, poOther, toFree, bLoopAgain, bFirstIter,
    bNewData, nSaved, keptBand, waitFor, iOff, oOldSet, bInDestructor,
    eGlobalErr

blockVars == <<nLockCount, bDirty, pData, key, bMustDetach>>
cacheVars == <<lru, nCacheUsed, nCacheMax, hRBLock, disablers>>
bandVars == <<slot, psListBlocksToFree, nKeepAliveCounter, nDirtyBlocks,
              eFlushBlockErr, alive>>
dataVars == <<hMutex, disk, last>>
callVars == <<op, at, poBlock>>
scanVars == <<poTarget, poOther, toFree, bLoopAgain, bFirstIter, bNewData,
              nSaved, keptBand>>
flushVars == <<waitFor, iOff, oOldSet, bInDestructor, eGlobalErr>>
vars == <<blockVars, cacheVars, bandVars, dataVars, pc, callVars, scanVars,
          flushVars>>

-----------------------------------------------------------------------------
(* Helpers.  An operator used nowhere, whose name ends in Forgotten,       *)
(* Ignored, Unbounded... is the one below it with a mistake that the code  *)
(* could have, which the properties must detect.                           *)
BandOf(k) == k[1]
DatasetOfKey(k) == DatasetOf[k[1]]
Goto(t, label) == pc' = [pc EXCEPT ![t] = label]
Target(t) == Head(toFree[t])

Oldest == IF lru = <<>> THEN Null ELSE lru[Len(lru)]
(* poPrevious of b: its neighbour towards poNewest.                        *)
PreviousOfForgotten(b) == b
PreviousOf(b) ==
    IF PositionOf(lru, b) = 1 THEN Null ELSE lru[PositionOf(lru, b) - 1]
IsNewest(b) == lru # <<>> /\ lru[1] = b

(* The offset after o in the loops over the blocks of a band, 0 at the end.*)
NextOffUnbounded(o) == o + 1
NextOff(o) == IF \E n \in Offs : n > o THEN First({n \in Offs : n > o}) ELSE 0

(* CPLAtomicCompareAndExchange(&nLockCount, 0, -1) would succeed on b.     *)
ClaimableIfNotClaimed(b) == nLockCount[b] >= 0
ClaimableOnlyByUser(b) == nLockCount[b] = 1
Claimable(b) == nLockCount[b] = 0

(* TakeLock(): the value n given by AddLock() shows that no evictor has    *)
(* claimed the block.                                                      *)
LockTaken(n) == n # 0

(* WaitCompletionPendingTasks() of band d returns.                         *)
NoPendingTasksIgnored(d) == TRUE
NoPendingTasks(d) == nKeepAliveCounter[d] = 0

(* The loop conditions of Internalize() on nCacheUsed.                     *)
OverLimitByOne(t) == nCacheUsed > nSaved[t] + 1
OverLimit(t) == nCacheUsed > nSaved[t]

(* A dirty block may be evicted.                                           *)
DirtyFlushEnabledIgnored == TRUE
DirtyFlushEnabled == disablers = {}

(* Internalize() stops a round at the first dirty block, so that dirty     *)
(* blocks of other bands can still be found, and when apoBlocksToFree[],   *)
(* to which b was just added as element n, is full.                        *)
StopsRoundIfDirty(b, n) == bDirty[b]
StopsRound(b, n) == bDirty[b] \/ n = BlocksToFreeSize

(* What Internalize() adds to nCacheUsed in a round.                       *)
ChargeEachRound(t) == 1
Charge(t) == IF bFirstIter[t] THEN 1 ELSE 0

(* A round of Internalize() resets bLoopAgain.                             *)
StartRound(t) == bLoopAgain' = [bLoopAgain EXCEPT ![t] = FALSE]

(* A mutex a thread can acquire: hRBLock is not recursive, the RW mutex is.*)
RBLockFree == hRBLock = NoThread
CanEnterReadWrite(t, ds) == hMutex[ds] \in {NoThread, t}

(* GetLockedBlockRef() reads the block: bJustInitialize is false.          *)
MustReadInverted(t) == op[t] \notin ReadOps
MustRead(t) == op[t] \in ReadOps

(* The destructor's and Detach_unlocked()'s effect on the list and on      *)
(* nCacheUsed.                                                             *)
DetachUnlockedForgotten(b) ==
    /\ UNCHANGED <<lru, nCacheUsed>>
    /\ bMustDetach' = [bMustDetach EXCEPT ![b] = FALSE]
DetachUnlocked(b) ==
    /\ lru' = Detached(lru, b)
    /\ nCacheUsed' = IF pData[b] # NoData THEN nCacheUsed - 1 ELSE nCacheUsed
    /\ bMustDetach' = [bMustDetach EXCEPT ![b] = FALSE]

(* The objects of set S are deleted: their memory is free again.           *)
Deleted(S) ==
    /\ key' = [b \in Blocks |-> IF b \in S THEN NoKey ELSE key[b]]
    /\ nLockCount' = [b \in Blocks |-> IF b \in S THEN 0 ELSE nLockCount[b]]
    /\ bDirty' = [b \in Blocks |-> bDirty[b] /\ b \notin S]
    /\ pData' = [b \in Blocks |-> IF b \in S THEN NoData ELSE pData[b]]

(* FreeDanglingBlocks() of band d.                                         *)
FreeDanglingBlocksForgotten(d) ==
    UNCHANGED <<blockVars, psListBlocksToFree>>
FreeDanglingBlocks(d) ==
    /\ Deleted(ToSet(psListBlocksToFree[d]))
    /\ psListBlocksToFree' = [psListBlocksToFree EXCEPT ![d] = <<>>]
    /\ UNCHANGED bMustDetach

(* MarkClean(), in Write().                                                *)
MarkCleanUncounted(b) ==
    /\ bDirty' = [bDirty EXCEPT ![b] = FALSE]
    /\ UNCHANGED nDirtyBlocks
MarkClean(b) ==
    /\ bDirty' = [bDirty EXCEPT ![b] = FALSE]
    /\ nDirtyBlocks' = [nDirtyBlocks EXCEPT ![BandOf(key[b])] = @ - 1]

(* LeaveReadWrite() when RasterIO() returns.                               *)
LeaveReadWrite(t) ==
    hMutex' = IF op[t] \in RasterIoOps
              THEN [hMutex EXCEPT ![DatasetOfKey(at[t])] = NoThread]
              ELSE hMutex

(* The operation of thread t is over: its locals are dead.                 *)
Return(t) ==
    /\ Goto(t, "idle")
    /\ op' = [op EXCEPT ![t] = "none"]
    /\ at' = [at EXCEPT ![t] = NoKey]
    /\ poBlock' = [poBlock EXCEPT ![t] = Null]
    /\ eGlobalErr' = [eGlobalErr EXCEPT ![t] = FALSE]

-----------------------------------------------------------------------------
Init ==
    /\ nLockCount = [b \in Blocks |-> 0]
    /\ bDirty = [b \in Blocks |-> FALSE]
    /\ pData = [b \in Blocks |-> NoData]
    /\ key = [b \in Blocks |-> NoKey]
    /\ bMustDetach = [b \in Blocks |-> FALSE]
    /\ LruInit
    /\ nCacheUsed = 0
    /\ nCacheMax \in CacheMaxes
    /\ hRBLock = NoThread
    /\ disablers = {}
    /\ slot = [k \in Keys |-> Null]
    /\ psListBlocksToFree = [d \in Bands |-> <<>>]
    /\ nKeepAliveCounter = [d \in Bands |-> 0]
    /\ nDirtyBlocks = [d \in Bands |-> 0]
    /\ eFlushBlockErr = [d \in Bands |-> FALSE]
    /\ alive = [d \in Bands |-> TRUE]
    /\ hMutex = [ds \in Datasets |-> NoThread]
    /\ disk = [k \in Keys |-> 0]
    /\ last = [k \in Keys |-> 0]
    /\ pc = [t \in Threads |-> "idle"]
    /\ op = [t \in Threads |-> "none"]
    /\ at = [t \in Threads |-> NoKey]
    /\ poBlock = [t \in Threads |-> Null]
    /\ poTarget = [t \in Threads |-> Null]
    /\ poOther = [t \in Threads |-> Null]
    /\ toFree = [t \in Threads |-> <<>>]
    /\ bLoopAgain = [t \in Threads |-> FALSE]
    /\ bFirstIter = [t \in Threads |-> TRUE]
    /\ bNewData = [t \in Threads |-> FALSE]
    /\ nSaved = [t \in Threads |-> 0]
    /\ keptBand = [t \in Threads |-> 0]
    /\ waitFor = [t \in Threads |-> {}]
    /\ iOff = [t \in Threads |-> 0]
    /\ oOldSet = [t \in Threads |-> [o \in Offs |-> Null]]
    /\ bInDestructor = [t \in Threads |-> FALSE]
    /\ eGlobalErr = [t \in Threads |-> FALSE]

-----------------------------------------------------------------------------
(* RasterIO() and GetLockedBlockRef(), run by the owner of the dataset.    *)

(* The call: RasterIO() in write mode first reports, and forgets, an error *)
(* that an eviction left in eFlushBlockErr.  Reading outside a RW section  *)
(* waits for the evictions of every band of the dataset.                   *)
StartIO(t, o, k) ==
    LET d == BandOf(k) IN
    /\ pc[t] = "idle" /\ o \in Ops \cap IoOps
    /\ alive[d] /\ Owner[DatasetOf[d]] = t
    /\ o = "fill" => k[2] = First(Offs)
    /\ o \in WriteOps => nDirtyBlocks[d] < MaxDirtyCount
    /\ IF o \in {"write", "writeFull"} /\ eFlushBlockErr[d]
       THEN /\ eFlushBlockErr' = [eFlushBlockErr EXCEPT ![d] = FALSE]
            /\ UNCHANGED <<pc, op, at, waitFor>>
       ELSE /\ op' = [op EXCEPT ![t] = o]
            /\ at' = [at EXCEPT ![t] = k]
            /\ Goto(t, IF o \in RasterIoOps THEN "enterRW" ELSE "tryGet")
            /\ waitFor' = [waitFor EXCEPT ![t] =
                             IF o = "read" THEN BandsOf(DatasetOf[d]) ELSE {}]
            /\ UNCHANGED eFlushBlockErr
    /\ UNCHANGED <<blockVars, cacheVars, dataVars, poBlock, scanVars, slot,
                   psListBlocksToFree, nKeepAliveCounter, nDirtyBlocks, alive,
                   iOff, oOldSet, bInDestructor, eGlobalErr>>

(* WaitCompletionPendingTasks() of the next band, in EnterReadWrite().     *)
WaitPendingTasks(t) ==
    LET d == First(waitFor[t]) IN
    /\ pc[t] \in {"enterRW", "readRW"} /\ waitFor[t] # {}
    /\ NoPendingTasks(d)
    /\ waitFor' = [waitFor EXCEPT ![t] = @ \ {d}]
    /\ UNCHANGED <<blockVars, cacheVars, bandVars, dataVars, pc, callVars,
                   scanVars, iOff, oOldSet, bInDestructor, eGlobalErr>>

(* EnterReadWrite() takes the mutex of the dataset.                        *)
EnterReadWrite(t) ==
    LET ds == DatasetOfKey(at[t]) IN
    /\ pc[t] = "enterRW" /\ waitFor[t] = {}
    /\ CanEnterReadWrite(t, ds)
    /\ hMutex' = [hMutex EXCEPT ![ds] = t]
    /\ Goto(t, "tryGet")
    /\ UNCHANGED <<blockVars, cacheVars, bandVars, disk, last, callVars,
                   scanVars, flushVars>>

(* TryGetLockedBlockRef(): look the block up in the storage of the band.   *)
TryGetLockedBlockRef(t) ==
    /\ pc[t] = "tryGet"
    /\ poBlock' = [poBlock EXCEPT ![t] = slot[at[t]]]
    /\ Goto(t, IF slot[at[t]] = Null THEN "create" ELSE "takeLock")
    /\ UNCHANGED <<blockVars, cacheVars, bandVars, dataVars, op, at, scanVars,
                   flushVars>>

(* TakeLock(): AddLock() gives 0 when an evictor has set the count to -1.  *)
TakeLock(t) ==
    LET b == poBlock[t] IN
    /\ pc[t] = "takeLock"
    /\ nLockCount' = [nLockCount EXCEPT ![b] = @ + 1]
    /\ Goto(t, IF LockTaken(nLockCount[b] + 1) THEN "touch" ELSE "takeLockFailed")
    /\ UNCHANGED <<bDirty, pData, key, bMustDetach, cacheVars, bandVars,
                   dataVars, callVars, scanVars, flushVars>>

TakeLockFailed(t) ==
    /\ pc[t] = "takeLockFailed"
    /\ nLockCount' = [nLockCount EXCEPT ![poBlock[t]] = @ - 1]
    /\ poBlock' = [poBlock EXCEPT ![t] = Null]
    /\ Goto(t, "create")
    /\ UNCHANGED <<bDirty, pData, key, bMustDetach, cacheVars, bandVars,
                   dataVars, op, at, scanVars, flushVars>>

(* Touch(): the test of poNewest outside the lock ...                      *)
Touch(t) ==
    /\ pc[t] = "touch"
    /\ Goto(t, IF IsNewest(poBlock[t]) THEN "locked" ELSE "touchLocked")
    /\ UNCHANGED <<blockVars, cacheVars, bandVars, dataVars, callVars, scanVars,
                   flushVars>>

(* ... and Touch_unlocked() under hRBLock.                                 *)
TouchLocked(t) ==
    /\ pc[t] = "touchLocked" /\ RBLockFree
    /\ LruTouch(poBlock[t])
    /\ Goto(t, "locked")
    /\ UNCHANGED <<blockVars, nCacheUsed, nCacheMax, hRBLock, disablers,
                   bandVars, dataVars, callVars, scanVars, flushVars>>

(* CreateBlock(): recycle the head b of the free list or build a block at  *)
(* a free address b; then AddLock(), TemporarilyDropReadWriteLock(), and   *)
(* Internalize() reads nCacheMax.                                          *)
CreateBlock(t, b) ==
    LET d == BandOf(at[t])
        recycled == psListBlocksToFree[d] # <<>>
    IN
    /\ pc[t] = "create"
    /\ IF recycled THEN b = Head(psListBlocksToFree[d]) ELSE key[b] = NoKey
    /\ psListBlocksToFree' = IF recycled
                             THEN [psListBlocksToFree EXCEPT ![d] = Tail(@)]
                             ELSE psListBlocksToFree
    /\ key' = [key EXCEPT ![b] = at[t]]
    /\ nLockCount' = [nLockCount EXCEPT ![b] = 1]
    /\ bDirty' = [bDirty EXCEPT ![b] = FALSE]
    /\ pData' = [pData EXCEPT ![b] = NoData]
    /\ bMustDetach' = [bMustDetach EXCEPT ![b] = TRUE]
    /\ poBlock' = [poBlock EXCEPT ![t] = b]
    /\ LeaveReadWrite(t)
    /\ nSaved' = [nSaved EXCEPT ![t] = nCacheMax]
    /\ Goto(t, "internalize")
    /\ UNCHANGED <<cacheVars, slot, nKeepAliveCounter, nDirtyBlocks,
                   eFlushBlockErr, alive, disk, last, op, at, poTarget, poOther,
                   toFree, bLoopAgain, bFirstIter, bNewData, keptBand, flushVars>>

(* new (std::nothrow) finds no memory.                                     *)
CreateBlockFails(t) ==
    /\ pc[t] = "create"
    /\ psListBlocksToFree[BandOf(at[t])] = <<>>
    /\ \A f \in Blocks : key[f] # NoKey
    /\ Goto(t, "failed")
    /\ UNCHANGED <<blockVars, cacheVars, bandVars, dataVars, callVars, scanVars,
                   flushVars>>

-----------------------------------------------------------------------------
(* Internalize(): make room for the new block, then give it memory.        *)

(* TAKE_LOCK, charge the block once, start at the oldest block.            *)
InternalizeLock(t) ==
    /\ pc[t] = "internalize" /\ RBLockFree
    /\ hRBLock' = t
    /\ nCacheUsed' = nCacheUsed + Charge(t)
    /\ bFirstIter' = [bFirstIter EXCEPT ![t] = FALSE]
    /\ StartRound(t)
    /\ poTarget' = [poTarget EXCEPT ![t] = Oldest]
    /\ poOther' = [poOther EXCEPT ![t] = Null]
    /\ Goto(t, "scan")
    /\ UNCHANGED <<blockVars, lru, nCacheMax, disablers, bandVars, dataVars,
                   callVars, toFree, bNewData, nSaved, keptBand, flushVars>>

(* The two loop conditions and the tests made before the atomic exchange:  *)
(* a clean block, or a dirty one of the same dataset, is a candidate; the  *)
(* first dirty block of another dataset is remembered.  bDirty is read     *)
(* without protection: the owner may change it before the exchange.        *)
Scan(t) ==
    LET b == poTarget[t]
        sameDataset == DatasetOfKey(key[b]) = DatasetOfKey(at[t])
        candidate == ~bDirty[b] \/ (DirtyFlushEnabled /\ sameDataset)
    IN
    /\ pc[t] = "scan"
    /\ IF ~OverLimit(t)
       THEN Goto(t, "scanned") /\ UNCHANGED <<poTarget, poOther>>
       ELSE IF b = Null
       THEN /\ Goto(t, IF poOther[t] = Null THEN "scanned" ELSE "exchangeOther")
            /\ UNCHANGED <<poTarget, poOther>>
       ELSE IF candidate
       THEN Goto(t, "exchange") /\ UNCHANGED <<poTarget, poOther>>
       ELSE /\ poTarget' = [poTarget EXCEPT ![t] = PreviousOf(b)]
            /\ poOther' = IF DirtyFlushEnabled /\ poOther[t] = Null
                          THEN [poOther EXCEPT ![t] = b] ELSE poOther
            /\ UNCHANGED pc
    /\ UNCHANGED <<blockVars, cacheVars, bandVars, dataVars, callVars, toFree,
                   bLoopAgain, bFirstIter, bNewData, nSaved, keptBand, flushVars>>

(* CPLAtomicCompareAndExchange(&nLockCount, 0, -1) on b: t claims b to     *)
(* evict it, or goes on with block next at the step retry.                 *)
Claim(t, b, next, retry) ==
    /\ IF Claimable(b)
       THEN /\ nLockCount' = [nLockCount EXCEPT ![b] = -1]
            /\ poTarget' = [poTarget EXCEPT ![t] = b]
            /\ Goto(t, "detach")
       ELSE /\ poTarget' = [poTarget EXCEPT ![t] = next]
            /\ Goto(t, retry)
            /\ UNCHANGED nLockCount
    /\ UNCHANGED <<bDirty, pData, key, bMustDetach, cacheVars, bandVars,
                   dataVars, callVars, poOther, toFree, bLoopAgain, bFirstIter,
                   bNewData, nSaved, keptBand, flushVars>>

Exchange(t) ==
    /\ pc[t] = "exchange"
    /\ Claim(t, poTarget[t], PreviousOf(poTarget[t]), "scan")

(* No candidate: the remembered dirty block of another dataset ...         *)
ExchangeOther(t) ==
    /\ pc[t] = "exchangeOther"
    /\ Claim(t, poOther[t], Oldest, "fallback")

(* ... and failing that, any block that is not locked.                     *)
Fallback(t) ==
    /\ pc[t] = "fallback" /\ poTarget[t] # Null
    /\ Claim(t, poTarget[t], PreviousOf(poTarget[t]), "fallback")

FallbackEnds(t) ==
    /\ pc[t] = "fallback" /\ poTarget[t] = Null
    /\ Goto(t, "scanned")
    /\ UNCHANGED <<blockVars, cacheVars, bandVars, dataVars, callVars, scanVars,
                   flushVars>>

(* Detach_unlocked() of the claimed block, and UnreferenceBlockBase().     *)
Detach(t) ==
    LET b == poTarget[t] IN
    /\ pc[t] = "detach"
    /\ DetachUnlocked(b)
    /\ nKeepAliveCounter' = [nKeepAliveCounter EXCEPT ![BandOf(key[b])] = @ + 1]
    /\ toFree' = [toFree EXCEPT ![t] = Append(@, b)]
    /\ poTarget' = [poTarget EXCEPT ![t] = PreviousOf(b)]
    /\ Goto(t, "unreference")
    /\ UNCHANGED <<nLockCount, bDirty, pData, key, nCacheMax, hRBLock, disablers,
                   slot, psListBlocksToFree, nDirtyBlocks, eFlushBlockErr, alive,
                   dataVars, callVars, poOther, bLoopAgain, bFirstIter, bNewData,
                   nSaved, keptBand, flushVars>>

(* UnreferenceBlock() takes the block out of its band.                     *)
Unreferenced(b) == [slot EXCEPT ![key[b]] = Null]

UnreferenceBlock(t) ==
    LET b == toFree[t][Len(toFree[t])]
        stop == StopsRound(b, Len(toFree[t]))
    IN
    /\ pc[t] = "unreference"
    /\ slot' = Unreferenced(b)
    /\ poOther' = [poOther EXCEPT ![t] = Null]
    /\ bLoopAgain' = [bLoopAgain EXCEPT ![t] =
                        op[t] \in IoOps /\ stop /\ OverLimit(t)]
    /\ Goto(t, IF op[t] \in IoOps /\ ~stop THEN "scan" ELSE "scanned")
    /\ UNCHANGED <<blockVars, cacheVars, psListBlocksToFree, nKeepAliveCounter,
                   nDirtyBlocks, eFlushBlockErr, alive, dataVars, callVars,
                   poTarget, toFree, bFirstIter, bNewData, nSaved, keptBand, flushVars>>

(* End of the critical section: the new block enters the list unless the   *)
(* loop has to run again.                                                  *)
Scanned(t) ==
    /\ pc[t] = "scanned"
    /\ IF op[t] \in IoOps /\ ~bLoopAgain[t]
       THEN LruTouch(poBlock[t]) ELSE UNCHANGED lru
    /\ hRBLock' = NoThread
    /\ poTarget' = [poTarget EXCEPT ![t] = Null]
    /\ poOther' = [poOther EXCEPT ![t] = Null]
    /\ Goto(t, "free")
    /\ UNCHANGED <<blockVars, nCacheUsed, nCacheMax, disablers, bandVars,
                   dataVars, callVars, toFree, bLoopAgain, bFirstIter,
                   bNewData, nSaved, keptBand, flushVars>>

-----------------------------------------------------------------------------
(* The blocks in toFree are written if dirty, and released.                *)

(* Next block, or the end of the loop.  Write() marks a dirty block clean, *)
(* and does not write it when its band already has an error.               *)
FreeNext(t) ==
    LET b == Target(t)
        d == BandOf(key[b])
    IN
    /\ pc[t] = "free" /\ toFree[t] # <<>>
    /\ IF bDirty[b]
       THEN /\ MarkClean(b)
            /\ Goto(t, IF eFlushBlockErr[d] THEN "release" ELSE "write")
       ELSE /\ Goto(t, "release")
            /\ UNCHANGED <<bDirty, nDirtyBlocks>>
    /\ UNCHANGED <<nLockCount, pData, key, bMustDetach, cacheVars, slot,
                   psListBlocksToFree, nKeepAliveCounter, eFlushBlockErr, alive,
                   dataVars, callVars, scanVars, flushVars>>

(* IWriteBlock() under the RW mutex of the dataset of the block, and       *)
(* SetFlushBlockErr() when it fails.                                       *)
WriteEvicted(t, ok) ==
    LET b == Target(t)
        k == key[b]
    IN
    /\ pc[t] = "write"
    /\ ok \/ "IWriteBlock" \in Failures
    /\ CanEnterReadWrite(t, DatasetOfKey(k))
    /\ disk' = IF ok THEN [disk EXCEPT ![k] = pData[b]] ELSE disk
    /\ eFlushBlockErr' = IF ok THEN eFlushBlockErr
                         ELSE [eFlushBlockErr EXCEPT ![BandOf(k)] = TRUE]
    /\ Goto(t, "release")
    /\ UNCHANGED <<blockVars, cacheVars, slot, psListBlocksToFree,
                   nKeepAliveCounter, nDirtyBlocks, alive, hMutex, last, callVars,
                   scanVars, flushVars>>

(* The memory is recycled or freed, and AddBlockToFreeList() pushes the    *)
(* block on the free list of its band, whose owner may take it at once ... *)
Release(t) ==
    LET b == Target(t)
        d == BandOf(key[b])
    IN
    /\ pc[t] = "release"
    /\ bNewData' = [bNewData EXCEPT ![t] =
                      @ \/ (op[t] \in IoOps /\ pData[b] # NoData)]
    /\ pData' = [pData EXCEPT ![b] = NoData]
    /\ psListBlocksToFree' = [psListBlocksToFree EXCEPT ![d] = <<b>> \o @]
    /\ toFree' = [toFree EXCEPT ![t] = Tail(@)]
    /\ keptBand' = [keptBand EXCEPT ![t] = d]
    /\ Goto(t, "keepAlive")
    /\ UNCHANGED <<nLockCount, bDirty, key, bMustDetach, cacheVars, slot,
                   nKeepAliveCounter, nDirtyBlocks, eFlushBlockErr, alive,
                   dataVars, callVars, poTarget, poOther, bLoopAgain, bFirstIter,
                   nSaved, flushVars>>

(* ... then decrements nKeepAliveCounter, which lets the owner close it.   *)
KeepAliveDec(t) ==
    /\ pc[t] = "keepAlive"
    /\ nKeepAliveCounter' = [nKeepAliveCounter EXCEPT ![keptBand[t]] = @ - 1]
    /\ keptBand' = [keptBand EXCEPT ![t] = 0]
    /\ Goto(t, "free")
    /\ UNCHANGED <<blockVars, cacheVars, slot, psListBlocksToFree, nDirtyBlocks,
                   eFlushBlockErr, alive, dataVars, callVars, poTarget, poOther,
                   toFree, bLoopAgain, bFirstIter, bNewData, nSaved, flushVars>>

(* Everything is released: Internalize() loops or allocates; the callers   *)
(* of FlushCacheBlock() go on as FlushCacheBlock() returned TRUE.          *)
FreeEnds(t) ==
    /\ pc[t] = "free" /\ toFree[t] = <<>>
    /\ Goto(t, IF op[t] \in IoOps
               THEN IF bLoopAgain[t] THEN "internalize" ELSE "allocate"
               ELSE IF op[t] = "flushDirtyBlocks" THEN "flushCacheBlock"
               ELSE "flushedOne")
    /\ UNCHANGED <<blockVars, cacheVars, bandVars, dataVars, callVars, scanVars,
                   flushVars>>

-----------------------------------------------------------------------------
(* The rest of GetLockedBlockRef().                                        *)

(* Memory of an evicted block, or VSI_MALLOC_ALIGNED_AUTO_VERBOSE().       *)
Allocate(t, ok) ==
    /\ pc[t] = "allocate"
    /\ ok \/ ("Internalize" \in Failures /\ ~bNewData[t]
              /\ nCacheUsed <= MaxCacheUsed)
    /\ pData' = IF ok THEN [pData EXCEPT ![poBlock[t]] = 0] ELSE pData
    /\ bFirstIter' = [bFirstIter EXCEPT ![t] = TRUE]
    /\ bNewData' = [bNewData EXCEPT ![t] = FALSE]
    /\ nSaved' = [nSaved EXCEPT ![t] = 0]
    /\ Goto(t, "reacquire")
    /\ UNCHANGED <<nLockCount, bDirty, key, bMustDetach, cacheVars, bandVars,
                   dataVars, callVars, poTarget, poOther, toFree, bLoopAgain,
                   keptBand, flushVars>>

ReacquireReadWriteLock(t) ==
    LET ds == DatasetOfKey(at[t]) IN
    /\ pc[t] = "reacquire"
    /\ IF op[t] \in RasterIoOps
       THEN CanEnterReadWrite(t, ds) /\ hMutex' = [hMutex EXCEPT ![ds] = t]
       ELSE UNCHANGED hMutex
    /\ Goto(t, IF pData[poBlock[t]] = NoData THEN "discard" ELSE "adopt")
    /\ UNCHANGED <<blockVars, cacheVars, bandVars, disk, last, callVars,
                   scanVars, flushVars>>

(* AdoptBlock(): frees the dangling blocks and stores the new one.  Only   *)
(* the array storage can fail, allocating a grid of subblocks.             *)
AdoptBlock(t, ok) ==
    LET d == BandOf(at[t]) IN
    /\ pc[t] = "adopt"
    /\ ok \/ ("AdoptBlock" \in Failures /\ d \notin HashSet)
    /\ FreeDanglingBlocks(d)
    /\ slot' = IF ok THEN [slot EXCEPT ![at[t]] = poBlock[t]] ELSE slot
    /\ waitFor' = [waitFor EXCEPT ![t] =
                     IF ok /\ op[t] \in ReadOps \ RasterIoOps
                     THEN BandsOf(DatasetOf[d]) ELSE {}]
    /\ Goto(t, IF ~ok THEN "discard"
               ELSE IF MustRead(t) THEN "readRW" ELSE "locked")
    /\ UNCHANGED <<cacheVars, nKeepAliveCounter, nDirtyBlocks, eFlushBlockErr,
                   alive, dataVars, callVars, scanVars, iOff, oOldSet,
                   bInDestructor, eGlobalErr>>

(* IReadBlock(); when it fails the block is unlocked and flushed.          *)
ReadBlock(t, ok) ==
    LET b == poBlock[t] IN
    /\ pc[t] = "readRW" /\ waitFor[t] = {}
    /\ ok \/ "IReadBlock" \in Failures
    /\ CanEnterReadWrite(t, DatasetOfKey(at[t]))
    /\ pData' = IF ok THEN [pData EXCEPT ![b] = disk[at[t]]] ELSE pData
    /\ nLockCount' = IF ok THEN nLockCount ELSE [nLockCount EXCEPT ![b] = @ - 1]
    /\ Goto(t, IF ok THEN "locked" ELSE "flushBlock")
    /\ UNCHANGED <<bDirty, key, bMustDetach, cacheVars, bandVars, dataVars,
                   callVars, scanVars, flushVars>>

(* The caller writes in the locked block: MarkDirty() and the copy.        *)
WriteLocked(t) ==
    LET b == poBlock[t]
        v == (last[at[t]] + 1) % NValues
    IN
    /\ pc[t] = "locked" /\ op[t] \in WriteOps
    /\ nDirtyBlocks' = IF bDirty[b] THEN nDirtyBlocks
                       ELSE [nDirtyBlocks EXCEPT ![BandOf(at[t])] = @ + 1]
    /\ bDirty' = [bDirty EXCEPT ![b] = TRUE]
    /\ pData' = [pData EXCEPT ![b] = v]
    /\ last' = [last EXCEPT ![at[t]] = v]
    /\ Goto(t, "drop")
    /\ UNCHANGED <<nLockCount, key, bMustDetach, cacheVars, slot,
                   psListBlocksToFree, nKeepAliveCounter, eFlushBlockErr, alive,
                   hMutex, disk, callVars, scanVars, flushVars>>

(* DropLock(), and the next block of the window when there is one, or      *)
(* LeaveReadWrite().  Fill() visits every block.                           *)
DropLock(t, more) ==
    LET next == NextOff(at[t][2]) IN
    /\ pc[t] = "drop" \/ (pc[t] = "locked" /\ op[t] \notin WriteOps)
    /\ more => next # 0 /\ op[t] \in RasterIoOps
    /\ op[t] = "fill" => (more <=> next # 0)
    /\ nLockCount' = [nLockCount EXCEPT ![poBlock[t]] = @ - 1]
    /\ IF more
       THEN /\ at' = [at EXCEPT ![t] = <<BandOf(at[t]), next>>]
            /\ poBlock' = [poBlock EXCEPT ![t] = Null]
            /\ Goto(t, "tryGet")
            /\ UNCHANGED <<op, hMutex, eGlobalErr>>
       ELSE Return(t) /\ LeaveReadWrite(t)
    /\ UNCHANGED <<bDirty, pData, key, bMustDetach, cacheVars, bandVars, disk,
                   last, scanVars, waitFor, iOff, oOldSet, bInDestructor>>

(* Internalize() or AdoptBlock() failed: DropLock() and delete.            *)
Discard(t) ==
    /\ pc[t] = "discard"
    /\ nLockCount' = [nLockCount EXCEPT ![poBlock[t]] = @ - 1]
    /\ Goto(t, "discarded")
    /\ UNCHANGED <<bDirty, pData, key, bMustDetach, cacheVars, bandVars,
                   dataVars, callVars, scanVars, flushVars>>

(* GetLockedBlockRef() returned nullptr: RasterIO() leaves the RW section, *)
(* Fill() returns without LeaveReadWrite().                                *)
Failed(t) ==
    /\ pc[t] = "failed"
    /\ Return(t)
    /\ IF op[t] = "fill" THEN UNCHANGED hMutex ELSE LeaveReadWrite(t)
    /\ UNCHANGED <<blockVars, cacheVars, bandVars, disk, last, scanVars, waitFor,
                   iOff, oOldSet, bInDestructor>>

-----------------------------------------------------------------------------
(* FlushBlock(), FlushCache(), DropCache() and the destruction of bands.   *)

WritesDirtyBlocks(t) == op[t] \notin {"dropCache", "suppress"}

(* Where FlushBlock() returns to.                                          *)
AfterFlushBlock(t) ==
    IF op[t] \in FlushOps THEN "flushNext"
    ELSE IF op[t] \in IoOps THEN "failed" ELSE "flushed"

(* FlushBlock(): takes the block out of the storage of the band.           *)
FlushBlock(t) ==
    /\ pc[t] = "flushBlock"
    /\ poBlock' = [poBlock EXCEPT ![t] = slot[at[t]]]
    /\ slot' = [slot EXCEPT ![at[t]] = Null]
    /\ Goto(t, IF slot[at[t]] = Null THEN AfterFlushBlock(t) ELSE "claimFlush")
    /\ UNCHANGED <<blockVars, cacheVars, psListBlocksToFree, nKeepAliveCounter,
                   nDirtyBlocks, eFlushBlockErr, alive, dataVars, op, at,
                   scanVars, flushVars>>

(* DropLockForRemovalFromStorage(): claim the block as an evictor would,   *)
(* or wait until the evictor that has it has unreferenced it.              *)
ClaimFlush(t) ==
    LET b == poBlock[t] IN
    /\ pc[t] = "claimFlush"
    /\ IF Claimable(b)
       THEN /\ nLockCount' = [nLockCount EXCEPT ![b] = -1]
            /\ Goto(t, IF BandOf(at[t]) \in HashSet
                       THEN "flushWrite" ELSE "flushDetach")
       ELSE /\ Goto(t, "flushWait")
            /\ UNCHANGED nLockCount
    /\ UNCHANGED <<bDirty, pData, key, bMustDetach, cacheVars, bandVars,
                   dataVars, callVars, scanVars, flushVars>>

FlushWaitForgotten(t) ==
    /\ pc[t] = "flushWait"
    /\ poBlock' = [poBlock EXCEPT ![t] = Null]
    /\ Goto(t, AfterFlushBlock(t))
    /\ UNCHANGED <<blockVars, cacheVars, bandVars, dataVars, op, at, scanVars,
                   flushVars>>
FlushWait(t) ==
    /\ pc[t] = "flushWait" /\ RBLockFree
    /\ poBlock' = [poBlock EXCEPT ![t] = Null]
    /\ Goto(t, AfterFlushBlock(t))
    /\ UNCHANGED <<blockVars, cacheVars, bandVars, dataVars, op, at, scanVars,
                   flushVars>>

(* Detach(), which only the array storage calls before Write().            *)
FlushDetach(t) ==
    /\ pc[t] = "flushDetach"
    /\ IF bMustDetach[poBlock[t]]
       THEN RBLockFree /\ DetachUnlocked(poBlock[t])
       ELSE UNCHANGED <<lru, nCacheUsed, bMustDetach>>
    /\ Goto(t, "flushWrite")
    /\ UNCHANGED <<nLockCount, bDirty, pData, key, nCacheMax, hRBLock, disablers,
                   bandVars, dataVars, callVars, scanVars, flushVars>>

(* Write(), unless writing is disabled or an earlier block failed.         *)
MustWriteForgotten(t, b) == FALSE
MustWrite(t, b) == WritesDirtyBlocks(t) /\ ~eGlobalErr[t] /\ bDirty[b]

FlushWrite(t) ==
    LET b == poBlock[t]
        err == eFlushBlockErr[BandOf(at[t])]
    IN
    /\ pc[t] = "flushWrite"
    /\ IF MustWrite(t, b)
       THEN /\ MarkClean(b)
            /\ Goto(t, IF err THEN "delete" ELSE "flushIO")
            /\ eGlobalErr' = [eGlobalErr EXCEPT ![t] = err]
       ELSE /\ Goto(t, "delete")
            /\ UNCHANGED <<bDirty, nDirtyBlocks, eGlobalErr>>
    /\ UNCHANGED <<nLockCount, pData, key, bMustDetach, cacheVars, slot,
                   psListBlocksToFree, nKeepAliveCounter, eFlushBlockErr, alive,
                   dataVars, callVars, scanVars, waitFor, iOff, oOldSet,
                   bInDestructor>>

FlushIO(t, ok) ==
    LET k == key[poBlock[t]] IN
    /\ pc[t] = "flushIO"
    /\ ok \/ "IWriteBlock" \in Failures
    /\ CanEnterReadWrite(t, DatasetOfKey(k))
    /\ disk' = IF ok THEN [disk EXCEPT ![k] = pData[poBlock[t]]] ELSE disk
    /\ eGlobalErr' = [eGlobalErr EXCEPT ![t] = ~ok]
    /\ Goto(t, "delete")
    /\ UNCHANGED <<blockVars, cacheVars, bandVars, hMutex, last, callVars,
                   scanVars, waitFor, iOff, oOldSet, bInDestructor>>

(* delete: the destructor detaches a block that is still in the list.      *)
Delete(t) ==
    LET b == poBlock[t] IN
    /\ pc[t] \in {"delete", "discarded"}
    /\ IF bMustDetach[b]
       THEN RBLockFree /\ DetachUnlocked(b)
       ELSE UNCHANGED <<lru, nCacheUsed, bMustDetach>>
    /\ Deleted({b})
    /\ poBlock' = [poBlock EXCEPT ![t] = Null]
    /\ Goto(t, AfterFlushBlock(t))
    /\ UNCHANGED <<nCacheMax, hRBLock, disablers, bandVars, dataVars, op, at,
                   scanVars, flushVars>>

(* The call: FlushBlock() of one block, FlushCache() or DropCache() of a   *)
(* band, or the end of a dataset, with or without writing.                 *)
StartFlush(t, o, k) ==
    /\ pc[t] = "idle" /\ o \in Ops \cap (FlushOps \cup {"flushBlock"})
    /\ alive[BandOf(k)] /\ Owner[DatasetOfKey(k)] = t
    /\ o \in FlushOps => k[2] = First(Offs)
    /\ o \in {"close", "suppress"} => BandOf(k) = First(BandsOf(DatasetOfKey(k)))
    /\ op' = [op EXCEPT ![t] = o]
    /\ at' = [at EXCEPT ![t] = k]
    /\ Goto(t, IF o = "flushBlock" THEN "flushBlock" ELSE "flushCache")
    /\ UNCHANGED <<blockVars, cacheVars, bandVars, dataVars, poBlock, scanVars,
                   flushVars>>

(* GDALRasterBand::FlushCache() and DropCache() report and reset the error *)
(* left by an eviction.                                                    *)
FlushCache(t) ==
    /\ pc[t] = "flushCache"
    /\ eFlushBlockErr' = [eFlushBlockErr EXCEPT ![BandOf(at[t])] = FALSE]
    /\ Goto(t, "flushStorage")
    /\ UNCHANGED <<blockVars, cacheVars, slot, psListBlocksToFree,
                   nKeepAliveCounter, nDirtyBlocks, alive, dataVars, callVars,
                   scanVars, flushVars>>

(* FlushCache() of the storage: the hash set is moved away as a whole.     *)
FlushStorage(t) ==
    LET d == BandOf(at[t]) IN
    /\ pc[t] = "flushStorage"
    /\ FreeDanglingBlocks(d)
    /\ eGlobalErr' = [eGlobalErr EXCEPT ![t] = eFlushBlockErr[d]]
    /\ iOff' = [iOff EXCEPT ![t] = First(Offs)]
    /\ IF d \in HashSet
       THEN /\ oOldSet' = [oOldSet EXCEPT ![t] = [o \in Offs |-> slot[<<d, o>>]]]
            /\ slot' = [k \in Keys |-> IF BandOf(k) = d THEN Null ELSE slot[k]]
       ELSE UNCHANGED <<oOldSet, slot>>
    /\ Goto(t, "flushNext")
    /\ UNCHANGED <<cacheVars, nKeepAliveCounter, nDirtyBlocks, eFlushBlockErr,
                   alive, dataVars, callVars, scanVars, waitFor, bInDestructor>>

(* The loop over the blocks; the array looks its slots up as it goes.      *)
FlushNext(t) ==
    LET d == BandOf(at[t])
        k == <<d, iOff[t]>>
        b == IF d \in HashSet THEN oOldSet[t][iOff[t]] ELSE slot[k]
    IN
    /\ pc[t] = "flushNext" /\ iOff[t] # 0
    /\ iOff' = [iOff EXCEPT ![t] = NextOff(@)]
    /\ poBlock' = [poBlock EXCEPT ![t] = b]
    /\ oOldSet' = [oOldSet EXCEPT ![t][iOff[t]] = Null]
    /\ slot' = IF d \in HashSet THEN slot ELSE [slot EXCEPT ![k] = Null]
    /\ Goto(t, IF b = Null THEN "flushNext" ELSE "claimFlush")
    /\ UNCHANGED <<blockVars, cacheVars, psListBlocksToFree, nKeepAliveCounter,
                   nDirtyBlocks, eFlushBlockErr, alive, dataVars, op, at,
                   scanVars, waitFor, bInDestructor, eGlobalErr>>

(* WaitCompletionPendingTasks().  ~GDALRasterBand() then deletes the       *)
(* storage, whose destructor flushes a second time.                        *)
FlushEnds(t) ==
    LET d == BandOf(at[t]) IN
    /\ pc[t] = "flushNext" /\ iOff[t] = 0
    /\ NoPendingTasks(d)
    /\ last' = IF WritesDirtyBlocks(t) THEN last
               ELSE [k \in Keys |-> IF BandOf(k) = d THEN disk[k] ELSE last[k]]
    /\ IF op[t] \in {"close", "suppress"}
       THEN /\ Goto(t, IF bInDestructor[t] THEN "destroy" ELSE "flushStorage")
            /\ bInDestructor' = [bInDestructor EXCEPT ![t] = ~@]
       ELSE Goto(t, "flushed") /\ UNCHANGED bInDestructor
    /\ UNCHANGED <<blockVars, cacheVars, bandVars, hMutex, disk, callVars,
                   scanVars, waitFor, iOff, oOldSet, eGlobalErr>>

(* End of ~GDALRasterBand(): the band and its free blocks are gone.  The   *)
(* next band of the dataset follows, or the dataset goes with its mutex.   *)
Destroy(t) ==
    LET d == BandOf(at[t])
        rest == {e \in BandsOf(DatasetOf[d]) : e > d}
    IN
    /\ pc[t] = "destroy"
    /\ FreeDanglingBlocks(d)
    /\ alive' = [alive EXCEPT ![d] = FALSE]
    /\ nDirtyBlocks' = [nDirtyBlocks EXCEPT ![d] = 0]
    /\ eFlushBlockErr' = [eFlushBlockErr EXCEPT ![d] = FALSE]
    /\ IF rest = {}
       THEN Goto(t, "flushed") /\ UNCHANGED at
       ELSE /\ at' = [at EXCEPT ![t] = <<First(rest), First(Offs)>>]
            /\ Goto(t, "flushCache")
    /\ hMutex' = IF rest = {} THEN [hMutex EXCEPT ![DatasetOf[d]] = NoThread]
                 ELSE hMutex
    /\ UNCHANGED <<cacheVars, slot, nKeepAliveCounter, disk, last, op, poBlock,
                   scanVars, flushVars>>

Flushed(t) ==
    /\ pc[t] = "flushed"
    /\ Return(t)
    /\ UNCHANGED <<blockVars, cacheVars, bandVars, dataVars, scanVars, waitFor,
                   iOff, oOldSet, bInDestructor>>

(* The dataset is opened again.                                            *)
Reopen(t, ds) ==
    /\ pc[t] = "idle" /\ "reopen" \in Ops /\ Owner[ds] = t
    /\ \A d \in BandsOf(ds) : ~alive[d]
    /\ alive' = [d \in Bands |-> alive[d] \/ DatasetOf[d] = ds]
    /\ UNCHANGED <<blockVars, cacheVars, slot, psListBlocksToFree,
                   nKeepAliveCounter, nDirtyBlocks, eFlushBlockErr, dataVars, pc,
                   callVars, scanVars, flushVars>>

-----------------------------------------------------------------------------
(* FlushCacheBlock() and its callers, run by any thread.                   *)

StartGlobal(t, o) ==
    /\ pc[t] = "idle" /\ o \in Ops \cap GlobalOps
    /\ op' = [op EXCEPT ![t] = o]
    /\ IF o = "setCacheMax"
       THEN nCacheMax' \in CacheMaxes /\ Goto(t, "setCacheMax")
       ELSE Goto(t, "flushCacheBlock") /\ UNCHANGED nCacheMax
    /\ UNCHANGED <<blockVars, lru, nCacheUsed, hRBLock, disablers, bandVars,
                   dataVars, at, poBlock, scanVars, flushVars>>

(* The loop of GDALSetCacheMax64().                                        *)
SetCacheMaxLoop(t) ==
    /\ pc[t] = "setCacheMax"
    /\ IF nCacheUsed > nCacheMax
       THEN /\ nSaved' = [nSaved EXCEPT ![t] = nCacheUsed]
            /\ Goto(t, "flushCacheBlock")
       ELSE /\ nSaved' = [nSaved EXCEPT ![t] = 0]
            /\ Goto(t, "flushed")
    /\ UNCHANGED <<blockVars, cacheVars, bandVars, dataVars, callVars, poTarget,
                   poOther, toFree, bLoopAgain, bFirstIter, bNewData, keptBand,
                   flushVars>>

FlushCacheBlock(t) ==
    /\ pc[t] = "flushCacheBlock" /\ RBLockFree
    /\ hRBLock' = t
    /\ poTarget' = [poTarget EXCEPT ![t] = Oldest]
    /\ Goto(t, "flushScan")
    /\ UNCHANGED <<blockVars, lru, nCacheUsed, nCacheMax, disablers, bandVars,
                   dataVars, callVars, poOther, toFree, bLoopAgain, bFirstIter,
                   bNewData, nSaved, keptBand, flushVars>>

(* With bDirtyBlocksOnly, a block is skipped while it is clean or flushing *)
(* is disabled.                                                            *)
FlushScan(t) ==
    LET b == poTarget[t] IN
    /\ pc[t] = "flushScan" /\ b # Null
    /\ IF op[t] # "flushDirtyBlocks" \/ (bDirty[b] /\ DirtyFlushEnabled)
       THEN Goto(t, "flushExchange") /\ UNCHANGED poTarget
       ELSE /\ poTarget' = [poTarget EXCEPT ![t] = PreviousOf(b)]
            /\ UNCHANGED pc
    /\ UNCHANGED <<blockVars, cacheVars, bandVars, dataVars, callVars, poOther,
                   toFree, bLoopAgain, bFirstIter, bNewData, nSaved, keptBand,
                   flushVars>>

FlushExchange(t) ==
    /\ pc[t] = "flushExchange"
    /\ Claim(t, poTarget[t], PreviousOf(poTarget[t]), "flushScan")

(* FlushCacheBlock() returns FALSE.                                        *)
FlushScanEnds(t) ==
    /\ pc[t] = "flushScan" /\ poTarget[t] = Null
    /\ hRBLock' = NoThread
    /\ Goto(t, IF op[t] = "setCacheMax" THEN "flushedOne" ELSE "flushed")
    /\ UNCHANGED <<blockVars, lru, nCacheUsed, nCacheMax, disablers, bandVars,
                   dataVars, callVars, scanVars, flushVars>>

(* GDALSetCacheMax64() stops when a round did not change nCacheUsed.       *)
FlushedOne(t) ==
    /\ pc[t] = "flushedOne"
    /\ Goto(t, IF op[t] = "setCacheMax" /\ nCacheUsed # nSaved[t]
               THEN "setCacheMax" ELSE "flushed")
    /\ nSaved' = [nSaved EXCEPT ![t] = 0]
    /\ UNCHANGED <<blockVars, cacheVars, bandVars, dataVars, callVars, poTarget,
                   poOther, toFree, bLoopAgain, bFirstIter, bNewData, keptBand,
                   flushVars>>

(* EnterDisableDirtyBlockFlush() and LeaveDisableDirtyBlockFlush(), paired *)
(* by each thread: disablers is the counter as a set of threads.           *)
EnterDisableDirtyBlockFlush(t) ==
    /\ pc[t] = "idle" /\ "disable" \in Ops /\ t \notin disablers
    /\ disablers' = disablers \cup {t}
    /\ UNCHANGED <<blockVars, lru, nCacheUsed, nCacheMax, hRBLock, bandVars,
                   dataVars, pc, callVars, scanVars, flushVars>>

LeaveDisableDirtyBlockFlush(t) ==
    /\ pc[t] = "idle" /\ t \in disablers
    /\ disablers' = disablers \ {t}
    /\ UNCHANGED <<blockVars, lru, nCacheUsed, nCacheMax, hRBLock, bandVars,
                   dataVars, pc, callVars, scanVars, flushVars>>

-----------------------------------------------------------------------------
(* A call made by an idle thread.                                          *)
Start(t) ==
    \/ \E o \in Ops, k \in Keys : StartIO(t, o, k) \/ StartFlush(t, o, k)
    \/ \E o \in Ops : StartGlobal(t, o)
    \/ \E ds \in Datasets : Reopen(t, ds)
    \/ EnterDisableDirtyBlockFlush(t)
    \/ LeaveDisableDirtyBlockFlush(t)

(* A step of GetLockedBlockRef() and its callers.                          *)
IoStep(t) ==
    \/ WaitPendingTasks(t) \/ EnterReadWrite(t) \/ TryGetLockedBlockRef(t)
    \/ TakeLock(t) \/ TakeLockFailed(t) \/ Touch(t) \/ TouchLocked(t)
    \/ CreateBlockFails(t) \/ ReacquireReadWriteLock(t)
    \/ \E b \in Blocks : CreateBlock(t, b)
    \/ \E ok \in BOOLEAN :
          Allocate(t, ok) \/ AdoptBlock(t, ok) \/ ReadBlock(t, ok)
    \/ WriteLocked(t) \/ Discard(t) \/ Failed(t)
    \/ \E more \in BOOLEAN : DropLock(t, more)

(* A step of an eviction.                                                  *)
EvictStep(t) ==
    \/ InternalizeLock(t) \/ Scan(t) \/ Exchange(t) \/ ExchangeOther(t)
    \/ Fallback(t) \/ FallbackEnds(t) \/ Detach(t) \/ UnreferenceBlock(t)
    \/ Scanned(t) \/ FreeNext(t) \/ Release(t) \/ KeepAliveDec(t) \/ FreeEnds(t)
    \/ \E ok \in BOOLEAN : WriteEvicted(t, ok)
    \/ SetCacheMaxLoop(t) \/ FlushCacheBlock(t) \/ FlushScan(t)
    \/ FlushExchange(t) \/ FlushScanEnds(t) \/ FlushedOne(t)

(* A step of FlushBlock(), FlushCache() or a destructor.                   *)
FlushStep(t) ==
    \/ FlushBlock(t) \/ ClaimFlush(t) \/ FlushWait(t) \/ FlushDetach(t)
    \/ FlushWrite(t) \/ Delete(t) \/ FlushCache(t) \/ FlushStorage(t)
    \/ FlushNext(t) \/ FlushEnds(t) \/ Destroy(t) \/ Flushed(t)
    \/ \E ok \in BOOLEAN : FlushIO(t, ok)

Step(t) == IoStep(t) \/ EvictStep(t) \/ FlushStep(t)

Next == \E t \in Threads : Start(t) \/ Step(t)

Spec == Init /\ [][Next]_vars

-----------------------------------------------------------------------------
(* What the steps of a thread stand for.                                   *)
Labels ==
    {"idle", "enterRW", "tryGet", "takeLock", "takeLockFailed", "touch",
     "touchLocked", "create", "internalize", "scan", "exchange",
     "exchangeOther", "fallback", "detach", "unreference", "scanned", "free",
     "write", "release", "keepAlive", "allocate", "reacquire", "adopt",
     "readRW", "locked", "drop", "discard", "discarded", "delete", "failed", "flushBlock",
     "claimFlush", "flushWait", "flushDetach", "flushWrite", "flushIO",
     "flushCache", "flushStorage", "flushNext", "destroy", "flushed",
     "setCacheMax", "flushCacheBlock", "flushScan", "flushExchange",
     "flushedOne"}

(* Steps under hRBLock.                                                    *)
CriticalLabels == {"scan", "exchange", "exchangeOther", "fallback", "detach",
                   "unreference", "scanned", "flushScan", "flushExchange"}
EvictLabels == {"internalize", "free", "write", "release", "keepAlive"}
                 \cup CriticalLabels

(* Thread t is inside Internalize(), or holds the block it asked for: it   *)
(* has a lock on poBlock[t].                                               *)
Internalizing(t) == op[t] \in IoOps /\ pc[t] \in EvictLabels
HasLock(t) == \/ Internalizing(t)
              \/ pc[t] \in {"touch", "touchLocked", "allocate", "reacquire",
                            "adopt", "readRW", "locked", "drop", "discard"}

(* Blocks claimed by thread t: taken by an atomic exchange, to evict or to *)
(* flush them.                                                             *)
Evicting(t) == ToSet(toFree[t]) \cup (IF pc[t] = "detach" THEN {poTarget[t]} ELSE {})
Flushing(t) == IF pc[t] \in {"flushDetach", "flushWrite", "flushIO", "delete"}
               THEN {poBlock[t]} ELSE {}
Claimed(t) == Evicting(t) \cup Flushing(t)
FreeBlocks(d) == ToSet(psListBlocksToFree[d])

(* Pointers that a thread will still dereference.                          *)
Pointers(t) == Claimed(t) \cup
    (IF HasLock(t) \/ pc[t] \in {"takeLock", "takeLockFailed", "claimFlush", "discarded"}
     THEN {poBlock[t]} ELSE {}) \cup
    (({poTarget[t], poOther[t]} \cup {oOldSet[t][o] : o \in Offs}) \ {Null})

(* Every variable has the type of the C++ object it stands for; iOff stays *)
(* on the blocks of a band, poTarget and poBlock on block objects.         *)
TypeOK ==
    /\ nLockCount \in [Blocks -> Int]
    /\ bDirty \in [Blocks -> BOOLEAN]
    /\ pData \in [Blocks -> Values \cup {NoData}]
    /\ key \in [Blocks -> Keys \cup {NoKey}]
    /\ bMustDetach \in [Blocks -> BOOLEAN]
    /\ lru \in Seq(Blocks)
    /\ nCacheUsed \in Int
    /\ nCacheMax \in CacheMaxes
    /\ hRBLock \in Threads \cup {NoThread}
    /\ disablers \subseteq Threads
    /\ slot \in [Keys -> BlockOrNull]
    /\ psListBlocksToFree \in [Bands -> Seq(Blocks)]
    /\ nKeepAliveCounter \in [Bands -> Int]
    /\ nDirtyBlocks \in [Bands -> Int]
    /\ eFlushBlockErr \in [Bands -> BOOLEAN]
    /\ alive \in [Bands -> BOOLEAN]
    /\ hMutex \in [Datasets -> Threads \cup {NoThread}]
    /\ disk \in [Keys -> Values]
    /\ last \in [Keys -> Values]
    /\ pc \in [Threads -> Labels]
    /\ op \in [Threads -> AllOps \cup {"none"}]
    /\ at \in [Threads -> Keys \cup {NoKey}]
    /\ poBlock \in [Threads -> BlockOrNull]
    /\ poTarget \in [Threads -> BlockOrNull]
    /\ poOther \in [Threads -> BlockOrNull]
    /\ toFree \in [Threads -> Seq(Blocks)]
    /\ bLoopAgain \in [Threads -> BOOLEAN]
    /\ bFirstIter \in [Threads -> BOOLEAN]
    /\ bNewData \in [Threads -> BOOLEAN]
    /\ nSaved \in [Threads -> Int]
    /\ keptBand \in [Threads -> Bands \cup {0}]
    /\ waitFor \in [Threads -> SUBSET Bands]
    /\ iOff \in [Threads -> Offs \cup {0}]
    /\ oOldSet \in [Threads -> [Offs -> BlockOrNull]]
    /\ bInDestructor \in [Threads -> BOOLEAN]
    /\ eGlobalErr \in [Threads -> BOOLEAN]

(* A block is never evicted or flushed under the feet of a thread that     *)
(* uses it, nor by two threads at once: nLockCount counts the users of the *)
(* block, less one when it is claimed or waits in a free list.             *)
LockCountExact ==
    \A b \in Blocks : key[b] # NoKey =>
        nLockCount[b] =
            Cardinality({t \in Threads : poBlock[t] = b
                          /\ (HasLock(t) \/ pc[t] = "takeLockFailed")})
            - Cardinality({t \in Threads : b \in Claimed(t)})
            - Cardinality({d \in Bands : b \in FreeBlocks(d)})

(* CPLAssert(u.papoBlocks[nBlockIndex] == nullptr) of AdoptBlock(): the    *)
(* evictor of the previous block of that offset has unreferenced it.       *)
AdoptsIntoEmptySlot ==
    \A t \in Threads : pc[t] = "adopt" => slot[at[t]] = Null

(* CPLAssert(bMustDetach) of Touch_unlocked(): a block that was locked in  *)
(* time is still in the list when it is touched.                           *)
TouchesCachedBlock ==
    \A t \in Threads : pc[t] \in {"touch", "touchLocked"} =>
        bMustDetach[poBlock[t]] /\ Contains(lru, poBlock[t])

(* nKeepAliveCounter counts the blocks of the band that evictors hold, and *)
(* no band is destroyed while one of them holds a block of it.             *)
KeepAliveExact ==
    \A d \in Bands :
        /\ nKeepAliveCounter[d] =
             Cardinality({b \in Blocks : key[b] # NoKey /\ BandOf(key[b]) = d /\
                            \E t \in Threads : b \in ToSet(toFree[t])})
             + Cardinality({t \in Threads : keptBand[t] = d})
        /\ ~alive[d] => nKeepAliveCounter[d] = 0

(* No thread keeps a pointer to a deleted block, the list and the storage  *)
(* of the bands included, and no block outlives its band.                  *)
NoDanglingPointer ==
    /\ \A t \in Threads, b \in Blocks : b \in Pointers(t) => key[b] # NoKey
    /\ \A b \in ToSet(lru) : key[b] # NoKey
    /\ \A k \in Keys : slot[k] # Null => key[slot[k]] = k
    /\ \A b \in Blocks : key[b] # NoKey => alive[BandOf(key[b])]

(* nCacheUsed is the number of blocks with memory in the list, plus those  *)
(* that Internalize() has charged in advance.                              *)
CacheUsedExact ==
    nCacheUsed = Cardinality({b \in ToSet(lru) : pData[b] # NoData})
                 + Cardinality({t \in Threads :
                      \/ Internalizing(t) /\ ~bFirstIter[t]
                      \/ pc[t] = "allocate"})

(* A block in the list is in the storage of its band, where the owner      *)
(* finds it, unless a thread is about to add it or to remove it.           *)
CachedBlockFound ==
    \A b \in ToSet(lru) :
        \/ slot[key[b]] = b
        \/ \E t \in Threads : poBlock[t] = b \/ b \in Claimed(t)
                              \/ \E o \in Offs : oOldSet[t][o] = b

(* FlushCache() promises to recover the memory of the band and to refer    *)
(* new requests to the driver: when it returns, no block of the band is    *)
(* cached, even if evictors were taking blocks of it meanwhile.            *)
FlushEmptiesBand ==
    \A t \in Threads : pc[t] = "flushed" /\ op[t] \in FlushOps =>
        /\ \A o \in Offs : slot[<<BandOf(at[t]), o>>] = Null
        /\ \A b \in ToSet(lru) : BandOf(key[b]) # BandOf(at[t])

(* Internalize() never stores past the end of apoBlocksToFree[].           *)
BlocksToFreeInBounds == \A t \in Threads : Len(toFree[t]) <= BlocksToFreeSize

(* Only a thread inside RasterIO() or Fill() owns the RW mutex of its      *)
(* dataset: an evictor that has to write a block of it can get it.         *)
MutexHeldOnlyInCall ==
    \A ds \in Datasets : hMutex[ds] # NoThread =>
        op[hMutex[ds]] \in RasterIoOps /\ Owner[ds] = hMutex[ds]

(* What the owner of a band relies on while other threads evict its        *)
(* blocks, on every path of RasterIO(), Fill(), FlushBlock(), FlushCache() *)
(* and of the destructor.                                                  *)
OwnerSafe ==
    /\ NoDanglingPointer
    /\ TouchesCachedBlock
    /\ AdoptsIntoEmptySlot
    /\ FlushEmptiesBand
    /\ MutexHeldOnlyInCall

(* However threads race to fill it, a cache with a fixed limit exceeds it  *)
(* only by blocks that were locked together: one for each thread.          *)
CacheBounded ==
    (\A t \in Threads : pc[t] = "idle") /\ disablers = {} =>
        nCacheUsed <= Max({nCacheMax, Cardinality(Threads)})

(* m_nDirtyBlocks, which HasDirtyBlocks() reads, is the number of dirty    *)
(* blocks of the band.                                                     *)
DirtyCountExact ==
    \A d \in Bands :
        nDirtyBlocks[d] =
            Cardinality({b \in Blocks : key[b] # NoKey /\ BandOf(key[b]) = d /\ bDirty[b]})

(* A reader sees the last pixels written, in the cache or on disk.         *)
ReadsLastWrite ==
    \A t \in Threads : pc[t] = "locked" /\ op[t] \in {"read", "readBlock"} =>
        pData[poBlock[t]] = last[at[t]]

(* FlushCache() and closing leave the last pixels written on disk.         *)
FlushedIsOnDisk ==
    \A t \in Threads : pc[t] = "flushed" /\ op[t] \in FlushOps =>
        \A o \in Offs : disk[<<BandOf(at[t]), o>>] = last[<<BandOf(at[t]), o>>]

(* While EnterDisableDirtyBlockFlush() is in force, an eviction made to    *)
(* gain memory takes no dirty block.                                       *)
DisabledFlushKeepsDirty ==
    [][\A t \in Threads :
         pc[t] \in {"exchange", "exchangeOther", "fallback"} /\ pc'[t] = "detach"
           => disablers = {} \/ ~bDirty[poTarget'[t]]]_vars

-----------------------------------------------------------------------------
(* Fairness: a thread that can take a step infinitely often takes one; in  *)
(* particular a thread that waits for a mutex released again and again     *)
(* gets it.                                                                *)
FairSpec == Spec /\ \A t \in Threads : SF_vars(Step(t))

(* RasterIO(), FlushCache() and closing return: no thread waits forever    *)
(* for hRBLock, a RW mutex or the evictors of its band.                    *)
CallsReturn ==
    \A t \in Threads : op[t] \in IoOps \cup FlushOps ~> pc[t] = "idle"
=============================================================================
