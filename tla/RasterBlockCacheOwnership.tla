----------------------- MODULE RasterBlockCacheOwnership -----------------------
(***************************************************************************)
(* Who owns a block of the cache, for any number of threads, datasets,     *)
(* bands and blocks: a block is used by the thread of its dataset only,    *)
(* claimed by one thread at a time, and deleted or recycled only when      *)
(* nothing points to it any more.  The argument holds where no allocation  *)
(* of the cache fails; where one does, GetLockedBlockRef() deletes a block *)
(* that an evictor may have claimed.                                       *)
(***************************************************************************)
EXTENDS RasterBlockCacheControl, FiniteSetTheorems

(* The memory of blocks and of the grids of subblocks can be allocated.    *)
AllocationsSucceed == Failures \cap {"Internalize", "AdoptBlock"} = {}

(* The block that thread t has counted in nLockCount.                      *)
Using(t) == IF HasLock(t) \/ pc[t] = "takeLockFailed" THEN {poBlock[t]} ELSE {}
Used(b) == \E t \in Threads : b \in Using(t)

(* A block is out of the hands of users when it is claimed, or waits in a  *)
(* free list.                                                              *)
Frees(b) == \E d \in Bands : b \in FreeBlocks(d)
Out(b) == (\E t \in Threads : b \in Claimed(t)) \/ Frees(b)

(* The thread that uses the dataset of block b.                            *)
UserOf(b) == Owner[DatasetOfKey(key[b])]

(* Thread t is in the loop of FlushCache() over the blocks of a band.      *)
InLoop(t) == op[t] \in FlushOps /\ pc[t] \in FlushLabels \cup {"flushNext"}

(* The blocks that thread t holds, and what they are.                      *)
KeysOf(t) ==
    /\ \A b \in Claimed(t) : key[b] \in Keys
    /\ HasLock(t) \/ pc[t] \in {"takeLock", "takeLockFailed"} =>
          key[poBlock[t]] = at[t]
    /\ HasLock(t) => bMustDetach[poBlock[t]]
    /\ pc[t] \in FlushLabels =>
          /\ key[poBlock[t]] \in Keys
          /\ BandOf(key[poBlock[t]]) = BandOf(at[t])
          /\ slot[key[poBlock[t]]] = Null
    /\ pc[t] = "reacquire" => pData[poBlock[t]] # NoData
    /\ pc[t] \notin {"discard", "discarded"}

(* The storage that FlushCache() has moved away from a hash set.           *)
OldSetOf(t) ==
    /\ \A o \in Offs : oOldSet[t][o] # Null =>
          /\ InLoop(t) /\ BandOf(at[t]) \in HashSet
          /\ iOff[t] # 0 /\ iOff[t] <= o
          /\ key[oOldSet[t][o]] = <<BandOf(at[t]), o>>
          /\ pc[t] \in FlushLabels => oOldSet[t][o] # poBlock[t]
    /\ InLoop(t) /\ BandOf(at[t]) \in HashSet =>
          \A o \in Offs : slot[<<BandOf(at[t]), o>>] = Null

(* The blocks of the list, of the storage of the bands and of their free   *)
(* lists.                                                                  *)
StoreInv ==
    /\ \A b \in ToSet(lru) : key[b] \in Keys /\ bMustDetach[b]
    /\ \A k \in Keys : slot[k] # Null =>
          /\ key[slot[k]] = k
          /\ \/ slot[k] \in ToSet(lru)
             \/ \E t \in Threads : pc[t] = "unreference" /\ slot[k] = LastFreed(t)
    /\ \A d \in Bands : \A b \in FreeBlocks(d) :
          key[b] \in Keys /\ BandOf(key[b]) = d

Exclusive ==
    /\ \A t, u \in Threads : t # u => Claimed(t) \cap Claimed(u) = {}
    /\ \A t \in Threads, d \in Bands : Claimed(t) \cap FreeBlocks(d) = {}
    /\ \A t \in Threads : ToSet(toFree[t]) \cap ToSet(lru) = {}
    /\ \A d \in Bands : FreeBlocks(d) \cap ToSet(lru) = {}
    /\ \A t \in Threads : NoDuplicates(toFree[t])
    /\ \A d \in Bands : NoDuplicates(psListBlocksToFree[d])

(* Internalize() has not put the block of thread t in the list yet.        *)
NotYet(t) == /\ op[t] \in IoOps
             /\ \/ pc[t] \in {"internalize"} \cup CriticalLabels
                \/ pc[t] \in RoundEnd /\ bLoopAgain[t]

LocksExact ==
    /\ \A b \in Blocks : key[b] \in Keys =>
         nLockCount[b] = (IF Used(b) THEN 1 ELSE 0) - (IF Out(b) THEN 1 ELSE 0)
    /\ \A t \in Threads :
         /\ HasLock(t) => ~Out(poBlock[t])
         /\ HasLock(t) /\ ~NotYet(t) => poBlock[t] \in ToSet(lru)
         /\ pc[t] \in {"takeLockFailed", "flushWait"} => Out(poBlock[t])
         /\ pc[t] = "takeLock" => poBlock[t] \in ToSet(lru) \/ Out(poBlock[t])

Owned == /\ \A t \in Threads : KeysOf(t) /\ OldSetOf(t)
         /\ StoreInv /\ Exclusive /\ LocksExact
OwnInv == ControlInv /\ Owned

-----------------------------------------------------------------------------
(* A step of thread t leaves the other threads the blocks that they use    *)
(* and have claimed.                                                       *)
LEMMA OthersRoles ==
    ASSUME NEW t \in Threads, Others(t), NEW u \in Threads, u # t
    PROVE  /\ pc'[u] = pc[u] /\ op'[u] = op[u] /\ at'[u] = at[u]
           /\ poBlock'[u] = poBlock[u] /\ toFree'[u] = toFree[u]
           /\ poTarget'[u] = poTarget[u] /\ keptBand'[u] = keptBand[u]
           /\ bLoopAgain'[u] = bLoopAgain[u] /\ bFirstIter'[u] = bFirstIter[u]
           /\ iOff'[u] = iOff[u] /\ oOldSet'[u] = oOldSet[u]
           /\ HasLock(u)' <=> HasLock(u)
           /\ NotYet(u)' <=> NotYet(u)
           /\ Using(u)' = Using(u) /\ Claimed(u)' = Claimed(u)
           /\ LastFreed(u)' = LastFreed(u)
           /\ InLoop(u)' <=> InLoop(u)
<1>1. /\ pc'[u] = pc[u] /\ op'[u] = op[u] /\ at'[u] = at[u]
      /\ poBlock'[u] = poBlock[u] /\ toFree'[u] = toFree[u]
      /\ poTarget'[u] = poTarget[u] /\ keptBand'[u] = keptBand[u]
      /\ bLoopAgain'[u] = bLoopAgain[u] /\ bFirstIter'[u] = bFirstIter[u]
      /\ iOff'[u] = iOff[u] /\ oOldSet'[u] = oOldSet[u]
  BY DEF Others
<1>2. (HasLock(u)' <=> HasLock(u)) /\ (NotYet(u)' <=> NotYet(u))
  BY <1>1 DEF HasLock, Internalizing, NotYet
<1>3. Using(u)' = Using(u) /\ (InLoop(u)' <=> InLoop(u))
  BY <1>1, <1>2 DEF Using, InLoop
<1>4. Claimed(u)' = Claimed(u) /\ LastFreed(u)' = LastFreed(u)
  BY <1>1 DEF Claimed, Evicting, Flushing, LastFreed
<1> QED
  BY <1>1, <1>2, <1>3, <1>4

(* The user of a block is the thread of its dataset.                       *)
LEMMA UserIsOwner ==
    ASSUME OwnInv, NEW t \in Threads,
           \/ HasLock(t)
           \/ pc[t] \in {"takeLock", "takeLockFailed"} \cup FlushLabels
    PROVE  /\ poBlock[t] \in Blocks /\ key[poBlock[t]] \in Keys
           /\ UserOf(poBlock[t]) = t /\ at[t] \in Keys
<1>1. CallOf(t) /\ KeysOf(t)
  BY DEF OwnInv, Owned, ControlInv
<1>2. pc[t] \in OwnerLabels \/ op[t] \in OwnerOps
  BY DEF HasLock, Internalizing, OwnerLabels, OwnerOps, IoLabels
<1>3. at[t] \in Keys /\ Owner[DatasetOfKey(at[t])] = t
  BY <1>1, <1>2, AtIsKey
<1>4. poBlock[t] \in Blocks
  BY <1>1 DEF CallOf, HasPointer
<1>5. CASE pc[t] \in FlushLabels
  <2>1. /\ key[poBlock[t]] \in Keys
        /\ BandOf(key[poBlock[t]]) = BandOf(at[t])
    BY <1>1, <1>5 DEF KeysOf
  <2> QED
    BY <1>3, <1>4, <2>1 DEF UserOf, DatasetOfKey, BandOf
<1>6. CASE pc[t] \notin FlushLabels
  <2>1. key[poBlock[t]] = at[t]
    BY <1>1, <1>6 DEF KeysOf
  <2> QED
    BY <1>3, <1>4, <2>1 DEF UserOf
<1> QED
  BY <1>5, <1>6

(* What threads use or have claimed, and what is in the list and in the    *)
(* free lists, are blocks.                                                 *)
LEMMA ClaimedAreBlocks ==
    ASSUME OwnInv, NEW t \in Threads
    PROVE  /\ Claimed(t) \subseteq Blocks /\ ToSet(toFree[t]) \subseteq Claimed(t)
           /\ Using(t) \subseteq Blocks
           /\ \A d \in Bands : FreeBlocks(d) \subseteq Blocks
           /\ ToSet(lru) \subseteq Blocks
           /\ \A b \in Claimed(t) : key[b] \in Keys
<1>1. CallOf(t) /\ KeysOf(t) /\ ScanOf(t) /\ Types
  BY DEF OwnInv, Owned, ControlInv
<1>2. toFree[t] \in Seq(Blocks) /\ lru \in Seq(Blocks)
  BY <1>1 DEF Types, ScanTypes, CacheTypes
<1>3. ToSet(toFree[t]) \subseteq Blocks /\ ToSet(lru) \subseteq Blocks
  BY <1>2, Elements
<1>4. Claimed(t) \subseteq Blocks
  BY <1>1, <1>3 DEF Claimed, Evicting, Flushing, ScanOf, CallOf, HasPointer,
     FlushLabels
<1>5. Using(t) \subseteq Blocks
  BY <1>1 DEF Using, CallOf, HasPointer
<1>6. ASSUME NEW d \in Bands PROVE FreeBlocks(d) \subseteq Blocks
  <2>1. psListBlocksToFree[d] \in Seq(Blocks)
    BY <1>1 DEF Types, BandTypes
  <2> QED BY <2>1, Elements DEF FreeBlocks
<1>7. ToSet(toFree[t]) \subseteq Claimed(t)
  BY DEF Claimed, Evicting
<1> QED
  BY <1>1, <1>3, <1>4, <1>5, <1>6, <1>7 DEF KeysOf

(* A step of thread t deletes, recycles, detaches or stores blocks of its  *)
(* own datasets only, and none that another thread has claimed.            *)
Local(t) ==
    /\ \A b \in Blocks : key[b] \in Keys /\ UserOf(b) # t =>
         /\ key'[b] = key[b]
         /\ b \notin Claimed(t) =>
              bMustDetach'[b] = bMustDetach[b] /\ pData'[b] = pData[b]
    /\ \A k \in Keys : slot'[k] \in {slot[k], Null} \/ Owner[DatasetOfKey(k)] = t
    /\ \A u \in Threads \ {t} : \A b \in Claimed(u) : key'[b] = key[b]

(* A step of thread t changes neither the blocks that another thread holds *)
(* nor the storage that it flushes.                                        *)
LEMMA KeysMoves ==
    ASSUME OwnInv, NEW t \in Threads, Others(t), Local(t),
           NEW u \in Threads, u # t
    PROVE  KeysOf(u)' /\ OldSetOf(u)'
<1>1. CallOf(u) /\ KeysOf(u) /\ OldSetOf(u)
  BY DEF OwnInv, Owned, ControlInv
<1>2. /\ pc'[u] = pc[u] /\ op'[u] = op[u] /\ at'[u] = at[u]
      /\ poBlock'[u] = poBlock[u] /\ iOff'[u] = iOff[u]
      /\ oOldSet'[u] = oOldSet[u]
      /\ HasLock(u)' <=> HasLock(u)
      /\ Claimed(u)' = Claimed(u)
      /\ InLoop(u)' <=> InLoop(u)
  BY OthersRoles
<1>3. \A b \in Claimed(u) : key'[b] \in Keys
  BY <1>1 DEF Local, KeysOf
<1>4. ASSUME \/ HasLock(u)
             \/ pc[u] \in {"takeLock", "takeLockFailed"} \cup FlushLabels
      PROVE  /\ key[poBlock[u]] \in Keys /\ key'[poBlock[u]] = key[poBlock[u]]
             /\ poBlock[u] \notin Claimed(t) =>
                  /\ bMustDetach'[poBlock[u]] = bMustDetach[poBlock[u]]
                  /\ pData'[poBlock[u]] = pData[poBlock[u]]
             /\ slot[key[poBlock[u]]] = Null => slot'[key[poBlock[u]]] = Null
  <2>1. /\ poBlock[u] \in Blocks /\ key[poBlock[u]] \in Keys
        /\ UserOf(poBlock[u]) = u
    BY <1>4, UserIsOwner
  <2> QED
    BY <2>1 DEF Local, UserOf
<1>5. HasLock(u) => poBlock[u] \notin Claimed(t)
  BY DEF OwnInv, Owned, LocksExact, Out
<1>6. pc[u] = "reacquire" => HasLock(u)
  BY DEF HasLock
<1>7. KeysOf(u)'
  <2>1. /\ \A b \in Claimed(u)' : key'[b] \in Keys
        /\ pc'[u] \notin {"discard", "discarded"}
    BY <1>1, <1>2, <1>3 DEF KeysOf
  <2>2. /\ HasLock(u)' \/ pc'[u] \in {"takeLock", "takeLockFailed"} =>
             key'[poBlock'[u]] = at'[u]
        /\ HasLock(u)' => bMustDetach'[poBlock'[u]]
        /\ pc'[u] = "reacquire" => pData'[poBlock'[u]] # NoData
    BY <1>1, <1>2, <1>4, <1>5, <1>6 DEF KeysOf
  <2>3. pc'[u] \in FlushLabels =>
           /\ key'[poBlock'[u]] \in Keys
           /\ BandOf(key'[poBlock'[u]]) = BandOf(at'[u])
           /\ slot'[key'[poBlock'[u]]] = Null
    BY <1>1, <1>2, <1>4 DEF KeysOf
  <2> QED
    BY <2>1, <2>2, <2>3 DEF KeysOf
<1>8. ASSUME InLoop(u)
      PROVE  /\ BandOf(at[u]) \in Bands /\ Owner[DatasetOf[BandOf(at[u])]] = u
             /\ \A o \in Offs : slot[<<BandOf(at[u]), o>>] = Null =>
                  slot'[<<BandOf(at[u]), o>>] = Null
  <2>1. op[u] \in OwnerOps
    BY <1>8 DEF InLoop, OwnerOps
  <2>2. /\ BandOf(at[u]) \in Bands /\ Owner[DatasetOfKey(at[u])] = u
    BY <1>1, <2>1, AtIsKey
  <2>3. Owner[DatasetOf[BandOf(at[u])]] = u
    BY <2>2 DEF DatasetOfKey, BandOf
  <2>4. ASSUME NEW o \in Offs, slot[<<BandOf(at[u]), o>>] = Null
        PROVE  slot'[<<BandOf(at[u]), o>>] = Null
    <3>1. <<BandOf(at[u]), o>> \in Keys
      BY <2>2, KeyParts
    <3>2. Owner[DatasetOfKey(<<BandOf(at[u]), o>>)] = u
      BY <2>3 DEF DatasetOfKey, BandOf
    <3> QED BY <2>4, <3>1, <3>2 DEF Local
  <2> QED BY <2>2, <2>3, <2>4
<1>9. ASSUME NEW o \in Offs, oOldSet[u][o] # Null
      PROVE  key'[oOldSet[u][o]] = key[oOldSet[u][o]]
  <2>1. InLoop(u) /\ key[oOldSet[u][o]] = <<BandOf(at[u]), o>>
    BY <1>1, <1>9 DEF OldSetOf
  <2>2. key[oOldSet[u][o]] \in Keys
    BY <1>8, <2>1, KeyParts
  <2>3. oOldSet[u][o] \in Blocks
    BY <1>9 DEF OwnInv, ControlInv, Types, FlushTypes, BlockOrNull
  <2>4. UserOf(oOldSet[u][o]) = u
    BY <1>8, <2>1 DEF UserOf, DatasetOfKey, BandOf
  <2> QED BY <2>2, <2>3, <2>4 DEF Local
<1>10. OldSetOf(u)'
  BY <1>1, <1>2, <1>8, <1>9 DEF OldSetOf
<1> QED
  BY <1>7, <1>10

(* Whether a block is used, and whether it is out, follows from the step's *)
(* thread and the free lists.                                              *)
LEMMA SameRoles ==
    ASSUME NEW t \in Threads, Others(t), NEW b,
           (b \in Claimed(t))' \/ Frees(b)' <=> b \in Claimed(t) \/ Frees(b)
    PROVE  Out(b)' <=> Out(b)
<1>1. \A u \in Threads \ {t} : Claimed(u)' = Claimed(u)
  BY OthersRoles
<1> QED
  BY <1>1 DEF Out

(* The same for whether a block is used.                                   *)
LEMMA SameUse ==
    ASSUME NEW t \in Threads, Others(t), NEW b,
           (b \in Using(t))' <=> b \in Using(t)
    PROVE  Used(b)' <=> Used(b)
<1>1. \A u \in Threads \ {t} : Using(u)' = Using(u)
  BY OthersRoles
<1> QED
  BY <1>1 DEF Used

(* Steps that change neither who has which block, nor where it is.         *)
Quiet(t) ==
    /\ UNCHANGED <<key, nLockCount, lru, slot, psListBlocksToFree, bMustDetach>>
    /\ toFree'[t] = toFree[t]
    /\ Claimed(t)' = Claimed(t)
    /\ Using(t)' = Using(t)
    /\ HasLock(t)' <=> HasLock(t)
    /\ HasLock(t) => poBlock'[t] = poBlock[t] /\ at'[t] = at[t]
    /\ HasLock(t) /\ NotYet(t) => NotYet(t)'
    /\ pc[t] # "unreference"
    /\ pc'[t] \notin {"takeLock", "takeLockFailed", "flushWait", "discard",
                      "discarded"}
    /\ pc'[t] \in FlushLabels =>
         pc[t] \in FlushLabels /\ poBlock'[t] = poBlock[t] /\ at'[t] = at[t]
    /\ pc'[t] = "reacquire" => pData'[poBlock[t]] # NoData
    /\ InLoop(t)' => InLoop(t) /\ at'[t] = at[t] /\ iOff'[t] = iOff[t]
    /\ InLoop(t) => InLoop(t)' \/ iOff[t] = 0
    /\ oOldSet'[t] = oOldSet[t]
    /\ \A b \in Blocks : key[b] \in Keys /\ UserOf(b) # t => pData'[b] = pData[b]

(* Such a step keeps the ownership of blocks.                              *)
LEMMA QuietStep ==
    ASSUME OwnInv, NEW t \in Threads, Others(t), Quiet(t)
    PROVE  Owned'
<1>0. /\ CallOf(t) /\ KeysOf(t) /\ OldSetOf(t)
      /\ StoreInv /\ Exclusive /\ LocksExact
  BY DEF OwnInv, Owned, ControlInv
<1>1. Local(t)
  BY DEF Quiet, Local
<1>2. \A b : (Out(b)' <=> Out(b)) /\ (Used(b)' <=> Used(b))
  <2>1. \A b : Frees(b)' <=> Frees(b)
    BY DEF Quiet, Frees, FreeBlocks
  <2> QED BY <2>1, SameRoles, SameUse DEF Quiet
<1>3. KeysOf(t)'
  <2>1. /\ \A b \in Claimed(t)' : key'[b] \in Keys
        /\ pc'[t] \notin {"discard", "discarded"}
    BY <1>0 DEF KeysOf, Quiet
  <2>2. /\ HasLock(t)' \/ pc'[t] \in {"takeLock", "takeLockFailed"} =>
             key'[poBlock'[t]] = at'[t]
        /\ HasLock(t)' => bMustDetach'[poBlock'[t]]
    BY <1>0 DEF KeysOf, Quiet
  <2>3. pc'[t] = "reacquire" => pData'[poBlock'[t]] # NoData
    <3>1. pc'[t] = "reacquire" => HasLock(t)'
      BY DEF HasLock
    <3> QED BY <3>1 DEF Quiet
  <2>4. pc'[t] \in FlushLabels =>
           /\ key'[poBlock'[t]] \in Keys
           /\ BandOf(key'[poBlock'[t]]) = BandOf(at'[t])
           /\ slot'[key'[poBlock'[t]]] = Null
    BY <1>0 DEF KeysOf, Quiet
  <2> QED
    BY <2>1, <2>2, <2>3, <2>4 DEF KeysOf
<1>4. OldSetOf(t)'
  <2>1. CASE InLoop(t)'
    <3>1. /\ InLoop(t) /\ at'[t] = at[t] /\ iOff'[t] = iOff[t]
          /\ oOldSet'[t] = oOldSet[t] /\ UNCHANGED <<key, slot>>
          /\ pc'[t] \in FlushLabels =>
               pc[t] \in FlushLabels /\ poBlock'[t] = poBlock[t]
      BY <2>1 DEF Quiet
    <3> QED BY <1>0, <2>1, <3>1 DEF OldSetOf
  <2>2. CASE ~InLoop(t)'
    <3>1. \A o \in Offs : oOldSet[t][o] = Null
      BY <1>0, <2>2 DEF OldSetOf, Quiet
    <3> QED BY <2>2, <3>1 DEF OldSetOf, Quiet
  <2> QED BY <2>1, <2>2
<1>5. \A u \in Threads : KeysOf(u)' /\ OldSetOf(u)'
  BY <1>1, <1>3, <1>4, KeysMoves
<1>6. /\ UNCHANGED <<key, nLockCount, lru, slot, psListBlocksToFree, bMustDetach>>
      /\ \A u \in Threads : Claimed(u)' = Claimed(u) /\ toFree'[u] = toFree[u]
      /\ \A u \in Threads : pc[u] = "unreference" =>
           pc'[u] = "unreference" /\ LastFreed(u)' = LastFreed(u)
      /\ \A d : FreeBlocks(d)' = FreeBlocks(d)
  BY OthersRoles DEF Quiet, FreeBlocks
<1>7. StoreInv'
  <2>1. \A b \in ToSet(lru') : key'[b] \in Keys /\ bMustDetach'[b]
    BY <1>0, <1>6 DEF StoreInv
  <2>2. ASSUME NEW k \in Keys, slot'[k] # Null
        PROVE  /\ key'[slot'[k]] = k
               /\ \/ slot'[k] \in ToSet(lru')
                  \/ \E u \in Threads :
                       pc'[u] = "unreference" /\ slot'[k] = LastFreed(u)'
    BY <1>0, <1>6, <2>2 DEF StoreInv
  <2>3. \A d \in Bands : \A b \in FreeBlocks(d)' :
          key'[b] \in Keys /\ BandOf(key'[b]) = d
    BY <1>0, <1>6 DEF StoreInv
  <2> QED BY <2>1, <2>2, <2>3 DEF StoreInv
<1>8. Exclusive'
  BY <1>0, <1>6 DEF Exclusive
<1>9. LocksExact'
  <2>1. ASSUME NEW b \in Blocks, key'[b] \in Keys
        PROVE  nLockCount'[b] = (IF Used(b)' THEN 1 ELSE 0)
                                - (IF Out(b)' THEN 1 ELSE 0)
    BY <1>0, <1>2, <1>6, <2>1 DEF LocksExact
  <2>2. ASSUME NEW u \in Threads
        PROVE  /\ HasLock(u)' => ~Out(poBlock[u])'
               /\ HasLock(u)' /\ ~NotYet(u)' => (poBlock[u] \in ToSet(lru))'
               /\ pc'[u] \in {"takeLockFailed", "flushWait"} => Out(poBlock[u])'
               /\ pc'[u] = "takeLock" =>
                    (poBlock[u] \in ToSet(lru))' \/ Out(poBlock[u])'
    <3>1. CASE u # t
      <4>1. /\ pc'[u] = pc[u] /\ poBlock'[u] = poBlock[u]
            /\ HasLock(u)' <=> HasLock(u)
            /\ NotYet(u)' <=> NotYet(u)
        BY <3>1, OthersRoles
      <4> QED BY <1>0, <1>2, <1>6, <4>1 DEF LocksExact, Out, Frees
    <3>2. CASE u = t
      <4>1. HasLock(t)' => /\ HasLock(t) /\ poBlock'[t] = poBlock[t]
                           /\ NotYet(t) => NotYet(t)'
        BY DEF Quiet
      <4> QED BY <1>0, <1>2, <3>2, <4>1 DEF LocksExact, Quiet
    <3> QED BY <3>1, <3>2
  <2> QED BY <2>1, <2>2 DEF LocksExact
<1> QED
  BY <1>5, <1>7, <1>8, <1>9 DEF Owned

(* The parts of the invariant that a step of thread t leaves alone.        *)
LEMMA StoreStays ==
    ASSUME OwnInv, NEW t \in Threads, Others(t), pc[t] # "unreference",
           UNCHANGED <<key, lru, slot, psListBlocksToFree, bMustDetach>>
    PROVE  StoreInv'
<1>1. \A u \in Threads : pc[u] = "unreference" =>
        pc'[u] = "unreference" /\ LastFreed(u)' = LastFreed(u)
  BY OthersRoles
<1>2. \A b \in ToSet(lru') : key'[b] \in Keys /\ bMustDetach'[b]
  BY DEF OwnInv, Owned, StoreInv
<1>3. ASSUME NEW k \in Keys, slot'[k] # Null
      PROVE  /\ key'[slot'[k]] = k
             /\ \/ slot'[k] \in ToSet(lru')
                \/ \E u \in Threads :
                     pc'[u] = "unreference" /\ slot'[k] = LastFreed(u)'
  BY <1>1, <1>3 DEF OwnInv, Owned, StoreInv
<1>4. \A d \in Bands : \A b \in FreeBlocks(d)' :
        key'[b] \in Keys /\ BandOf(key'[b]) = d
  BY DEF OwnInv, Owned, StoreInv, FreeBlocks
<1> QED BY <1>2, <1>3, <1>4 DEF StoreInv

(* A step that claims and releases nothing keeps the claims disjoint.      *)
LEMMA ExclusiveStays ==
    ASSUME OwnInv, NEW t \in Threads, Others(t), UNCHANGED psListBlocksToFree,
           Claimed(t)' = Claimed(t), toFree'[t] = toFree[t],
           \A b \in ToSet(lru') : b \in ToSet(lru) \/ ~Out(b)
    PROVE  Exclusive'
<1>0. Exclusive
  BY DEF OwnInv, Owned
<1>1. /\ \A u \in Threads : Claimed(u)' = Claimed(u) /\ toFree'[u] = toFree[u]
      /\ \A d : FreeBlocks(d)' = FreeBlocks(d)
  BY OthersRoles DEF FreeBlocks
<1>2. /\ \A u \in Threads : ToSet(toFree[u]) \subseteq Claimed(u)
      /\ \A u \in Threads : \A b \in Claimed(u) : Out(b)
      /\ \A d \in Bands : \A b \in FreeBlocks(d) : Out(b)
  BY DEF Claimed, Evicting, Out, Frees
<1>3. /\ \A u \in Threads : (ToSet(toFree[u]) \cap ToSet(lru))' = {}
      /\ \A d \in Bands : (FreeBlocks(d) \cap ToSet(lru))' = {}
  BY <1>0, <1>1, <1>2 DEF Exclusive
<1> QED
  BY <1>0, <1>1, <1>3 DEF Exclusive

(* Only one block changes hands.                                           *)
LEMMA LocksBut ==
    ASSUME OwnInv, NEW t \in Threads, Others(t), NEW b0,
           \A b \in Blocks \ {b0} :
              /\ key'[b] = key[b] /\ nLockCount'[b] = nLockCount[b]
              /\ (b \in Using(t))' <=> b \in Using(t)
              /\ (b \in Claimed(t))' \/ Frees(b)' <=> b \in Claimed(t) \/ Frees(b)
              /\ b \in ToSet(lru) => b \in ToSet(lru') \/ Out(b)',
           key'[b0] \in Keys =>
              nLockCount'[b0] = (IF Used(b0)' THEN 1 ELSE 0)
                                - (IF Out(b0)' THEN 1 ELSE 0),
           HasLock(t)' => ~Out(poBlock[t])',
           HasLock(t)' /\ ~NotYet(t)' => (poBlock[t] \in ToSet(lru))',
           pc'[t] \in {"takeLockFailed", "flushWait"} => Out(poBlock[t])',
           pc'[t] = "takeLock" =>
              (poBlock[t] \in ToSet(lru))' \/ Out(poBlock[t])',
           \A u \in Threads \ {t} : poBlock[u] = b0 =>
              /\ HasLock(u) => ~Out(b0)' /\ (b0 \in ToSet(lru) => b0 \in ToSet(lru'))
              /\ pc[u] \in {"takeLockFailed", "flushWait"} => Out(b0)'
              /\ pc[u] = "takeLock" => b0 \in ToSet(lru') \/ Out(b0)'
    PROVE  LocksExact'
<1>0. LocksExact
  BY DEF OwnInv, Owned
<1>1. ASSUME NEW b \in Blocks \ {b0}
      PROVE  (Used(b)' <=> Used(b)) /\ (Out(b)' <=> Out(b))
  BY SameRoles, SameUse
<1>2. ASSUME NEW b \in Blocks, key'[b] \in Keys
      PROVE  nLockCount'[b] = (IF Used(b)' THEN 1 ELSE 0)
                              - (IF Out(b)' THEN 1 ELSE 0)
  <2>1. CASE b = b0
    BY <1>2, <2>1
  <2>2. CASE b # b0
    BY <1>0, <1>1, <1>2, <2>2 DEF LocksExact
  <2> QED BY <2>1, <2>2
<1>3. ASSUME NEW u \in Threads \ {t}
      PROVE  /\ HasLock(u)' => ~Out(poBlock[u])'
             /\ HasLock(u)' /\ ~NotYet(u)' => (poBlock[u] \in ToSet(lru))'
             /\ pc'[u] \in {"takeLockFailed", "flushWait"} => Out(poBlock[u])'
             /\ pc'[u] = "takeLock" =>
                  (poBlock[u] \in ToSet(lru))' \/ Out(poBlock[u])'
  <2>c. PICK c : c = poBlock[u]
    OBVIOUS
  <2>1. /\ pc'[u] = pc[u] /\ poBlock'[u] = c
        /\ HasLock(u)' <=> HasLock(u)
        /\ NotYet(u)' <=> NotYet(u)
    BY <2>c, OthersRoles
  <2>2. /\ HasLock(u) => ~Out(c)
        /\ HasLock(u) /\ ~NotYet(u) => c \in ToSet(lru)
        /\ pc[u] \in {"takeLockFailed", "flushWait"} => Out(c)
        /\ pc[u] = "takeLock" => c \in ToSet(lru) \/ Out(c)
    BY <1>0, <2>c DEF LocksExact
  <2>3. HasLock(u) \/ pc[u] \in {"takeLock", "takeLockFailed", "flushWait"} =>
          c \in Blocks
    BY <2>c, UserIsOwner DEF FlushLabels
  <2>4. /\ HasLock(u) => ~Out(c)'
        /\ HasLock(u) /\ ~NotYet(u) => c \in ToSet(lru')
        /\ pc[u] \in {"takeLockFailed", "flushWait"} => Out(c)'
        /\ pc[u] = "takeLock" => c \in ToSet(lru') \/ Out(c)'
    <3>1. CASE c = b0
      BY <2>c, <2>2, <3>1
    <3>2. CASE c # b0
      BY <1>1, <2>2, <2>3, <3>2
    <3> QED BY <3>1, <3>2
  <2>5. (Out(poBlock[u])' <=> Out(c)') /\ ((poBlock[u] \in ToSet(lru))' <=> c \in ToSet(lru'))
    BY <2>1 DEF Out, Frees
  <2> QED BY <2>1, <2>4, <2>5
<1> QED
  BY <1>2, <1>3 DEF LocksExact

(* No block changes hands.                                                 *)
LEMMA LocksStay ==
    ASSUME OwnInv, NEW t \in Threads, Others(t),
           UNCHANGED <<key, nLockCount, lru, psListBlocksToFree>>,
           Using(t)' = Using(t), Claimed(t)' = Claimed(t),
           HasLock(t)' => ~Out(poBlock[t])',
           HasLock(t)' /\ ~NotYet(t)' => (poBlock[t] \in ToSet(lru))',
           pc'[t] \in {"takeLockFailed", "flushWait"} => Out(poBlock[t])',
           pc'[t] = "takeLock" =>
              (poBlock[t] \in ToSet(lru))' \/ Out(poBlock[t])'
    PROVE  LocksExact'
<1>0. LocksExact
  BY DEF OwnInv, Owned
<1>1. \A b : (Used(b)' <=> Used(b)) /\ (Out(b)' <=> Out(b))
  <2>1. \A b : Frees(b)' <=> Frees(b)
    BY DEF Frees, FreeBlocks
  <2> QED BY <2>1, SameRoles, SameUse
<1>2. \A b \in Blocks : key'[b] \in Keys =>
         nLockCount'[b] = (IF Used(b)' THEN 1 ELSE 0) - (IF Out(b)' THEN 1 ELSE 0)
  BY <1>0, <1>1 DEF LocksExact
<1>3. ASSUME NEW u \in Threads \ {t}
      PROVE  /\ HasLock(u)' => ~Out(poBlock[u])'
             /\ HasLock(u)' /\ ~NotYet(u)' => (poBlock[u] \in ToSet(lru))'
             /\ pc'[u] \in {"takeLockFailed", "flushWait"} => Out(poBlock[u])'
             /\ pc'[u] = "takeLock" =>
                  (poBlock[u] \in ToSet(lru))' \/ Out(poBlock[u])'
  <2>1. /\ pc'[u] = pc[u] /\ poBlock'[u] = poBlock[u]
        /\ HasLock(u)' <=> HasLock(u)
        /\ NotYet(u)' <=> NotYet(u)
    BY OthersRoles
  <2> QED BY <1>0, <1>1, <2>1 DEF LocksExact, Out, Frees
<1> QED
  BY <1>2, <1>3 DEF LocksExact

-----------------------------------------------------------------------------
(* TryGetLockedBlockRef() finds a block that is in the list, or that an    *)
(* evictor is taking out of its band.                                      *)
LEMMA Owned_TryGetLockedBlockRef ==
    ASSUME OwnInv, NEW t \in Threads, Others(t), TryGetLockedBlockRef(t)
    PROVE  Owned'
<1>0. /\ CallTypes /\ CallOf(t) /\ KeysOf(t) /\ OldSetOf(t) /\ StoreInv
      /\ at[t] \in Keys /\ pc[t] = "tryGet"
  BY AtIsKey DEF OwnInv, Owned, ControlInv, Types, TryGetLockedBlockRef,
     OwnerLabels, IoLabels
<1>1. /\ UNCHANGED <<blockVars, cacheVars, bandVars, scanVars, flushVars, at, op>>
      /\ poBlock'[t] = slot[at[t]]
      /\ pc'[t] = IF slot[at[t]] = Null THEN "create" ELSE "takeLock"
  BY <1>0 DEF TryGetLockedBlockRef, CallTypes, Goto
<1>2. /\ ~HasLock(t) /\ ~HasLock(t)' /\ Using(t) = {} /\ Using(t)' = {}
      /\ Claimed(t)' = Claimed(t) /\ toFree'[t] = toFree[t]
      /\ ~InLoop(t) /\ ~InLoop(t)'
  BY <1>0, <1>1 DEF HasLock, Internalizing, EvictLabels, CriticalLabels, Using,
     Claimed, Evicting, Flushing, InLoop, FlushLabels, scanVars
<1>3. slot[at[t]] # Null =>
         key[slot[at[t]]] = at[t] /\ (slot[at[t]] \in ToSet(lru) \/ Out(slot[at[t]]))
  <2>1. \A u \in Threads : pc[u] = "unreference" => LastFreed(u) \in Claimed(u)
    BY TargetIsBlock, ClaimedAreBlocks DEF OwnInv, ControlInv, ScanOf
  <2> QED BY <1>0, <2>1 DEF StoreInv, Out
<1>4. Local(t)
  BY <1>1 DEF Local, blockVars, bandVars
<1>5. KeysOf(t)' /\ OldSetOf(t)'
  BY <1>0, <1>1, <1>2, <1>3 DEF KeysOf, OldSetOf, FlushLabels, blockVars,
     bandVars, flushVars
<1>6. StoreInv' /\ Exclusive'
  BY <1>0, <1>1, <1>2, StoreStays, ExclusiveStays
     DEF blockVars, cacheVars, bandVars
<1>7. \A b : Out(b)' <=> Out(b)
  BY <1>1, <1>2, SameRoles DEF Frees, FreeBlocks, bandVars
<1>8. LocksExact'
  BY <1>0, <1>1, <1>2, <1>3, <1>7, LocksStay
     DEF blockVars, cacheVars, bandVars, Out, Frees
<1> QED
  BY <1>4, <1>5, <1>6, <1>8, KeysMoves DEF Owned

(* TakeLock() of a block: either nobody has claimed it, and nobody can     *)
(* from now on, or the count tells that an evictor has.                    *)
LEMMA Owned_TakeLock ==
    ASSUME OwnInv, NEW t \in Threads, Others(t), TakeLock(t)
    PROVE  Owned'
<1>0. /\ CallTypes /\ BlockTypes /\ CallOf(t) /\ KeysOf(t) /\ OldSetOf(t)
      /\ StoreInv /\ LocksExact /\ pc[t] = "takeLock"
  BY DEF OwnInv, Owned, ControlInv, Types, TakeLock
<1>b. PICK b : b = poBlock[t]
  OBVIOUS
<1>1. b \in Blocks /\ key[b] \in Keys /\ key[b] = at[t] /\ UserOf(b) = t
  BY <1>0, <1>b, UserIsOwner DEF KeysOf
<1>2. /\ UNCHANGED <<bDirty, pData, key, bMustDetach, cacheVars, bandVars,
                     callVars, scanVars, flushVars>>
      /\ nLockCount' = [nLockCount EXCEPT ![b] = @ + 1]
      /\ pc'[t] = IF nLockCount[b] + 1 # 0 THEN "touch" ELSE "takeLockFailed"
  BY <1>0, <1>b DEF TakeLock, CallTypes, Goto, LockTaken
<1>3. /\ ~HasLock(t) /\ (HasLock(t)' <=> pc'[t] = "touch")
      /\ Using(t) = {} /\ Using(t)' = {b}
      /\ Claimed(t)' = Claimed(t) /\ toFree'[t] = toFree[t]
      /\ ~InLoop(t) /\ ~InLoop(t)' /\ poBlock'[t] = b
  BY <1>0, <1>b, <1>2 DEF HasLock, Internalizing, EvictLabels, CriticalLabels,
     Using, Claimed, Evicting, Flushing, InLoop, FlushLabels, scanVars, callVars
<1>4. ~Used(b)
  <2>1. ASSUME NEW u \in Threads, b \in Using(u) PROVE FALSE
    <3>1. (HasLock(u) \/ pc[u] = "takeLockFailed") /\ poBlock[u] = b
      BY <2>1 DEF Using
    <3>2. u = t
      BY <1>1, <3>1, UserIsOwner
    <3> QED BY <1>3, <2>1, <3>2
  <2> QED BY <2>1 DEF Used
<1>5. nLockCount[b] = IF Out(b) THEN -1 ELSE 0
  BY <1>0, <1>1, <1>4 DEF LocksExact
<1>6. \A c : (Frees(c)' <=> Frees(c)) /\ (Out(c)' <=> Out(c))
  <2>1. \A c : Frees(c)' <=> Frees(c)
    BY <1>2 DEF Frees, FreeBlocks, bandVars
  <2> QED BY <1>3, <2>1, SameRoles
<1>7. pc'[t] = "touch" <=> ~Out(b)
  BY <1>2, <1>5
<1>8. Local(t)
  BY <1>2 DEF Local, bandVars
<1>9. KeysOf(t)' /\ OldSetOf(t)'
  <2>1. ~Out(b) => bMustDetach[b]
    BY <1>0, <1>b DEF LocksExact, StoreInv
  <2> QED
    BY <1>0, <1>1, <1>2, <1>3, <1>7, <2>1 DEF KeysOf, OldSetOf, FlushLabels,
       bandVars, flushVars, callVars
<1>10. StoreInv' /\ Exclusive'
  BY <1>0, <1>2, <1>3, StoreStays, ExclusiveStays DEF cacheVars, bandVars
<1>11. LocksExact'
  <2>1. Used(b)'
    BY <1>3 DEF Used
  <2>2. nLockCount'[b] = nLockCount[b] + 1
    BY <1>0, <1>1, <1>2 DEF BlockTypes
  <2>3. nLockCount'[b] = (IF Used(b)' THEN 1 ELSE 0) - (IF Out(b)' THEN 1 ELSE 0)
    BY <1>5, <1>6, <2>1, <2>2
  <2>4. \A u \in Threads \ {t} : poBlock[u] = b =>
          ~HasLock(u) /\ pc[u] \notin {"takeLock", "takeLockFailed", "flushWait"}
    BY <1>1, UserIsOwner DEF FlushLabels
  <2>5. Out(poBlock[t])' <=> Out(b)
    BY <1>3, <1>6 DEF Out, Frees
  <2>6. \A c \in Blocks \ {b} : nLockCount'[c] = nLockCount[c]
    BY <1>0, <1>2 DEF BlockTypes
  <2>7. HasLock(t)' => (poBlock[t] \in ToSet(lru))'
    BY <1>0, <1>b, <1>2, <1>3, <1>7 DEF LocksExact, cacheVars
  <2> QED
    BY <1>2, <1>3, <1>6, <1>7, <2>3, <2>4, <2>5, <2>6, <2>7, LocksBut DEF cacheVars
<1> QED
  BY <1>8, <1>9, <1>10, <1>11, KeysMoves DEF Owned

(* DropLock(), and the user of a block that was claimed gives it up.       *)
LEMMA UnlockStep ==
    ASSUME OwnInv, NEW t \in Threads, Others(t),
           HasLock(t) \/ pc[t] = "takeLockFailed", pc[t] # "unreference",
           UNCHANGED <<pData, key, lru, slot, psListBlocksToFree, bMustDetach>>,
           nLockCount' = [nLockCount EXCEPT ![poBlock[t]] = @ - 1],
           Claimed(t)' = Claimed(t), toFree'[t] = toFree[t],
           oOldSet'[t] = oOldSet[t], ~InLoop(t), ~InLoop(t)', ~HasLock(t)',
           pc'[t] \notin {"takeLock", "takeLockFailed", "reacquire", "discard",
                          "discarded"} \cup FlushLabels
    PROVE  Owned'
<1>0. /\ BlockTypes /\ KeysOf(t) /\ OldSetOf(t) /\ StoreInv /\ LocksExact
  BY DEF OwnInv, Owned, ControlInv, Types
<1>b. PICK b : b = poBlock[t]
  OBVIOUS
<1>1. b \in Blocks /\ key[b] \in Keys /\ UserOf(b) = t
  BY <1>b, UserIsOwner
<1>2. Using(t) = {b} /\ Using(t)' = {}
  BY <1>b DEF Using
<1>3. Used(b) /\ ~Used(b)'
  <2>1. ASSUME NEW u \in Threads, u # t, b \in Using(u)' PROVE FALSE
    <3>1. b \in Using(u)
      BY <2>1, OthersRoles
    <3>2. (HasLock(u) \/ pc[u] = "takeLockFailed") /\ poBlock[u] = b
      BY <3>1 DEF Using
    <3> QED BY <1>1, <2>1, <3>2, UserIsOwner
  <2> QED BY <1>2, <2>1 DEF Used
<1>4. \A c : (Frees(c)' <=> Frees(c)) /\ (Out(c)' <=> Out(c))
  <2>1. \A c : Frees(c)' <=> Frees(c)
    BY DEF Frees, FreeBlocks
  <2> QED BY <2>1, SameRoles
<1>5. Local(t)
  BY DEF Local
<1>6. KeysOf(t)' /\ OldSetOf(t)'
  BY <1>0 DEF KeysOf, OldSetOf
<1>7. StoreInv' /\ Exclusive'
  BY StoreStays, ExclusiveStays
<1>8. LocksExact'
  <2>1. /\ nLockCount'[b] = nLockCount[b] - 1
        /\ \A c \in Blocks \ {b} : nLockCount'[c] = nLockCount[c]
    BY <1>0, <1>b, <1>1 DEF BlockTypes
  <2>2. nLockCount[b] = (IF Used(b) THEN 1 ELSE 0) - (IF Out(b) THEN 1 ELSE 0)
    BY <1>0, <1>1 DEF LocksExact
  <2>3. nLockCount'[b] = (IF Used(b)' THEN 1 ELSE 0) - (IF Out(b)' THEN 1 ELSE 0)
    BY <1>3, <1>4, <2>1, <2>2
  <2>4. \A u \in Threads \ {t} : poBlock[u] = b =>
          ~HasLock(u) /\ pc[u] \notin {"takeLock", "takeLockFailed", "flushWait"}
    BY <1>1, UserIsOwner DEF FlushLabels
  <2>5. pc'[t] \notin {"takeLockFailed", "flushWait", "takeLock"}
    BY DEF FlushLabels
  <2> QED
    BY <1>2, <1>4, <2>1, <2>3, <2>4, <2>5, LocksBut
<1> QED
  BY <1>5, <1>6, <1>7, <1>8, KeysMoves DEF Owned

(* The user that came too late gives its lock back.                        *)
LEMMA Owned_TakeLockFailed ==
    ASSUME OwnInv, NEW t \in Threads, Others(t), TakeLockFailed(t)
    PROVE  Owned'
<1>0. CallTypes
  BY DEF OwnInv, ControlInv, Types
<1> USE DEF TakeLockFailed, CallTypes, Goto, cacheVars, bandVars, scanVars,
            flushVars
<1>1. pc[t] = "takeLockFailed" /\ pc'[t] = "create"
  BY <1>0
<1>2. /\ Claimed(t)' = Claimed(t) /\ ~InLoop(t) /\ ~InLoop(t)' /\ ~HasLock(t)'
  BY <1>1 DEF Claimed, Evicting, Flushing, InLoop, FlushLabels, HasLock,
     Internalizing, EvictLabels, CriticalLabels
<1>3. pc'[t] \notin {"takeLock", "takeLockFailed", "reacquire", "discard",
                     "discarded"} \cup FlushLabels
  BY <1>1 DEF FlushLabels
<1> QED
  BY <1>1, <1>2, <1>3, UnlockStep

(* DropLock() at the end of the use of a block.                            *)
LEMMA Owned_DropLock ==
    ASSUME OwnInv, NEW t \in Threads, Others(t), NEW more \in BOOLEAN,
           DropLock(t, more)
    PROVE  Owned'
<1>0. CallTypes /\ CallOf(t)
  BY DEF OwnInv, ControlInv, Types
<1> USE DEF DropLock, CallTypes, Goto, Return, cacheVars, bandVars, scanVars,
            flushVars
<1>1. pc[t] \in {"locked", "drop"} /\ pc'[t] \in {"idle", "tryGet"}
  BY <1>0
<1>2. /\ Claimed(t)' = Claimed(t) /\ ~InLoop(t) /\ ~InLoop(t)' /\ ~HasLock(t)'
      /\ HasLock(t)
  BY <1>1 DEF Claimed, Evicting, Flushing, InLoop, FlushLabels, HasLock,
     Internalizing, EvictLabels, CriticalLabels
<1>3. pc'[t] \notin {"takeLock", "takeLockFailed", "reacquire", "discard",
                     "discarded"} \cup FlushLabels
  BY <1>1 DEF FlushLabels
<1> QED
  BY <1>1, <1>2, <1>3, UnlockStep

(* IReadBlock() of a new block, which is unlocked when the read fails.     *)
LEMMA Owned_ReadBlock ==
    ASSUME OwnInv, NEW t \in Threads, Others(t), NEW ok \in BOOLEAN,
           ReadBlock(t, ok)
    PROVE  Owned'
<1>0. CallTypes /\ CallOf(t) /\ BlockTypes
  BY DEF OwnInv, ControlInv, Types
<1> USE DEF ReadBlock, CallTypes, Goto, cacheVars, bandVars, scanVars,
            flushVars, callVars
<1>1. /\ pc[t] = "readRW" /\ HasLock(t) /\ ~InLoop(t) /\ ~InLoop(t)'
      /\ Claimed(t)' = Claimed(t)
  BY <1>0 DEF HasLock, InLoop, FlushLabels, Claimed, Evicting, Flushing
<1>2. CASE ok = TRUE
  <2>1. pc'[t] = "locked" /\ HasLock(t)' /\ poBlock'[t] = poBlock[t]
    BY <1>0, <1>2 DEF HasLock
  <2>2. UserOf(poBlock[t]) = t
    BY <1>1, UserIsOwner
  <2>3. \A b \in Blocks : key[b] \in Keys /\ UserOf(b) # t => pData'[b] = pData[b]
    BY <1>0, <1>2, <2>2 DEF BlockTypes
  <2>4. Using(t)' = Using(t)
    BY <1>1, <2>1 DEF Using
  <2>5. Quiet(t)
    BY <1>1, <1>2, <2>1, <2>3, <2>4 DEF Quiet, FlushLabels, NotYet,
       CriticalLabels, RoundEnd
  <2> QED BY <2>5, QuietStep
<1>3. CASE ok = FALSE
  <2>1. pc'[t] = "flushBlock"
    BY <1>0, <1>3
  <2>2. ~HasLock(t)' /\ pc'[t] \notin {"takeLock", "takeLockFailed",
           "reacquire", "discard", "discarded"} \cup FlushLabels
    BY <2>1 DEF HasLock, Internalizing, EvictLabels, CriticalLabels, FlushLabels
  <2> QED
    BY <1>1, <1>3, <2>2, UnlockStep
<1> QED
  BY <1>2, <1>3

(* Touch_unlocked() of a block that the thread has locked.                 *)
LEMMA TouchStep ==
    ASSUME OwnInv, NEW t \in Threads, Others(t),
           HasLock(t), HasLock(t)', pc[t] # "unreference",
           UNCHANGED <<pData, key, nLockCount, slot, psListBlocksToFree,
                       bMustDetach>>,
           ToSet(lru') = ToSet(lru) \cup {poBlock[t]},
           poBlock'[t] = poBlock[t], at'[t] = at[t],
           Claimed(t)' = Claimed(t), toFree'[t] = toFree[t],
           oOldSet'[t] = oOldSet[t], ~InLoop(t), ~InLoop(t)',
           pc'[t] \notin {"takeLock", "takeLockFailed", "reacquire", "discard",
                          "discarded"} \cup FlushLabels
    PROVE  Owned'
<1>0. /\ BlockTypes /\ KeysOf(t) /\ OldSetOf(t) /\ StoreInv /\ LocksExact
  BY DEF OwnInv, Owned, ControlInv, Types
<1>b. PICK b : b = poBlock[t]
  OBVIOUS
<1>1. b \in Blocks /\ key[b] \in Keys /\ bMustDetach[b] /\ ~Out(b)
  BY <1>0, <1>b, UserIsOwner DEF KeysOf, LocksExact
<1>2. Using(t) = {b} /\ Using(t)' = {b}
  BY <1>b DEF Using
<1>3. \A c : (Used(c)' <=> Used(c)) /\ (Out(c)' <=> Out(c)) /\ (Frees(c)' <=> Frees(c))
  <2>1. \A c : Frees(c)' <=> Frees(c)
    BY DEF Frees, FreeBlocks
  <2> QED BY <1>2, <2>1, SameRoles, SameUse
<1>4. Local(t)
  BY DEF Local
<1>5. KeysOf(t)' /\ OldSetOf(t)'
  BY <1>0 DEF KeysOf, OldSetOf
<1>6. StoreInv'
  <2>1. \A c \in ToSet(lru') : key'[c] \in Keys /\ bMustDetach'[c]
    BY <1>0, <1>b, <1>1 DEF StoreInv
  <2>2. \A u \in Threads : pc[u] = "unreference" =>
          pc'[u] = "unreference" /\ LastFreed(u)' = LastFreed(u)
    BY OthersRoles
  <2>3. ASSUME NEW k \in Keys, slot'[k] # Null
        PROVE  /\ key'[slot'[k]] = k
               /\ \/ slot'[k] \in ToSet(lru')
                  \/ \E u \in Threads :
                       pc'[u] = "unreference" /\ slot'[k] = LastFreed(u)'
    BY <1>0, <2>2, <2>3 DEF StoreInv
  <2>4. \A d \in Bands : \A c \in FreeBlocks(d)' :
          key'[c] \in Keys /\ BandOf(key'[c]) = d
    BY <1>0 DEF StoreInv, FreeBlocks
  <2> QED BY <2>1, <2>3, <2>4 DEF StoreInv
<1>7. Exclusive'
  BY <1>b, <1>1, ExclusiveStays
<1>8. LocksExact'
  <2>1. nLockCount'[b] = (IF Used(b)' THEN 1 ELSE 0) - (IF Out(b)' THEN 1 ELSE 0)
    BY <1>0, <1>1, <1>3 DEF LocksExact
  <2>2. ~Out(poBlock[t])'
    BY <1>b, <1>1, <1>3 DEF Out, Frees
  <2>3. \A u \in Threads \ {t} : poBlock[u] = b =>
          /\ HasLock(u) => ~Out(b)' /\ (b \in ToSet(lru) => b \in ToSet(lru'))
          /\ pc[u] \in {"takeLockFailed", "flushWait"} => Out(b)'
          /\ pc[u] = "takeLock" => b \in ToSet(lru') \/ Out(b)'
    BY <1>0, <1>b, <1>3 DEF LocksExact
  <2>4. pc'[t] \notin {"takeLockFailed", "flushWait", "takeLock"}
    BY DEF FlushLabels
  <2> QED
    BY <1>2, <1>3, <2>1, <2>2, <2>3, <2>4, LocksBut
<1> QED
  BY <1>4, <1>5, <1>6, <1>7, <1>8, KeysMoves DEF Owned

(* Touch() of a cached block.                                              *)
LEMMA Owned_TouchLocked ==
    ASSUME OwnInv, NEW t \in Threads, Others(t), TouchLocked(t)
    PROVE  Owned'
<1>0. CallTypes /\ CallOf(t) /\ CacheTypes
  BY DEF OwnInv, ControlInv, Types
<1> USE DEF TouchLocked, CallTypes, Goto, blockVars, bandVars, scanVars,
            flushVars, callVars
<1>1. /\ pc[t] = "touchLocked" /\ pc'[t] = "locked"
  BY <1>0
<1>2. /\ HasLock(t) /\ HasLock(t)' /\ ~InLoop(t) /\ ~InLoop(t)'
      /\ Claimed(t)' = Claimed(t)
  BY <1>1 DEF HasLock, InLoop, FlushLabels, Claimed, Evicting, Flushing
<1>3. poBlock[t] \in Blocks
  BY <1>2, UserIsOwner
<1>4. ToSet(lru') = ToSet(lru) \cup {poBlock[t]}
  BY <1>0, <1>3, TouchedProperties DEF LruTouch, CacheTypes
<1>5. pc'[t] \notin {"takeLock", "takeLockFailed", "reacquire", "discard",
                     "discarded"} \cup FlushLabels
  BY <1>1 DEF FlushLabels
<1> QED
  BY <1>1, <1>2, <1>4, <1>5, TouchStep

(* The end of the critical section of Internalize(), where the new block   *)
(* enters the list.                                                        *)
LEMMA Owned_Scanned ==
    ASSUME OwnInv, NEW t \in Threads, Others(t), Scanned(t)
    PROVE  Owned'
<1>0. CallTypes /\ CallOf(t) /\ CacheTypes
  BY DEF OwnInv, ControlInv, Types
<1> USE DEF Scanned, CallTypes, Goto, blockVars, bandVars, flushVars, callVars
<1>1. /\ pc[t] = "scanned" /\ pc'[t] = "free"
  BY <1>0
<1>2. /\ HasLock(t) <=> op[t] \in IoOps
      /\ HasLock(t)' <=> op[t] \in IoOps
      /\ ~InLoop(t) /\ ~InLoop(t)' /\ Claimed(t)' = Claimed(t)
  BY <1>1 DEF HasLock, Internalizing, EvictLabels, CriticalLabels, InLoop,
     FlushLabels, Claimed, Evicting, Flushing
<1>3. pc'[t] \notin {"takeLock", "takeLockFailed", "reacquire", "discard",
                     "discarded", "flushWait"} \cup FlushLabels
  BY <1>1 DEF FlushLabels
<1>4. CASE op[t] \in IoOps /\ ~bLoopAgain[t]
  <2>1. HasLock(t) /\ HasLock(t)' /\ poBlock[t] \in Blocks
    BY <1>2, <1>4, UserIsOwner
  <2>2. ToSet(lru') = ToSet(lru) \cup {poBlock[t]}
    BY <1>0, <1>4, <2>1, TouchedProperties DEF LruTouch, CacheTypes
  <2> QED
    BY <1>1, <1>2, <1>3, <2>1, <2>2, TouchStep
<1>5. CASE ~(op[t] \in IoOps /\ ~bLoopAgain[t])
  <2>1. Using(t)' = Using(t)
    BY <1>1, <1>2 DEF Using
  <2>2. HasLock(t) /\ NotYet(t) => NotYet(t)'
    BY <1>1, <1>2, <1>5 DEF NotYet, RoundEnd
  <2>3. Quiet(t)
    BY <1>1, <1>2, <1>3, <1>5, <2>1, <2>2 DEF Quiet
  <2> QED BY <2>3, QuietStep
<1> QED
  BY <1>4, <1>5

(* CreateBlock() recycles a block that nothing points to, or builds one.   *)
LEMMA Owned_CreateBlock ==
    ASSUME OwnInv, NEW t \in Threads, Others(t), NEW b \in Blocks,
           CreateBlock(t, b)
    PROVE  Owned'
<1>0. /\ CallTypes /\ CallOf(t) /\ BlockTypes /\ BandTypes /\ KeysOf(t)
      /\ OldSetOf(t) /\ StoreInv /\ Exclusive /\ LocksExact
  BY DEF OwnInv, Owned, ControlInv, Types
<1>k. /\ pc[t] = "create" /\ at[t] \in Keys /\ BandOf(at[t]) \in Bands
      /\ Owner[DatasetOfKey(at[t])] = t /\ op[t] \in IoOps
  BY <1>0, AtIsKey DEF CreateBlock, OwnerLabels, IoLabels, CallOf, OpOf
<1>d. PICK d : d = BandOf(at[t])
  OBVIOUS
<1>1. /\ key' = [key EXCEPT ![b] = at[t]]
      /\ nLockCount' = [nLockCount EXCEPT ![b] = 1]
      /\ pData' = [pData EXCEPT ![b] = NoData]
      /\ bMustDetach' = [bMustDetach EXCEPT ![b] = TRUE]
      /\ poBlock'[t] = b /\ pc'[t] = "internalize"
      /\ UNCHANGED <<lru, slot, op, at, toFree, flushVars>>
  BY <1>0 DEF CreateBlock, CallTypes, Goto, cacheVars
<1>2. /\ ~HasLock(t) /\ HasLock(t)' /\ Using(t) = {} /\ Using(t)' = {b}
      /\ Claimed(t)' = Claimed(t) /\ ~InLoop(t) /\ ~InLoop(t)'
  BY <1>k, <1>1 DEF HasLock, Internalizing, EvictLabels, CriticalLabels, Using,
     Claimed, Evicting, Flushing, InLoop, FlushLabels
<1>3. /\ \A c : c # b => (Frees(c)' <=> Frees(c))
      /\ ~Frees(b)'
      /\ \A e \in Bands : FreeBlocks(e)' \subseteq FreeBlocks(e)
      /\ \A e \in Bands : NoDuplicates(psListBlocksToFree'[e])
      /\ \/ key[b] = NoKey
         \/ key[b] \in Keys /\ UserOf(b) = t /\ b \in FreeBlocks(d)
  <2>1. CASE psListBlocksToFree[d] # <<>>
    <3>s. PICK s : s = psListBlocksToFree[d]
      OBVIOUS
    <3>1. s \in Seq(Blocks) /\ s # <<>> /\ NoDuplicates(s) /\ d \in Bands
      BY <1>0, <1>k, <1>d, <2>1, <3>s DEF BandTypes, Exclusive
    <3>2. /\ b = Head(s) /\ psListBlocksToFree' = [psListBlocksToFree EXCEPT ![d] = Tail(s)]
      BY <1>d, <2>1, <3>s DEF CreateBlock
    <3>3. /\ b \in ToSet(s) /\ NoDuplicates(Tail(s))
          /\ ToSet(Tail(s)) = ToSet(s) \ {b}
      BY <3>1, <3>2, TailProperties
    <3>4. /\ FreeBlocks(d) = ToSet(s) /\ FreeBlocks(d)' = ToSet(s) \ {b}
          /\ \A e \in Bands \ {d} : FreeBlocks(e)' = FreeBlocks(e)
          /\ \A e \in Bands : NoDuplicates(psListBlocksToFree'[e])
      BY <1>0, <3>s, <3>1, <3>2, <3>3 DEF FreeBlocks, BandTypes, Exclusive
    <3>5. key[b] \in Keys /\ BandOf(key[b]) = d
      BY <1>0, <3>1, <3>3, <3>4 DEF StoreInv
    <3>6. UserOf(b) = t
      BY <1>k, <1>d, <3>5 DEF UserOf, DatasetOfKey, BandOf
    <3>7. \A e \in Bands \ {d} : b \notin FreeBlocks(e)
      BY <1>0, <3>5 DEF StoreInv
    <3> QED
      BY <3>1, <3>3, <3>4, <3>5, <3>6, <3>7 DEF Frees
  <2>2. CASE psListBlocksToFree[d] = <<>>
    <3>1. key[b] = NoKey /\ UNCHANGED psListBlocksToFree
      BY <1>d, <2>2 DEF CreateBlock
    <3>2. \A e \in Bands : FreeBlocks(e)' = FreeBlocks(e)
      BY <3>1 DEF FreeBlocks
    <3>3. ~Frees(b)
      BY <1>0, <3>1, NoKeyIsNoKey DEF StoreInv, Frees
    <3> QED
      BY <1>0, <3>1, <3>2, <3>3 DEF Frees, Exclusive
  <2> QED BY <2>1, <2>2
<1>4. /\ b \notin ToSet(lru)
      /\ \A u \in Threads : b \notin Claimed(u)
      /\ \A k \in Keys : slot[k] # b
  <2>1. b \notin ToSet(lru)
    BY <1>0, <1>k, <1>d, <1>3, NoKeyIsNoKey DEF StoreInv, Exclusive
  <2>2. \A u \in Threads : b \notin Claimed(u)
    BY <1>0, <1>k, <1>d, <1>3, NoKeyIsNoKey, ClaimedAreBlocks DEF Exclusive
  <2>3. \A u \in Threads : pc[u] = "unreference" => LastFreed(u) \in Claimed(u)
    BY TargetIsBlock, ClaimedAreBlocks DEF OwnInv, ControlInv, ScanOf
  <2> QED
    BY <1>0, <2>1, <2>2, <2>3, NamesAssumption DEF StoreInv
<1>5. /\ key'[b] = at[t] /\ nLockCount'[b] = 1 /\ bMustDetach'[b] = TRUE
      /\ \A c \in Blocks \ {b} :
           /\ key'[c] = key[c] /\ nLockCount'[c] = nLockCount[c]
           /\ bMustDetach'[c] = bMustDetach[c] /\ pData'[c] = pData[c]
  BY <1>0, <1>1 DEF BlockTypes
<1>6. Local(t)
  <2>1. \A c \in Blocks : key[c] \in Keys /\ UserOf(c) # t => c # b
    BY <1>3, NoKeyIsNoKey
  <2>2. \A u \in Threads : \A c \in Claimed(u) : c \in Blocks \ {b}
    BY <1>4, ClaimedAreBlocks
  <2> QED
    BY <1>1, <1>5, <2>1, <2>2 DEF Local
<1>7. KeysOf(t)'
  <2>1. \A c \in Claimed(t)' : key'[c] \in Keys
    BY <1>2, <1>4, <1>5, ClaimedAreBlocks
  <2> QED
    BY <1>1, <1>5, <2>1 DEF KeysOf, FlushLabels
<1>8. OldSetOf(t)'
  BY <1>0, <1>1, <1>2 DEF OldSetOf, flushVars
<1>9. StoreInv'
  <2>1. \A c \in ToSet(lru') : key'[c] \in Keys /\ bMustDetach'[c]
    BY <1>0, <1>1, <1>4, <1>5, ClaimedAreBlocks DEF StoreInv
  <2>2. \A u \in Threads : pc[u] = "unreference" =>
          pc'[u] = "unreference" /\ LastFreed(u)' = LastFreed(u)
    BY <1>k, OthersRoles
  <2>3. ASSUME NEW k \in Keys, slot'[k] # Null
        PROVE  /\ key'[slot'[k]] = k
               /\ \/ slot'[k] \in ToSet(lru')
                  \/ \E u \in Threads :
                       pc'[u] = "unreference" /\ slot'[k] = LastFreed(u)'
    <3>1. slot[k] \in Blocks \ {b}
      BY <1>0, <1>1, <1>4, <2>3 DEF BandTypes, BlockOrNull
    <3> QED BY <1>0, <1>1, <1>5, <2>2, <2>3, <3>1 DEF StoreInv
  <2>4. ASSUME NEW e \in Bands, NEW c \in FreeBlocks(e)'
        PROVE  key'[c] \in Keys /\ BandOf(key'[c]) = e
    <3>1. c \in FreeBlocks(e) /\ c # b /\ c \in Blocks
      BY <1>3, ClaimedAreBlocks DEF Frees
    <3> QED BY <1>0, <1>5, <3>1 DEF StoreInv
  <2> QED BY <2>1, <2>3, <2>4 DEF StoreInv
<1>10. Exclusive'
  <2>1. \A u \in Threads : Claimed(u)' = Claimed(u) /\ toFree'[u] = toFree[u]
    BY <1>1, <1>2, OthersRoles
  <2> QED BY <1>0, <1>1, <1>3, <2>1 DEF Exclusive
<1>11. LocksExact'
  <2>1. ~Out(b)' /\ Used(b)'
    <3>1. \A u \in Threads : b \notin Claimed(u)'
      BY <1>2, <1>4, OthersRoles
    <3> QED BY <1>2, <1>3, <3>1 DEF Out, Used
  <2>2. \A u \in Threads \ {t} : poBlock[u] = b =>
          ~HasLock(u) /\ pc[u] \notin {"takeLock", "takeLockFailed", "flushWait"}
    BY <1>3, UserIsOwner, NoKeyIsNoKey DEF FlushLabels
  <2>3. ~Out(poBlock[t])'
    BY <1>1, <2>1 DEF Out, Frees
  <2>4. NotYet(t)'
    BY <1>k, <1>1 DEF NotYet
  <2> QED
    BY <1>1, <1>2, <1>3, <1>5, <2>1, <2>2, <2>3, <2>4, LocksBut
<1> QED
  BY <1>6, <1>7, <1>8, <1>9, <1>10, <1>11, KeysMoves DEF Owned

(* At most one thread is at a step of the critical section.                *)
LEMMA OneCritical ==
    ASSUME OwnInv, NEW t \in Threads, NEW u \in Threads,
           pc[t] \in CriticalLabels, pc[u] \in CriticalLabels
    PROVE  t = u
BY DEF OwnInv, ControlInv, MutexInv, CriticalSection

(* A block that nobody uses is claimed by thread t.                        *)
LEMMA ClaimedStep ==
    ASSUME OwnInv, NEW t \in Threads, Others(t), NEW b \in Blocks,
           key[b] \in Keys, ~Out(b), ~Used(b), pc[t] # "unreference",
           nLockCount' = [nLockCount EXCEPT ![b] = -1],
           UNCHANGED <<pData, key, bMustDetach, lru, slot, psListBlocksToFree>>,
           Claimed(t)' = Claimed(t) \cup {b}, toFree'[t] = toFree[t],
           Using(t)' = Using(t),
           HasLock(t)' => HasLock(t) /\ NotYet(t)' /\ poBlock'[t] = poBlock[t],
           pc'[t] \notin {"takeLock", "takeLockFailed", "flushWait"},
           KeysOf(t)', OldSetOf(t)'
    PROVE  Owned'
<1>0. BlockTypes /\ Exclusive /\ LocksExact
  BY DEF OwnInv, Owned, ControlInv, Types
<1>1. \A c : Frees(c)' <=> Frees(c)
  BY DEF Frees, FreeBlocks
<1>2. Local(t)
  BY DEF Local
<1>3. StoreInv'
  BY StoreStays
<1>4. Exclusive'
  <2>1. /\ \A u \in Threads \ {t} : Claimed(u)' = Claimed(u)
        /\ \A u \in Threads : toFree'[u] = toFree[u]
        /\ \A d : FreeBlocks(d)' = FreeBlocks(d)
    BY OthersRoles DEF FreeBlocks
  <2>2. \A v, u \in Threads : v # u => (Claimed(v) \cap Claimed(u))' = {}
    <3>1. \A u \in Threads : b \notin Claimed(u)
      BY DEF Out
    <3>2. \A v, u \in Threads : v # u => Claimed(v) \cap Claimed(u) = {}
      BY <1>0 DEF Exclusive
    <3> QED BY <2>1, <3>1, <3>2
  <2>3. \A u \in Threads, d \in Bands : (Claimed(u) \cap FreeBlocks(d))' = {}
    <3>1. \A d \in Bands : b \notin FreeBlocks(d)
      BY DEF Out, Frees
    <3>2. \A u \in Threads, d \in Bands : Claimed(u) \cap FreeBlocks(d) = {}
      BY <1>0 DEF Exclusive
    <3> QED BY <2>1, <3>1, <3>2
  <2> QED BY <1>0, <2>1, <2>2, <2>3 DEF Exclusive
<1>5. LocksExact'
  <2>1. Out(b)'
    BY DEF Out
  <2>2. ~Used(b)'
    BY SameUse
  <2>3. nLockCount'[b] = -1 /\ \A c \in Blocks \ {b} : nLockCount'[c] = nLockCount[c]
    BY <1>0 DEF BlockTypes
  <2>4. HasLock(t)' => ~Out(poBlock[t])'
    <3>1. SUFFICES ASSUME HasLock(t)' PROVE ~Out(poBlock[t])'
      OBVIOUS
    <3>c. PICK c : c = poBlock[t]
      OBVIOUS
    <3>2. c # b
      BY <3>1, <3>c DEF Used, Using
    <3>3. ~Out(c)
      BY <1>0, <3>1, <3>c DEF LocksExact
    <3>4. ~Out(c)'
      BY <1>1, <3>2, <3>3, SameRoles
    <3> QED BY <3>c, <3>1, <3>4 DEF Out, Frees
  <2>5. \A u \in Threads \ {t} : poBlock[u] = b => ~HasLock(u)
    BY DEF Used, Using
  <2> QED
    BY <1>1, <2>1, <2>2, <2>3, <2>4, <2>5, LocksBut
<1> QED
  BY <1>2, <1>3, <1>4, <1>5, KeysMoves DEF Owned

(* The atomic exchange of nLockCount by an evictor.                        *)
LEMMA ClaimStep ==
    ASSUME OwnInv, NEW t \in Threads, Others(t), NEW b, NEW next, NEW retry,
           pc[t] \in {"exchange", "exchangeOther", "fallback", "flushExchange"},
           b \in ToSet(lru), Claim(t, b, next, retry),
           retry \in {"scan", "fallback", "flushScan"},
           retry = "flushScan" <=> pc[t] = "flushExchange"
    PROVE  Owned'
<1>0. /\ CallTypes /\ CallOf(t) /\ BlockTypes /\ ScanTypes /\ KeysOf(t)
      /\ OldSetOf(t) /\ StoreInv /\ Exclusive /\ LocksExact
  BY DEF OwnInv, Owned, ControlInv, Types
<1> USE DEF Claim, CallTypes, ScanTypes, Goto, blockVars, bandVars, cacheVars,
            flushVars, callVars
<1>1. /\ HasLock(t)' <=> HasLock(t)
      /\ ~InLoop(t) /\ ~InLoop(t)' /\ pc'[t] \in {"detach", retry}
      /\ UNCHANGED <<op, at, poBlock>> /\ Using(t)' = Using(t)
      /\ HasLock(t)' => NotYet(t)'
  <2>1. pc'[t] \in {"detach", retry} /\ UNCHANGED <<op, at, poBlock>>
    BY <1>0
  <2>2. pc[t] \in CriticalLabels /\ pc'[t] \in CriticalLabels
    BY <2>1 DEF CriticalLabels
  <2>3. HasLock(t)' <=> HasLock(t)
    BY <2>1, <2>2 DEF HasLock, Internalizing, EvictLabels, CriticalLabels
  <2>4. HasLock(t)' => NotYet(t)'
    BY <2>2 DEF HasLock, Internalizing, NotYet, CriticalLabels
  <2> QED
    BY <2>1, <2>2, <2>3, <2>4 DEF InLoop, Using, FlushLabels, CriticalLabels
<1>2. CASE ~Claimable(b)
  <2>1. pc'[t] = retry
    BY <1>0, <1>2
  <2>2. Claimed(t)' = Claimed(t)
    BY <2>1, <1>2 DEF Claimed, Evicting, Flushing
  <2>3. Quiet(t)
    BY <1>1, <1>2, <2>1, <2>2 DEF Quiet, FlushLabels
  <2> QED BY <2>3, QuietStep
<1>3. CASE Claimable(b)
  <2>0. b \in Blocks /\ key[b] \in Keys
    BY <1>0, ClaimedAreBlocks DEF StoreInv
  <2>1. /\ nLockCount' = [nLockCount EXCEPT ![b] = -1] /\ nLockCount[b] = 0
        /\ pc'[t] = "detach" /\ poTarget'[t] = b
        /\ UNCHANGED <<pData, key, bMustDetach, lru, bandVars, toFree, flushVars>>
    BY <1>0, <1>3 DEF Claimable
  <2>2. Claimed(t)' = Claimed(t) \cup {b}
    BY <2>1 DEF Claimed, Evicting, Flushing
  <2>3. \A u \in Threads : b \notin Claimed(u)
    <3> SUFFICES ASSUME NEW u \in Threads, b \in Claimed(u) PROVE FALSE
      OBVIOUS
    <3>1. b \notin ToSet(toFree[u])
      BY <1>0 DEF Exclusive
    <3>2. pc[u] # "detach"
      BY OneCritical DEF CriticalLabels
    <3>3. pc[u] \in FlushLabels /\ poBlock[u] = b
      BY <3>1, <3>2 DEF Claimed, Evicting, Flushing, FlushLabels
    <3>4. UserOf(b) = u
      BY <3>3, UserIsOwner
    <3>5. Out(b)
      BY DEF Out
    <3>6. Used(b)
      BY <1>0, <2>0, <2>1, <3>5 DEF LocksExact
    <3>7. PICK v \in Threads : b \in Using(v)
      BY <3>6 DEF Used
    <3>8. (HasLock(v) \/ pc[v] = "takeLockFailed") /\ poBlock[v] = b
      BY <3>7 DEF Using
    <3>9. v = u
      BY <3>4, <3>8, UserIsOwner
    <3> QED
      BY <3>3, <3>8, <3>9 DEF HasLock, Internalizing, EvictLabels,
         CriticalLabels, FlushLabels
  <2>4. ~Frees(b)
    BY <1>0 DEF Exclusive, Frees
  <2>5. ~Out(b) /\ ~Used(b)
    <3>1. ~Out(b)
      BY <2>3, <2>4 DEF Out
    <3> QED BY <1>0, <2>0, <2>1, <3>1 DEF LocksExact
  <2>6. KeysOf(t)' /\ OldSetOf(t)'
    BY <1>0, <1>1, <2>0, <2>1, <2>2 DEF KeysOf, OldSetOf, FlushLabels
  <2>7. HasLock(t)' => HasLock(t) /\ NotYet(t)' /\ poBlock'[t] = poBlock[t]
    BY <1>1
  <2>8. pc'[t] \notin {"takeLock", "takeLockFailed", "flushWait"}
    BY <2>1
  <2>9. UNCHANGED <<pData, key, bMustDetach, lru, slot, psListBlocksToFree, toFree>>
    BY <2>1
  <2> HIDE DEF Claim, CallTypes, ScanTypes, Goto, blockVars, bandVars,
               cacheVars, flushVars, callVars
  <2>10. Using(t)' = Using(t) /\ toFree'[t] = toFree[t] /\ pc[t] # "unreference"
    BY <1>1, <2>9
  <2>11. nLockCount' = [nLockCount EXCEPT ![b] = -1]
    BY <2>1
  <2> QED
    BY <2>0, <2>2, <2>5, <2>6, <2>7, <2>8, <2>9, <2>10, <2>11, ClaimedStep
<1> QED BY <1>2, <1>3

(* The three atomic exchanges of Internalize() and that of                 *)
(* FlushCacheBlock().                                                      *)
LEMMA Owned_Claim ==
    ASSUME OwnInv, NEW t \in Threads, Others(t),
           Exchange(t) \/ ExchangeOther(t) \/ Fallback(t) \/ FlushExchange(t)
    PROVE  Owned'
<1>0. ScanOf(t)
  BY DEF OwnInv, ControlInv
<1>1. CASE Exchange(t)
  BY <1>0, <1>1, ClaimStep DEF Exchange, ScanOf
<1>2. CASE ExchangeOther(t)
  BY <1>0, <1>2, ClaimStep DEF ExchangeOther, ScanOf
<1>3. CASE Fallback(t)
  BY <1>0, <1>3, ClaimStep DEF Fallback, ScanOf
<1>4. CASE FlushExchange(t)
  BY <1>0, <1>4, ClaimStep DEF FlushExchange, ScanOf
<1> QED BY <1>1, <1>2, <1>3, <1>4

(* Detach_unlocked() of a claimed block.                                   *)
LEMMA Owned_Detach ==
    ASSUME OwnInv, NEW t \in Threads, Others(t), Detach(t)
    PROVE  Owned'
<1>0. /\ CallTypes /\ CallOf(t) /\ BlockTypes /\ ScanTypes /\ CacheTypes
      /\ KeysOf(t) /\ OldSetOf(t) /\ StoreInv /\ Exclusive /\ LocksExact
      /\ ScanOf(t)
  BY DEF OwnInv, Owned, ControlInv, Types
<1>b. PICK b : b = poTarget[t]
  OBVIOUS
<1>1. /\ pc[t] = "detach" /\ pc'[t] = "unreference"
      /\ lru' = Detached(lru, b)
      /\ bMustDetach' = [bMustDetach EXCEPT ![b] = FALSE]
      /\ toFree'[t] = Append(toFree[t], b)
      /\ UNCHANGED <<pData, key, nLockCount, slot, psListBlocksToFree, callVars,
                     flushVars>>
  BY <1>0, <1>b DEF Detach, DetachUnlocked, CallTypes, ScanTypes, Goto
<1>2. b \in ToSet(lru) /\ b \in Blocks /\ b \in Claimed(t) /\ Out(b)
  <2>1. b \in ToSet(lru)
    BY <1>0, <1>b, <1>1 DEF ScanOf
  <2>2. b \in Claimed(t)
    BY <1>b, <1>1 DEF Claimed, Evicting
  <2> QED BY <2>1, <2>2, ClaimedAreBlocks DEF Out
<1>3. /\ ToSet(lru') = ToSet(lru) \ {b} /\ toFree[t] \in Seq(Blocks)
      /\ ToSet(toFree'[t]) = ToSet(toFree[t]) \cup {b}
      /\ LastFreed(t)' = b
      /\ NoDuplicates(toFree'[t])
  <2>1. toFree[t] \in Seq(Blocks) /\ NoDuplicates(toFree[t])
    BY <1>0 DEF ScanTypes, Exclusive
  <2>2. b \notin ToSet(toFree[t])
    BY <1>0, <1>2 DEF Exclusive
  <2>3. ToSet(lru') = ToSet(lru) \ {b}
    BY <1>0, <1>1, DetachedProperties DEF CacheTypes
  <2>4. /\ ToSet(Append(toFree[t], b)) = ToSet(toFree[t]) \cup {b}
        /\ NoDuplicates(Append(toFree[t], b))
        /\ Append(toFree[t], b)[Len(Append(toFree[t], b))] = b
    BY <1>2, <2>1, <2>2, AppendedProperties
  <2> QED BY <1>1, <2>1, <2>3, <2>4 DEF LastFreed
<1>4. /\ HasLock(t)' <=> HasLock(t)
      /\ Using(t)' = Using(t) /\ ~InLoop(t) /\ ~InLoop(t)'
      /\ Claimed(t)' = Claimed(t)
      /\ HasLock(t)' => NotYet(t)'
  <2>1. /\ HasLock(t)' <=> HasLock(t)
        /\ HasLock(t)' => NotYet(t)'
    BY <1>1 DEF HasLock, Internalizing, EvictLabels, CriticalLabels, callVars, NotYet
  <2>2. /\ Claimed(t) = ToSet(toFree[t]) \cup {b} /\ Claimed(t)' = ToSet(toFree'[t])
    BY <1>b, <1>1 DEF Claimed, Evicting, Flushing
  <2> QED BY <1>1, <1>3, <2>1, <2>2 DEF Using, InLoop, FlushLabels, callVars
<1>5. \A c : (Out(c)' <=> Out(c)) /\ (Used(c)' <=> Used(c)) /\ (Frees(c)' <=> Frees(c))
  <2>1. \A c : Frees(c)' <=> Frees(c)
    BY <1>1 DEF Frees, FreeBlocks
  <2> QED BY <1>4, <2>1, SameRoles, SameUse
<1>6. HasLock(t) => poBlock[t] # b /\ poBlock[t] \in Blocks
  BY <1>0, <1>2, UserIsOwner DEF LocksExact
<1>7. Local(t)
  BY <1>0, <1>1, <1>2 DEF Local, BlockTypes
<1>8. KeysOf(t)' /\ OldSetOf(t)'
  <2>1. HasLock(t)' => bMustDetach'[poBlock'[t]]
    BY <1>0, <1>1, <1>4, <1>6 DEF KeysOf, BlockTypes, callVars
  <2> QED
    BY <1>0, <1>1, <1>4, <2>1 DEF KeysOf, OldSetOf, FlushLabels, callVars, flushVars
<1>9. StoreInv'
  <2>1. \A c \in ToSet(lru') : key'[c] \in Keys /\ bMustDetach'[c]
    BY <1>0, <1>1, <1>3, ClaimedAreBlocks DEF StoreInv, BlockTypes
  <2>2. \A u \in Threads : pc[u] = "unreference" =>
          pc'[u] = "unreference" /\ LastFreed(u)' = LastFreed(u)
    BY <1>1, OthersRoles
  <2>3. ASSUME NEW k \in Keys, slot'[k] # Null
        PROVE  /\ key'[slot'[k]] = k
               /\ \/ slot'[k] \in ToSet(lru')
                  \/ \E u \in Threads :
                       pc'[u] = "unreference" /\ slot'[k] = LastFreed(u)'
    <3>1. CASE slot[k] = b
      BY <1>0, <1>1, <1>3, <2>3, <3>1 DEF StoreInv
    <3>2. CASE slot[k] # b
      BY <1>0, <1>1, <1>3, <2>2, <2>3, <3>2 DEF StoreInv
    <3> QED BY <3>1, <3>2
  <2>4. \A d \in Bands : \A c \in FreeBlocks(d)' :
          key'[c] \in Keys /\ BandOf(key'[c]) = d
    BY <1>0, <1>1 DEF StoreInv, FreeBlocks
  <2> QED BY <2>1, <2>3, <2>4 DEF StoreInv
<1>10. Exclusive'
  <2>1. /\ \A u \in Threads \ {t} : toFree'[u] = toFree[u]
        /\ \A u \in Threads : Claimed(u)' = Claimed(u)
        /\ \A d : FreeBlocks(d)' = FreeBlocks(d)
    BY <1>1, <1>4, OthersRoles DEF FreeBlocks
  <2>2. \A u \in Threads : (ToSet(toFree[u]) \cap ToSet(lru))' = {}
    BY <1>0, <1>3, <2>1 DEF Exclusive
  <2>3. \A u \in Threads : NoDuplicates(toFree'[u])
    BY <1>0, <1>3, <2>1 DEF Exclusive
  <2> QED BY <1>0, <1>1, <1>3, <2>1, <2>2, <2>3 DEF Exclusive
<1>11. LocksExact'
  <2>1. key'[b] \in Keys => nLockCount'[b] = (IF Used(b)' THEN 1 ELSE 0) - (IF Out(b)' THEN 1 ELSE 0)
    BY <1>0, <1>1, <1>2, <1>5 DEF LocksExact
  <2>2. HasLock(t)' => ~Out(poBlock[t])'
    BY <1>0, <1>1, <1>4, <1>5 DEF LocksExact, Out, Frees, callVars
  <2>3. \A u \in Threads \ {t} : poBlock[u] = b => ~HasLock(u)
    BY <1>0, <1>2 DEF LocksExact
  <2> QED
    BY <1>1, <1>2, <1>3, <1>4, <1>5, <2>1, <2>2, <2>3, LocksBut
<1> QED
  BY <1>7, <1>8, <1>9, <1>10, <1>11, KeysMoves DEF Owned

(* UnreferenceBlock() empties the slot of the block it was called for.     *)
LEMMA Owned_UnreferenceBlock ==
    ASSUME OwnInv, NEW t \in Threads, Others(t), UnreferenceBlock(t)
    PROVE  Owned'
<1>0. /\ CallTypes /\ CallOf(t) /\ BandTypes /\ ScanTypes /\ KeysOf(t)
      /\ OldSetOf(t) /\ StoreInv /\ ScanOf(t) /\ LocksExact
  BY DEF OwnInv, Owned, ControlInv, Types
<1>b. PICK b : b = LastFreed(t)
  OBVIOUS
<1>1. /\ pc[t] = "unreference" /\ pc'[t] \in {"scan", "scanned"}
      /\ slot' = [slot EXCEPT ![key[b]] = Null]
      /\ UNCHANGED <<blockVars, lru, psListBlocksToFree, toFree, callVars, flushVars>>
  BY <1>0, <1>b DEF UnreferenceBlock, Unreferenced, LastFreed, CallTypes, Goto,
     cacheVars
<1>2. \A k \in Keys : slot'[k] = IF k = key[b] THEN Null ELSE slot[k]
  BY <1>0, <1>1 DEF BandTypes
<1>3. /\ HasLock(t)' <=> HasLock(t)
      /\ Using(t)' = Using(t) /\ ~InLoop(t) /\ ~InLoop(t)'
      /\ Claimed(t)' = Claimed(t)
      /\ HasLock(t)' => NotYet(t)'
  <2>1. (HasLock(t)' <=> HasLock(t)) /\ (HasLock(t)' => NotYet(t)')
    BY <1>1 DEF HasLock, Internalizing, EvictLabels, CriticalLabels, callVars, NotYet
  <2> QED BY <1>1, <2>1 DEF Using, InLoop, FlushLabels, callVars, Claimed,
             Evicting, Flushing
<1>4. Local(t)
  BY <1>1, <1>2 DEF Local, blockVars
<1>5. KeysOf(t)' /\ OldSetOf(t)'
  BY <1>0, <1>1, <1>3 DEF KeysOf, OldSetOf, FlushLabels, blockVars, callVars,
     flushVars
<1>6. StoreInv'
  <2>1. \A u \in Threads \ {t} : pc[u] = "unreference" =>
          pc'[u] = "unreference" /\ LastFreed(u)' = LastFreed(u)
    BY OthersRoles
  <2>2. ASSUME NEW k \in Keys, slot'[k] # Null
        PROVE  /\ key'[slot'[k]] = k
               /\ \/ slot'[k] \in ToSet(lru')
                  \/ \E u \in Threads :
                       pc'[u] = "unreference" /\ slot'[k] = LastFreed(u)'
    <3>1. slot'[k] = slot[k] /\ k # key[b]
      BY <1>2, <2>2
    <3>2. slot[k] # b
      BY <1>0, <2>2, <3>1 DEF StoreInv
    <3> QED BY <1>0, <1>b, <1>1, <2>1, <2>2, <3>1, <3>2 DEF StoreInv, blockVars
  <2>3. /\ \A c \in ToSet(lru') : key'[c] \in Keys /\ bMustDetach'[c]
        /\ \A d \in Bands : \A c \in FreeBlocks(d)' :
             key'[c] \in Keys /\ BandOf(key'[c]) = d
    BY <1>0, <1>1 DEF StoreInv, FreeBlocks, blockVars
  <2> QED BY <2>2, <2>3 DEF StoreInv
<1>7. Exclusive'
  BY <1>1, <1>3, ExclusiveStays
<1>8. LocksExact'
  <2>1. \A c : Out(c)' <=> Out(c)
    BY <1>1, <1>3, SameRoles DEF Frees, FreeBlocks
  <2>2. HasLock(t)' => ~Out(poBlock[t])'
    BY <1>0, <1>1, <1>3, <2>1 DEF LocksExact, Out, Frees, callVars
  <2> QED
    BY <1>1, <1>3, <2>2, LocksStay DEF blockVars
<1> QED
  BY <1>4, <1>5, <1>6, <1>7, <1>8, KeysMoves DEF Owned

(* AddBlockToFreeList(): the evictor gives the block to the free list of   *)
(* its band.                                                               *)
LEMMA Owned_Release ==
    ASSUME OwnInv, NEW t \in Threads, Others(t), Release(t)
    PROVE  Owned'
<1>0. /\ CallTypes /\ CallOf(t) /\ BandTypes /\ ScanTypes /\ BlockTypes
      /\ KeysOf(t) /\ OldSetOf(t) /\ StoreInv /\ Exclusive /\ LocksExact
  BY DEF OwnInv, Owned, ControlInv, Types
<1>b. PICK b : b = Target(t)
  OBVIOUS
<1>d. PICK d : d = BandOf(key[b])
  OBVIOUS
<1>1. /\ pc[t] = "release" /\ pc'[t] = "keepAlive"
      /\ pData' = [pData EXCEPT ![b] = NoData]
      /\ psListBlocksToFree' =
           [psListBlocksToFree EXCEPT ![d] = <<b>> \o psListBlocksToFree[d]]
      /\ toFree'[t] = Tail(toFree[t])
      /\ UNCHANGED <<nLockCount, key, bMustDetach, lru, slot, callVars, flushVars,
                     bLoopAgain>>
  BY <1>0, <1>b, <1>d DEF Release, CallTypes, ScanTypes, Goto, cacheVars
<1>2. /\ b \in Blocks /\ b \in Claimed(t) /\ key[b] \in Keys /\ d \in Bands
      /\ toFree[t] \in Seq(Blocks)
      /\ ToSet(toFree'[t]) = ToSet(toFree[t]) \ {b} /\ b \in ToSet(toFree[t])
      /\ NoDuplicates(toFree'[t])
  <2>1. toFree[t] # <<>> /\ toFree[t] \in Seq(Blocks) /\ NoDuplicates(toFree[t])
    BY <1>0, <1>1 DEF OwnInv, ControlInv, RoundInv, RoundOf, Releasing,
       ScanTypes, Exclusive
  <2>2. /\ b \in ToSet(toFree[t]) /\ ToSet(Tail(toFree[t])) = ToSet(toFree[t]) \ {b}
        /\ NoDuplicates(Tail(toFree[t]))
    BY <1>b, <2>1, TailProperties DEF Target
  <2>3. b \in Claimed(t) /\ b \in Blocks /\ key[b] \in Keys
    BY <2>2, ClaimedAreBlocks
  <2> QED BY <1>d, <1>1, <2>1, <2>2, <2>3, KeyParts
<1>3. /\ HasLock(t)' <=> HasLock(t)
      /\ Using(t)' = Using(t) /\ ~InLoop(t) /\ ~InLoop(t)'
      /\ Claimed(t)' = Claimed(t) \ {b}
      /\ NotYet(t)' <=> NotYet(t)
  <2>1. (HasLock(t)' <=> HasLock(t)) /\ (NotYet(t)' <=> NotYet(t))
    BY <1>1 DEF HasLock, Internalizing, EvictLabels, CriticalLabels, callVars,
       NotYet, RoundEnd
  <2> QED BY <1>1, <1>2, <2>1 DEF Using, InLoop, FlushLabels, callVars, Claimed,
             Evicting, Flushing
<1>4. /\ b \notin ToSet(lru) /\ ~Frees(b)
      /\ \A u \in Threads \ {t} : b \notin Claimed(u)
  BY <1>0, <1>2 DEF Exclusive, Frees
<1>5. /\ FreeBlocks(d)' = FreeBlocks(d) \cup {b}
      /\ \A e \in Bands \ {d} : FreeBlocks(e)' = FreeBlocks(e)
      /\ \A e \in Bands : NoDuplicates(psListBlocksToFree'[e])
  <2>s. PICK s : s = psListBlocksToFree[d]
    OBVIOUS
  <2>1. s \in Seq(Blocks) /\ NoDuplicates(s) /\ b \notin ToSet(s)
    BY <1>0, <1>2, <1>4, <2>s DEF BandTypes, Exclusive, Frees, FreeBlocks
  <2>2. ToSet(<<b>> \o s) = ToSet(s) \cup {b} /\ NoDuplicates(<<b>> \o s)
    BY <1>2, <2>1, PushProperties
  <2>w. PICK w : w = <<b>> \o s
    OBVIOUS
  <2>3. /\ psListBlocksToFree'[d] = w
        /\ \A e \in Bands \ {d} : psListBlocksToFree'[e] = psListBlocksToFree[e]
    BY <1>0, <1>1, <1>2, <2>s, <2>w DEF BandTypes
  <2> QED BY <1>0, <2>s, <2>w, <2>2, <2>3 DEF FreeBlocks, Exclusive
<1>6. \A c : c # b => (Frees(c)' <=> Frees(c))
  BY <1>2, <1>5 DEF Frees
<1>7. Frees(b)' /\ \A c : (Out(c)' <=> Out(c)) /\ (Used(c)' <=> Used(c))
  <2>1. Frees(b)'
    BY <1>2, <1>5 DEF Frees
  <2> QED BY <1>2, <1>3, <1>6, <2>1, SameRoles, SameUse
<1>8. Local(t)
  BY <1>0, <1>1, <1>2 DEF Local, BlockTypes
<1>9. KeysOf(t)' /\ OldSetOf(t)'
  BY <1>0, <1>1, <1>3 DEF KeysOf, OldSetOf, FlushLabels, callVars, flushVars
<1>10. StoreInv'
  <2>1. \A u \in Threads : pc[u] = "unreference" =>
          pc'[u] = "unreference" /\ LastFreed(u)' = LastFreed(u)
    BY <1>1, OthersRoles
  <2>2. ASSUME NEW k \in Keys, slot'[k] # Null
        PROVE  /\ key'[slot'[k]] = k
               /\ \/ slot'[k] \in ToSet(lru')
                  \/ \E u \in Threads :
                       pc'[u] = "unreference" /\ slot'[k] = LastFreed(u)'
    BY <1>0, <1>1, <2>1, <2>2 DEF StoreInv
  <2>3. \A c \in ToSet(lru') : key'[c] \in Keys /\ bMustDetach'[c]
    BY <1>0, <1>1 DEF StoreInv
  <2>4. \A e \in Bands : \A c \in FreeBlocks(e)' :
             key'[c] \in Keys /\ BandOf(key'[c]) = e
    BY <1>0, <1>d, <1>1, <1>2, <1>5 DEF StoreInv
  <2> QED BY <2>2, <2>3, <2>4 DEF StoreInv
<1>11. Exclusive'
  <2>1. /\ \A u \in Threads \ {t} : Claimed(u)' = Claimed(u) /\ toFree'[u] = toFree[u]
    BY OthersRoles
  <2>2. \A v, u \in Threads : v # u => (Claimed(v) \cap Claimed(u))' = {}
    BY <1>0, <1>3, <2>1 DEF Exclusive
  <2>3. \A u \in Threads, e \in Bands : (Claimed(u) \cap FreeBlocks(e))' = {}
    BY <1>0, <1>3, <1>4, <1>5, <2>1 DEF Exclusive
  <2>4. \A u \in Threads : (ToSet(toFree[u]) \cap ToSet(lru))' = {} /\ NoDuplicates(toFree'[u])
    BY <1>0, <1>1, <1>2, <2>1 DEF Exclusive
  <2>5. \A e \in Bands : (FreeBlocks(e) \cap ToSet(lru))' = {}
    BY <1>0, <1>1, <1>4, <1>5 DEF Exclusive
  <2> QED BY <1>5, <2>2, <2>3, <2>4, <2>5 DEF Exclusive
<1>12. LocksExact'
  <2>1. nLockCount'[b] = (IF Used(b)' THEN 1 ELSE 0) - (IF Out(b)' THEN 1 ELSE 0)
    BY <1>0, <1>1, <1>2, <1>7 DEF LocksExact
  <2>2. HasLock(t)' => ~Out(poBlock[t])'
    BY <1>0, <1>1, <1>3, <1>7 DEF LocksExact, Out, Frees, callVars
  <2>3. Out(b)' /\ \A u \in Threads \ {t} : poBlock[u] = b => ~HasLock(u)
    BY <1>0, <1>7 DEF LocksExact, Out
  <2>4. HasLock(t)' /\ ~NotYet(t)' => (poBlock[t] \in ToSet(lru))'
    BY <1>0, <1>1, <1>3 DEF LocksExact, callVars
  <2> QED
    BY <1>1, <1>3, <1>6, <2>1, <2>2, <2>3, <2>4, LocksBut
<1> QED
  BY <1>8, <1>9, <1>10, <1>11, <1>12, KeysMoves DEF Owned

(* The block that a thread is taking out of its band.                      *)
LEMMA LastFreedIsClaimed ==
    ASSUME OwnInv, NEW u \in Threads, pc[u] = "unreference"
    PROVE  LastFreed(u) \in Claimed(u) /\ LastFreed(u) \in ToSet(toFree[u])
BY TargetIsBlock, ClaimedAreBlocks DEF OwnInv, ControlInv, ScanOf

(* FreeDanglingBlocks(), called by the thread of the dataset of band d,    *)
(* deletes blocks that nothing points to.                                  *)
LEMMA FreeStep ==
    ASSUME OwnInv, NEW t \in Threads, Others(t), NEW d \in Bands,
           Owner[DatasetOf[d]] = t, FreeDanglingBlocks(d), UNCHANGED lru,
           Using(t)' = Using(t), Claimed(t)' = Claimed(t),
           toFree'[t] = toFree[t], pc[t] # "takeLockFailed",
           pc'[t] \notin {"takeLock", "takeLockFailed", "flushWait"},
           HasLock(t)' => HasLock(t) /\ ~NotYet(t) /\ poBlock'[t] = poBlock[t],
           \A k \in Keys : slot'[k] \in {slot[k], Null} \/ Owner[DatasetOfKey(k)] = t
    PROVE  /\ Local(t) /\ Exclusive' /\ LocksExact'
           /\ \A c \in Blocks : c \notin FreeBlocks(d) =>
                key'[c] = key[c] /\ pData'[c] = pData[c]
           /\ \A c \in FreeBlocks(d) :
                /\ c \notin ToSet(lru) /\ \A k \in Keys : slot[k] # c
                /\ \A u \in Threads : c \notin Claimed(u)
           /\ \A c \in ToSet(lru') : key'[c] \in Keys /\ bMustDetach'[c]
           /\ \A e \in Bands : \A c \in FreeBlocks(e)' :
                key'[c] \in Keys /\ BandOf(key'[c]) = e
<1>0. /\ BlockTypes /\ BandTypes /\ StoreInv /\ Exclusive /\ LocksExact
  BY DEF OwnInv, Owned, ControlInv, Types
<1>1. /\ \A c \in Blocks : c \notin FreeBlocks(d) =>
           /\ key'[c] = key[c] /\ pData'[c] = pData[c]
           /\ nLockCount'[c] = nLockCount[c]
      /\ \A c \in FreeBlocks(d) : c \in Blocks /\ key'[c] = NoKey
      /\ UNCHANGED bMustDetach
  <2>1. FreeBlocks(d) \subseteq Blocks
    BY ClaimedAreBlocks
  <2> QED BY <2>1 DEF FreeDanglingBlocks, Deleted, FreeBlocks
<1>2. /\ FreeBlocks(d)' = {}
      /\ \A e \in Bands \ {d} : FreeBlocks(e)' = FreeBlocks(e)
      /\ \A e \in Bands : NoDuplicates(psListBlocksToFree'[e])
  <2>1. /\ psListBlocksToFree'[d] = << >>
        /\ \A e \in Bands \ {d} : psListBlocksToFree'[e] = psListBlocksToFree[e]
    BY <1>0 DEF FreeDanglingBlocks, BandTypes
  <2>2. ToSet(<< >>) = {} /\ NoDuplicates(<< >>)
    BY DEF ToSet, NoDuplicates
  <2> QED BY <1>0, <2>1, <2>2 DEF FreeBlocks, Exclusive
<1>3. ASSUME NEW c \in FreeBlocks(d)
      PROVE  /\ c \notin ToSet(lru) /\ \A k \in Keys : slot[k] # c
             /\ \A u \in Threads : c \notin Claimed(u)
             /\ key[c] \in Keys /\ UserOf(c) = t
             /\ \A e \in Bands \ {d} : c \notin FreeBlocks(e)
             /\ Out(c)
  <2>1. c \notin ToSet(lru) /\ \A u \in Threads : c \notin Claimed(u)
    BY <1>0 DEF Exclusive
  <2>2. key[c] \in Keys /\ BandOf(key[c]) = d
    BY <1>0 DEF StoreInv
  <2>3. UserOf(c) = t
    BY <2>2 DEF UserOf, DatasetOfKey, BandOf
  <2>4. \A k \in Keys : slot[k] # c
    <3>1. c # Null
      BY <1>1, NamesAssumption
    <3> QED BY <1>0, <2>1, <3>1, LastFreedIsClaimed DEF StoreInv
  <2>5. \A e \in Bands \ {d} : c \notin FreeBlocks(e)
    BY <1>0, <2>2 DEF StoreInv
  <2> QED BY <2>1, <2>2, <2>3, <2>4, <2>5 DEF Out, Frees
<1>4. ASSUME NEW c, c \notin FreeBlocks(d)
      PROVE  (Frees(c)' <=> Frees(c)) /\ (Out(c)' <=> Out(c)) /\ (Used(c)' <=> Used(c))
  <2>1. Frees(c)' <=> Frees(c)
    BY <1>2, <1>4 DEF Frees
  <2> QED BY <2>1, SameRoles, SameUse
<1>5. \A u \in Threads : Claimed(u)' = Claimed(u) /\ toFree'[u] = toFree[u]
  BY OthersRoles
<1>6. Local(t)
  <2>1. \A u \in Threads : \A c \in Claimed(u) : c \in Blocks /\ c \notin FreeBlocks(d)
    BY <1>3, ClaimedAreBlocks
  <2> QED BY <1>1, <1>3, <2>1 DEF Local
<1>7. Exclusive'
  <2>1. \A e \in Bands : FreeBlocks(e)' \subseteq FreeBlocks(e)
    BY <1>2
  <2> QED BY <1>0, <1>2, <1>5, <2>1 DEF Exclusive
<1>8. LocksExact'
  <2>1. ASSUME NEW c \in Blocks, key'[c] \in Keys
        PROVE  nLockCount'[c] = (IF Used(c)' THEN 1 ELSE 0)
                                - (IF Out(c)' THEN 1 ELSE 0)
    <3>1. c \notin FreeBlocks(d)
      BY <1>1, <2>1, NoKeyIsNoKey
    <3> QED BY <1>0, <1>1, <1>4, <2>1, <3>1 DEF LocksExact
  <2>2. ASSUME NEW u \in Threads \ {t}
        PROVE  /\ HasLock(u)' => ~Out(poBlock[u])'
               /\ HasLock(u)' /\ ~NotYet(u)' => (poBlock[u] \in ToSet(lru))'
               /\ pc'[u] \in {"takeLockFailed", "flushWait"} => Out(poBlock[u])'
               /\ pc'[u] = "takeLock" =>
                    (poBlock[u] \in ToSet(lru))' \/ Out(poBlock[u])'
    <3>c. PICK c : c = poBlock[u]
      OBVIOUS
    <3>1. /\ pc'[u] = pc[u] /\ poBlock'[u] = c
          /\ HasLock(u)' <=> HasLock(u)
          /\ NotYet(u)' <=> NotYet(u)
      BY <3>c, OthersRoles
    <3>2. HasLock(u) \/ pc[u] \in {"takeLock", "takeLockFailed", "flushWait"} =>
            c \notin FreeBlocks(d)
      BY <1>3, <3>c, UserIsOwner DEF FlushLabels
    <3>3. Out(poBlock[u])' <=> Out(c)'
      BY <3>1 DEF Out, Frees
    <3>4. HasLock(u) \/ pc[u] \in {"takeLock", "takeLockFailed", "flushWait"} =>
            (Out(c)' <=> Out(c))
      BY <1>4, <3>2
    <3> QED
      BY <1>0, <3>c, <3>1, <3>3, <3>4 DEF LocksExact
  <2>3. HasLock(t)' => ~Out(poBlock[t])' /\ (poBlock[t] \in ToSet(lru))'
    <3>c. PICK c : c = poBlock[t]
      OBVIOUS
    <3>1. SUFFICES ASSUME HasLock(t)' PROVE ~Out(poBlock[t])' /\ (poBlock[t] \in ToSet(lru))'
      OBVIOUS
    <3>2. ~Out(c) /\ c \in ToSet(lru)
      BY <1>0, <3>c, <3>1 DEF LocksExact
    <3>3. ~Out(c)'
      BY <1>3, <1>4, <3>2
    <3> QED BY <3>c, <3>1, <3>2, <3>3 DEF Out, Frees
  <2> QED BY <2>1, <2>2, <2>3 DEF LocksExact
<1>9. \A c \in ToSet(lru') : key'[c] \in Keys /\ bMustDetach'[c]
  BY <1>0, <1>1, <1>3, ClaimedAreBlocks DEF StoreInv
<1>10. ASSUME NEW e \in Bands, NEW c \in FreeBlocks(e)'
       PROVE  key'[c] \in Keys /\ BandOf(key'[c]) = e
  <2>1. c \in FreeBlocks(e) /\ e # d /\ c \in Blocks
    BY <1>2, ClaimedAreBlocks
  <2>2. c \notin FreeBlocks(d)
    BY <1>3, <2>1
  <2> QED BY <1>0, <1>1, <2>1, <2>2 DEF StoreInv
<1> QED
  BY <1>1, <1>3, <1>6, <1>7, <1>8, <1>9, <1>10

(* AdoptBlock() deletes the dangling blocks of the band and stores the new *)
(* one.                                                                    *)
LEMMA Owned_AdoptBlock ==
    ASSUME OwnInv, AllocationsSucceed, NEW t \in Threads, Others(t),
           NEW ok \in BOOLEAN, AdoptBlock(t, ok)
    PROVE  Owned'
<1>0. /\ CallTypes /\ CallOf(t) /\ BlockTypes /\ BandTypes /\ KeysOf(t)
      /\ OldSetOf(t) /\ StoreInv /\ LocksExact
  BY DEF OwnInv, Owned, ControlInv, Types
<1>b. PICK b : b = poBlock[t]
  OBVIOUS
<1>d. PICK d : d = BandOf(at[t])
  OBVIOUS
<1>1. /\ pc[t] = "adopt" /\ pc'[t] \in {"readRW", "locked"}
      /\ slot' = [slot EXCEPT ![at[t]] = b] /\ FreeDanglingBlocks(d)
      /\ UNCHANGED <<lru, callVars, scanVars, iOff, oOldSet>>
  <2>1. ok = TRUE
    BY DEF AdoptBlock, AllocationsSucceed
  <2> QED BY <1>0, <1>b, <1>d, <2>1 DEF AdoptBlock, CallTypes, Goto, cacheVars
<1>2. /\ HasLock(t) /\ HasLock(t)' /\ ~NotYet(t) /\ ~NotYet(t)'
      /\ ~InLoop(t) /\ ~InLoop(t)'
      /\ Using(t)' = Using(t) /\ Claimed(t)' = Claimed(t) /\ toFree'[t] = toFree[t]
      /\ poBlock'[t] = b /\ at'[t] = at[t]
  <2>1. /\ HasLock(t) /\ HasLock(t)' /\ ~InLoop(t) /\ ~InLoop(t)'
        /\ ~NotYet(t) /\ ~NotYet(t)' /\ poBlock'[t] = b /\ at'[t] = at[t]
    BY <1>b, <1>1 DEF HasLock, InLoop, FlushLabels, NotYet, CriticalLabels,
       RoundEnd, callVars
  <2> QED BY <1>b, <1>1, <2>1 DEF Using, Claimed, Evicting, Flushing, scanVars
<1>3. /\ at[t] \in Keys /\ d \in Bands /\ Owner[DatasetOfKey(at[t])] = t
      /\ Owner[DatasetOf[d]] = t
  <2>1. /\ at[t] \in Keys /\ BandOf(at[t]) \in Bands
        /\ Owner[DatasetOfKey(at[t])] = t
    BY <1>0, <1>1, AtIsKey DEF OwnerLabels, IoLabels
  <2> QED BY <1>d, <2>1 DEF DatasetOfKey, BandOf
<1>4. \A k \in Keys : slot'[k] = IF k = at[t] THEN b ELSE slot[k]
  BY <1>0, <1>1 DEF BandTypes
<1>5. b \in Blocks /\ key[b] = at[t] /\ ~Out(b) /\ bMustDetach[b] /\ b \in ToSet(lru)
  BY <1>0, <1>b, <1>2, UserIsOwner DEF KeysOf, LocksExact
<1>6. /\ Local(t) /\ Exclusive' /\ LocksExact'
      /\ \A c \in Blocks : c \notin FreeBlocks(d) =>
           key'[c] = key[c] /\ pData'[c] = pData[c]
      /\ \A c \in FreeBlocks(d) :
           /\ c \notin ToSet(lru) /\ \A k \in Keys : slot[k] # c
           /\ \A u \in Threads : c \notin Claimed(u)
      /\ \A c \in ToSet(lru') : key'[c] \in Keys /\ bMustDetach'[c]
      /\ \A e \in Bands : \A c \in FreeBlocks(e)' :
           key'[c] \in Keys /\ BandOf(key'[c]) = e
  <2>1. /\ pc[t] # "takeLockFailed"
        /\ pc'[t] \notin {"takeLock", "takeLockFailed", "flushWait"}
        /\ HasLock(t)' => HasLock(t) /\ ~NotYet(t) /\ poBlock'[t] = poBlock[t]
        /\ \A k \in Keys : slot'[k] \in {slot[k], Null} \/ Owner[DatasetOfKey(k)] = t
        /\ UNCHANGED lru
    BY <1>b, <1>1, <1>2, <1>3, <1>4
  <2> QED BY <1>1, <1>2, <1>3, <2>1, FreeStep
<1>7. b \notin FreeBlocks(d) /\ key'[b] = at[t] /\ bMustDetach'[b]
  BY <1>1, <1>5, <1>6
<1>8. KeysOf(t)'
  <2>1. \A c \in Claimed(t)' : key'[c] \in Keys
    BY <1>2, <1>6, ClaimedAreBlocks
  <2> QED BY <1>1, <1>2, <1>7, <2>1 DEF KeysOf, FlushLabels
<1>9. OldSetOf(t)'
  BY <1>0, <1>1, <1>2 DEF OldSetOf
<1>10. StoreInv'
  <2>1. \A u \in Threads : pc[u] = "unreference" =>
          pc'[u] = "unreference" /\ LastFreed(u)' = LastFreed(u)
    BY <1>1, OthersRoles
  <2>2. ASSUME NEW k \in Keys, slot'[k] # Null
        PROVE  /\ key'[slot'[k]] = k
               /\ \/ slot'[k] \in ToSet(lru')
                  \/ \E u \in Threads :
                       pc'[u] = "unreference" /\ slot'[k] = LastFreed(u)'
    <3>1. CASE k = at[t]
      BY <1>1, <1>4, <1>5, <1>7, <3>1
    <3>2. CASE k # at[t]
      <4>1. slot'[k] = slot[k] /\ slot[k] \in Blocks /\ slot[k] \notin FreeBlocks(d)
        BY <1>0, <1>4, <1>6, <2>2, <3>2 DEF BandTypes, BlockOrNull
      <4>2. key'[slot[k]] = key[slot[k]]
        BY <1>6, <4>1
      <4> QED BY <1>0, <1>1, <2>1, <2>2, <4>1, <4>2 DEF StoreInv
    <3> QED BY <3>1, <3>2
  <2> QED BY <1>6, <2>2 DEF StoreInv
<1> QED
  BY <1>6, <1>8, <1>9, <1>10, KeysMoves DEF Owned

(* FlushCache() deletes the dangling blocks of the band and starts its     *)
(* loop.                                                                   *)
LEMMA Owned_FlushStorage ==
    ASSUME OwnInv, NEW t \in Threads, Others(t), FlushStorage(t)
    PROVE  Owned'
<1>0. /\ CallTypes /\ CallOf(t) /\ BlockTypes /\ BandTypes /\ FlushTypes
      /\ KeysOf(t) /\ OldSetOf(t) /\ StoreInv /\ LocksExact
  BY DEF OwnInv, Owned, ControlInv, Types
<1>d. PICK d : d = BandOf(at[t])
  OBVIOUS
<1>1. /\ pc[t] = "flushStorage" /\ pc'[t] = "flushNext"
      /\ FreeDanglingBlocks(d)
      /\ iOff'[t] = First(Offs)
      /\ UNCHANGED <<lru, callVars, scanVars>>
  BY <1>0, <1>d DEF FlushStorage, CallTypes, FlushTypes, Goto, cacheVars
<1>2. /\ ~HasLock(t) /\ ~HasLock(t)' /\ ~InLoop(t)
      /\ Using(t)' = Using(t) /\ Claimed(t)' = Claimed(t) /\ toFree'[t] = toFree[t]
      /\ at'[t] = at[t]
  BY <1>1 DEF HasLock, Internalizing, EvictLabels, CriticalLabels, InLoop,
     FlushLabels, callVars, Using, Claimed, Evicting, Flushing, scanVars
<1>3. /\ at[t] \in Keys /\ d \in Bands /\ Owner[DatasetOf[d]] = t
      /\ op[t] \in FlushOps
  <2>1. /\ at[t] \in Keys /\ BandOf(at[t]) \in Bands
        /\ Owner[DatasetOfKey(at[t])] = t
    BY <1>0, <1>1, AtIsKey DEF OwnerLabels
  <2> QED BY <1>0, <1>d, <1>1, <2>1 DEF DatasetOfKey, BandOf, CallOf, OpOf
<1>4. IF d \in HashSet
      THEN /\ \A o \in Offs : oOldSet'[t][o] = slot[<<d, o>>]
           /\ \A k \in Keys : slot'[k] = IF BandOf(k) = d THEN Null ELSE slot[k]
      ELSE UNCHANGED <<oOldSet, slot>>
  BY <1>0, <1>d DEF FlushStorage, FlushTypes
<1>5. \A k \in Keys : slot'[k] \in {slot[k], Null}
  BY <1>4
<1>6. /\ Local(t) /\ Exclusive' /\ LocksExact'
      /\ \A c \in Blocks : c \notin FreeBlocks(d) =>
           key'[c] = key[c] /\ pData'[c] = pData[c]
      /\ \A c \in FreeBlocks(d) :
           /\ c \notin ToSet(lru) /\ \A k \in Keys : slot[k] # c
           /\ \A u \in Threads : c \notin Claimed(u)
      /\ \A c \in ToSet(lru') : key'[c] \in Keys /\ bMustDetach'[c]
      /\ \A e \in Bands : \A c \in FreeBlocks(e)' :
           key'[c] \in Keys /\ BandOf(key'[c]) = e
  <2>1. /\ pc[t] # "takeLockFailed"
        /\ pc'[t] \notin {"takeLock", "takeLockFailed", "flushWait"}
        /\ UNCHANGED lru
    BY <1>1
  <2> QED BY <1>1, <1>2, <1>3, <1>5, <2>1, FreeStep
<1>7. ASSUME NEW k \in Keys, slot[k] # Null
      PROVE  key'[slot[k]] = k
  <2>1. slot[k] \in Blocks /\ slot[k] \notin FreeBlocks(d)
    BY <1>0, <1>6, <1>7 DEF BandTypes, BlockOrNull
  <2> QED BY <1>0, <1>6, <1>7, <2>1 DEF StoreInv
<1>8. KeysOf(t)'
  <2>1. \A c \in Claimed(t)' : key'[c] \in Keys
    BY <1>2, <1>6, ClaimedAreBlocks
  <2> QED BY <1>1, <1>2, <2>1 DEF KeysOf, FlushLabels
<1>9. OldSetOf(t)'
  <2>1. InLoop(t)' /\ BandOf(at'[t]) = d
    BY <1>d, <1>1, <1>2, <1>3 DEF InLoop, callVars
  <2>2. First(Offs) # 0 /\ \A o \in Offs : First(Offs) <= o
    BY FirstOff, BandsAssumption
  <2>3. \A o \in Offs : <<d, o>> \in Keys /\ BandOf(<<d, o>>) = d
    BY <1>3, KeyParts DEF BandOf
  <2>4. CASE d \in HashSet
    <3>1. \A o \in Offs : oOldSet'[t][o] = slot[<<d, o>>] /\ slot'[<<d, o>>] = Null
      BY <1>4, <2>3, <2>4
    <3>2. \A o \in Offs : oOldSet'[t][o] # Null => key'[oOldSet'[t][o]] = <<d, o>>
      BY <1>7, <2>3, <3>1
    <3> QED BY <1>1, <2>1, <2>2, <2>4, <3>1, <3>2 DEF OldSetOf, FlushLabels
  <2>5. CASE d \notin HashSet
    <3>1. \A o \in Offs : oOldSet'[t][o] = Null
      BY <1>0, <1>2, <1>4, <2>5 DEF OldSetOf
    <3> QED BY <2>1, <2>5, <3>1 DEF OldSetOf
  <2> QED BY <2>4, <2>5
<1>10. StoreInv'
  <2>1. \A u \in Threads : pc[u] = "unreference" =>
          pc'[u] = "unreference" /\ LastFreed(u)' = LastFreed(u)
    BY <1>1, OthersRoles
  <2>2. ASSUME NEW k \in Keys, slot'[k] # Null
        PROVE  /\ key'[slot'[k]] = k
               /\ \/ slot'[k] \in ToSet(lru')
                  \/ \E u \in Threads :
                       pc'[u] = "unreference" /\ slot'[k] = LastFreed(u)'
    <3>1. slot'[k] = slot[k]
      BY <1>5, <2>2
    <3> QED BY <1>0, <1>1, <1>7, <2>1, <2>2, <3>1 DEF StoreInv
  <2> QED BY <1>6, <2>2 DEF StoreInv
<1> QED
  BY <1>6, <1>8, <1>9, <1>10, KeysMoves DEF Owned

(* ~GDALRasterBand() deletes the dangling blocks of the band.              *)
LEMMA Owned_Destroy ==
    ASSUME OwnInv, NEW t \in Threads, Others(t), Destroy(t)
    PROVE  Owned'
<1>0. /\ CallTypes /\ CallOf(t) /\ BlockTypes /\ BandTypes
      /\ KeysOf(t) /\ OldSetOf(t) /\ StoreInv
  BY DEF OwnInv, Owned, ControlInv, Types
<1>d. PICK d : d = BandOf(at[t])
  OBVIOUS
<1>1. /\ pc[t] = "destroy" /\ pc'[t] \in {"flushed", "flushCache"}
      /\ FreeDanglingBlocks(d)
      /\ UNCHANGED <<lru, slot, op, poBlock, scanVars, flushVars>>
  BY <1>0, <1>d DEF Destroy, CallTypes, Goto, cacheVars
<1>2. /\ ~HasLock(t) /\ ~HasLock(t)' /\ ~InLoop(t) /\ ~InLoop(t)'
      /\ Using(t)' = Using(t) /\ Claimed(t)' = Claimed(t) /\ toFree'[t] = toFree[t]
  BY <1>1 DEF HasLock, Internalizing, EvictLabels, CriticalLabels, InLoop,
     FlushLabels, Using, Claimed, Evicting, Flushing, scanVars
<1>3. d \in Bands /\ Owner[DatasetOf[d]] = t
  <2>1. /\ BandOf(at[t]) \in Bands /\ Owner[DatasetOfKey(at[t])] = t
    BY <1>0, <1>1, AtIsKey DEF OwnerLabels
  <2> QED BY <1>d, <2>1 DEF DatasetOfKey, BandOf
<1>6. /\ Local(t) /\ Exclusive' /\ LocksExact'
      /\ \A c \in Blocks : c \notin FreeBlocks(d) =>
           key'[c] = key[c] /\ pData'[c] = pData[c]
      /\ \A c \in FreeBlocks(d) :
           /\ c \notin ToSet(lru) /\ \A k \in Keys : slot[k] # c
           /\ \A u \in Threads : c \notin Claimed(u)
      /\ \A c \in ToSet(lru') : key'[c] \in Keys /\ bMustDetach'[c]
      /\ \A e \in Bands : \A c \in FreeBlocks(e)' :
           key'[c] \in Keys /\ BandOf(key'[c]) = e
  <2>1. /\ pc[t] # "takeLockFailed"
        /\ pc'[t] \notin {"takeLock", "takeLockFailed", "flushWait"}
        /\ \A k \in Keys : slot'[k] \in {slot[k], Null}
        /\ UNCHANGED lru
    BY <1>1
  <2> QED BY <1>1, <1>2, <1>3, <2>1, FreeStep
<1>8. KeysOf(t)'
  <2>1. \A c \in Claimed(t)' : key'[c] \in Keys
    BY <1>2, <1>6, ClaimedAreBlocks
  <2> QED BY <1>1, <1>2, <2>1 DEF KeysOf, FlushLabels
<1>9. OldSetOf(t)'
  BY <1>0, <1>1, <1>2 DEF OldSetOf, flushVars
<1>10. StoreInv'
  <2>1. \A u \in Threads : pc[u] = "unreference" =>
          pc'[u] = "unreference" /\ LastFreed(u)' = LastFreed(u)
    BY <1>1, OthersRoles
  <2>2. ASSUME NEW k \in Keys, slot'[k] # Null
        PROVE  /\ key'[slot'[k]] = k
               /\ \/ slot'[k] \in ToSet(lru')
                  \/ \E u \in Threads :
                       pc'[u] = "unreference" /\ slot'[k] = LastFreed(u)'
    <3>1. slot'[k] = slot[k] /\ slot[k] \in Blocks /\ slot[k] \notin FreeBlocks(d)
      BY <1>0, <1>1, <1>6, <2>2 DEF BandTypes, BlockOrNull
    <3>2. key'[slot[k]] = key[slot[k]]
      BY <1>6, <3>1
    <3> QED BY <1>0, <1>1, <2>1, <2>2, <3>1, <3>2 DEF StoreInv
  <2> QED BY <1>6, <2>2 DEF StoreInv
<1> QED
  BY <1>6, <1>8, <1>9, <1>10, KeysMoves DEF Owned

(* A step of thread t that takes blocks out of the storage of its bands,   *)
(* or moves its own pointers.                                              *)
LEMMA SlotStep ==
    ASSUME OwnInv, NEW t \in Threads, Others(t), pc[t] # "unreference",
           UNCHANGED <<pData, key, nLockCount, lru, psListBlocksToFree,
                       bMustDetach>>,
           \A k \in Keys : slot'[k] \in {slot[k], Null},
           Claimed(t)' = Claimed(t), Using(t)' = Using(t),
           toFree'[t] = toFree[t], ~HasLock(t)',
           pc'[t] \notin {"takeLock", "takeLockFailed"},
           pc'[t] = "flushWait" => Out(poBlock[t])',
           KeysOf(t)', OldSetOf(t)'
    PROVE  Owned'
<1>0. StoreInv
  BY DEF OwnInv, Owned
<1>1. Local(t)
  BY DEF Local
<1>2. Exclusive' /\ LocksExact'
  BY ExclusiveStays, LocksStay
<1>3. StoreInv'
  <2>1. \A u \in Threads : pc[u] = "unreference" =>
          pc'[u] = "unreference" /\ LastFreed(u)' = LastFreed(u)
    BY OthersRoles
  <2>2. ASSUME NEW k \in Keys, slot'[k] # Null
        PROVE  /\ key'[slot'[k]] = k
               /\ \/ slot'[k] \in ToSet(lru')
                  \/ \E u \in Threads :
                       pc'[u] = "unreference" /\ slot'[k] = LastFreed(u)'
    <3>1. slot'[k] = slot[k]
      BY <2>2
    <3> QED BY <1>0, <2>1, <2>2, <3>1 DEF StoreInv
  <2>3. /\ \A c \in ToSet(lru') : key'[c] \in Keys /\ bMustDetach'[c]
        /\ \A d \in Bands : \A c \in FreeBlocks(d)' :
             key'[c] \in Keys /\ BandOf(key'[c]) = d
    BY <1>0 DEF StoreInv, FreeBlocks
  <2> QED BY <2>2, <2>3 DEF StoreInv
<1> QED
  BY <1>1, <1>2, <1>3, KeysMoves DEF Owned

(* FlushBlock() takes a block out of the storage of the band.              *)
LEMMA Owned_FlushBlock ==
    ASSUME OwnInv, NEW t \in Threads, Others(t), FlushBlock(t)
    PROVE  Owned'
<1>0. /\ CallTypes /\ CallOf(t) /\ BandTypes /\ KeysOf(t) /\ OldSetOf(t) /\ StoreInv
  BY DEF OwnInv, Owned, ControlInv, Types
<1>b. PICK b : b = slot[at[t]]
  OBVIOUS
<1>1. /\ pc[t] = "flushBlock" /\ op[t] \notin FlushOps
      /\ pc'[t] \in {"claimFlush", "failed", "flushed"}
      /\ pc'[t] = "claimFlush" => b # Null
      /\ poBlock'[t] = b /\ slot' = [slot EXCEPT ![at[t]] = Null]
      /\ UNCHANGED <<blockVars, lru, psListBlocksToFree, op, at, scanVars, flushVars>>
  <2>1. pc[t] = "flushBlock"
    BY DEF FlushBlock
  <2>2. op[t] \notin FlushOps
    BY <1>0, <2>1 DEF CallOf, OpOf, IoOps, ReadOps, WriteOps, FlushOps
  <2> QED BY <1>0, <1>b, <2>1, <2>2 DEF FlushBlock, AfterFlushBlock, CallTypes,
             Goto, cacheVars
<1>2. at[t] \in Keys
  BY <1>0, <1>1, AtIsKey DEF OwnerLabels
<1>3. \A k \in Keys : slot'[k] = IF k = at[t] THEN Null ELSE slot[k]
  BY <1>0, <1>1 DEF BandTypes
<1>4. /\ ~HasLock(t) /\ ~HasLock(t)' /\ ~InLoop(t) /\ ~InLoop(t)'
      /\ Using(t)' = Using(t) /\ Claimed(t)' = Claimed(t) /\ toFree'[t] = toFree[t]
  BY <1>1 DEF HasLock, Internalizing, EvictLabels, CriticalLabels, InLoop, Using,
     Claimed, Evicting, Flushing, scanVars
<1>5. b # Null => key[b] = at[t]
  BY <1>0, <1>b, <1>2 DEF StoreInv
<1>6. KeysOf(t)'
  BY <1>0, <1>1, <1>2, <1>3, <1>4, <1>5 DEF KeysOf, FlushLabels, blockVars
<1>7. OldSetOf(t)'
  BY <1>0, <1>1, <1>4 DEF OldSetOf, flushVars
<1>8. \A k \in Keys : slot'[k] \in {slot[k], Null}
  BY <1>3
<1>9. /\ UNCHANGED <<pData, key, nLockCount, lru, psListBlocksToFree, bMustDetach>>
      /\ pc[t] # "unreference"
      /\ pc'[t] \notin {"takeLock", "takeLockFailed", "flushWait"}
  BY <1>1 DEF blockVars
<1> QED
  BY <1>4, <1>6, <1>7, <1>8, <1>9, SlotStep

(* The loop of FlushCache() takes the next block out of the storage of the *)
(* band.                                                                   *)
LEMMA Owned_FlushNext ==
    ASSUME OwnInv, NEW t \in Threads, Others(t), FlushNext(t)
    PROVE  Owned'
<1>0. /\ CallTypes /\ CallOf(t) /\ BandTypes /\ FlushTypes /\ KeysOf(t)
      /\ OldSetOf(t) /\ StoreInv
  BY DEF OwnInv, Owned, ControlInv, Types
<1>d. PICK d : d = BandOf(at[t])
  OBVIOUS
<1>i. PICK i : i = iOff[t]
  OBVIOUS
<1>b. PICK b : b = IF d \in HashSet THEN oOldSet[t][i] ELSE slot[<<d, i>>]
  OBVIOUS
<1>1. /\ pc[t] = "flushNext" /\ i # 0
      /\ pc'[t] = IF b = Null THEN "flushNext" ELSE "claimFlush"
      /\ poBlock'[t] = b /\ iOff'[t] = NextOff(i)
      /\ UNCHANGED <<blockVars, lru, psListBlocksToFree, op, at, scanVars>>
  BY <1>0, <1>d, <1>i, <1>b DEF FlushNext, CallTypes, FlushTypes, Goto, cacheVars
<1>2. /\ i \in Offs /\ d \in Bands /\ <<d, i>> \in Keys /\ op[t] \in FlushOps
  <2>1. BandOf(at[t]) \in Bands
    BY <1>0, <1>1, AtIsKey DEF OwnerLabels
  <2>2. i \in Offs
    BY <1>0, <1>i, <1>1 DEF FlushTypes
  <2> QED BY <1>0, <1>d, <1>1, <2>1, <2>2, KeyParts DEF CallOf, OpOf
<1>3. /\ \A o \in Offs : oOldSet'[t][o] = IF o = i THEN Null ELSE oOldSet[t][o]
      /\ d \in HashSet => UNCHANGED slot
      /\ d \notin HashSet =>
           \A k \in Keys : slot'[k] = IF k = <<d, i>> THEN Null ELSE slot[k]
  <2>1. \A o \in Offs : oOldSet'[t][o] = IF o = i THEN Null ELSE oOldSet[t][o]
    BY <1>0, <1>i DEF FlushNext, FlushTypes
  <2> QED BY <1>0, <1>d, <1>i, <2>1 DEF FlushNext, BandTypes
<1>4. /\ ~HasLock(t) /\ ~HasLock(t)' /\ InLoop(t) /\ InLoop(t)'
      /\ Using(t)' = Using(t) /\ Claimed(t)' = Claimed(t) /\ toFree'[t] = toFree[t]
  BY <1>1, <1>2 DEF HasLock, Internalizing, EvictLabels, CriticalLabels, InLoop,
     Using, Claimed, Evicting, Flushing, scanVars, FlushLabels
<1>5. b # Null => key[b] = <<d, i>> /\ slot'[<<d, i>>] = Null
  <2>1. CASE d \in HashSet
    BY <1>0, <1>d, <1>b, <1>2, <1>3, <1>4, <2>1 DEF OldSetOf
  <2>2. CASE d \notin HashSet
    BY <1>0, <1>b, <1>2, <1>3, <2>2 DEF StoreInv
  <2> QED BY <2>1, <2>2
<1>6. KeysOf(t)'
  BY <1>0, <1>d, <1>1, <1>2, <1>4, <1>5 DEF KeysOf, FlushLabels, blockVars, BandOf
<1>7. OldSetOf(t)'
  <2>1. \A k \in Keys : slot[k] = Null => slot'[k] = Null
    BY <1>3
  <2>2. d \in HashSet => \A o \in Offs : slot'[<<d, o>>] = Null
    BY <1>0, <1>d, <1>2, <1>4, <2>1, KeyParts DEF OldSetOf
  <2>3. ASSUME NEW o \in Offs, oOldSet'[t][o] # Null
        PROVE  /\ d \in HashSet /\ NextOff(i) # 0 /\ NextOff(i) <= o
               /\ key[oOldSet'[t][o]] = <<d, o>> /\ oOldSet'[t][o] # b
    <3>1. o # i /\ oOldSet'[t][o] = oOldSet[t][o] /\ oOldSet[t][o] # Null
      BY <1>3, <2>3
    <3>2. d \in HashSet /\ i <= o /\ key[oOldSet[t][o]] = <<d, o>>
      BY <1>0, <1>d, <1>i, <3>1 DEF OldSetOf
    <3>3. i \in Nat /\ o \in Nat /\ NextOff(i) \in Nat
      <4>1. NextOff(i) \in Offs \cup {0}
        BY <1>2, NextOffProperties
      <4>2. Offs \subseteq Nat
        BY BandsAssumption
      <4>3. 0 \in Nat /\ i \in Offs /\ o \in Offs
        BY <1>2
      <4> QED BY <4>1, <4>2, <4>3
    <3>4. NextOff(i) # 0 /\ NextOff(i) <= o
      <4>1. NextOff(i) = 0 \/ o < NextOff(i) => o <= i
        BY <1>2, NextOffProperties
      <4> QED BY <3>1, <3>2, <3>3, <4>1
    <3>5. oOldSet[t][o] # b
      BY <1>5, <3>1, <3>2
    <3> QED BY <3>1, <3>2, <3>4, <3>5
  <2> QED BY <1>d, <1>1, <1>4, <2>2, <2>3 DEF OldSetOf, blockVars
<1>8. \A k \in Keys : slot'[k] \in {slot[k], Null}
  BY <1>3
<1>9. /\ UNCHANGED <<pData, key, nLockCount, lru, psListBlocksToFree, bMustDetach>>
      /\ pc[t] # "unreference"
      /\ pc'[t] \notin {"takeLock", "takeLockFailed", "flushWait"}
  BY <1>1 DEF blockVars
<1> QED
  BY <1>4, <1>6, <1>7, <1>8, <1>9, SlotStep

(* DropLockForRemovalFromStorage(): the block is claimed as an evictor     *)
(* would, or an evictor has it.                                            *)
LEMMA Owned_ClaimFlush ==
    ASSUME OwnInv, NEW t \in Threads, Others(t), ClaimFlush(t)
    PROVE  Owned'
<1>0. /\ CallTypes /\ CallOf(t) /\ KeysOf(t) /\ OldSetOf(t) /\ LocksExact
  BY DEF OwnInv, Owned, ControlInv, Types
<1>b. PICK b : b = poBlock[t]
  OBVIOUS
<1>1. /\ pc[t] = "claimFlush"
      /\ IF nLockCount[b] = 0
         THEN /\ nLockCount' = [nLockCount EXCEPT ![b] = -1]
              /\ pc'[t] \in {"flushWrite", "flushDetach"}
         ELSE pc'[t] = "flushWait" /\ UNCHANGED nLockCount
      /\ UNCHANGED <<pData, key, bMustDetach, lru, bandVars, callVars, scanVars,
                     flushVars>>
  BY <1>0, <1>b DEF ClaimFlush, Claimable, CallTypes, Goto, cacheVars
<1>2. b \in Blocks /\ key[b] \in Keys /\ UserOf(b) = t
  BY <1>b, <1>1, UserIsOwner DEF FlushLabels
<1>3. /\ ~HasLock(t) /\ ~HasLock(t)' /\ (InLoop(t)' <=> InLoop(t))
      /\ Using(t) = {} /\ Using(t)' = {} /\ toFree'[t] = toFree[t]
      /\ poBlock'[t] = b
      /\ Claimed(t)' = IF nLockCount[b] = 0 THEN Claimed(t) \cup {b} ELSE Claimed(t)
  BY <1>b, <1>1 DEF HasLock, Internalizing, EvictLabels, CriticalLabels, InLoop,
     Using, Claimed, Evicting, Flushing, scanVars, callVars, FlushLabels
<1>4. ~Used(b)
  <2>1. ASSUME NEW u \in Threads, b \in Using(u) PROVE FALSE
    <3>1. (HasLock(u) \/ pc[u] = "takeLockFailed") /\ poBlock[u] = b
      BY <2>1 DEF Using
    <3>2. u = t
      BY <1>2, <3>1, UserIsOwner
    <3> QED BY <1>3, <2>1, <3>2
  <2> QED BY <2>1 DEF Used
<1>5. nLockCount[b] = 0 <=> ~Out(b)
  BY <1>0, <1>2, <1>4 DEF LocksExact
<1>6. KeysOf(t)'
  <2>1. \A c \in Claimed(t)' : key[c] \in Keys
    BY <1>0, <1>2, <1>3 DEF KeysOf
  <2> QED BY <1>0, <1>1, <1>3, <2>1 DEF KeysOf, FlushLabels, callVars, bandVars
<1>7. OldSetOf(t)'
  BY <1>0, <1>1, <1>3 DEF OldSetOf, FlushLabels, callVars, flushVars, bandVars
<1>8. UNCHANGED <<pData, key, bMustDetach, lru, slot, psListBlocksToFree>>
  BY <1>1 DEF bandVars
<1>9. CASE nLockCount[b] = 0
  <2>1. pc'[t] \notin {"takeLock", "takeLockFailed", "flushWait"} /\ pc[t] # "unreference"
    BY <1>1, <1>9
  <2> QED
    BY <1>1, <1>2, <1>3, <1>4, <1>5, <1>6, <1>7, <1>8, <1>9, <2>1, ClaimedStep
<1>10. CASE nLockCount[b] # 0
  <2>1. Out(b)'
    BY <1>3, <1>5, <1>8, <1>10, SameRoles DEF Frees, FreeBlocks
  <2>2. Out(poBlock[t])'
    BY <1>3, <2>1 DEF Out, Frees
  <2>3. /\ pc'[t] \notin {"takeLock", "takeLockFailed"} /\ pc[t] # "unreference"
        /\ UNCHANGED nLockCount
    BY <1>1, <1>10
  <2> QED
    BY <1>3, <1>6, <1>7, <1>8, <1>10, <2>2, <2>3, SlotStep
<1> QED BY <1>9, <1>10

(* The thread that flushes leaves to the evictor a block that the evictor  *)
(* has claimed.                                                            *)
LEMMA Owned_FlushWait ==
    ASSUME OwnInv, NEW t \in Threads, Others(t), FlushWait(t)
    PROVE  Owned'
<1>0. /\ CallTypes /\ CallOf(t) /\ KeysOf(t) /\ OldSetOf(t)
  BY DEF OwnInv, Owned, ControlInv, Types
<1>1. /\ pc[t] = "flushWait" /\ pc'[t] \in {"flushNext", "failed", "flushed"}
      /\ op[t] \in FlushOps <=> pc'[t] = "flushNext"
      /\ UNCHANGED <<blockVars, cacheVars, bandVars, op, at, scanVars, flushVars>>
  BY <1>0 DEF FlushWait, AfterFlushBlock, CallTypes, Goto
<1>2. /\ ~HasLock(t) /\ ~HasLock(t)' /\ (InLoop(t)' <=> InLoop(t))
      /\ Using(t) = {} /\ Using(t)' = {} /\ toFree'[t] = toFree[t]
      /\ Claimed(t)' = Claimed(t)
  BY <1>1 DEF HasLock, Internalizing, EvictLabels, CriticalLabels, InLoop,
     Using, Claimed, Evicting, Flushing, scanVars, FlushLabels
<1>3. KeysOf(t)'
  BY <1>0, <1>1, <1>2 DEF KeysOf, FlushLabels, blockVars
<1>4. OldSetOf(t)'
  BY <1>0, <1>1, <1>2 DEF OldSetOf, FlushLabels, flushVars, blockVars, bandVars
<1> QED
  BY <1>1, <1>2, <1>3, <1>4, SlotStep DEF blockVars, cacheVars, bandVars

(* Detach() of a block that the thread flushes.                            *)
LEMMA Owned_FlushDetach ==
    ASSUME OwnInv, NEW t \in Threads, Others(t), FlushDetach(t)
    PROVE  Owned'
<1>0. /\ CallTypes /\ CallOf(t) /\ BlockTypes /\ CacheTypes /\ KeysOf(t)
      /\ OldSetOf(t) /\ StoreInv /\ Exclusive /\ LocksExact
  BY DEF OwnInv, Owned, ControlInv, Types
<1>b. PICK b : b = poBlock[t]
  OBVIOUS
<1>1. /\ pc[t] = "flushDetach" /\ pc'[t] = "flushWrite"
      /\ \/ lru' = Detached(lru, b) /\ bMustDetach' = [bMustDetach EXCEPT ![b] = FALSE]
         \/ UNCHANGED <<lru, bMustDetach>>
      /\ UNCHANGED <<nLockCount, pData, key, bandVars, callVars, scanVars, flushVars>>
  BY <1>0, <1>b DEF FlushDetach, DetachUnlocked, CallTypes, Goto
<1>2. b \in Blocks /\ key[b] \in Keys /\ UserOf(b) = t /\ slot[key[b]] = Null
  BY <1>0, <1>b, <1>1, UserIsOwner DEF KeysOf, FlushLabels
<1>3. /\ ToSet(lru') \in {ToSet(lru), ToSet(lru) \ {b}}
      /\ \A c \in Blocks \ {b} : bMustDetach'[c] = bMustDetach[c]
      /\ bMustDetach'[b] \/ b \notin ToSet(lru')
  <2>1. ToSet(Detached(lru, b)) = ToSet(lru) \ {b}
    BY <1>0, DetachedProperties DEF CacheTypes
  <2>2. b \in ToSet(lru) => bMustDetach[b]
    BY <1>0 DEF StoreInv
  <2> QED BY <1>0, <1>1, <1>2, <2>1, <2>2 DEF BlockTypes
<1>4. /\ ~HasLock(t) /\ ~HasLock(t)' /\ (InLoop(t)' <=> InLoop(t))
      /\ Using(t) = {} /\ Using(t)' = {} /\ toFree'[t] = toFree[t]
      /\ Claimed(t)' = Claimed(t) /\ b \in Claimed(t)
  BY <1>b, <1>1 DEF HasLock, Internalizing, EvictLabels, CriticalLabels, InLoop,
     Using, Claimed, Evicting, Flushing, scanVars, callVars, FlushLabels
<1>5. \A c : (Frees(c)' <=> Frees(c)) /\ (Out(c)' <=> Out(c)) /\ (Used(c)' <=> Used(c))
  <2>1. \A c : Frees(c)' <=> Frees(c)
    BY <1>1 DEF Frees, FreeBlocks, bandVars
  <2> QED BY <1>4, <2>1, SameRoles, SameUse
<1>6. Local(t)
  BY <1>1, <1>2, <1>3 DEF Local, bandVars
<1>7. KeysOf(t)' /\ OldSetOf(t)'
  BY <1>0, <1>1, <1>4 DEF KeysOf, OldSetOf, FlushLabels, callVars, bandVars, flushVars
<1>8. StoreInv'
  <2>1. \A c \in ToSet(lru') : key'[c] \in Keys /\ bMustDetach'[c]
    BY <1>0, <1>1, <1>3, ClaimedAreBlocks DEF StoreInv
  <2>2. \A u \in Threads : pc[u] = "unreference" =>
          pc'[u] = "unreference" /\ LastFreed(u)' = LastFreed(u)
    BY <1>1, OthersRoles
  <2>3. ASSUME NEW k \in Keys, slot'[k] # Null
        PROVE  /\ key'[slot'[k]] = k
               /\ \/ slot'[k] \in ToSet(lru')
                  \/ \E u \in Threads :
                       pc'[u] = "unreference" /\ slot'[k] = LastFreed(u)'
    <3>1. slot'[k] = slot[k] /\ slot[k] # b
      BY <1>0, <1>1, <1>2, <2>3 DEF StoreInv, bandVars
    <3> QED BY <1>0, <1>1, <1>3, <2>2, <2>3, <3>1 DEF StoreInv
  <2>4. \A d \in Bands : \A c \in FreeBlocks(d)' :
          key'[c] \in Keys /\ BandOf(key'[c]) = d
    BY <1>0, <1>1 DEF StoreInv, FreeBlocks, bandVars
  <2> QED BY <2>1, <2>3, <2>4 DEF StoreInv
<1>9. Exclusive'
  <2>1. UNCHANGED psListBlocksToFree /\ \A c \in ToSet(lru') : c \in ToSet(lru)
    BY <1>1, <1>3 DEF bandVars
  <2> QED BY <1>4, <2>1, ExclusiveStays
<1>10. LocksExact'
  <2>1. Out(b)'
    BY <1>4 DEF Out
  <2>2. nLockCount'[b] = (IF Used(b)' THEN 1 ELSE 0) - (IF Out(b)' THEN 1 ELSE 0)
    BY <1>0, <1>1, <1>2, <1>5 DEF LocksExact
  <2>3. \A u \in Threads \ {t} : poBlock[u] = b =>
          ~HasLock(u) /\ pc[u] \notin {"takeLock", "takeLockFailed", "flushWait"}
    BY <1>2, UserIsOwner DEF FlushLabels
  <2>4. pc'[t] \notin {"takeLockFailed", "flushWait", "takeLock"}
    BY <1>1
  <2>5. \A c \in Blocks \ {b} :
              /\ key'[c] = key[c] /\ nLockCount'[c] = nLockCount[c]
              /\ c \in ToSet(lru) => c \in ToSet(lru')
    BY <1>1, <1>3
  <2> QED
    BY <1>4, <1>5, <2>2, <2>3, <2>4, <2>5, LocksBut
<1> QED
  BY <1>6, <1>7, <1>8, <1>9, <1>10, KeysMoves DEF Owned

(* The destructor of a block that the thread has flushed.                  *)
LEMMA Owned_Delete ==
    ASSUME OwnInv, NEW t \in Threads, Others(t), Delete(t)
    PROVE  Owned'
<1>0. /\ CallTypes /\ CallOf(t) /\ BlockTypes /\ CacheTypes /\ KeysOf(t)
      /\ OldSetOf(t) /\ StoreInv /\ Exclusive /\ LocksExact
  BY DEF OwnInv, Owned, ControlInv, Types
<1>b. PICK b : b = poBlock[t]
  OBVIOUS
<1>1. /\ pc[t] = "delete" /\ pc'[t] \in {"flushNext", "failed", "flushed"}
      /\ op[t] \in FlushOps <=> pc'[t] = "flushNext"
      /\ IF bMustDetach[b]
         THEN lru' = Detached(lru, b) /\ bMustDetach' = [bMustDetach EXCEPT ![b] = FALSE]
         ELSE UNCHANGED <<lru, bMustDetach>>
      /\ Deleted({b})
      /\ UNCHANGED <<bandVars, op, at, scanVars, flushVars>>
  <2>1. pc[t] = "delete"
    BY <1>0 DEF Delete, KeysOf
  <2> QED BY <1>0, <1>b, <2>1 DEF Delete, DetachUnlocked, AfterFlushBlock,
             CallTypes, Goto
<1>2. b \in Blocks /\ key[b] \in Keys /\ UserOf(b) = t /\ slot[key[b]] = Null
  BY <1>0, <1>b, <1>1, UserIsOwner DEF KeysOf, FlushLabels
<1>3. /\ key'[b] = NoKey
      /\ \A c \in Blocks \ {b} :
           /\ key'[c] = key[c] /\ nLockCount'[c] = nLockCount[c]
           /\ pData'[c] = pData[c] /\ bMustDetach'[c] = bMustDetach[c]
      /\ ToSet(lru') = ToSet(lru) \ {b}
  <2>1. ToSet(Detached(lru, b)) = ToSet(lru) \ {b}
    BY <1>0, DetachedProperties DEF CacheTypes
  <2>2. b \in ToSet(lru) => bMustDetach[b]
    BY <1>0 DEF StoreInv
  <2>3. /\ key'[b] = NoKey
        /\ \A c \in Blocks \ {b} :
             /\ key'[c] = key[c] /\ nLockCount'[c] = nLockCount[c]
             /\ pData'[c] = pData[c]
    BY <1>1, <1>2 DEF Deleted
  <2>4. \A c \in Blocks \ {b} : bMustDetach'[c] = bMustDetach[c]
    BY <1>0, <1>1 DEF BlockTypes
  <2>5. ToSet(lru') = ToSet(lru) \ {b}
    BY <1>1, <2>1, <2>2
  <2> QED BY <2>3, <2>4, <2>5
<1>4. /\ ~HasLock(t) /\ ~HasLock(t)' /\ (InLoop(t)' <=> InLoop(t))
      /\ Using(t) = {} /\ Using(t)' = {} /\ toFree'[t] = toFree[t]
      /\ Claimed(t) = {b} /\ Claimed(t)' = {}
  <2>1. toFree[t] = << >>
    BY <1>1 DEF OwnInv, ControlInv, RoundInv, RoundOf, RoundLabels
  <2>2. ToSet(<< >>) = {}
    BY DEF ToSet
  <2> QED
    BY <1>b, <1>1, <2>1, <2>2 DEF HasLock, Internalizing, EvictLabels,
       CriticalLabels, InLoop, Using, Claimed, Evicting, Flushing, scanVars,
       FlushLabels
<1>5. /\ \A u \in Threads \ {t} : b \notin Claimed(u)
      /\ ~Frees(b)
  BY <1>0, <1>4 DEF Exclusive, Frees
<1>6. \A c : (Frees(c)' <=> Frees(c))
  BY <1>1 DEF Frees, FreeBlocks, bandVars
<1>7. Local(t)
  <2>1. \A u \in Threads \ {t} : \A c \in Claimed(u) : c \in Blocks \ {b}
    BY <1>5, ClaimedAreBlocks
  <2> QED BY <1>1, <1>2, <1>3, <2>1 DEF Local, bandVars
<1>8. KeysOf(t)'
  BY <1>1, <1>4 DEF KeysOf, FlushLabels
<1>9. OldSetOf(t)'
  <2>1. \A o \in Offs : oOldSet[t][o] # Null => oOldSet[t][o] \in Blocks \ {b}
    BY <1>0, <1>b, <1>1 DEF OldSetOf, FlushLabels, OwnInv, ControlInv, Types,
       FlushTypes, BlockOrNull
  <2>2. \A o \in Offs : oOldSet[t][o] # Null =>
          key'[oOldSet[t][o]] = key[oOldSet[t][o]]
    BY <1>3, <2>1
  <2> QED BY <1>0, <1>1, <1>4, <2>2 DEF OldSetOf, FlushLabels, bandVars, flushVars
<1>10. StoreInv'
  <2>1. \A c \in ToSet(lru') : key'[c] \in Keys /\ bMustDetach'[c]
    BY <1>0, <1>3, ClaimedAreBlocks DEF StoreInv
  <2>2. \A u \in Threads : pc[u] = "unreference" =>
          pc'[u] = "unreference" /\ LastFreed(u)' = LastFreed(u)
    BY <1>1, OthersRoles
  <2>3. ASSUME NEW k \in Keys, slot'[k] # Null
        PROVE  /\ key'[slot'[k]] = k
               /\ \/ slot'[k] \in ToSet(lru')
                  \/ \E u \in Threads :
                       pc'[u] = "unreference" /\ slot'[k] = LastFreed(u)'
    <3>1. slot'[k] = slot[k] /\ slot[k] # b /\ slot[k] \in Blocks
      BY <1>0, <1>1, <1>2, <2>3 DEF StoreInv, bandVars, OwnInv, ControlInv,
         Types, BandTypes, BlockOrNull
    <3> QED BY <1>0, <1>3, <2>2, <2>3, <3>1 DEF StoreInv
  <2>4. ASSUME NEW d \in Bands, NEW c \in FreeBlocks(d)'
        PROVE  key'[c] \in Keys /\ BandOf(key'[c]) = d
    <3>1. c \in FreeBlocks(d) /\ c \in Blocks /\ c # b
      BY <1>1, <1>5, ClaimedAreBlocks DEF FreeBlocks, bandVars, Frees
    <3> QED BY <1>0, <1>3, <3>1 DEF StoreInv
  <2> QED BY <2>1, <2>3, <2>4 DEF StoreInv
<1>11. Exclusive'
  <2>1. /\ \A u \in Threads : Claimed(u)' \subseteq Claimed(u) /\ toFree'[u] = toFree[u]
        /\ ToSet(lru') \subseteq ToSet(lru)
        /\ UNCHANGED psListBlocksToFree /\ \A d : FreeBlocks(d)' = FreeBlocks(d)
    BY <1>1, <1>3, <1>4, OthersRoles DEF bandVars, FreeBlocks
  <2> QED BY <1>0, <2>1 DEF Exclusive
<1>12. LocksExact'
  <2>1. key'[b] \notin Keys
    BY <1>3, NoKeyIsNoKey
  <2>2. \A u \in Threads \ {t} : poBlock[u] = b =>
          ~HasLock(u) /\ pc[u] \notin {"takeLock", "takeLockFailed", "flushWait"}
    BY <1>2, UserIsOwner DEF FlushLabels
  <2>3. pc'[t] \notin {"takeLockFailed", "flushWait", "takeLock"}
    BY <1>1
  <2> QED
    BY <1>3, <1>4, <1>6, <2>1, <2>2, <2>3, LocksBut
<1> QED
  BY <1>7, <1>8, <1>9, <1>10, <1>11, <1>12, KeysMoves DEF Owned

-----------------------------------------------------------------------------
(* The calls.                                                              *)
LEMMA Owned_Start ==
    ASSUME OwnInv, NEW t \in Threads, Start(t)
    PROVE  Owned'
<1>0. /\ CallTypes /\ ScanTypes /\ FlushTypes /\ BlockTypes /\ CallOf(t)
      /\ KeysOf(t) /\ Others(t)
  BY Others_Start DEF OwnInv, Owned, ControlInv, Types
<1>q. ASSUME Quiet(t) PROVE Owned'
  BY <1>0, <1>q, QuietStep
<1> USE DEF Goto, callVars, scanVars, flushVars, blockVars, bandVars, cacheVars,
            CallTypes, ScanTypes, FlushTypes
<1>1. ASSUME NEW o \in Ops, NEW k \in Keys, StartIO(t, o, k) PROVE Owned'
  <2>1. Quiet(t)
    BY <1>0, <1>1 DEF StartIO, Quiet, HasLock, Internalizing, EvictLabels,
       CriticalLabels, CallOf, OpOf, IoOps, ReadOps, WriteOps, GlobalOps,
       FlushOps, IoLabels, GlobalLabels, RoundEnd, Claimed, Evicting,
       Flushing, Using, KeysOf, InLoop, FlushLabels, NotYet
  <2> QED BY <1>q, <2>1
<1>2. ASSUME NEW o \in Ops, NEW k \in Keys, StartFlush(t, o, k) PROVE Owned'
  <2>1. Quiet(t)
    BY <1>0, <1>2 DEF StartFlush, Quiet, HasLock, Internalizing, EvictLabels,
       CriticalLabels, CallOf, OpOf, IoOps, ReadOps, WriteOps, GlobalOps,
       FlushOps, IoLabels, GlobalLabels, RoundEnd, Claimed, Evicting,
       Flushing, Using, KeysOf, InLoop, FlushLabels, NotYet
  <2> QED BY <1>q, <2>1
<1>3. ASSUME NEW o \in Ops, StartGlobal(t, o) PROVE Owned'
  <2>1. Quiet(t)
    BY <1>0, <1>3 DEF StartGlobal, Quiet, HasLock, Internalizing, EvictLabels,
       CriticalLabels, CallOf, OpOf, IoOps, ReadOps, WriteOps, GlobalOps,
       FlushOps, IoLabels, GlobalLabels, RoundEnd, Claimed, Evicting,
       Flushing, Using, KeysOf, InLoop, FlushLabels, NotYet
  <2> QED BY <1>q, <2>1
<1>4. ASSUME NEW ds \in Datasets, Reopen(t, ds) PROVE Owned'
  <2>1. Quiet(t)
    BY <1>0, <1>4 DEF Reopen, Quiet, HasLock, Internalizing, EvictLabels,
       CriticalLabels, CallOf, OpOf, IoOps, ReadOps, WriteOps, GlobalOps,
       FlushOps, IoLabels, GlobalLabels, RoundEnd, Claimed, Evicting,
       Flushing, Using, KeysOf, InLoop, FlushLabels, NotYet
  <2> QED BY <1>q, <2>1
<1>5. CASE EnterDisableDirtyBlockFlush(t)
  <2>1. Quiet(t)
    BY <1>0, <1>5 DEF EnterDisableDirtyBlockFlush, Quiet, HasLock,
       Internalizing, EvictLabels, CriticalLabels, CallOf, OpOf, IoOps,
       ReadOps, WriteOps, GlobalOps, FlushOps, IoLabels, GlobalLabels,
       RoundEnd, Claimed, Evicting, Flushing, Using, KeysOf, InLoop,
       FlushLabels, NotYet
  <2> QED BY <1>q, <2>1
<1>6. CASE LeaveDisableDirtyBlockFlush(t)
  <2>1. Quiet(t)
    BY <1>0, <1>6 DEF LeaveDisableDirtyBlockFlush, Quiet, HasLock,
       Internalizing, EvictLabels, CriticalLabels, CallOf, OpOf, IoOps,
       ReadOps, WriteOps, GlobalOps, FlushOps, IoLabels, GlobalLabels,
       RoundEnd, Claimed, Evicting, Flushing, Using, KeysOf, InLoop,
       FlushLabels, NotYet
  <2> QED BY <1>q, <2>1
<1> QED
  BY <1>1, <1>2, <1>3, <1>4, <1>5, <1>6 DEF Start

(* GetLockedBlockRef() and its callers.                                    *)
LEMMA Owned_Io ==
    ASSUME OwnInv, AllocationsSucceed, NEW t \in Threads, IoStep(t)
    PROVE  Owned'
<1>0. /\ CallTypes /\ ScanTypes /\ FlushTypes /\ BlockTypes /\ CallOf(t)
      /\ KeysOf(t) /\ Others(t)
  BY Others_Io DEF OwnInv, Owned, ControlInv, Types
<1>q. ASSUME Quiet(t) PROVE Owned'
  BY <1>0, <1>q, QuietStep
<1> USE DEF Goto, callVars, scanVars, flushVars, blockVars, bandVars, cacheVars,
            CallTypes, ScanTypes, FlushTypes
<1>1. CASE WaitPendingTasks(t)
  <2>1. Quiet(t)
    BY <1>0, <1>1 DEF WaitPendingTasks, Quiet, HasLock, Internalizing,
       EvictLabels, CriticalLabels, CallOf, OpOf, IoOps, ReadOps, WriteOps,
       GlobalOps, FlushOps, IoLabels, GlobalLabels, RoundEnd, Claimed,
       Evicting, Flushing, Using, KeysOf, InLoop, FlushLabels, NotYet
  <2> QED BY <1>q, <2>1
<1>2. CASE EnterReadWrite(t)
  <2>1. Quiet(t)
    BY <1>0, <1>2 DEF EnterReadWrite, Quiet, HasLock, Internalizing,
       EvictLabels, CriticalLabels, CallOf, OpOf, IoOps, ReadOps, WriteOps,
       GlobalOps, FlushOps, IoLabels, GlobalLabels, RoundEnd, Claimed,
       Evicting, Flushing, Using, KeysOf, InLoop, FlushLabels, NotYet
  <2> QED BY <1>q, <2>1
<1>3. CASE TryGetLockedBlockRef(t)
  BY <1>0, <1>3, Owned_TryGetLockedBlockRef
<1>4. CASE TakeLock(t)
  BY <1>0, <1>4, Owned_TakeLock
<1>5. CASE TakeLockFailed(t)
  BY <1>0, <1>5, Owned_TakeLockFailed
<1>6. CASE Touch(t)
  <2>1. Quiet(t)
    BY <1>0, <1>6 DEF Touch, IsNewest, Quiet, HasLock, Internalizing,
       EvictLabels, CriticalLabels, CallOf, OpOf, IoOps, ReadOps, WriteOps,
       GlobalOps, FlushOps, IoLabels, GlobalLabels, RoundEnd, Claimed,
       Evicting, Flushing, Using, KeysOf, InLoop, FlushLabels, NotYet
  <2> QED BY <1>q, <2>1
<1>7. CASE TouchLocked(t)
  BY <1>0, <1>7, Owned_TouchLocked
<1>8. CASE CreateBlockFails(t)
  <2>1. Quiet(t)
    BY <1>0, <1>8 DEF CreateBlockFails, Quiet, HasLock, Internalizing,
       EvictLabels, CriticalLabels, CallOf, OpOf, IoOps, ReadOps, WriteOps,
       GlobalOps, FlushOps, IoLabels, GlobalLabels, RoundEnd, Claimed,
       Evicting, Flushing, Using, KeysOf, InLoop, FlushLabels, NotYet
  <2> QED BY <1>q, <2>1
<1>9. CASE ReacquireReadWriteLock(t)
  <2>1. Quiet(t)
    BY <1>0, <1>9 DEF ReacquireReadWriteLock, Quiet, HasLock, Internalizing,
       EvictLabels, CriticalLabels, CallOf, OpOf, IoOps, ReadOps, WriteOps,
       GlobalOps, FlushOps, IoLabels, GlobalLabels, RoundEnd, Claimed,
       Evicting, Flushing, Using, KeysOf, InLoop, FlushLabels, NotYet
  <2> QED BY <1>q, <2>1
<1>10. ASSUME NEW b \in Blocks, CreateBlock(t, b) PROVE Owned'
  BY <1>0, <1>10, Owned_CreateBlock
<1>11. ASSUME NEW ok \in BOOLEAN, Allocate(t, ok) PROVE Owned'
  <2>1. ok = TRUE /\ pc[t] = "allocate" /\ poBlock[t] \in Blocks
    BY <1>0, <1>11, PointerIsBlock DEF Allocate, AllocationsSucceed,
       PointerLabels
  <2>2. pData'[poBlock[t]] # NoData
    BY <1>0, <1>11, <2>1 DEF Allocate, BlockTypes, NoData
  <2>3. UserOf(poBlock[t]) = t
    BY <2>1, UserIsOwner DEF HasLock
  <2>4. \A b \in Blocks : UserOf(b) # t => pData'[b] = pData[b]
    BY <1>0, <1>11, <2>3 DEF Allocate, BlockTypes
  <2>5. Quiet(t)
    BY <1>0, <1>11, <2>1, <2>2, <2>4 DEF Allocate, Quiet, HasLock,
       Internalizing, EvictLabels, CriticalLabels, CallOf, OpOf, IoOps,
       ReadOps, WriteOps, GlobalOps, FlushOps, IoLabels, GlobalLabels,
       RoundEnd, Claimed, Evicting, Flushing, Using, KeysOf, InLoop,
       FlushLabels, NotYet
  <2> QED BY <1>q, <2>5
<1>12. ASSUME NEW ok \in BOOLEAN, AdoptBlock(t, ok) PROVE Owned'
  BY <1>0, <1>12, Owned_AdoptBlock
<1>13. ASSUME NEW ok \in BOOLEAN, ReadBlock(t, ok) PROVE Owned'
  BY <1>0, <1>13, Owned_ReadBlock
<1>14. CASE WriteLocked(t)
  <2>1. pc[t] = "locked" /\ UserOf(poBlock[t]) = t
    BY <1>14, UserIsOwner DEF WriteLocked, HasLock
  <2>2. \A b \in Blocks : UserOf(b) # t => pData'[b] = pData[b]
    BY <1>0, <1>14, <2>1 DEF WriteLocked, BlockTypes
  <2>3. Quiet(t)
    BY <1>0, <1>14, <2>1, <2>2 DEF WriteLocked, Quiet, HasLock, Internalizing,
       EvictLabels, CriticalLabels, CallOf, OpOf, IoOps, ReadOps, WriteOps,
       GlobalOps, FlushOps, IoLabels, GlobalLabels, RoundEnd, Claimed,
       Evicting, Flushing, Using, KeysOf, InLoop, FlushLabels, NotYet
  <2> QED BY <1>q, <2>3
<1>15. CASE Discard(t)
  BY <1>0, <1>15 DEF Discard, KeysOf
<1>16. CASE Failed(t)
  <2>1. Quiet(t)
    BY <1>0, <1>16 DEF Failed, Return, Quiet, HasLock, Internalizing,
       EvictLabels, CriticalLabels, CallOf, OpOf, IoOps, ReadOps, WriteOps,
       GlobalOps, FlushOps, IoLabels, GlobalLabels, RoundEnd, Claimed,
       Evicting, Flushing, Using, KeysOf, InLoop, FlushLabels, NotYet
  <2> QED BY <1>q, <2>1
<1>17. ASSUME NEW more \in BOOLEAN, DropLock(t, more) PROVE Owned'
  BY <1>0, <1>17, Owned_DropLock
<1> QED
  BY <1>1, <1>2, <1>3, <1>4, <1>5, <1>6, <1>7, <1>8, <1>9, <1>10, <1>11,
     <1>12, <1>13, <1>14, <1>15, <1>16, <1>17 DEF IoStep

(* Evictions.                                                              *)
LEMMA Owned_Evict ==
    ASSUME OwnInv, NEW t \in Threads, EvictStep(t)
    PROVE  Owned'
<1>0. /\ CallTypes /\ ScanTypes /\ FlushTypes /\ BlockTypes /\ CallOf(t)
      /\ KeysOf(t) /\ Others(t)
  BY Others_Evict DEF OwnInv, Owned, ControlInv, Types
<1>q. ASSUME Quiet(t) PROVE Owned'
  BY <1>0, <1>q, QuietStep
<1> USE DEF Goto, callVars, scanVars, flushVars, blockVars, bandVars, cacheVars,
            CallTypes, ScanTypes, FlushTypes
<1>1. CASE InternalizeLock(t)
  <2>1. Quiet(t)
    BY <1>0, <1>1 DEF InternalizeLock, StartRound, Quiet, HasLock,
       Internalizing, EvictLabels, CriticalLabels, CallOf, OpOf, IoOps,
       ReadOps, WriteOps, GlobalOps, FlushOps, IoLabels, GlobalLabels,
       RoundEnd, Claimed, Evicting, Flushing, Using, KeysOf, InLoop,
       FlushLabels, NotYet
  <2> QED BY <1>q, <2>1
<1>2. CASE Scan(t)
  <2>1. Quiet(t)
    BY <1>0, <1>2 DEF Scan, Quiet, HasLock, Internalizing, EvictLabels,
       CriticalLabels, CallOf, OpOf, IoOps, ReadOps, WriteOps, GlobalOps,
       FlushOps, IoLabels, GlobalLabels, RoundEnd, Claimed, Evicting,
       Flushing, Using, KeysOf, InLoop, FlushLabels, NotYet
  <2> QED BY <1>q, <2>1
<1>3. CASE Exchange(t)
  BY <1>0, <1>3, Owned_Claim
<1>4. CASE ExchangeOther(t)
  BY <1>0, <1>4, Owned_Claim
<1>5. CASE Fallback(t)
  BY <1>0, <1>5, Owned_Claim
<1>6. CASE FallbackEnds(t)
  <2>1. Quiet(t)
    BY <1>0, <1>6 DEF FallbackEnds, Quiet, HasLock, Internalizing,
       EvictLabels, CriticalLabels, CallOf, OpOf, IoOps, ReadOps, WriteOps,
       GlobalOps, FlushOps, IoLabels, GlobalLabels, RoundEnd, Claimed,
       Evicting, Flushing, Using, KeysOf, InLoop, FlushLabels, NotYet
  <2> QED BY <1>q, <2>1
<1>7. CASE Detach(t)
  BY <1>0, <1>7, Owned_Detach
<1>8. CASE UnreferenceBlock(t)
  BY <1>0, <1>8, Owned_UnreferenceBlock
<1>9. CASE Scanned(t)
  BY <1>0, <1>9, Owned_Scanned
<1>10. CASE FreeNext(t)
  <2>1. Quiet(t)
    BY <1>0, <1>10 DEF FreeNext, Quiet, HasLock, Internalizing, EvictLabels,
       CriticalLabels, CallOf, OpOf, IoOps, ReadOps, WriteOps, GlobalOps,
       FlushOps, IoLabels, GlobalLabels, RoundEnd, Claimed, Evicting,
       Flushing, Using, KeysOf, InLoop, FlushLabels, NotYet
  <2> QED BY <1>q, <2>1
<1>11. CASE Release(t)
  BY <1>0, <1>11, Owned_Release
<1>12. CASE KeepAliveDec(t)
  <2>1. Quiet(t)
    BY <1>0, <1>12 DEF KeepAliveDec, Quiet, HasLock, Internalizing,
       EvictLabels, CriticalLabels, CallOf, OpOf, IoOps, ReadOps, WriteOps,
       GlobalOps, FlushOps, IoLabels, GlobalLabels, RoundEnd, Claimed,
       Evicting, Flushing, Using, KeysOf, InLoop, FlushLabels, NotYet
  <2> QED BY <1>q, <2>1
<1>13. CASE FreeEnds(t)
  <2>1. Quiet(t)
    BY <1>0, <1>13 DEF FreeEnds, Quiet, HasLock, Internalizing, EvictLabels,
       CriticalLabels, CallOf, OpOf, IoOps, ReadOps, WriteOps, GlobalOps,
       FlushOps, IoLabels, GlobalLabels, RoundEnd, Claimed, Evicting,
       Flushing, Using, KeysOf, InLoop, FlushLabels, NotYet
  <2> QED BY <1>q, <2>1
<1>14. ASSUME NEW ok \in BOOLEAN, WriteEvicted(t, ok) PROVE Owned'
  <2>1. Quiet(t)
    BY <1>0, <1>14 DEF WriteEvicted, Quiet, HasLock, Internalizing,
       EvictLabels, CriticalLabels, CallOf, OpOf, IoOps, ReadOps, WriteOps,
       GlobalOps, FlushOps, IoLabels, GlobalLabels, RoundEnd, Claimed,
       Evicting, Flushing, Using, KeysOf, InLoop, FlushLabels, NotYet
  <2> QED BY <1>q, <2>1
<1>15. CASE SetCacheMaxLoop(t)
  <2>1. Quiet(t)
    BY <1>0, <1>15 DEF SetCacheMaxLoop, Quiet, HasLock, Internalizing,
       EvictLabels, CriticalLabels, CallOf, OpOf, IoOps, ReadOps, WriteOps,
       GlobalOps, FlushOps, IoLabels, GlobalLabels, RoundEnd, Claimed,
       Evicting, Flushing, Using, KeysOf, InLoop, FlushLabels, NotYet
  <2> QED BY <1>q, <2>1
<1>16. CASE FlushCacheBlock(t)
  <2>1. Quiet(t)
    BY <1>0, <1>16 DEF FlushCacheBlock, Quiet, HasLock, Internalizing,
       EvictLabels, CriticalLabels, CallOf, OpOf, IoOps, ReadOps, WriteOps,
       GlobalOps, FlushOps, IoLabels, GlobalLabels, RoundEnd, Claimed,
       Evicting, Flushing, Using, KeysOf, InLoop, FlushLabels, NotYet
  <2> QED BY <1>q, <2>1
<1>17. CASE FlushScan(t)
  <2>1. Quiet(t)
    BY <1>0, <1>17 DEF FlushScan, Quiet, HasLock, Internalizing, EvictLabels,
       CriticalLabels, CallOf, OpOf, IoOps, ReadOps, WriteOps, GlobalOps,
       FlushOps, IoLabels, GlobalLabels, RoundEnd, Claimed, Evicting,
       Flushing, Using, KeysOf, InLoop, FlushLabels, NotYet
  <2> QED BY <1>q, <2>1
<1>18. CASE FlushExchange(t)
  BY <1>0, <1>18, Owned_Claim
<1>19. CASE FlushScanEnds(t)
  <2>1. Quiet(t)
    BY <1>0, <1>19 DEF FlushScanEnds, Quiet, HasLock, Internalizing,
       EvictLabels, CriticalLabels, CallOf, OpOf, IoOps, ReadOps, WriteOps,
       GlobalOps, FlushOps, IoLabels, GlobalLabels, RoundEnd, Claimed,
       Evicting, Flushing, Using, KeysOf, InLoop, FlushLabels, NotYet
  <2> QED BY <1>q, <2>1
<1>20. CASE FlushedOne(t)
  <2>1. Quiet(t)
    BY <1>0, <1>20 DEF FlushedOne, Quiet, HasLock, Internalizing, EvictLabels,
       CriticalLabels, CallOf, OpOf, IoOps, ReadOps, WriteOps, GlobalOps,
       FlushOps, IoLabels, GlobalLabels, RoundEnd, Claimed, Evicting,
       Flushing, Using, KeysOf, InLoop, FlushLabels, NotYet
  <2> QED BY <1>q, <2>1
<1> QED
  BY <1>1, <1>2, <1>3, <1>4, <1>5, <1>6, <1>7, <1>8, <1>9, <1>10, <1>11,
     <1>12, <1>13, <1>14, <1>15, <1>16, <1>17, <1>18, <1>19, <1>20 DEF
     EvictStep

(* FlushBlock(), FlushCache() and the destructors.                         *)
LEMMA Owned_Flush ==
    ASSUME OwnInv, NEW t \in Threads, FlushStep(t)
    PROVE  Owned'
<1>0. /\ CallTypes /\ ScanTypes /\ FlushTypes /\ BlockTypes /\ CallOf(t)
      /\ KeysOf(t) /\ Others(t)
  BY Others_Flush DEF OwnInv, Owned, ControlInv, Types
<1>q. ASSUME Quiet(t) PROVE Owned'
  BY <1>0, <1>q, QuietStep
<1> USE DEF Goto, callVars, scanVars, flushVars, blockVars, bandVars, cacheVars,
            CallTypes, ScanTypes, FlushTypes
<1>1. CASE FlushBlock(t)
  BY <1>0, <1>1, Owned_FlushBlock
<1>2. CASE ClaimFlush(t)
  BY <1>0, <1>2, Owned_ClaimFlush
<1>3. CASE FlushWait(t)
  BY <1>0, <1>3, Owned_FlushWait
<1>4. CASE FlushDetach(t)
  BY <1>0, <1>4, Owned_FlushDetach
<1>5. CASE FlushWrite(t)
  <2>1. Quiet(t)
    BY <1>0, <1>5 DEF FlushWrite, Quiet, HasLock, Internalizing, EvictLabels,
       CriticalLabels, CallOf, OpOf, IoOps, ReadOps, WriteOps, GlobalOps,
       FlushOps, IoLabels, GlobalLabels, RoundEnd, Claimed, Evicting,
       Flushing, Using, KeysOf, InLoop, FlushLabels, NotYet
  <2> QED BY <1>q, <2>1
<1>6. CASE Delete(t)
  BY <1>0, <1>6, Owned_Delete
<1>7. CASE FlushCache(t)
  <2>1. Quiet(t)
    BY <1>0, <1>7 DEF FlushCache, Quiet, HasLock, Internalizing, EvictLabels,
       CriticalLabels, CallOf, OpOf, IoOps, ReadOps, WriteOps, GlobalOps,
       FlushOps, IoLabels, GlobalLabels, RoundEnd, Claimed, Evicting,
       Flushing, Using, KeysOf, InLoop, FlushLabels, NotYet
  <2> QED BY <1>q, <2>1
<1>8. CASE FlushStorage(t)
  BY <1>0, <1>8, Owned_FlushStorage
<1>9. CASE FlushNext(t)
  BY <1>0, <1>9, Owned_FlushNext
<1>10. CASE FlushEnds(t)
  <2>1. Quiet(t)
    BY <1>0, <1>10 DEF FlushEnds, Quiet, HasLock, Internalizing, EvictLabels,
       CriticalLabels, CallOf, OpOf, IoOps, ReadOps, WriteOps, GlobalOps,
       FlushOps, IoLabels, GlobalLabels, RoundEnd, Claimed, Evicting,
       Flushing, Using, KeysOf, InLoop, FlushLabels, NotYet
  <2> QED BY <1>q, <2>1
<1>11. CASE Destroy(t)
  BY <1>0, <1>11, Owned_Destroy
<1>12. CASE Flushed(t)
  <2>1. Quiet(t)
    BY <1>0, <1>12 DEF Flushed, Return, Quiet, HasLock, Internalizing,
       EvictLabels, CriticalLabels, CallOf, OpOf, IoOps, ReadOps, WriteOps,
       GlobalOps, FlushOps, IoLabels, GlobalLabels, RoundEnd, Claimed,
       Evicting, Flushing, Using, KeysOf, InLoop, FlushLabels, NotYet
  <2> QED BY <1>q, <2>1
<1>13. ASSUME NEW ok \in BOOLEAN, FlushIO(t, ok) PROVE Owned'
  <2>1. Quiet(t)
    BY <1>0, <1>13 DEF FlushIO, Quiet, HasLock, Internalizing, EvictLabels,
       CriticalLabels, CallOf, OpOf, IoOps, ReadOps, WriteOps, GlobalOps,
       FlushOps, IoLabels, GlobalLabels, RoundEnd, Claimed, Evicting,
       Flushing, Using, KeysOf, InLoop, FlushLabels, NotYet
  <2> QED BY <1>q, <2>1
<1> QED
  BY <1>1, <1>2, <1>3, <1>4, <1>5, <1>6, <1>7, <1>8, <1>9, <1>10, <1>11,
     <1>12, <1>13 DEF FlushStep

-----------------------------------------------------------------------------
(* Nothing is cached at first.                                             *)
LEMMA Owned_Init == Init => Owned
<1> SUFFICES ASSUME Init PROVE Owned
  OBVIOUS
<1>e. ToSet(<< >>) = {} /\ NoDuplicates(<< >>)
  BY DEF ToSet, NoDuplicates
<1>1. \A t \in Threads : /\ pc[t] = "idle" /\ op[t] = "none" /\ toFree[t] = << >>
                         /\ \A o \in Offs : oOldSet[t][o] = Null
  BY DEF Init
<1>2. ASSUME NEW t \in Threads
      PROVE  /\ Claimed(t) = {} /\ Using(t) = {} /\ ~HasLock(t) /\ ~InLoop(t)
             /\ ToSet(toFree[t]) = {} /\ NoDuplicates(toFree[t])
  BY <1>e, <1>1 DEF Claimed, Evicting, Flushing, Using, HasLock, Internalizing,
     EvictLabels, CriticalLabels, InLoop, FlushLabels
<1>3. /\ \A d \in Bands : FreeBlocks(d) = {} /\ NoDuplicates(psListBlocksToFree[d])
      /\ ToSet(lru) = {} /\ \A k \in Keys : slot[k] = Null
      /\ \A b \in Blocks : key[b] = NoKey
  BY <1>e DEF Init, FreeBlocks, LruInit
<1>4. \A t \in Threads : KeysOf(t) /\ OldSetOf(t)
  BY <1>1, <1>2 DEF KeysOf, OldSetOf, FlushLabels
<1>5. StoreInv /\ Exclusive
  BY <1>2, <1>3 DEF StoreInv, Exclusive
<1>6. LocksExact
  BY <1>1, <1>2, <1>3, NoKeyIsNoKey DEF LocksExact
<1> QED BY <1>4, <1>5, <1>6 DEF Owned

(* Every step of every thread keeps the ownership of blocks, where         *)
(* allocations succeed.                                                    *)
LEMMA OwnInv_Next ==
    ASSUME AllocationsSucceed, OwnInv, [Next]_vars
    PROVE  OwnInv'
<1>1. ControlInv'
  BY ControlInv_Next DEF OwnInv
<1>2. ASSUME NEW t \in Threads, Start(t) \/ Step(t) PROVE Owned'
  BY <1>2, Owned_Start, Owned_Io, Owned_Evict, Owned_Flush DEF Step
<1>3. CASE UNCHANGED vars
  <2> USE <1>3 DEF vars, blockVars, cacheVars, bandVars, dataVars, callVars,
                   scanVars, flushVars
  <2>1. \A t \in Threads :
          /\ HasLock(t)' <=> HasLock(t)
          /\ NotYet(t)' <=> NotYet(t)
          /\ InLoop(t)' <=> InLoop(t)
          /\ Claimed(t)' = Claimed(t) /\ Using(t)' = Using(t)
          /\ LastFreed(t)' = LastFreed(t)
    BY DEF HasLock, Internalizing, NotYet, InLoop, Claimed, Evicting, Flushing,
       Using, LastFreed
  <2>2. \A d : FreeBlocks(d)' = FreeBlocks(d)
    BY DEF FreeBlocks
  <2>3. \A b : (Out(b)' <=> Out(b)) /\ (Used(b)' <=> Used(b))
    BY <2>1, <2>2 DEF Out, Used, Frees
  <2>4. \A t \in Threads : KeysOf(t)' /\ OldSetOf(t)'
    BY <2>1 DEF OwnInv, Owned, KeysOf, OldSetOf
  <2>5. StoreInv' /\ Exclusive'
    BY <2>1, <2>2 DEF OwnInv, Owned, StoreInv, Exclusive
  <2>6. LocksExact'
    <3>1. \A t \in Threads : Out(poBlock[t])' <=> Out(poBlock[t])
      BY <2>1, <2>2 DEF Out, Frees
    <3>2. LocksExact
      BY DEF OwnInv, Owned
    <3>3. ASSUME NEW b \in Blocks, key'[b] \in Keys
          PROVE  nLockCount'[b] =
                   (IF Used(b)' THEN 1 ELSE 0) - (IF Out(b)' THEN 1 ELSE 0)
      BY <2>3, <3>2, <3>3 DEF LocksExact
    <3>4. ASSUME NEW t \in Threads
          PROVE  /\ HasLock(t)' => ~Out(poBlock[t])'
                 /\ HasLock(t)' /\ ~NotYet(t)' => poBlock'[t] \in ToSet(lru')
                 /\ pc'[t] \in {"takeLockFailed", "flushWait"} => Out(poBlock[t])'
                 /\ pc'[t] = "takeLock" =>
                      poBlock'[t] \in ToSet(lru') \/ Out(poBlock[t])'
      BY <2>1, <3>1, <3>2 DEF LocksExact
    <3> QED BY <3>3, <3>4 DEF LocksExact
  <2> QED BY <1>1, <2>4, <2>5, <2>6 DEF OwnInv, Owned
<1> QED
  BY <1>1, <1>2, <1>3 DEF Next, OwnInv

(* Where allocations succeed, the ownership of blocks is an invariant: see *)
(* Owned.                                                                  *)
THEOREM Ownership == AllocationsSucceed => (Spec => []OwnInv)
<1> SUFFICES ASSUME AllocationsSucceed PROVE Spec => []OwnInv
  OBVIOUS
<1>1. Init => OwnInv
  BY ControlInv_Init, Owned_Init DEF OwnInv
<1>2. OwnInv /\ [Next]_vars => OwnInv'
  BY OwnInv_Next
<1> QED
  BY <1>1, <1>2, PTL DEF Spec

(* One thread at most uses a block, one at most has claimed it, and it is  *)
(* in one free list at most: the counts of LockCountExact are 0 or 1.      *)
LEMMA OwnedLockCount == OwnInv => LockCountExact
<1> SUFFICES ASSUME OwnInv, NEW b \in Blocks, key[b] # NoKey
             PROVE  nLockCount[b] =
                      Cardinality({t \in Threads : poBlock[t] = b
                                    /\ (HasLock(t) \/ pc[t] = "takeLockFailed")})
                      - Cardinality({t \in Threads : b \in Claimed(t)})
                      - Cardinality({d \in Bands : b \in FreeBlocks(d)})
  BY DEF LockCountExact
<1>0. BlockTypes /\ StoreInv /\ Exclusive /\ LocksExact
  BY DEF OwnInv, Owned, ControlInv, Types
<1>1. key[b] \in Keys
  BY <1>0 DEF BlockTypes
<1> DEFINE U == {t \in Threads : poBlock[t] = b
                   /\ (HasLock(t) \/ pc[t] = "takeLockFailed")}
           C == {t \in Threads : b \in Claimed(t)}
           F == {d \in Bands : b \in FreeBlocks(d)}
<1>2. Cardinality(U) = IF Used(b) THEN 1 ELSE 0
  <2>1. \A t \in Threads : t \in U <=> b \in Using(t)
    BY DEF Using
  <2>2. ASSUME NEW t \in U PROVE U = {t}
    <3>1. \A u \in U : u = UserOf(b)
      BY UserIsOwner
    <3> QED BY <2>2, <3>1
  <2>3. Cardinality({}) = 0 /\ \A t : Cardinality({t}) = 1
    BY FS_EmptySet, FS_Singleton
  <2>4. CASE U = {}
    <3>1. ~Used(b)
      BY <2>1, <2>4 DEF Used
    <3> QED BY <2>3, <2>4, <3>1
  <2>5. CASE U # {}
    <3>1. PICK t \in U : TRUE
      BY <2>5
    <3>2. Used(b)
      BY <2>1, <3>1 DEF Used
    <3> QED BY <2>2, <2>3, <3>1, <3>2
  <2> QED BY <2>4, <2>5
<1>3. /\ Cardinality(C) \in {0, 1} /\ (Cardinality(C) = 0 <=> C = {})
  <2>1. Cardinality({}) = 0 /\ \A t : Cardinality({t}) = 1
    BY FS_EmptySet, FS_Singleton
  <2>2. ASSUME NEW t \in C PROVE C = {t}
    BY <1>0, <2>2 DEF Exclusive
  <2>3. CASE C = {}
    BY <2>1, <2>3
  <2>4. CASE C # {}
    <3>1. PICK t \in C : TRUE
      BY <2>4
    <3>2. C = {t}
      BY <2>2, <3>1
    <3> HIDE DEF C
    <3> QED BY <2>1, <2>4, <3>2
  <2> QED BY <2>3, <2>4
<1>4. /\ Cardinality(F) \in {0, 1} /\ (Cardinality(F) = 0 <=> F = {})
  <2>1. Cardinality({}) = 0 /\ \A t : Cardinality({t}) = 1
    BY FS_EmptySet, FS_Singleton
  <2>2. ASSUME NEW d \in F PROVE F = {d}
    BY <1>0, <2>2 DEF StoreInv
  <2>3. CASE F = {}
    BY <2>1, <2>3
  <2>4. CASE F # {}
    <3>1. PICK d \in F : TRUE
      BY <2>4
    <3>2. F = {d}
      BY <2>2, <3>1
    <3> HIDE DEF F
    <3> QED BY <2>1, <2>4, <3>2
  <2> QED BY <2>3, <2>4
<1>5. C = {} \/ F = {}
  BY <1>0 DEF Exclusive
<1>6. Out(b) <=> C # {} \/ F # {}
  BY DEF Out, Frees
<1>7. nLockCount[b] = (IF Used(b) THEN 1 ELSE 0) - (IF Out(b) THEN 1 ELSE 0)
  BY <1>0, <1>1 DEF LocksExact
<1> HIDE DEF U, C, F
<1>8. nLockCount[b] = Cardinality(U) - Cardinality(C) - Cardinality(F)
  BY <1>2, <1>3, <1>4, <1>5, <1>6, <1>7
<1> QED BY <1>8 DEF U, C, F

(* A block is never evicted or flushed under the feet of a thread that     *)
(* uses it, nor by two threads at once, however many threads share the     *)
(* cache: nLockCount, on which TakeLock() and the atomic exchanges of      *)
(* Internalize() and DropLockForRemovalFromStorage() rely, is exact.       *)
THEOREM LockCountIsExact == AllocationsSucceed => (Spec => []LockCountExact)
<1> SUFFICES ASSUME AllocationsSucceed PROVE Spec => []LockCountExact
  OBVIOUS
<1>1. Spec => []OwnInv
  BY Ownership
<1>2. OwnInv => LockCountExact
  BY OwnedLockCount
<1> QED
  BY <1>1, <1>2, PTL

=============================================================================
