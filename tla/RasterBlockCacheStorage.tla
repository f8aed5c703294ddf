------------------------ MODULE RasterBlockCacheStorage ------------------------
(***************************************************************************)
(* Where the blocks of the cache are, for any number of threads, datasets, *)
(* bands and blocks: the owner of a band finds each of its cached blocks   *)
(* in the storage of the band, FlushCache() leaves none behind, and a band *)
(* is destroyed only when no block and no evictor refers to it.  It builds *)
(* on the ownership of blocks, and holds where that does.  The later parts *)
(* prove the memory of the cache, the count of dirty blocks and, for one   *)
(* thread, that no pixels that were written are lost.                      *)
(***************************************************************************)
EXTENDS RasterBlockCacheOwnership

(* Thread t holds a new block that is not in the storage of its band yet.  *)
HoldsNew(t) == Internalizing(t) \/ pc[t] \in {"allocate", "reacquire", "adopt"}

(* It has been in the critical section of Internalize() since it found no  *)
(* block in the storage.                                                   *)
Past(t) == HoldsNew(t) /\ pc[t] # "internalize"

(* Every block object is in the list, in the hands of a thread that has    *)
(* claimed it, in a free list, or new.                                     *)
Placed ==
    \A b \in Blocks : key[b] \in Keys =>
        \/ b \in ToSet(lru) \/ Out(b)
        \/ \E t \in Threads : poBlock[t] = b /\ NotYet(t)

(* A block of the list is in the storage of its band, unless a thread is   *)
(* about to add it there or has just taken it from there.                  *)
HeldBy(t, b) == \/ poBlock[t] = b /\ (HoldsNew(t) \/ pc[t] \in FlushLabels)
                \/ \E o \in Offs : oOldSet[t][o] = b
Found == \A b \in ToSet(lru) :
            slot[key[b]] = b \/ \E t \in Threads : HeldBy(t, b)

(* The block that thread t is about to take out of the storage of its band *)
(* as an evictor.                                                          *)
Unreferencing(t) == IF pc[t] = "detach" THEN poTarget[t]
                    ELSE IF pc[t] = "unreference" THEN LastFreed(t) ELSE Null

(* The slot of the block that thread t asks for, or evicts.                *)
NewOf(t) ==
    /\ Past(t) => slot[at[t]] = Null
    /\ pc[t] \in {"takeLockFailed", "create", "internalize"} =>
          \/ slot[at[t]] = Null
          \/ \E u \in Threads \ {t} : slot[at[t]] = Unreferencing(u)
    /\ pc[t] = "takeLock" => slot[at[t]] \in {Null, poBlock[t]}
    /\ pc[t] = "unreference" =>
          /\ slot[key[LastFreed(t)]] \in {Null, LastFreed(t)}
          /\ \A u \in Threads : Past(u) => at[u] # key[LastFreed(t)]

(* The part of the storage that FlushCache() has emptied.                  *)
LoopOf(t) ==
    /\ InLoop(t) => \A o \in Offs : iOff[t] = 0 \/ o < iOff[t] =>
                        slot[<<BandOf(at[t]), o>>] = Null
    /\ pc[t] \in {"flushed", "destroy"} /\ op[t] \in FlushOps =>
          /\ \A o \in Offs : slot[<<BandOf(at[t]), o>>] = Null
          /\ \A b \in ToSet(lru) : BandOf(key[b]) # BandOf(at[t])

Filed == Placed /\ Found /\ \A t \in Threads : NewOf(t) /\ LoopOf(t)
FiledInv == OwnInv /\ Filed

-----------------------------------------------------------------------------
(* What a step of thread t does to the storage, to the list and to the     *)
(* blocks: it stores the new block that it holds, and nothing else; it     *)
(* adds its own block to the list; it enters the critical section of       *)
(* Internalize() when no evictor is in it.                                 *)
Changes(t) ==
    /\ \A k \in Keys : slot'[k] \in {slot[k], Null} \/ (k = at[t] /\ Past(t))
    /\ Unreferencing(t) # Null =>
          \/ Unreferencing(t)' = Unreferencing(t)
          \/ slot'[key[Unreferencing(t)]] = Null
    /\ Past(t)' => (Past(t) /\ at'[t] = at[t]) \/ hRBLock = NoThread
    /\ \A u \in Threads \ {t} : \A b \in Claimed(u) : key'[b] = key[b]
    /\ \A b \in ToSet(lru') :
          \/ b \in ToSet(lru) /\ key'[b] = key[b]
          \/ key'[b] = at[t] /\ op[t] \in OwnerOps

PlacedStep(t) ==
    /\ \A b \in Blocks : key'[b] \in Keys =>
          key[b] \in Keys \/ (poBlock'[t] = b /\ NotYet(t)')
    /\ \A b \in Blocks :
          key'[b] \in Keys /\ (b \in ToSet(lru) \/ b \in Claimed(t) \/ Frees(b)) =>
             \/ b \in ToSet(lru') \/ (b \in Claimed(t))' \/ Frees(b)'
             \/ poBlock'[t] = b /\ NotYet(t)'
    /\ NotYet(t) => \/ NotYet(t)' /\ poBlock'[t] = poBlock[t]
                    \/ poBlock[t] \in ToSet(lru')

FoundStep(t) ==
    \A b \in ToSet(lru') :
        \/ HeldBy(t, b)' \/ slot'[key'[b]] = b
        \/ /\ b \in ToSet(lru) /\ key'[b] = key[b] /\ ~HeldBy(t, b)
           /\ slot[key[b]] = b => slot'[key[b]] = b

(* The other threads keep their part of the invariant.                     *)
LEMMA StorageRoles ==
    ASSUME NEW t \in Threads, Others(t), NEW u \in Threads, u # t
    PROVE  /\ HoldsNew(u)' <=> HoldsNew(u)
           /\ Past(u)' <=> Past(u)
           /\ \A b : HeldBy(u, b)' <=> HeldBy(u, b)
           /\ Unreferencing(u)' = Unreferencing(u)
<1>1. /\ pc'[u] = pc[u] /\ op'[u] = op[u] /\ poBlock'[u] = poBlock[u]
      /\ poTarget'[u] = poTarget[u] /\ oOldSet'[u] = oOldSet[u]
      /\ LastFreed(u)' = LastFreed(u)
  BY OthersRoles
<1>2. HoldsNew(u)' <=> HoldsNew(u)
  BY <1>1 DEF HoldsNew, Internalizing
<1>3. \A b : HeldBy(u, b)' <=> HeldBy(u, b)
  BY <1>1, <1>2 DEF HeldBy
<1>4. (Past(u)' <=> Past(u)) /\ Unreferencing(u)' = Unreferencing(u)
  BY <1>1, <1>2 DEF Past, Unreferencing
<1> QED
  BY <1>2, <1>3, <1>4

(* A step keeps every block somewhere if it moves the blocks that it       *)
(* disturbs.                                                               *)
LEMMA PlacedMoves ==
    ASSUME Placed, NEW t \in Threads, Others(t), PlacedStep(t)
    PROVE  Placed'
<1> SUFFICES ASSUME NEW b \in Blocks, key'[b] \in Keys
             PROVE  \/ b \in ToSet(lru') \/ Out(b)'
                    \/ \E u \in Threads : (poBlock[u] = b /\ NotYet(u))'
  BY DEF Placed
<1>1. CASE poBlock'[t] = b /\ NotYet(t)'
  BY <1>1
<1>2. CASE b \in ToSet(lru') \/ (b \in Claimed(t))' \/ Frees(b)'
  BY <1>2 DEF Out
<1>3. CASE ~(poBlock'[t] = b /\ NotYet(t)') /\
           ~(b \in ToSet(lru') \/ (b \in Claimed(t))' \/ Frees(b)')
  <2>1. key[b] \in Keys /\ b \notin ToSet(lru) /\ b \notin Claimed(t) /\ ~Frees(b)
    BY <1>3 DEF PlacedStep
  <2>2. ~(poBlock[t] = b /\ NotYet(t))
    BY <1>3 DEF PlacedStep
  <2>3. PICK u \in Threads : b \in Claimed(u) \/ (poBlock[u] = b /\ NotYet(u))
    BY <2>1 DEF Placed, Out
  <2>4. u # t
    BY <2>1, <2>2, <2>3
  <2>5. /\ Claimed(u)' = Claimed(u) /\ poBlock'[u] = poBlock[u]
        /\ NotYet(u)' <=> NotYet(u)
    BY <2>4, OthersRoles
  <2> QED BY <2>3, <2>5 DEF Out
<1> QED
  BY <1>1, <1>2, <1>3

(* A step keeps the blocks of the list in the storage if it stores, or     *)
(* holds, those that it disturbs.                                          *)
LEMMA FoundMoves ==
    ASSUME Found, NEW t \in Threads, Others(t), FoundStep(t)
    PROVE  Found'
<1> SUFFICES ASSUME NEW b \in ToSet(lru')
             PROVE  slot'[key'[b]] = b \/ \E u \in Threads : HeldBy(u, b)'
  BY DEF Found
<1>1. CASE HeldBy(t, b)' \/ slot'[key'[b]] = b
  BY <1>1
<1>2. CASE /\ b \in ToSet(lru) /\ key'[b] = key[b] /\ ~HeldBy(t, b)
           /\ slot[key[b]] = b => slot'[key[b]] = b
  <2>1. slot[key[b]] = b \/ \E u \in Threads \ {t} : HeldBy(u, b)
    BY <1>2 DEF Found
  <2>2. \A u \in Threads \ {t} : HeldBy(u, b)' <=> HeldBy(u, b)
    BY StorageRoles
  <2> QED BY <1>2, <2>1, <2>2
<1> QED
  BY <1>1, <1>2 DEF FoundStep

(* A thread that is past the critical section, or that asks for a block,   *)
(* has a key of its own datasets.                                          *)
LEMMA NewIsOwn ==
    ASSUME OwnInv, NEW u \in Threads,
           \/ Past(u) \/ InLoop(u) \/ op[u] \in FlushOps
           \/ pc[u] \in {"takeLock", "takeLockFailed", "create", "internalize"}
    PROVE  /\ at[u] \in Keys /\ Owner[DatasetOfKey(at[u])] = u
           /\ BandOf(at[u]) \in Bands /\ op[u] \in OwnerOps
<1>1. CallOf(u)
  BY DEF OwnInv, ControlInv
<1>2. pc[u] \in OwnerLabels \/ op[u] \in OwnerOps
  BY DEF Past, HoldsNew, Internalizing, InLoop, OwnerLabels, OwnerOps, IoLabels
<1> QED
  BY <1>1, <1>2, AtIsKey

(* A step of thread t fills no slot that another thread counts on being    *)
(* empty.                                                                  *)
LEMMA NewMoves ==
    ASSUME OwnInv, \A w \in Threads : NewOf(w), NEW t \in Threads, Others(t),
           Changes(t), NEW u \in Threads, u # t
    PROVE  NewOf(u)'
<1>0. NewOf(u) /\ BandTypes /\ StoreInv /\ ScanOf(u)
  BY DEF OwnInv, ControlInv, Types, Owned
<1>1. /\ pc'[u] = pc[u] /\ at'[u] = at[u] /\ poBlock'[u] = poBlock[u]
      /\ LastFreed(u)' = LastFreed(u) /\ (Past(u)' <=> Past(u))
  BY OthersRoles, StorageRoles
<1>2. ASSUME \/ Past(u)
             \/ pc[u] \in {"takeLock", "takeLockFailed", "create", "internalize"}
      PROVE  at[u] \in Keys /\ slot'[at[u]] \in {slot[at[u]], Null}
  <2>1. at[u] \in Keys /\ Owner[DatasetOfKey(at[u])] = u
    BY <1>2, NewIsOwn
  <2>2. Past(t) => Owner[DatasetOfKey(at[t])] = t
    BY NewIsOwn
  <2> QED BY <2>1, <2>2 DEF Changes
<1>3. Past(u)' => slot'[at'[u]] = Null
  BY <1>0, <1>1, <1>2 DEF NewOf
<1>4. pc'[u] = "takeLock" => slot'[at'[u]] \in {Null, poBlock'[u]}
  BY <1>0, <1>1, <1>2 DEF NewOf
<1>5. ASSUME pc'[u] \in {"takeLockFailed", "create", "internalize"}
      PROVE  \/ slot'[at'[u]] = Null
             \/ \E w \in Threads \ {u} : slot'[at'[u]] = Unreferencing(w)'
  <2>1. CASE slot'[at[u]] = Null
    BY <1>1, <2>1
  <2>2. CASE slot'[at[u]] # Null
    <3>1. slot'[at[u]] = slot[at[u]] /\ at[u] \in Keys
      BY <1>1, <1>2, <1>5, <2>2
    <3>2. PICK w \in Threads \ {u} : slot[at[u]] = Unreferencing(w)
      BY <1>0, <1>1, <1>5, <2>2, <3>1 DEF NewOf
    <3>3. CASE w # t
      BY <1>1, <3>1, <3>2, <3>3, StorageRoles
    <3>4. CASE w = t
      <4>1. Unreferencing(t) # Null /\ key[Unreferencing(t)] = at[u]
        BY <1>0, <2>2, <3>1, <3>2, <3>4 DEF StoreInv
      <4>2. Unreferencing(t)' = Unreferencing(t)
        BY <2>2, <4>1 DEF Changes
      <4> QED BY <1>1, <3>1, <3>2, <3>4, <4>2
    <3> QED BY <3>3, <3>4
  <2> QED BY <2>1, <2>2
<1>6. ASSUME pc'[u] = "unreference"
      PROVE  /\ slot'[key'[LastFreed(u)']] \in {Null, LastFreed(u)'}
             /\ \A w \in Threads : Past(w)' => at'[w] # key'[LastFreed(u)']
  <2>1. PICK b : b = LastFreed(u)
    OBVIOUS
  <2>2. /\ pc[u] = "unreference" /\ b \in Claimed(u) /\ key'[b] = key[b]
        /\ key[b] \in Keys /\ LastFreed(u)' = b
    BY <1>1, <1>6, <2>1, LastFreedIsClaimed, ClaimedAreBlocks DEF Changes
  <2>3. /\ slot[key[b]] \in {Null, b}
        /\ \A w \in Threads : Past(w) => at[w] # key[b]
    BY <1>0, <2>1, <2>2 DEF NewOf
  <2>4. slot'[key[b]] \in {Null, b}
    BY <2>2, <2>3 DEF Changes
  <2>5. hRBLock # NoThread
    BY <2>2, NamesAssumption DEF OwnInv, ControlInv, MutexInv, CriticalSection,
       CriticalLabels
  <2>6. Past(t)' => at'[t] # key[b]
    BY <2>3, <2>5 DEF Changes
  <2>7. \A w \in Threads \ {t} : Past(w)' => at'[w] # key[b]
    BY <2>3, OthersRoles, StorageRoles
  <2> QED BY <2>2, <2>4, <2>6, <2>7
<1> QED
  BY <1>3, <1>4, <1>5, <1>6 DEF NewOf

(* A step of thread t adds nothing to the band that another thread         *)
(* flushes.                                                                *)
LEMMA LoopMoves ==
    ASSUME OwnInv, NEW t \in Threads, Others(t), Changes(t),
           NEW u \in Threads, u # t, LoopOf(u)
    PROVE  LoopOf(u)'
<1>1. /\ pc'[u] = pc[u] /\ at'[u] = at[u] /\ op'[u] = op[u] /\ iOff'[u] = iOff[u]
      /\ InLoop(u)' <=> InLoop(u)
  BY OthersRoles
<1>2. ASSUME op[u] \in FlushOps
      PROVE  /\ BandOf(at[u]) \in Bands /\ Owner[DatasetOf[BandOf(at[u])]] = u
             /\ \A o \in Offs : slot[<<BandOf(at[u]), o>>] = Null =>
                  slot'[<<BandOf(at[u]), o>>] = Null
  <2>1. BandOf(at[u]) \in Bands /\ Owner[DatasetOf[BandOf(at[u])]] = u
    BY <1>2, NewIsOwn DEF DatasetOfKey, BandOf
  <2>2. ASSUME NEW o \in Offs PROVE slot'[<<BandOf(at[u]), o>>] \in
                                      {slot[<<BandOf(at[u]), o>>], Null}
    <3>1. <<BandOf(at[u]), o>> \in Keys
      BY <2>1, KeyParts
    <3>2. Owner[DatasetOfKey(<<BandOf(at[u]), o>>)] = u
      BY <2>1 DEF DatasetOfKey, BandOf
    <3>3. Past(t) => Owner[DatasetOfKey(at[t])] = t
      BY NewIsOwn
    <3> QED BY <3>1, <3>2, <3>3 DEF Changes
  <2> QED BY <2>1, <2>2
<1>3. InLoop(u)' => \A o \in Offs : iOff'[u] = 0 \/ o < iOff'[u] =>
                      slot'[<<BandOf(at'[u]), o>>] = Null
  BY <1>1, <1>2 DEF LoopOf, InLoop
<1>4. ASSUME pc'[u] \in {"flushed", "destroy"}, op'[u] \in FlushOps
      PROVE  /\ \A o \in Offs : slot'[<<BandOf(at'[u]), o>>] = Null
             /\ \A b \in ToSet(lru') : BandOf(key'[b]) # BandOf(at'[u])
  <2>1. /\ \A o \in Offs : slot[<<BandOf(at[u]), o>>] = Null
        /\ \A b \in ToSet(lru) : BandOf(key[b]) # BandOf(at[u])
    BY <1>1, <1>4 DEF LoopOf
  <2>2. ASSUME op[t] \in OwnerOps PROVE BandOf(at[t]) # BandOf(at[u])
    <3>1. CallOf(t)
      BY DEF OwnInv, ControlInv
    <3>2. Owner[DatasetOf[BandOf(at[t])]] = t
      BY <2>2, <3>1, AtIsKey DEF DatasetOfKey, BandOf
    <3> QED BY <1>1, <1>2, <1>4, <3>2
  <2>3. ASSUME NEW b \in ToSet(lru') PROVE BandOf(key'[b]) # BandOf(at[u])
    BY <2>1, <2>2 DEF Changes
  <2> QED BY <1>1, <1>2, <1>4, <2>1, <2>3
<1> QED
  BY <1>3, <1>4 DEF LoopOf

(* A step keeps the whole if it does what Changes(), PlacedStep() and      *)
(* FoundStep() say and keeps its own thread's part.                        *)
LEMMA FiledStep ==
    ASSUME FiledInv, NEW t \in Threads, Others(t), Changes(t), PlacedStep(t),
           FoundStep(t), NewOf(t)', LoopOf(t)'
    PROVE  Filed'
<1>1. Placed' /\ Found'
  BY PlacedMoves, FoundMoves DEF FiledInv, Filed
<1>2. ASSUME NEW u \in Threads PROVE NewOf(u)' /\ LoopOf(u)'
  <2>1. CASE u = t
    BY <2>1
  <2>2. CASE u # t
    BY <2>2, NewMoves, LoopMoves DEF FiledInv, Filed
  <2> QED BY <2>1, <2>2
<1> QED
  BY <1>1, <1>2 DEF Filed

(* Steps that move no block.                                               *)
Steady(t) ==
    /\ UNCHANGED <<key, slot, psListBlocksToFree>>
    /\ ToSet(lru') = ToSet(lru)
    /\ oOldSet'[t] = oOldSet[t]
    /\ Claimed(t) \subseteq Claimed(t)'
    /\ NotYet(t) => NotYet(t)' /\ poBlock'[t] = poBlock[t]
    /\ HoldsNew(t) \/ pc[t] \in FlushLabels =>
          (HoldsNew(t)' \/ pc'[t] \in FlushLabels) /\ poBlock'[t] = poBlock[t]
    /\ Unreferencing(t) # Null => Unreferencing(t)' = Unreferencing(t)
    /\ Past(t)' => (Past(t) /\ at'[t] = at[t]) \/ hRBLock = NoThread

(* A step that changes neither the list nor the storage keeps the blocks   *)
(* filed if it keeps what its thread holds.                                *)
LEMMA SteadyStep ==
    ASSUME FiledInv, NEW t \in Threads, Others(t), Steady(t), NewOf(t)', LoopOf(t)'
    PROVE  Filed'
<1>1. Changes(t)
  BY DEF Steady, Changes
<1>2. PlacedStep(t)
  <2>1. \A b : Frees(b)' <=> Frees(b)
    BY DEF Steady, Frees, FreeBlocks
  <2>2. \A b : b \in Claimed(t) => (b \in Claimed(t))'
    BY DEF Steady
  <2> QED BY <2>1, <2>2 DEF Steady, PlacedStep
<1>3. FoundStep(t)
  <2>1. \A b : HeldBy(t, b) => HeldBy(t, b)'
    BY DEF Steady, HeldBy
  <2> QED BY <2>1 DEF Steady, FoundStep
<1> QED
  BY <1>1, <1>2, <1>3, FiledStep

(* Steps that also look nothing up and leave no loop.                      *)
Still(t) ==
    /\ Steady(t)
    /\ Past(t)' => Past(t) /\ at'[t] = at[t]
    /\ pc'[t] \in {"takeLockFailed", "create", "internalize"} =>
          /\ pc[t] \in {"takeLockFailed", "create"} \/ Past(t)
          /\ at'[t] = at[t]
    /\ pc'[t] \notin {"takeLock", "unreference"}
    /\ InLoop(t)' => InLoop(t) /\ at'[t] = at[t] /\ iOff'[t] = iOff[t]
    /\ pc'[t] \in {"flushed", "destroy"} /\ op'[t] \in FlushOps =>
          /\ pc[t] \in {"flushed", "destroy"} /\ op[t] \in FlushOps
          /\ at'[t] = at[t]

(* A step that does not touch the storage, the list or the blocks keeps    *)
(* them filed.                                                             *)
LEMMA StillStep ==
    ASSUME FiledInv, NEW t \in Threads, Others(t), Still(t)
    PROVE  Filed'
<1>0. NewOf(t) /\ LoopOf(t)
  BY DEF FiledInv, Filed
<1>1. /\ UNCHANGED <<key, slot>> /\ ToSet(lru') = ToSet(lru)
      /\ \A u \in Threads \ {t} : Unreferencing(u)' = Unreferencing(u)
  BY StorageRoles DEF Still, Steady
<1>2. NewOf(t)'
  <2>1. Past(t)' => slot'[at'[t]] = Null
    BY <1>0, <1>1 DEF NewOf, Still
  <2>2. pc'[t] \in {"takeLockFailed", "create", "internalize"} =>
          \/ slot'[at'[t]] = Null
          \/ \E u \in Threads \ {t} : slot'[at'[t]] = Unreferencing(u)'
    BY <1>0, <1>1 DEF NewOf, Still
  <2>3. pc'[t] \notin {"takeLock", "unreference"}
    BY DEF Still
  <2> QED BY <2>1, <2>2, <2>3 DEF NewOf
<1>3. LoopOf(t)'
  <2>1. InLoop(t)' => \A o \in Offs : iOff'[t] = 0 \/ o < iOff'[t] =>
                        slot'[<<BandOf(at'[t]), o>>] = Null
    BY <1>0, <1>1 DEF LoopOf, Still
  <2>2. pc'[t] \in {"flushed", "destroy"} /\ op'[t] \in FlushOps =>
          /\ \A o \in Offs : slot'[<<BandOf(at'[t]), o>>] = Null
          /\ \A b \in ToSet(lru') : BandOf(key'[b]) # BandOf(at'[t])
    BY <1>0, <1>1 DEF LoopOf, Still
  <2> QED BY <2>1, <2>2 DEF LoopOf
<1>4. Steady(t)
  BY DEF Still
<1> QED
  BY <1>2, <1>3, <1>4, SteadyStep

(* A block of the list that is claimed is about to be detached, or is in   *)
(* the hands of the thread of its dataset.                                 *)
LEMMA ClaimedInList ==
    ASSUME OwnInv, NEW b \in ToSet(lru), Out(b)
    PROVE  \E u \in Threads :
             \/ pc[u] = "detach" /\ poTarget[u] = b
             \/ b \in Flushing(u) /\ poBlock[u] = b /\ UserOf(b) = u
<1>1. Exclusive
  BY DEF OwnInv, Owned
<1>2. ~Frees(b)
  BY <1>1 DEF Exclusive, Frees
<1>3. PICK u \in Threads : b \in Claimed(u)
  BY <1>2 DEF Out
<1>4. b \notin ToSet(toFree[u])
  BY <1>1 DEF Exclusive
<1>5. CASE b \in Flushing(u)
  <2>1. poBlock[u] = b /\ pc[u] \in FlushLabels
    BY <1>5 DEF Flushing, FlushLabels
  <2>2. UserOf(b) = u
    BY <2>1, UserIsOwner
  <2> QED BY <1>5, <2>1, <2>2
<1>6. CASE b \notin Flushing(u)
  BY <1>3, <1>4, <1>6 DEF Claimed, Evicting
<1> QED
  BY <1>5, <1>6

(* A cached block that is not in the storage is held by the thread of its  *)
(* dataset.                                                                *)
LEMMA HolderIsUser ==
    ASSUME OwnInv, NEW b \in Blocks, NEW u \in Threads, HeldBy(u, b)
    PROVE  UserOf(b) = u /\ key[b] \in Keys
<1>1. CASE poBlock[u] = b /\ (HoldsNew(u) \/ pc[u] \in FlushLabels)
  <2>1. HasLock(u) \/ pc[u] \in FlushLabels
    BY <1>1 DEF HoldsNew, HasLock
  <2> QED BY <1>1, <2>1, UserIsOwner
<1>2. CASE \E o \in Offs : oOldSet[u][o] = b
  <2>1. PICK o \in Offs : oOldSet[u][o] = b
    BY <1>2
  <2>2. InLoop(u) /\ key[b] = <<BandOf(at[u]), o>>
    BY <2>1, NamesAssumption DEF OwnInv, Owned, OldSetOf
  <2>3. Owner[DatasetOfKey(at[u])] = u /\ BandOf(at[u]) \in Bands
    BY <2>2, NewIsOwn
  <2> QED BY <2>2, <2>3, KeyParts DEF UserOf, DatasetOfKey, BandOf
<1> QED BY <1>1, <1>2 DEF HeldBy

(* A thread that another finds in the critical section is its owner.       *)
LEMMA LockIsTaken ==
    ASSUME OwnInv, NEW u \in Threads, pc[u] \in CriticalLabels
    PROVE  hRBLock = u /\ hRBLock # NoThread
BY NamesAssumption DEF OwnInv, ControlInv, MutexInv, CriticalSection

(* TryGetLockedBlockRef() finds the block in the slot, or finds the slot   *)
(* empty.                                                                  *)
LEMMA Filed_TryGetLockedBlockRef ==
    ASSUME FiledInv, NEW t \in Threads, Others(t), TryGetLockedBlockRef(t)
    PROVE  Filed'
<1>0. CallTypes /\ CallOf(t)
  BY DEF FiledInv, OwnInv, ControlInv, Types
<1>1. /\ pc[t] = "tryGet"
      /\ pc'[t] = IF slot[at[t]] = Null THEN "create" ELSE "takeLock"
      /\ poBlock'[t] = slot[at[t]]
      /\ UNCHANGED <<key, slot, psListBlocksToFree, lru, at, op, scanVars, oOldSet>>
  BY <1>0 DEF TryGetLockedBlockRef, CallTypes, Goto, blockVars, bandVars,
     cacheVars, flushVars
<1>2. /\ ~HoldsNew(t) /\ ~HoldsNew(t)' /\ ~NotYet(t) /\ ~InLoop(t)'
      /\ pc[t] \notin FlushLabels /\ Claimed(t)' = Claimed(t)
  BY <1>1 DEF HoldsNew, Internalizing, EvictLabels, CriticalLabels, NotYet,
     RoundEnd, FlushLabels, InLoop, Claimed, Evicting, Flushing, scanVars
<1>3. Steady(t)
  BY <1>1, <1>2 DEF Steady, Past, Unreferencing
<1>4. NewOf(t)' /\ LoopOf(t)'
  BY <1>1, <1>2 DEF NewOf, LoopOf, Past
<1> QED
  BY <1>3, <1>4, SteadyStep

(* The lock was not taken in time: an evictor is about to take the block   *)
(* out of the storage, or has done so.                                     *)
LEMMA Filed_TakeLock ==
    ASSUME FiledInv, NEW t \in Threads, Others(t), TakeLock(t)
    PROVE  Filed'
<1>0. /\ CallTypes /\ CallOf(t) /\ KeysOf(t) /\ StoreInv /\ LocksExact /\ NewOf(t)
      /\ BlockTypes /\ OwnInv
  BY DEF FiledInv, Filed, OwnInv, Owned, ControlInv, Types
<1>b. PICK b : b = poBlock[t]
  OBVIOUS
<1>1. /\ pc[t] = "takeLock"
      /\ pc'[t] = IF nLockCount[b] + 1 # 0 THEN "touch" ELSE "takeLockFailed"
      /\ poBlock'[t] = b
      /\ UNCHANGED <<key, slot, psListBlocksToFree, lru, at, op, scanVars, oOldSet>>
  BY <1>0, <1>b DEF TakeLock, LockTaken, CallTypes, Goto, bandVars, cacheVars,
     callVars, flushVars
<1>2. /\ ~HoldsNew(t) /\ ~HoldsNew(t)' /\ ~NotYet(t) /\ ~InLoop(t)'
      /\ pc[t] \notin FlushLabels /\ Claimed(t)' = Claimed(t)
  BY <1>1 DEF HoldsNew, Internalizing, EvictLabels, CriticalLabels, NotYet,
     RoundEnd, FlushLabels, InLoop, Claimed, Evicting, Flushing, scanVars
<1>3. Steady(t)
  BY <1>1, <1>2 DEF Steady, Past, Unreferencing
<1>4. b \in Blocks /\ key[b] = at[t] /\ key[b] \in Keys /\ UserOf(b) = t
  BY <1>0, <1>b, <1>1, UserIsOwner DEF KeysOf
<1>5. ASSUME pc'[t] = "takeLockFailed", slot[at[t]] # Null
      PROVE  \E u \in Threads \ {t} : slot[at[t]] = Unreferencing(u)
  <2>1. slot[at[t]] = b
    BY <1>0, <1>b, <1>1, <1>5 DEF NewOf
  <2>2. Out(b)
    BY <1>0, <1>1, <1>4, <1>5 DEF LocksExact, BlockTypes
  <2>3. CASE b \in ToSet(lru)
    <3>1. PICK u \in Threads : \/ pc[u] = "detach" /\ poTarget[u] = b
                               \/ b \in Flushing(u) /\ UserOf(b) = u
      BY <1>0, <2>2, <2>3, ClaimedInList
    <3>2. t \notin {u}
      BY <1>1, <1>4, <3>1 DEF Flushing
    <3>3. pc[u] = "detach" /\ poTarget[u] = b
      BY <1>4, <3>1, <3>2
    <3> QED BY <2>1, <3>2, <3>3 DEF Unreferencing
  <2>4. CASE b \notin ToSet(lru)
    <3>1. PICK u \in Threads : pc[u] = "unreference" /\ b = LastFreed(u)
      BY <1>0, <1>4, <1>5, <2>1, <2>4 DEF StoreInv
    <3> QED BY <1>1, <2>1, <3>1 DEF Unreferencing
  <2> QED BY <2>3, <2>4
<1>6. NewOf(t)'
  <2>1. \A u \in Threads \ {t} : Unreferencing(u)' = Unreferencing(u)
    BY StorageRoles
  <2> QED BY <1>1, <1>2, <1>5, <2>1 DEF NewOf, Past
<1>7. LoopOf(t)'
  BY <1>1, <1>2 DEF LoopOf
<1> QED
  BY <1>3, <1>6, <1>7, SteadyStep

(* Touch() moves a block within the list.                                  *)
LEMMA Filed_TouchLocked ==
    ASSUME FiledInv, NEW t \in Threads, Others(t), TouchLocked(t)
    PROVE  Filed'
<1>0. /\ CallTypes /\ CacheTypes /\ CallOf(t) /\ LocksExact /\ OwnInv
  BY DEF FiledInv, OwnInv, Owned, ControlInv, Types
<1>1. /\ pc[t] = "touchLocked" /\ pc'[t] = "locked"
      /\ lru' = Touched(lru, poBlock[t])
      /\ UNCHANGED <<key, slot, psListBlocksToFree, callVars, scanVars, oOldSet>>
  BY <1>0 DEF TouchLocked, LruTouch, CallTypes, Goto, bandVars, blockVars, flushVars
<1>2. /\ ~HoldsNew(t) /\ ~HoldsNew(t)' /\ ~NotYet(t) /\ ~InLoop(t)' /\ HasLock(t)
      /\ pc[t] \notin FlushLabels /\ Claimed(t)' = Claimed(t)
  BY <1>1 DEF HoldsNew, Internalizing, EvictLabels, CriticalLabels, NotYet,
     RoundEnd, FlushLabels, InLoop, Claimed, Evicting, Flushing, scanVars, HasLock
<1>3. poBlock[t] \in Blocks /\ poBlock[t] \in ToSet(lru)
  BY <1>0, <1>2, UserIsOwner DEF LocksExact
<1>4. ToSet(lru') = ToSet(lru)
  <2>b. PICK b : b = poBlock[t]
    OBVIOUS
  <2>1. ToSet(Touched(lru, b)) = ToSet(lru) \cup {b}
    BY <1>0, <1>3, <2>b, TouchedProperties DEF CacheTypes
  <2> QED BY <1>1, <1>3, <2>b, <2>1
<1>5. Steady(t)
  BY <1>1, <1>2, <1>4 DEF Steady, Past, Unreferencing
<1>6. NewOf(t)' /\ LoopOf(t)'
  BY <1>1, <1>2 DEF NewOf, LoopOf, Past
<1> QED
  BY <1>5, <1>6, SteadyStep

(* TAKE_LOCK of Internalize() waits until the evictor of the previous      *)
(* block of this offset, if any, has emptied the slot.                     *)
LEMMA Filed_InternalizeLock ==
    ASSUME FiledInv, NEW t \in Threads, Others(t), InternalizeLock(t)
    PROVE  Filed'
<1>0. CallTypes /\ CallOf(t) /\ NewOf(t) /\ OwnInv /\ ScanTypes
  BY DEF FiledInv, Filed, OwnInv, ControlInv, Types
<1>1. /\ pc[t] = "internalize" /\ pc'[t] = "scan" /\ hRBLock = NoThread
      /\ UNCHANGED <<key, slot, psListBlocksToFree, lru, callVars, toFree, oOldSet>>
  BY <1>0 DEF InternalizeLock, RBLockFree, CallTypes, Goto, bandVars, blockVars,
     flushVars
<1>2. op[t] \in IoOps
  BY <1>0, <1>1 DEF CallOf, OpOf, IoLabels
<1>3. /\ HoldsNew(t) /\ HoldsNew(t)' /\ NotYet(t)' /\ ~InLoop(t)'
      /\ pc[t] \notin FlushLabels /\ Claimed(t)' = Claimed(t)
  BY <1>1, <1>2 DEF HoldsNew, Internalizing, EvictLabels, CriticalLabels, NotYet,
     RoundEnd, FlushLabels, InLoop, Claimed, Evicting, Flushing, callVars
<1>4. Steady(t)
  BY <1>1, <1>3 DEF Steady, Past, Unreferencing, callVars
<1>5. slot[at[t]] = Null
  <2>1. \A u \in Threads : pc[u] \notin {"detach", "unreference"}
    BY <1>0, <1>1, LockIsTaken DEF CriticalLabels
  <2> QED BY <1>0, <1>1, <2>1 DEF NewOf, Unreferencing
<1>6. NewOf(t)' /\ LoopOf(t)'
  BY <1>1, <1>3, <1>5 DEF NewOf, LoopOf, callVars
<1> QED
  BY <1>4, <1>6, SteadyStep

(* The atomic exchanges of the evictors.                                   *)
LEMMA ClaimFiled ==
    ASSUME FiledInv, NEW t \in Threads, Others(t), NEW b, NEW next, NEW retry,
           pc[t] \in {"exchange", "exchangeOther", "fallback", "flushExchange"},
           retry \in {"scan", "fallback", "flushScan"},
           Claim(t, b, next, retry)
    PROVE  Filed'
<1>0. CallTypes /\ ScanTypes /\ CallOf(t) /\ NewOf(t)
  BY DEF FiledInv, Filed, OwnInv, ControlInv, Types
<1>1. /\ pc'[t] \in {"detach", retry} /\ (pc'[t] = "detach" => poTarget'[t] = b)
      /\ UNCHANGED <<key, slot, psListBlocksToFree, lru, callVars, toFree,
                     bLoopAgain, flushVars>>
  BY <1>0 DEF Claim, CallTypes, ScanTypes, Goto, bandVars, cacheVars
<1>2. /\ (HoldsNew(t)' <=> HoldsNew(t)) /\ (NotYet(t)' <=> NotYet(t))
      /\ (Past(t)' <=> Past(t)) /\ ~InLoop(t)'
      /\ pc[t] \notin FlushLabels /\ Claimed(t) \subseteq Claimed(t)'
  <2>1. (HoldsNew(t)' <=> HoldsNew(t)) /\ (NotYet(t)' <=> NotYet(t))
    BY <1>1 DEF HoldsNew, Internalizing, EvictLabels, CriticalLabels, NotYet,
       RoundEnd, callVars
  <2>2. (Past(t)' <=> Past(t)) /\ ~InLoop(t)' /\ pc[t] \notin FlushLabels
    BY <1>1, <2>1 DEF Past, InLoop, FlushLabels
  <2>3. Claimed(t) \subseteq Claimed(t)'
    BY <1>1 DEF Claimed, Evicting, Flushing
  <2> QED BY <2>1, <2>2, <2>3
<1>3. Steady(t)
  BY <1>1, <1>2 DEF Steady, Unreferencing, callVars, flushVars
<1>4. NewOf(t)' /\ LoopOf(t)'
  BY <1>0, <1>1, <1>2 DEF NewOf, LoopOf, callVars
<1> QED
  BY <1>3, <1>4, SteadyStep

(* An evictor claims a block that stays in its slot until                  *)
(* UnreferenceBlock().                                                     *)
LEMMA Filed_Claim ==
    ASSUME FiledInv, NEW t \in Threads, Others(t),
           Exchange(t) \/ ExchangeOther(t) \/ Fallback(t) \/ FlushExchange(t)
    PROVE  Filed'
<1>1. CASE Exchange(t)
  BY <1>1, ClaimFiled DEF Exchange
<1>2. CASE ExchangeOther(t)
  BY <1>2, ClaimFiled DEF ExchangeOther
<1>3. CASE Fallback(t)
  BY <1>3, ClaimFiled DEF Fallback
<1>4. CASE FlushExchange(t)
  BY <1>4, ClaimFiled DEF FlushExchange
<1> QED BY <1>1, <1>2, <1>3, <1>4

(* FlushBlock() and FlushCache() claim the block that they have taken from *)
(* the storage.                                                            *)
LEMMA Filed_ClaimFlush ==
    ASSUME FiledInv, NEW t \in Threads, Others(t), ClaimFlush(t)
    PROVE  Filed'
<1>0. CallTypes /\ CallOf(t) /\ LoopOf(t)
  BY DEF FiledInv, Filed, OwnInv, ControlInv, Types
<1>1. /\ pc[t] = "claimFlush" /\ pc'[t] \in {"flushWrite", "flushDetach", "flushWait"}
      /\ UNCHANGED <<key, slot, psListBlocksToFree, lru, callVars, scanVars, flushVars>>
  BY <1>0 DEF ClaimFlush, CallTypes, Goto, bandVars, cacheVars
<1>2. /\ ~HoldsNew(t) /\ ~HoldsNew(t)' /\ ~NotYet(t) /\ (InLoop(t)' <=> InLoop(t))
      /\ pc[t] \in FlushLabels /\ pc'[t] \in FlushLabels
      /\ Claimed(t) \subseteq Claimed(t)'
  BY <1>1 DEF HoldsNew, Internalizing, EvictLabels, CriticalLabels, NotYet,
     RoundEnd, FlushLabels, InLoop, Claimed, Evicting, Flushing, scanVars, callVars
<1>3. Steady(t)
  BY <1>1, <1>2 DEF Steady, Past, Unreferencing, callVars, flushVars
<1>4. NewOf(t)'
  BY <1>1, <1>2 DEF NewOf, Past
<1>5. LoopOf(t)'
  BY <1>0, <1>1, <1>2 DEF LoopOf, callVars, flushVars
<1> QED
  BY <1>3, <1>4, <1>5, SteadyStep

(* When the loop of FlushCache() is over, no block of the band is in its   *)
(* storage, nor in the list: nobody but this thread could hold one.        *)
LEMMA Filed_FlushEnds ==
    ASSUME FiledInv, NEW t \in Threads, Others(t), FlushEnds(t)
    PROVE  Filed'
<1>0. /\ CallTypes /\ CallOf(t) /\ LoopOf(t) /\ OwnInv /\ Found /\ StoreInv
      /\ OldSetOf(t)
  BY DEF FiledInv, Filed, OwnInv, Owned, ControlInv, Types
<1>1. /\ pc[t] = "flushNext" /\ iOff[t] = 0
      /\ pc'[t] \in {"destroy", "flushStorage", "flushed"}
      /\ UNCHANGED <<key, slot, psListBlocksToFree, lru, callVars, scanVars,
                     iOff, oOldSet>>
  BY <1>0 DEF FlushEnds, CallTypes, Goto, bandVars, cacheVars, blockVars
<1>2. /\ ~HoldsNew(t) /\ ~HoldsNew(t)' /\ ~NotYet(t) /\ ~InLoop(t)'
      /\ pc[t] \notin FlushLabels /\ Claimed(t)' = Claimed(t)
  BY <1>1 DEF HoldsNew, Internalizing, EvictLabels, CriticalLabels, NotYet,
     RoundEnd, FlushLabels, InLoop, Claimed, Evicting, Flushing, scanVars, callVars
<1>3. Steady(t)
  BY <1>1, <1>2 DEF Steady, Past, Unreferencing, callVars
<1>4. NewOf(t)'
  BY <1>1, <1>2 DEF NewOf, Past
<1>5. InLoop(t) /\ op[t] \in FlushOps
  BY <1>0, <1>1 DEF CallOf, OpOf, InLoop
<1>6. \A o \in Offs : slot[<<BandOf(at[t]), o>>] = Null
  BY <1>0, <1>1, <1>5 DEF LoopOf
<1>7. ASSUME NEW b \in ToSet(lru) PROVE BandOf(key[b]) # BandOf(at[t])
  <2> SUFFICES ASSUME BandOf(key[b]) = BandOf(at[t]) PROVE FALSE
    OBVIOUS
  <2>1. b \in Blocks /\ key[b] \in Keys
    BY <1>0, ClaimedAreBlocks DEF StoreInv
  <2>2. key[b] = <<BandOf(at[t]), key[b][2]>> /\ key[b][2] \in Offs
    BY <2>1, KeyParts
  <2>3. slot[key[b]] = Null
    BY <1>6, <2>2
  <2>4. PICK u \in Threads : HeldBy(u, b)
    BY <1>0, <2>1, <2>3, NamesAssumption DEF Found
  <2>5. UserOf(b) = t
    BY <1>0, <1>5, NewIsOwn DEF UserOf, DatasetOfKey, BandOf
  <2>6. UserOf(b) = u
    BY <1>0, <2>1, <2>4, HolderIsUser
  <2>7. HeldBy(t, b)
    BY <2>4, <2>5, <2>6
  <2>8. \E o \in Offs : oOldSet[t][o] = b
    BY <1>2, <2>7 DEF HeldBy
  <2> QED BY <1>0, <1>1, <2>1, <2>8, NamesAssumption DEF OldSetOf
<1>8. LoopOf(t)'
  BY <1>1, <1>2, <1>6, <1>7 DEF LoopOf, callVars
<1> QED
  BY <1>3, <1>4, <1>8, SteadyStep

(* DropLockForRemovalFromStorage() has waited for hRBLock: the block that  *)
(* an evictor has claimed is no more in the list.                          *)
LEMMA Filed_FlushWait ==
    ASSUME FiledInv, NEW t \in Threads, Others(t), FlushWait(t)
    PROVE  Filed'
<1>0. /\ CallTypes /\ CallOf(t) /\ LoopOf(t) /\ OwnInv /\ LocksExact
  BY DEF FiledInv, Filed, OwnInv, Owned, ControlInv, Types
<1>b. PICK b : b = poBlock[t]
  OBVIOUS
<1>1. /\ pc[t] = "flushWait" /\ hRBLock = NoThread
      /\ pc'[t] \in {"flushNext", "failed", "flushed"}
      /\ pc'[t] = "flushed" => op[t] \notin FlushOps
      /\ UNCHANGED <<key, slot, psListBlocksToFree, lru, op, at, scanVars, flushVars>>
  BY <1>0 DEF FlushWait, AfterFlushBlock, RBLockFree, CallTypes, Goto, bandVars,
     cacheVars, blockVars
<1>2. /\ ~HoldsNew(t) /\ ~HoldsNew(t)' /\ ~NotYet(t) /\ (InLoop(t)' => InLoop(t))
      /\ pc[t] \in FlushLabels /\ Claimed(t)' = Claimed(t)
  BY <1>1 DEF HoldsNew, Internalizing, EvictLabels, CriticalLabels, NotYet,
     RoundEnd, FlushLabels, InLoop, Claimed, Evicting, Flushing, scanVars
<1>3. b \notin ToSet(lru)
  <2> SUFFICES ASSUME b \in ToSet(lru) PROVE FALSE
    OBVIOUS
  <2>1. Out(b) /\ UserOf(b) = t
    BY <1>0, <1>b, <1>1, <1>2, UserIsOwner DEF LocksExact
  <2>2. PICK u \in Threads : \/ pc[u] = "detach"
                             \/ b \in Flushing(u) /\ UserOf(b) = u
    BY <1>0, <2>1, ClaimedInList
  <2>3. pc[u] # "detach"
    BY <1>0, <1>1, LockIsTaken DEF CriticalLabels
  <2> QED BY <1>1, <2>1, <2>2, <2>3 DEF Flushing
<1>4. Changes(t)
  BY <1>1, <1>2 DEF Changes, Past, Unreferencing
<1>5. PlacedStep(t)
  <2>1. \A c : Frees(c)' <=> Frees(c)
    BY <1>1 DEF Frees, FreeBlocks
  <2> QED BY <1>1, <1>2, <2>1 DEF PlacedStep
<1>6. FoundStep(t)
  <2>1. ASSUME NEW c \in ToSet(lru) PROVE HeldBy(t, c) => HeldBy(t, c)'
    BY <1>b, <1>1, <1>3 DEF HeldBy, flushVars
  <2> QED BY <1>1, <2>1 DEF FoundStep
<1>7. NewOf(t)'
  BY <1>1, <1>2 DEF NewOf, Past
<1>8. LoopOf(t)'
  BY <1>0, <1>1, <1>2 DEF LoopOf, flushVars
<1> QED
  BY <1>4, <1>5, <1>6, <1>7, <1>8, FiledStep

(* A block of the list that an evictor has claimed is in the storage of    *)
(* its band, or the thread that flushes the band has taken it from there.  *)
LEMMA EvictedIsFound ==
    ASSUME FiledInv, NEW b \in ToSet(lru), Out(b)
    PROVE  /\ b \in Blocks /\ key[b] \in Keys
           /\ slot[key[b]] \in {Null, b}
           /\ \A u \in Threads : Past(u) => at[u] # key[b]
<1>0. /\ OwnInv /\ Found /\ StoreInv /\ LocksExact
      /\ \A u \in Threads : KeysOf(u) /\ OldSetOf(u) /\ NewOf(u)
  BY DEF FiledInv, Filed, OwnInv, Owned
<1>1. b \in Blocks /\ key[b] \in Keys /\ b # Null
  <2>1. lru \in Seq(Blocks)
    BY <1>0 DEF OwnInv, ControlInv, Types, CacheTypes
  <2>2. ToSet(lru) \subseteq Blocks
    BY <2>1, Elements
  <2> QED BY <1>0, <2>2, NamesAssumption DEF StoreInv
<1>2. ASSUME NEW u \in Threads, HeldBy(u, b)
      PROVE  /\ ~HoldsNew(u) /\ slot[key[b]] = Null
  <2>1. CASE poBlock[u] = b /\ HoldsNew(u)
    BY <1>0, <2>1 DEF LocksExact, HoldsNew, HasLock
  <2>2. CASE poBlock[u] = b /\ pc[u] \in FlushLabels
    BY <1>0, <2>2 DEF KeysOf, HoldsNew, Internalizing, EvictLabels,
       CriticalLabels, FlushLabels
  <2>3. CASE \E o \in Offs : oOldSet[u][o] = b
    <3>1. PICK o \in Offs : oOldSet[u][o] = b
      BY <2>3
    <3>2. /\ InLoop(u) /\ BandOf(at[u]) \in HashSet
          /\ key[b] = <<BandOf(at[u]), o>>
      BY <1>0, <1>1, <3>1 DEF OldSetOf
    <3>3. slot[key[b]] = Null
      BY <1>0, <3>2 DEF OldSetOf
    <3>4. ~HoldsNew(u)
      BY <3>2 DEF InLoop, HoldsNew, Internalizing, EvictLabels, CriticalLabels,
         FlushLabels
    <3> QED BY <3>3, <3>4
  <2> QED BY <1>2, <2>1, <2>2, <2>3 DEF HeldBy
<1>3. slot[key[b]] = b \/ \E u \in Threads : HeldBy(u, b)
  BY <1>0 DEF Found
<1>4. ASSUME NEW u \in Threads, Past(u), at[u] = key[b] PROVE FALSE
  <2>1. slot[key[b]] = Null
    BY <1>0, <1>4 DEF NewOf
  <2>2. PICK w \in Threads : HeldBy(w, b)
    BY <1>1, <1>3, <2>1
  <2>3. UserOf(b) = w
    BY <1>0, <1>1, <2>2, HolderIsUser
  <2>4. UserOf(b) = u
    BY <1>0, <1>4, NewIsOwn DEF UserOf
  <2> QED BY <1>2, <1>4, <2>2, <2>3, <2>4 DEF Past
<1> QED
  BY <1>1, <1>2, <1>3, <1>4

(* Detach_unlocked() takes the block from the list, with the lock that     *)
(* keeps other threads from adding one for the same slot.                  *)
LEMMA Filed_Detach ==
    ASSUME FiledInv, NEW t \in Threads, Others(t), Detach(t)
    PROVE  Filed'
<1>0. /\ CallTypes /\ ScanTypes /\ CacheTypes /\ CallOf(t) /\ ScanOf(t) /\ OwnInv
      /\ NewOf(t) /\ Exclusive
  BY DEF FiledInv, Filed, OwnInv, Owned, ControlInv, Types
<1>b. PICK b : b = poTarget[t]
  OBVIOUS
<1>1. /\ pc[t] = "detach" /\ pc'[t] = "unreference"
      /\ lru' = Detached(lru, b) /\ toFree'[t] = Append(toFree[t], b)
      /\ UNCHANGED <<key, slot, psListBlocksToFree, callVars, bLoopAgain, flushVars>>
  BY <1>0, <1>b DEF Detach, DetachUnlocked, CallTypes, ScanTypes, Goto
<1>2. b \in ToSet(lru) /\ b \in Blocks /\ b \in Claimed(t) /\ Out(b) /\ b # Null
  <2>1. b \in ToSet(lru) /\ b \in Claimed(t) /\ b # Null
    BY <1>0, <1>b, <1>1 DEF ScanOf, Claimed, Evicting
  <2> QED BY <1>0, <2>1, ClaimedAreBlocks DEF Out
<1>3. ToSet(lru') = ToSet(lru) \ {b}
  BY <1>0, <1>1, DetachedProperties DEF CacheTypes
<1>4. /\ LastFreed(t)' = b /\ ToSet(toFree'[t]) = ToSet(toFree[t]) \cup {b}
  BY <1>0, <1>1, <1>2, AppendedProperties DEF ScanTypes, LastFreed
<1>5. /\ (HoldsNew(t)' <=> HoldsNew(t)) /\ (NotYet(t)' <=> NotYet(t))
      /\ (Past(t)' <=> Past(t)) /\ ~InLoop(t)'
      /\ pc[t] \notin FlushLabels /\ pc'[t] \notin FlushLabels
      /\ Claimed(t)' = Claimed(t)
  <2>1. (HoldsNew(t)' <=> HoldsNew(t)) /\ (NotYet(t)' <=> NotYet(t))
    BY <1>1 DEF HoldsNew, Internalizing, EvictLabels, CriticalLabels, NotYet,
       RoundEnd, callVars
  <2>2. /\ (Past(t)' <=> Past(t)) /\ ~InLoop(t)'
        /\ pc[t] \notin FlushLabels /\ pc'[t] \notin FlushLabels
    BY <1>1, <2>1 DEF Past, InLoop, FlushLabels
  <2>3. Claimed(t)' = Claimed(t)
    BY <1>b, <1>1, <1>4 DEF Claimed, Evicting, Flushing
  <2> QED BY <2>1, <2>2, <2>3
<1>6. Changes(t)
  <2>1. Unreferencing(t)' = Unreferencing(t)
    BY <1>b, <1>1, <1>4 DEF Unreferencing
  <2> QED BY <1>1, <1>3, <1>5, <2>1 DEF Changes, callVars
<1>7. PlacedStep(t)
  <2>1. \A c : Frees(c)' <=> Frees(c)
    BY <1>1 DEF Frees, FreeBlocks
  <2> QED BY <1>1, <1>2, <1>3, <1>5, <2>1 DEF PlacedStep, callVars
<1>8. FoundStep(t)
  <2>1. \A c : HeldBy(t, c)' <=> HeldBy(t, c)
    BY <1>1, <1>5 DEF HeldBy, callVars, flushVars
  <2> QED BY <1>1, <1>3, <2>1 DEF FoundStep
<1>9. NewOf(t)'
  <2>1. /\ slot[key[b]] \in {Null, b}
        /\ \A u \in Threads : Past(u) => at[u] # key[b]
    BY <1>2, EvictedIsFound
  <2>2. \A u \in Threads : (Past(u)' <=> Past(u)) /\ at'[u] = at[u]
    BY <1>1, <1>5, OthersRoles, StorageRoles DEF callVars
  <2> QED BY <1>0, <1>1, <1>4, <1>5, <2>1, <2>2 DEF NewOf, callVars
<1>10. LoopOf(t)'
  BY <1>1, <1>5 DEF LoopOf
<1> QED
  BY <1>6, <1>7, <1>8, <1>9, <1>10, FiledStep

(* UnreferenceBlock() empties the slot of the block that was evicted, not  *)
(* the one of a block that has taken its place.                            *)
LEMMA Filed_UnreferenceBlock ==
    ASSUME FiledInv, NEW t \in Threads, Others(t), UnreferenceBlock(t)
    PROVE  Filed'
<1>0. /\ CallTypes /\ ScanTypes /\ BandTypes /\ CallOf(t) /\ OwnInv
      /\ NewOf(t) /\ Exclusive
  BY DEF FiledInv, Filed, OwnInv, Owned, ControlInv, Types
<1>b. PICK b : b = LastFreed(t)
  OBVIOUS
<1>1. /\ pc[t] = "unreference" /\ pc'[t] \in {"scan", "scanned"}
      /\ slot' = [slot EXCEPT ![key[b]] = Null]
      /\ UNCHANGED <<key, lru, psListBlocksToFree, toFree, callVars, flushVars>>
  BY <1>0, <1>b DEF UnreferenceBlock, Unreferenced, LastFreed, CallTypes, Goto,
     cacheVars, blockVars
<1>2. \A k \in Keys : slot'[k] = IF k = key[b] THEN Null ELSE slot[k]
  BY <1>0, <1>1 DEF BandTypes
<1>3. b \in Claimed(t) /\ b \notin ToSet(lru) /\ key[b] \in Keys /\ b \in Blocks
  <2>1. b \in Claimed(t) /\ b \in ToSet(toFree[t])
    BY <1>0, <1>b, <1>1, LastFreedIsClaimed
  <2> QED BY <1>0, <2>1, ClaimedAreBlocks DEF Exclusive
<1>4. /\ (HoldsNew(t)' <=> HoldsNew(t)) /\ (NotYet(t)' <=> NotYet(t))
      /\ (Past(t)' <=> Past(t)) /\ ~InLoop(t)'
      /\ pc[t] \notin FlushLabels /\ pc'[t] \notin FlushLabels
      /\ Claimed(t)' = Claimed(t)
  <2>1. (HoldsNew(t)' <=> HoldsNew(t)) /\ (NotYet(t)' <=> NotYet(t))
    BY <1>1 DEF HoldsNew, Internalizing, EvictLabels, CriticalLabels, NotYet,
       RoundEnd, callVars
  <2> QED BY <1>1, <2>1 DEF Past, InLoop, FlushLabels, Claimed, Evicting, Flushing
<1>5. Changes(t)
  <2>1. slot'[key[Unreferencing(t)]] = Null
    BY <1>b, <1>1, <1>2, <1>3 DEF Unreferencing
  <2> QED BY <1>1, <1>2, <1>4, <2>1 DEF Changes, callVars
<1>6. PlacedStep(t)
  <2>1. \A c : Frees(c)' <=> Frees(c)
    BY <1>1 DEF Frees, FreeBlocks
  <2> QED BY <1>1, <1>4, <2>1 DEF PlacedStep, callVars
<1>7. FoundStep(t)
  <2>1. \A c : HeldBy(t, c)' <=> HeldBy(t, c)
    BY <1>1, <1>4 DEF HeldBy, callVars, flushVars
  <2>2. ASSUME NEW c \in ToSet(lru), slot[key[c]] = c PROVE slot'[key[c]] = c
    <3>1. key[c] \in Keys /\ c # Null
      BY <1>0, ClaimedAreBlocks, NamesAssumption DEF OwnInv, Owned, StoreInv
    <3>2. slot[key[b]] \in {Null, b}
      BY <1>0, <1>b, <1>1 DEF NewOf
    <3>3. key[c] # key[b]
      BY <1>3, <2>2, <3>1, <3>2
    <3> QED BY <1>2, <2>2, <3>1, <3>3
  <2> QED BY <1>1, <2>1, <2>2 DEF FoundStep
<1>8. NewOf(t)'
  <2>1. Past(t) => at[t] \in Keys /\ slot[at[t]] = Null
    BY <1>0, NewIsOwn DEF NewOf
  <2> QED BY <1>1, <1>2, <1>4, <2>1 DEF NewOf, callVars
<1>9. LoopOf(t)'
  BY <1>1, <1>4 DEF LoopOf
<1> QED
  BY <1>5, <1>6, <1>7, <1>8, <1>9, FiledStep

(* The new block enters the list; its thread adds it to the storage later. *)
LEMMA Filed_Scanned ==
    ASSUME FiledInv, NEW t \in Threads, Others(t), Scanned(t)
    PROVE  Filed'
<1>0. /\ CallTypes /\ ScanTypes /\ CacheTypes /\ CallOf(t) /\ KeysOf(t)
      /\ NewOf(t) /\ OwnInv
  BY DEF FiledInv, Filed, OwnInv, Owned, ControlInv, Types
<1>b. PICK b : b = poBlock[t]
  OBVIOUS
<1>1. /\ pc[t] = "scanned" /\ pc'[t] = "free"
      /\ lru' = IF op[t] \in IoOps /\ ~bLoopAgain[t] THEN Touched(lru, b) ELSE lru
      /\ UNCHANGED <<key, slot, psListBlocksToFree, callVars, toFree, bLoopAgain,
                     flushVars>>
  BY <1>0, <1>b DEF Scanned, LruTouch, CallTypes, Goto, bandVars, blockVars
<1>2. op[t] \in IoOps => HasLock(t)
  BY <1>1 DEF HasLock, Internalizing, EvictLabels, CriticalLabels
<1>3. op[t] \in IoOps => b \in Blocks /\ key[b] = at[t]
  BY <1>0, <1>b, <1>2, UserIsOwner DEF KeysOf
<1>4. ToSet(lru') = IF op[t] \in IoOps /\ ~bLoopAgain[t]
                    THEN ToSet(lru) \cup {b} ELSE ToSet(lru)
  <2>1. op[t] \in IoOps => ToSet(Touched(lru, b)) = ToSet(lru) \cup {b}
    BY <1>0, <1>3, TouchedProperties DEF CacheTypes
  <2> QED BY <1>1, <2>1
<1>5. /\ (HoldsNew(t)' <=> HoldsNew(t)) /\ (op[t] \in IoOps => HoldsNew(t))
      /\ (NotYet(t)' <=> op[t] \in IoOps /\ bLoopAgain[t])
      /\ (Past(t)' <=> Past(t)) /\ ~InLoop(t)'
      /\ pc[t] \notin FlushLabels /\ pc'[t] \notin FlushLabels
      /\ Claimed(t)' = Claimed(t)
  <2>1. /\ (HoldsNew(t)' <=> HoldsNew(t)) /\ (op[t] \in IoOps => HoldsNew(t))
        /\ (NotYet(t)' <=> op[t] \in IoOps /\ bLoopAgain[t])
    BY <1>1 DEF HoldsNew, Internalizing, EvictLabels, CriticalLabels, NotYet,
       RoundEnd, callVars
  <2> QED BY <1>1, <2>1 DEF Past, InLoop, FlushLabels, Claimed, Evicting,
             Flushing, callVars
<1>6. Changes(t)
  BY <1>1, <1>3, <1>4, <1>5 DEF Changes, Unreferencing, callVars, OwnerOps
<1>7. PlacedStep(t)
  <2>1. \A c : Frees(c)' <=> Frees(c)
    BY <1>1 DEF Frees, FreeBlocks
  <2>2. NotYet(t) => NotYet(t)' \/ b \in ToSet(lru')
    BY <1>4, <1>5 DEF NotYet
  <2> QED BY <1>b, <1>1, <1>4, <1>5, <2>1, <2>2 DEF PlacedStep, callVars
<1>8. FoundStep(t)
  <2>1. \A c : HeldBy(t, c)' <=> HeldBy(t, c)
    BY <1>1, <1>5 DEF HeldBy, callVars, flushVars
  <2>2. op[t] \in IoOps => HeldBy(t, b)
    BY <1>b, <1>5 DEF HeldBy
  <2> QED BY <1>1, <1>4, <2>1, <2>2 DEF FoundStep
<1>9. NewOf(t)' /\ LoopOf(t)'
  BY <1>0, <1>1, <1>5 DEF NewOf, LoopOf, callVars
<1> QED
  BY <1>6, <1>7, <1>8, <1>9, FiledStep

(* AddBlockToFreeList() puts the block where the owner of its band can     *)
(* reuse it.                                                               *)
LEMMA Filed_Release ==
    ASSUME FiledInv, NEW t \in Threads, Others(t), Release(t)
    PROVE  Filed'
<1>0. /\ CallTypes /\ ScanTypes /\ BandTypes /\ CallOf(t) /\ NewOf(t) /\ OwnInv
      /\ RoundInv
  BY DEF FiledInv, Filed, OwnInv, Owned, ControlInv, Types
<1>b. PICK b : b = Target(t)
  OBVIOUS
<1>d. PICK d : d = BandOf(key[b])
  OBVIOUS
<1>1. /\ pc[t] = "release" /\ pc'[t] = "keepAlive"
      /\ toFree'[t] = Tail(toFree[t])
      /\ psListBlocksToFree' =
           [psListBlocksToFree EXCEPT ![d] = <<b>> \o psListBlocksToFree[d]]
      /\ UNCHANGED <<key, slot, lru, callVars, bLoopAgain, flushVars>>
  BY <1>0, <1>b, <1>d DEF Release, CallTypes, ScanTypes, Goto, bandVars, cacheVars
<1>2. toFree[t] # <<>> /\ toFree[t] \in Seq(Blocks)
  BY <1>0, <1>1 DEF RoundInv, RoundOf, Releasing, ScanTypes
<1>3. b \in Blocks /\ b \in Claimed(t) /\ key[b] \in Keys /\ d \in Bands
  <2>1. b \in Blocks /\ b \in ToSet(toFree[t])
    BY <1>0, <1>b, <1>2, TargetIsBlock DEF OwnInv
  <2>2. key[b] \in Keys /\ b \in Claimed(t)
    BY <1>0, <2>1, ClaimedAreBlocks
  <2> QED BY <1>d, <2>1, <2>2, KeyParts
<1>4. ToSet(toFree[t]) \subseteq ToSet(toFree'[t]) \cup {b}
  BY <1>b, <1>1, <1>2, TailProperties DEF Target
<1>5. Frees(b)' /\ \A c : Frees(c) => Frees(c)'
  <2>1. psListBlocksToFree[d] \in Seq(Blocks)
    BY <1>0, <1>3 DEF BandTypes
  <2>2. ToSet(<<b>> \o psListBlocksToFree[d]) =
          ToSet(psListBlocksToFree[d]) \cup {b}
    BY <1>3, <2>1, PushProperties
  <2>3. \A e \in Bands : psListBlocksToFree'[e] =
          IF e = d THEN <<b>> \o psListBlocksToFree[d] ELSE psListBlocksToFree[e]
    BY <1>0, <1>1 DEF BandTypes
  <2> QED BY <1>3, <2>2, <2>3 DEF Frees, FreeBlocks
<1>6. /\ (HoldsNew(t)' <=> HoldsNew(t)) /\ (NotYet(t)' <=> NotYet(t))
      /\ (Past(t)' <=> Past(t)) /\ ~InLoop(t)'
      /\ pc[t] \notin FlushLabels /\ pc'[t] \notin FlushLabels
      /\ Claimed(t) \subseteq Claimed(t)' \cup {b}
  <2>1. (HoldsNew(t)' <=> HoldsNew(t)) /\ (NotYet(t)' <=> NotYet(t))
    BY <1>1 DEF HoldsNew, Internalizing, EvictLabels, CriticalLabels, NotYet,
       RoundEnd, callVars
  <2>2. /\ (Past(t)' <=> Past(t)) /\ ~InLoop(t)'
        /\ pc[t] \notin FlushLabels /\ pc'[t] \notin FlushLabels
    BY <1>1, <2>1 DEF Past, InLoop, FlushLabels
  <2>3. Claimed(t) \subseteq Claimed(t)' \cup {b}
    BY <1>1, <1>4 DEF Claimed, Evicting, Flushing
  <2> QED BY <2>1, <2>2, <2>3
<1>7. Changes(t)
  BY <1>1, <1>6 DEF Changes, Unreferencing, callVars
<1>8. PlacedStep(t)
  <2>1. \A c : c \in Claimed(t) => (c \in Claimed(t))' \/ c = b
    BY <1>6
  <2> QED BY <1>1, <1>5, <1>6, <2>1 DEF PlacedStep, callVars
<1>9. FoundStep(t)
  <2>1. \A c : HeldBy(t, c)' <=> HeldBy(t, c)
    BY <1>1, <1>6 DEF HeldBy, callVars, flushVars
  <2> QED BY <1>1, <2>1 DEF FoundStep
<1>10. NewOf(t)' /\ LoopOf(t)'
  BY <1>0, <1>1, <1>6 DEF NewOf, LoopOf, callVars
<1> QED
  BY <1>7, <1>8, <1>9, <1>10, FiledStep

(* A block object in a free list, or a free address, is in no list and in  *)
(* the hands of no thread.                                                 *)
LEMMA CreatedIsFree ==
    ASSUME OwnInv, NEW t \in Threads, NEW b \in Blocks, CreateBlock(t, b)
    PROVE  b \notin ToSet(lru) /\ \A u \in Threads : b \notin Claimed(u)
<1>0. BandTypes /\ CallOf(t) /\ Exclusive /\ StoreInv
  BY DEF OwnInv, Owned, ControlInv, Types
<1>d. PICK d : d = BandOf(at[t])
  OBVIOUS
<1>1. /\ pc[t] = "create"
      /\ IF psListBlocksToFree[d] # <<>> THEN b = Head(psListBlocksToFree[d])
         ELSE key[b] = NoKey
  BY <1>d DEF CreateBlock
<1>2. d \in Bands
  BY <1>0, <1>d, <1>1, AtIsKey DEF OwnerLabels, IoLabels
<1>3. CASE psListBlocksToFree[d] # <<>>
  <2>1. psListBlocksToFree[d] \in Seq(Blocks)
    BY <1>0, <1>2 DEF BandTypes
  <2>2. b \in FreeBlocks(d)
    BY <1>1, <1>3, <2>1, TailProperties DEF FreeBlocks
  <2> QED BY <1>0, <1>2, <2>2 DEF Exclusive
<1>4. CASE psListBlocksToFree[d] = <<>>
  BY <1>0, <1>1, <1>4, NoKeyIsNoKey, ClaimedAreBlocks DEF StoreInv
<1> QED BY <1>3, <1>4

(* CreateBlock() takes a block for the calling thread.                     *)
LEMMA Filed_CreateBlock ==
    ASSUME FiledInv, NEW t \in Threads, Others(t), NEW b \in Blocks,
           CreateBlock(t, b)
    PROVE  Filed'
<1>0. /\ CallTypes /\ BlockTypes /\ BandTypes /\ CallOf(t) /\ NewOf(t) /\ OwnInv
      /\ Exclusive /\ StoreInv
  BY DEF FiledInv, Filed, OwnInv, Owned, ControlInv, Types
<1>d. PICK d : d = BandOf(at[t])
  OBVIOUS
<1>1. /\ pc[t] = "create" /\ pc'[t] = "internalize" /\ poBlock'[t] = b
      /\ IF psListBlocksToFree[d] # <<>>
         THEN /\ b = Head(psListBlocksToFree[d])
              /\ psListBlocksToFree' =
                   [psListBlocksToFree EXCEPT ![d] = Tail(psListBlocksToFree[d])]
         ELSE key[b] = NoKey /\ UNCHANGED psListBlocksToFree
      /\ key' = [key EXCEPT ![b] = at[t]]
      /\ UNCHANGED <<slot, lru, op, at, toFree, poTarget, flushVars>>
  BY <1>0, <1>d DEF CreateBlock, CallTypes, Goto, cacheVars
<1>2. /\ at[t] \in Keys /\ d \in Bands /\ op[t] \in IoOps
  <2>1. at[t] \in Keys /\ BandOf(at[t]) \in Bands
    BY <1>0, <1>1, AtIsKey DEF OwnerLabels, IoLabels
  <2> QED BY <1>0, <1>d, <1>1, <2>1 DEF CallOf, OpOf, IoLabels
<1>3. \A c : Frees(c) => Frees(c)' \/ c = b
  <2>1. CASE psListBlocksToFree[d] # <<>>
    <3>1. psListBlocksToFree[d] \in Seq(Blocks)
      BY <1>0, <1>2 DEF BandTypes
    <3>2. ToSet(psListBlocksToFree[d]) \subseteq
            ToSet(Tail(psListBlocksToFree[d])) \cup {b}
      BY <1>1, <2>1, <3>1, TailProperties
    <3>3. \A e \in Bands : psListBlocksToFree'[e] =
            IF e = d THEN Tail(psListBlocksToFree[d]) ELSE psListBlocksToFree[e]
      BY <1>0, <1>1, <2>1 DEF BandTypes
    <3> QED BY <1>2, <3>2, <3>3 DEF Frees, FreeBlocks
  <2>2. CASE psListBlocksToFree[d] = <<>>
    BY <1>1, <2>2 DEF Frees, FreeBlocks
  <2> QED BY <2>1, <2>2
<1>4. b \notin ToSet(lru) /\ \A u \in Threads : b \notin Claimed(u)
  BY <1>0, CreatedIsFree
<1>5. \A c \in Blocks : key'[c] = IF c = b THEN at[t] ELSE key[c]
  BY <1>0, <1>1 DEF BlockTypes
<1>6. /\ ~HoldsNew(t) /\ ~NotYet(t) /\ NotYet(t)' /\ ~Past(t)' /\ ~InLoop(t)'
      /\ pc[t] \notin FlushLabels /\ Claimed(t)' = Claimed(t)
  <2>1. /\ ~HoldsNew(t) /\ ~NotYet(t) /\ NotYet(t)' /\ pc[t] \notin FlushLabels
    BY <1>1, <1>2 DEF HoldsNew, Internalizing, EvictLabels, CriticalLabels,
       NotYet, RoundEnd, FlushLabels
  <2> QED BY <1>1, <2>1 DEF Past, InLoop, FlushLabels, Claimed, Evicting, Flushing
<1>7. Changes(t)
  <2>1. \A u \in Threads : \A c \in Claimed(u) : key'[c] = key[c]
    BY <1>0, <1>4, <1>5, ClaimedAreBlocks
  <2>2. \A c \in ToSet(lru) : key'[c] = key[c]
    BY <1>0, <1>4, <1>5, ClaimedAreBlocks
  <2> QED BY <1>1, <1>6, <2>1, <2>2 DEF Changes, Unreferencing
<1>8. PlacedStep(t)
  BY <1>1, <1>3, <1>5, <1>6 DEF PlacedStep
<1>9. FoundStep(t)
  <2>1. \A c : HeldBy(t, c) => HeldBy(t, c)'
    BY <1>1, <1>6 DEF HeldBy, flushVars
  <2>2. \A c \in ToSet(lru) : key'[c] = key[c]
    BY <1>0, <1>4, <1>5, ClaimedAreBlocks
  <2> QED BY <1>1, <2>1, <2>2 DEF FoundStep
<1>10. NewOf(t)' /\ LoopOf(t)'
  <2>1. \A u \in Threads \ {t} : Unreferencing(u)' = Unreferencing(u)
    BY StorageRoles
  <2> QED BY <1>0, <1>1, <1>6, <2>1 DEF NewOf, LoopOf
<1> QED
  BY <1>7, <1>8, <1>9, <1>10, FiledStep

(* FreeDanglingBlocks() deletes the blocks of a free list, no others.      *)
LEMMA Freed ==
    ASSUME OwnInv, NEW t \in Threads, Others(t), NEW d \in Bands,
           FreeDanglingBlocks(d)
    PROVE  /\ \A c \in Blocks : key'[c] \in Keys => key'[c] = key[c]
           /\ \A c \in Blocks : Frees(c) /\ key'[c] \in Keys => Frees(c)'
           /\ \A u \in Threads : \A c \in Claimed(u) : key'[c] = key[c]
           /\ \A c \in ToSet(lru) : key'[c] = key[c]
           /\ \A c \in Blocks : BandOf(key[c]) = d /\ Frees(c) /\ key[c] \in Keys =>
                key'[c] \notin Keys
<1>0. BlockTypes /\ BandTypes /\ StoreInv /\ Exclusive
  BY DEF OwnInv, Owned, ControlInv, Types
<1>1. /\ \A c \in Blocks : c \notin FreeBlocks(d) => key'[c] = key[c]
      /\ \A c \in FreeBlocks(d) : c \in Blocks /\ key'[c] \notin Keys
  <2>1. FreeBlocks(d) \subseteq Blocks
    BY ClaimedAreBlocks
  <2> QED BY <2>1, NoKeyIsNoKey DEF FreeDanglingBlocks, Deleted, FreeBlocks
<1>2. \A e \in Bands \ {d} : FreeBlocks(e)' = FreeBlocks(e)
  BY <1>0 DEF FreeDanglingBlocks, BandTypes, FreeBlocks
<1>3. \A c \in Blocks : Frees(c) /\ key'[c] \in Keys => Frees(c)'
  BY <1>1, <1>2 DEF Frees
<1>4. \A u \in Threads : \A c \in Claimed(u) : c \in Blocks /\ c \notin FreeBlocks(d)
  BY <1>0, ClaimedAreBlocks DEF Exclusive
<1>5. \A c \in ToSet(lru) : c \in Blocks /\ c \notin FreeBlocks(d)
  BY <1>0, ClaimedAreBlocks DEF Exclusive
<1>6. \A c \in Blocks : BandOf(key[c]) = d /\ Frees(c) => c \in FreeBlocks(d)
  BY <1>0 DEF Frees, StoreInv
<1> QED
  BY <1>1, <1>3, <1>4, <1>5, <1>6

(* The new block enters the storage, at an offset that is free.            *)
LEMMA Filed_AdoptBlock ==
    ASSUME FiledInv, AllocationsSucceed, NEW t \in Threads, Others(t),
           NEW ok \in BOOLEAN, AdoptBlock(t, ok)
    PROVE  Filed'
<1>0. /\ CallTypes /\ CallOf(t) /\ BandTypes /\ KeysOf(t) /\ OldSetOf(t) /\ OwnInv
      /\ NewOf(t)
  BY DEF FiledInv, Filed, OwnInv, Owned, ControlInv, Types
<1>b. PICK b : b = poBlock[t]
  OBVIOUS
<1>d. PICK d : d = BandOf(at[t])
  OBVIOUS
<1>1. /\ pc[t] = "adopt" /\ pc'[t] \in {"readRW", "locked"}
      /\ slot' = [slot EXCEPT ![at[t]] = b] /\ FreeDanglingBlocks(d)
      /\ UNCHANGED <<lru, callVars, scanVars, iOff, oOldSet>>
  <2>1. ok = TRUE
    BY DEF AdoptBlock, AllocationsSucceed
  <2> QED BY <1>0, <1>b, <1>d, <2>1 DEF AdoptBlock, CallTypes, Goto, cacheVars
<1>2. /\ Past(t) /\ ~HoldsNew(t)' /\ ~NotYet(t) /\ ~InLoop(t) /\ ~InLoop(t)'
      /\ pc[t] \notin FlushLabels /\ Claimed(t)' = Claimed(t) /\ HasLock(t)
  <2>1. /\ Past(t) /\ ~HoldsNew(t)' /\ ~InLoop(t) /\ ~InLoop(t)' /\ HasLock(t)
        /\ pc[t] \notin FlushLabels
    BY <1>1 DEF HoldsNew, Past, Internalizing, EvictLabels, CriticalLabels,
       HasLock, InLoop, FlushLabels
  <2> QED BY <1>1, <2>1 DEF NotYet, RoundEnd, CriticalLabels, Claimed, Evicting,
             Flushing, scanVars
<1>3. at[t] \in Keys /\ d \in Bands /\ slot[at[t]] = Null
  BY <1>0, <1>d, <1>2, NewIsOwn DEF NewOf
<1>4. \A k \in Keys : slot'[k] = IF k = at[t] THEN b ELSE slot[k]
  BY <1>0, <1>1 DEF BandTypes
<1>5. key[b] = at[t] /\ b \in Blocks
  BY <1>0, <1>b, <1>2, UserIsOwner DEF KeysOf
<1>6. /\ \A c \in Blocks : key'[c] \in Keys => key'[c] = key[c]
      /\ \A c \in Blocks : Frees(c) /\ key'[c] \in Keys => Frees(c)'
      /\ \A u \in Threads : \A c \in Claimed(u) : key'[c] = key[c]
      /\ \A c \in ToSet(lru) : key'[c] = key[c]
  BY <1>0, <1>1, <1>3, Freed
<1>7. Changes(t)
  BY <1>1, <1>2, <1>4, <1>6 DEF Changes, Unreferencing, Past
<1>8. PlacedStep(t)
  BY <1>1, <1>2, <1>6 DEF PlacedStep
<1>9. FoundStep(t)
  <2>1. ASSUME NEW c \in ToSet(lru), c # b
        PROVE  ~HeldBy(t, c) /\ (slot[key[c]] = c => slot'[key[c]] = c)
    <3>1. c # Null /\ key[c] \in Keys
      BY <1>0, ClaimedAreBlocks, NamesAssumption DEF OwnInv, Owned, StoreInv
    <3>2. ~HeldBy(t, c)
      BY <1>0, <1>b, <1>2, <2>1, <3>1 DEF HeldBy, OldSetOf
    <3> QED BY <1>3, <1>4, <3>1, <3>2
  <2>2. b \in ToSet(lru) => slot'[key'[b]] = b
    BY <1>3, <1>4, <1>5, <1>6
  <2> QED BY <1>1, <1>6, <2>1, <2>2 DEF FoundStep
<1>10. NewOf(t)' /\ LoopOf(t)'
  BY <1>1, <1>2 DEF NewOf, LoopOf, Past
<1> QED
  BY <1>7, <1>8, <1>9, <1>10, FiledStep

(* FlushBlock() holds the block that it takes from the storage.            *)
LEMMA Filed_FlushBlock ==
    ASSUME FiledInv, NEW t \in Threads, Others(t), FlushBlock(t)
    PROVE  Filed'
<1>0. /\ CallTypes /\ CallOf(t) /\ BandTypes /\ OldSetOf(t) /\ OwnInv
  BY DEF FiledInv, OwnInv, Owned, ControlInv, Types
<1>b. PICK b : b = slot[at[t]]
  OBVIOUS
<1>1. /\ pc[t] = "flushBlock" /\ op[t] \notin FlushOps
      /\ pc'[t] \in {"claimFlush", "failed", "flushed"}
      /\ pc'[t] = "claimFlush" <=> b # Null
      /\ poBlock'[t] = b /\ slot' = [slot EXCEPT ![at[t]] = Null]
      /\ UNCHANGED <<key, lru, psListBlocksToFree, op, at, scanVars, flushVars>>
  <2>1. pc[t] = "flushBlock"
    BY DEF FlushBlock
  <2>2. op[t] \notin FlushOps
    BY <1>0, <2>1 DEF CallOf, OpOf, IoOps, ReadOps, WriteOps, FlushOps
  <2> QED BY <1>0, <1>b, <2>1, <2>2 DEF FlushBlock, AfterFlushBlock, CallTypes,
             Goto, cacheVars, blockVars
<1>2. /\ ~HoldsNew(t) /\ ~HoldsNew(t)' /\ ~NotYet(t) /\ ~InLoop(t) /\ ~InLoop(t)'
      /\ pc[t] \notin FlushLabels /\ Claimed(t)' = Claimed(t)
      /\ pc'[t] = "claimFlush" => pc'[t] \in FlushLabels
  BY <1>1 DEF HoldsNew, Internalizing, EvictLabels, CriticalLabels, NotYet,
     RoundEnd, FlushLabels, InLoop, Claimed, Evicting, Flushing, scanVars
<1>3. at[t] \in Keys
  BY <1>0, <1>1, AtIsKey DEF OwnerLabels
<1>4. \A k \in Keys : slot'[k] = IF k = at[t] THEN Null ELSE slot[k]
  BY <1>0, <1>1 DEF BandTypes
<1>5. Changes(t)
  BY <1>1, <1>2, <1>4 DEF Changes, Unreferencing, Past
<1>6. PlacedStep(t)
  <2>1. \A c : Frees(c)' <=> Frees(c)
    BY <1>1 DEF Frees, FreeBlocks
  <2> QED BY <1>1, <1>2, <2>1 DEF PlacedStep
<1>7. FoundStep(t)
  <2>1. ASSUME NEW c \in ToSet(lru)
        PROVE  \/ HeldBy(t, c)'
               \/ ~HeldBy(t, c) /\ (slot[key[c]] = c => slot'[key[c]] = c)
    <3>1. c # Null /\ key[c] \in Keys
      BY <1>0, ClaimedAreBlocks, NamesAssumption DEF OwnInv, Owned, StoreInv
    <3>2. ~HeldBy(t, c)
      BY <1>0, <1>2, <3>1 DEF HeldBy, OldSetOf
    <3>3. c = b => HeldBy(t, c)'
      BY <1>1, <1>2, <3>1 DEF HeldBy
    <3>4. c # b => (slot[key[c]] = c => slot'[key[c]] = c)
      BY <1>b, <1>4, <3>1
    <3> QED BY <3>2, <3>3, <3>4
  <2> QED BY <1>1, <2>1 DEF FoundStep
<1>8. NewOf(t)' /\ LoopOf(t)'
  BY <1>1, <1>2 DEF NewOf, LoopOf, Past
<1> QED
  BY <1>5, <1>6, <1>7, <1>8, FiledStep

(* Detach() of a block that the thread has claimed.                        *)
LEMMA Filed_FlushDetach ==
    ASSUME FiledInv, NEW t \in Threads, Others(t), FlushDetach(t)
    PROVE  Filed'
<1>0. /\ CallTypes /\ CacheTypes /\ CallOf(t) /\ OwnInv /\ LoopOf(t)
  BY DEF FiledInv, Filed, OwnInv, Owned, ControlInv, Types
<1>b. PICK b : b = poBlock[t]
  OBVIOUS
<1>1. /\ pc[t] = "flushDetach" /\ pc'[t] = "flushWrite"
      /\ lru' \in {lru, Detached(lru, b)}
      /\ UNCHANGED <<key, slot, psListBlocksToFree, callVars, scanVars, flushVars>>
  BY <1>0, <1>b DEF FlushDetach, DetachUnlocked, CallTypes, Goto, bandVars
<1>2. /\ ~HoldsNew(t) /\ ~HoldsNew(t)' /\ ~NotYet(t) /\ (InLoop(t)' <=> InLoop(t))
      /\ pc[t] \in FlushLabels /\ pc'[t] \in FlushLabels
      /\ Claimed(t)' = Claimed(t) /\ b \in Claimed(t)
  BY <1>b, <1>1 DEF HoldsNew, Internalizing, EvictLabels, CriticalLabels, NotYet,
     RoundEnd, FlushLabels, InLoop, Claimed, Evicting, Flushing, scanVars, callVars
<1>3. ToSet(lru') \subseteq ToSet(lru) /\ ToSet(lru) \subseteq ToSet(lru') \cup {b}
  <2>1. ToSet(Detached(lru, b)) = ToSet(lru) \ {b}
    BY <1>0, DetachedProperties DEF CacheTypes
  <2> QED BY <1>1, <2>1
<1>4. Changes(t)
  BY <1>1, <1>2, <1>3 DEF Changes, Unreferencing, Past
<1>5. PlacedStep(t)
  <2>1. \A c : Frees(c)' <=> Frees(c)
    BY <1>1 DEF Frees, FreeBlocks
  <2>2. \A c \in ToSet(lru) : c \in ToSet(lru') \/ (c \in Claimed(t))'
    BY <1>2, <1>3
  <2> QED BY <1>1, <1>2, <2>1, <2>2 DEF PlacedStep
<1>6. FoundStep(t)
  <2>1. \A c : HeldBy(t, c)' <=> HeldBy(t, c)
    BY <1>1, <1>2 DEF HeldBy, callVars, flushVars
  <2> QED BY <1>1, <1>3, <2>1 DEF FoundStep
<1>7. NewOf(t)'
  BY <1>1, <1>2 DEF NewOf, Past
<1>8. LoopOf(t)'
  BY <1>0, <1>1, <1>2 DEF LoopOf, callVars, flushVars
<1> QED
  BY <1>4, <1>5, <1>6, <1>7, <1>8, FiledStep

(* The destructor of a block that the thread has flushed.                  *)
LEMMA Filed_Delete ==
    ASSUME FiledInv, NEW t \in Threads, Others(t), Delete(t)
    PROVE  Filed'
<1>0. /\ CallTypes /\ CacheTypes /\ CallOf(t) /\ KeysOf(t) /\ StoreInv /\ OwnInv
      /\ Exclusive /\ LoopOf(t)
  BY DEF FiledInv, Filed, OwnInv, Owned, ControlInv, Types
<1>b. PICK b : b = poBlock[t]
  OBVIOUS
<1>1. /\ pc[t] = "delete" /\ pc'[t] \in {"flushNext", "failed", "flushed"}
      /\ pc'[t] = "flushed" => op[t] \notin FlushOps
      /\ lru' = IF bMustDetach[b] THEN Detached(lru, b) ELSE lru
      /\ Deleted({b})
      /\ UNCHANGED <<slot, psListBlocksToFree, op, at, scanVars, flushVars>>
  <2>1. pc[t] = "delete"
    BY <1>0 DEF Delete, KeysOf
  <2> QED BY <1>0, <1>b, <2>1 DEF Delete, DetachUnlocked, AfterFlushBlock,
             CallTypes, Goto, bandVars
<1>2. b \in Blocks
  BY <1>0, <1>b, <1>1, UserIsOwner DEF FlushLabels
<1>3. /\ key'[b] \notin Keys /\ \A c \in Blocks \ {b} : key'[c] = key[c]
      /\ ToSet(lru') = ToSet(lru) \ {b}
  <2>1. ToSet(Detached(lru, b)) = ToSet(lru) \ {b}
    BY <1>0, DetachedProperties DEF CacheTypes
  <2>2. b \in ToSet(lru) => bMustDetach[b]
    BY <1>0 DEF StoreInv
  <2>3. ToSet(lru') = ToSet(lru) \ {b}
    BY <1>1, <2>1, <2>2
  <2> QED BY <1>1, <1>2, <2>3, NoKeyIsNoKey DEF Deleted
<1>4. /\ ~HoldsNew(t) /\ ~HoldsNew(t)' /\ ~NotYet(t) /\ (InLoop(t)' => InLoop(t))
      /\ pc[t] \in FlushLabels /\ b \in Claimed(t)
      /\ Claimed(t) \subseteq Claimed(t)' \cup {b}
  <2>1. /\ ~HoldsNew(t) /\ ~HoldsNew(t)' /\ ~NotYet(t) /\ (InLoop(t)' => InLoop(t))
        /\ pc[t] \in FlushLabels
    BY <1>1 DEF HoldsNew, Internalizing, EvictLabels, CriticalLabels, NotYet,
       RoundEnd, FlushLabels, InLoop
  <2> QED BY <1>b, <1>1, <2>1 DEF Claimed, Evicting, Flushing, scanVars
<1>5. \A u \in Threads \ {t} : \A c \in Claimed(u) : c \in Blocks \ {b}
  BY <1>0, <1>4, ClaimedAreBlocks DEF Exclusive
<1>6. \A c \in ToSet(lru') : c \in Blocks \ {b} /\ c \in ToSet(lru)
  BY <1>0, <1>3, ClaimedAreBlocks
<1>7. Changes(t)
  BY <1>1, <1>3, <1>4, <1>5, <1>6 DEF Changes, Unreferencing, Past
<1>8. PlacedStep(t)
  <2>1. \A c : Frees(c)' <=> Frees(c)
    BY <1>1 DEF Frees, FreeBlocks
  <2>2. \A c \in Blocks : key'[c] \in Keys => key[c] \in Keys /\ c # b
    BY <1>3
  <2> QED BY <1>3, <1>4, <2>1, <2>2 DEF PlacedStep
<1>9. FoundStep(t)
  <2>1. \A c : c # b /\ HeldBy(t, c) => HeldBy(t, c)'
    BY <1>b, <1>1, <1>4 DEF HeldBy, flushVars
  <2> QED BY <1>1, <1>3, <1>6, <2>1 DEF FoundStep
<1>10. NewOf(t)'
  BY <1>1, <1>4 DEF NewOf, Past
<1>11. LoopOf(t)'
  BY <1>0, <1>1, <1>4 DEF LoopOf, flushVars
<1> QED
  BY <1>7, <1>8, <1>9, <1>10, <1>11, FiledStep

(* FlushCache() moves the storage of a hash set away, with the blocks that *)
(* it still holds.                                                         *)
LEMMA Filed_FlushStorage ==
    ASSUME FiledInv, NEW t \in Threads, Others(t), FlushStorage(t)
    PROVE  Filed'
<1>0. /\ CallTypes /\ CallOf(t) /\ BandTypes /\ FlushTypes /\ OldSetOf(t) /\ OwnInv
  BY DEF FiledInv, OwnInv, Owned, ControlInv, Types
<1>d. PICK d : d = BandOf(at[t])
  OBVIOUS
<1>1. /\ pc[t] = "flushStorage" /\ pc'[t] = "flushNext"
      /\ FreeDanglingBlocks(d)
      /\ iOff'[t] = First(Offs)
      /\ UNCHANGED <<lru, callVars, scanVars>>
  BY <1>0, <1>d DEF FlushStorage, CallTypes, FlushTypes, Goto, cacheVars
<1>2. /\ ~HoldsNew(t) /\ ~HoldsNew(t)' /\ ~NotYet(t) /\ ~InLoop(t)
      /\ pc[t] \notin FlushLabels /\ Claimed(t)' = Claimed(t)
  BY <1>1 DEF HoldsNew, Internalizing, EvictLabels, CriticalLabels, NotYet,
     RoundEnd, FlushLabels, InLoop, Claimed, Evicting, Flushing, scanVars, callVars
<1>3. d \in Bands
  BY <1>0, <1>d, <1>1, AtIsKey DEF OwnerLabels
<1>4. IF d \in HashSet
      THEN /\ \A o \in Offs : oOldSet'[t][o] = slot[<<d, o>>]
           /\ \A k \in Keys : slot'[k] = IF BandOf(k) = d THEN Null ELSE slot[k]
      ELSE UNCHANGED slot
  BY <1>0, <1>d DEF FlushStorage, FlushTypes
<1>5. \A k \in Keys : slot'[k] \in {slot[k], Null}
  BY <1>4
<1>6. /\ \A c \in Blocks : key'[c] \in Keys => key'[c] = key[c]
      /\ \A c \in Blocks : Frees(c) /\ key'[c] \in Keys => Frees(c)'
      /\ \A u \in Threads : \A c \in Claimed(u) : key'[c] = key[c]
      /\ \A c \in ToSet(lru) : key'[c] = key[c]
  BY <1>0, <1>1, <1>3, Freed
<1>7. Changes(t)
  BY <1>1, <1>2, <1>5, <1>6 DEF Changes, Unreferencing, Past
<1>8. PlacedStep(t)
  BY <1>1, <1>2, <1>6 DEF PlacedStep
<1>9. FoundStep(t)
  <2>1. ASSUME NEW c \in ToSet(lru)
        PROVE  \/ HeldBy(t, c)'
               \/ ~HeldBy(t, c) /\ (slot[key[c]] = c => slot'[key[c]] = c)
    <3>1. c # Null /\ key[c] \in Keys
      BY <1>0, ClaimedAreBlocks, NamesAssumption DEF OwnInv, Owned, StoreInv
    <3>2. ~HeldBy(t, c)
      BY <1>0, <1>2, <3>1 DEF HeldBy, OldSetOf
    <3>3. CASE d \in HashSet /\ BandOf(key[c]) = d /\ slot[key[c]] = c
      <4>1. key[c][2] \in Offs /\ key[c] = <<d, key[c][2]>>
        BY <3>1, <3>3, KeyParts
      <4>2. oOldSet'[t][key[c][2]] = c
        BY <1>4, <3>3, <4>1
      <4> QED BY <4>1, <4>2 DEF HeldBy
    <3>4. CASE ~(d \in HashSet /\ BandOf(key[c]) = d /\ slot[key[c]] = c)
      BY <1>4, <3>1, <3>2, <3>4
    <3> QED BY <3>3, <3>4
  <2> QED BY <1>1, <1>6, <2>1 DEF FoundStep
<1>10. NewOf(t)'
  BY <1>1, <1>2 DEF NewOf, Past
<1>11. LoopOf(t)'
  <2>1. First(Offs) \in Nat \ {0} /\ \A o \in Offs : o \in Nat /\ First(Offs) <= o
    <3>1. Offs \subseteq Nat \ {0}
      BY BandsAssumption
    <3> QED BY <3>1, FirstOff
  <2>2. \A o \in Offs : ~(iOff'[t] = 0 \/ o < iOff'[t])
    BY <1>1, <2>1
  <2> QED BY <1>1, <2>2 DEF LoopOf
<1> QED
  BY <1>7, <1>8, <1>9, <1>10, <1>11, FiledStep

(* The loop empties the storage in the order of the offsets, and holds the *)
(* block that it takes from it.                                            *)
LEMMA Filed_FlushNext ==
    ASSUME FiledInv, NEW t \in Threads, Others(t), FlushNext(t)
    PROVE  Filed'
<1>0. /\ CallTypes /\ CallOf(t) /\ BandTypes /\ FlushTypes /\ OldSetOf(t) /\ OwnInv
      /\ LoopOf(t)
  BY DEF FiledInv, Filed, OwnInv, Owned, ControlInv, Types
<1>d. PICK d : d = BandOf(at[t])
  OBVIOUS
<1>i. PICK i : i = iOff[t]
  OBVIOUS
<1>b. PICK b : b = IF d \in HashSet THEN oOldSet[t][i] ELSE slot[<<d, i>>]
  OBVIOUS
<1>1. /\ pc[t] = "flushNext" /\ i # 0
      /\ pc'[t] = IF b = Null THEN "flushNext" ELSE "claimFlush"
      /\ poBlock'[t] = b /\ iOff'[t] = NextOff(i)
      /\ UNCHANGED <<key, lru, psListBlocksToFree, op, at, scanVars>>
  BY <1>0, <1>d, <1>i, <1>b DEF FlushNext, CallTypes, FlushTypes, Goto, cacheVars,
     blockVars
<1>2. /\ i \in Offs /\ d \in Bands /\ <<d, i>> \in Keys /\ op[t] \in FlushOps
  <2>1. BandOf(at[t]) \in Bands
    BY <1>0, <1>1, AtIsKey DEF OwnerLabels
  <2>2. i \in Offs
    BY <1>0, <1>i, <1>1 DEF FlushTypes
  <2> QED BY <1>0, <1>d, <1>1, <2>1, <2>2, KeyParts DEF CallOf, OpOf
<1>3. /\ \A o \in Offs : oOldSet'[t][o] = IF o = i THEN Null ELSE oOldSet[t][o]
      /\ d \in HashSet => UNCHANGED slot
      /\ d \notin HashSet =>
           \A k \in Keys : slot'[k] = IF k = <<d, i>> THEN Null ELSE slot[k]
  <2>1. \A o \in Offs : oOldSet'[t][o] = IF o = i THEN Null ELSE oOldSet[t][o]
    BY <1>0, <1>i DEF FlushNext, FlushTypes
  <2> QED BY <1>0, <1>d, <1>i, <2>1 DEF FlushNext, BandTypes
<1>4. /\ ~HoldsNew(t) /\ ~HoldsNew(t)' /\ ~NotYet(t) /\ InLoop(t)
      /\ pc[t] \notin FlushLabels /\ Claimed(t)' = Claimed(t)
      /\ pc'[t] = "claimFlush" => pc'[t] \in FlushLabels
  BY <1>1, <1>2 DEF HoldsNew, Internalizing, EvictLabels, CriticalLabels, NotYet,
     RoundEnd, FlushLabels, InLoop, Claimed, Evicting, Flushing, scanVars
<1>5. \A k \in Keys : slot'[k] \in {slot[k], Null}
  BY <1>3
<1>6. Changes(t)
  BY <1>1, <1>4, <1>5 DEF Changes, Unreferencing, Past
<1>7. PlacedStep(t)
  <2>1. \A c : Frees(c)' <=> Frees(c)
    BY <1>1 DEF Frees, FreeBlocks
  <2> QED BY <1>1, <1>4, <2>1 DEF PlacedStep
<1>8. FoundStep(t)
  <2>1. ASSUME NEW c \in ToSet(lru)
        PROVE  \/ HeldBy(t, c)'
               \/ ~HeldBy(t, c) /\ (slot[key[c]] = c => slot'[key[c]] = c)
    <3>1. c # Null /\ key[c] \in Keys
      BY <1>0, ClaimedAreBlocks, NamesAssumption DEF OwnInv, Owned, StoreInv
    <3>2. c = b => HeldBy(t, c)'
      BY <1>1, <1>4, <3>1 DEF HeldBy
    <3>3. CASE HeldBy(t, c)
      <4>1. PICK o \in Offs : oOldSet[t][o] = c
        BY <1>4, <3>3 DEF HeldBy
      <4>2. d \in HashSet
        BY <1>0, <1>d, <3>1, <4>1 DEF OldSetOf
      <4>3. o = i => c = b
        BY <1>b, <4>1, <4>2
      <4>4. o # i => oOldSet'[t][o] = c
        BY <1>3, <4>1
      <4> QED BY <3>2, <4>1, <4>3, <4>4 DEF HeldBy
    <3>4. CASE ~HeldBy(t, c) /\ c # b
      BY <1>b, <1>3, <3>1, <3>4
    <3> QED BY <3>2, <3>3, <3>4
  <2> QED BY <1>1, <2>1 DEF FoundStep
<1>9. NewOf(t)'
  BY <1>1, <1>4 DEF NewOf, Past
<1>10. LoopOf(t)'
  <2>1. ASSUME NEW o \in Offs, NextOff(i) = 0 \/ o < NextOff(i)
        PROVE  slot'[<<d, o>>] = Null
    <3>1. o <= i
      BY <1>2, <2>1, NextOffProperties
    <3>2. o \in Nat /\ i \in Nat
      <4>1. Offs \subseteq Nat
        BY BandsAssumption
      <4> QED BY <1>2, <4>1
    <3>3. <<d, o>> \in Keys
      BY <1>2, KeyParts
    <3>4. CASE o < i
      BY <1>0, <1>d, <1>i, <1>4, <1>5, <3>3, <3>4 DEF LoopOf
    <3>5. CASE o = i
      <4>1. CASE d \in HashSet
        BY <1>0, <1>d, <1>4, <1>5, <3>3, <4>1 DEF OldSetOf
      <4>2. CASE d \notin HashSet
        BY <1>2, <1>3, <3>5, <4>2
      <4> QED BY <4>1, <4>2
    <3> QED BY <3>1, <3>2, <3>4, <3>5
  <2> QED BY <1>d, <1>1, <2>1 DEF LoopOf
<1> QED
  BY <1>6, <1>7, <1>8, <1>9, <1>10, FiledStep

(* ~GDALRasterBand() deletes the dangling blocks of the band, which has no *)
(* other.                                                                  *)
LEMMA Filed_Destroy ==
    ASSUME FiledInv, NEW t \in Threads, Others(t), Destroy(t)
    PROVE  Filed'
<1>0. /\ CallTypes /\ CallOf(t) /\ OwnInv /\ LoopOf(t)
  BY DEF FiledInv, Filed, OwnInv, Owned, ControlInv, Types
<1>d. PICK d : d = BandOf(at[t])
  OBVIOUS
<1>1. /\ pc[t] = "destroy" /\ pc'[t] \in {"flushed", "flushCache"}
      /\ pc'[t] = "flushed" => UNCHANGED at
      /\ FreeDanglingBlocks(d)
      /\ UNCHANGED <<lru, slot, op, poBlock, scanVars, flushVars>>
  BY <1>0, <1>d DEF Destroy, CallTypes, Goto, cacheVars
<1>2. /\ ~HoldsNew(t) /\ ~HoldsNew(t)' /\ ~NotYet(t) /\ ~InLoop(t)'
      /\ pc[t] \notin FlushLabels /\ Claimed(t)' = Claimed(t)
  BY <1>1 DEF HoldsNew, Internalizing, EvictLabels, CriticalLabels, NotYet,
     RoundEnd, FlushLabels, InLoop, Claimed, Evicting, Flushing, scanVars
<1>3. d \in Bands
  BY <1>0, <1>d, <1>1, AtIsKey DEF OwnerLabels
<1>4. /\ \A c \in Blocks : key'[c] \in Keys => key'[c] = key[c]
      /\ \A c \in Blocks : Frees(c) /\ key'[c] \in Keys => Frees(c)'
      /\ \A u \in Threads : \A c \in Claimed(u) : key'[c] = key[c]
      /\ \A c \in ToSet(lru) : key'[c] = key[c]
  BY <1>0, <1>1, <1>3, Freed
<1>5. Changes(t)
  BY <1>1, <1>2, <1>4 DEF Changes, Unreferencing, Past
<1>6. PlacedStep(t)
  BY <1>1, <1>2, <1>4 DEF PlacedStep
<1>7. FoundStep(t)
  <2>1. \A c : HeldBy(t, c)' <=> HeldBy(t, c)
    BY <1>1, <1>2 DEF HeldBy, flushVars, FlushLabels
  <2> QED BY <1>1, <1>4, <2>1 DEF FoundStep
<1>8. NewOf(t)'
  BY <1>1, <1>2 DEF NewOf, Past
<1>9. LoopOf(t)'
  BY <1>0, <1>1, <1>2, <1>4 DEF LoopOf
<1> QED
  BY <1>5, <1>6, <1>7, <1>8, <1>9, FiledStep

-----------------------------------------------------------------------------
(* The calls.                                                              *)
LEMMA Filed_Start ==
    ASSUME FiledInv, NEW t \in Threads, Start(t)
    PROVE  Filed'
<1>0. /\ CallTypes /\ ScanTypes /\ FlushTypes /\ CallOf(t) /\ KeysOf(t)
      /\ Others(t)
  BY Others_Start DEF FiledInv, OwnInv, Owned, ControlInv, Types
<1>s. ASSUME Still(t) PROVE Filed'
  BY <1>0, <1>s, StillStep
<1> USE DEF Goto, callVars, scanVars, flushVars, blockVars, bandVars, cacheVars,
            CallTypes, ScanTypes, FlushTypes
<1>1. ASSUME NEW o \in Ops, NEW k \in Keys, StartIO(t, o, k) PROVE Filed'
  <2>1. Still(t)
    BY <1>0, <1>1 DEF StartIO, Still, Steady, HoldsNew, Past, Unreferencing,
       Internalizing, EvictLabels, CriticalLabels, CallOf, OpOf, IoOps,
       ReadOps, WriteOps, GlobalOps, FlushOps, IoLabels, GlobalLabels,
       RoundEnd, Claimed, Evicting, Flushing, KeysOf, InLoop, FlushLabels,
       NotYet
  <2> QED BY <1>s, <2>1
<1>2. ASSUME NEW o \in Ops, NEW k \in Keys, StartFlush(t, o, k) PROVE Filed'
  <2>1. Still(t)
    BY <1>0, <1>2 DEF StartFlush, Still, Steady, HoldsNew, Past,
       Unreferencing, Internalizing, EvictLabels, CriticalLabels, CallOf,
       OpOf, IoOps, ReadOps, WriteOps, GlobalOps, FlushOps, IoLabels,
       GlobalLabels, RoundEnd, Claimed, Evicting, Flushing, KeysOf, InLoop,
       FlushLabels, NotYet
  <2> QED BY <1>s, <2>1
<1>3. ASSUME NEW o \in Ops, StartGlobal(t, o) PROVE Filed'
  <2>1. Still(t)
    BY <1>0, <1>3 DEF StartGlobal, Still, Steady, HoldsNew, Past,
       Unreferencing, Internalizing, EvictLabels, CriticalLabels, CallOf,
       OpOf, IoOps, ReadOps, WriteOps, GlobalOps, FlushOps, IoLabels,
       GlobalLabels, RoundEnd, Claimed, Evicting, Flushing, KeysOf, InLoop,
       FlushLabels, NotYet
  <2> QED BY <1>s, <2>1
<1>4. ASSUME NEW ds \in Datasets, Reopen(t, ds) PROVE Filed'
  <2>1. Still(t)
    BY <1>0, <1>4 DEF Reopen, Still, Steady, HoldsNew, Past, Unreferencing,
       Internalizing, EvictLabels, CriticalLabels, CallOf, OpOf, IoOps,
       ReadOps, WriteOps, GlobalOps, FlushOps, IoLabels, GlobalLabels,
       RoundEnd, Claimed, Evicting, Flushing, KeysOf, InLoop, FlushLabels,
       NotYet
  <2> QED BY <1>s, <2>1
<1>5. CASE EnterDisableDirtyBlockFlush(t)
  <2>1. Still(t)
    BY <1>0, <1>5 DEF EnterDisableDirtyBlockFlush, Still, Steady, HoldsNew,
       Past, Unreferencing, Internalizing, EvictLabels, CriticalLabels,
       CallOf, OpOf, IoOps, ReadOps, WriteOps, GlobalOps, FlushOps, IoLabels,
       GlobalLabels, RoundEnd, Claimed, Evicting, Flushing, KeysOf, InLoop,
       FlushLabels, NotYet
  <2> QED BY <1>s, <2>1
<1>6. CASE LeaveDisableDirtyBlockFlush(t)
  <2>1. Still(t)
    BY <1>0, <1>6 DEF LeaveDisableDirtyBlockFlush, Still, Steady, HoldsNew,
       Past, Unreferencing, Internalizing, EvictLabels, CriticalLabels,
       CallOf, OpOf, IoOps, ReadOps, WriteOps, GlobalOps, FlushOps, IoLabels,
       GlobalLabels, RoundEnd, Claimed, Evicting, Flushing, KeysOf, InLoop,
       FlushLabels, NotYet
  <2> QED BY <1>s, <2>1
<1> QED
  BY <1>1, <1>2, <1>3, <1>4, <1>5, <1>6 DEF Start

(* GetLockedBlockRef() and its callers.                                    *)
LEMMA Filed_Io ==
    ASSUME FiledInv, AllocationsSucceed, NEW t \in Threads, IoStep(t)
    PROVE  Filed'
<1>0. /\ CallTypes /\ ScanTypes /\ FlushTypes /\ CallOf(t) /\ KeysOf(t)
      /\ Others(t)
  BY Others_Io DEF FiledInv, OwnInv, Owned, ControlInv, Types
<1>s. ASSUME Still(t) PROVE Filed'
  BY <1>0, <1>s, StillStep
<1> USE DEF Goto, callVars, scanVars, flushVars, blockVars, bandVars, cacheVars,
            CallTypes, ScanTypes, FlushTypes
<1>1. CASE WaitPendingTasks(t)
  <2>1. Still(t)
    BY <1>0, <1>1 DEF WaitPendingTasks, Still, Steady, HoldsNew, Past,
       Unreferencing, Internalizing, EvictLabels, CriticalLabels, CallOf,
       OpOf, IoOps, ReadOps, WriteOps, GlobalOps, FlushOps, IoLabels,
       GlobalLabels, RoundEnd, Claimed, Evicting, Flushing, KeysOf, InLoop,
       FlushLabels, NotYet
  <2> QED BY <1>s, <2>1
<1>2. CASE EnterReadWrite(t)
  <2>1. Still(t)
    BY <1>0, <1>2 DEF EnterReadWrite, Still, Steady, HoldsNew, Past,
       Unreferencing, Internalizing, EvictLabels, CriticalLabels, CallOf,
       OpOf, IoOps, ReadOps, WriteOps, GlobalOps, FlushOps, IoLabels,
       GlobalLabels, RoundEnd, Claimed, Evicting, Flushing, KeysOf, InLoop,
       FlushLabels, NotYet
  <2> QED BY <1>s, <2>1
<1>3. CASE TryGetLockedBlockRef(t)
  BY <1>0, <1>3, Filed_TryGetLockedBlockRef
<1>4. CASE TakeLock(t)
  BY <1>0, <1>4, Filed_TakeLock
<1>5. CASE TakeLockFailed(t)
  <2>1. Still(t)
    BY <1>0, <1>5 DEF TakeLockFailed, Still, Steady, HoldsNew, Past,
       Unreferencing, Internalizing, EvictLabels, CriticalLabels, CallOf,
       OpOf, IoOps, ReadOps, WriteOps, GlobalOps, FlushOps, IoLabels,
       GlobalLabels, RoundEnd, Claimed, Evicting, Flushing, KeysOf, InLoop,
       FlushLabels, NotYet
  <2> QED BY <1>s, <2>1
<1>6. CASE Touch(t)
  <2>1. Still(t)
    BY <1>0, <1>6 DEF Touch, IsNewest, Still, Steady, HoldsNew, Past,
       Unreferencing, Internalizing, EvictLabels, CriticalLabels, CallOf,
       OpOf, IoOps, ReadOps, WriteOps, GlobalOps, FlushOps, IoLabels,
       GlobalLabels, RoundEnd, Claimed, Evicting, Flushing, KeysOf, InLoop,
       FlushLabels, NotYet
  <2> QED BY <1>s, <2>1
<1>7. CASE TouchLocked(t)
  BY <1>0, <1>7, Filed_TouchLocked
<1>8. CASE CreateBlockFails(t)
  <2>1. Still(t)
    BY <1>0, <1>8 DEF CreateBlockFails, Still, Steady, HoldsNew, Past,
       Unreferencing, Internalizing, EvictLabels, CriticalLabels, CallOf,
       OpOf, IoOps, ReadOps, WriteOps, GlobalOps, FlushOps, IoLabels,
       GlobalLabels, RoundEnd, Claimed, Evicting, Flushing, KeysOf, InLoop,
       FlushLabels, NotYet
  <2> QED BY <1>s, <2>1
<1>9. CASE ReacquireReadWriteLock(t)
  <2>1. Still(t)
    BY <1>0, <1>9 DEF ReacquireReadWriteLock, Still, Steady, HoldsNew, Past,
       Unreferencing, Internalizing, EvictLabels, CriticalLabels, CallOf,
       OpOf, IoOps, ReadOps, WriteOps, GlobalOps, FlushOps, IoLabels,
       GlobalLabels, RoundEnd, Claimed, Evicting, Flushing, KeysOf, InLoop,
       FlushLabels, NotYet
  <2> QED BY <1>s, <2>1
<1>10. ASSUME NEW b \in Blocks, CreateBlock(t, b) PROVE Filed'
  BY <1>0, <1>10, Filed_CreateBlock
<1>11. ASSUME NEW ok \in BOOLEAN, Allocate(t, ok) PROVE Filed'
  <2>1. Still(t)
    BY <1>0, <1>11 DEF Allocate, Still, Steady, HoldsNew, Past, Unreferencing,
       Internalizing, EvictLabels, CriticalLabels, CallOf, OpOf, IoOps,
       ReadOps, WriteOps, GlobalOps, FlushOps, IoLabels, GlobalLabels,
       RoundEnd, Claimed, Evicting, Flushing, KeysOf, InLoop, FlushLabels,
       NotYet
  <2> QED BY <1>s, <2>1
<1>12. ASSUME NEW ok \in BOOLEAN, AdoptBlock(t, ok) PROVE Filed'
  BY <1>0, <1>12, Filed_AdoptBlock
<1>13. ASSUME NEW ok \in BOOLEAN, ReadBlock(t, ok) PROVE Filed'
  <2>1. Still(t)
    BY <1>0, <1>13 DEF ReadBlock, Still, Steady, HoldsNew, Past,
       Unreferencing, Internalizing, EvictLabels, CriticalLabels, CallOf,
       OpOf, IoOps, ReadOps, WriteOps, GlobalOps, FlushOps, IoLabels,
       GlobalLabels, RoundEnd, Claimed, Evicting, Flushing, KeysOf, InLoop,
       FlushLabels, NotYet
  <2> QED BY <1>s, <2>1
<1>14. CASE WriteLocked(t)
  <2>1. Still(t)
    BY <1>0, <1>14 DEF WriteLocked, Still, Steady, HoldsNew, Past,
       Unreferencing, Internalizing, EvictLabels, CriticalLabels, CallOf,
       OpOf, IoOps, ReadOps, WriteOps, GlobalOps, FlushOps, IoLabels,
       GlobalLabels, RoundEnd, Claimed, Evicting, Flushing, KeysOf, InLoop,
       FlushLabels, NotYet
  <2> QED BY <1>s, <2>1
<1>15. CASE Discard(t)
  BY <1>0, <1>15 DEF Discard, KeysOf
<1>16. CASE Failed(t)
  <2>1. Still(t)
    BY <1>0, <1>16 DEF Failed, Return, Still, Steady, HoldsNew, Past,
       Unreferencing, Internalizing, EvictLabels, CriticalLabels, CallOf,
       OpOf, IoOps, ReadOps, WriteOps, GlobalOps, FlushOps, IoLabels,
       GlobalLabels, RoundEnd, Claimed, Evicting, Flushing, KeysOf, InLoop,
       FlushLabels, NotYet
  <2> QED BY <1>s, <2>1
<1>17. ASSUME NEW more \in BOOLEAN, DropLock(t, more) PROVE Filed'
  <2>1. Still(t)
    BY <1>0, <1>17 DEF DropLock, Return, Still, Steady, HoldsNew, Past,
       Unreferencing, Internalizing, EvictLabels, CriticalLabels, CallOf,
       OpOf, IoOps, ReadOps, WriteOps, GlobalOps, FlushOps, IoLabels,
       GlobalLabels, RoundEnd, Claimed, Evicting, Flushing, KeysOf, InLoop,
       FlushLabels, NotYet
  <2> QED BY <1>s, <2>1
<1> QED
  BY <1>1, <1>2, <1>3, <1>4, <1>5, <1>6, <1>7, <1>8, <1>9, <1>10, <1>11,
     <1>12, <1>13, <1>14, <1>15, <1>16, <1>17 DEF IoStep

(* Evictions.                                                              *)
LEMMA Filed_Evict ==
    ASSUME FiledInv, NEW t \in Threads, EvictStep(t)
    PROVE  Filed'
<1>0. /\ CallTypes /\ ScanTypes /\ FlushTypes /\ CallOf(t) /\ KeysOf(t)
      /\ Others(t)
  BY Others_Evict DEF FiledInv, OwnInv, Owned, ControlInv, Types
<1>s. ASSUME Still(t) PROVE Filed'
  BY <1>0, <1>s, StillStep
<1> USE DEF Goto, callVars, scanVars, flushVars, blockVars, bandVars, cacheVars,
            CallTypes, ScanTypes, FlushTypes
<1>1. CASE InternalizeLock(t)
  BY <1>0, <1>1, Filed_InternalizeLock
<1>2. CASE Scan(t)
  <2>1. Still(t)
    BY <1>0, <1>2 DEF Scan, Still, Steady, HoldsNew, Past, Unreferencing,
       Internalizing, EvictLabels, CriticalLabels, CallOf, OpOf, IoOps,
       ReadOps, WriteOps, GlobalOps, FlushOps, IoLabels, GlobalLabels,
       RoundEnd, Claimed, Evicting, Flushing, KeysOf, InLoop, FlushLabels,
       NotYet
  <2> QED BY <1>s, <2>1
<1>3. CASE Exchange(t)
  BY <1>0, <1>3, Filed_Claim
<1>4. CASE ExchangeOther(t)
  BY <1>0, <1>4, Filed_Claim
<1>5. CASE Fallback(t)
  BY <1>0, <1>5, Filed_Claim
<1>6. CASE FallbackEnds(t)
  <2>1. Still(t)
    BY <1>0, <1>6 DEF FallbackEnds, Still, Steady, HoldsNew, Past,
       Unreferencing, Internalizing, EvictLabels, CriticalLabels, CallOf,
       OpOf, IoOps, ReadOps, WriteOps, GlobalOps, FlushOps, IoLabels,
       GlobalLabels, RoundEnd, Claimed, Evicting, Flushing, KeysOf, InLoop,
       FlushLabels, NotYet
  <2> QED BY <1>s, <2>1
<1>7. CASE Detach(t)
  BY <1>0, <1>7, Filed_Detach
<1>8. CASE UnreferenceBlock(t)
  BY <1>0, <1>8, Filed_UnreferenceBlock
<1>9. CASE Scanned(t)
  BY <1>0, <1>9, Filed_Scanned
<1>10. CASE FreeNext(t)
  <2>1. Still(t)
    BY <1>0, <1>10 DEF FreeNext, Still, Steady, HoldsNew, Past, Unreferencing,
       Internalizing, EvictLabels, CriticalLabels, CallOf, OpOf, IoOps,
       ReadOps, WriteOps, GlobalOps, FlushOps, IoLabels, GlobalLabels,
       RoundEnd, Claimed, Evicting, Flushing, KeysOf, InLoop, FlushLabels,
       NotYet
  <2> QED BY <1>s, <2>1
<1>11. CASE Release(t)
  BY <1>0, <1>11, Filed_Release
<1>12. CASE KeepAliveDec(t)
  <2>1. Still(t)
    BY <1>0, <1>12 DEF KeepAliveDec, Still, Steady, HoldsNew, Past,
       Unreferencing, Internalizing, EvictLabels, CriticalLabels, CallOf,
       OpOf, IoOps, ReadOps, WriteOps, GlobalOps, FlushOps, IoLabels,
       GlobalLabels, RoundEnd, Claimed, Evicting, Flushing, KeysOf, InLoop,
       FlushLabels, NotYet
  <2> QED BY <1>s, <2>1
<1>13. CASE FreeEnds(t)
  <2>1. Still(t)
    BY <1>0, <1>13 DEF FreeEnds, Still, Steady, HoldsNew, Past, Unreferencing,
       Internalizing, EvictLabels, CriticalLabels, CallOf, OpOf, IoOps,
       ReadOps, WriteOps, GlobalOps, FlushOps, IoLabels, GlobalLabels,
       RoundEnd, Claimed, Evicting, Flushing, KeysOf, InLoop, FlushLabels,
       NotYet
  <2> QED BY <1>s, <2>1
<1>14. ASSUME NEW ok \in BOOLEAN, WriteEvicted(t, ok) PROVE Filed'
  <2>1. Still(t)
    BY <1>0, <1>14 DEF WriteEvicted, Still, Steady, HoldsNew, Past,
       Unreferencing, Internalizing, EvictLabels, CriticalLabels, CallOf,
       OpOf, IoOps, ReadOps, WriteOps, GlobalOps, FlushOps, IoLabels,
       GlobalLabels, RoundEnd, Claimed, Evicting, Flushing, KeysOf, InLoop,
       FlushLabels, NotYet
  <2> QED BY <1>s, <2>1
<1>15. CASE SetCacheMaxLoop(t)
  <2>1. Still(t)
    BY <1>0, <1>15 DEF SetCacheMaxLoop, Still, Steady, HoldsNew, Past,
       Unreferencing, Internalizing, EvictLabels, CriticalLabels, CallOf,
       OpOf, IoOps, ReadOps, WriteOps, GlobalOps, FlushOps, IoLabels,
       GlobalLabels, RoundEnd, Claimed, Evicting, Flushing, KeysOf, InLoop,
       FlushLabels, NotYet
  <2> QED BY <1>s, <2>1
<1>16. CASE FlushCacheBlock(t)
  <2>1. Still(t)
    BY <1>0, <1>16 DEF FlushCacheBlock, Still, Steady, HoldsNew, Past,
       Unreferencing, Internalizing, EvictLabels, CriticalLabels, CallOf,
       OpOf, IoOps, ReadOps, WriteOps, GlobalOps, FlushOps, IoLabels,
       GlobalLabels, RoundEnd, Claimed, Evicting, Flushing, KeysOf, InLoop,
       FlushLabels, NotYet
  <2> QED BY <1>s, <2>1
<1>17. CASE FlushScan(t)
  <2>1. Still(t)
    BY <1>0, <1>17 DEF FlushScan, Still, Steady, HoldsNew, Past,
       Unreferencing, Internalizing, EvictLabels, CriticalLabels, CallOf,
       OpOf, IoOps, ReadOps, WriteOps, GlobalOps, FlushOps, IoLabels,
       GlobalLabels, RoundEnd, Claimed, Evicting, Flushing, KeysOf, InLoop,
       FlushLabels, NotYet
  <2> QED BY <1>s, <2>1
<1>18. CASE FlushExchange(t)
  BY <1>0, <1>18, Filed_Claim
<1>19. CASE FlushScanEnds(t)
  <2>1. Still(t)
    BY <1>0, <1>19 DEF FlushScanEnds, Still, Steady, HoldsNew, Past,
       Unreferencing, Internalizing, EvictLabels, CriticalLabels, CallOf,
       OpOf, IoOps, ReadOps, WriteOps, GlobalOps, FlushOps, IoLabels,
       GlobalLabels, RoundEnd, Claimed, Evicting, Flushing, KeysOf, InLoop,
       FlushLabels, NotYet
  <2> QED BY <1>s, <2>1
<1>20. CASE FlushedOne(t)
  <2>1. Still(t)
    BY <1>0, <1>20 DEF FlushedOne, Still, Steady, HoldsNew, Past,
       Unreferencing, Internalizing, EvictLabels, CriticalLabels, CallOf,
       OpOf, IoOps, ReadOps, WriteOps, GlobalOps, FlushOps, IoLabels,
       GlobalLabels, RoundEnd, Claimed, Evicting, Flushing, KeysOf, InLoop,
       FlushLabels, NotYet
  <2> QED BY <1>s, <2>1
<1> QED
  BY <1>1, <1>2, <1>3, <1>4, <1>5, <1>6, <1>7, <1>8, <1>9, <1>10, <1>11,
     <1>12, <1>13, <1>14, <1>15, <1>16, <1>17, <1>18, <1>19, <1>20 DEF
     EvictStep

(* FlushBlock(), FlushCache() and the destructors.                         *)
LEMMA Filed_Flush ==
    ASSUME FiledInv, NEW t \in Threads, FlushStep(t)
    PROVE  Filed'
<1>0. /\ CallTypes /\ ScanTypes /\ FlushTypes /\ CallOf(t) /\ KeysOf(t)
      /\ Others(t)
  BY Others_Flush DEF FiledInv, OwnInv, Owned, ControlInv, Types
<1>s. ASSUME Still(t) PROVE Filed'
  BY <1>0, <1>s, StillStep
<1> USE DEF Goto, callVars, scanVars, flushVars, blockVars, bandVars, cacheVars,
            CallTypes, ScanTypes, FlushTypes
<1>1. CASE FlushBlock(t)
  BY <1>0, <1>1, Filed_FlushBlock
<1>2. CASE ClaimFlush(t)
  BY <1>0, <1>2, Filed_ClaimFlush
<1>3. CASE FlushWait(t)
  BY <1>0, <1>3, Filed_FlushWait
<1>4. CASE FlushDetach(t)
  BY <1>0, <1>4, Filed_FlushDetach
<1>5. CASE FlushWrite(t)
  <2>1. Still(t)
    BY <1>0, <1>5 DEF FlushWrite, Still, Steady, HoldsNew, Past,
       Unreferencing, Internalizing, EvictLabels, CriticalLabels, CallOf,
       OpOf, IoOps, ReadOps, WriteOps, GlobalOps, FlushOps, IoLabels,
       GlobalLabels, RoundEnd, Claimed, Evicting, Flushing, KeysOf, InLoop,
       FlushLabels, NotYet
  <2> QED BY <1>s, <2>1
<1>6. CASE Delete(t)
  BY <1>0, <1>6, Filed_Delete
<1>7. CASE FlushCache(t)
  <2>1. Still(t)
    BY <1>0, <1>7 DEF FlushCache, Still, Steady, HoldsNew, Past,
       Unreferencing, Internalizing, EvictLabels, CriticalLabels, CallOf,
       OpOf, IoOps, ReadOps, WriteOps, GlobalOps, FlushOps, IoLabels,
       GlobalLabels, RoundEnd, Claimed, Evicting, Flushing, KeysOf, InLoop,
       FlushLabels, NotYet
  <2> QED BY <1>s, <2>1
<1>8. CASE FlushStorage(t)
  BY <1>0, <1>8, Filed_FlushStorage
<1>9. CASE FlushNext(t)
  BY <1>0, <1>9, Filed_FlushNext
<1>10. CASE FlushEnds(t)
  BY <1>0, <1>10, Filed_FlushEnds
<1>11. CASE Destroy(t)
  BY <1>0, <1>11, Filed_Destroy
<1>12. CASE Flushed(t)
  <2>1. Still(t)
    BY <1>0, <1>12 DEF Flushed, Return, Still, Steady, HoldsNew, Past,
       Unreferencing, Internalizing, EvictLabels, CriticalLabels, CallOf,
       OpOf, IoOps, ReadOps, WriteOps, GlobalOps, FlushOps, IoLabels,
       GlobalLabels, RoundEnd, Claimed, Evicting, Flushing, KeysOf, InLoop,
       FlushLabels, NotYet
  <2> QED BY <1>s, <2>1
<1>13. ASSUME NEW ok \in BOOLEAN, FlushIO(t, ok) PROVE Filed'
  <2>1. Still(t)
    BY <1>0, <1>13 DEF FlushIO, Still, Steady, HoldsNew, Past, Unreferencing,
       Internalizing, EvictLabels, CriticalLabels, CallOf, OpOf, IoOps,
       ReadOps, WriteOps, GlobalOps, FlushOps, IoLabels, GlobalLabels,
       RoundEnd, Claimed, Evicting, Flushing, KeysOf, InLoop, FlushLabels,
       NotYet
  <2> QED BY <1>s, <2>1
<1> QED
  BY <1>1, <1>2, <1>3, <1>4, <1>5, <1>6, <1>7, <1>8, <1>9, <1>10, <1>11,
     <1>12, <1>13 DEF FlushStep

-----------------------------------------------------------------------------
(* Nothing is stored at first.                                             *)
LEMMA Filed_Init == Init => Filed
<1> SUFFICES ASSUME Init PROVE Filed
  OBVIOUS
<1>1. /\ \A t \in Threads : pc[t] = "idle" /\ op[t] = "none"
      /\ \A b \in Blocks : key[b] = NoKey
      /\ ToSet(lru) = {}
  BY DEF Init, LruInit, ToSet
<1>2. Placed /\ Found
  BY <1>1, NoKeyIsNoKey DEF Placed, Found
<1>3. ASSUME NEW t \in Threads PROVE NewOf(t) /\ LoopOf(t)
  BY <1>1 DEF NewOf, LoopOf, Past, HoldsNew, Internalizing, EvictLabels,
     CriticalLabels, InLoop, FlushLabels
<1> QED BY <1>2, <1>3 DEF Filed

(* Every step of every thread keeps the blocks filed.                      *)
LEMMA FiledInv_Next ==
    ASSUME AllocationsSucceed, FiledInv, [Next]_vars
    PROVE  FiledInv'
<1>1. OwnInv'
  BY OwnInv_Next DEF FiledInv
<1>2. ASSUME NEW t \in Threads, Start(t) \/ Step(t) PROVE Filed'
  BY <1>2, Filed_Start, Filed_Io, Filed_Evict, Filed_Flush DEF Step
<1>3. CASE UNCHANGED vars
  <2>1. /\ UNCHANGED <<key, slot, psListBlocksToFree, lru, pc, op, at, poBlock>>
        /\ UNCHANGED <<poTarget, toFree, bLoopAgain, iOff, oOldSet>>
    BY <1>3 DEF vars, blockVars, cacheVars, bandVars, dataVars, callVars,
       scanVars, flushVars
  <2>2. \A t \in Threads :
          /\ HoldsNew(t)' <=> HoldsNew(t)
          /\ NotYet(t)' <=> NotYet(t)
          /\ InLoop(t)' <=> InLoop(t)
          /\ Claimed(t)' = Claimed(t) /\ LastFreed(t)' = LastFreed(t)
    BY <2>1 DEF HoldsNew, Internalizing, NotYet, InLoop, Claimed, Evicting,
       Flushing, LastFreed
  <2>3. \A t \in Threads :
          /\ Past(t)' <=> Past(t)
          /\ Unreferencing(t)' = Unreferencing(t)
          /\ \A b : HeldBy(t, b)' <=> HeldBy(t, b)
    BY <2>1, <2>2 DEF Past, Unreferencing, HeldBy
  <2>4. \A b : Out(b)' <=> Out(b)
    BY <2>1, <2>2 DEF Out, Frees, FreeBlocks
  <2>5. Placed' /\ Found'
    BY <2>1, <2>2, <2>3, <2>4 DEF FiledInv, Filed, Placed, Found
  <2>6. ASSUME NEW t \in Threads PROVE NewOf(t)' /\ LoopOf(t)'
    <3>1. NewOf(t) /\ LoopOf(t)
      BY DEF FiledInv, Filed
    <3>2. NewOf(t)'
      BY <2>1, <2>2, <2>3, <3>1 DEF NewOf
    <3> QED BY <2>1, <2>2, <3>1, <3>2 DEF LoopOf
  <2> QED BY <1>1, <2>5, <2>6 DEF FiledInv, Filed
<1> QED
  BY <1>1, <1>2, <1>3 DEF Next, FiledInv

(* Where allocations succeed, the blocks of the cache are filed: see       *)
(* Filed.                                                                  *)
THEOREM Storage == AllocationsSucceed => (Spec => []FiledInv)
<1> SUFFICES ASSUME AllocationsSucceed PROVE Spec => []FiledInv
  OBVIOUS
<1>1. Init => FiledInv
  BY ControlInv_Init, Owned_Init, Filed_Init DEF FiledInv, OwnInv
<1>2. FiledInv /\ [Next]_vars => FiledInv'
  BY FiledInv_Next
<1> QED
  BY <1>1, <1>2, PTL DEF Spec

(* A cached block is where its owner looks for it, or a thread holds it:   *)
(* an eviction that races with TryGetLockedBlockRef(), AdoptBlock(),       *)
(* FlushBlock() or FlushCache() of the owner leaves no block in the list   *)
(* that the band has forgotten.                                            *)
THEOREM CachedBlocksAreFound == AllocationsSucceed => (Spec => []CachedBlockFound)
<1> SUFFICES ASSUME AllocationsSucceed PROVE Spec => []CachedBlockFound
  OBVIOUS
<1>1. Spec => []FiledInv
  BY Storage
<1>2. FiledInv => CachedBlockFound
  BY DEF FiledInv, Filed, Found, HeldBy, CachedBlockFound
<1> QED
  BY <1>1, <1>2, PTL

-----------------------------------------------------------------------------
(* The life of bands.  Thread t destroys the bands of a dataset, in their  *)
(* order.                                                                  *)
Closing(t) == op[t] \in {"close", "suppress"}

(* The blocks of band d that evictors have taken out of it, and the        *)
(* evictors that have pushed one on its free list.                         *)
Taken(d) == {b \in Blocks : key[b] # NoKey /\ BandOf(key[b]) = d /\
               \E t \in Threads : b \in ToSet(toFree[t])}
Keeping(d) == {t \in Threads : keptBand[t] = d}
Counted == \A d \in Bands : nKeepAliveCounter[d] =
                              Cardinality(Taken(d)) + Cardinality(Keeping(d))

(* A call is made on a band that exists; those that a closing thread has   *)
(* not reached exist, and none that an evictor uses is destroyed.          *)
AliveOf(t) ==
    /\ op[t] \in OwnerOps /\ ~(Closing(t) /\ pc[t] = "flushed") =>
          alive[BandOf(at[t])]
    /\ Closing(t) => \A e \in BandsOf(DatasetOfKey(at[t])) :
          alive[e] <=> pc[t] # "flushed" /\ e >= BandOf(at[t])
    /\ pc[t] = "destroy" => nKeepAliveCounter[BandOf(at[t])] = 0

(* The bands of a dataset are created and destroyed together.              *)
Together ==
    \A d \in Bands, e \in Bands : DatasetOf[d] = DatasetOf[e] =>
       \/ alive[d] <=> alive[e]
       \/ \E t \in Threads : Closing(t) /\ DatasetOfKey(at[t]) = DatasetOf[d]

Alive ==
    /\ \A b \in Blocks : key[b] \in Keys => alive[BandOf(key[b])]
    /\ \A d \in Bands : ~alive[d] => nKeepAliveCounter[d] = 0
    /\ \A t \in Threads : AliveOf(t)
    /\ Together
AliveInv == FiledInv /\ Counted /\ Alive

(* A step that changes neither the counters nor what they count.           *)
LEMMA CountedStays ==
    ASSUME OwnInv, Counted, NEW t \in Threads, Others(t),
           UNCHANGED nKeepAliveCounter,
           toFree'[t] = toFree[t], keptBand'[t] = keptBand[t],
           \A u \in Threads : \A c \in ToSet(toFree[u]) : key'[c] = key[c]
    PROVE  Counted'
<1>1. \A u \in Threads : toFree'[u] = toFree[u] /\ keptBand'[u] = keptBand[u]
  BY OthersRoles
<1>2. ASSUME NEW d \in Bands PROVE Taken(d)' = Taken(d) /\ Keeping(d)' = Keeping(d)
  BY <1>1 DEF Taken, Keeping
<1> QED
  BY <1>2 DEF Counted

(* What a step of thread t does that creates and destroys no band: a block *)
(* is created for the band of the call, and a counter of pending tasks     *)
(* leaves 0 only for a block of the list.                                  *)
Lives(t) ==
    /\ UNCHANGED alive
    /\ \A b \in Blocks : key'[b] \in Keys =>
          \/ key'[b] = key[b]
          \/ /\ op[t] \in OwnerOps /\ pc[t] # "flushed"
             /\ BandOf(key'[b]) = BandOf(at[t])
    /\ \A d \in Bands : \/ nKeepAliveCounter'[d] = nKeepAliveCounter[d]
                        \/ nKeepAliveCounter[d] # 0
                        \/ \E b \in ToSet(lru) : BandOf(key[b]) = d
    /\ Closing(t) =>
          \/ pc[t] = "flushed"
          \/ Closing(t)' /\ DatasetOfKey(at'[t]) = DatasetOfKey(at[t])

(* A closing thread has a band of the dataset that it closes.              *)
LEMMA ClosingIsOwner ==
    ASSUME OwnInv, NEW t \in Threads, op[t] \in OwnerOps
    PROVE  /\ at[t] \in Keys /\ BandOf(at[t]) \in Bands
           /\ DatasetOfKey(at[t]) = DatasetOf[BandOf(at[t])]
           /\ Owner[DatasetOfKey(at[t])] = t
           /\ BandOf(at[t]) \in BandsOf(DatasetOfKey(at[t]))
<1>1. CallOf(t)
  BY DEF OwnInv, ControlInv
<1> QED
  BY <1>1, AtIsKey DEF DatasetOfKey, BandOf, BandsOf

(* Such a step keeps the life of bands if it keeps its own thread's part.  *)
LEMMA LivesStep ==
    ASSUME AliveInv, NEW t \in Threads, Others(t), Lives(t), AliveOf(t)'
    PROVE  Alive'
<1>0. OwnInv /\ Alive /\ StoreInv /\ \A u \in Threads : LoopOf(u)
  BY DEF AliveInv, FiledInv, Filed, OwnInv, Owned
<1>1. ASSUME NEW b \in Blocks, key'[b] \in Keys PROVE alive'[BandOf(key'[b])]
  BY <1>0, <1>1 DEF Alive, AliveOf, Lives
<1>2. ASSUME NEW d \in Bands, ~alive'[d] PROVE nKeepAliveCounter'[d] = 0
  <2>1. ~alive[d] /\ nKeepAliveCounter[d] = 0
    BY <1>0, <1>2 DEF Alive, Lives
  <2>2. \A b \in ToSet(lru) : BandOf(key[b]) # d
    BY <1>0, <2>1, ClaimedAreBlocks DEF Alive, StoreInv
  <2> QED BY <2>1, <2>2 DEF Lives
<1>3. ASSUME NEW u \in Threads PROVE AliveOf(u)'
  <2>1. CASE u = t
    BY <2>1
  <2>2. CASE u # t
    <3>1. pc'[u] = pc[u] /\ op'[u] = op[u] /\ at'[u] = at[u] /\ UNCHANGED alive
      BY <2>2, OthersRoles DEF Lives
    <3>2. AliveOf(u)
      BY <1>0 DEF Alive
    <3>3. ASSUME pc[u] = "destroy" PROVE nKeepAliveCounter'[BandOf(at[u])] = 0
      <4>1. op[u] \in FlushOps /\ op[u] \in OwnerOps
        BY <1>0, <3>3 DEF OwnInv, ControlInv, CallOf, OpOf, FlushOps, OwnerOps
      <4>2. BandOf(at[u]) \in Bands
        BY <1>0, <4>1, ClosingIsOwner
      <4>3. \A b \in ToSet(lru) : BandOf(key[b]) # BandOf(at[u])
        BY <1>0, <3>3, <4>1 DEF LoopOf
      <4>4. nKeepAliveCounter[BandOf(at[u])] = 0
        BY <3>2, <3>3 DEF AliveOf
      <4> QED BY <4>2, <4>3, <4>4 DEF Lives
    <3> QED BY <3>1, <3>2, <3>3 DEF AliveOf, Closing
  <2> QED BY <2>1, <2>2
<1>4. Together'
  <2> SUFFICES ASSUME NEW d \in Bands, NEW e \in Bands, DatasetOf[d] = DatasetOf[e],
                      ~(alive[d] <=> alive[e])
               PROVE  \E u \in Threads :
                        Closing(u)' /\ DatasetOfKey(at'[u]) = DatasetOf[d]
    BY DEF Together, Lives
  <2>1. PICK u \in Threads : Closing(u) /\ DatasetOfKey(at[u]) = DatasetOf[d]
    BY <1>0 DEF Alive, Together
  <2>2. CASE u # t
    BY <2>1, <2>2, OthersRoles DEF Closing
  <2>3. CASE u = t
    <3>1. pc[t] # "flushed"
      <4>1. d \in BandsOf(DatasetOfKey(at[t])) /\ e \in BandsOf(DatasetOfKey(at[t]))
        BY <2>1, <2>3 DEF BandsOf
      <4>2. AliveOf(t)
        BY <1>0 DEF Alive
      <4> QED BY <2>1, <2>3, <4>1, <4>2 DEF AliveOf
    <3> QED BY <2>1, <2>3, <3>1 DEF Lives
  <2> QED BY <2>2, <2>3
<1> QED
  BY <1>1, <1>2, <1>3, <1>4 DEF Alive

(* Steps that take no block from its band and give none back.              *)
Calm(t) ==
    /\ UNCHANGED <<alive, nKeepAliveCounter>>
    /\ toFree'[t] = toFree[t] /\ keptBand'[t] = keptBand[t]
    /\ \A b \in Blocks : key'[b] \in Keys =>
          \/ key'[b] = key[b]
          \/ /\ op[t] \in OwnerOps /\ pc[t] # "flushed"
             /\ BandOf(key'[b]) = BandOf(at[t])
    /\ \A u \in Threads : \A c \in ToSet(toFree[u]) : key'[c] = key[c]
    /\ pc'[t] = "flushed" => ~Closing(t)'
    /\ pc'[t] = "destroy" =>
          nKeepAliveCounter[BandOf(at[t])] = 0 /\ BandOf(at'[t]) = BandOf(at[t])
    /\ \/ /\ op'[t] = op[t] /\ BandOf(at'[t]) = BandOf(at[t])
          /\ pc[t] # "flushed"
       \/ op'[t] \notin OwnerOps /\ (Closing(t) => pc[t] = "flushed")
       \/ pc[t] = "idle" /\ alive[BandOf(at'[t])] /\ ~Closing(t)'

(* Such a step keeps the counters and the life of bands.                   *)
LEMMA CalmStep ==
    ASSUME AliveInv, NEW t \in Threads, Others(t), Calm(t)
    PROVE  Counted' /\ Alive'
<1>0. OwnInv /\ Counted /\ AliveOf(t) /\ OpOf(t)
  BY DEF AliveInv, FiledInv, OwnInv, ControlInv, CallOf, Alive
<1>1. Counted'
  BY <1>0, CountedStays DEF Calm
<1>2. Closing(t)' => op'[t] \in OwnerOps
  BY DEF Closing, OwnerOps, FlushOps
<1>3. pc[t] = "idle" => ~Closing(t)
  BY <1>0 DEF OpOf, Closing
<1>4. CASE op'[t] = op[t] /\ BandOf(at'[t]) = BandOf(at[t]) /\ pc[t] # "flushed"
  <2>1. DatasetOfKey(at'[t]) = DatasetOfKey(at[t]) /\ (Closing(t)' <=> Closing(t))
    BY <1>4 DEF DatasetOfKey, BandOf, Closing
  <2>2. Lives(t)
    BY <2>1 DEF Calm, Lives
  <2>3. AliveOf(t)'
    BY <1>0, <1>4, <2>1 DEF AliveOf, Calm
  <2> QED BY <1>1, <2>2, <2>3, LivesStep
<1>5. CASE op'[t] \notin OwnerOps /\ (Closing(t) => pc[t] = "flushed")
  <2>1. Lives(t)
    BY <1>5 DEF Calm, Lives
  <2>2. AliveOf(t)'
    BY <1>2, <1>5 DEF AliveOf, Calm
  <2> QED BY <1>1, <2>1, <2>2, LivesStep
<1>6. CASE pc[t] = "idle" /\ alive[BandOf(at'[t])] /\ ~Closing(t)'
  <2>1. Lives(t)
    BY <1>3, <1>6 DEF Calm, Lives
  <2>2. AliveOf(t)'
    BY <1>6 DEF AliveOf, Calm
  <2> QED BY <1>1, <2>1, <2>2, LivesStep
<1> QED
  BY <1>4, <1>5, <1>6 DEF Calm

(* The sets that are counted are finite.                                   *)
LEMMA CountedSets ==
    ASSUME NEW d
    PROVE  /\ IsFiniteSet(Taken(d)) /\ IsFiniteSet(Keeping(d))
           /\ Cardinality(Taken(d)) \in Nat /\ Cardinality(Keeping(d)) \in Nat
<1>1. Taken(d) \subseteq Blocks /\ Keeping(d) \subseteq Threads
  BY DEF Taken, Keeping
<1>2. IsFiniteSet(Taken(d)) /\ IsFiniteSet(Keeping(d))
  BY <1>1, FiniteAssumption, FS_Subset
<1> QED
  BY <1>2, FS_CardinalityType

(* UnreferenceBlockBase() counts the block that an evictor has taken, in   *)
(* the critical section in which it leaves the list.                       *)
LEMMA Alive_Detach ==
    ASSUME AliveInv, NEW t \in Threads, Others(t), Detach(t)
    PROVE  Counted' /\ Alive'
<1>0. /\ CallTypes /\ ScanTypes /\ BandTypes /\ CallOf(t) /\ ScanOf(t) /\ OwnInv
      /\ Exclusive /\ StoreInv /\ Counted /\ AliveOf(t)
  BY DEF AliveInv, FiledInv, OwnInv, Owned, ControlInv, Types, Alive
<1>b. PICK b : b = poTarget[t]
  OBVIOUS
<1>d. PICK d : d = BandOf(key[b])
  OBVIOUS
<1>1. /\ pc[t] = "detach" /\ pc'[t] = "unreference"
      /\ toFree'[t] = Append(toFree[t], b)
      /\ nKeepAliveCounter' = [nKeepAliveCounter EXCEPT ![d] = nKeepAliveCounter[d] + 1]
      /\ UNCHANGED <<key, alive, callVars, keptBand>>
  BY <1>0, <1>b, <1>d DEF Detach, CallTypes, ScanTypes, Goto
<1>2. /\ b \in ToSet(lru) /\ b \in Blocks /\ key[b] \in Keys /\ key[b] # NoKey
      /\ d \in Bands /\ \A u \in Threads : b \notin ToSet(toFree[u])
  <2>1. b \in ToSet(lru) /\ b # Null
    BY <1>0, <1>b, <1>1 DEF ScanOf
  <2>2. b \in Blocks /\ key[b] \in Keys
    BY <1>0, <2>1, ClaimedAreBlocks DEF StoreInv
  <2> QED BY <1>0, <1>d, <2>1, <2>2, KeyParts, NoKeyIsNoKey DEF Exclusive
<1>3. /\ ToSet(toFree'[t]) = ToSet(toFree[t]) \cup {b}
      /\ \A u \in Threads \ {t} : toFree'[u] = toFree[u]
      /\ \A u \in Threads : keptBand'[u] = keptBand[u]
  <2>1. ToSet(toFree'[t]) = ToSet(toFree[t]) \cup {b}
    BY <1>0, <1>1, <1>2, AppendedProperties DEF ScanTypes
  <2> QED BY <1>1, <2>1, OthersRoles
<1>4. /\ \A c : (\E u \in Threads : c \in ToSet(toFree'[u])) <=>
                  c = b \/ \E u \in Threads : c \in ToSet(toFree[u])
  BY <1>3
<1>5. ASSUME NEW e \in Bands
      PROVE  nKeepAliveCounter'[e] = Cardinality(Taken(e)') + Cardinality(Keeping(e)')
  <2>1. /\ Keeping(e)' = Keeping(e)
        /\ nKeepAliveCounter[e] = Cardinality(Taken(e)) + Cardinality(Keeping(e))
    BY <1>0, <1>3 DEF Keeping, Counted
  <2>2. CASE e = d
    <3>1. Taken(d)' = Taken(d) \cup {b} /\ b \notin Taken(d)
      BY <1>d, <1>1, <1>2, <1>4 DEF Taken
    <3>2. Cardinality(Taken(d)') = Cardinality(Taken(d)) + 1
      BY <3>1, CountedSets, FS_AddElement
    <3>3. nKeepAliveCounter'[d] = nKeepAliveCounter[d] + 1
      BY <1>0, <1>1, <1>2 DEF BandTypes
    <3> QED BY <2>1, <2>2, <3>2, <3>3, CountedSets
  <2>3. CASE e # d
    <3>1. Taken(e)' = Taken(e)
      BY <1>d, <1>1, <1>4, <2>3 DEF Taken
    <3>2. nKeepAliveCounter'[e] = nKeepAliveCounter[e]
      BY <1>0, <1>1, <2>3 DEF BandTypes
    <3> QED BY <2>1, <3>1, <3>2
  <2> QED BY <2>2, <2>3
<1>6. Lives(t)
  <2>1. \A e \in Bands \ {d} : nKeepAliveCounter'[e] = nKeepAliveCounter[e]
    BY <1>0, <1>1 DEF BandTypes
  <2> QED BY <1>d, <1>1, <1>2, <2>1 DEF Lives, callVars, Closing
<1>7. AliveOf(t)'
  BY <1>0, <1>1 DEF AliveOf, callVars, Closing
<1> QED
  BY <1>5, <1>6, <1>7, LivesStep DEF Counted

(* An evictor that has put a block in the free list of its band still      *)
(* keeps the band alive.                                                   *)
LEMMA Alive_Release ==
    ASSUME AliveInv, NEW t \in Threads, Others(t), Release(t)
    PROVE  Counted' /\ Alive'
<1>0. /\ CallTypes /\ ScanTypes /\ CallOf(t) /\ OwnInv /\ RoundInv
      /\ Exclusive /\ Counted /\ AliveOf(t)
  BY DEF AliveInv, FiledInv, OwnInv, Owned, ControlInv, Types, Alive
<1>b. PICK b : b = Target(t)
  OBVIOUS
<1>d. PICK d : d = BandOf(key[b])
  OBVIOUS
<1>1. /\ pc[t] = "release" /\ pc'[t] = "keepAlive"
      /\ toFree'[t] = Tail(toFree[t]) /\ keptBand'[t] = d
      /\ UNCHANGED <<key, alive, callVars, nKeepAliveCounter>>
  BY <1>0, <1>b, <1>d DEF Release, CallTypes, ScanTypes, Goto
<1>2. toFree[t] # <<>> /\ toFree[t] \in Seq(Blocks)
  BY <1>0, <1>1 DEF RoundInv, RoundOf, Releasing, ScanTypes
<1>3. /\ b \in Blocks /\ b \in ToSet(toFree[t]) /\ key[b] # NoKey
      /\ d \in Bands /\ keptBand[t] = 0
  <2>1. b \in Blocks /\ b \in ToSet(toFree[t])
    BY <1>0, <1>b, <1>2, TargetIsBlock DEF OwnInv
  <2>2. key[b] \in Keys
    BY <1>0, <2>1, ClaimedAreBlocks
  <2> QED BY <1>0, <1>d, <1>1, <2>1, <2>2, KeyParts, NoKeyIsNoKey DEF CallOf
<1>4. /\ ToSet(toFree'[t]) = ToSet(toFree[t]) \ {b}
      /\ \A u \in Threads \ {t} : /\ toFree'[u] = toFree[u] /\ keptBand'[u] = keptBand[u]
                                  /\ b \notin ToSet(toFree[u])
  <2>1. ToSet(toFree'[t]) = ToSet(toFree[t]) \ {b}
    BY <1>0, <1>b, <1>1, <1>2, TailProperties DEF Target, Exclusive
  <2>2. \A u \in Threads \ {t} : b \notin ToSet(toFree[u])
    BY <1>0, <1>3, ClaimedAreBlocks DEF Exclusive
  <2> QED BY <2>1, <2>2, OthersRoles
<1>5. \A c : (\E u \in Threads : c \in ToSet(toFree'[u])) <=>
               c # b /\ \E u \in Threads : c \in ToSet(toFree[u])
  BY <1>4
<1>6. ASSUME NEW e \in Bands
      PROVE  nKeepAliveCounter'[e] = Cardinality(Taken(e)') + Cardinality(Keeping(e)')
  <2>1. nKeepAliveCounter'[e] = Cardinality(Taken(e)) + Cardinality(Keeping(e))
    BY <1>0, <1>1 DEF Counted
  <2>2. CASE e = d
    <3>1. Taken(d)' = Taken(d) \ {b} /\ b \in Taken(d)
      BY <1>d, <1>1, <1>3, <1>5 DEF Taken
    <3>2. Cardinality(Taken(d)') = Cardinality(Taken(d)) - 1
      BY <3>1, CountedSets, FS_RemoveElement
    <3>3. Keeping(d)' = Keeping(d) \cup {t} /\ t \notin Keeping(d)
      <4>1. d # 0
        BY <1>3, BandsAssumption
      <4> QED BY <1>1, <1>3, <1>4, <4>1 DEF Keeping
    <3>4. Cardinality(Keeping(d)') = Cardinality(Keeping(d)) + 1
      BY <3>3, CountedSets, FS_AddElement
    <3> QED BY <2>1, <2>2, <3>2, <3>4, CountedSets
  <2>3. CASE e # d
    <3>1. Taken(e)' = Taken(e)
      BY <1>d, <1>1, <1>5, <2>3 DEF Taken
    <3>2. Keeping(e)' = Keeping(e)
      <4>1. e # 0
        BY BandsAssumption
      <4> QED BY <1>1, <1>3, <1>4, <2>3, <4>1 DEF Keeping
    <3> QED BY <2>1, <3>1, <3>2
  <2> QED BY <2>2, <2>3
<1>7. Lives(t)
  BY <1>1 DEF Lives, callVars, Closing
<1>8. AliveOf(t)'
  BY <1>0, <1>1 DEF AliveOf, callVars, Closing
<1> QED
  BY <1>6, <1>7, <1>8, LivesStep DEF Counted

(* The last access of an evictor to a band of another thread.              *)
LEMMA Alive_KeepAliveDec ==
    ASSUME AliveInv, NEW t \in Threads, Others(t), KeepAliveDec(t)
    PROVE  Counted' /\ Alive'
<1>0. /\ CallTypes /\ ScanTypes /\ BandTypes /\ OwnInv /\ Counted /\ AliveOf(t)
  BY DEF AliveInv, FiledInv, OwnInv, ControlInv, Types, Alive
<1>d. PICK d : d = keptBand[t]
  OBVIOUS
<1>1. /\ pc[t] = "keepAlive" /\ pc'[t] = "free" /\ keptBand'[t] = 0
      /\ nKeepAliveCounter' = [nKeepAliveCounter EXCEPT ![d] = nKeepAliveCounter[d] - 1]
      /\ UNCHANGED <<key, alive, callVars, toFree>>
  BY <1>0, <1>d DEF KeepAliveDec, CallTypes, ScanTypes, Goto, blockVars
<1>2. \A u \in Threads \ {t} : keptBand'[u] = keptBand[u]
  BY OthersRoles
<1>3. ASSUME NEW e \in Bands
      PROVE  /\ nKeepAliveCounter'[e] = Cardinality(Taken(e)') + Cardinality(Keeping(e)')
             /\ nKeepAliveCounter'[e] = nKeepAliveCounter[e] \/ nKeepAliveCounter[e] # 0
  <2>1. /\ Taken(e)' = Taken(e)
        /\ nKeepAliveCounter[e] = Cardinality(Taken(e)) + Cardinality(Keeping(e))
    BY <1>0, <1>1 DEF Taken, Counted
  <2>2. e # 0
    BY BandsAssumption
  <2>3. CASE e = d
    <3>1. Keeping(d)' = Keeping(d) \ {t} /\ t \in Keeping(d)
      BY <1>d, <1>1, <1>2, <2>2, <2>3 DEF Keeping
    <3>2. Cardinality(Keeping(d)') = Cardinality(Keeping(d)) - 1
      BY <3>1, CountedSets, FS_RemoveElement
    <3>3. nKeepAliveCounter'[d] = nKeepAliveCounter[d] - 1
      BY <1>0, <1>1, <2>3 DEF BandTypes
    <3>4. Cardinality(Keeping(d)) # 0
      BY <3>1, CountedSets, FS_EmptySet
    <3> QED BY <2>1, <2>3, <3>2, <3>3, <3>4, CountedSets
  <2>4. CASE e # d
    <3>1. Keeping(e)' = Keeping(e)
      BY <1>d, <1>1, <1>2, <2>2, <2>4 DEF Keeping
    <3>2. nKeepAliveCounter'[e] = nKeepAliveCounter[e]
      BY <1>0, <1>1, <2>4 DEF BandTypes
    <3> QED BY <2>1, <3>1, <3>2
  <2> QED BY <2>3, <2>4
<1>4. Lives(t)
  BY <1>1, <1>3 DEF Lives, callVars, Closing
<1>5. AliveOf(t)'
  BY <1>0, <1>1 DEF AliveOf, callVars, Closing
<1> QED
  BY <1>3, <1>4, <1>5, LivesStep DEF Counted

(* A new block is one of the band of the call.                             *)
LEMMA Alive_CreateBlock ==
    ASSUME AliveInv, NEW t \in Threads, Others(t), NEW b \in Blocks,
           CreateBlock(t, b)
    PROVE  Counted' /\ Alive'
<1>0. CallTypes /\ BlockTypes /\ CallOf(t) /\ OwnInv
  BY DEF AliveInv, FiledInv, OwnInv, ControlInv, Types
<1>1. /\ pc[t] = "create" /\ pc'[t] = "internalize"
      /\ key' = [key EXCEPT ![b] = at[t]]
      /\ UNCHANGED <<alive, nKeepAliveCounter, toFree, keptBand, op, at>>
  BY <1>0 DEF CreateBlock, CallTypes, Goto
<1>2. \A c \in Blocks : key'[c] = IF c = b THEN at[t] ELSE key[c]
  BY <1>0, <1>1 DEF BlockTypes
<1>3. \A u \in Threads : \A c \in ToSet(toFree[u]) : key'[c] = key[c]
  BY <1>0, <1>2, CreatedIsFree, ClaimedAreBlocks
<1>4. op[t] \in OwnerOps
  BY <1>0, <1>1, AtIsKey DEF OwnerLabels, IoLabels
<1>5. Calm(t)
  BY <1>1, <1>2, <1>3, <1>4 DEF Calm
<1> QED BY <1>5, CalmStep

(* The blocks that are deleted are in the hands of no evictor.             *)
LEMMA Alive_Freed ==
    ASSUME AliveInv, NEW t \in Threads, Others(t), NEW d \in Bands,
           FreeDanglingBlocks(d), UNCHANGED <<alive, nKeepAliveCounter, op, at>>,
           toFree'[t] = toFree[t], keptBand'[t] = keptBand[t],
           pc[t] # "flushed", pc'[t] \notin {"flushed", "destroy"}
    PROVE  Counted' /\ Alive'
<1>0. OwnInv
  BY DEF AliveInv, FiledInv
<1>1. /\ \A c \in Blocks : key'[c] \in Keys => key'[c] = key[c]
      /\ \A u \in Threads : \A c \in Claimed(u) : key'[c] = key[c]
  BY <1>0, Freed
<1>2. \A u \in Threads : \A c \in ToSet(toFree[u]) : key'[c] = key[c]
  BY <1>0, <1>1, ClaimedAreBlocks
<1>3. Calm(t)
  BY <1>1, <1>2 DEF Calm
<1> QED BY <1>3, CalmStep

(* AdoptBlock() deletes only dangling blocks.                              *)
LEMMA Alive_AdoptBlock ==
    ASSUME AliveInv, NEW t \in Threads, Others(t), NEW ok \in BOOLEAN,
           AdoptBlock(t, ok)
    PROVE  Counted' /\ Alive'
<1>0. CallTypes /\ CallOf(t)
  BY DEF AliveInv, FiledInv, OwnInv, ControlInv, Types
<1>d. PICK d : d = BandOf(at[t])
  OBVIOUS
<1>1. /\ pc[t] = "adopt" /\ pc'[t] \notin {"flushed", "destroy"}
      /\ FreeDanglingBlocks(d)
      /\ UNCHANGED <<alive, nKeepAliveCounter, op, at, toFree, keptBand>>
  BY <1>0, <1>d DEF AdoptBlock, CallTypes, Goto, callVars, scanVars
<1>2. d \in Bands
  BY <1>0, <1>d, <1>1, AtIsKey DEF OwnerLabels, IoLabels
<1> QED BY <1>1, <1>2, Alive_Freed

(* FlushCache() deletes only dangling blocks before its loop.              *)
LEMMA Alive_FlushStorage ==
    ASSUME AliveInv, NEW t \in Threads, Others(t), FlushStorage(t)
    PROVE  Counted' /\ Alive'
<1>0. CallTypes /\ CallOf(t)
  BY DEF AliveInv, FiledInv, OwnInv, ControlInv, Types
<1>d. PICK d : d = BandOf(at[t])
  OBVIOUS
<1>1. /\ pc[t] = "flushStorage" /\ pc'[t] = "flushNext"
      /\ FreeDanglingBlocks(d)
      /\ UNCHANGED <<alive, nKeepAliveCounter, op, at, toFree, keptBand>>
  BY <1>0, <1>d DEF FlushStorage, CallTypes, Goto, callVars, scanVars
<1>2. d \in Bands
  BY <1>0, <1>d, <1>1, AtIsKey DEF OwnerLabels
<1> QED BY <1>1, <1>2, Alive_Freed

(* FlushBlock() deletes a block that it has claimed itself.                *)
LEMMA Alive_Delete ==
    ASSUME AliveInv, NEW t \in Threads, Others(t), Delete(t)
    PROVE  Counted' /\ Alive'
<1>0. CallTypes /\ BlockTypes /\ CallOf(t) /\ KeysOf(t) /\ OwnInv /\ Exclusive
  BY DEF AliveInv, FiledInv, OwnInv, Owned, ControlInv, Types
<1>b. PICK b : b = poBlock[t]
  OBVIOUS
<1>1. /\ pc[t] = "delete" /\ pc'[t] \in {"flushNext", "failed", "flushed"}
      /\ pc'[t] = "flushed" => op[t] \notin FlushOps
      /\ Deleted({b})
      /\ UNCHANGED <<alive, nKeepAliveCounter, toFree, keptBand, op, at>>
  <2>1. pc[t] = "delete"
    BY <1>0 DEF Delete, KeysOf
  <2> QED BY <1>0, <1>b, <2>1 DEF Delete, AfterFlushBlock, CallTypes, Goto,
             bandVars, scanVars
<1>2. \A c \in Blocks : key'[c] = IF c = b THEN NoKey ELSE key[c]
  BY <1>1 DEF Deleted
<1>3. b \in Claimed(t) /\ toFree[t] = << >>
  BY <1>0, <1>b, <1>1 DEF Claimed, Flushing, OwnInv, ControlInv, RoundInv,
     RoundOf, RoundLabels
<1>4. \A u \in Threads : \A c \in ToSet(toFree[u]) : c \in Blocks /\ c # b
  <2>1. ToSet(<< >>) = {}
    BY DEF ToSet
  <2> QED BY <1>0, <1>3, <2>1, ClaimedAreBlocks DEF Exclusive
<1>5. Calm(t)
  BY <1>1, <1>2, <1>4, NoKeyIsNoKey DEF Calm, Closing, FlushOps
<1> QED BY <1>5, CalmStep

(* WaitCompletionPendingTasks() lets a band be destroyed when no evictor   *)
(* uses it.                                                                *)
LEMMA Alive_FlushEnds ==
    ASSUME AliveInv, NEW t \in Threads, Others(t), FlushEnds(t)
    PROVE  Counted' /\ Alive'
<1>0. CallTypes
  BY DEF AliveInv, FiledInv, OwnInv, ControlInv, Types
<1>1. /\ pc[t] = "flushNext" /\ pc'[t] \in {"destroy", "flushStorage", "flushed"}
      /\ pc'[t] = "flushed" => ~Closing(t)
      /\ nKeepAliveCounter[BandOf(at[t])] = 0
      /\ UNCHANGED <<key, alive, nKeepAliveCounter, toFree, keptBand, op, at>>
  BY <1>0 DEF FlushEnds, NoPendingTasks, CallTypes, Goto, Closing, bandVars,
     scanVars, callVars, blockVars
<1>2. Calm(t)
  BY <1>1 DEF Calm, Closing
<1> QED BY <1>2, CalmStep

(* A dataset is closed from its first band on, when all of them exist.     *)
LEMMA Alive_StartFlush ==
    ASSUME AliveInv, NEW t \in Threads, Others(t), NEW o, NEW k \in Keys,
           StartFlush(t, o, k)
    PROVE  Counted' /\ Alive'
<1>0. CallTypes /\ CallOf(t) /\ OwnInv /\ Counted /\ Together
  BY DEF AliveInv, FiledInv, OwnInv, ControlInv, Types, Alive
<1>1. /\ pc[t] = "idle" /\ pc'[t] \in {"flushBlock", "flushCache"}
      /\ op'[t] = o /\ at'[t] = k /\ alive[BandOf(k)]
      /\ o \in {"close", "suppress"} => BandOf(k) = First(BandsOf(DatasetOfKey(k)))
      /\ Owner[DatasetOfKey(k)] = t
      /\ UNCHANGED <<key, alive, nKeepAliveCounter, toFree, keptBand>>
  BY <1>0 DEF StartFlush, CallTypes, Goto, blockVars, bandVars, scanVars
<1>2. op[t] = "none" /\ ~Closing(t)
  BY <1>0, <1>1 DEF CallOf, OpOf, Closing
<1>3. CASE o \notin {"close", "suppress"}
  <2>1. Calm(t)
    BY <1>1, <1>2, <1>3 DEF Calm, Closing
  <2> QED BY <2>1, CalmStep
<1>4. CASE o \in {"close", "suppress"}
  <2>1. Counted'
    BY <1>0, <1>1, CountedStays
  <2>2. Lives(t)
    BY <1>1, <1>2 DEF Lives
  <2>3. ASSUME NEW e \in BandsOf(DatasetOfKey(k))
        PROVE  alive[e] /\ e >= BandOf(k)
    <3>1. BandsOf(DatasetOfKey(k)) \subseteq Nat /\ e \in Bands
      <4>1. Bands \subseteq Nat
        BY BandsAssumption
      <4> QED BY <4>1 DEF BandsOf
    <3>2. BandOf(k) \in Nat /\ BandOf(k) <= e
      BY <1>1, <1>4, <3>1, FirstIsLeast
    <3>3. BandOf(k) \in Bands /\ DatasetOf[BandOf(k)] = DatasetOf[e]
      BY KeyParts DEF BandsOf, DatasetOfKey, BandOf
    <3>4. ~\E u \in Threads : Closing(u) /\ DatasetOfKey(at[u]) = DatasetOf[BandOf(k)]
      BY <1>0, <1>1, <1>2, ClosingIsOwner DEF Closing, OwnerOps, FlushOps,
         DatasetOfKey, BandOf
    <3>5. alive[BandOf(k)] <=> alive[e]
      BY <1>0, <3>1, <3>3, <3>4 DEF Together
    <3> QED BY <1>1, <3>1, <3>2, <3>5
  <2>4. AliveOf(t)'
    BY <1>1, <2>3 DEF AliveOf, Closing
  <2> QED BY <2>1, <2>2, <2>4, LivesStep
<1> QED BY <1>3, <1>4

-----------------------------------------------------------------------------
(* A dataset is opened again by the thread that uses it, which closes none.*)
LEMMA Alive_Reopen ==
    ASSUME AliveInv, NEW t \in Threads, Others(t), NEW ds \in Datasets,
           Reopen(t, ds)
    PROVE  Counted' /\ Alive'
<1>0. OwnInv /\ Counted /\ Alive /\ CallOf(t)
  BY DEF AliveInv, FiledInv, OwnInv, ControlInv
<1>1. /\ pc[t] = "idle" /\ Owner[ds] = t
      /\ \A d \in Bands : alive'[d] <=> alive[d] \/ DatasetOf[d] = ds
      /\ UNCHANGED <<key, nKeepAliveCounter, toFree, keptBand, pc, op, at>>
  BY DEF Reopen, blockVars, callVars, scanVars
<1>2. op[t] = "none"
  BY <1>0, <1>1 DEF CallOf, OpOf
<1>3. Counted'
  BY <1>0, <1>1, CountedStays
<1>4. ASSUME NEW b \in Blocks, key'[b] \in Keys PROVE alive'[BandOf(key'[b])]
  <2>1. BandOf(key[b]) \in Bands /\ alive[BandOf(key[b])]
    BY <1>0, <1>1, <1>4, KeyParts DEF Alive
  <2> QED BY <1>1, <2>1
<1>5. ASSUME NEW d \in Bands, ~alive'[d] PROVE nKeepAliveCounter'[d] = 0
  BY <1>0, <1>1, <1>5 DEF Alive
<1>6. ASSUME NEW u \in Threads PROVE AliveOf(u)'
  <2>1. AliveOf(u)
    BY <1>0 DEF Alive
  <2>2. op[u] \in OwnerOps =>
          /\ BandOf(at[u]) \in Bands /\ BandOf(at[u]) \in BandsOf(DatasetOfKey(at[u]))
          /\ DatasetOfKey(at[u]) # ds
    BY <1>0, <1>1, <1>2, ClosingIsOwner DEF OwnerOps, IoOps, ReadOps, WriteOps,
       FlushOps
  <2>3. Closing(u) => op[u] \in OwnerOps
    BY DEF Closing, OwnerOps, FlushOps
  <2>4. \A e \in BandsOf(DatasetOfKey(at[u])) :
          e \in Bands /\ DatasetOf[e] = DatasetOfKey(at[u])
    BY DEF BandsOf
  <2>5. op[u] \in OwnerOps =>
          \A e \in BandsOf(DatasetOfKey(at[u])) : alive'[e] <=> alive[e]
    BY <1>1, <2>2, <2>4
  <2> QED BY <1>1, <2>1, <2>2, <2>3, <2>5 DEF AliveOf, Closing
<1>7. Together'
  BY <1>0, <1>1 DEF Together, Alive, Closing
<1> QED
  BY <1>3, <1>4, <1>5, <1>6, <1>7 DEF Alive

(* The band that ~GDALRasterBand() destroys has no block left: FlushCache()*)
(* has emptied its storage, WaitCompletionPendingTasks() has waited for    *)
(* its evictors, FreeDanglingBlocks() deletes what they have given back.   *)
LEMMA NoBlockLeft ==
    ASSUME AliveInv, NEW t \in Threads, Others(t), pc[t] = "destroy",
           FreeDanglingBlocks(BandOf(at[t])),
           NEW b \in Blocks, key'[b] \in Keys
    PROVE  key'[b] = key[b] /\ BandOf(key[b]) # BandOf(at[t])
<1>0. /\ OwnInv /\ Counted /\ AliveOf(t) /\ LoopOf(t) /\ CallOf(t) /\ Placed
      /\ \A u \in Threads : ScanOf(u)
  BY DEF AliveInv, FiledInv, Filed, OwnInv, ControlInv, Alive
<1>d. PICK d : d = BandOf(at[t])
  OBVIOUS
<1>1. /\ op[t] \in {"close", "suppress"} /\ op[t] \in FlushOps /\ op[t] \in OwnerOps
  BY <1>0 DEF CallOf, OpOf, FlushOps, OwnerOps
<1>2. d \in Bands /\ Owner[DatasetOf[d]] = t
  BY <1>0, <1>d, <1>1, ClosingIsOwner
<1>3. /\ key'[b] = key[b]
      /\ BandOf(key[b]) = d /\ Frees(b) /\ key[b] \in Keys => key'[b] \notin Keys
  BY <1>0, <1>d, <1>2, Freed
<1> SUFFICES ASSUME BandOf(key[b]) = d PROVE FALSE
  BY <1>d, <1>3
<1>4. b \notin ToSet(lru)
  BY <1>0, <1>d, <1>1 DEF LoopOf
<1>5. ~Frees(b)
  BY <1>3
<1>6. ASSUME NEW u \in Threads PROVE b \notin ToSet(toFree[u])
  <2>1. SUFFICES ASSUME b \in ToSet(toFree[u]) PROVE FALSE
    OBVIOUS
  <2>2. b \in Taken(d)
    BY <1>3, <2>1, NoKeyIsNoKey DEF Taken
  <2>3. Cardinality(Taken(d)) # 0
    BY <2>2, CountedSets, FS_EmptySet
  <2>4. nKeepAliveCounter[d] = 0
    BY <1>0, <1>d DEF AliveOf
  <2> QED BY <1>0, <1>2, <2>3, <2>4, CountedSets DEF Counted
<1>7. UserOf(b) = t
  BY <1>2 DEF UserOf, DatasetOfKey, BandOf
<1>8. ASSUME NEW u \in Threads, b = poBlock[u], HasLock(u) \/ pc[u] \in FlushLabels
      PROVE  FALSE
  <2>1. u = t
    BY <1>0, <1>7, <1>8, UserIsOwner
  <2> QED BY <1>8, <2>1 DEF HasLock, Internalizing, EvictLabels, CriticalLabels,
             FlushLabels
<1>9. ASSUME NEW u \in Threads PROVE b \notin Claimed(u)
  <2>1. pc[u] = "detach" => poTarget[u] \in ToSet(lru)
    BY <1>0 DEF ScanOf
  <2>2. b \notin Evicting(u)
    BY <1>4, <1>6, <2>1 DEF Evicting
  <2>3. b \notin Flushing(u)
    BY <1>8 DEF Flushing, FlushLabels
  <2> QED BY <2>2, <2>3 DEF Claimed
<1>10. ASSUME NEW u \in Threads, poBlock[u] = b, NotYet(u) PROVE FALSE
  <2>1. HasLock(u)
    BY <1>10 DEF NotYet, HasLock, Internalizing, EvictLabels, RoundEnd
  <2> QED BY <1>8, <1>10, <2>1
<1> QED
  BY <1>0, <1>3, <1>4, <1>5, <1>9, <1>10 DEF Placed, Out

(* A closing thread goes from the band that it has destroyed to the next.  *)
LEMMA Alive_Destroy ==
    ASSUME AliveInv, NEW t \in Threads, Others(t), Destroy(t)
    PROVE  Counted' /\ Alive'
<1>0. /\ OwnInv /\ Counted /\ Alive /\ AliveOf(t) /\ CallOf(t) /\ CallTypes
      /\ BandTypes
  BY DEF AliveInv, FiledInv, OwnInv, ControlInv, Types, Alive
<1>d. PICK d : d = BandOf(at[t])
  OBVIOUS
<1>r. PICK rest : rest = {e \in BandsOf(DatasetOf[d]) : e > d}
  OBVIOUS
<1>1. /\ pc[t] = "destroy" /\ FreeDanglingBlocks(d)
      /\ alive' = [alive EXCEPT ![d] = FALSE]
      /\ IF rest = {} THEN pc'[t] = "flushed" /\ UNCHANGED at
         ELSE pc'[t] = "flushCache" /\ at'[t] = <<First(rest), First(Offs)>>
      /\ UNCHANGED <<nKeepAliveCounter, op, toFree, keptBand>>
  BY <1>0, <1>d, <1>r DEF Destroy, CallTypes, Goto, scanVars
<1>2. /\ Closing(t) /\ Closing(t)' /\ op[t] \in OwnerOps
      /\ d \in Bands /\ Owner[DatasetOf[d]] = t /\ DatasetOfKey(at[t]) = DatasetOf[d]
      /\ d \in BandsOf(DatasetOf[d])
  <2>1. op[t] \in {"close", "suppress"} /\ op[t] \in OwnerOps
    BY <1>0, <1>1 DEF CallOf, OpOf, FlushOps, OwnerOps
  <2> QED BY <1>0, <1>d, <1>1, <2>1, ClosingIsOwner DEF Closing
<1>3. \A e \in Bands : alive'[e] <=> alive[e] /\ e # d
  <2>1. \A e \in Bands : alive'[e] = IF e = d THEN FALSE ELSE alive[e]
    BY <1>0, <1>1 DEF BandTypes
  <2> QED BY <2>1
<1>4. Counted'
  <2>1. \A u \in Threads : \A c \in Claimed(u) : key'[c] = key[c]
    BY <1>0, <1>1, <1>2, Freed
  <2>2. \A u \in Threads : \A c \in ToSet(toFree[u]) : key'[c] = key[c]
    BY <1>0, <2>1, ClaimedAreBlocks
  <2> QED BY <1>0, <1>1, <2>2, CountedStays
<1>5. ASSUME NEW b \in Blocks, key'[b] \in Keys PROVE alive'[BandOf(key'[b])]
  <2>1. key'[b] = key[b] /\ BandOf(key[b]) # d
    BY <1>d, <1>1, <1>5, NoBlockLeft
  <2>2. BandOf(key[b]) \in Bands /\ alive[BandOf(key[b])]
    BY <1>0, <1>5, <2>1, KeyParts DEF Alive
  <2> QED BY <1>3, <2>1, <2>2
<1>6. nKeepAliveCounter[d] = 0
  BY <1>0, <1>d, <1>1 DEF AliveOf
<1>7. ASSUME NEW e \in Bands, ~alive'[e] PROVE nKeepAliveCounter'[e] = 0
  BY <1>0, <1>1, <1>3, <1>6, <1>7 DEF Alive
<1>8. \A e \in BandsOf(DatasetOf[d]) : e \in Bands /\ (alive[e] <=> e >= d)
  BY <1>0, <1>d, <1>1, <1>2 DEF AliveOf, BandsOf
<1>9. Bands \subseteq Nat
  BY BandsAssumption
<1>10. /\ AliveOf(t)' /\ DatasetOfKey(at'[t]) = DatasetOf[d]
  <2>1. CASE rest = {}
    <3>1. \A e \in BandsOf(DatasetOf[d]) : e <= d
      BY <1>r, <1>2, <1>8, <1>9, <2>1
    <3>2. ASSUME NEW e \in BandsOf(DatasetOf[d]) PROVE ~alive'[e]
      <4>1. e \in Nat /\ d \in Nat /\ e <= d /\ e \in Bands
        BY <1>2, <1>8, <1>9, <3>1
      <4>2. CASE e = d
        BY <1>3, <4>1, <4>2
      <4>3. CASE e # d
        <5>1. ~(e >= d)
          BY <4>1, <4>3
        <5> QED BY <1>3, <1>8, <4>1, <5>1
      <4> QED BY <4>2, <4>3
    <3> QED BY <1>1, <1>2, <2>1, <3>2 DEF AliveOf, Closing
  <2>2. CASE rest # {}
    <3>1. rest \subseteq Nat /\ rest \subseteq BandsOf(DatasetOf[d])
      BY <1>r, <1>8, <1>9
    <3>f. PICK f : f = First(rest)
      OBVIOUS
    <3>2. f \in rest /\ \A y \in rest : f <= y
      BY <2>2, <3>1, <3>f, FirstIsLeast
    <3>3. \A e \in BandsOf(DatasetOf[d]) : alive'[e] <=> e >= f
      <4>1. ASSUME NEW e \in BandsOf(DatasetOf[d]) PROVE (e >= d /\ e # d) <=> e >= f
        <5>1. e \in Nat /\ d \in Nat /\ f \in Nat /\ f > d
          BY <1>r, <1>2, <1>8, <1>9, <3>1, <3>2
        <5>2. e > d => e >= f
          BY <1>r, <3>2
        <5> QED BY <5>1, <5>2
      <4> QED BY <1>3, <1>8, <4>1
    <3>4. BandOf(at'[t]) = f /\ DatasetOfKey(at'[t]) = DatasetOf[f]
      BY <1>1, <2>2, <3>f DEF BandOf, DatasetOfKey
    <3>5. f \in Bands /\ DatasetOf[f] = DatasetOf[d] /\ alive'[f]
      <4>1. f \in BandsOf(DatasetOf[d]) /\ f \in Nat
        BY <3>1, <3>2
      <4> QED BY <3>3, <4>1 DEF BandsOf
    <3> QED BY <1>1, <2>2, <3>3, <3>4, <3>5 DEF AliveOf, Closing
  <2> QED BY <2>1, <2>2
<1>11. ASSUME NEW u \in Threads PROVE AliveOf(u)'
  <2>1. CASE u = t
    BY <1>10, <2>1
  <2>2. CASE u # t
    <3>1. pc'[u] = pc[u] /\ op'[u] = op[u] /\ at'[u] = at[u]
      BY <2>2, OthersRoles
    <3>2. AliveOf(u)
      BY <1>0 DEF Alive
    <3>3. op[u] \in OwnerOps =>
            /\ BandOf(at[u]) \in Bands /\ BandOf(at[u]) \in BandsOf(DatasetOfKey(at[u]))
            /\ DatasetOfKey(at[u]) # DatasetOf[d]
      BY <1>0, <1>2, <2>2, ClosingIsOwner
    <3>4. Closing(u) => op[u] \in OwnerOps
      BY DEF Closing, OwnerOps, FlushOps
    <3>5. op[u] \in OwnerOps =>
            \A e \in BandsOf(DatasetOfKey(at[u])) : alive'[e] <=> alive[e]
      BY <1>3, <3>3 DEF BandsOf
    <3> QED BY <1>1, <3>1, <3>2, <3>3, <3>4, <3>5 DEF AliveOf, Closing
  <2> QED BY <2>1, <2>2
<1>12. Together'
  <2> SUFFICES ASSUME NEW e \in Bands, NEW f \in Bands, DatasetOf[e] = DatasetOf[f],
                      DatasetOf[e] # DatasetOf[d]
               PROVE  \/ alive'[e] <=> alive'[f]
                      \/ \E u \in Threads :
                           Closing(u)' /\ DatasetOfKey(at'[u]) = DatasetOf[e]
    BY <1>2, <1>10 DEF Together
  <2>1. (alive'[e] <=> alive[e]) /\ (alive'[f] <=> alive[f])
    BY <1>3
  <2>2. CASE alive[e] <=> alive[f]
    BY <2>1, <2>2
  <2>3. CASE ~(alive[e] <=> alive[f])
    <3>1. PICK u \in Threads : Closing(u) /\ DatasetOfKey(at[u]) = DatasetOf[e]
      BY <1>0, <2>3 DEF Alive, Together
    <3>2. u # t
      BY <1>2, <3>1
    <3> QED BY <3>1, <3>2, OthersRoles DEF Closing
  <2> QED BY <2>2, <2>3
<1> QED
  BY <1>4, <1>5, <1>7, <1>11, <1>12 DEF Alive

-----------------------------------------------------------------------------
(* The calls.                                                              *)
LEMMA Alive_Start ==
    ASSUME AliveInv, NEW t \in Threads, Start(t)
    PROVE  Counted' /\ Alive'
<1>0. /\ CallTypes /\ ScanTypes /\ CallOf(t) /\ KeysOf(t) /\ Others(t)
  BY Others_Start DEF AliveInv, FiledInv, OwnInv, Owned, ControlInv, Types
<1>s. ASSUME Calm(t) PROVE Counted' /\ Alive'
  BY <1>0, <1>s, CalmStep
<1> USE DEF Goto, callVars, scanVars, flushVars, blockVars, bandVars, cacheVars,
            CallTypes, ScanTypes
<1>1. ASSUME NEW o \in Ops, NEW k \in Keys, StartIO(t, o, k) PROVE Counted' /\ Alive'
  <2>1. Calm(t)
    BY <1>0, <1>1 DEF StartIO, Calm, Closing, OwnerOps, CallOf, OpOf, IoOps,
       ReadOps, WriteOps, GlobalOps, FlushOps, IoLabels, GlobalLabels,
       RoundEnd, FlushLabels, BandOf
  <2> QED BY <1>s, <2>1
<1>2. ASSUME NEW o \in Ops, NEW k \in Keys, StartFlush(t, o, k) PROVE Counted' /\ Alive'
  BY <1>0, <1>2, Alive_StartFlush
<1>3. ASSUME NEW o \in Ops, StartGlobal(t, o) PROVE Counted' /\ Alive'
  <2>1. Calm(t)
    BY <1>0, <1>3 DEF StartGlobal, Calm, Closing, OwnerOps, CallOf, OpOf,
       IoOps, ReadOps, WriteOps, GlobalOps, FlushOps, IoLabels, GlobalLabels,
       RoundEnd, FlushLabels, BandOf
  <2> QED BY <1>s, <2>1
<1>4. ASSUME NEW ds \in Datasets, Reopen(t, ds) PROVE Counted' /\ Alive'
  BY <1>0, <1>4, Alive_Reopen
<1>5. CASE EnterDisableDirtyBlockFlush(t)
  <2>1. Calm(t)
    BY <1>0, <1>5 DEF EnterDisableDirtyBlockFlush, Calm, Closing, OwnerOps,
       CallOf, OpOf, IoOps, ReadOps, WriteOps, GlobalOps, FlushOps, IoLabels,
       GlobalLabels, RoundEnd, FlushLabels, BandOf
  <2> QED BY <1>s, <2>1
<1>6. CASE LeaveDisableDirtyBlockFlush(t)
  <2>1. Calm(t)
    BY <1>0, <1>6 DEF LeaveDisableDirtyBlockFlush, Calm, Closing, OwnerOps,
       CallOf, OpOf, IoOps, ReadOps, WriteOps, GlobalOps, FlushOps, IoLabels,
       GlobalLabels, RoundEnd, FlushLabels, BandOf
  <2> QED BY <1>s, <2>1
<1> QED
  BY <1>1, <1>2, <1>3, <1>4, <1>5, <1>6 DEF Start

(* GetLockedBlockRef() and its callers.                                    *)
LEMMA Alive_Io ==
    ASSUME AliveInv, NEW t \in Threads, IoStep(t)
    PROVE  Counted' /\ Alive'
<1>0. /\ CallTypes /\ ScanTypes /\ CallOf(t) /\ KeysOf(t) /\ Others(t)
  BY Others_Io DEF AliveInv, FiledInv, OwnInv, Owned, ControlInv, Types
<1>s. ASSUME Calm(t) PROVE Counted' /\ Alive'
  BY <1>0, <1>s, CalmStep
<1> USE DEF Goto, callVars, scanVars, flushVars, blockVars, bandVars, cacheVars,
            CallTypes, ScanTypes
<1>1. CASE WaitPendingTasks(t)
  <2>1. Calm(t)
    BY <1>0, <1>1 DEF WaitPendingTasks, Calm, Closing, OwnerOps, CallOf, OpOf,
       IoOps, ReadOps, WriteOps, GlobalOps, FlushOps, IoLabels, GlobalLabels,
       RoundEnd, FlushLabels, BandOf
  <2> QED BY <1>s, <2>1
<1>2. CASE EnterReadWrite(t)
  <2>1. Calm(t)
    BY <1>0, <1>2 DEF EnterReadWrite, Calm, Closing, OwnerOps, CallOf, OpOf,
       IoOps, ReadOps, WriteOps, GlobalOps, FlushOps, IoLabels, GlobalLabels,
       RoundEnd, FlushLabels, BandOf
  <2> QED BY <1>s, <2>1
<1>3. CASE TryGetLockedBlockRef(t)
  <2>1. Calm(t)
    BY <1>0, <1>3 DEF TryGetLockedBlockRef, Calm, Closing, OwnerOps, CallOf,
       OpOf, IoOps, ReadOps, WriteOps, GlobalOps, FlushOps, IoLabels,
       GlobalLabels, RoundEnd, FlushLabels, BandOf
  <2> QED BY <1>s, <2>1
<1>4. CASE TakeLock(t)
  <2>1. Calm(t)
    BY <1>0, <1>4 DEF TakeLock, Calm, Closing, OwnerOps, CallOf, OpOf, IoOps,
       ReadOps, WriteOps, GlobalOps, FlushOps, IoLabels, GlobalLabels,
       RoundEnd, FlushLabels, BandOf
  <2> QED BY <1>s, <2>1
<1>5. CASE TakeLockFailed(t)
  <2>1. Calm(t)
    BY <1>0, <1>5 DEF TakeLockFailed, Calm, Closing, OwnerOps, CallOf, OpOf,
       IoOps, ReadOps, WriteOps, GlobalOps, FlushOps, IoLabels, GlobalLabels,
       RoundEnd, FlushLabels, BandOf
  <2> QED BY <1>s, <2>1
<1>6. CASE Touch(t)
  <2>1. Calm(t)
    BY <1>0, <1>6 DEF Touch, Calm, Closing, OwnerOps, CallOf, OpOf, IoOps,
       ReadOps, WriteOps, GlobalOps, FlushOps, IoLabels, GlobalLabels,
       RoundEnd, FlushLabels, BandOf
  <2> QED BY <1>s, <2>1
<1>7. CASE TouchLocked(t)
  <2>1. Calm(t)
    BY <1>0, <1>7 DEF TouchLocked, Calm, Closing, OwnerOps, CallOf, OpOf,
       IoOps, ReadOps, WriteOps, GlobalOps, FlushOps, IoLabels, GlobalLabels,
       RoundEnd, FlushLabels, BandOf
  <2> QED BY <1>s, <2>1
<1>8. CASE CreateBlockFails(t)
  <2>1. Calm(t)
    BY <1>0, <1>8 DEF CreateBlockFails, Calm, Closing, OwnerOps, CallOf, OpOf,
       IoOps, ReadOps, WriteOps, GlobalOps, FlushOps, IoLabels, GlobalLabels,
       RoundEnd, FlushLabels, BandOf
  <2> QED BY <1>s, <2>1
<1>9. CASE ReacquireReadWriteLock(t)
  <2>1. Calm(t)
    BY <1>0, <1>9 DEF ReacquireReadWriteLock, Calm, Closing, OwnerOps, CallOf,
       OpOf, IoOps, ReadOps, WriteOps, GlobalOps, FlushOps, IoLabels,
       GlobalLabels, RoundEnd, FlushLabels, BandOf
  <2> QED BY <1>s, <2>1
<1>10. ASSUME NEW b \in Blocks, CreateBlock(t, b) PROVE Counted' /\ Alive'
  BY <1>0, <1>10, Alive_CreateBlock
<1>11. ASSUME NEW ok \in BOOLEAN, Allocate(t, ok) PROVE Counted' /\ Alive'
  <2>1. Calm(t)
    BY <1>0, <1>11 DEF Allocate, Calm, Closing, OwnerOps, CallOf, OpOf, IoOps,
       ReadOps, WriteOps, GlobalOps, FlushOps, IoLabels, GlobalLabels,
       RoundEnd, FlushLabels, BandOf
  <2> QED BY <1>s, <2>1
<1>12. ASSUME NEW ok \in BOOLEAN, AdoptBlock(t, ok) PROVE Counted' /\ Alive'
  BY <1>0, <1>12, Alive_AdoptBlock
<1>13. ASSUME NEW ok \in BOOLEAN, ReadBlock(t, ok) PROVE Counted' /\ Alive'
  <2>1. Calm(t)
    BY <1>0, <1>13 DEF ReadBlock, Calm, Closing, OwnerOps, CallOf, OpOf,
       IoOps, ReadOps, WriteOps, GlobalOps, FlushOps, IoLabels, GlobalLabels,
       RoundEnd, FlushLabels, BandOf
  <2> QED BY <1>s, <2>1
<1>14. CASE WriteLocked(t)
  <2>1. Calm(t)
    BY <1>0, <1>14 DEF WriteLocked, Calm, Closing, OwnerOps, CallOf, OpOf,
       IoOps, ReadOps, WriteOps, GlobalOps, FlushOps, IoLabels, GlobalLabels,
       RoundEnd, FlushLabels, BandOf
  <2> QED BY <1>s, <2>1
<1>15. CASE Discard(t)
  BY <1>0, <1>15 DEF Discard, KeysOf
<1>16. CASE Failed(t)
  <2>1. Calm(t)
    BY <1>0, <1>16 DEF Failed, Return, Calm, Closing, OwnerOps, CallOf, OpOf,
       IoOps, ReadOps, WriteOps, GlobalOps, FlushOps, IoLabels, GlobalLabels,
       RoundEnd, FlushLabels, BandOf
  <2> QED BY <1>s, <2>1
<1>17. ASSUME NEW more \in BOOLEAN, DropLock(t, more) PROVE Counted' /\ Alive'
  <2>1. Calm(t)
    BY <1>0, <1>17 DEF DropLock, Return, Calm, Closing, OwnerOps, CallOf,
       OpOf, IoOps, ReadOps, WriteOps, GlobalOps, FlushOps, IoLabels,
       GlobalLabels, RoundEnd, FlushLabels, BandOf
  <2> QED BY <1>s, <2>1
<1> QED
  BY <1>1, <1>2, <1>3, <1>4, <1>5, <1>6, <1>7, <1>8, <1>9, <1>10, <1>11,
     <1>12, <1>13, <1>14, <1>15, <1>16, <1>17 DEF IoStep

(* Evictions.                                                              *)
LEMMA Alive_Evict ==
    ASSUME AliveInv, NEW t \in Threads, EvictStep(t)
    PROVE  Counted' /\ Alive'
<1>0. /\ CallTypes /\ ScanTypes /\ CallOf(t) /\ KeysOf(t) /\ Others(t)
  BY Others_Evict DEF AliveInv, FiledInv, OwnInv, Owned, ControlInv, Types
<1>s. ASSUME Calm(t) PROVE Counted' /\ Alive'
  BY <1>0, <1>s, CalmStep
<1> USE DEF Goto, callVars, scanVars, flushVars, blockVars, bandVars, cacheVars,
            CallTypes, ScanTypes
<1>1. CASE InternalizeLock(t)
  <2>1. Calm(t)
    BY <1>0, <1>1 DEF InternalizeLock, StartRound, Calm, Closing, OwnerOps,
       CallOf, OpOf, IoOps, ReadOps, WriteOps, GlobalOps, FlushOps, IoLabels,
       GlobalLabels, RoundEnd, FlushLabels, BandOf
  <2> QED BY <1>s, <2>1
<1>2. CASE Scan(t)
  <2>1. Calm(t)
    BY <1>0, <1>2 DEF Scan, Calm, Closing, OwnerOps, CallOf, OpOf, IoOps,
       ReadOps, WriteOps, GlobalOps, FlushOps, IoLabels, GlobalLabels,
       RoundEnd, FlushLabels, BandOf
  <2> QED BY <1>s, <2>1
<1>3. CASE Exchange(t)
  <2>1. Calm(t)
    BY <1>0, <1>3 DEF Exchange, Claim, Calm, Closing, OwnerOps, CallOf, OpOf,
       IoOps, ReadOps, WriteOps, GlobalOps, FlushOps, IoLabels, GlobalLabels,
       RoundEnd, FlushLabels, BandOf
  <2> QED BY <1>s, <2>1
<1>4. CASE ExchangeOther(t)
  <2>1. Calm(t)
    BY <1>0, <1>4 DEF ExchangeOther, Claim, Calm, Closing, OwnerOps, CallOf,
       OpOf, IoOps, ReadOps, WriteOps, GlobalOps, FlushOps, IoLabels,
       GlobalLabels, RoundEnd, FlushLabels, BandOf
  <2> QED BY <1>s, <2>1
<1>5. CASE Fallback(t)
  <2>1. Calm(t)
    BY <1>0, <1>5 DEF Fallback, Claim, Calm, Closing, OwnerOps, CallOf, OpOf,
       IoOps, ReadOps, WriteOps, GlobalOps, FlushOps, IoLabels, GlobalLabels,
       RoundEnd, FlushLabels, BandOf
  <2> QED BY <1>s, <2>1
<1>6. CASE FallbackEnds(t)
  <2>1. Calm(t)
    BY <1>0, <1>6 DEF FallbackEnds, Calm, Closing, OwnerOps, CallOf, OpOf,
       IoOps, ReadOps, WriteOps, GlobalOps, FlushOps, IoLabels, GlobalLabels,
       RoundEnd, FlushLabels, BandOf
  <2> QED BY <1>s, <2>1
<1>7. CASE Detach(t)
  BY <1>0, <1>7, Alive_Detach
<1>8. CASE UnreferenceBlock(t)
  <2>1. Calm(t)
    BY <1>0, <1>8 DEF UnreferenceBlock, Calm, Closing, OwnerOps, CallOf, OpOf,
       IoOps, ReadOps, WriteOps, GlobalOps, FlushOps, IoLabels, GlobalLabels,
       RoundEnd, FlushLabels, BandOf
  <2> QED BY <1>s, <2>1
<1>9. CASE Scanned(t)
  <2>1. Calm(t)
    BY <1>0, <1>9 DEF Scanned, Calm, Closing, OwnerOps, CallOf, OpOf, IoOps,
       ReadOps, WriteOps, GlobalOps, FlushOps, IoLabels, GlobalLabels,
       RoundEnd, FlushLabels, BandOf
  <2> QED BY <1>s, <2>1
<1>10. CASE FreeNext(t)
  <2>1. Calm(t)
    BY <1>0, <1>10 DEF FreeNext, Calm, Closing, OwnerOps, CallOf, OpOf, IoOps,
       ReadOps, WriteOps, GlobalOps, FlushOps, IoLabels, GlobalLabels,
       RoundEnd, FlushLabels, BandOf
  <2> QED BY <1>s, <2>1
<1>11. CASE Release(t)
  BY <1>0, <1>11, Alive_Release
<1>12. CASE KeepAliveDec(t)
  BY <1>0, <1>12, Alive_KeepAliveDec
<1>13. CASE FreeEnds(t)
  <2>1. Calm(t)
    BY <1>0, <1>13 DEF FreeEnds, Calm, Closing, OwnerOps, CallOf, OpOf, IoOps,
       ReadOps, WriteOps, GlobalOps, FlushOps, IoLabels, GlobalLabels,
       RoundEnd, FlushLabels, BandOf
  <2> QED BY <1>s, <2>1
<1>14. ASSUME NEW ok \in BOOLEAN, WriteEvicted(t, ok) PROVE Counted' /\ Alive'
  <2>1. Calm(t)
    BY <1>0, <1>14 DEF WriteEvicted, Calm, Closing, OwnerOps, CallOf, OpOf,
       IoOps, ReadOps, WriteOps, GlobalOps, FlushOps, IoLabels, GlobalLabels,
       RoundEnd, FlushLabels, BandOf
  <2> QED BY <1>s, <2>1
<1>15. CASE SetCacheMaxLoop(t)
  <2>1. Calm(t)
    BY <1>0, <1>15 DEF SetCacheMaxLoop, Calm, Closing, OwnerOps, CallOf, OpOf,
       IoOps, ReadOps, WriteOps, GlobalOps, FlushOps, IoLabels, GlobalLabels,
       RoundEnd, FlushLabels, BandOf
  <2> QED BY <1>s, <2>1
<1>16. CASE FlushCacheBlock(t)
  <2>1. Calm(t)
    BY <1>0, <1>16 DEF FlushCacheBlock, Calm, Closing, OwnerOps, CallOf, OpOf,
       IoOps, ReadOps, WriteOps, GlobalOps, FlushOps, IoLabels, GlobalLabels,
       RoundEnd, FlushLabels, BandOf
  <2> QED BY <1>s, <2>1
<1>17. CASE FlushScan(t)
  <2>1. Calm(t)
    BY <1>0, <1>17 DEF FlushScan, Calm, Closing, OwnerOps, CallOf, OpOf,
       IoOps, ReadOps, WriteOps, GlobalOps, FlushOps, IoLabels, GlobalLabels,
       RoundEnd, FlushLabels, BandOf
  <2> QED BY <1>s, <2>1
<1>18. CASE FlushExchange(t)
  <2>1. Calm(t)
    BY <1>0, <1>18 DEF FlushExchange, Claim, Calm, Closing, OwnerOps, CallOf,
       OpOf, IoOps, ReadOps, WriteOps, GlobalOps, FlushOps, IoLabels,
       GlobalLabels, RoundEnd, FlushLabels, BandOf
  <2> QED BY <1>s, <2>1
<1>19. CASE FlushScanEnds(t)
  <2>1. Calm(t)
    BY <1>0, <1>19 DEF FlushScanEnds, Calm, Closing, OwnerOps, CallOf, OpOf,
       IoOps, ReadOps, WriteOps, GlobalOps, FlushOps, IoLabels, GlobalLabels,
       RoundEnd, FlushLabels, BandOf
  <2> QED BY <1>s, <2>1
<1>20. CASE FlushedOne(t)
  <2>1. Calm(t)
    BY <1>0, <1>20 DEF FlushedOne, Calm, Closing, OwnerOps, CallOf, OpOf,
       IoOps, ReadOps, WriteOps, GlobalOps, FlushOps, IoLabels, GlobalLabels,
       RoundEnd, FlushLabels, BandOf
  <2> QED BY <1>s, <2>1
<1> QED
  BY <1>1, <1>2, <1>3, <1>4, <1>5, <1>6, <1>7, <1>8, <1>9, <1>10, <1>11,
     <1>12, <1>13, <1>14, <1>15, <1>16, <1>17, <1>18, <1>19, <1>20 DEF
     EvictStep

(* FlushBlock(), FlushCache() and the destructors.                         *)
LEMMA Alive_Flush ==
    ASSUME AliveInv, NEW t \in Threads, FlushStep(t)
    PROVE  Counted' /\ Alive'
<1>0. /\ CallTypes /\ ScanTypes /\ CallOf(t) /\ KeysOf(t) /\ Others(t)
  BY Others_Flush DEF AliveInv, FiledInv, OwnInv, Owned, ControlInv, Types
<1>s. ASSUME Calm(t) PROVE Counted' /\ Alive'
  BY <1>0, <1>s, CalmStep
<1> USE DEF Goto, callVars, scanVars, flushVars, blockVars, bandVars, cacheVars,
            CallTypes, ScanTypes
<1>1. CASE FlushBlock(t)
  <2>1. Calm(t)
    BY <1>0, <1>1 DEF FlushBlock, AfterFlushBlock, Calm, Closing, OwnerOps,
       CallOf, OpOf, IoOps, ReadOps, WriteOps, GlobalOps, FlushOps, IoLabels,
       GlobalLabels, RoundEnd, FlushLabels, BandOf
  <2> QED BY <1>s, <2>1
<1>2. CASE ClaimFlush(t)
  <2>1. Calm(t)
    BY <1>0, <1>2 DEF ClaimFlush, Calm, Closing, OwnerOps, CallOf, OpOf,
       IoOps, ReadOps, WriteOps, GlobalOps, FlushOps, IoLabels, GlobalLabels,
       RoundEnd, FlushLabels, BandOf
  <2> QED BY <1>s, <2>1
<1>3. CASE FlushWait(t)
  <2>1. Calm(t)
    BY <1>0, <1>3 DEF FlushWait, AfterFlushBlock, Calm, Closing, OwnerOps,
       CallOf, OpOf, IoOps, ReadOps, WriteOps, GlobalOps, FlushOps, IoLabels,
       GlobalLabels, RoundEnd, FlushLabels, BandOf
  <2> QED BY <1>s, <2>1
<1>4. CASE FlushDetach(t)
  <2>1. Calm(t)
    BY <1>0, <1>4 DEF FlushDetach, Calm, Closing, OwnerOps, CallOf, OpOf,
       IoOps, ReadOps, WriteOps, GlobalOps, FlushOps, IoLabels, GlobalLabels,
       RoundEnd, FlushLabels, BandOf
  <2> QED BY <1>s, <2>1
<1>5. CASE FlushWrite(t)
  <2>1. Calm(t)
    BY <1>0, <1>5 DEF FlushWrite, Calm, Closing, OwnerOps, CallOf, OpOf,
       IoOps, ReadOps, WriteOps, GlobalOps, FlushOps, IoLabels, GlobalLabels,
       RoundEnd, FlushLabels, BandOf
  <2> QED BY <1>s, <2>1
<1>6. CASE Delete(t)
  BY <1>0, <1>6, Alive_Delete
<1>7. CASE FlushCache(t)
  <2>1. Calm(t)
    BY <1>0, <1>7 DEF FlushCache, Calm, Closing, OwnerOps, CallOf, OpOf,
       IoOps, ReadOps, WriteOps, GlobalOps, FlushOps, IoLabels, GlobalLabels,
       RoundEnd, FlushLabels, BandOf
  <2> QED BY <1>s, <2>1
<1>8. CASE FlushStorage(t)
  BY <1>0, <1>8, Alive_FlushStorage
<1>9. CASE FlushNext(t)
  <2>1. Calm(t)
    BY <1>0, <1>9 DEF FlushNext, Calm, Closing, OwnerOps, CallOf, OpOf, IoOps,
       ReadOps, WriteOps, GlobalOps, FlushOps, IoLabels, GlobalLabels,
       RoundEnd, FlushLabels, BandOf
  <2> QED BY <1>s, <2>1
<1>10. CASE FlushEnds(t)
  BY <1>0, <1>10, Alive_FlushEnds
<1>11. CASE Destroy(t)
  BY <1>0, <1>11, Alive_Destroy
<1>12. CASE Flushed(t)
  <2>1. Calm(t)
    BY <1>0, <1>12 DEF Flushed, Return, Calm, Closing, OwnerOps, CallOf, OpOf,
       IoOps, ReadOps, WriteOps, GlobalOps, FlushOps, IoLabels, GlobalLabels,
       RoundEnd, FlushLabels, BandOf
  <2> QED BY <1>s, <2>1
<1>13. ASSUME NEW ok \in BOOLEAN, FlushIO(t, ok) PROVE Counted' /\ Alive'
  <2>1. Calm(t)
    BY <1>0, <1>13 DEF FlushIO, Calm, Closing, OwnerOps, CallOf, OpOf, IoOps,
       ReadOps, WriteOps, GlobalOps, FlushOps, IoLabels, GlobalLabels,
       RoundEnd, FlushLabels, BandOf
  <2> QED BY <1>s, <2>1
<1> QED
  BY <1>1, <1>2, <1>3, <1>4, <1>5, <1>6, <1>7, <1>8, <1>9, <1>10, <1>11,
     <1>12, <1>13 DEF FlushStep

-----------------------------------------------------------------------------
(* All bands exist at first, and nothing is counted.                       *)
LEMMA Alive_Init == Init => Counted /\ Alive
<1> SUFFICES ASSUME Init PROVE Counted /\ Alive
  OBVIOUS
<1>1. /\ \A t \in Threads : pc[t] = "idle" /\ op[t] = "none"
      /\ \A t \in Threads : keptBand[t] = 0 /\ toFree[t] = << >>
      /\ \A b \in Blocks : key[b] = NoKey
      /\ \A d \in Bands : nKeepAliveCounter[d] = 0 /\ alive[d]
  BY DEF Init
<1>2. ASSUME NEW d \in Bands PROVE Taken(d) = {} /\ Keeping(d) = {}
  <2>1. d # 0
    BY BandsAssumption
  <2> QED BY <1>1, <2>1 DEF Taken, Keeping
<1>3. Counted
  <2>1. Cardinality({}) = 0
    BY FS_EmptySet
  <2>2. ASSUME NEW d \in Bands
        PROVE  nKeepAliveCounter[d] = Cardinality(Taken(d)) + Cardinality(Keeping(d))
    <3>1. Cardinality(Taken(d)) = 0 /\ Cardinality(Keeping(d)) = 0
      BY <1>2, <2>1
    <3>2. nKeepAliveCounter[d] = 0
      BY <1>1
    <3> QED BY <3>1, <3>2
  <2> QED BY <2>2 DEF Counted
<1>4. \A t \in Threads : AliveOf(t)
  BY <1>1 DEF AliveOf, Closing, OwnerOps, IoOps, ReadOps, WriteOps, FlushOps
<1>5. Alive
  BY <1>1, <1>4, NoKeyIsNoKey DEF Alive, Together
<1> QED BY <1>3, <1>5

(* Every step of every thread keeps the counters and the life of bands.    *)
LEMMA AliveInv_Next ==
    ASSUME AllocationsSucceed, AliveInv, [Next]_vars
    PROVE  AliveInv'
<1>1. FiledInv'
  BY FiledInv_Next DEF AliveInv
<1>2. ASSUME NEW t \in Threads, Start(t) \/ Step(t) PROVE Counted' /\ Alive'
  BY <1>2, Alive_Start, Alive_Io, Alive_Evict, Alive_Flush DEF Step
<1>3. CASE UNCHANGED vars
  <2>1. UNCHANGED <<key, alive, nKeepAliveCounter, toFree, keptBand, pc, op, at>>
    BY <1>3 DEF vars, blockVars, bandVars, callVars, scanVars
  <2>2. \A d : Taken(d)' = Taken(d) /\ Keeping(d)' = Keeping(d)
    BY <2>1 DEF Taken, Keeping
  <2>3. Counted'
    BY <2>1, <2>2 DEF AliveInv, Counted
  <2>4. \A t \in Threads : AliveOf(t)'
    BY <2>1 DEF AliveInv, Alive, AliveOf, Closing
  <2>5. Together'
    BY <2>1 DEF AliveInv, Alive, Together, Closing
  <2>6. Alive'
    BY <2>1, <2>4, <2>5 DEF AliveInv, Alive
  <2> QED BY <1>1, <2>3, <2>6 DEF AliveInv
<1> QED
  BY <1>1, <1>2, <1>3 DEF Next, AliveInv

(* Where allocations succeed, bands live as long as something refers to    *)
(* them: see Counted and Alive.                                            *)
THEOREM Lifetime == AllocationsSucceed => (Spec => []AliveInv)
<1> SUFFICES ASSUME AllocationsSucceed PROVE Spec => []AliveInv
  OBVIOUS
<1>1. Init => AliveInv
  BY ControlInv_Init, Owned_Init, Filed_Init, Alive_Init DEF AliveInv, FiledInv,
     OwnInv
<1>2. AliveInv /\ [Next]_vars => AliveInv'
  BY AliveInv_Next
<1> QED
  BY <1>1, <1>2, PTL DEF Spec

(* m_nKeepAliveCounter of a band is the number of its blocks that evictors *)
(* have taken and not given back, so that the destructor, which waits for  *)
(* it to be 0, destroys no band that an evictor of another thread still    *)
(* uses.                                                                   *)
THEOREM KeepAliveIsExact == AllocationsSucceed => (Spec => []KeepAliveExact)
<1> SUFFICES ASSUME AllocationsSucceed PROVE Spec => []KeepAliveExact
  OBVIOUS
<1>1. Spec => []AliveInv
  BY Lifetime
<1>2. AliveInv => KeepAliveExact
  BY DEF AliveInv, Counted, Alive, Taken, Keeping, KeepAliveExact
<1> QED
  BY <1>1, <1>2, PTL

(* What a thread points to exists.                                         *)
LEMMA PointersExist ==
    ASSUME OwnInv, NEW t \in Threads, NEW b \in Blocks, b \in Pointers(t)
    PROVE  key[b] \in Keys
<1>0. KeysOf(t) /\ ScanOf(t) /\ OldSetOf(t) /\ CallOf(t) /\ StoreInv /\ FlushTypes
  BY DEF OwnInv, Owned, ControlInv, Types
<1>1. CASE b \in Claimed(t)
  BY <1>1, ClaimedAreBlocks
<1>2. CASE b = poBlock[t] /\ (HasLock(t) \/ pc[t] \in {"takeLock", "takeLockFailed",
                                                       "claimFlush"})
  BY <1>2, UserIsOwner DEF FlushLabels
<1>3. CASE b \in ToSet(lru)
  BY <1>0, <1>3 DEF StoreInv
<1>4. CASE pc[t] = "unreference" /\ b = LastFreed(t)
  BY <1>4, LastFreedIsClaimed, ClaimedAreBlocks
<1>5. CASE \E o \in Offs : oOldSet[t][o] = b
  <2>1. PICK o \in Offs : oOldSet[t][o] = b /\ b # Null
    BY <1>5, NamesAssumption
  <2>2. key[b] = <<BandOf(at[t]), o>> /\ op[t] \in OwnerOps
    BY <1>0, <2>1 DEF OldSetOf, InLoop, OwnerOps
  <2> QED BY <1>0, <2>2, AtIsKey, KeyParts
<1> QED
  BY <1>0, <1>1, <1>2, <1>3, <1>4, <1>5 DEF Pointers, KeysOf, ScanOf

(* No pointer dangles while the invariant holds.                           *)
LEMMA NothingDangles ==
    ASSUME AliveInv
    PROVE  NoDanglingPointer
<1>0. OwnInv /\ StoreInv /\ BlockTypes /\ Alive
  BY DEF AliveInv, FiledInv, OwnInv, Owned, ControlInv, Types
<1>1. \A t \in Threads, b \in Blocks : b \in Pointers(t) => key[b] # NoKey
  BY <1>0, PointersExist, NoKeyIsNoKey
<1>2. /\ \A b \in ToSet(lru) : key[b] # NoKey
      /\ \A k \in Keys : slot[k] # Null => key[slot[k]] = k
  BY <1>0, NoKeyIsNoKey DEF StoreInv
<1>3. \A b \in Blocks : key[b] # NoKey => alive[BandOf(key[b])]
  BY <1>0 DEF BlockTypes, Alive
<1> QED BY <1>1, <1>2, <1>3 DEF NoDanglingPointer

(* No thread, list, storage or free list refers to a deleted block, and no *)
(* block to a destroyed band: eviction, FlushBlock(), FlushCache() and the *)
(* destructors delete an object when nobody can reach it any more.         *)
THEOREM NoPointerDangles == AllocationsSucceed => (Spec => []NoDanglingPointer)
<1> SUFFICES ASSUME AllocationsSucceed PROVE Spec => []NoDanglingPointer
  OBVIOUS
<1>1. Spec => []AliveInv
  BY Lifetime
<1>2. AliveInv => NoDanglingPointer
  BY NothingDangles
<1> QED
  BY <1>1, <1>2, PTL

-----------------------------------------------------------------------------
(* The RW mutex of a dataset is held for the call of its user that is in   *)
(* course, which is on that dataset.  Fill() is left out: it keeps the     *)
(* mutex when GetLockedBlockRef() finds no memory.                         *)
NoFill == "fill" \notin Ops
HeldInCall ==
    /\ \A ds \in Datasets : hMutex[ds] # NoThread =>
          /\ op[hMutex[ds]] \in RasterIoOps
          /\ at[hMutex[ds]] \in Keys /\ Owner[ds] = hMutex[ds]
          /\ DatasetOfKey(at[hMutex[ds]]) = ds
    /\ \A t \in Threads : pc[t] = "enterRW" => op[t] \in RasterIoOps
    /\ \A t \in Threads : op[t] # "fill"
HeldInv == ControlInv /\ HeldInCall

(* What steps other than EnterReadWrite() do to the mutexes.               *)
LeavesMutex(t) ==
    /\ \A ds \in Datasets : hMutex'[ds] \in {hMutex[ds], NoThread}
    /\ pc'[t] = "enterRW" => op'[t] \in RasterIoOps
    /\ op'[t] # "fill"
    /\ \/ op[t] \notin RasterIoOps
       \/ op'[t] = op[t] /\ at'[t] \in Keys
          /\ DatasetOfKey(at'[t]) = DatasetOfKey(at[t])
       \/ hMutex'[DatasetOfKey(at[t])] = NoThread

(* A thread that leaves a call has left the mutex.                         *)
LEMMA LeavesMutexStep ==
    ASSUME HeldInv, NEW t \in Threads, Others(t), LeavesMutex(t)
    PROVE  HeldInCall'
<1>1. ASSUME NEW u \in Threads
      PROVE  (pc'[u] = "enterRW" => op'[u] \in RasterIoOps) /\ op'[u] # "fill"
  BY OthersRoles DEF HeldInv, HeldInCall, LeavesMutex
<1>2. ASSUME NEW ds \in Datasets, hMutex'[ds] # NoThread
      PROVE  /\ op'[hMutex'[ds]] \in RasterIoOps
             /\ at'[hMutex'[ds]] \in Keys /\ Owner[ds] = hMutex'[ds]
             /\ DatasetOfKey(at'[hMutex'[ds]]) = ds
  <2>1. PICK u : u = hMutex[ds]
    OBVIOUS
  <2>2. /\ hMutex'[ds] = u /\ u # NoThread /\ u \in Threads
        /\ op[u] \in RasterIoOps /\ at[u] \in Keys /\ Owner[ds] = u
        /\ DatasetOfKey(at[u]) = ds
    BY <1>2, <2>1 DEF HeldInv, HeldInCall, LeavesMutex, ControlInv, Types, DataTypes
  <2>3. CASE u = t
    BY <1>2, <2>2, <2>3 DEF LeavesMutex
  <2>4. CASE u # t
    BY <2>2, <2>4, OthersRoles
  <2> QED BY <2>2, <2>3, <2>4
<1> QED
  BY <1>1, <1>2 DEF HeldInCall

(* EnterReadWrite() and ReacquireReadWriteLock() take the mutex of the     *)
(* dataset of the call.                                                    *)
LEMMA Held_Enter ==
    ASSUME HeldInv, NEW t \in Threads, Others(t), op[t] \in RasterIoOps,
           UNCHANGED <<op, at>>, pc'[t] # "enterRW",
           hMutex' = [hMutex EXCEPT ![DatasetOfKey(at[t])] = t]
    PROVE  HeldInCall'
<1>0. CallOf(t) /\ DataTypes
  BY DEF HeldInv, ControlInv, Types
<1>1. at[t] \in Keys /\ Owner[DatasetOfKey(at[t])] = t
  BY <1>0 DEF CallOf, RasterIoOps, OwnerOps, IoOps, ReadOps, WriteOps
<1>2. \A ds \in Datasets : hMutex'[ds] = IF ds = DatasetOfKey(at[t]) THEN t
                                         ELSE hMutex[ds]
  BY <1>0 DEF DataTypes
<1>3. ASSUME NEW u \in Threads
      PROVE  (pc'[u] = "enterRW" => op'[u] \in RasterIoOps) /\ op'[u] # "fill"
  BY OthersRoles DEF HeldInv, HeldInCall
<1>4. ASSUME NEW ds \in Datasets, hMutex'[ds] # NoThread
      PROVE  /\ op[hMutex'[ds]] \in RasterIoOps
             /\ at[hMutex'[ds]] \in Keys /\ Owner[ds] = hMutex'[ds]
             /\ DatasetOfKey(at[hMutex'[ds]]) = ds
  BY <1>1, <1>2, <1>4 DEF HeldInv, HeldInCall
<1> QED
  BY <1>3, <1>4 DEF HeldInCall

(* The calls.                                                              *)
LEMMA Held_Start ==
    ASSUME HeldInv, NoFill, NEW t \in Threads, Start(t)
    PROVE  HeldInCall'
<1>0. /\ CallTypes /\ DataTypes /\ CallOf(t) /\ Others(t) /\ op[t] # "fill"
      /\ pc[t] = "enterRW" => op[t] \in RasterIoOps
      /\ op[t] \in RasterIoOps => at[t] \in Keys
  <2>1. CallOf(t) /\ CallTypes /\ DataTypes
    BY DEF HeldInv, ControlInv, Types
  <2>2. op[t] \in RasterIoOps => op[t] \in OwnerOps
    BY DEF RasterIoOps, OwnerOps, IoOps, ReadOps, WriteOps
  <2> QED BY <2>1, <2>2, Others_Start DEF HeldInv, HeldInCall, CallOf
<1>s. ASSUME LeavesMutex(t) PROVE HeldInCall'
  BY <1>0, <1>s, LeavesMutexStep
<1> USE DEF Goto, callVars, dataVars, CallTypes, DataTypes
<1>1. ASSUME NEW o \in Ops, NEW k \in Keys, StartIO(t, o, k) PROVE HeldInCall'
  <2>1. LeavesMutex(t)
    BY <1>0, <1>1 DEF StartIO, LeavesMutex, CallOf, OpOf, RasterIoOps, FlushOps,
       GlobalOps, GlobalLabels, NoFill
  <2> QED BY <1>s, <2>1
<1>2. ASSUME NEW o \in Ops, NEW k \in Keys, StartFlush(t, o, k) PROVE HeldInCall'
  <2>1. LeavesMutex(t)
    BY <1>0, <1>2 DEF StartFlush, LeavesMutex, CallOf, OpOf, RasterIoOps, FlushOps,
       GlobalOps, GlobalLabels, NoFill
  <2> QED BY <1>s, <2>1
<1>3. ASSUME NEW o \in Ops, StartGlobal(t, o) PROVE HeldInCall'
  <2>1. LeavesMutex(t)
    BY <1>0, <1>3 DEF StartGlobal, LeavesMutex, CallOf, OpOf, RasterIoOps,
       FlushOps, GlobalOps, GlobalLabels, NoFill
  <2> QED BY <1>s, <2>1
<1>4. ASSUME NEW ds \in Datasets, Reopen(t, ds) PROVE HeldInCall'
  <2>1. LeavesMutex(t)
    BY <1>0, <1>4 DEF Reopen, LeavesMutex, CallOf, OpOf, RasterIoOps, FlushOps,
       GlobalOps, GlobalLabels, NoFill
  <2> QED BY <1>s, <2>1
<1>5. CASE EnterDisableDirtyBlockFlush(t)
  <2>1. LeavesMutex(t)
    BY <1>0, <1>5 DEF EnterDisableDirtyBlockFlush, LeavesMutex, CallOf, OpOf,
       RasterIoOps, FlushOps, GlobalOps, GlobalLabels
  <2> QED BY <1>s, <2>1
<1>6. CASE LeaveDisableDirtyBlockFlush(t)
  <2>1. LeavesMutex(t)
    BY <1>0, <1>6 DEF LeaveDisableDirtyBlockFlush, LeavesMutex, CallOf, OpOf,
       RasterIoOps, FlushOps, GlobalOps, GlobalLabels
  <2> QED BY <1>s, <2>1
<1> QED
  BY <1>1, <1>2, <1>3, <1>4, <1>5, <1>6 DEF Start

(* GetLockedBlockRef() and its callers.                                    *)
LEMMA Held_Io ==
    ASSUME HeldInv, NEW t \in Threads, IoStep(t)
    PROVE  HeldInCall'
<1>0. /\ CallTypes /\ DataTypes /\ CallOf(t) /\ Others(t) /\ op[t] # "fill"
      /\ pc[t] = "enterRW" => op[t] \in RasterIoOps
      /\ op[t] \in RasterIoOps => at[t] \in Keys
  <2>1. CallOf(t) /\ CallTypes /\ DataTypes
    BY DEF HeldInv, ControlInv, Types
  <2>2. op[t] \in RasterIoOps => op[t] \in OwnerOps
    BY DEF RasterIoOps, OwnerOps, IoOps, ReadOps, WriteOps
  <2> QED BY <2>1, <2>2, Others_Io DEF HeldInv, HeldInCall, CallOf
<1>s. ASSUME LeavesMutex(t) PROVE HeldInCall'
  BY <1>0, <1>s, LeavesMutexStep
<1> USE DEF Goto, callVars, dataVars, CallTypes, DataTypes
<1>1. CASE WaitPendingTasks(t)
  <2>1. LeavesMutex(t)
    BY <1>0, <1>1 DEF WaitPendingTasks, LeavesMutex, CallOf, OpOf, RasterIoOps,
       FlushOps, GlobalOps, GlobalLabels
  <2> QED BY <1>s, <2>1
<1>2. CASE EnterReadWrite(t)
  BY <1>0, <1>2, Held_Enter DEF EnterReadWrite
<1>3. CASE TryGetLockedBlockRef(t)
  <2>1. LeavesMutex(t)
    BY <1>0, <1>3 DEF TryGetLockedBlockRef, LeavesMutex, CallOf, OpOf, RasterIoOps,
       FlushOps, GlobalOps, GlobalLabels
  <2> QED BY <1>s, <2>1
<1>4. CASE TakeLock(t)
  <2>1. LeavesMutex(t)
    BY <1>0, <1>4 DEF TakeLock, LeavesMutex, CallOf, OpOf, RasterIoOps, FlushOps,
       GlobalOps, GlobalLabels
  <2> QED BY <1>s, <2>1
<1>5. CASE TakeLockFailed(t)
  <2>1. LeavesMutex(t)
    BY <1>0, <1>5 DEF TakeLockFailed, LeavesMutex, CallOf, OpOf, RasterIoOps,
       FlushOps, GlobalOps, GlobalLabels
  <2> QED BY <1>s, <2>1
<1>6. CASE Touch(t)
  <2>1. LeavesMutex(t)
    BY <1>0, <1>6 DEF Touch, LeavesMutex, CallOf, OpOf, RasterIoOps, FlushOps,
       GlobalOps, GlobalLabels
  <2> QED BY <1>s, <2>1
<1>7. CASE TouchLocked(t)
  <2>1. LeavesMutex(t)
    BY <1>0, <1>7 DEF TouchLocked, LeavesMutex, CallOf, OpOf, RasterIoOps,
       FlushOps, GlobalOps, GlobalLabels
  <2> QED BY <1>s, <2>1
<1>8. CASE CreateBlockFails(t)
  <2>1. LeavesMutex(t)
    BY <1>0, <1>8 DEF CreateBlockFails, LeavesMutex, CallOf, OpOf, RasterIoOps,
       FlushOps, GlobalOps, GlobalLabels
  <2> QED BY <1>s, <2>1
<1>9. CASE ReacquireReadWriteLock(t)
  <2>1. CASE op[t] \in RasterIoOps
    BY <1>0, <1>9, <2>1, Held_Enter DEF ReacquireReadWriteLock
  <2>2. CASE op[t] \notin RasterIoOps
    <3>1. LeavesMutex(t)
      BY <1>0, <1>9, <2>2 DEF ReacquireReadWriteLock, LeavesMutex
    <3> QED BY <1>s, <3>1
  <2> QED BY <2>1, <2>2
<1>10. ASSUME NEW b \in Blocks, CreateBlock(t, b) PROVE HeldInCall'
  <2>1. LeavesMutex(t)
    BY <1>0, <1>10 DEF CreateBlock, LeaveReadWrite, LeavesMutex, CallOf, OpOf,
       RasterIoOps, FlushOps, GlobalOps, GlobalLabels
  <2> QED BY <1>s, <2>1
<1>11. ASSUME NEW ok \in BOOLEAN, Allocate(t, ok) PROVE HeldInCall'
  <2>1. LeavesMutex(t)
    BY <1>0, <1>11 DEF Allocate, LeavesMutex, CallOf, OpOf, RasterIoOps, FlushOps,
       GlobalOps, GlobalLabels
  <2> QED BY <1>s, <2>1
<1>12. ASSUME NEW ok \in BOOLEAN, AdoptBlock(t, ok) PROVE HeldInCall'
  <2>1. LeavesMutex(t)
    BY <1>0, <1>12 DEF AdoptBlock, LeavesMutex, CallOf, OpOf, RasterIoOps,
       FlushOps, GlobalOps, GlobalLabels
  <2> QED BY <1>s, <2>1
<1>13. ASSUME NEW ok \in BOOLEAN, ReadBlock(t, ok) PROVE HeldInCall'
  <2>1. LeavesMutex(t)
    BY <1>0, <1>13 DEF ReadBlock, LeavesMutex, CallOf, OpOf, RasterIoOps, FlushOps,
       GlobalOps, GlobalLabels
  <2> QED BY <1>s, <2>1
<1>14. CASE WriteLocked(t)
  <2>1. LeavesMutex(t)
    BY <1>0, <1>14 DEF WriteLocked, LeavesMutex, CallOf, OpOf, RasterIoOps,
       FlushOps, GlobalOps, GlobalLabels
  <2> QED BY <1>s, <2>1
<1>15. CASE Discard(t)
  <2>1. LeavesMutex(t)
    BY <1>0, <1>15 DEF Discard, LeavesMutex, CallOf, OpOf, RasterIoOps, FlushOps,
       GlobalOps, GlobalLabels
  <2> QED BY <1>s, <2>1
<1>d. op[t] \in RasterIoOps => DatasetOfKey(at[t]) \in Datasets
  <2>1. op[t] \in RasterIoOps => BandOf(at[t]) \in Bands
    BY <1>0, KeyParts
  <2> QED BY <2>1, BandsAssumption DEF DatasetOfKey, BandOf
<1>16. CASE Failed(t)
  <2>1. /\ op'[t] = "none" /\ pc'[t] = "idle"
        /\ hMutex' = IF op[t] \in RasterIoOps
                     THEN [hMutex EXCEPT ![DatasetOfKey(at[t])] = NoThread] ELSE hMutex
    BY <1>0, <1>16 DEF Failed, Return, LeaveReadWrite
  <2>2. LeavesMutex(t)
    BY <1>0, <1>d, <2>1 DEF LeavesMutex
  <2> QED BY <1>s, <2>2
<1>17. ASSUME NEW more \in BOOLEAN, DropLock(t, more) PROVE HeldInCall'
  <2>1. CASE more
    <3>n. PICK next : next = NextOff(at[t][2])
      OBVIOUS
    <3>1. /\ op'[t] = op[t] /\ op[t] \in RasterIoOps /\ pc'[t] = "tryGet"
          /\ UNCHANGED hMutex /\ at'[t] = <<BandOf(at[t]), next>> /\ next # 0
      BY <1>0, <1>17, <2>1, <3>n DEF DropLock
    <3>2. next \in Offs /\ at'[t] \in Keys
      BY <1>0, <3>n, <3>1, KeyParts, NextOffProperties
    <3>3. DatasetOfKey(at'[t]) = DatasetOfKey(at[t])
      BY <3>1 DEF DatasetOfKey, BandOf
    <3>4. LeavesMutex(t)
      BY <1>0, <3>1, <3>2, <3>3 DEF LeavesMutex
    <3> QED BY <1>s, <3>4
  <2>2. CASE ~more
    <3>1. /\ op'[t] = "none" /\ pc'[t] = "idle"
          /\ hMutex' = IF op[t] \in RasterIoOps
                       THEN [hMutex EXCEPT ![DatasetOfKey(at[t])] = NoThread] ELSE hMutex
      BY <1>0, <1>17, <2>2 DEF DropLock, Return, LeaveReadWrite
    <3>2. LeavesMutex(t)
      BY <1>0, <1>d, <3>1 DEF LeavesMutex
    <3> QED BY <1>s, <3>2
  <2> QED BY <2>1, <2>2
<1> QED
  BY <1>1, <1>2, <1>3, <1>4, <1>5, <1>6, <1>7, <1>8, <1>9, <1>10, <1>11,
     <1>12, <1>13, <1>14, <1>15, <1>16, <1>17 DEF IoStep

(* Evictions.                                                              *)
LEMMA Held_Evict ==
    ASSUME HeldInv, NEW t \in Threads, EvictStep(t)
    PROVE  HeldInCall'
<1>0. /\ CallTypes /\ DataTypes /\ CallOf(t) /\ Others(t) /\ op[t] # "fill"
      /\ pc[t] = "enterRW" => op[t] \in RasterIoOps
      /\ op[t] \in RasterIoOps => at[t] \in Keys
  <2>1. CallOf(t) /\ CallTypes /\ DataTypes
    BY DEF HeldInv, ControlInv, Types
  <2>2. op[t] \in RasterIoOps => op[t] \in OwnerOps
    BY DEF RasterIoOps, OwnerOps, IoOps, ReadOps, WriteOps
  <2> QED BY <2>1, <2>2, Others_Evict DEF HeldInv, HeldInCall, CallOf
<1>s. ASSUME LeavesMutex(t) PROVE HeldInCall'
  BY <1>0, <1>s, LeavesMutexStep
<1> USE DEF Goto, callVars, dataVars, CallTypes, DataTypes
<1>1. CASE InternalizeLock(t)
  <2>1. LeavesMutex(t)
    BY <1>0, <1>1 DEF InternalizeLock, StartRound, LeavesMutex, CallOf, OpOf,
       RasterIoOps, FlushOps, GlobalOps, GlobalLabels
  <2> QED BY <1>s, <2>1
<1>2. CASE Scan(t)
  <2>1. LeavesMutex(t)
    BY <1>0, <1>2 DEF Scan, LeavesMutex, CallOf, OpOf, RasterIoOps, FlushOps,
       GlobalOps, GlobalLabels
  <2> QED BY <1>s, <2>1
<1>3. CASE Exchange(t)
  <2>1. LeavesMutex(t)
    BY <1>0, <1>3 DEF Exchange, Claim, LeavesMutex, CallOf, OpOf, RasterIoOps,
       FlushOps, GlobalOps, GlobalLabels
  <2> QED BY <1>s, <2>1
<1>4. CASE ExchangeOther(t)
  <2>1. LeavesMutex(t)
    BY <1>0, <1>4 DEF ExchangeOther, Claim, LeavesMutex, CallOf, OpOf, RasterIoOps,
       FlushOps, GlobalOps, GlobalLabels
  <2> QED BY <1>s, <2>1
<1>5. CASE Fallback(t)
  <2>1. LeavesMutex(t)
    BY <1>0, <1>5 DEF Fallback, Claim, LeavesMutex, CallOf, OpOf, RasterIoOps,
       FlushOps, GlobalOps, GlobalLabels
  <2> QED BY <1>s, <2>1
<1>6. CASE FallbackEnds(t)
  <2>1. LeavesMutex(t)
    BY <1>0, <1>6 DEF FallbackEnds, LeavesMutex, CallOf, OpOf, RasterIoOps,
       FlushOps, GlobalOps, GlobalLabels
  <2> QED BY <1>s, <2>1
<1>7. CASE Detach(t)
  <2>1. LeavesMutex(t)
    BY <1>0, <1>7 DEF Detach, LeavesMutex, CallOf, OpOf, RasterIoOps, FlushOps,
       GlobalOps, GlobalLabels
  <2> QED BY <1>s, <2>1
<1>8. CASE UnreferenceBlock(t)
  <2>1. LeavesMutex(t)
    BY <1>0, <1>8 DEF UnreferenceBlock, LeavesMutex, CallOf, OpOf, RasterIoOps,
       FlushOps, GlobalOps, GlobalLabels
  <2> QED BY <1>s, <2>1
<1>9. CASE Scanned(t)
  <2>1. LeavesMutex(t)
    BY <1>0, <1>9 DEF Scanned, LeavesMutex, CallOf, OpOf, RasterIoOps, FlushOps,
       GlobalOps, GlobalLabels
  <2> QED BY <1>s, <2>1
<1>10. CASE FreeNext(t)
  <2>1. LeavesMutex(t)
    BY <1>0, <1>10 DEF FreeNext, LeavesMutex, CallOf, OpOf, RasterIoOps, FlushOps,
       GlobalOps, GlobalLabels
  <2> QED BY <1>s, <2>1
<1>11. CASE Release(t)
  <2>1. LeavesMutex(t)
    BY <1>0, <1>11 DEF Release, LeavesMutex, CallOf, OpOf, RasterIoOps, FlushOps,
       GlobalOps, GlobalLabels
  <2> QED BY <1>s, <2>1
<1>12. CASE KeepAliveDec(t)
  <2>1. LeavesMutex(t)
    BY <1>0, <1>12 DEF KeepAliveDec, LeavesMutex, CallOf, OpOf, RasterIoOps,
       FlushOps, GlobalOps, GlobalLabels
  <2> QED BY <1>s, <2>1
<1>13. CASE FreeEnds(t)
  <2>1. LeavesMutex(t)
    BY <1>0, <1>13 DEF FreeEnds, LeavesMutex, CallOf, OpOf, RasterIoOps, FlushOps,
       GlobalOps, GlobalLabels
  <2> QED BY <1>s, <2>1
<1>14. ASSUME NEW ok \in BOOLEAN, WriteEvicted(t, ok) PROVE HeldInCall'
  <2>1. LeavesMutex(t)
    BY <1>0, <1>14 DEF WriteEvicted, LeavesMutex, CallOf, OpOf, RasterIoOps,
       FlushOps, GlobalOps, GlobalLabels
  <2> QED BY <1>s, <2>1
<1>15. CASE SetCacheMaxLoop(t)
  <2>1. LeavesMutex(t)
    BY <1>0, <1>15 DEF SetCacheMaxLoop, LeavesMutex, CallOf, OpOf, RasterIoOps,
       FlushOps, GlobalOps, GlobalLabels
  <2> QED BY <1>s, <2>1
<1>16. CASE FlushCacheBlock(t)
  <2>1. LeavesMutex(t)
    BY <1>0, <1>16 DEF FlushCacheBlock, LeavesMutex, CallOf, OpOf, RasterIoOps,
       FlushOps, GlobalOps, GlobalLabels
  <2> QED BY <1>s, <2>1
<1>17. CASE FlushScan(t)
  <2>1. LeavesMutex(t)
    BY <1>0, <1>17 DEF FlushScan, LeavesMutex, CallOf, OpOf, RasterIoOps, FlushOps,
       GlobalOps, GlobalLabels
  <2> QED BY <1>s, <2>1
<1>18. CASE FlushExchange(t)
  <2>1. LeavesMutex(t)
    BY <1>0, <1>18 DEF FlushExchange, Claim, LeavesMutex, CallOf, OpOf,
       RasterIoOps, FlushOps, GlobalOps, GlobalLabels
  <2> QED BY <1>s, <2>1
<1>19. CASE FlushScanEnds(t)
  <2>1. LeavesMutex(t)
    BY <1>0, <1>19 DEF FlushScanEnds, LeavesMutex, CallOf, OpOf, RasterIoOps,
       FlushOps, GlobalOps, GlobalLabels
  <2> QED BY <1>s, <2>1
<1>20. CASE FlushedOne(t)
  <2>1. LeavesMutex(t)
    BY <1>0, <1>20 DEF FlushedOne, LeavesMutex, CallOf, OpOf, RasterIoOps,
       FlushOps, GlobalOps, GlobalLabels
  <2> QED BY <1>s, <2>1
<1> QED
  BY <1>1, <1>2, <1>3, <1>4, <1>5, <1>6, <1>7, <1>8, <1>9, <1>10, <1>11,
     <1>12, <1>13, <1>14, <1>15, <1>16, <1>17, <1>18, <1>19, <1>20 DEF
     EvictStep

(* FlushBlock(), FlushCache() and the destructors.                         *)
LEMMA Held_Flush ==
    ASSUME HeldInv, NEW t \in Threads, FlushStep(t)
    PROVE  HeldInCall'
<1>0. /\ CallTypes /\ DataTypes /\ CallOf(t) /\ Others(t) /\ op[t] # "fill"
      /\ pc[t] = "enterRW" => op[t] \in RasterIoOps
      /\ op[t] \in RasterIoOps => at[t] \in Keys
  <2>1. CallOf(t) /\ CallTypes /\ DataTypes
    BY DEF HeldInv, ControlInv, Types
  <2>2. op[t] \in RasterIoOps => op[t] \in OwnerOps
    BY DEF RasterIoOps, OwnerOps, IoOps, ReadOps, WriteOps
  <2> QED BY <2>1, <2>2, Others_Flush DEF HeldInv, HeldInCall, CallOf
<1>s. ASSUME LeavesMutex(t) PROVE HeldInCall'
  BY <1>0, <1>s, LeavesMutexStep
<1> USE DEF Goto, callVars, dataVars, CallTypes, DataTypes
<1>1. CASE FlushBlock(t)
  <2>1. LeavesMutex(t)
    BY <1>0, <1>1 DEF FlushBlock, AfterFlushBlock, LeavesMutex, CallOf, OpOf,
       RasterIoOps, FlushOps, GlobalOps, GlobalLabels
  <2> QED BY <1>s, <2>1
<1>2. CASE ClaimFlush(t)
  <2>1. LeavesMutex(t)
    BY <1>0, <1>2 DEF ClaimFlush, LeavesMutex, CallOf, OpOf, RasterIoOps, FlushOps,
       GlobalOps, GlobalLabels
  <2> QED BY <1>s, <2>1
<1>3. CASE FlushWait(t)
  <2>1. LeavesMutex(t)
    BY <1>0, <1>3 DEF FlushWait, AfterFlushBlock, LeavesMutex, CallOf, OpOf,
       RasterIoOps, FlushOps, GlobalOps, GlobalLabels
  <2> QED BY <1>s, <2>1
<1>4. CASE FlushDetach(t)
  <2>1. LeavesMutex(t)
    BY <1>0, <1>4 DEF FlushDetach, LeavesMutex, CallOf, OpOf, RasterIoOps,
       FlushOps, GlobalOps, GlobalLabels
  <2> QED BY <1>s, <2>1
<1>5. CASE FlushWrite(t)
  <2>1. LeavesMutex(t)
    BY <1>0, <1>5 DEF FlushWrite, LeavesMutex, CallOf, OpOf, RasterIoOps, FlushOps,
       GlobalOps, GlobalLabels
  <2> QED BY <1>s, <2>1
<1>6. CASE Delete(t)
  <2>1. LeavesMutex(t)
    BY <1>0, <1>6 DEF Delete, AfterFlushBlock, LeavesMutex, CallOf, OpOf,
       RasterIoOps, FlushOps, GlobalOps, GlobalLabels
  <2> QED BY <1>s, <2>1
<1>7. CASE FlushCache(t)
  <2>1. LeavesMutex(t)
    BY <1>0, <1>7 DEF FlushCache, LeavesMutex, CallOf, OpOf, RasterIoOps, FlushOps,
       GlobalOps, GlobalLabels
  <2> QED BY <1>s, <2>1
<1>8. CASE FlushStorage(t)
  <2>1. LeavesMutex(t)
    BY <1>0, <1>8 DEF FlushStorage, LeavesMutex, CallOf, OpOf, RasterIoOps,
       FlushOps, GlobalOps, GlobalLabels
  <2> QED BY <1>s, <2>1
<1>9. CASE FlushNext(t)
  <2>1. LeavesMutex(t)
    BY <1>0, <1>9 DEF FlushNext, LeavesMutex, CallOf, OpOf, RasterIoOps, FlushOps,
       GlobalOps, GlobalLabels
  <2> QED BY <1>s, <2>1
<1>10. CASE FlushEnds(t)
  <2>1. LeavesMutex(t)
    BY <1>0, <1>10 DEF FlushEnds, LeavesMutex, CallOf, OpOf, RasterIoOps, FlushOps,
       GlobalOps, GlobalLabels
  <2> QED BY <1>s, <2>1
<1>11. CASE Destroy(t)
  <2>1. LeavesMutex(t)
    BY <1>0, <1>11 DEF Destroy, LeavesMutex, CallOf, OpOf, RasterIoOps, FlushOps,
       GlobalOps, GlobalLabels
  <2> QED BY <1>s, <2>1
<1>12. CASE Flushed(t)
  <2>1. LeavesMutex(t)
    BY <1>0, <1>12 DEF Flushed, Return, LeavesMutex, CallOf, OpOf, RasterIoOps,
       FlushOps, GlobalOps, GlobalLabels
  <2> QED BY <1>s, <2>1
<1>13. ASSUME NEW ok \in BOOLEAN, FlushIO(t, ok) PROVE HeldInCall'
  <2>1. LeavesMutex(t)
    BY <1>0, <1>13 DEF FlushIO, LeavesMutex, CallOf, OpOf, RasterIoOps, FlushOps,
       GlobalOps, GlobalLabels
  <2> QED BY <1>s, <2>1
<1> QED
  BY <1>1, <1>2, <1>3, <1>4, <1>5, <1>6, <1>7, <1>8, <1>9, <1>10, <1>11,
     <1>12, <1>13 DEF FlushStep

-----------------------------------------------------------------------------
(* No mutex is held at first.                                              *)
LEMMA Held_Init == Init => HeldInCall
BY DEF Init, HeldInCall

(* Every step of every thread keeps the rule of the mutexes.               *)
LEMMA HeldInv_Next ==
    ASSUME NoFill, HeldInv, [Next]_vars
    PROVE  HeldInv'
<1>1. ControlInv'
  BY ControlInv_Next DEF HeldInv
<1>2. ASSUME NEW t \in Threads, Start(t) \/ Step(t) PROVE HeldInCall'
  BY <1>2, Held_Start, Held_Io, Held_Evict, Held_Flush DEF Step
<1>3. CASE UNCHANGED vars
  <2>1. UNCHANGED <<hMutex, pc, op, at>>
    BY <1>3 DEF vars, dataVars, callVars
  <2> QED BY <1>1, <2>1 DEF HeldInv, HeldInCall
<1> QED
  BY <1>1, <1>2, <1>3 DEF Next, HeldInv

(* What the owner relies on follows from where its blocks are.             *)
LEMMA OwnerIsSafe ==
    ASSUME AliveInv, HeldInCall
    PROVE  OwnerSafe
<1>0. /\ OwnInv /\ LocksExact /\ DataTypes /\ \A t \in Threads :
            KeysOf(t) /\ CallOf(t) /\ NewOf(t) /\ LoopOf(t)
  BY DEF AliveInv, FiledInv, Filed, OwnInv, Owned, ControlInv, Types
<1>1. TouchesCachedBlock
  <2> SUFFICES ASSUME NEW t \in Threads, pc[t] \in {"touch", "touchLocked"}
               PROVE  bMustDetach[poBlock[t]] /\ Contains(lru, poBlock[t])
    BY DEF TouchesCachedBlock
  <2>1. HasLock(t) /\ ~NotYet(t)
    BY DEF HasLock, NotYet, RoundEnd, CriticalLabels
  <2>2. bMustDetach[poBlock[t]] /\ poBlock[t] \in ToSet(lru)
    BY <1>0, <2>1 DEF KeysOf, LocksExact
  <2> QED BY <2>2 DEF ToSet, Contains
<1>2. AdoptsIntoEmptySlot
  BY <1>0 DEF AdoptsIntoEmptySlot, NewOf, Past, HoldsNew
<1>3. FlushEmptiesBand
  BY <1>0 DEF FlushEmptiesBand, LoopOf
<1>4. MutexHeldOnlyInCall
  BY DEF HeldInCall, MutexHeldOnlyInCall
<1> QED
  BY <1>1, <1>2, <1>3, <1>4, NothingDangles DEF OwnerSafe

(* Whatever the evictors of other threads do, the owner of a band finds no *)
(* pointer to a deleted object, touches only blocks of the list, adopts    *)
(* into a free slot, leaves nothing of a band behind when FlushCache() or  *)
(* DropCache() returns, and holds the RW mutex of its dataset only during  *)
(* a call, if it does not call Fill().                                     *)
THEOREM OwnersAreSafe == AllocationsSucceed /\ NoFill => (Spec => []OwnerSafe)
<1> SUFFICES ASSUME AllocationsSucceed, NoFill PROVE Spec => []OwnerSafe
  OBVIOUS
<1>1. Spec => []AliveInv
  BY Lifetime
<1>2. Init => HeldInv
  BY ControlInv_Init, Held_Init DEF HeldInv
<1>3. HeldInv /\ [Next]_vars => HeldInv'
  BY HeldInv_Next
<1>4. AliveInv /\ HeldInv => OwnerSafe
  BY OwnerIsSafe DEF HeldInv
<1> QED
  BY <1>1, <1>2, <1>3, <1>4, PTL DEF Spec
-----------------------------------------------------------------------------
(***************************************************************************)
(* The memory of the cache, for any number of threads, datasets, bands and *)
(* blocks: nCacheUsed is what the blocks of the list and the pending       *)
(* requests occupy, so that Internalize() evicts neither too much nor too  *)
(* little, and m_nDirtyBlocks is the number of dirty blocks of a band.  It *)
(* builds on the places of the blocks above.                               *)
(***************************************************************************)

(* Thread t is inside Internalize(): its block has no memory yet.          *)
Fresh(t) == Internalizing(t) \/ pc[t] = "allocate"

(* Which of the blocks that thread t holds have memory, whether t has      *)
(* charged its new block, and what is left to detach of one that it        *)
(* flushes.                                                                *)
MemoryOf(t) ==
    /\ Fresh(t) => /\ pData[poBlock[t]] = NoData
                   /\ pc[t] # "internalize" => ~bFirstIter[t]
    /\ ~Fresh(t) => bFirstIter[t]
    /\ HasLock(t) /\ ~Fresh(t) => pData[poBlock[t]] # NoData
    /\ \A b \in Claimed(t) : pData[b] # NoData
    /\ \A b \in Flushing(t) : bMustDetach[b] => b \in ToSet(lru)

(* A block of the list has memory, or its thread is about to allocate it.  *)
Listed == \A b \in ToSet(lru) :
    pData[b] # NoData \/ \E t \in Threads : Fresh(t) /\ poBlock[t] = b

(* Only pixels are written to disk, and evictors keep existing bands.      *)
Pixels == /\ disk \in [Keys -> Values] /\ last \in [Keys -> Values]
          /\ keptBand \in [Threads -> Bands \cup {0}]

(* What nCacheUsed counts.                                                 *)
InCache == {b \in ToSet(lru) : pData[b] # NoData}
Charged == {t \in Threads : \/ Internalizing(t) /\ ~bFirstIter[t]
                            \/ pc[t] = "allocate"}

Memory == (\A t \in Threads : MemoryOf(t)) /\ Listed /\ CacheUsedExact
MemInv == FiledInv /\ Memory /\ Pixels

-----------------------------------------------------------------------------
(* The blocks that a step of thread t may give memory to, or take it from: *)
(* its own, those that it has claimed, and those that nobody uses.         *)
Mine(t, b) == \/ HasLock(t) /\ b = poBlock[t]
              \/ b \in Claimed(t) \/ Frees(b) \/ key[b] = NoKey

Touches(t) == \A b \in Blocks :
    \/ Mine(t, b)
    \/ /\ pData'[b] = pData[b] /\ bMustDetach'[b] = bMustDetach[b]
       /\ b \in ToSet(lru') <=> b \in ToSet(lru)

(* A step of thread t leaves the list with memory behind its blocks.       *)
Lists(t) == \A b \in ToSet(lru') :
    \/ pData'[b] # NoData
    \/ Fresh(t)' /\ poBlock'[t] = b
    \/ /\ b \in ToSet(lru) /\ pData'[b] = pData[b]
       /\ ~(Fresh(t) /\ poBlock[t] = b)

(* The parts of the invariant that the proofs below use.                   *)
LEMMA MemParts ==
    ASSUME MemInv
    PROVE  /\ FiledInv /\ OwnInv /\ ControlInv /\ Types
           /\ BlockTypes /\ CacheTypes /\ BandTypes /\ CallTypes /\ ScanTypes
           /\ StoreInv /\ Exclusive /\ LocksExact /\ Placed
           /\ Listed /\ CacheUsedExact /\ Pixels
           /\ \A t \in Threads : CallOf(t) /\ ScanOf(t) /\ KeysOf(t) /\ MemoryOf(t)
BY DEF MemInv, Memory, FiledInv, Filed, OwnInv, Owned, ControlInv, Types

(* Another thread's roles are not changed by a step of thread t.           *)
LEMMA MemoryRoles ==
    ASSUME NEW t \in Threads, Others(t), NEW u \in Threads, u # t
    PROVE  /\ pc'[u] = pc[u] /\ poBlock'[u] = poBlock[u]
           /\ bFirstIter'[u] = bFirstIter[u]
           /\ Fresh(u)' <=> Fresh(u)
           /\ HasLock(u)' <=> HasLock(u)
           /\ Internalizing(u)' <=> Internalizing(u)
           /\ Claimed(u)' = Claimed(u) /\ Flushing(u)' = Flushing(u)
<1>1. /\ pc'[u] = pc[u] /\ op'[u] = op[u] /\ poBlock'[u] = poBlock[u]
      /\ bFirstIter'[u] = bFirstIter[u]
      /\ HasLock(u)' <=> HasLock(u)
      /\ Claimed(u)' = Claimed(u)
  BY OthersRoles
<1> QED
  BY <1>1 DEF Fresh, Internalizing, Flushing

(* Where a thread is inside Internalize() it holds the lock of its block.  *)
LEMMA FreshHasLock ==
    ASSUME NEW t
    PROVE  /\ Fresh(t) => HasLock(t)
           /\ Flushing(t) \subseteq Claimed(t)
BY DEF Fresh, HasLock, Claimed

(* A block that another thread holds is not for thread t to change.        *)
LEMMA NotMine ==
    ASSUME OwnInv, NEW t \in Threads, NEW u \in Threads, u # t, NEW b,
           (HasLock(u) /\ b = poBlock[u]) \/ b \in Claimed(u)
    PROVE  b \in Blocks /\ ~Mine(t, b)
<1>0. LocksExact /\ Exclusive
  BY DEF OwnInv, Owned
<1>1. CASE HasLock(u) /\ b = poBlock[u]
  <2>1. b \in Blocks /\ key[b] \in Keys /\ UserOf(b) = u
    BY <1>1, UserIsOwner
  <2>2. ~Out(b)
    BY <1>0, <1>1 DEF LocksExact
  <2>3. ~(HasLock(t) /\ b = poBlock[t])
    BY <2>1, UserIsOwner
  <2> QED BY <2>1, <2>2, <2>3, NoKeyIsNoKey DEF Mine, Out
<1>2. CASE b \in Claimed(u)
  <2>1. b \in Blocks /\ key[b] \in Keys
    BY <1>2, ClaimedAreBlocks
  <2>2. Out(b)
    BY <1>2 DEF Out
  <2>3. ~(HasLock(t) /\ b = poBlock[t])
    BY <1>0, <2>2 DEF LocksExact
  <2>4. b \notin Claimed(t) /\ ~Frees(b)
    BY <1>0, <1>2 DEF Exclusive, Frees
  <2> QED BY <2>1, <2>3, <2>4, NoKeyIsNoKey DEF Mine
<1> QED
  BY <1>1, <1>2

(* What other threads rely on stays.                                       *)
LEMMA MemoryMoves ==
    ASSUME MemInv, NEW t \in Threads, Others(t), Touches(t),
           NEW u \in Threads, u # t
    PROVE  MemoryOf(u)'
<1>0. OwnInv /\ MemoryOf(u)
  BY MemParts
<1>1. /\ pc'[u] = pc[u] /\ poBlock'[u] = poBlock[u]
      /\ bFirstIter'[u] = bFirstIter[u]
      /\ Fresh(u)' <=> Fresh(u)
      /\ HasLock(u)' <=> HasLock(u)
      /\ Claimed(u)' = Claimed(u) /\ Flushing(u)' = Flushing(u)
  BY MemoryRoles
<1>2. HasLock(u) => pData'[poBlock[u]] = pData[poBlock[u]]
  BY <1>0, NotMine DEF Touches
<1>3. \A b \in Claimed(u) : /\ pData'[b] = pData[b]
                            /\ bMustDetach'[b] = bMustDetach[b]
                            /\ b \in ToSet(lru') <=> b \in ToSet(lru)
  BY <1>0, NotMine DEF Touches
<1>4. \A b \in Flushing(u)' : bMustDetach'[b] => b \in ToSet(lru')
  BY <1>0, <1>1, <1>3, FreshHasLock DEF MemoryOf
<1>5. \A b \in Claimed(u)' : pData'[b] # NoData
  BY <1>0, <1>1, <1>3 DEF MemoryOf
<1>6. HasLock(u)' /\ ~Fresh(u)' => pData'[poBlock'[u]] # NoData
  BY <1>0, <1>1, <1>2 DEF MemoryOf
<1>7. Fresh(u)' => /\ pData'[poBlock'[u]] = NoData
                   /\ pc'[u] # "internalize" => ~bFirstIter'[u]
  BY <1>0, <1>1, <1>2, FreshHasLock DEF MemoryOf
<1>8. ~Fresh(u)' => bFirstIter'[u]
  BY <1>0, <1>1 DEF MemoryOf
<1> QED
  BY <1>4, <1>5, <1>6, <1>7, <1>8 DEF MemoryOf

(* The blocks of the list keep their memory.                               *)
LEMMA ListedMoves ==
    ASSUME Listed, NEW t \in Threads, Others(t), Lists(t)
    PROVE  Listed'
<1> SUFFICES ASSUME NEW b \in ToSet(lru'), pData'[b] = NoData
             PROVE  \E u \in Threads : Fresh(u)' /\ poBlock'[u] = b
  BY DEF Listed
<1>1. CASE Fresh(t)' /\ poBlock'[t] = b
  BY <1>1
<1>2. CASE ~(Fresh(t)' /\ poBlock'[t] = b)
  <2>1. /\ b \in ToSet(lru) /\ pData[b] = NoData
        /\ ~(Fresh(t) /\ poBlock[t] = b)
    BY <1>2 DEF Lists
  <2>2. PICK u \in Threads : Fresh(u) /\ poBlock[u] = b
    BY <2>1 DEF Listed
  <2>3. u # t
    BY <2>1, <2>2
  <2> QED BY <2>2, <2>3, MemoryRoles
<1> QED
  BY <1>1, <1>2

-----------------------------------------------------------------------------
(* The counter of the memory in use.                                       *)
LEMMA CacheUsedIs ==
    /\ CacheUsedExact <=> nCacheUsed = Cardinality(InCache) + Cardinality(Charged)
    /\ CacheUsedExact' <=> nCacheUsed' = Cardinality(InCache') + Cardinality(Charged')
BY DEF CacheUsedExact, InCache, Charged

(* The sets that it counts are finite.                                     *)
LEMMA CacheSets ==
    ASSUME OwnInv
    PROVE  /\ IsFiniteSet(InCache) /\ IsFiniteSet(Charged)
           /\ Cardinality(InCache) \in Nat /\ Cardinality(Charged) \in Nat
<1>1. InCache \subseteq Blocks /\ Charged \subseteq Threads
  <2>1. ToSet(lru) \subseteq Blocks
    BY Elements DEF OwnInv, ControlInv, Types, CacheTypes
  <2> QED BY <2>1 DEF InCache, Charged
<1>2. IsFiniteSet(InCache) /\ IsFiniteSet(Charged)
  BY <1>1, FiniteAssumption, FS_Subset
<1> QED
  BY <1>2, FS_CardinalityType

(* Only thread t can have come to be, or ceased to be, charged.            *)
LEMMA ChargedMoves ==
    ASSUME NEW t \in Threads, Others(t)
    PROVE  Charged' \ {t} = Charged \ {t}
<1>1. \A u \in Threads \ {t} : u \in Charged' <=> u \in Charged
  BY MemoryRoles DEF Charged
<1>2. Charged \subseteq Threads /\ Charged' \subseteq Threads
  BY DEF Charged
<1> QED
  BY <1>1, <1>2

(* A step that changes neither the counter nor what it counts.             *)
LEMMA UsedStays ==
    ASSUME CacheUsedExact, NEW t \in Threads, Others(t), UNCHANGED nCacheUsed,
           \A b : b \in InCache' <=> b \in InCache,
           t \in Charged' <=> t \in Charged
    PROVE  CacheUsedExact'
<1>1. Charged' = Charged
  BY ChargedMoves
<1>2. InCache' = InCache
  OBVIOUS
<1> QED
  BY <1>1, <1>2, CacheUsedIs

(* Steps that move no memory.                                              *)
Dull(t) ==
    /\ UNCHANGED <<pData, bMustDetach, lru, nCacheUsed>>
    /\ bFirstIter'[t] = bFirstIter[t]
    /\ Fresh(t)' <=> Fresh(t)
    /\ Fresh(t) => /\ poBlock'[t] = poBlock[t]
                   /\ pc[t] = "internalize" => pc'[t] = "internalize"
    /\ HasLock(t)' => HasLock(t) /\ poBlock'[t] = poBlock[t]
    /\ Claimed(t)' \subseteq Claimed(t)
    /\ Flushing(t)' \subseteq Flushing(t)

(* Such a step keeps the memory of the cache.                              *)
LEMMA DullStep ==
    ASSUME MemInv, NEW t \in Threads, Others(t), Dull(t)
    PROVE  Memory'
<1>0. Listed /\ CacheUsedExact /\ MemoryOf(t)
  BY MemParts
<1>1. Touches(t)
  BY DEF Touches, Dull
<1>2. Lists(t)
  <2> SUFFICES ASSUME NEW b \in ToSet(lru), Fresh(t), poBlock[t] = b
               PROVE  Fresh(t)' /\ poBlock'[t] = b
    BY DEF Lists, Dull
  <2> QED BY DEF Dull
<1>3. MemoryOf(t)'
  <2>1. Fresh(t)' => /\ pData'[poBlock'[t]] = NoData
                     /\ pc'[t] # "internalize" => ~bFirstIter'[t]
    BY <1>0 DEF Dull, MemoryOf
  <2>2. ~Fresh(t)' => bFirstIter'[t]
    BY <1>0 DEF Dull, MemoryOf
  <2>3. HasLock(t)' /\ ~Fresh(t)' => pData'[poBlock'[t]] # NoData
    BY <1>0 DEF Dull, MemoryOf
  <2>4. \A b \in Claimed(t)' : pData'[b] # NoData
    BY <1>0 DEF Dull, MemoryOf
  <2>5. \A b \in Flushing(t)' : bMustDetach'[b] => b \in ToSet(lru')
    BY <1>0 DEF Dull, MemoryOf
  <2> QED BY <2>1, <2>2, <2>3, <2>4, <2>5 DEF MemoryOf
<1>4. t \in Charged' <=> t \in Charged
  BY <1>0 DEF Charged, Dull, Fresh, MemoryOf
<1>5. CacheUsedExact'
  BY <1>0, <1>4, UsedStays DEF Dull, InCache
<1> QED
  BY <1>0, <1>1, <1>2, <1>3, <1>5, MemoryMoves, ListedMoves DEF Memory

-----------------------------------------------------------------------------
(* Steps of a thread that leaves the memory as it is, with its own part    *)
(* shown.                                                                  *)
LEMMA MemoryStep ==
    ASSUME MemInv, NEW t \in Threads, Others(t), Touches(t), Lists(t),
           MemoryOf(t)', CacheUsedExact'
    PROVE  Memory'
<1>1. Listed
  BY MemParts
<1> QED
  BY <1>1, MemoryMoves, ListedMoves DEF Memory

(* A step that leaves the list and the memory of blocks alone keeps them,  *)
(* if its thread keeps what it relies on.                                  *)
LEMMA StillMemory ==
    ASSUME MemInv, NEW t \in Threads, Others(t),
           UNCHANGED <<pData, bMustDetach, lru>>,
           Fresh(t) => Fresh(t)' /\ poBlock'[t] = poBlock[t],
           MemoryOf(t)', CacheUsedExact'
    PROVE  Memory'
<1>1. Touches(t)
  BY DEF Touches
<1>2. Lists(t)
  BY DEF Lists
<1> QED
  BY <1>1, <1>2, MemoryStep

(* A block of the list whose lock count is 0 has memory: the thread that   *)
(* allocates it holds its lock.                                            *)
LEMMA UnlockedHasMemory ==
    ASSUME MemInv, NEW b \in ToSet(lru), nLockCount[b] = 0
    PROVE  b \in Blocks /\ pData[b] # NoData
<1>0. OwnInv /\ StoreInv /\ LocksExact /\ Listed /\ CacheTypes
  BY MemParts
<1>1. b \in Blocks /\ key[b] \in Keys
  BY <1>0, Elements DEF StoreInv, CacheTypes
<1>2. ASSUME NEW u \in Threads, Fresh(u), poBlock[u] = b PROVE FALSE
  <2>1. HasLock(u)
    BY <1>2, FreshHasLock
  <2>2. ~Out(b) /\ Used(b)
    BY <1>0, <1>2, <2>1 DEF LocksExact, Used, Using
  <2> QED BY <1>0, <1>1, <2>2 DEF LocksExact
<1> QED
  BY <1>0, <1>1, <1>2 DEF Listed

(* Nobody uses a block that its owner is about to lock or to flush.        *)
LEMMA OwnerAlone ==
    ASSUME OwnInv, NEW t \in Threads, pc[t] \in {"takeLock", "claimFlush"},
           NEW b, b = poBlock[t]
    PROVE  b \in Blocks /\ key[b] \in Keys /\ ~Used(b)
<1>1. b \in Blocks /\ key[b] \in Keys /\ UserOf(b) = t
  BY UserIsOwner DEF FlushLabels
<1>2. ~HasLock(t) /\ pc[t] # "takeLockFailed"
  BY DEF HasLock, Internalizing, EvictLabels, CriticalLabels
<1>3. ASSUME NEW u \in Threads, b \in Using(u) PROVE FALSE
  <2>1. (HasLock(u) \/ pc[u] = "takeLockFailed") /\ poBlock[u] = b
    BY <1>3 DEF Using
  <2>2. u = t
    BY <1>1, <2>1, UserIsOwner
  <2> QED BY <1>2, <2>1, <2>2
<1> QED
  BY <1>1, <1>3 DEF Used

(* TakeLock() succeeds on blocks that have memory.                         *)
LEMMA Memory_TakeLock ==
    ASSUME MemInv, NEW t \in Threads, Others(t), TakeLock(t)
    PROVE  Memory'
<1>0. /\ CallTypes /\ BlockTypes /\ OwnInv /\ LocksExact /\ MemoryOf(t)
      /\ CacheUsedExact
  BY MemParts
<1>b. PICK b : b = poBlock[t]
  OBVIOUS
<1>1. /\ pc[t] = "takeLock"
      /\ pc'[t] = IF nLockCount[b] + 1 # 0 THEN "touch" ELSE "takeLockFailed"
      /\ UNCHANGED <<pData, bMustDetach, lru, nCacheUsed, op, poBlock, poTarget,
                     toFree, bFirstIter>>
  BY <1>0, <1>b DEF TakeLock, LockTaken, CallTypes, Goto, cacheVars, callVars, scanVars
<1>2. b \in Blocks /\ key[b] \in Keys /\ ~Used(b)
  BY <1>0, <1>b, <1>1, OwnerAlone
<1>3. /\ ~Fresh(t) /\ ~Fresh(t)' /\ (HasLock(t)' => pc'[t] = "touch")
      /\ Claimed(t)' = Claimed(t) /\ Flushing(t)' = {}
  BY <1>1 DEF Fresh, Internalizing, HasLock, EvictLabels, CriticalLabels,
     Claimed, Evicting, Flushing
<1>4. ASSUME pc'[t] = "touch" PROVE pData[b] # NoData
  <2>1. nLockCount[b] # -1
    BY <1>1, <1>4
  <2>2. ~Out(b) /\ nLockCount[b] = 0
    BY <1>0, <1>2, <2>1 DEF LocksExact
  <2>3. b \in ToSet(lru)
    BY <1>0, <1>b, <1>1, <2>2 DEF LocksExact
  <2> QED BY <2>2, <2>3, UnlockedHasMemory
<1>5. MemoryOf(t)'
  BY <1>0, <1>b, <1>1, <1>3, <1>4 DEF MemoryOf
<1>6. CacheUsedExact'
  <2>1. t \notin Charged /\ t \notin Charged'
    BY <1>3 DEF Charged, Fresh
  <2> QED BY <1>0, <1>1, <2>1, UsedStays DEF InCache
<1> QED
  BY <1>1, <1>3, <1>5, <1>6, StillMemory

(* An evictor claims blocks that have memory.                              *)
LEMMA ClaimMemory ==
    ASSUME MemInv, NEW t \in Threads, Others(t), NEW b, NEW next, NEW retry,
           pc[t] \in {"exchange", "exchangeOther", "fallback", "flushExchange"},
           retry \in {"scan", "fallback", "flushScan"},
           b \in ToSet(lru), Claim(t, b, next, retry)
    PROVE  Memory'
<1>0. /\ CallTypes /\ ScanTypes /\ MemoryOf(t) /\ CacheUsedExact
  BY MemParts
<1>1. /\ pc'[t] \in {"detach", retry}
      /\ UNCHANGED <<pData, bMustDetach, lru, nCacheUsed, op, poBlock, toFree,
                     bFirstIter>>
      /\ pc'[t] = "detach" => nLockCount[b] = 0 /\ poTarget'[t] = b
  BY <1>0 DEF Claim, Claimable, CallTypes, ScanTypes, Goto, cacheVars, callVars
<1>2. /\ Fresh(t)' <=> Fresh(t)
      /\ HasLock(t)' <=> HasLock(t)
      /\ Internalizing(t)' <=> Internalizing(t)
      /\ pc[t] \notin {"internalize", "allocate"}
      /\ pc'[t] \notin {"internalize", "allocate"}
      /\ Flushing(t)' = {} /\ (HasLock(t) => Fresh(t))
  BY <1>1 DEF Fresh, Internalizing, HasLock, EvictLabels, CriticalLabels, Flushing
<1>3. \A c \in Claimed(t)' : c \in Claimed(t) \/ pData[c] # NoData
  <2>1. pc'[t] = "detach" => pData[b] # NoData
    BY <1>1, UnlockedHasMemory
  <2> QED BY <1>1, <1>2, <2>1 DEF Claimed, Evicting
<1>4. MemoryOf(t)'
  BY <1>0, <1>1, <1>2, <1>3 DEF MemoryOf
<1>5. CacheUsedExact'
  <2>1. t \in Charged' <=> t \in Charged
    BY <1>1, <1>2 DEF Charged
  <2> QED BY <1>0, <1>1, <2>1, UsedStays DEF InCache
<1> QED
  BY <1>1, <1>2, <1>4, <1>5, StillMemory

(* The three atomic exchanges of Internalize() and that of                 *)
(* FlushCacheBlock(): the claimed block has memory, for it is in the list  *)
(* and no thread allocates for it.                                         *)
LEMMA Memory_Claim ==
    ASSUME MemInv, NEW t \in Threads, Others(t),
           Exchange(t) \/ ExchangeOther(t) \/ Fallback(t) \/ FlushExchange(t)
    PROVE  Memory'
<1>0. ScanOf(t) /\ OwnInv
  BY MemParts
<1>1. CASE Exchange(t)
  BY <1>0, <1>1, ClaimMemory DEF Exchange, ScanOf
<1>2. CASE ExchangeOther(t)
  BY <1>0, <1>2, ClaimMemory DEF ExchangeOther, ScanOf
<1>3. CASE Fallback(t)
  BY <1>0, <1>3, ClaimMemory DEF Fallback, ScanOf
<1>4. CASE FlushExchange(t)
  BY <1>0, <1>4, ClaimMemory DEF FlushExchange, ScanOf
<1> QED
  BY <1>1, <1>2, <1>3, <1>4

(* DropLockForRemovalFromStorage() claims blocks of the list.              *)
LEMMA Memory_ClaimFlush ==
    ASSUME MemInv, NEW t \in Threads, Others(t), ClaimFlush(t)
    PROVE  Memory'
<1>0. /\ CallTypes /\ OwnInv /\ LocksExact /\ Placed /\ MemoryOf(t)
      /\ CacheUsedExact
  BY MemParts
<1>b. PICK b : b = poBlock[t]
  OBVIOUS
<1>1. /\ pc[t] = "claimFlush" /\ pc'[t] \in {"flushWrite", "flushDetach", "flushWait"}
      /\ pc'[t] # "flushWait" => nLockCount[b] = 0
      /\ UNCHANGED <<pData, bMustDetach, lru, nCacheUsed, op, poBlock, poTarget,
                     toFree, bFirstIter>>
  BY <1>0, <1>b DEF ClaimFlush, Claimable, CallTypes, Goto, cacheVars, callVars, scanVars
<1>2. b \in Blocks /\ key[b] \in Keys /\ ~Used(b)
  BY <1>0, <1>b, <1>1, OwnerAlone
<1>3. /\ ~Fresh(t) /\ ~Fresh(t)' /\ ~HasLock(t)'
      /\ Claimed(t)' \subseteq Claimed(t) \cup {b}
      /\ Flushing(t)' \subseteq {b}
      /\ pc'[t] = "flushWait" => Claimed(t)' = Claimed(t) /\ Flushing(t)' = {}
  BY <1>b, <1>1 DEF Fresh, Internalizing, HasLock, EvictLabels, CriticalLabels,
     Claimed, Evicting, Flushing
<1>4. ASSUME pc'[t] # "flushWait" PROVE b \in ToSet(lru) /\ pData[b] # NoData
  <2>1. nLockCount[b] = 0 /\ ~Out(b)
    BY <1>0, <1>1, <1>2, <1>4 DEF LocksExact
  <2>2. ASSUME NEW u \in Threads, poBlock[u] = b, NotYet(u) PROVE FALSE
    <3>1. HasLock(u)
      BY <2>2 DEF NotYet, HasLock, Internalizing, EvictLabels, RoundEnd
    <3> QED BY <1>2, <2>2, <3>1 DEF Used, Using
  <2>3. b \in ToSet(lru)
    BY <1>0, <1>2, <2>1, <2>2 DEF Placed
  <2> QED BY <2>1, <2>3, UnlockedHasMemory
<1>5. MemoryOf(t)'
  BY <1>0, <1>1, <1>3, <1>4 DEF MemoryOf
<1>6. CacheUsedExact'
  <2>1. t \notin Charged /\ t \notin Charged'
    BY <1>3 DEF Charged, Fresh
  <2> QED BY <1>0, <1>1, <2>1, UsedStays DEF InCache
<1> QED
  BY <1>1, <1>3, <1>5, <1>6, StillMemory

(* Internalize() charges its block once.                                   *)
LEMMA Memory_InternalizeLock ==
    ASSUME MemInv, NEW t \in Threads, Others(t), InternalizeLock(t)
    PROVE  Memory'
<1>0. /\ CallTypes /\ ScanTypes /\ CacheTypes /\ OwnInv /\ CallOf(t)
      /\ MemoryOf(t) /\ CacheUsedExact
  BY MemParts
<1>1. /\ pc[t] = "internalize" /\ pc'[t] = "scan" /\ op[t] \in IoOps
      /\ nCacheUsed' = nCacheUsed + (IF bFirstIter[t] THEN 1 ELSE 0)
      /\ bFirstIter'[t] = FALSE
      /\ UNCHANGED <<pData, bMustDetach, lru, op, poBlock, toFree>>
  BY <1>0 DEF InternalizeLock, Charge, CallTypes, ScanTypes, Goto, blockVars,
     callVars, CallOf, OpOf, IoLabels
<1>2. /\ Fresh(t) /\ Fresh(t)' /\ Internalizing(t) /\ Internalizing(t)'
      /\ Claimed(t)' = Claimed(t) /\ Flushing(t)' = {}
  BY <1>1 DEF Fresh, Internalizing, EvictLabels, CriticalLabels, Claimed,
     Evicting, Flushing
<1>3. MemoryOf(t)'
  BY <1>0, <1>1, <1>2 DEF MemoryOf
<1>4. InCache' = InCache
  BY <1>1 DEF InCache
<1>5. t \in Charged' /\ (t \in Charged <=> ~bFirstIter[t])
  BY <1>1, <1>2 DEF Charged
<1>6. CacheUsedExact'
  <2>1. CASE bFirstIter[t]
    <3>1. Charged' = Charged \cup {t} /\ t \notin Charged
      BY <1>5, <2>1, ChargedMoves
    <3>2. Cardinality(Charged') = Cardinality(Charged) + 1
      BY <1>0, <3>1, CacheSets, FS_AddElement
    <3> QED BY <1>0, <1>1, <1>4, <2>1, <3>2, CacheSets, CacheUsedIs DEF CacheTypes
  <2>2. CASE ~bFirstIter[t]
    <3>1. Charged' = Charged
      BY <1>5, <2>2, ChargedMoves
    <3>2. nCacheUsed' = nCacheUsed
      BY <1>0, <1>1, <2>2 DEF CacheTypes
    <3> QED BY <1>0, <1>4, <3>1, <3>2, CacheUsedIs
  <2> QED BY <2>1, <2>2
<1> QED
  BY <1>1, <1>2, <1>3, <1>6, StillMemory

-----------------------------------------------------------------------------
(* Touch_unlocked() of a block that its user finds in the list.            *)
LEMMA Memory_TouchLocked ==
    ASSUME MemInv, NEW t \in Threads, Others(t), TouchLocked(t)
    PROVE  Memory'
<1>0. /\ CallTypes /\ CacheTypes /\ OwnInv /\ LocksExact /\ MemoryOf(t)
      /\ CacheUsedExact
  BY MemParts
<1>b. PICK b : b = poBlock[t]
  OBVIOUS
<1>1. /\ pc[t] = "touchLocked" /\ pc'[t] = "locked" /\ lru' = Touched(lru, b)
      /\ UNCHANGED <<pData, bMustDetach, nCacheUsed, op, poBlock, poTarget,
                     toFree, bFirstIter>>
  BY <1>0, <1>b DEF TouchLocked, LruTouch, CallTypes, Goto, blockVars, callVars,
     scanVars
<1>2. /\ HasLock(t) /\ ~NotYet(t) /\ ~Fresh(t) /\ ~Fresh(t)'
      /\ Claimed(t)' = Claimed(t) /\ Flushing(t)' = {}
  BY <1>1 DEF Fresh, Internalizing, HasLock, EvictLabels, CriticalLabels, NotYet,
     RoundEnd, Claimed, Evicting, Flushing
<1>3. b \in Blocks /\ b \in ToSet(lru)
  BY <1>0, <1>b, <1>2, UserIsOwner DEF LocksExact
<1>4. ToSet(lru') = ToSet(lru)
  <2>1. ToSet(Touched(lru, b)) = ToSet(lru) \cup {b}
    BY <1>0, <1>3, TouchedProperties DEF CacheTypes
  <2> QED BY <1>1, <1>3, <2>1
<1>5. Touches(t) /\ Lists(t)
  BY <1>1, <1>2, <1>4 DEF Touches, Lists
<1>6. MemoryOf(t)'
  BY <1>0, <1>1, <1>2 DEF MemoryOf
<1>7. CacheUsedExact'
  <2>1. t \notin Charged /\ t \notin Charged'
    BY <1>2 DEF Charged, Fresh
  <2> QED BY <1>0, <1>1, <1>4, <2>1, UsedStays DEF InCache
<1> QED
  BY <1>5, <1>6, <1>7, MemoryStep

(* The new block enters the list before it has memory.                     *)
LEMMA Memory_Scanned ==
    ASSUME MemInv, NEW t \in Threads, Others(t), Scanned(t)
    PROVE  Memory'
<1>0. /\ CallTypes /\ CacheTypes /\ OwnInv /\ MemoryOf(t) /\ CacheUsedExact
  BY MemParts
<1>b. PICK b : b = poBlock[t]
  OBVIOUS
<1>1. /\ pc[t] = "scanned" /\ pc'[t] = "free"
      /\ lru' = IF op[t] \in IoOps /\ ~bLoopAgain[t] THEN Touched(lru, b) ELSE lru
      /\ UNCHANGED <<pData, bMustDetach, nCacheUsed, op, poBlock, toFree, bFirstIter>>
  BY <1>0, <1>b DEF Scanned, LruTouch, CallTypes, Goto, blockVars, callVars
<1>2. /\ op[t] \in IoOps => HasLock(t) /\ Fresh(t)
      /\ Fresh(t)' <=> Fresh(t)
      /\ HasLock(t)' => Fresh(t)'
      /\ Internalizing(t)' <=> Internalizing(t)
      /\ Claimed(t)' = Claimed(t) /\ Flushing(t)' = {}
  <2>1. /\ op[t] \in IoOps => HasLock(t) /\ Fresh(t)
        /\ Fresh(t)' <=> Fresh(t)
        /\ HasLock(t)' => Fresh(t)'
        /\ Internalizing(t)' <=> Internalizing(t)
    BY <1>1 DEF Fresh, Internalizing, HasLock, EvictLabels, CriticalLabels
  <2> QED BY <1>1, <2>1 DEF Claimed, Evicting, Flushing
<1>3. op[t] \in IoOps => b \in Blocks /\ pData[b] = NoData
  BY <1>0, <1>b, <1>2, UserIsOwner DEF MemoryOf
<1>4. /\ op[t] \in IoOps => ToSet(lru') \in {ToSet(lru), ToSet(lru) \cup {b}}
      /\ op[t] \notin IoOps => lru' = lru
  <2>1. op[t] \in IoOps => ToSet(Touched(lru, b)) = ToSet(lru) \cup {b}
    BY <1>0, <1>3, TouchedProperties DEF CacheTypes
  <2> QED BY <1>1, <2>1
<1>5. Touches(t)
  BY <1>b, <1>1, <1>2, <1>4 DEF Touches, Mine
<1>6. Lists(t)
  BY <1>b, <1>1, <1>2, <1>4 DEF Lists
<1>7. MemoryOf(t)'
  BY <1>0, <1>1, <1>2 DEF MemoryOf
<1>8. CacheUsedExact'
  <2>1. t \in Charged' <=> t \in Charged
    BY <1>1, <1>2 DEF Charged
  <2>2. \A c : c \in InCache' <=> c \in InCache
    BY <1>1, <1>3, <1>4 DEF InCache
  <2> QED BY <1>0, <1>1, <2>1, <2>2, UsedStays
<1> QED
  BY <1>5, <1>6, <1>7, <1>8, MemoryStep

(* CreateBlock() takes a block that is not in the list.                    *)
LEMMA Memory_CreateBlock ==
    ASSUME MemInv, NEW t \in Threads, Others(t), NEW b \in Blocks,
           CreateBlock(t, b)
    PROVE  Memory'
<1>0. /\ CallTypes /\ BlockTypes /\ BandTypes /\ OwnInv /\ CallOf(t) /\ MemoryOf(t)
      /\ CacheUsedExact
  BY MemParts
<1>d. PICK d : d = BandOf(at[t])
  OBVIOUS
<1>1. /\ pc[t] = "create" /\ pc'[t] = "internalize" /\ poBlock'[t] = b
      /\ pData' = [pData EXCEPT ![b] = NoData]
      /\ bMustDetach' = [bMustDetach EXCEPT ![b] = TRUE]
      /\ IF psListBlocksToFree[d] # <<>>
         THEN b = Head(psListBlocksToFree[d]) ELSE key[b] = NoKey
      /\ UNCHANGED <<lru, nCacheUsed, op, toFree, poTarget, bFirstIter>>
  BY <1>0, <1>d DEF CreateBlock, CallTypes, Goto, cacheVars
<1>2. op[t] \in IoOps /\ d \in Bands
  <2>1. d \in Bands
    BY <1>0, <1>d, <1>1, AtIsKey DEF OwnerLabels, IoLabels
  <2> QED BY <1>0, <1>1, <2>1 DEF CallOf, OpOf, IoLabels
<1>3. b \notin ToSet(lru) /\ b \notin Claimed(t)
  BY <1>0, CreatedIsFree
<1>4. Mine(t, b)
  <2>1. CASE psListBlocksToFree[d] # <<>>
    <3>1. psListBlocksToFree[d] \in Seq(Blocks)
      BY <1>0, <1>2 DEF BandTypes
    <3>2. b \in FreeBlocks(d)
      BY <1>1, <2>1, <3>1, TailProperties DEF FreeBlocks
    <3> QED BY <1>2, <3>2 DEF Mine, Frees
  <2>2. CASE psListBlocksToFree[d] = <<>>
    BY <1>1, <2>2 DEF Mine
  <2> QED BY <2>1, <2>2
<1>5. /\ ~Fresh(t) /\ Fresh(t)' /\ Claimed(t)' = Claimed(t) /\ Flushing(t)' = {}
  BY <1>1, <1>2 DEF Fresh, Internalizing, EvictLabels, CriticalLabels, Claimed,
     Evicting, Flushing
<1>6. /\ pData'[b] = NoData
      /\ \A c : c # b => pData'[c] = pData[c] /\ bMustDetach'[c] = bMustDetach[c]
  BY <1>0, <1>1 DEF BlockTypes
<1>7. Touches(t)
  BY <1>1, <1>4, <1>6 DEF Touches
<1>8. Lists(t)
  BY <1>1, <1>3, <1>5, <1>6 DEF Lists
<1>9. MemoryOf(t)'
  BY <1>0, <1>1, <1>3, <1>5, <1>6 DEF MemoryOf
<1>10. CacheUsedExact'
  <2>1. bFirstIter'[t]
    BY <1>0, <1>1, <1>5 DEF MemoryOf
  <2>2. t \notin Charged /\ t \notin Charged'
    BY <1>1, <1>5, <2>1 DEF Charged, Fresh
  <2>3. \A c : c \in InCache' <=> c \in InCache
    BY <1>1, <1>3, <1>6 DEF InCache
  <2> QED BY <1>0, <1>1, <2>2, <2>3, UsedStays
<1> QED
  BY <1>7, <1>8, <1>9, <1>10, MemoryStep

(* The block that an evictor detaches leaves the count with the list.      *)
LEMMA Memory_Detach ==
    ASSUME MemInv, NEW t \in Threads, Others(t), Detach(t)
    PROVE  Memory'
<1>0. /\ CallTypes /\ ScanTypes /\ CacheTypes /\ BlockTypes /\ OwnInv /\ ScanOf(t)
      /\ MemoryOf(t) /\ CacheUsedExact
  BY MemParts
<1>b. PICK b : b = poTarget[t]
  OBVIOUS
<1>1. /\ pc[t] = "detach" /\ pc'[t] = "unreference"
      /\ lru' = Detached(lru, b) /\ toFree'[t] = Append(toFree[t], b)
      /\ bMustDetach' = [bMustDetach EXCEPT ![b] = FALSE]
      /\ nCacheUsed' = IF pData[b] # NoData THEN nCacheUsed - 1 ELSE nCacheUsed
      /\ UNCHANGED <<pData, op, poBlock, bFirstIter>>
  BY <1>0, <1>b DEF Detach, DetachUnlocked, CallTypes, ScanTypes, Goto, callVars
<1>2. b \in ToSet(lru) /\ b \in Claimed(t) /\ b \in Blocks /\ pData[b] # NoData
  <2>1. b \in ToSet(lru) /\ b \in Claimed(t)
    BY <1>0, <1>b, <1>1 DEF ScanOf, Claimed, Evicting
  <2> QED BY <1>0, <2>1, ClaimedAreBlocks DEF MemoryOf
<1>3. ToSet(lru') = ToSet(lru) \ {b}
  BY <1>0, <1>1, DetachedProperties DEF CacheTypes
<1>4. ToSet(toFree'[t]) = ToSet(toFree[t]) \cup {b}
  BY <1>0, <1>1, <1>2, AppendedProperties DEF ScanTypes
<1>5. /\ Fresh(t)' <=> Fresh(t)
      /\ HasLock(t)' <=> HasLock(t)
      /\ Internalizing(t)' <=> Internalizing(t)
      /\ Claimed(t)' = Claimed(t) /\ Flushing(t)' = {}
  <2>1. /\ Fresh(t)' <=> Fresh(t)
        /\ HasLock(t)' <=> HasLock(t)
        /\ Internalizing(t)' <=> Internalizing(t)
    BY <1>1 DEF Fresh, Internalizing, HasLock, EvictLabels, CriticalLabels
  <2> QED BY <1>b, <1>1, <1>4, <2>1 DEF Claimed, Evicting, Flushing
<1>6. Touches(t)
  BY <1>0, <1>1, <1>2, <1>3 DEF Touches, Mine, BlockTypes
<1>7. Lists(t)
  BY <1>1, <1>3, <1>5 DEF Lists
<1>8. MemoryOf(t)'
  BY <1>0, <1>1, <1>5 DEF MemoryOf
<1>9. CacheUsedExact'
  <2>1. InCache' = InCache \ {b} /\ b \in InCache
    BY <1>1, <1>2, <1>3 DEF InCache
  <2>2. Cardinality(InCache') = Cardinality(InCache) - 1
    BY <1>0, <2>1, CacheSets, FS_RemoveElement
  <2>3. Charged' = Charged
    <3>1. t \in Charged' <=> t \in Charged
      BY <1>1, <1>5 DEF Charged
    <3> QED BY <3>1, ChargedMoves
  <2>4. nCacheUsed' = nCacheUsed - 1
    BY <1>1, <1>2
  <2> QED BY <1>0, <2>2, <2>3, <2>4, CacheSets, CacheUsedIs DEF CacheTypes
<1> QED
  BY <1>6, <1>7, <1>8, <1>9, MemoryStep
(* A block with memory leaves the list, and the count.                     *)
LEMMA UsedDrops ==
    ASSUME OwnInv, CacheUsedExact, NEW t \in Threads, Others(t), NEW b,
           b \in InCache, InCache' = InCache \ {b}, nCacheUsed' = nCacheUsed - 1,
           t \in Charged' <=> t \in Charged
    PROVE  CacheUsedExact'
<1>1. Cardinality(InCache') = Cardinality(InCache) - 1
  BY CacheSets, FS_RemoveElement
<1>2. Charged' = Charged
  BY ChargedMoves
<1>3. nCacheUsed \in Int
  BY DEF OwnInv, ControlInv, Types, CacheTypes
<1> QED
  BY <1>1, <1>2, <1>3, CacheSets, CacheUsedIs

(* The memory of an evicted block is released after it left the list.      *)
LEMMA Memory_Release ==
    ASSUME MemInv, NEW t \in Threads, Others(t), Release(t)
    PROVE  Memory'
<1>0. /\ CallTypes /\ ScanTypes /\ BlockTypes /\ OwnInv /\ Exclusive /\ LocksExact
      /\ RoundInv /\ MemoryOf(t) /\ CacheUsedExact
  BY MemParts DEF ControlInv
<1>b. PICK b : b = Target(t)
  OBVIOUS
<1>1. /\ pc[t] = "release" /\ pc'[t] = "keepAlive"
      /\ pData' = [pData EXCEPT ![b] = NoData]
      /\ toFree'[t] = Tail(toFree[t])
      /\ UNCHANGED <<lru, nCacheUsed, bMustDetach, op, poBlock, bFirstIter>>
  BY <1>0, <1>b DEF Release, CallTypes, ScanTypes, Goto, cacheVars, callVars
<1>2. toFree[t] # <<>> /\ toFree[t] \in Seq(Blocks)
  BY <1>0, <1>1 DEF RoundInv, RoundOf, Releasing, ScanTypes
<1>3. b \in Blocks /\ b \in ToSet(toFree[t]) /\ b \in Claimed(t) /\ b \notin ToSet(lru)
  <2>1. b \in Blocks /\ b \in ToSet(toFree[t])
    BY <1>0, <1>b, <1>2, TargetIsBlock DEF OwnInv
  <2> QED BY <1>0, <2>1, ClaimedAreBlocks DEF Exclusive
<1>4. ToSet(toFree'[t]) = ToSet(toFree[t]) \ {b}
  <2>1. NoDuplicates(toFree[t])
    BY <1>0 DEF Exclusive
  <2> QED BY <1>b, <1>1, <1>2, <2>1, TailProperties DEF Target
<1>5. /\ Fresh(t)' <=> Fresh(t)
      /\ HasLock(t)' => Fresh(t)'
      /\ Internalizing(t)' <=> Internalizing(t)
      /\ Claimed(t)' = Claimed(t) \ {b} /\ Flushing(t)' = {}
  <2>1. /\ Fresh(t)' <=> Fresh(t)
        /\ HasLock(t)' => Fresh(t)'
        /\ Internalizing(t)' <=> Internalizing(t)
    BY <1>1 DEF Fresh, Internalizing, HasLock, EvictLabels, CriticalLabels
  <2> QED BY <1>1, <1>4, <2>1 DEF Claimed, Evicting, Flushing
<1>6. pData'[b] = NoData /\ \A c : c # b => pData'[c] = pData[c]
  BY <1>0, <1>1, <1>3 DEF BlockTypes
<1>7. Touches(t) /\ Lists(t)
  <2>1. Touches(t)
    BY <1>1, <1>3, <1>6 DEF Touches, Mine
  <2> QED BY <1>1, <1>3, <1>5, <1>6, <2>1 DEF Lists
<1>8. MemoryOf(t)'
  <2>1. Fresh(t)' => pData'[poBlock'[t]] = NoData
    BY <1>0, <1>1, <1>5, <1>6 DEF MemoryOf
  <2> QED BY <1>0, <1>1, <1>5, <1>6, <2>1 DEF MemoryOf
<1>9. CacheUsedExact'
  <2>1. t \in Charged' <=> t \in Charged
    BY <1>1, <1>5 DEF Charged
  <2>2. \A c : c \in InCache' <=> c \in InCache
    BY <1>1, <1>3, <1>6 DEF InCache
  <2> QED BY <1>0, <1>1, <2>1, <2>2, UsedStays
<1> QED
  BY <1>7, <1>8, <1>9, MemoryStep

(* The memory of a new block was charged in advance.                       *)
LEMMA Memory_Allocate ==
    ASSUME MemInv, AllocationsSucceed, NEW t \in Threads, Others(t),
           NEW ok \in BOOLEAN, Allocate(t, ok)
    PROVE  Memory'
<1>0. /\ CallTypes /\ ScanTypes /\ BlockTypes /\ CacheTypes /\ OwnInv /\ LocksExact
      /\ MemoryOf(t) /\ CacheUsedExact
  BY MemParts
<1>b. PICK b : b = poBlock[t]
  OBVIOUS
<1>1. /\ pc[t] = "allocate" /\ pc'[t] = "reacquire"
      /\ pData' = [pData EXCEPT ![b] = 0]
      /\ bFirstIter'[t] = TRUE
      /\ UNCHANGED <<lru, nCacheUsed, bMustDetach, op, poBlock, poTarget, toFree>>
  <2>1. ok = TRUE
    BY DEF Allocate, AllocationsSucceed
  <2> QED BY <1>0, <1>b, <2>1 DEF Allocate, CallTypes, ScanTypes, Goto, cacheVars,
             callVars
<1>2. /\ HasLock(t) /\ ~NotYet(t) /\ Fresh(t) /\ ~Fresh(t)'
      /\ Claimed(t)' = Claimed(t) /\ Flushing(t)' = {}
  BY <1>1 DEF Fresh, Internalizing, HasLock, EvictLabels, CriticalLabels, NotYet,
     RoundEnd, Claimed, Evicting, Flushing
<1>3. b \in Blocks /\ b \in ToSet(lru) /\ b \notin Claimed(t)
  BY <1>0, <1>b, <1>2, UserIsOwner DEF LocksExact, Out
<1>4. /\ pData[b] = NoData /\ pData'[b] # NoData
      /\ \A c : c # b => pData'[c] = pData[c]
  BY <1>0, <1>b, <1>1, <1>2, <1>3 DEF BlockTypes, MemoryOf, NoData
<1>5. Touches(t)
  BY <1>b, <1>1, <1>2, <1>4 DEF Touches, Mine
<1>6. Lists(t)
  BY <1>b, <1>1, <1>4 DEF Lists
<1>7. MemoryOf(t)'
  BY <1>0, <1>b, <1>1, <1>2, <1>3, <1>4 DEF MemoryOf
<1>8. CacheUsedExact'
  <2>1. InCache' = InCache \cup {b} /\ b \notin InCache
    BY <1>1, <1>3, <1>4 DEF InCache
  <2>2. Cardinality(InCache') = Cardinality(InCache) + 1
    BY <1>0, <2>1, CacheSets, FS_AddElement
  <2>3. Charged' = Charged \ {t} /\ t \in Charged
    <3>1. t \notin Charged' /\ t \in Charged
      BY <1>1, <1>2 DEF Charged, Fresh
    <3> QED BY <3>1, ChargedMoves
  <2>4. Cardinality(Charged') = Cardinality(Charged) - 1
    BY <1>0, <2>3, CacheSets, FS_RemoveElement
  <2> QED BY <1>0, <1>1, <2>2, <2>4, CacheSets, CacheUsedIs DEF CacheTypes
<1> QED
  BY <1>5, <1>6, <1>7, <1>8, MemoryStep

(* FreeDanglingBlocks() frees blocks that are not in the list.             *)
LEMMA FreedMemory ==
    ASSUME MemInv, NEW t \in Threads, Others(t), NEW d \in Bands,
           FreeDanglingBlocks(d), UNCHANGED <<lru, nCacheUsed>>,
           bFirstIter'[t] = bFirstIter[t], ~Fresh(t), ~Fresh(t)',
           HasLock(t)' => HasLock(t) /\ poBlock'[t] = poBlock[t],
           Claimed(t)' = Claimed(t), Flushing(t)' = {}
    PROVE  Memory'
<1>0. /\ BandTypes /\ BlockTypes /\ OwnInv /\ Exclusive /\ LocksExact
      /\ MemoryOf(t) /\ CacheUsedExact
  BY MemParts
<1>1. /\ \A c \in Blocks : c \notin FreeBlocks(d) => pData'[c] = pData[c]
      /\ UNCHANGED bMustDetach
  BY DEF FreeDanglingBlocks, Deleted, FreeBlocks
<1>2. \A c \in FreeBlocks(d) : c \notin ToSet(lru) /\ c \notin Claimed(t) /\ Out(c)
  BY <1>0 DEF Exclusive, Out, Frees
<1>3. Touches(t)
  BY <1>1 DEF Touches, Mine, Frees
<1>4. \A c \in ToSet(lru) \cup Claimed(t) : pData'[c] = pData[c]
  BY <1>0, <1>1, <1>2, ClaimedAreBlocks
<1>5. Lists(t)
  BY <1>4 DEF Lists
<1>6. HasLock(t) => pData'[poBlock[t]] = pData[poBlock[t]]
  BY <1>0, <1>1, <1>2, UserIsOwner DEF LocksExact
<1>7. MemoryOf(t)'
  BY <1>0, <1>4, <1>6 DEF MemoryOf
<1>8. CacheUsedExact'
  <2>1. t \notin Charged /\ t \notin Charged'
    BY DEF Charged, Fresh
  <2>2. \A c : c \in InCache' <=> c \in InCache
    BY <1>4 DEF InCache
  <2> QED BY <1>0, <2>1, <2>2, UsedStays
<1> QED
  BY <1>3, <1>5, <1>7, <1>8, MemoryStep

(* AdoptBlock(), FlushCache() and ~GDALRasterBand() free dangling blocks.  *)
LEMMA Memory_AdoptBlock ==
    ASSUME MemInv, NEW t \in Threads, Others(t), NEW ok \in BOOLEAN,
           AdoptBlock(t, ok)
    PROVE  Memory'
<1>0. CallTypes /\ CallOf(t)
  BY MemParts
<1>1. /\ pc[t] = "adopt" /\ pc'[t] \in {"discard", "readRW", "locked"}
      /\ FreeDanglingBlocks(BandOf(at[t]))
      /\ UNCHANGED <<lru, nCacheUsed, op, poBlock, poTarget, toFree, bFirstIter>>
  BY <1>0 DEF AdoptBlock, CallTypes, Goto, cacheVars, callVars, scanVars
<1>2. BandOf(at[t]) \in Bands
  BY <1>0, <1>1, AtIsKey DEF OwnerLabels, IoLabels
<1>3. /\ ~Fresh(t) /\ ~Fresh(t)' /\ HasLock(t)
      /\ Claimed(t)' = Claimed(t) /\ Flushing(t)' = {}
  BY <1>1 DEF Fresh, Internalizing, HasLock, EvictLabels, CriticalLabels,
     Claimed, Evicting, Flushing
<1> QED
  BY <1>1, <1>2, <1>3, FreedMemory

(* FlushCache() and ~GDALRasterBand() delete the dangling blocks of the    *)
(* band, which are not in the list.                                        *)
LEMMA Memory_FlushStorage ==
    ASSUME MemInv, NEW t \in Threads, Others(t), FlushStorage(t) \/ Destroy(t)
    PROVE  Memory'
<1>0. CallTypes /\ CallOf(t)
  BY MemParts
<1>1. /\ pc[t] \in {"flushStorage", "destroy"}
      /\ pc'[t] \in {"flushNext", "flushed", "flushCache"}
      /\ FreeDanglingBlocks(BandOf(at[t]))
      /\ UNCHANGED <<lru, nCacheUsed, op, poBlock, poTarget, toFree, bFirstIter>>
  BY <1>0 DEF FlushStorage, Destroy, CallTypes, Goto, cacheVars, callVars, scanVars
<1>2. BandOf(at[t]) \in Bands
  BY <1>0, <1>1, AtIsKey DEF OwnerLabels
<1>3. /\ ~Fresh(t) /\ ~Fresh(t)' /\ ~HasLock(t)'
      /\ Claimed(t)' = Claimed(t) /\ Flushing(t)' = {}
  BY <1>1 DEF Fresh, Internalizing, HasLock, EvictLabels, CriticalLabels,
     Claimed, Evicting, Flushing
<1> QED
  BY <1>1, <1>2, <1>3, FreedMemory

(* The user of a block writes pixels in the memory that it has.            *)
LEMMA PixelStep ==
    ASSUME MemInv, NEW t \in Threads, Others(t), NEW v, v # NoData,
           HasLock(t), ~Fresh(t), ~Fresh(t)', poBlock'[t] = poBlock[t],
           pData' = [pData EXCEPT ![poBlock[t]] = v],
           UNCHANGED <<lru, nCacheUsed, bMustDetach>>,
           bFirstIter'[t] = bFirstIter[t],
           Claimed(t)' = Claimed(t), Flushing(t)' = {}
    PROVE  Memory'
<1>0. BlockTypes /\ OwnInv /\ MemoryOf(t) /\ CacheUsedExact
  BY MemParts
<1>1. poBlock[t] \in Blocks
  BY <1>0, UserIsOwner
<1>2. /\ pData'[poBlock[t]] # NoData /\ pData[poBlock[t]] # NoData
      /\ \A c : c # poBlock[t] => pData'[c] = pData[c]
  BY <1>0, <1>1 DEF BlockTypes, MemoryOf
<1>3. Touches(t)
  BY <1>2 DEF Touches, Mine
<1>4. Lists(t)
  BY <1>2 DEF Lists
<1>5. MemoryOf(t)'
  BY <1>0, <1>2 DEF MemoryOf
<1>6. CacheUsedExact'
  <2>1. t \notin Charged /\ t \notin Charged'
    BY DEF Charged, Fresh
  <2>2. \A c : c \in InCache' <=> c \in InCache
    BY <1>2 DEF InCache
  <2> QED BY <1>0, <2>1, <2>2, UsedStays
<1> QED
  BY <1>3, <1>4, <1>5, <1>6, MemoryStep
(* IReadBlock() fills a block, WriteLocked() writes in it.                 *)
LEMMA Memory_ReadBlock ==
    ASSUME MemInv, NEW t \in Threads, Others(t), NEW ok \in BOOLEAN,
           ReadBlock(t, ok)
    PROVE  Memory'
<1>0. CallTypes /\ CallOf(t) /\ Pixels
  BY MemParts
<1>1. /\ pc[t] = "readRW" /\ pc'[t] = IF ok THEN "locked" ELSE "flushBlock"
      /\ pData' = IF ok THEN [pData EXCEPT ![poBlock[t]] = disk[at[t]]] ELSE pData
      /\ UNCHANGED <<lru, nCacheUsed, bMustDetach, op, poBlock, poTarget, toFree,
                     bFirstIter>>
  BY <1>0 DEF ReadBlock, CallTypes, Goto, cacheVars, callVars, scanVars
<1>2. disk[at[t]] # NoData
  <2>1. at[t] \in Keys
    BY <1>0, <1>1, AtIsKey DEF OwnerLabels, IoLabels
  <2>2. disk[at[t]] \in Values
    BY <1>0, <2>1 DEF Pixels
  <2> QED BY <2>2, BoundsAssumption DEF Values, NoData
<1>3. /\ ~Fresh(t) /\ ~Fresh(t)' /\ HasLock(t)
      /\ HasLock(t)' => ok
      /\ Claimed(t)' = Claimed(t) /\ Flushing(t)' = {}
  BY <1>1 DEF Fresh, Internalizing, HasLock, EvictLabels, CriticalLabels,
     Claimed, Evicting, Flushing
<1>4. CASE ok
  BY <1>1, <1>2, <1>3, <1>4, PixelStep
<1>5. CASE ~ok
  <2>1. Dull(t)
    BY <1>1, <1>3, <1>5 DEF Dull
  <2> QED BY <2>1, DullStep
<1> QED
  BY <1>4, <1>5

(* The owner writes to a block that has memory.                            *)
LEMMA Memory_WriteLocked ==
    ASSUME MemInv, NEW t \in Threads, Others(t), WriteLocked(t)
    PROVE  Memory'
<1>0. CallTypes /\ CallOf(t) /\ Pixels
  BY MemParts
<1>v. PICK v : v = (last[at[t]] + 1) % NValues
  OBVIOUS
<1>1. /\ pc[t] = "locked" /\ pc'[t] = "drop"
      /\ pData' = [pData EXCEPT ![poBlock[t]] = v]
      /\ UNCHANGED <<lru, nCacheUsed, bMustDetach, op, poBlock, poTarget, toFree,
                     bFirstIter>>
  BY <1>0, <1>v DEF WriteLocked, CallTypes, Goto, cacheVars, callVars, scanVars
<1>2. v # NoData
  <2>1. at[t] \in Keys
    BY <1>0, <1>1, AtIsKey DEF OwnerLabels, IoLabels
  <2>2. v \in Values
    BY <1>0, <1>v, <2>1, PixelTypes DEF Pixels
  <2> QED BY <2>2, BoundsAssumption DEF Values, NoData
<1>3. /\ ~Fresh(t) /\ ~Fresh(t)' /\ HasLock(t)
      /\ Claimed(t)' = Claimed(t) /\ Flushing(t)' = {}
  BY <1>1 DEF Fresh, Internalizing, HasLock, EvictLabels, CriticalLabels,
     Claimed, Evicting, Flushing
<1> QED
  BY <1>1, <1>2, <1>3, PixelStep

(* The list and the count without the block that a thread flushes.         *)
LEMMA FlushedBlock ==
    ASSUME MemInv, NEW t \in Threads, pc[t] \in {"flushDetach", "delete"},
           NEW b, b = poBlock[t]
    PROVE  /\ b \in Blocks /\ b \in Claimed(t) /\ pData[b] # NoData
           /\ bMustDetach[b] => b \in ToSet(lru)
           /\ b \in ToSet(lru) => bMustDetach[b]
           /\ ToSet(Detached(lru, b)) = ToSet(lru) \ {b}
<1>0. OwnInv /\ StoreInv /\ CacheTypes /\ MemoryOf(t)
  BY MemParts
<1>1. b \in Flushing(t) /\ b \in Claimed(t)
  BY DEF Flushing, Claimed
<1>2. b \in Blocks
  BY <1>0, <1>1, ClaimedAreBlocks
<1>3. ToSet(Detached(lru, b)) = ToSet(lru) \ {b}
  BY <1>0, DetachedProperties DEF CacheTypes
<1> QED
  BY <1>0, <1>1, <1>2, <1>3 DEF MemoryOf, StoreInv

(* Detach() of a block that its owner flushes.                             *)
LEMMA Memory_FlushDetach ==
    ASSUME MemInv, NEW t \in Threads, Others(t), FlushDetach(t)
    PROVE  Memory'
<1>0. CallTypes /\ CacheTypes /\ BlockTypes /\ OwnInv /\ MemoryOf(t) /\ CacheUsedExact
  BY MemParts
<1>b. PICK b : b = poBlock[t]
  OBVIOUS
<1>1. /\ pc[t] = "flushDetach" /\ pc'[t] = "flushWrite"
      /\ IF bMustDetach[b]
         THEN /\ lru' = Detached(lru, b)
              /\ nCacheUsed' = IF pData[b] # NoData THEN nCacheUsed - 1 ELSE nCacheUsed
              /\ bMustDetach' = [bMustDetach EXCEPT ![b] = FALSE]
         ELSE UNCHANGED <<lru, nCacheUsed, bMustDetach>>
      /\ UNCHANGED <<pData, op, poBlock, poTarget, toFree, bFirstIter>>
  BY <1>0, <1>b DEF FlushDetach, DetachUnlocked, CallTypes, Goto, callVars, scanVars
<1>2. /\ b \in Blocks /\ b \in Claimed(t) /\ pData[b] # NoData
      /\ bMustDetach[b] => b \in ToSet(lru)
      /\ b \in ToSet(lru) => bMustDetach[b]
      /\ ToSet(Detached(lru, b)) = ToSet(lru) \ {b}
  BY <1>b, <1>1, FlushedBlock
<1>3. /\ ToSet(lru') = ToSet(lru) \ {b} /\ ~bMustDetach'[b]
      /\ \A c \in Blocks : c # b => bMustDetach'[c] = bMustDetach[c]
  <2>1. ToSet(lru') = ToSet(lru) \ {b}
    BY <1>1, <1>2
  <2> QED BY <1>0, <1>1, <1>2, <2>1 DEF BlockTypes
<1>4. /\ ~Fresh(t) /\ ~Fresh(t)' /\ ~HasLock(t)'
      /\ Claimed(t)' = Claimed(t) /\ Flushing(t)' = {b}
  BY <1>b, <1>1 DEF Fresh, Internalizing, HasLock, EvictLabels, CriticalLabels,
     Claimed, Evicting, Flushing
<1>5. Touches(t) /\ Lists(t)
  BY <1>1, <1>2, <1>3, <1>4 DEF Touches, Lists, Mine
<1>6. MemoryOf(t)'
  BY <1>0, <1>1, <1>3, <1>4 DEF MemoryOf
<1>7. CacheUsedExact'
  <2>1. t \notin Charged /\ t \notin Charged'
    BY <1>4 DEF Charged, Fresh
  <2>2. InCache' = InCache \ {b} /\ (bMustDetach[b] <=> b \in InCache)
    BY <1>1, <1>2, <1>3 DEF InCache
  <2>3. CASE bMustDetach[b]
    <3>1. nCacheUsed' = nCacheUsed - 1
      BY <1>1, <1>2, <2>3
    <3> QED BY <1>0, <2>1, <2>2, <2>3, <3>1, UsedDrops
  <2>4. CASE ~bMustDetach[b]
    <3>1. UNCHANGED nCacheUsed /\ \A c : c \in InCache' <=> c \in InCache
      BY <1>1, <2>2, <2>4
    <3> QED BY <1>0, <2>1, <3>1, UsedStays
  <2> QED BY <2>3, <2>4
<1> QED
  BY <1>5, <1>6, <1>7, MemoryStep

(* The destructor detaches a block that is still in the list.              *)
LEMMA Memory_Delete ==
    ASSUME MemInv, NEW t \in Threads, Others(t), Delete(t)
    PROVE  Memory'
<1>0. /\ CallTypes /\ CacheTypes /\ BlockTypes /\ OwnInv /\ KeysOf(t) /\ RoundInv
      /\ MemoryOf(t) /\ CacheUsedExact
  BY MemParts DEF ControlInv
<1>b. PICK b : b = poBlock[t]
  OBVIOUS
<1>1. /\ pc[t] = "delete" /\ pc'[t] \in {"flushNext", "failed", "flushed"}
      /\ IF bMustDetach[b]
         THEN /\ lru' = Detached(lru, b)
              /\ nCacheUsed' = IF pData[b] # NoData THEN nCacheUsed - 1 ELSE nCacheUsed
              /\ bMustDetach' = [bMustDetach EXCEPT ![b] = FALSE]
         ELSE UNCHANGED <<lru, nCacheUsed, bMustDetach>>
      /\ pData' = [c \in Blocks |-> IF c \in {b} THEN NoData ELSE pData[c]]
      /\ UNCHANGED <<op, toFree, bFirstIter>>
  <2>1. pc[t] = "delete"
    BY <1>0 DEF Delete, KeysOf
  <2> QED BY <1>0, <1>b, <2>1 DEF Delete, DetachUnlocked, Deleted,
             AfterFlushBlock, CallTypes, Goto, scanVars
<1>2. /\ b \in Blocks /\ b \in Claimed(t) /\ pData[b] # NoData
      /\ bMustDetach[b] => b \in ToSet(lru)
      /\ b \in ToSet(lru) => bMustDetach[b]
      /\ ToSet(Detached(lru, b)) = ToSet(lru) \ {b}
  BY <1>b, <1>1, FlushedBlock
<1>3. /\ ToSet(lru') = ToSet(lru) \ {b}
      /\ \A c \in Blocks : c # b => bMustDetach'[c] = bMustDetach[c]
      /\ \A c \in Blocks : c # b => pData'[c] = pData[c]
  <2>1. ToSet(lru') = ToSet(lru) \ {b}
    BY <1>1, <1>2
  <2>2. \A c \in Blocks : c # b => bMustDetach'[c] = bMustDetach[c]
    BY <1>0, <1>1 DEF BlockTypes
  <2> QED BY <1>1, <2>1, <2>2
<1>4. /\ ~Fresh(t) /\ ~Fresh(t)' /\ ~HasLock(t)'
      /\ Claimed(t)' = {} /\ Flushing(t)' = {}
  <2>1. toFree[t] = << >> /\ ToSet(<< >>) = {}
    BY <1>0, <1>1 DEF RoundInv, RoundOf, RoundLabels, ToSet
  <2> QED BY <1>1, <2>1 DEF Fresh, Internalizing, HasLock, EvictLabels,
             CriticalLabels, Claimed, Evicting, Flushing
<1>5. \A c \in ToSet(lru') : c \in Blocks /\ c \in ToSet(lru) /\ pData'[c] = pData[c]
  BY <1>0, <1>3, ClaimedAreBlocks
<1>6. Touches(t)
  BY <1>2, <1>3 DEF Touches, Mine
<1>7. Lists(t)
  BY <1>4, <1>5 DEF Lists
<1>8. MemoryOf(t)'
  BY <1>0, <1>1, <1>4 DEF MemoryOf
<1>9. CacheUsedExact'
  <2>1. t \notin Charged /\ t \notin Charged'
    BY <1>4 DEF Charged, Fresh
  <2>2. InCache' = InCache \ {b} /\ (bMustDetach[b] <=> b \in InCache)
    BY <1>2, <1>3, <1>5 DEF InCache
  <2>3. CASE bMustDetach[b]
    <3>1. nCacheUsed' = nCacheUsed - 1
      BY <1>1, <1>2, <2>3
    <3> QED BY <1>0, <2>1, <2>2, <2>3, <3>1, UsedDrops
  <2>4. CASE ~bMustDetach[b]
    <3>1. UNCHANGED nCacheUsed /\ \A c : c \in InCache' <=> c \in InCache
      BY <1>1, <2>2, <2>4
    <3> QED BY <1>0, <2>1, <3>1, UsedStays
  <2> QED BY <2>3, <2>4
<1> QED
  BY <1>6, <1>7, <1>8, <1>9, MemoryStep
-----------------------------------------------------------------------------
(* A block that a thread has claimed is written with its pixels.           *)
LEMMA ClaimedPixels ==
    ASSUME MemInv, NEW t \in Threads, NEW b \in Claimed(t)
    PROVE  b \in Blocks /\ key[b] \in Keys /\ pData[b] \in Values
<1>0. OwnInv /\ BlockTypes /\ MemoryOf(t)
  BY MemParts
<1>1. b \in Blocks /\ key[b] \in Keys
  BY <1>0, ClaimedAreBlocks
<1>2. pData[b] # NoData
  BY <1>0 DEF MemoryOf
<1> QED
  BY <1>0, <1>1, <1>2 DEF BlockTypes

(* The block that an evictor writes and releases is one it has claimed.    *)
LEMMA TargetIsClaimed ==
    ASSUME OwnInv, NEW t \in Threads, pc[t] \in {"write", "release"}
    PROVE  Target(t) \in Claimed(t)
<1>0. ControlInv /\ RoundInv
  BY DEF OwnInv, ControlInv
<1>1. toFree[t] # << >>
  BY <1>0 DEF RoundInv, RoundOf, Releasing
<1> QED
  BY <1>0, <1>1, TargetIsBlock, ClaimedAreBlocks

(* Write() of an evicted block: it has memory, so that pixels reach the    *)
(* disk.                                                                   *)
LEMMA Pixels_WriteEvicted ==
    ASSUME MemInv, NEW t \in Threads, NEW ok \in BOOLEAN, WriteEvicted(t, ok)
    PROVE  Pixels'
<1>0. Pixels
  BY MemParts
<1>b. PICK b : b = Target(t)
  OBVIOUS
<1>1. /\ disk' = IF ok THEN [disk EXCEPT ![key[b]] = pData[b]] ELSE disk
      /\ UNCHANGED <<last, keptBand>> /\ pc[t] = "write"
  BY <1>b DEF WriteEvicted, scanVars
<1>2. key[b] \in Keys /\ pData[b] \in Values
  BY <1>b, <1>1, MemParts, TargetIsClaimed, ClaimedPixels
<1> QED
  BY <1>0, <1>1, <1>2 DEF Pixels

(* Write() of a flushed block, which has memory too.                       *)
LEMMA Pixels_FlushIO ==
    ASSUME MemInv, NEW t \in Threads, NEW ok \in BOOLEAN, FlushIO(t, ok)
    PROVE  Pixels'
<1>0. Pixels
  BY MemParts
<1>b. PICK b : b = poBlock[t]
  OBVIOUS
<1>1. /\ disk' = IF ok THEN [disk EXCEPT ![key[b]] = pData[b]] ELSE disk
      /\ UNCHANGED <<last, keptBand>> /\ pc[t] = "flushIO"
  BY <1>b DEF FlushIO, scanVars
<1>2. key[b] \in Keys /\ pData[b] \in Values
  BY <1>b, <1>1, ClaimedPixels DEF Claimed, Flushing
<1> QED
  BY <1>0, <1>1, <1>2 DEF Pixels

(* The pixels that the owner writes into a block.                          *)
LEMMA Pixels_WriteLocked ==
    ASSUME MemInv, NEW t \in Threads, WriteLocked(t)
    PROVE  Pixels'
<1>0. Pixels /\ CallOf(t)
  BY MemParts
<1>1. /\ last' = [last EXCEPT ![at[t]] = (last[at[t]] + 1) % NValues]
      /\ UNCHANGED <<disk, keptBand>> /\ pc[t] = "locked"
  BY DEF WriteLocked, scanVars
<1>2. at[t] \in Keys
  BY <1>0, <1>1, AtIsKey DEF OwnerLabels, IoLabels
<1>3. (last[at[t]] + 1) % NValues \in Values
  BY <1>0, <1>2, PixelTypes DEF Pixels
<1> QED
  BY <1>0, <1>1, <1>2, <1>3 DEF Pixels

(* DropCache() forgets the pixels of a band that were not written.         *)
LEMMA Pixels_FlushEnds ==
    ASSUME MemInv, NEW t \in Threads, FlushEnds(t)
    PROVE  Pixels'
<1>0. Pixels
  BY MemParts
<1>1. /\ \/ UNCHANGED last
         \/ last' = [k \in Keys |-> IF BandOf(k) = BandOf(at[t])
                                    THEN disk[k] ELSE last[k]]
      /\ UNCHANGED <<disk, keptBand>>
  BY DEF FlushEnds, scanVars
<1> QED
  BY <1>0, <1>1 DEF Pixels

(* AddBlockToFreeList() keeps the band of the block, which exists.         *)
LEMMA Pixels_Release ==
    ASSUME MemInv, NEW t \in Threads, Release(t)
    PROVE  Pixels'
<1>0. Pixels
  BY MemParts
<1>b. PICK b : b = Target(t)
  OBVIOUS
<1>1. /\ keptBand' = [keptBand EXCEPT ![t] = BandOf(key[b])]
      /\ UNCHANGED <<disk, last>> /\ pc[t] = "release"
  BY <1>b DEF Release, dataVars
<1>2. BandOf(key[b]) \in Bands
  BY <1>b, <1>1, MemParts, TargetIsClaimed, ClaimedPixels, KeyParts
<1> QED
  BY <1>0, <1>1, <1>2 DEF Pixels

(* The evictor lets the band go.                                           *)
LEMMA Pixels_KeepAliveDec ==
    ASSUME MemInv, NEW t \in Threads, KeepAliveDec(t)
    PROVE  Pixels'
<1>0. Pixels
  BY MemParts
<1>1. keptBand' = [keptBand EXCEPT ![t] = 0] /\ UNCHANGED <<disk, last>>
  BY DEF KeepAliveDec, dataVars
<1> QED
  BY <1>0, <1>1 DEF Pixels

-----------------------------------------------------------------------------
(* The calls.                                                              *)
LEMMA Memory_Start ==
    ASSUME MemInv, NEW t \in Threads, Start(t)
    PROVE  Memory' /\ Pixels'
<1>0. /\ CallTypes /\ ScanTypes /\ CallOf(t) /\ KeysOf(t) /\ Pixels
      /\ Others(t)
  BY MemParts, Others_Start
<1>d. ASSUME Dull(t) PROVE Memory'
  BY <1>0, <1>d, DullStep
<1>p. ASSUME UNCHANGED <<disk, last, keptBand>> PROVE Pixels'
  BY <1>0, <1>p DEF Pixels
<1> USE DEF Goto, callVars, scanVars, blockVars, cacheVars, CallTypes, ScanTypes
<1>1. ASSUME NEW o \in Ops, NEW k \in Keys, StartIO(t, o, k) PROVE Memory' /\ Pixels'
  <2>1. Memory'
    <3>1. Dull(t)
      BY <1>0, <1>1 DEF StartIO, Dull, Fresh, HasLock, Internalizing,
         EvictLabels, CriticalLabels, CallOf, OpOf, IoOps, ReadOps, WriteOps,
         GlobalOps, FlushOps, IoLabels, GlobalLabels, RoundEnd, Claimed,
         Evicting, Flushing
    <3> QED BY <1>d, <3>1
  <2>2. Pixels'
    BY <1>p, <1>1 DEF StartIO, dataVars
  <2> QED BY <2>1, <2>2
<1>2. ASSUME NEW o \in Ops, NEW k \in Keys, StartFlush(t, o, k) PROVE Memory' /\ Pixels'
  <2>1. Memory'
    <3>1. Dull(t)
      BY <1>0, <1>2 DEF StartFlush, Dull, Fresh, HasLock, Internalizing,
         EvictLabels, CriticalLabels, CallOf, OpOf, IoOps, ReadOps, WriteOps,
         GlobalOps, FlushOps, IoLabels, GlobalLabels, RoundEnd, Claimed,
         Evicting, Flushing
    <3> QED BY <1>d, <3>1
  <2>2. Pixels'
    BY <1>p, <1>2 DEF StartFlush, dataVars
  <2> QED BY <2>1, <2>2
<1>3. ASSUME NEW o \in Ops, StartGlobal(t, o) PROVE Memory' /\ Pixels'
  <2>1. Memory'
    <3>1. Dull(t)
      BY <1>0, <1>3 DEF StartGlobal, Dull, Fresh, HasLock, Internalizing,
         EvictLabels, CriticalLabels, CallOf, OpOf, IoOps, ReadOps, WriteOps,
         GlobalOps, FlushOps, IoLabels, GlobalLabels, RoundEnd, Claimed,
         Evicting, Flushing
    <3> QED BY <1>d, <3>1
  <2>2. Pixels'
    BY <1>p, <1>3 DEF StartGlobal, dataVars
  <2> QED BY <2>1, <2>2
<1>4. ASSUME NEW ds \in Datasets, Reopen(t, ds) PROVE Memory' /\ Pixels'
  <2>1. Memory'
    <3>1. Dull(t)
      BY <1>0, <1>4 DEF Reopen, Dull, Fresh, HasLock, Internalizing,
         EvictLabels, CriticalLabels, CallOf, OpOf, IoOps, ReadOps, WriteOps,
         GlobalOps, FlushOps, IoLabels, GlobalLabels, RoundEnd, Claimed,
         Evicting, Flushing
    <3> QED BY <1>d, <3>1
  <2>2. Pixels'
    BY <1>p, <1>4 DEF Reopen, dataVars
  <2> QED BY <2>1, <2>2
<1>5. CASE EnterDisableDirtyBlockFlush(t)
  <2>1. Memory'
    <3>1. Dull(t)
      BY <1>0, <1>5 DEF EnterDisableDirtyBlockFlush, Dull, Fresh, HasLock,
         Internalizing, EvictLabels, CriticalLabels, CallOf, OpOf, IoOps,
         ReadOps, WriteOps, GlobalOps, FlushOps, IoLabels, GlobalLabels,
         RoundEnd, Claimed, Evicting, Flushing
    <3> QED BY <1>d, <3>1
  <2>2. Pixels'
    BY <1>p, <1>5 DEF EnterDisableDirtyBlockFlush, dataVars
  <2> QED BY <2>1, <2>2
<1>6. CASE LeaveDisableDirtyBlockFlush(t)
  <2>1. Memory'
    <3>1. Dull(t)
      BY <1>0, <1>6 DEF LeaveDisableDirtyBlockFlush, Dull, Fresh, HasLock,
         Internalizing, EvictLabels, CriticalLabels, CallOf, OpOf, IoOps,
         ReadOps, WriteOps, GlobalOps, FlushOps, IoLabels, GlobalLabels,
         RoundEnd, Claimed, Evicting, Flushing
    <3> QED BY <1>d, <3>1
  <2>2. Pixels'
    BY <1>p, <1>6 DEF LeaveDisableDirtyBlockFlush, dataVars
  <2> QED BY <2>1, <2>2
<1> QED
  BY <1>1, <1>2, <1>3, <1>4, <1>5, <1>6 DEF Start

(* GetLockedBlockRef() and its callers.                                    *)
LEMMA Memory_Io ==
    ASSUME MemInv, AllocationsSucceed, NEW t \in Threads, IoStep(t)
    PROVE  Memory' /\ Pixels'
<1>0. /\ CallTypes /\ ScanTypes /\ CallOf(t) /\ KeysOf(t) /\ Pixels
      /\ Others(t)
  BY MemParts, Others_Io
<1>d. ASSUME Dull(t) PROVE Memory'
  BY <1>0, <1>d, DullStep
<1>p. ASSUME UNCHANGED <<disk, last, keptBand>> PROVE Pixels'
  BY <1>0, <1>p DEF Pixels
<1> USE DEF Goto, callVars, scanVars, blockVars, cacheVars, CallTypes, ScanTypes
<1>1. CASE WaitPendingTasks(t)
  <2>1. Memory'
    <3>1. Dull(t)
      BY <1>0, <1>1 DEF WaitPendingTasks, Dull, Fresh, HasLock, Internalizing,
         EvictLabels, CriticalLabels, CallOf, OpOf, IoOps, ReadOps, WriteOps,
         GlobalOps, FlushOps, IoLabels, GlobalLabels, RoundEnd, Claimed,
         Evicting, Flushing
    <3> QED BY <1>d, <3>1
  <2>2. Pixels'
    BY <1>p, <1>1 DEF WaitPendingTasks, dataVars
  <2> QED BY <2>1, <2>2
<1>2. CASE EnterReadWrite(t)
  <2>1. Memory'
    <3>1. Dull(t)
      BY <1>0, <1>2 DEF EnterReadWrite, Dull, Fresh, HasLock, Internalizing,
         EvictLabels, CriticalLabels, CallOf, OpOf, IoOps, ReadOps, WriteOps,
         GlobalOps, FlushOps, IoLabels, GlobalLabels, RoundEnd, Claimed,
         Evicting, Flushing
    <3> QED BY <1>d, <3>1
  <2>2. Pixels'
    BY <1>p, <1>2 DEF EnterReadWrite, dataVars
  <2> QED BY <2>1, <2>2
<1>3. CASE TryGetLockedBlockRef(t)
  <2>1. Memory'
    <3>1. Dull(t)
      BY <1>0, <1>3 DEF TryGetLockedBlockRef, Dull, Fresh, HasLock,
         Internalizing, EvictLabels, CriticalLabels, CallOf, OpOf, IoOps,
         ReadOps, WriteOps, GlobalOps, FlushOps, IoLabels, GlobalLabels,
         RoundEnd, Claimed, Evicting, Flushing
    <3> QED BY <1>d, <3>1
  <2>2. Pixels'
    BY <1>p, <1>3 DEF TryGetLockedBlockRef, dataVars
  <2> QED BY <2>1, <2>2
<1>4. CASE TakeLock(t)
  <2>1. Memory'
    BY <1>0, <1>4, Memory_TakeLock
  <2>2. Pixels'
    BY <1>p, <1>4 DEF TakeLock, dataVars
  <2> QED BY <2>1, <2>2
<1>5. CASE TakeLockFailed(t)
  <2>1. Memory'
    <3>1. Dull(t)
      BY <1>0, <1>5 DEF TakeLockFailed, Dull, Fresh, HasLock, Internalizing,
         EvictLabels, CriticalLabels, CallOf, OpOf, IoOps, ReadOps, WriteOps,
         GlobalOps, FlushOps, IoLabels, GlobalLabels, RoundEnd, Claimed,
         Evicting, Flushing
    <3> QED BY <1>d, <3>1
  <2>2. Pixels'
    BY <1>p, <1>5 DEF TakeLockFailed, dataVars
  <2> QED BY <2>1, <2>2
<1>6. CASE Touch(t)
  <2>1. Memory'
    <3>1. Dull(t)
      BY <1>0, <1>6 DEF Touch, IsNewest, Dull, Fresh, HasLock, Internalizing,
         EvictLabels, CriticalLabels, CallOf, OpOf, IoOps, ReadOps, WriteOps,
         GlobalOps, FlushOps, IoLabels, GlobalLabels, RoundEnd, Claimed,
         Evicting, Flushing
    <3> QED BY <1>d, <3>1
  <2>2. Pixels'
    BY <1>p, <1>6 DEF Touch, IsNewest, dataVars
  <2> QED BY <2>1, <2>2
<1>7. CASE TouchLocked(t)
  <2>1. Memory'
    BY <1>0, <1>7, Memory_TouchLocked
  <2>2. Pixels'
    BY <1>p, <1>7 DEF TouchLocked, dataVars
  <2> QED BY <2>1, <2>2
<1>8. CASE CreateBlockFails(t)
  <2>1. Memory'
    <3>1. Dull(t)
      BY <1>0, <1>8 DEF CreateBlockFails, Dull, Fresh, HasLock, Internalizing,
         EvictLabels, CriticalLabels, CallOf, OpOf, IoOps, ReadOps, WriteOps,
         GlobalOps, FlushOps, IoLabels, GlobalLabels, RoundEnd, Claimed,
         Evicting, Flushing
    <3> QED BY <1>d, <3>1
  <2>2. Pixels'
    BY <1>p, <1>8 DEF CreateBlockFails, dataVars
  <2> QED BY <2>1, <2>2
<1>9. CASE ReacquireReadWriteLock(t)
  <2>1. Memory'
    <3>1. Dull(t)
      BY <1>0, <1>9 DEF ReacquireReadWriteLock, Dull, Fresh, HasLock,
         Internalizing, EvictLabels, CriticalLabels, CallOf, OpOf, IoOps,
         ReadOps, WriteOps, GlobalOps, FlushOps, IoLabels, GlobalLabels,
         RoundEnd, Claimed, Evicting, Flushing
    <3> QED BY <1>d, <3>1
  <2>2. Pixels'
    BY <1>p, <1>9 DEF ReacquireReadWriteLock, dataVars
  <2> QED BY <2>1, <2>2
<1>10. ASSUME NEW b \in Blocks, CreateBlock(t, b) PROVE Memory' /\ Pixels'
  <2>1. Memory'
    BY <1>0, <1>10, Memory_CreateBlock
  <2>2. Pixels'
    BY <1>p, <1>10 DEF CreateBlock, dataVars
  <2> QED BY <2>1, <2>2
<1>11. ASSUME NEW ok \in BOOLEAN, Allocate(t, ok) PROVE Memory' /\ Pixels'
  <2>1. Memory'
    BY <1>0, <1>11, Memory_Allocate
  <2>2. Pixels'
    BY <1>p, <1>11 DEF Allocate, dataVars
  <2> QED BY <2>1, <2>2
<1>12. ASSUME NEW ok \in BOOLEAN, AdoptBlock(t, ok) PROVE Memory' /\ Pixels'
  <2>1. Memory'
    BY <1>0, <1>12, Memory_AdoptBlock
  <2>2. Pixels'
    BY <1>p, <1>12 DEF AdoptBlock, dataVars
  <2> QED BY <2>1, <2>2
<1>13. ASSUME NEW ok \in BOOLEAN, ReadBlock(t, ok) PROVE Memory' /\ Pixels'
  <2>1. Memory'
    BY <1>0, <1>13, Memory_ReadBlock
  <2>2. Pixels'
    BY <1>p, <1>13 DEF ReadBlock, dataVars
  <2> QED BY <2>1, <2>2
<1>14. CASE WriteLocked(t)
  <2>1. Memory'
    BY <1>0, <1>14, Memory_WriteLocked
  <2>2. Pixels'
    BY <1>0, <1>14, Pixels_WriteLocked
  <2> QED BY <2>1, <2>2
<1>15. CASE Discard(t)
  BY <1>0, <1>15 DEF Discard, KeysOf
<1>16. CASE Failed(t)
  <2>1. Memory'
    <3>1. Dull(t)
      BY <1>0, <1>16 DEF Failed, Return, Dull, Fresh, HasLock, Internalizing,
         EvictLabels, CriticalLabels, CallOf, OpOf, IoOps, ReadOps, WriteOps,
         GlobalOps, FlushOps, IoLabels, GlobalLabels, RoundEnd, Claimed,
         Evicting, Flushing
    <3> QED BY <1>d, <3>1
  <2>2. Pixels'
    BY <1>p, <1>16 DEF Failed, Return, dataVars
  <2> QED BY <2>1, <2>2
<1>17. ASSUME NEW more \in BOOLEAN, DropLock(t, more) PROVE Memory' /\ Pixels'
  <2>1. Memory'
    <3>1. Dull(t)
      BY <1>0, <1>17 DEF DropLock, Return, Dull, Fresh, HasLock,
         Internalizing, EvictLabels, CriticalLabels, CallOf, OpOf, IoOps,
         ReadOps, WriteOps, GlobalOps, FlushOps, IoLabels, GlobalLabels,
         RoundEnd, Claimed, Evicting, Flushing
    <3> QED BY <1>d, <3>1
  <2>2. Pixels'
    BY <1>p, <1>17 DEF DropLock, Return, dataVars
  <2> QED BY <2>1, <2>2
<1> QED
  BY <1>1, <1>2, <1>3, <1>4, <1>5, <1>6, <1>7, <1>8, <1>9, <1>10, <1>11,
     <1>12, <1>13, <1>14, <1>15, <1>16, <1>17 DEF IoStep

(* Evictions.                                                              *)
LEMMA Memory_Evict ==
    ASSUME MemInv, NEW t \in Threads, EvictStep(t)
    PROVE  Memory' /\ Pixels'
<1>0. /\ CallTypes /\ ScanTypes /\ CallOf(t) /\ KeysOf(t) /\ Pixels
      /\ Others(t)
  BY MemParts, Others_Evict
<1>d. ASSUME Dull(t) PROVE Memory'
  BY <1>0, <1>d, DullStep
<1>p. ASSUME UNCHANGED <<disk, last, keptBand>> PROVE Pixels'
  BY <1>0, <1>p DEF Pixels
<1> USE DEF Goto, callVars, scanVars, blockVars, cacheVars, CallTypes, ScanTypes
<1>1. CASE InternalizeLock(t)
  <2>1. Memory'
    BY <1>0, <1>1, Memory_InternalizeLock
  <2>2. Pixels'
    BY <1>p, <1>1 DEF InternalizeLock, StartRound, dataVars
  <2> QED BY <2>1, <2>2
<1>2. CASE Scan(t)
  <2>1. Memory'
    <3>1. Dull(t)
      BY <1>0, <1>2 DEF Scan, Dull, Fresh, HasLock, Internalizing,
         EvictLabels, CriticalLabels, CallOf, OpOf, IoOps, ReadOps, WriteOps,
         GlobalOps, FlushOps, IoLabels, GlobalLabels, RoundEnd, Claimed,
         Evicting, Flushing
    <3> QED BY <1>d, <3>1
  <2>2. Pixels'
    BY <1>p, <1>2 DEF Scan, dataVars
  <2> QED BY <2>1, <2>2
<1>3. CASE Exchange(t)
  <2>1. Memory'
    BY <1>0, <1>3, Memory_Claim
  <2>2. Pixels'
    BY <1>p, <1>3 DEF Exchange, Claim, dataVars
  <2> QED BY <2>1, <2>2
<1>4. CASE ExchangeOther(t)
  <2>1. Memory'
    BY <1>0, <1>4, Memory_Claim
  <2>2. Pixels'
    BY <1>p, <1>4 DEF ExchangeOther, Claim, dataVars
  <2> QED BY <2>1, <2>2
<1>5. CASE Fallback(t)
  <2>1. Memory'
    BY <1>0, <1>5, Memory_Claim
  <2>2. Pixels'
    BY <1>p, <1>5 DEF Fallback, Claim, dataVars
  <2> QED BY <2>1, <2>2
<1>6. CASE FallbackEnds(t)
  <2>1. Memory'
    <3>1. Dull(t)
      BY <1>0, <1>6 DEF FallbackEnds, Dull, Fresh, HasLock, Internalizing,
         EvictLabels, CriticalLabels, CallOf, OpOf, IoOps, ReadOps, WriteOps,
         GlobalOps, FlushOps, IoLabels, GlobalLabels, RoundEnd, Claimed,
         Evicting, Flushing
    <3> QED BY <1>d, <3>1
  <2>2. Pixels'
    BY <1>p, <1>6 DEF FallbackEnds, dataVars
  <2> QED BY <2>1, <2>2
<1>7. CASE Detach(t)
  <2>1. Memory'
    BY <1>0, <1>7, Memory_Detach
  <2>2. Pixels'
    BY <1>p, <1>7 DEF Detach, dataVars
  <2> QED BY <2>1, <2>2
<1>8. CASE UnreferenceBlock(t)
  <2>1. Memory'
    <3>1. Dull(t)
      BY <1>0, <1>8 DEF UnreferenceBlock, Dull, Fresh, HasLock, Internalizing,
         EvictLabels, CriticalLabels, CallOf, OpOf, IoOps, ReadOps, WriteOps,
         GlobalOps, FlushOps, IoLabels, GlobalLabels, RoundEnd, Claimed,
         Evicting, Flushing
    <3> QED BY <1>d, <3>1
  <2>2. Pixels'
    BY <1>p, <1>8 DEF UnreferenceBlock, dataVars
  <2> QED BY <2>1, <2>2
<1>9. CASE Scanned(t)
  <2>1. Memory'
    BY <1>0, <1>9, Memory_Scanned
  <2>2. Pixels'
    BY <1>p, <1>9 DEF Scanned, dataVars
  <2> QED BY <2>1, <2>2
<1>10. CASE FreeNext(t)
  <2>1. Memory'
    <3>1. Dull(t)
      BY <1>0, <1>10 DEF FreeNext, Dull, Fresh, HasLock, Internalizing,
         EvictLabels, CriticalLabels, CallOf, OpOf, IoOps, ReadOps, WriteOps,
         GlobalOps, FlushOps, IoLabels, GlobalLabels, RoundEnd, Claimed,
         Evicting, Flushing
    <3> QED BY <1>d, <3>1
  <2>2. Pixels'
    BY <1>p, <1>10 DEF FreeNext, dataVars
  <2> QED BY <2>1, <2>2
<1>11. CASE Release(t)
  <2>1. Memory'
    BY <1>0, <1>11, Memory_Release
  <2>2. Pixels'
    BY <1>0, <1>11, Pixels_Release
  <2> QED BY <2>1, <2>2
<1>12. CASE KeepAliveDec(t)
  <2>1. Memory'
    <3>1. Dull(t)
      BY <1>0, <1>12 DEF KeepAliveDec, Dull, Fresh, HasLock, Internalizing,
         EvictLabels, CriticalLabels, CallOf, OpOf, IoOps, ReadOps, WriteOps,
         GlobalOps, FlushOps, IoLabels, GlobalLabels, RoundEnd, Claimed,
         Evicting, Flushing
    <3> QED BY <1>d, <3>1
  <2>2. Pixels'
    BY <1>0, <1>12, Pixels_KeepAliveDec
  <2> QED BY <2>1, <2>2
<1>13. CASE FreeEnds(t)
  <2>1. Memory'
    <3>1. Dull(t)
      BY <1>0, <1>13 DEF FreeEnds, Dull, Fresh, HasLock, Internalizing,
         EvictLabels, CriticalLabels, CallOf, OpOf, IoOps, ReadOps, WriteOps,
         GlobalOps, FlushOps, IoLabels, GlobalLabels, RoundEnd, Claimed,
         Evicting, Flushing
    <3> QED BY <1>d, <3>1
  <2>2. Pixels'
    BY <1>p, <1>13 DEF FreeEnds, dataVars
  <2> QED BY <2>1, <2>2
<1>14. ASSUME NEW ok \in BOOLEAN, WriteEvicted(t, ok) PROVE Memory' /\ Pixels'
  <2>1. Memory'
    <3>1. Dull(t)
      BY <1>0, <1>14 DEF WriteEvicted, Dull, Fresh, HasLock, Internalizing,
         EvictLabels, CriticalLabels, CallOf, OpOf, IoOps, ReadOps, WriteOps,
         GlobalOps, FlushOps, IoLabels, GlobalLabels, RoundEnd, Claimed,
         Evicting, Flushing
    <3> QED BY <1>d, <3>1
  <2>2. Pixels'
    BY <1>0, <1>14, Pixels_WriteEvicted
  <2> QED BY <2>1, <2>2
<1>15. CASE SetCacheMaxLoop(t)
  <2>1. Memory'
    <3>1. Dull(t)
      BY <1>0, <1>15 DEF SetCacheMaxLoop, Dull, Fresh, HasLock, Internalizing,
         EvictLabels, CriticalLabels, CallOf, OpOf, IoOps, ReadOps, WriteOps,
         GlobalOps, FlushOps, IoLabels, GlobalLabels, RoundEnd, Claimed,
         Evicting, Flushing
    <3> QED BY <1>d, <3>1
  <2>2. Pixels'
    BY <1>p, <1>15 DEF SetCacheMaxLoop, dataVars
  <2> QED BY <2>1, <2>2
<1>16. CASE FlushCacheBlock(t)
  <2>1. Memory'
    <3>1. Dull(t)
      BY <1>0, <1>16 DEF FlushCacheBlock, Dull, Fresh, HasLock, Internalizing,
         EvictLabels, CriticalLabels, CallOf, OpOf, IoOps, ReadOps, WriteOps,
         GlobalOps, FlushOps, IoLabels, GlobalLabels, RoundEnd, Claimed,
         Evicting, Flushing
    <3> QED BY <1>d, <3>1
  <2>2. Pixels'
    BY <1>p, <1>16 DEF FlushCacheBlock, dataVars
  <2> QED BY <2>1, <2>2
<1>17. CASE FlushScan(t)
  <2>1. Memory'
    <3>1. Dull(t)
      BY <1>0, <1>17 DEF FlushScan, Dull, Fresh, HasLock, Internalizing,
         EvictLabels, CriticalLabels, CallOf, OpOf, IoOps, ReadOps, WriteOps,
         GlobalOps, FlushOps, IoLabels, GlobalLabels, RoundEnd, Claimed,
         Evicting, Flushing
    <3> QED BY <1>d, <3>1
  <2>2. Pixels'
    BY <1>p, <1>17 DEF FlushScan, dataVars
  <2> QED BY <2>1, <2>2
<1>18. CASE FlushExchange(t)
  <2>1. Memory'
    BY <1>0, <1>18, Memory_Claim
  <2>2. Pixels'
    BY <1>p, <1>18 DEF FlushExchange, Claim, dataVars
  <2> QED BY <2>1, <2>2
<1>19. CASE FlushScanEnds(t)
  <2>1. Memory'
    <3>1. Dull(t)
      BY <1>0, <1>19 DEF FlushScanEnds, Dull, Fresh, HasLock, Internalizing,
         EvictLabels, CriticalLabels, CallOf, OpOf, IoOps, ReadOps, WriteOps,
         GlobalOps, FlushOps, IoLabels, GlobalLabels, RoundEnd, Claimed,
         Evicting, Flushing
    <3> QED BY <1>d, <3>1
  <2>2. Pixels'
    BY <1>p, <1>19 DEF FlushScanEnds, dataVars
  <2> QED BY <2>1, <2>2
<1>20. CASE FlushedOne(t)
  <2>1. Memory'
    <3>1. Dull(t)
      BY <1>0, <1>20 DEF FlushedOne, Dull, Fresh, HasLock, Internalizing,
         EvictLabels, CriticalLabels, CallOf, OpOf, IoOps, ReadOps, WriteOps,
         GlobalOps, FlushOps, IoLabels, GlobalLabels, RoundEnd, Claimed,
         Evicting, Flushing
    <3> QED BY <1>d, <3>1
  <2>2. Pixels'
    BY <1>p, <1>20 DEF FlushedOne, dataVars
  <2> QED BY <2>1, <2>2
<1> QED
  BY <1>1, <1>2, <1>3, <1>4, <1>5, <1>6, <1>7, <1>8, <1>9, <1>10, <1>11,
     <1>12, <1>13, <1>14, <1>15, <1>16, <1>17, <1>18, <1>19, <1>20 DEF
     EvictStep

(* FlushBlock(), FlushCache() and the destructors.                         *)
LEMMA Memory_Flush ==
    ASSUME MemInv, NEW t \in Threads, FlushStep(t)
    PROVE  Memory' /\ Pixels'
<1>0. /\ CallTypes /\ ScanTypes /\ CallOf(t) /\ KeysOf(t) /\ Pixels
      /\ Others(t)
  BY MemParts, Others_Flush
<1>d. ASSUME Dull(t) PROVE Memory'
  BY <1>0, <1>d, DullStep
<1>p. ASSUME UNCHANGED <<disk, last, keptBand>> PROVE Pixels'
  BY <1>0, <1>p DEF Pixels
<1> USE DEF Goto, callVars, scanVars, blockVars, cacheVars, CallTypes, ScanTypes
<1>1. CASE FlushBlock(t)
  <2>1. Memory'
    <3>1. Dull(t)
      BY <1>0, <1>1 DEF FlushBlock, AfterFlushBlock, Dull, Fresh, HasLock,
         Internalizing, EvictLabels, CriticalLabels, CallOf, OpOf, IoOps,
         ReadOps, WriteOps, GlobalOps, FlushOps, IoLabels, GlobalLabels,
         RoundEnd, Claimed, Evicting, Flushing
    <3> QED BY <1>d, <3>1
  <2>2. Pixels'
    BY <1>p, <1>1 DEF FlushBlock, AfterFlushBlock, dataVars
  <2> QED BY <2>1, <2>2
<1>2. CASE ClaimFlush(t)
  <2>1. Memory'
    BY <1>0, <1>2, Memory_ClaimFlush
  <2>2. Pixels'
    BY <1>p, <1>2 DEF ClaimFlush, dataVars
  <2> QED BY <2>1, <2>2
<1>3. CASE FlushWait(t)
  <2>1. Memory'
    <3>1. Dull(t)
      BY <1>0, <1>3 DEF FlushWait, AfterFlushBlock, Dull, Fresh, HasLock,
         Internalizing, EvictLabels, CriticalLabels, CallOf, OpOf, IoOps,
         ReadOps, WriteOps, GlobalOps, FlushOps, IoLabels, GlobalLabels,
         RoundEnd, Claimed, Evicting, Flushing
    <3> QED BY <1>d, <3>1
  <2>2. Pixels'
    BY <1>p, <1>3 DEF FlushWait, AfterFlushBlock, dataVars
  <2> QED BY <2>1, <2>2
<1>4. CASE FlushDetach(t)
  <2>1. Memory'
    BY <1>0, <1>4, Memory_FlushDetach
  <2>2. Pixels'
    BY <1>p, <1>4 DEF FlushDetach, dataVars
  <2> QED BY <2>1, <2>2
<1>5. CASE FlushWrite(t)
  <2>1. Memory'
    <3>1. Dull(t)
      BY <1>0, <1>5 DEF FlushWrite, Dull, Fresh, HasLock, Internalizing,
         EvictLabels, CriticalLabels, CallOf, OpOf, IoOps, ReadOps, WriteOps,
         GlobalOps, FlushOps, IoLabels, GlobalLabels, RoundEnd, Claimed,
         Evicting, Flushing
    <3> QED BY <1>d, <3>1
  <2>2. Pixels'
    BY <1>p, <1>5 DEF FlushWrite, dataVars
  <2> QED BY <2>1, <2>2
<1>6. CASE Delete(t)
  <2>1. Memory'
    BY <1>0, <1>6, Memory_Delete
  <2>2. Pixels'
    BY <1>p, <1>6 DEF Delete, dataVars
  <2> QED BY <2>1, <2>2
<1>7. CASE FlushCache(t)
  <2>1. Memory'
    <3>1. Dull(t)
      BY <1>0, <1>7 DEF FlushCache, Dull, Fresh, HasLock, Internalizing,
         EvictLabels, CriticalLabels, CallOf, OpOf, IoOps, ReadOps, WriteOps,
         GlobalOps, FlushOps, IoLabels, GlobalLabels, RoundEnd, Claimed,
         Evicting, Flushing
    <3> QED BY <1>d, <3>1
  <2>2. Pixels'
    BY <1>p, <1>7 DEF FlushCache, dataVars
  <2> QED BY <2>1, <2>2
<1>8. CASE FlushStorage(t)
  <2>1. Memory'
    BY <1>0, <1>8, Memory_FlushStorage
  <2>2. Pixels'
    BY <1>p, <1>8 DEF FlushStorage, dataVars
  <2> QED BY <2>1, <2>2
<1>9. CASE FlushNext(t)
  <2>1. Memory'
    <3>1. Dull(t)
      BY <1>0, <1>9 DEF FlushNext, Dull, Fresh, HasLock, Internalizing,
         EvictLabels, CriticalLabels, CallOf, OpOf, IoOps, ReadOps, WriteOps,
         GlobalOps, FlushOps, IoLabels, GlobalLabels, RoundEnd, Claimed,
         Evicting, Flushing
    <3> QED BY <1>d, <3>1
  <2>2. Pixels'
    BY <1>p, <1>9 DEF FlushNext, dataVars
  <2> QED BY <2>1, <2>2
<1>10. CASE FlushEnds(t)
  <2>1. Memory'
    <3>1. Dull(t)
      BY <1>0, <1>10 DEF FlushEnds, Dull, Fresh, HasLock, Internalizing,
         EvictLabels, CriticalLabels, CallOf, OpOf, IoOps, ReadOps, WriteOps,
         GlobalOps, FlushOps, IoLabels, GlobalLabels, RoundEnd, Claimed,
         Evicting, Flushing
    <3> QED BY <1>d, <3>1
  <2>2. Pixels'
    BY <1>0, <1>10, Pixels_FlushEnds
  <2> QED BY <2>1, <2>2
<1>11. CASE Destroy(t)
  <2>1. Memory'
    BY <1>0, <1>11, Memory_FlushStorage
  <2>2. Pixels'
    BY <1>p, <1>11 DEF Destroy, dataVars
  <2> QED BY <2>1, <2>2
<1>12. CASE Flushed(t)
  <2>1. Memory'
    <3>1. Dull(t)
      BY <1>0, <1>12 DEF Flushed, Return, Dull, Fresh, HasLock, Internalizing,
         EvictLabels, CriticalLabels, CallOf, OpOf, IoOps, ReadOps, WriteOps,
         GlobalOps, FlushOps, IoLabels, GlobalLabels, RoundEnd, Claimed,
         Evicting, Flushing
    <3> QED BY <1>d, <3>1
  <2>2. Pixels'
    BY <1>p, <1>12 DEF Flushed, Return, dataVars
  <2> QED BY <2>1, <2>2
<1>13. ASSUME NEW ok \in BOOLEAN, FlushIO(t, ok) PROVE Memory' /\ Pixels'
  <2>1. Memory'
    <3>1. Dull(t)
      BY <1>0, <1>13 DEF FlushIO, Dull, Fresh, HasLock, Internalizing,
         EvictLabels, CriticalLabels, CallOf, OpOf, IoOps, ReadOps, WriteOps,
         GlobalOps, FlushOps, IoLabels, GlobalLabels, RoundEnd, Claimed,
         Evicting, Flushing
    <3> QED BY <1>d, <3>1
  <2>2. Pixels'
    BY <1>0, <1>13, Pixels_FlushIO
  <2> QED BY <2>1, <2>2
<1> QED
  BY <1>1, <1>2, <1>3, <1>4, <1>5, <1>6, <1>7, <1>8, <1>9, <1>10, <1>11,
     <1>12, <1>13 DEF FlushStep

-----------------------------------------------------------------------------
(* The cache is empty at first, and the files are there.                   *)
LEMMA Memory_Init == Init => Memory /\ Pixels
<1> SUFFICES ASSUME Init PROVE Memory /\ Pixels
  OBVIOUS
<1>1. /\ \A t \in Threads : /\ pc[t] = "idle" /\ op[t] = "none"
                            /\ bFirstIter[t] = TRUE /\ toFree[t] = <<>>
      /\ ToSet(lru) = {} /\ nCacheUsed = 0
  BY DEF Init, LruInit, ToSet
<1>2. ASSUME NEW t \in Threads
      PROVE  ~Internalizing(t) /\ ~Fresh(t) /\ ~HasLock(t) /\ Claimed(t) = {}
  <2>1. ~Internalizing(t)
    BY <1>1 DEF Internalizing, EvictLabels, CriticalLabels
  <2>2. ~HasLock(t)
    BY <1>1, <2>1 DEF HasLock, RoundEnd, CriticalLabels
  <2>3. Evicting(t) = {} /\ Flushing(t) = {}
    <3>1. toFree[t] = <<>> /\ ToSet(toFree[t]) = {}
      BY <1>1 DEF ToSet
    <3> QED BY <1>1, <3>1 DEF Evicting, Flushing, FlushLabels
  <2> QED BY <1>1, <2>1, <2>2, <2>3 DEF Fresh, Claimed
<1>3. ASSUME NEW t \in Threads PROVE MemoryOf(t)
  BY <1>1, <1>2, FreshHasLock DEF MemoryOf
<1>4. InCache = {} /\ Charged = {}
  BY <1>1, <1>2 DEF InCache, Charged
<1>5. CacheUsedExact
  BY <1>1, <1>4, FS_EmptySet, CacheUsedIs
<1>6. Listed
  BY <1>1 DEF Listed
<1>7. Pixels
  BY PixelTypes DEF Init, Pixels
<1> QED
  BY <1>3, <1>5, <1>6, <1>7 DEF Memory

(* Every step of every thread counts the memory that it takes or returns.  *)
LEMMA MemInv_Next ==
    ASSUME AllocationsSucceed, MemInv, [Next]_vars
    PROVE  MemInv'
<1>1. FiledInv'
  BY FiledInv_Next DEF MemInv
<1>2. ASSUME NEW t \in Threads, Start(t) \/ Step(t) PROVE Memory' /\ Pixels'
  BY <1>2, Memory_Start, Memory_Io, Memory_Evict, Memory_Flush DEF Step
<1>3. CASE UNCHANGED vars
  <2>1. /\ UNCHANGED <<pData, bMustDetach, lru, nCacheUsed, disk, last, pc, op>>
        /\ UNCHANGED <<poBlock, poTarget, toFree, bFirstIter, keptBand>>
    BY <1>3 DEF vars, blockVars, cacheVars, dataVars, callVars, scanVars
  <2>2. \A t \in Threads :
          /\ Fresh(t)' <=> Fresh(t)
          /\ Internalizing(t)' <=> Internalizing(t)
          /\ HasLock(t)' <=> HasLock(t)
          /\ Claimed(t)' = Claimed(t) /\ Flushing(t)' = Flushing(t)
    BY <2>1 DEF Fresh, Internalizing, HasLock, RoundEnd, Claimed, Evicting,
       Flushing
  <2>3. ASSUME NEW t \in Threads PROVE MemoryOf(t)'
    <3>1. MemoryOf(t)
      BY MemParts
    <3> QED BY <2>1, <2>2, <3>1 DEF MemoryOf
  <2>4. Listed'
    BY <2>1, <2>2, MemParts DEF Listed
  <2>5. InCache' = InCache /\ Charged' = Charged
    BY <2>1, <2>2 DEF InCache, Charged
  <2>6. CacheUsedExact'
    BY <2>1, <2>5, MemParts, CacheUsedIs
  <2>7. Pixels'
    BY <2>1, MemParts DEF Pixels
  <2> QED BY <1>1, <2>3, <2>4, <2>6, <2>7 DEF MemInv, Memory
<1> QED
  BY <1>1, <1>2, <1>3 DEF Next, MemInv

(* Where allocations succeed, the memory of the cache is accounted for:    *)
(* see Memory.                                                             *)
THEOREM MemoryInvariant == AllocationsSucceed => (Spec => []MemInv)
<1> SUFFICES ASSUME AllocationsSucceed PROVE Spec => []MemInv
  OBVIOUS
<1>1. Init => MemInv
  BY ControlInv_Init, Owned_Init, Filed_Init, Memory_Init
     DEF MemInv, FiledInv, OwnInv
<1>2. MemInv /\ [Next]_vars => MemInv'
  BY MemInv_Next
<1> QED
  BY <1>1, <1>2, PTL DEF Spec

(* nCacheUsed is exact at every step: Internalize(), which charges its     *)
(* block before it evicts and allocates, the evictors of other threads,    *)
(* FlushBlock(), FlushCache() and DropCache() charge each block of the     *)
(* list once, and return its memory once.                                  *)
THEOREM MemoryIsCounted == AllocationsSucceed => (Spec => []CacheUsedExact)
<1> SUFFICES ASSUME AllocationsSucceed PROVE Spec => []CacheUsedExact
  OBVIOUS
<1>1. Spec => []MemInv
  BY MemoryInvariant
<1>2. MemInv => CacheUsedExact
  BY DEF MemInv, Memory
<1> QED
  BY <1>1, <1>2, PTL

(* The type invariant.  It says more than its form: a file only ever holds *)
(* pixels, since no thread writes a block without memory to it, and the    *)
(* band that an evictor keeps alive is that of a block object, not of one  *)
(* that was deleted meanwhile.                                             *)
THEOREM TypesHold == AllocationsSucceed => (Spec => []TypeOK)
<1> SUFFICES ASSUME AllocationsSucceed PROVE Spec => []TypeOK
  OBVIOUS
<1>1. Spec => []MemInv
  BY MemoryInvariant
<1>2. MemInv => TypeOK
  <2> SUFFICES ASSUME MemInv PROVE TypeOK
    OBVIOUS
  <2>1. Types /\ Pixels
    BY MemParts
  <2> QED
    BY <2>1 DEF Types, BlockTypes, CacheTypes, BandTypes, DataTypes, CallTypes,
       ScanTypes, FlushTypes, Pixels, TypeOK
<1> QED
  BY <1>1, <1>2, PTL

-----------------------------------------------------------------------------
(* The dirty blocks.  Where the driver writes what it is given and no call *)
(* discards a cache, no error is left behind ...                           *)
DirtyIsWritten == /\ "IWriteBlock" \notin Failures
                  /\ Ops \cap {"dropCache", "suppress"} = {}

Healthy == /\ \A d \in Bands : eFlushBlockErr[d] = FALSE
           /\ \A t \in Threads : eGlobalErr[t] = FALSE
           /\ \A t \in Threads : op[t] \notin {"dropCache", "suppress"}

(* ... and a block is clean when the evictor or the thread that flushes it *)
(* is done with Write(), and in a free list.                               *)
CleanOf(t) == /\ pc[t] \in {"write", "release"} => ~bDirty[Target(t)]
              /\ pc[t] \in {"flushIO", "delete"} => ~bDirty[poBlock[t]]
FreeAreClean == \A b \in Blocks : Frees(b) => ~bDirty[b]

(* What m_nDirtyBlocks of band d counts.                                   *)
DirtyBlocks(d) ==
    {b \in Blocks : key[b] # NoKey /\ BandOf(key[b]) = d /\ bDirty[b]}

Dirty == (\A t \in Threads : CleanOf(t)) /\ FreeAreClean /\ DirtyCountExact
DirtyInv == AliveInv /\ Healthy /\ Dirty

(* The parts of the invariant that the proofs below use.                   *)
LEMMA DirtyParts ==
    ASSUME DirtyInv
    PROVE  /\ AliveInv /\ OwnInv /\ ControlInv /\ RoundInv /\ Healthy
           /\ BlockTypes /\ BandTypes /\ CallTypes /\ ScanTypes /\ FlushTypes
           /\ StoreInv /\ Exclusive /\ LocksExact
           /\ FreeAreClean /\ DirtyCountExact
           /\ \A t \in Threads : CallOf(t) /\ KeysOf(t) /\ CleanOf(t)
BY DEF DirtyInv, Dirty, AliveInv, FiledInv, OwnInv, Owned, ControlInv, Types

(* The counter of the dirty blocks.                                        *)
LEMMA DirtyCountIs ==
    /\ DirtyCountExact <=>
         \A d \in Bands : nDirtyBlocks[d] = Cardinality(DirtyBlocks(d))
    /\ DirtyCountExact' <=>
         \A d \in Bands : nDirtyBlocks'[d] = Cardinality(DirtyBlocks(d)')
BY DEF DirtyCountExact, DirtyBlocks

(* The sets that it counts are finite.                                     *)
LEMMA DirtySets ==
    ASSUME NEW d
    PROVE  IsFiniteSet(DirtyBlocks(d)) /\ Cardinality(DirtyBlocks(d)) \in Nat
<1>1. DirtyBlocks(d) \subseteq Blocks
  BY DEF DirtyBlocks
<1> QED
  BY <1>1, FiniteAssumption, FS_Subset, FS_CardinalityType

(* A step that changes neither the counter nor what it counts.             *)
LEMMA DirtyStays ==
    ASSUME DirtyCountExact, UNCHANGED nDirtyBlocks,
           \A b \in Blocks : \/ key'[b] = key[b] /\ bDirty'[b] = bDirty[b]
                             \/ /\ key[b] = NoKey \/ ~bDirty[b]
                                /\ key'[b] = NoKey \/ ~bDirty'[b]
    PROVE  DirtyCountExact'
<1>1. \A d : DirtyBlocks(d)' = DirtyBlocks(d)
  BY DEF DirtyBlocks
<1> QED
  BY <1>1, DirtyCountIs

(* MarkDirty() of a clean block.                                           *)
LEMMA MarkedDirty ==
    ASSUME DirtyCountExact, BlockTypes, BandTypes, NEW b \in Blocks,
           key[b] \in Keys, ~bDirty[b], UNCHANGED key,
           bDirty' = [bDirty EXCEPT ![b] = TRUE],
           nDirtyBlocks' = [nDirtyBlocks EXCEPT ![BandOf(key[b])] = @ + 1]
    PROVE  DirtyCountExact'
<1> SUFFICES ASSUME NEW d \in Bands
             PROVE  nDirtyBlocks'[d] = Cardinality(DirtyBlocks(d)')
  BY DirtyCountIs
<1>0. /\ bDirty'[b] /\ \A c \in Blocks : c # b => bDirty'[c] = bDirty[c]
      /\ key[b] # NoKey
  BY NoKeyIsNoKey DEF BlockTypes
<1>1. nDirtyBlocks[d] = Cardinality(DirtyBlocks(d)) /\ nDirtyBlocks[d] \in Int
  BY DirtyCountIs DEF BandTypes
<1>2. CASE d = BandOf(key[b])
  <2>1. DirtyBlocks(d)' = DirtyBlocks(d) \cup {b} /\ b \notin DirtyBlocks(d)
    BY <1>0, <1>2 DEF DirtyBlocks
  <2>2. Cardinality(DirtyBlocks(d) \cup {b}) = Cardinality(DirtyBlocks(d)) + 1
    BY <2>1, DirtySets, FS_AddElement
  <2>3. nDirtyBlocks'[d] = nDirtyBlocks[d] + 1
    BY <1>2 DEF BandTypes
  <2> QED BY <1>1, <2>1, <2>2, <2>3
<1>3. CASE d # BandOf(key[b])
  <2>1. DirtyBlocks(d)' = DirtyBlocks(d)
    BY <1>0, <1>3 DEF DirtyBlocks
  <2>2. nDirtyBlocks'[d] = nDirtyBlocks[d]
    BY <1>3 DEF BandTypes
  <2> QED BY <1>1, <2>1, <2>2
<1> QED
  BY <1>2, <1>3

(* MarkClean() of a dirty block.                                           *)
LEMMA MarkedClean ==
    ASSUME DirtyCountExact, BlockTypes, BandTypes, NEW b \in Blocks,
           key[b] \in Keys, bDirty[b], UNCHANGED key, MarkClean(b)
    PROVE  DirtyCountExact'
<1> SUFFICES ASSUME NEW d \in Bands
             PROVE  nDirtyBlocks'[d] = Cardinality(DirtyBlocks(d)')
  BY DirtyCountIs
<1>0. /\ ~bDirty'[b] /\ \A c \in Blocks : c # b => bDirty'[c] = bDirty[c]
      /\ key[b] # NoKey
  BY NoKeyIsNoKey DEF BlockTypes, MarkClean
<1>1. nDirtyBlocks[d] = Cardinality(DirtyBlocks(d)) /\ nDirtyBlocks[d] \in Int
  BY DirtyCountIs DEF BandTypes
<1>2. CASE d = BandOf(key[b])
  <2>1. DirtyBlocks(d)' = DirtyBlocks(d) \ {b} /\ b \in DirtyBlocks(d)
    BY <1>0, <1>2 DEF DirtyBlocks
  <2>2. Cardinality(DirtyBlocks(d) \ {b}) = Cardinality(DirtyBlocks(d)) - 1
    BY <2>1, DirtySets, FS_RemoveElement
  <2>3. nDirtyBlocks'[d] = nDirtyBlocks[d] - 1
    BY <1>2 DEF BandTypes, MarkClean
  <2> QED BY <1>1, <2>1, <2>2, <2>3
<1>3. CASE d # BandOf(key[b])
  <2>1. DirtyBlocks(d)' = DirtyBlocks(d)
    BY <1>0, <1>3 DEF DirtyBlocks
  <2>2. nDirtyBlocks'[d] = nDirtyBlocks[d]
    BY <1>3 DEF BandTypes, MarkClean
  <2> QED BY <1>1, <2>1, <2>2
<1> QED
  BY <1>2, <1>3

-----------------------------------------------------------------------------
(* A step of thread t marks only blocks that it may change.                *)
Marks(t) == \A b \in Blocks : Mine(t, b) \/ bDirty'[b] = bDirty[b]

(* Such a step keeps clean what other threads have written.                *)
LEMMA CleanMoves ==
    ASSUME DirtyInv, NEW t \in Threads, Others(t), Marks(t),
           NEW u \in Threads, u # t
    PROVE  CleanOf(u)'
<1>0. OwnInv /\ CleanOf(u)
  BY DirtyParts
<1>1. pc'[u] = pc[u] /\ poBlock'[u] = poBlock[u] /\ Target(u)' = Target(u)
  BY OthersRoles DEF Target
<1>2. pc[u] \in {"write", "release"} => Target(u) \in Claimed(u)
  BY <1>0, TargetIsClaimed
<1>3. pc[u] \in {"flushIO", "delete"} => poBlock[u] \in Claimed(u)
  BY DEF Claimed, Flushing
<1>4. \A b \in Claimed(u) : bDirty'[b] = bDirty[b]
  BY <1>0, NotMine DEF Marks
<1> QED
  BY <1>0, <1>1, <1>2, <1>3, <1>4 DEF CleanOf

(* A step, given what it does to its own blocks and to the free lists.     *)
LEMMA DirtyStep ==
    ASSUME DirtyInv, NEW t \in Threads, Others(t), Marks(t), CleanOf(t)',
           FreeAreClean', DirtyCountExact'
    PROVE  Dirty'
BY CleanMoves DEF Dirty

(* Steps that have nothing to do with dirty blocks.                        *)
Plain(t) == /\ UNCHANGED <<key, bDirty, psListBlocksToFree, nDirtyBlocks>>
            /\ pc'[t] \notin {"write", "release", "flushIO", "delete"}

(* Such a step keeps the count.                                            *)
LEMMA PlainStep ==
    ASSUME DirtyInv, NEW t \in Threads, Others(t), Plain(t)
    PROVE  Dirty'
<1>0. FreeAreClean /\ DirtyCountExact
  BY DirtyParts
<1>1. CleanOf(t)'
  BY DEF Plain, CleanOf
<1>2. FreeAreClean'
  BY <1>0 DEF Plain, FreeAreClean, Frees, FreeBlocks
<1>3. DirtyCountExact'
  BY <1>0, DirtyStays DEF Plain
<1>4. Marks(t)
  BY DEF Plain, Marks
<1> QED
  BY <1>1, <1>2, <1>3, <1>4, DirtyStep

(* CreateBlock() recycles a clean block.                                   *)
LEMMA Dirty_CreateBlock ==
    ASSUME DirtyInv, NEW t \in Threads, Others(t), NEW b \in Blocks,
           CreateBlock(t, b)
    PROVE  Dirty'
<1>0. /\ CallTypes /\ BlockTypes /\ BandTypes /\ OwnInv /\ CallOf(t)
      /\ FreeAreClean /\ DirtyCountExact
  BY DirtyParts
<1>d. PICK d : d = BandOf(at[t])
  OBVIOUS
<1>1. /\ pc[t] = "create" /\ pc'[t] = "internalize"
      /\ key' = [key EXCEPT ![b] = at[t]]
      /\ bDirty' = [bDirty EXCEPT ![b] = FALSE]
      /\ IF psListBlocksToFree[d] # <<>>
         THEN /\ b = Head(psListBlocksToFree[d])
              /\ psListBlocksToFree' = [psListBlocksToFree EXCEPT ![d] = Tail(@)]
         ELSE key[b] = NoKey /\ UNCHANGED psListBlocksToFree
      /\ UNCHANGED nDirtyBlocks
  BY <1>0, <1>d DEF CreateBlock, CallTypes, Goto
<1>2. d \in Bands
  BY <1>0, <1>d, <1>1, AtIsKey DEF OwnerLabels, IoLabels
<1>3. /\ key[b] = NoKey \/ Frees(b)
      /\ \A e \in Bands : FreeBlocks(e)' \subseteq FreeBlocks(e)
  <2>1. CASE psListBlocksToFree[d] # <<>>
    <3>1. psListBlocksToFree[d] \in Seq(Blocks)
      BY <1>0, <1>2 DEF BandTypes
    <3>2. b \in FreeBlocks(d)
      BY <1>1, <2>1, <3>1, TailProperties DEF FreeBlocks
    <3>3. psListBlocksToFree'[d] = Tail(psListBlocksToFree[d])
      BY <1>0, <1>1, <1>2, <2>1 DEF BandTypes
    <3>4. FreeBlocks(d)' \subseteq FreeBlocks(d)
      BY <2>1, <3>1, <3>3, TailProperties DEF FreeBlocks
    <3>5. \A e \in Bands : e # d => FreeBlocks(e)' = FreeBlocks(e)
      BY <1>0, <1>1, <2>1 DEF BandTypes, FreeBlocks
    <3> QED BY <1>2, <3>2, <3>4, <3>5 DEF Frees
  <2>2. CASE psListBlocksToFree[d] = <<>>
    BY <1>1, <2>2 DEF FreeBlocks
  <2> QED BY <2>1, <2>2
<1>4. /\ ~bDirty'[b] /\ \A c \in Blocks : c # b => /\ bDirty'[c] = bDirty[c]
                                                   /\ key'[c] = key[c]
  BY <1>0, <1>1 DEF BlockTypes
<1>5. Marks(t)
  BY <1>3, <1>4 DEF Marks, Mine
<1>6. CleanOf(t)'
  BY <1>1 DEF CleanOf
<1>7. FreeAreClean'
  <2> SUFFICES ASSUME NEW c \in Blocks, NEW e \in Bands, c \in FreeBlocks(e)'
               PROVE  ~bDirty'[c]
    BY DEF FreeAreClean, Frees
  <2>1. ~bDirty[c]
    BY <1>0, <1>3 DEF FreeAreClean, Frees
  <2> QED BY <1>4, <2>1
<1>8. key[b] = NoKey \/ ~bDirty[b]
  BY <1>0, <1>3 DEF FreeAreClean
<1>9. DirtyCountExact'
  BY <1>0, <1>1, <1>4, <1>8, DirtyStays
<1> QED
  BY <1>5, <1>6, <1>7, <1>9, DirtyStep

(* MarkDirty() by the owner of a block.                                    *)
LEMMA Dirty_WriteLocked ==
    ASSUME DirtyInv, NEW t \in Threads, Others(t), WriteLocked(t)
    PROVE  Dirty'
<1>0. /\ CallTypes /\ BlockTypes /\ BandTypes /\ OwnInv /\ KeysOf(t) /\ LocksExact
      /\ FreeAreClean /\ DirtyCountExact
  BY DirtyParts
<1>b. PICK b : b = poBlock[t]
  OBVIOUS
<1>1. /\ pc[t] = "locked" /\ pc'[t] = "drop"
      /\ nDirtyBlocks' = IF bDirty[b] THEN nDirtyBlocks
                         ELSE [nDirtyBlocks EXCEPT ![BandOf(at[t])] = @ + 1]
      /\ bDirty' = [bDirty EXCEPT ![b] = TRUE]
      /\ UNCHANGED <<key, psListBlocksToFree>>
  BY <1>0, <1>b DEF WriteLocked, CallTypes, Goto
<1>2. /\ HasLock(t) /\ b \in Blocks /\ key[b] \in Keys /\ key[b] = at[t]
      /\ ~Out(b)
  <2>1. HasLock(t)
    BY <1>1 DEF HasLock
  <2> QED BY <1>0, <1>b, <2>1, UserIsOwner DEF KeysOf, LocksExact
<1>3. bDirty'[b] /\ \A c \in Blocks : c # b => bDirty'[c] = bDirty[c]
  BY <1>0, <1>1, <1>2 DEF BlockTypes
<1>4. Marks(t)
  BY <1>b, <1>2, <1>3 DEF Marks, Mine
<1>5. CleanOf(t)'
  BY <1>1 DEF CleanOf
<1>6. FreeAreClean'
  BY <1>0, <1>1, <1>2, <1>3 DEF FreeAreClean, Frees, FreeBlocks, Out
<1>7. DirtyCountExact'
  <2>1. CASE bDirty[b]
    <3>1. bDirty'[b] = bDirty[b]
      BY <1>0, <1>2, <1>1, <2>1 DEF BlockTypes
    <3> QED BY <1>0, <1>1, <1>3, <2>1, <3>1, DirtyStays
  <2>2. CASE ~bDirty[b]
    BY <1>0, <1>1, <1>2, <2>2, MarkedDirty
  <2> QED BY <2>1, <2>2
<1> QED
  BY <1>4, <1>5, <1>6, <1>7, DirtyStep

(* MarkClean() of a claimed block, if it is dirty.                         *)
LEMMA CleansClaimed ==
    ASSUME DirtyInv, NEW t \in Threads, NEW b \in Claimed(t),
           UNCHANGED <<key, psListBlocksToFree>>,
           IF bDirty[b] THEN MarkClean(b) ELSE UNCHANGED <<bDirty, nDirtyBlocks>>
    PROVE  Marks(t) /\ ~bDirty'[b] /\ FreeAreClean' /\ DirtyCountExact'
<1>0. /\ BlockTypes /\ BandTypes /\ OwnInv /\ Exclusive
      /\ FreeAreClean /\ DirtyCountExact
  BY DirtyParts
<1>1. b \in Blocks /\ key[b] \in Keys /\ ~Frees(b)
  BY <1>0, ClaimedAreBlocks DEF Exclusive, Frees
<1>2. ~bDirty'[b] /\ \A c \in Blocks : c # b => bDirty'[c] = bDirty[c]
  BY <1>0, <1>1 DEF BlockTypes, MarkClean
<1>3. Marks(t)
  BY <1>1, <1>2 DEF Marks, Mine
<1>4. FreeAreClean'
  BY <1>0, <1>1, <1>2 DEF FreeAreClean, Frees, FreeBlocks
<1>5. DirtyCountExact'
  <2>1. CASE bDirty[b]
    BY <1>0, <1>1, <2>1, MarkedClean
  <2>2. CASE ~bDirty[b]
    BY <1>0, <2>2, DirtyStays
  <2> QED BY <2>1, <2>2
<1> QED
  BY <1>2, <1>3, <1>4, <1>5

(* Write() of an evicted block marks it clean first.                       *)
LEMMA Dirty_FreeNext ==
    ASSUME DirtyInv, NEW t \in Threads, Others(t), FreeNext(t)
    PROVE  Dirty'
<1>0. CallTypes /\ OwnInv /\ ControlInv
  BY DirtyParts
<1>b. PICK b : b = Target(t)
  OBVIOUS
<1>1. /\ toFree[t] # <<>> /\ pc'[t] \in {"write", "release"}
      /\ IF bDirty[b] THEN MarkClean(b) ELSE UNCHANGED <<bDirty, nDirtyBlocks>>
      /\ UNCHANGED <<key, psListBlocksToFree, toFree>>
  BY <1>0, <1>b DEF FreeNext, CallTypes, Goto, scanVars
<1>2. b \in Claimed(t) /\ Target(t)' = b
  BY <1>0, <1>b, <1>1, TargetIsBlock, ClaimedAreBlocks DEF Target
<1>3. Marks(t) /\ ~bDirty'[b] /\ FreeAreClean' /\ DirtyCountExact'
  BY <1>1, <1>2, CleansClaimed
<1>4. CleanOf(t)'
  BY <1>1, <1>2, <1>3 DEF CleanOf
<1> QED
  BY <1>3, <1>4, DirtyStep

(* The same for a flushed block: no earlier error keeps it from being      *)
(* written.                                                                *)
LEMMA Dirty_FlushWrite ==
    ASSUME DirtyInv, NEW t \in Threads, Others(t), FlushWrite(t)
    PROVE  Dirty'
<1>0. CallTypes /\ OwnInv /\ Healthy
  BY DirtyParts
<1>b. PICK b : b = poBlock[t]
  OBVIOUS
<1>m. MustWrite(t, b) <=> bDirty[b]
  BY <1>0 DEF MustWrite, WritesDirtyBlocks, Healthy
<1>1. /\ pc[t] = "flushWrite" /\ pc'[t] \in {"flushIO", "delete"}
      /\ IF MustWrite(t, b)
         THEN MarkClean(b) ELSE UNCHANGED <<bDirty, nDirtyBlocks>>
      /\ UNCHANGED <<key, psListBlocksToFree, poBlock>>
  BY <1>0, <1>b DEF FlushWrite, CallTypes, Goto, callVars
<1>2. b \in Claimed(t)
  BY <1>b, <1>1 DEF Claimed, Flushing
<1>3. Marks(t) /\ ~bDirty'[b] /\ FreeAreClean' /\ DirtyCountExact'
  BY <1>m, <1>1, <1>2, CleansClaimed
<1>4. CleanOf(t)'
  BY <1>b, <1>1, <1>3 DEF CleanOf
<1> QED
  BY <1>3, <1>4, DirtyStep

(* The write itself changes no mark.                                       *)
LEMMA Dirty_Written ==
    ASSUME DirtyInv, NEW t \in Threads, Others(t), NEW ok \in BOOLEAN,
           WriteEvicted(t, ok) \/ FlushIO(t, ok)
    PROVE  Dirty'
<1>0. CallTypes /\ CleanOf(t) /\ FreeAreClean /\ DirtyCountExact
  BY DirtyParts
<1>1. /\ \/ pc[t] = "write" /\ pc'[t] = "release"
         \/ pc[t] = "flushIO" /\ pc'[t] = "delete"
      /\ UNCHANGED <<key, bDirty, psListBlocksToFree, nDirtyBlocks, toFree, poBlock>>
  BY <1>0 DEF WriteEvicted, FlushIO, CallTypes, Goto, blockVars, bandVars,
     scanVars, callVars
<1>2. CleanOf(t)'
  BY <1>0, <1>1 DEF CleanOf, Target
<1>3. FreeAreClean' /\ Marks(t)
  BY <1>0, <1>1 DEF FreeAreClean, Frees, FreeBlocks, Marks
<1>4. DirtyCountExact'
  BY <1>0, <1>1, DirtyStays
<1> QED
  BY <1>2, <1>3, <1>4, DirtyStep

(* AddBlockToFreeList() of a block that has been written.                  *)
LEMMA Dirty_Release ==
    ASSUME DirtyInv, NEW t \in Threads, Others(t), Release(t)
    PROVE  Dirty'
<1>0. /\ CallTypes /\ BandTypes /\ OwnInv /\ CleanOf(t)
      /\ FreeAreClean /\ DirtyCountExact
  BY DirtyParts
<1>b. PICK b : b = Target(t)
  OBVIOUS
<1>d. PICK d : d = BandOf(key[b])
  OBVIOUS
<1>1. /\ pc[t] = "release" /\ pc'[t] = "keepAlive"
      /\ psListBlocksToFree' = [psListBlocksToFree EXCEPT ![d] = <<b>> \o @]
      /\ UNCHANGED <<key, bDirty, nDirtyBlocks>>
  BY <1>0, <1>b, <1>d DEF Release, CallTypes, Goto
<1>2. b \in Blocks /\ d \in Bands /\ ~bDirty[b]
  <2>1. b \in Claimed(t) /\ ~bDirty[b]
    BY <1>0, <1>b, <1>1, TargetIsClaimed DEF CleanOf
  <2> QED BY <1>0, <1>d, <2>1, ClaimedAreBlocks, KeyParts
<1>3. \A e \in Bands : FreeBlocks(e)' \subseteq FreeBlocks(e) \cup {b}
  <2>1. psListBlocksToFree[d] \in Seq(Blocks)
        /\ psListBlocksToFree'[d] = <<b>> \o psListBlocksToFree[d]
    BY <1>0, <1>1, <1>2 DEF BandTypes
  <2>2. FreeBlocks(d)' = FreeBlocks(d) \cup {b}
    BY <1>2, <2>1, PushProperties DEF FreeBlocks
  <2>3. \A e \in Bands : e # d => FreeBlocks(e)' = FreeBlocks(e)
    BY <1>0, <1>1 DEF BandTypes, FreeBlocks
  <2> QED BY <2>2, <2>3
<1>4. FreeAreClean'
  BY <1>0, <1>1, <1>2, <1>3 DEF FreeAreClean, Frees
<1>5. CleanOf(t)' /\ Marks(t)
  BY <1>1 DEF CleanOf, Marks
<1>6. DirtyCountExact'
  BY <1>0, <1>1, DirtyStays
<1> QED
  BY <1>4, <1>5, <1>6, DirtyStep

(* FreeDanglingBlocks() deletes clean blocks.                              *)
LEMMA FreedAreClean ==
    ASSUME DirtyInv, NEW t \in Threads, NEW d \in Bands, FreeDanglingBlocks(d)
    PROVE  /\ Marks(t) /\ FreeAreClean'
           /\ \A b \in Blocks : \/ key'[b] = key[b] /\ bDirty'[b] = bDirty[b]
                                \/ /\ key[b] = NoKey \/ ~bDirty[b]
                                   /\ key'[b] = NoKey \/ ~bDirty'[b]
<1>0. BlockTypes /\ BandTypes /\ FreeAreClean
  BY DirtyParts
<1>1. /\ \A c \in FreeBlocks(d) : c \in Blocks => key'[c] = NoKey
      /\ \A c \in Blocks : c \notin FreeBlocks(d) => key'[c] = key[c]
      /\ \A c \in Blocks : c \notin FreeBlocks(d) => bDirty'[c] = bDirty[c]
  <2>1. /\ key' = [c \in Blocks |-> IF c \in FreeBlocks(d) THEN NoKey ELSE key[c]]
        /\ bDirty' = [c \in Blocks |-> bDirty[c] /\ c \notin FreeBlocks(d)]
    BY DEF FreeDanglingBlocks, Deleted, FreeBlocks
  <2>2. \A c \in Blocks : c \notin FreeBlocks(d) => bDirty'[c] = bDirty[c]
    BY <1>0, <2>1 DEF BlockTypes
  <2> QED BY <2>1, <2>2
<1>2. \A c \in FreeBlocks(d) : c \in Blocks => ~bDirty[c] /\ ~bDirty'[c]
  <2>1. bDirty' = [c \in Blocks |-> bDirty[c] /\ c \notin FreeBlocks(d)]
    BY DEF FreeDanglingBlocks, Deleted, FreeBlocks
  <2> QED BY <1>0, <2>1 DEF FreeAreClean, Frees
<1>3. \A e \in Bands : FreeBlocks(e)' \subseteq FreeBlocks(e)
  <2>1. psListBlocksToFree'[d] = <<>> /\ ToSet(<<>>) = {}
    BY <1>0 DEF FreeDanglingBlocks, BandTypes, ToSet
  <2>2. \A e \in Bands : e # d => psListBlocksToFree'[e] = psListBlocksToFree[e]
    BY <1>0 DEF FreeDanglingBlocks, BandTypes
  <2> QED BY <2>1, <2>2 DEF FreeBlocks
<1>4. Marks(t)
  BY <1>1 DEF Marks, Mine, Frees
<1>5. FreeAreClean'
  <2> SUFFICES ASSUME NEW c \in Blocks, NEW e \in Bands, c \in FreeBlocks(e)'
               PROVE  ~bDirty'[c]
    BY DEF FreeAreClean, Frees
  <2>1. ~bDirty[c]
    BY <1>0, <1>3 DEF FreeAreClean, Frees
  <2> QED BY <1>1, <1>2, <2>1
<1> QED
  BY <1>1, <1>2, <1>4, <1>5

(* AdoptBlock() and FlushCache() free dangling blocks.                     *)
LEMMA Dirty_AdoptBlock ==
    ASSUME DirtyInv, NEW t \in Threads, Others(t), NEW ok \in BOOLEAN,
           AdoptBlock(t, ok)
    PROVE  Dirty'
<1>0. CallTypes /\ CallOf(t) /\ DirtyCountExact
  BY DirtyParts
<1>1. /\ pc[t] = "adopt" /\ pc'[t] \in {"discard", "readRW", "locked"}
      /\ FreeDanglingBlocks(BandOf(at[t])) /\ UNCHANGED nDirtyBlocks
  BY <1>0 DEF AdoptBlock, CallTypes, Goto
<1>2. BandOf(at[t]) \in Bands
  BY <1>0, <1>1, AtIsKey DEF OwnerLabels, IoLabels
<1>3. /\ Marks(t) /\ FreeAreClean'
      /\ \A b \in Blocks : \/ key'[b] = key[b] /\ bDirty'[b] = bDirty[b]
                           \/ /\ key[b] = NoKey \/ ~bDirty[b]
                              /\ key'[b] = NoKey \/ ~bDirty'[b]
  BY <1>1, <1>2, FreedAreClean
<1>4. DirtyCountExact'
  BY <1>0, <1>1, <1>3, DirtyStays
<1>5. CleanOf(t)'
  BY <1>1 DEF CleanOf
<1> QED
  BY <1>3, <1>4, <1>5, DirtyStep

(* FlushCache() of the storage does the same.                              *)
LEMMA Dirty_FlushStorage ==
    ASSUME DirtyInv, NEW t \in Threads, Others(t), FlushStorage(t)
    PROVE  Dirty'
<1>0. CallTypes /\ CallOf(t) /\ DirtyCountExact
  BY DirtyParts
<1>1. /\ pc[t] = "flushStorage" /\ pc'[t] = "flushNext"
      /\ FreeDanglingBlocks(BandOf(at[t])) /\ UNCHANGED nDirtyBlocks
  BY <1>0 DEF FlushStorage, CallTypes, Goto
<1>2. BandOf(at[t]) \in Bands
  BY <1>0, <1>1, AtIsKey DEF CallOf, OpOf, OwnerOps
<1>3. /\ Marks(t) /\ FreeAreClean'
      /\ \A b \in Blocks : \/ key'[b] = key[b] /\ bDirty'[b] = bDirty[b]
                           \/ /\ key[b] = NoKey \/ ~bDirty[b]
                              /\ key'[b] = NoKey \/ ~bDirty'[b]
  BY <1>1, <1>2, FreedAreClean
<1>4. DirtyCountExact'
  BY <1>0, <1>1, <1>3, DirtyStays
<1>5. CleanOf(t)'
  BY <1>1 DEF CleanOf
<1> QED
  BY <1>3, <1>4, <1>5, DirtyStep

(* ~GDALRasterBand() leaves no block of the band behind, dirty or not.     *)
LEMMA Dirty_Destroy ==
    ASSUME DirtyInv, NEW t \in Threads, Others(t), Destroy(t), Alive'
    PROVE  Dirty'
<1>0. /\ CallTypes /\ CallOf(t) /\ DirtyCountExact /\ BlockTypes /\ BandTypes
  BY DirtyParts
<1>d. PICK d : d = BandOf(at[t])
  OBVIOUS
<1>1. /\ pc[t] = "destroy" /\ pc'[t] \in {"flushed", "flushCache"}
      /\ FreeDanglingBlocks(d)
      /\ alive' = [alive EXCEPT ![d] = FALSE]
      /\ nDirtyBlocks' = [nDirtyBlocks EXCEPT ![d] = 0]
  BY <1>0, <1>d DEF Destroy, CallTypes, Goto
<1>2. d \in Bands
  BY <1>0, <1>d, <1>1, AtIsKey DEF CallOf, OpOf, OwnerOps, FlushOps
<1>3. /\ Marks(t) /\ FreeAreClean'
      /\ \A b \in Blocks : \/ key'[b] = key[b] /\ bDirty'[b] = bDirty[b]
                           \/ /\ key[b] = NoKey \/ ~bDirty[b]
                              /\ key'[b] = NoKey \/ ~bDirty'[b]
  BY <1>1, <1>2, FreedAreClean
<1>4. DirtyBlocks(d)' = {}
  <2>1. alive'[d] = FALSE
    BY <1>0, <1>1, <1>2 DEF BandTypes
  <2>2. \A b \in Blocks : key'[b] \in Keys \cup {NoKey}
    BY <1>0, <1>1 DEF FreeDanglingBlocks, Deleted, BlockTypes
  <2>3. \A b \in Blocks : key'[b] \in Keys => alive'[BandOf(key'[b])]
    BY DEF Alive
  <2> QED BY <2>1, <2>2, <2>3 DEF DirtyBlocks
<1>5. DirtyCountExact'
  <2> SUFFICES ASSUME NEW e \in Bands
               PROVE  nDirtyBlocks'[e] = Cardinality(DirtyBlocks(e)')
    BY DirtyCountIs
  <2>1. CASE e = d
    BY <1>0, <1>1, <1>2, <1>4, <2>1, FS_EmptySet DEF BandTypes
  <2>2. CASE e # d
    <3>1. DirtyBlocks(e)' = DirtyBlocks(e)
      BY <1>3 DEF DirtyBlocks
    <3>2. nDirtyBlocks'[e] = nDirtyBlocks[e]
      BY <1>0, <1>1, <2>2 DEF BandTypes
    <3> QED BY <1>0, <3>1, <3>2, DirtyCountIs
  <2> QED BY <2>1, <2>2
<1>6. CleanOf(t)'
  BY <1>1 DEF CleanOf
<1> QED
  BY <1>3, <1>5, <1>6, DirtyStep

(* A block is deleted when it has been written.                            *)
LEMMA Dirty_Delete ==
    ASSUME DirtyInv, NEW t \in Threads, Others(t), Delete(t)
    PROVE  Dirty'
<1>0. /\ CallTypes /\ BlockTypes /\ OwnInv /\ KeysOf(t) /\ CleanOf(t)
      /\ Exclusive /\ FreeAreClean /\ DirtyCountExact
  BY DirtyParts
<1>b. PICK b : b = poBlock[t]
  OBVIOUS
<1>1. /\ pc[t] = "delete" /\ pc'[t] \in {"flushNext", "failed", "flushed"}
      /\ key' = [c \in Blocks |-> IF c \in {b} THEN NoKey ELSE key[c]]
      /\ bDirty' = [c \in Blocks |-> bDirty[c] /\ c \notin {b}]
      /\ UNCHANGED <<psListBlocksToFree, nDirtyBlocks>>
  <2>1. pc[t] = "delete"
    BY <1>0 DEF Delete, KeysOf
  <2> QED BY <1>0, <1>b, <2>1 DEF Delete, Deleted, AfterFlushBlock, CallTypes,
             Goto, bandVars
<1>2. b \in Claimed(t) /\ ~bDirty[b]
  BY <1>0, <1>b, <1>1 DEF Claimed, Flushing, CleanOf
<1>3. \A c \in Blocks : c # b => key'[c] = key[c] /\ bDirty'[c] = bDirty[c]
  BY <1>0, <1>1 DEF BlockTypes
<1>4. b \in Blocks => ~bDirty'[b]
  BY <1>1, <1>2
<1>5. Marks(t)
  BY <1>2, <1>3 DEF Marks, Mine
<1>6. CleanOf(t)'
  BY <1>1 DEF CleanOf
<1>7. FreeAreClean'
  BY <1>0, <1>1, <1>3, <1>4 DEF FreeAreClean, Frees, FreeBlocks
<1>8. DirtyCountExact'
  BY <1>0, <1>1, <1>2, <1>3, <1>4, DirtyStays
<1> QED
  BY <1>5, <1>6, <1>7, <1>8, DirtyStep

-----------------------------------------------------------------------------
(* The calls.                                                              *)
LEMMA Dirty_Start ==
    ASSUME DirtyInv, DirtyIsWritten, NEW t \in Threads, Start(t)
    PROVE  Dirty' /\ Healthy'
<1>0. /\ CallTypes /\ BandTypes /\ FlushTypes /\ Healthy /\ Others(t)
  BY DirtyParts, Others_Start
<1>d. ASSUME Plain(t) PROVE Dirty'
  BY <1>0, <1>d, PlainStep
<1>h. ASSUME UNCHANGED <<eFlushBlockErr, eGlobalErr, op>> PROVE Healthy'
  BY <1>0, <1>h DEF Healthy
<1> USE DEF Goto, CallTypes, blockVars, bandVars, callVars, flushVars
<1>1. ASSUME NEW o \in Ops, NEW k \in Keys, StartIO(t, o, k) PROVE Dirty' /\ Healthy'
  <2>1. Dirty'
    <3>1. Plain(t)
      BY <1>0, <1>1 DEF StartIO, Plain
    <3> QED BY <1>d, <3>1
  <2>2. Healthy'
    BY <1>0, <1>1 DEF StartIO, Healthy, DirtyIsWritten, BandTypes, FlushTypes,
       IoOps, ReadOps, WriteOps, GlobalOps
  <2> QED BY <2>1, <2>2
<1>2. ASSUME NEW o \in Ops, NEW k \in Keys, StartFlush(t, o, k) PROVE Dirty' /\ Healthy'
  <2>1. Dirty'
    <3>1. Plain(t)
      BY <1>0, <1>2 DEF StartFlush, Plain
    <3> QED BY <1>d, <3>1
  <2>2. Healthy'
    BY <1>0, <1>2 DEF StartFlush, Healthy, DirtyIsWritten, BandTypes,
       FlushTypes, IoOps, ReadOps, WriteOps, GlobalOps
  <2> QED BY <2>1, <2>2
<1>3. ASSUME NEW o \in Ops, StartGlobal(t, o) PROVE Dirty' /\ Healthy'
  <2>1. Dirty'
    <3>1. Plain(t)
      BY <1>0, <1>3 DEF StartGlobal, Plain
    <3> QED BY <1>d, <3>1
  <2>2. Healthy'
    BY <1>0, <1>3 DEF StartGlobal, Healthy, DirtyIsWritten, BandTypes,
       FlushTypes, IoOps, ReadOps, WriteOps, GlobalOps
  <2> QED BY <2>1, <2>2
<1>4. ASSUME NEW ds \in Datasets, Reopen(t, ds) PROVE Dirty' /\ Healthy'
  <2>1. Dirty'
    <3>1. Plain(t)
      BY <1>0, <1>4 DEF Reopen, Plain
    <3> QED BY <1>d, <3>1
  <2>2. Healthy'
    BY <1>h, <1>4 DEF Reopen
  <2> QED BY <2>1, <2>2
<1>5. CASE EnterDisableDirtyBlockFlush(t)
  <2>1. Dirty'
    <3>1. Plain(t)
      BY <1>0, <1>5 DEF EnterDisableDirtyBlockFlush, Plain
    <3> QED BY <1>d, <3>1
  <2>2. Healthy'
    BY <1>h, <1>5 DEF EnterDisableDirtyBlockFlush
  <2> QED BY <2>1, <2>2
<1>6. CASE LeaveDisableDirtyBlockFlush(t)
  <2>1. Dirty'
    <3>1. Plain(t)
      BY <1>0, <1>6 DEF LeaveDisableDirtyBlockFlush, Plain
    <3> QED BY <1>d, <3>1
  <2>2. Healthy'
    BY <1>h, <1>6 DEF LeaveDisableDirtyBlockFlush
  <2> QED BY <2>1, <2>2
<1> QED
  BY <1>1, <1>2, <1>3, <1>4, <1>5, <1>6 DEF Start

(* GetLockedBlockRef() and its callers.                                    *)
LEMMA Dirty_Io ==
    ASSUME DirtyInv, DirtyIsWritten, NEW t \in Threads, IoStep(t)
    PROVE  Dirty' /\ Healthy'
<1>0. /\ CallTypes /\ BandTypes /\ FlushTypes /\ Healthy /\ Others(t)
  BY DirtyParts, Others_Io
<1>d. ASSUME Plain(t) PROVE Dirty'
  BY <1>0, <1>d, PlainStep
<1>h. ASSUME UNCHANGED <<eFlushBlockErr, eGlobalErr, op>> PROVE Healthy'
  BY <1>0, <1>h DEF Healthy
<1> USE DEF Goto, CallTypes, blockVars, bandVars, callVars, flushVars
<1>1. CASE WaitPendingTasks(t)
  <2>1. Dirty'
    <3>1. Plain(t)
      BY <1>0, <1>1 DEF WaitPendingTasks, Plain
    <3> QED BY <1>d, <3>1
  <2>2. Healthy'
    BY <1>h, <1>1 DEF WaitPendingTasks
  <2> QED BY <2>1, <2>2
<1>2. CASE EnterReadWrite(t)
  <2>1. Dirty'
    <3>1. Plain(t)
      BY <1>0, <1>2 DEF EnterReadWrite, Plain
    <3> QED BY <1>d, <3>1
  <2>2. Healthy'
    BY <1>h, <1>2 DEF EnterReadWrite
  <2> QED BY <2>1, <2>2
<1>3. CASE TryGetLockedBlockRef(t)
  <2>1. Dirty'
    <3>1. Plain(t)
      BY <1>0, <1>3 DEF TryGetLockedBlockRef, Plain
    <3> QED BY <1>d, <3>1
  <2>2. Healthy'
    BY <1>h, <1>3 DEF TryGetLockedBlockRef
  <2> QED BY <2>1, <2>2
<1>4. CASE TakeLock(t)
  <2>1. Dirty'
    <3>1. Plain(t)
      BY <1>0, <1>4 DEF TakeLock, Plain
    <3> QED BY <1>d, <3>1
  <2>2. Healthy'
    BY <1>h, <1>4 DEF TakeLock
  <2> QED BY <2>1, <2>2
<1>5. CASE TakeLockFailed(t)
  <2>1. Dirty'
    <3>1. Plain(t)
      BY <1>0, <1>5 DEF TakeLockFailed, Plain
    <3> QED BY <1>d, <3>1
  <2>2. Healthy'
    BY <1>h, <1>5 DEF TakeLockFailed
  <2> QED BY <2>1, <2>2
<1>6. CASE Touch(t)
  <2>1. Dirty'
    <3>1. Plain(t)
      BY <1>0, <1>6 DEF Touch, IsNewest, Plain
    <3> QED BY <1>d, <3>1
  <2>2. Healthy'
    BY <1>h, <1>6 DEF Touch, IsNewest
  <2> QED BY <2>1, <2>2
<1>7. CASE TouchLocked(t)
  <2>1. Dirty'
    <3>1. Plain(t)
      BY <1>0, <1>7 DEF TouchLocked, Plain
    <3> QED BY <1>d, <3>1
  <2>2. Healthy'
    BY <1>h, <1>7 DEF TouchLocked
  <2> QED BY <2>1, <2>2
<1>8. CASE CreateBlockFails(t)
  <2>1. Dirty'
    <3>1. Plain(t)
      BY <1>0, <1>8 DEF CreateBlockFails, Plain
    <3> QED BY <1>d, <3>1
  <2>2. Healthy'
    BY <1>h, <1>8 DEF CreateBlockFails
  <2> QED BY <2>1, <2>2
<1>9. CASE ReacquireReadWriteLock(t)
  <2>1. Dirty'
    <3>1. Plain(t)
      BY <1>0, <1>9 DEF ReacquireReadWriteLock, Plain
    <3> QED BY <1>d, <3>1
  <2>2. Healthy'
    BY <1>h, <1>9 DEF ReacquireReadWriteLock
  <2> QED BY <2>1, <2>2
<1>10. ASSUME NEW b \in Blocks, CreateBlock(t, b) PROVE Dirty' /\ Healthy'
  <2>1. Dirty'
    BY <1>0, <1>10, Dirty_CreateBlock
  <2>2. Healthy'
    BY <1>h, <1>10 DEF CreateBlock
  <2> QED BY <2>1, <2>2
<1>11. ASSUME NEW ok \in BOOLEAN, Allocate(t, ok) PROVE Dirty' /\ Healthy'
  <2>1. Dirty'
    <3>1. Plain(t)
      BY <1>0, <1>11 DEF Allocate, Plain
    <3> QED BY <1>d, <3>1
  <2>2. Healthy'
    BY <1>h, <1>11 DEF Allocate
  <2> QED BY <2>1, <2>2
<1>12. ASSUME NEW ok \in BOOLEAN, AdoptBlock(t, ok) PROVE Dirty' /\ Healthy'
  <2>1. Dirty'
    BY <1>0, <1>12, Dirty_AdoptBlock
  <2>2. Healthy'
    BY <1>h, <1>12 DEF AdoptBlock
  <2> QED BY <2>1, <2>2
<1>13. ASSUME NEW ok \in BOOLEAN, ReadBlock(t, ok) PROVE Dirty' /\ Healthy'
  <2>1. Dirty'
    <3>1. Plain(t)
      BY <1>0, <1>13 DEF ReadBlock, Plain
    <3> QED BY <1>d, <3>1
  <2>2. Healthy'
    BY <1>h, <1>13 DEF ReadBlock
  <2> QED BY <2>1, <2>2
<1>14. CASE WriteLocked(t)
  <2>1. Dirty'
    BY <1>0, <1>14, Dirty_WriteLocked
  <2>2. Healthy'
    BY <1>h, <1>14 DEF WriteLocked
  <2> QED BY <2>1, <2>2
<1>15. CASE Discard(t)
  <2>1. Dirty'
    <3>1. Plain(t)
      BY <1>0, <1>15 DEF Discard, Plain
    <3> QED BY <1>d, <3>1
  <2>2. Healthy'
    BY <1>h, <1>15 DEF Discard
  <2> QED BY <2>1, <2>2
<1>16. CASE Failed(t)
  <2>1. Dirty'
    <3>1. Plain(t)
      BY <1>0, <1>16 DEF Failed, Return, Plain
    <3> QED BY <1>d, <3>1
  <2>2. Healthy'
    BY <1>0, <1>16 DEF Failed, Return, Healthy, DirtyIsWritten, BandTypes,
       FlushTypes
  <2> QED BY <2>1, <2>2
<1>17. ASSUME NEW more \in BOOLEAN, DropLock(t, more) PROVE Dirty' /\ Healthy'
  <2>1. Dirty'
    <3>1. Plain(t)
      BY <1>0, <1>17 DEF DropLock, Return, Plain
    <3> QED BY <1>d, <3>1
  <2>2. Healthy'
    BY <1>0, <1>17 DEF DropLock, Return, Healthy, DirtyIsWritten, BandTypes,
       FlushTypes
  <2> QED BY <2>1, <2>2
<1> QED
  BY <1>1, <1>2, <1>3, <1>4, <1>5, <1>6, <1>7, <1>8, <1>9, <1>10, <1>11,
     <1>12, <1>13, <1>14, <1>15, <1>16, <1>17 DEF IoStep

(* Evictions.                                                              *)
LEMMA Dirty_Evict ==
    ASSUME DirtyInv, DirtyIsWritten, NEW t \in Threads, EvictStep(t)
    PROVE  Dirty' /\ Healthy'
<1>0. /\ CallTypes /\ BandTypes /\ FlushTypes /\ Healthy /\ Others(t)
  BY DirtyParts, Others_Evict
<1>d. ASSUME Plain(t) PROVE Dirty'
  BY <1>0, <1>d, PlainStep
<1>h. ASSUME UNCHANGED <<eFlushBlockErr, eGlobalErr, op>> PROVE Healthy'
  BY <1>0, <1>h DEF Healthy
<1> USE DEF Goto, CallTypes, blockVars, bandVars, callVars, flushVars
<1>1. CASE InternalizeLock(t)
  <2>1. Dirty'
    <3>1. Plain(t)
      BY <1>0, <1>1 DEF InternalizeLock, StartRound, Plain
    <3> QED BY <1>d, <3>1
  <2>2. Healthy'
    BY <1>h, <1>1 DEF InternalizeLock, StartRound
  <2> QED BY <2>1, <2>2
<1>2. CASE Scan(t)
  <2>1. Dirty'
    <3>1. Plain(t)
      BY <1>0, <1>2 DEF Scan, Plain
    <3> QED BY <1>d, <3>1
  <2>2. Healthy'
    BY <1>h, <1>2 DEF Scan
  <2> QED BY <2>1, <2>2
<1>3. CASE Exchange(t)
  <2>1. Dirty'
    <3>1. Plain(t)
      BY <1>0, <1>3 DEF Exchange, Claim, Plain
    <3> QED BY <1>d, <3>1
  <2>2. Healthy'
    BY <1>h, <1>3 DEF Exchange, Claim
  <2> QED BY <2>1, <2>2
<1>4. CASE ExchangeOther(t)
  <2>1. Dirty'
    <3>1. Plain(t)
      BY <1>0, <1>4 DEF ExchangeOther, Claim, Plain
    <3> QED BY <1>d, <3>1
  <2>2. Healthy'
    BY <1>h, <1>4 DEF ExchangeOther, Claim
  <2> QED BY <2>1, <2>2
<1>5. CASE Fallback(t)
  <2>1. Dirty'
    <3>1. Plain(t)
      BY <1>0, <1>5 DEF Fallback, Claim, Plain
    <3> QED BY <1>d, <3>1
  <2>2. Healthy'
    BY <1>h, <1>5 DEF Fallback, Claim
  <2> QED BY <2>1, <2>2
<1>6. CASE FallbackEnds(t)
  <2>1. Dirty'
    <3>1. Plain(t)
      BY <1>0, <1>6 DEF FallbackEnds, Plain
    <3> QED BY <1>d, <3>1
  <2>2. Healthy'
    BY <1>h, <1>6 DEF FallbackEnds
  <2> QED BY <2>1, <2>2
<1>7. CASE Detach(t)
  <2>1. Dirty'
    <3>1. Plain(t)
      BY <1>0, <1>7 DEF Detach, Plain
    <3> QED BY <1>d, <3>1
  <2>2. Healthy'
    BY <1>h, <1>7 DEF Detach
  <2> QED BY <2>1, <2>2
<1>8. CASE UnreferenceBlock(t)
  <2>1. Dirty'
    <3>1. Plain(t)
      BY <1>0, <1>8 DEF UnreferenceBlock, Plain
    <3> QED BY <1>d, <3>1
  <2>2. Healthy'
    BY <1>h, <1>8 DEF UnreferenceBlock
  <2> QED BY <2>1, <2>2
<1>9. CASE Scanned(t)
  <2>1. Dirty'
    <3>1. Plain(t)
      BY <1>0, <1>9 DEF Scanned, Plain
    <3> QED BY <1>d, <3>1
  <2>2. Healthy'
    BY <1>h, <1>9 DEF Scanned
  <2> QED BY <2>1, <2>2
<1>10. CASE FreeNext(t)
  <2>1. Dirty'
    BY <1>0, <1>10, Dirty_FreeNext
  <2>2. Healthy'
    BY <1>h, <1>10 DEF FreeNext
  <2> QED BY <2>1, <2>2
<1>11. CASE Release(t)
  <2>1. Dirty'
    BY <1>0, <1>11, Dirty_Release
  <2>2. Healthy'
    BY <1>h, <1>11 DEF Release
  <2> QED BY <2>1, <2>2
<1>12. CASE KeepAliveDec(t)
  <2>1. Dirty'
    <3>1. Plain(t)
      BY <1>0, <1>12 DEF KeepAliveDec, Plain
    <3> QED BY <1>d, <3>1
  <2>2. Healthy'
    BY <1>h, <1>12 DEF KeepAliveDec
  <2> QED BY <2>1, <2>2
<1>13. CASE FreeEnds(t)
  <2>1. Dirty'
    <3>1. Plain(t)
      BY <1>0, <1>13 DEF FreeEnds, Plain
    <3> QED BY <1>d, <3>1
  <2>2. Healthy'
    BY <1>h, <1>13 DEF FreeEnds
  <2> QED BY <2>1, <2>2
<1>14. ASSUME NEW ok \in BOOLEAN, WriteEvicted(t, ok) PROVE Dirty' /\ Healthy'
  <2>1. Dirty'
    BY <1>0, <1>14, Dirty_Written
  <2>2. Healthy'
    BY <1>0, <1>14 DEF WriteEvicted, Healthy, DirtyIsWritten, BandTypes,
       FlushTypes
  <2> QED BY <2>1, <2>2
<1>15. CASE SetCacheMaxLoop(t)
  <2>1. Dirty'
    <3>1. Plain(t)
      BY <1>0, <1>15 DEF SetCacheMaxLoop, Plain
    <3> QED BY <1>d, <3>1
  <2>2. Healthy'
    BY <1>h, <1>15 DEF SetCacheMaxLoop
  <2> QED BY <2>1, <2>2
<1>16. CASE FlushCacheBlock(t)
  <2>1. Dirty'
    <3>1. Plain(t)
      BY <1>0, <1>16 DEF FlushCacheBlock, Plain
    <3> QED BY <1>d, <3>1
  <2>2. Healthy'
    BY <1>h, <1>16 DEF FlushCacheBlock
  <2> QED BY <2>1, <2>2
<1>17. CASE FlushScan(t)
  <2>1. Dirty'
    <3>1. Plain(t)
      BY <1>0, <1>17 DEF FlushScan, Plain
    <3> QED BY <1>d, <3>1
  <2>2. Healthy'
    BY <1>h, <1>17 DEF FlushScan
  <2> QED BY <2>1, <2>2
<1>18. CASE FlushExchange(t)
  <2>1. Dirty'
    <3>1. Plain(t)
      BY <1>0, <1>18 DEF FlushExchange, Claim, Plain
    <3> QED BY <1>d, <3>1
  <2>2. Healthy'
    BY <1>h, <1>18 DEF FlushExchange, Claim
  <2> QED BY <2>1, <2>2
<1>19. CASE FlushScanEnds(t)
  <2>1. Dirty'
    <3>1. Plain(t)
      BY <1>0, <1>19 DEF FlushScanEnds, Plain
    <3> QED BY <1>d, <3>1
  <2>2. Healthy'
    BY <1>h, <1>19 DEF FlushScanEnds
  <2> QED BY <2>1, <2>2
<1>20. CASE FlushedOne(t)
  <2>1. Dirty'
    <3>1. Plain(t)
      BY <1>0, <1>20 DEF FlushedOne, Plain
    <3> QED BY <1>d, <3>1
  <2>2. Healthy'
    BY <1>h, <1>20 DEF FlushedOne
  <2> QED BY <2>1, <2>2
<1> QED
  BY <1>1, <1>2, <1>3, <1>4, <1>5, <1>6, <1>7, <1>8, <1>9, <1>10, <1>11,
     <1>12, <1>13, <1>14, <1>15, <1>16, <1>17, <1>18, <1>19, <1>20 DEF
     EvictStep

(* FlushBlock(), FlushCache() and the destructors.                         *)
LEMMA Dirty_Flush ==
    ASSUME DirtyInv, DirtyIsWritten, Alive', NEW t \in Threads, FlushStep(t)
    PROVE  Dirty' /\ Healthy'
<1>0. /\ CallTypes /\ BandTypes /\ FlushTypes /\ Healthy /\ Others(t)
  BY DirtyParts, Others_Flush
<1>d. ASSUME Plain(t) PROVE Dirty'
  BY <1>0, <1>d, PlainStep
<1>h. ASSUME UNCHANGED <<eFlushBlockErr, eGlobalErr, op>> PROVE Healthy'
  BY <1>0, <1>h DEF Healthy
<1>k. pc[t] \in {"flushWrite", "flushStorage"} => BandOf(at[t]) \in Bands
  <2>1. CallOf(t)
    BY DirtyParts
  <2> QED BY <2>1, AtIsKey DEF CallOf, OpOf, OwnerOps, OwnerLabels, FlushLabels
<1> USE DEF Goto, CallTypes, blockVars, bandVars, callVars, flushVars
<1>1. CASE FlushBlock(t)
  <2>1. Dirty'
    <3>1. Plain(t)
      BY <1>0, <1>1 DEF FlushBlock, AfterFlushBlock, Plain
    <3> QED BY <1>d, <3>1
  <2>2. Healthy'
    BY <1>h, <1>1 DEF FlushBlock, AfterFlushBlock
  <2> QED BY <2>1, <2>2
<1>2. CASE ClaimFlush(t)
  <2>1. Dirty'
    <3>1. Plain(t)
      BY <1>0, <1>2 DEF ClaimFlush, Plain
    <3> QED BY <1>d, <3>1
  <2>2. Healthy'
    BY <1>h, <1>2 DEF ClaimFlush
  <2> QED BY <2>1, <2>2
<1>3. CASE FlushWait(t)
  <2>1. Dirty'
    <3>1. Plain(t)
      BY <1>0, <1>3 DEF FlushWait, AfterFlushBlock, Plain
    <3> QED BY <1>d, <3>1
  <2>2. Healthy'
    BY <1>h, <1>3 DEF FlushWait, AfterFlushBlock
  <2> QED BY <2>1, <2>2
<1>4. CASE FlushDetach(t)
  <2>1. Dirty'
    <3>1. Plain(t)
      BY <1>0, <1>4 DEF FlushDetach, Plain
    <3> QED BY <1>d, <3>1
  <2>2. Healthy'
    BY <1>h, <1>4 DEF FlushDetach
  <2> QED BY <2>1, <2>2
<1>5. CASE FlushWrite(t)
  <2>1. Dirty'
    BY <1>0, <1>5, Dirty_FlushWrite
  <2>2. Healthy'
    BY <1>0, <1>k, <1>5 DEF FlushWrite, MustWrite, Healthy, DirtyIsWritten,
       BandTypes, FlushTypes
  <2> QED BY <2>1, <2>2
<1>6. CASE Delete(t)
  <2>1. Dirty'
    BY <1>0, <1>6, Dirty_Delete
  <2>2. Healthy'
    BY <1>h, <1>6 DEF Delete, Deleted, AfterFlushBlock
  <2> QED BY <2>1, <2>2
<1>7. CASE FlushCache(t)
  <2>1. Dirty'
    <3>1. Plain(t)
      BY <1>0, <1>7 DEF FlushCache, Plain
    <3> QED BY <1>d, <3>1
  <2>2. Healthy'
    BY <1>0, <1>7 DEF FlushCache, Healthy, DirtyIsWritten, BandTypes,
       FlushTypes
  <2> QED BY <2>1, <2>2
<1>8. CASE FlushStorage(t)
  <2>1. Dirty'
    BY <1>0, <1>8, Dirty_FlushStorage
  <2>2. Healthy'
    BY <1>0, <1>k, <1>8 DEF FlushStorage, Healthy, DirtyIsWritten, BandTypes,
       FlushTypes
  <2> QED BY <2>1, <2>2
<1>9. CASE FlushNext(t)
  <2>1. Dirty'
    <3>1. Plain(t)
      BY <1>0, <1>9 DEF FlushNext, Plain
    <3> QED BY <1>d, <3>1
  <2>2. Healthy'
    BY <1>h, <1>9 DEF FlushNext
  <2> QED BY <2>1, <2>2
<1>10. CASE FlushEnds(t)
  <2>1. Dirty'
    <3>1. Plain(t)
      BY <1>0, <1>10 DEF FlushEnds, Plain
    <3> QED BY <1>d, <3>1
  <2>2. Healthy'
    BY <1>h, <1>10 DEF FlushEnds
  <2> QED BY <2>1, <2>2
<1>11. CASE Destroy(t)
  <2>1. Dirty'
    BY <1>0, <1>11, Dirty_Destroy
  <2>2. Healthy'
    BY <1>0, <1>11 DEF Destroy, Healthy, DirtyIsWritten, BandTypes, FlushTypes
  <2> QED BY <2>1, <2>2
<1>12. CASE Flushed(t)
  <2>1. Dirty'
    <3>1. Plain(t)
      BY <1>0, <1>12 DEF Flushed, Return, Plain
    <3> QED BY <1>d, <3>1
  <2>2. Healthy'
    BY <1>0, <1>12 DEF Flushed, Return, Healthy, DirtyIsWritten, BandTypes,
       FlushTypes
  <2> QED BY <2>1, <2>2
<1>13. ASSUME NEW ok \in BOOLEAN, FlushIO(t, ok) PROVE Dirty' /\ Healthy'
  <2>1. Dirty'
    BY <1>0, <1>13, Dirty_Written
  <2>2. Healthy'
    BY <1>0, <1>13 DEF FlushIO, Healthy, DirtyIsWritten, BandTypes, FlushTypes
  <2> QED BY <2>1, <2>2
<1> QED
  BY <1>1, <1>2, <1>3, <1>4, <1>5, <1>6, <1>7, <1>8, <1>9, <1>10, <1>11,
     <1>12, <1>13 DEF FlushStep

-----------------------------------------------------------------------------
(* No block is dirty at first, and no error has happened.                  *)
LEMMA Dirty_Init == Init => Dirty /\ Healthy
<1> SUFFICES ASSUME Init PROVE Dirty /\ Healthy
  OBVIOUS
<1>1. /\ \A t \in Threads : pc[t] = "idle" /\ op[t] = "none"
      /\ \A b \in Blocks : bDirty[b] = FALSE
      /\ \A d \in Bands : nDirtyBlocks[d] = 0
      /\ \A d \in Bands : eFlushBlockErr[d] = FALSE
      /\ \A t \in Threads : eGlobalErr[t] = FALSE
  BY DEF Init
<1>2. \A d : DirtyBlocks(d) = {}
  BY <1>1 DEF DirtyBlocks
<1>3. DirtyCountExact
  BY <1>1, <1>2, FS_EmptySet, DirtyCountIs
<1>4. (\A t \in Threads : CleanOf(t)) /\ FreeAreClean
  BY <1>1 DEF CleanOf, FreeAreClean
<1>5. Healthy
  BY <1>1 DEF Healthy
<1> QED
  BY <1>3, <1>4, <1>5 DEF Dirty

(* Every step of every thread counts the blocks that it marks.             *)
LEMMA DirtyInv_Next ==
    ASSUME AllocationsSucceed, DirtyIsWritten, DirtyInv, [Next]_vars
    PROVE  DirtyInv'
<1>1. AliveInv'
  BY AliveInv_Next DEF DirtyInv
<1>a. Alive'
  BY <1>1 DEF AliveInv
<1>2. ASSUME NEW t \in Threads, Start(t) \/ Step(t) PROVE Dirty' /\ Healthy'
  BY <1>a, <1>2, Dirty_Start, Dirty_Io, Dirty_Evict, Dirty_Flush DEF Step
<1>3. CASE UNCHANGED vars
  <2>1. /\ UNCHANGED <<key, bDirty, psListBlocksToFree, nDirtyBlocks, pc, op>>
        /\ UNCHANGED <<poBlock, toFree, eFlushBlockErr, eGlobalErr>>
    BY <1>3 DEF vars, blockVars, bandVars, callVars, scanVars, flushVars
  <2>2. ASSUME NEW t \in Threads PROVE CleanOf(t)'
    <3>1. CleanOf(t) /\ Target(t)' = Target(t)
      BY <2>1, DirtyParts DEF Target
    <3> QED BY <2>1, <3>1 DEF CleanOf
  <2>3. FreeAreClean'
    BY <2>1, DirtyParts DEF FreeAreClean, Frees, FreeBlocks
  <2>4. DirtyCountExact'
    BY <2>1, DirtyParts, DirtyStays
  <2>5. Healthy'
    BY <2>1, DirtyParts DEF Healthy
  <2> QED BY <1>1, <2>2, <2>3, <2>4, <2>5 DEF DirtyInv, Dirty
<1> QED
  BY <1>1, <1>2, <1>3 DEF Next, DirtyInv

(* m_nDirtyBlocks is exact at every step, although MarkDirty() is called   *)
(* by the owner of a band and MarkClean() also by evictors of other        *)
(* threads, and the destructor resets it: HasDirtyBlocks() neither misses  *)
(* a dirty block nor reports one that is gone.                             *)
THEOREM DirtyCountIsExact ==
    AllocationsSucceed /\ DirtyIsWritten => (Spec => []DirtyCountExact)
<1> SUFFICES ASSUME AllocationsSucceed, DirtyIsWritten
             PROVE  Spec => []DirtyCountExact
  OBVIOUS
<1>1. Init => DirtyInv
  BY ControlInv_Init, Owned_Init, Filed_Init, Alive_Init, Dirty_Init
     DEF DirtyInv, AliveInv, FiledInv, OwnInv
<1>2. DirtyInv /\ [Next]_vars => DirtyInv'
  BY DirtyInv_Next
<1>3. DirtyInv => DirtyCountExact
  BY DEF DirtyInv, Dirty
<1> QED
  BY <1>1, <1>2, <1>3, PTL DEF Spec

-----------------------------------------------------------------------------
(* The pixels.  The driver writes what it is given.                        *)
WritesSucceed == "IWriteBlock" \notin Failures

(* DropCache() and the suppression of a dataset discard the pixels of a    *)
(* band: which ones are the last is settled when they are done with it.    *)
Dropped(t, k) == /\ op[t] \in {"dropCache", "suppress"}
                 /\ pc[t] \notin {"flushed", "destroy"}
                 /\ BandOf(at[t]) = BandOf(k)

(* The block of k is in the storage, and thread t has not filled it yet or *)
(* could not.                                                              *)
Loading(t, k) == /\ at[t] = k
                 /\ \/ pc[t] = "readRW"
                    \/ pc[t] = "locked" /\ op[t] \in WriteOps
                    \/ pc[t] = "flushBlock" /\ op[t] \in IoOps

(* A block that holds pixels for the disk: it is dirty, or was marked      *)
(* clean by the Write() that is under way.                                 *)
Bears(t, b) == \/ bDirty[b]
               \/ pc[t] = "write" /\ b = Target(t)
               \/ pc[t] = "flushIO" /\ b = poBlock[t]

(* No write has failed; a block is clean when it is new, when it has been  *)
(* written, and before it is deleted.                                      *)
SettledOf(t) ==
    /\ eGlobalErr[t] = FALSE /\ \A d \in Bands : eFlushBlockErr[d] = FALSE
    /\ pc[t] \in {"write", "release"} => ~bDirty[Target(t)]
    /\ HoldsNew(t) \/ pc[t] = "readRW" => ~bDirty[poBlock[t]]
    /\ pc[t] \in {"flushIO", "delete"} =>
         ~bDirty[poBlock[t]] \/ op[t] \in {"dropCache", "suppress"}

(* The last pixels written of every block are on disk, or in a block that  *)
(* will be written; a block in the storage has them.                       *)
BearsLast(t) == \A b \in Blocks : Bears(t, b) =>
    key[b] \in Keys /\ (pData[b] = last[key[b]] \/ Dropped(t, key[b]))
Kept(t) == \A k \in Keys :
    \/ disk[k] = last[k] \/ Dropped(t, k)
    \/ \E b \in Blocks : key[b] = k /\ Bears(t, b)
StoresLast(t) == \A k \in Keys : slot[k] # Null =>
    pData[slot[k]] = last[k] \/ Dropped(t, k) \/ Loading(t, k)

PixelsOf(t) == SettledOf(t) /\ BearsLast(t) /\ Kept(t) /\ StoresLast(t)
PixelInv == FiledInv /\ FreeAreClean /\ \A t \in Threads : PixelsOf(t)

(* The parts of the invariant that the proofs below use.                   *)
LEMMA PixelParts ==
    ASSUME PixelInv
    PROVE  /\ FiledInv /\ OwnInv /\ ControlInv /\ RoundInv /\ Placed /\ Found
           /\ BlockTypes /\ BandTypes /\ DataTypes /\ CallTypes /\ ScanTypes
           /\ FlushTypes /\ StoreInv /\ Exclusive /\ LocksExact /\ FreeAreClean
           /\ \A t \in Threads : CallOf(t) /\ OpOf(t) /\ KeysOf(t) /\ OldSetOf(t)
           /\ \A t \in Threads : LoopOf(t) /\ NewOf(t)
           /\ \A t \in Threads : SettledOf(t) /\ BearsLast(t) /\ Kept(t) /\ StoresLast(t)
BY DEF PixelInv, PixelsOf, FiledInv, Filed, OwnInv, Owned, ControlInv, Types,
   CallOf

(* Where the only thread holds no block back, a dirty block is in the      *)
(* storage of its band, where a reader finds it.                           *)
AtRest(t) == \/ pc[t] \in {"readRW", "locked", "flushed", "destroy"}
             \/ pc[t] = "flushNext" /\ iOff[t] = 0

LEMMA DirtyIsStored ==
    ASSUME SingleThread, FiledInv, FreeAreClean, NEW t \in Threads,
           AtRest(t), NEW b \in Blocks, key[b] \in Keys, bDirty[b]
    PROVE  slot[key[b]] = b /\ b \in ToSet(lru)
<1>0. Placed /\ Found /\ OldSetOf(t) /\ RoundInv /\ CallOf(t) /\ FlushTypes
  BY DEF FiledInv, Filed, OwnInv, Owned, ControlInv, Types
<1>1. \A u \in Threads : u = t
  BY DEF SingleThread
<1>2. toFree[t] = <<>>
  BY <1>0 DEF AtRest, RoundInv, RoundOf, RoundLabels
<1>3. Claimed(t) = {}
  <2>1. ToSet(toFree[t]) = {}
    BY <1>2 DEF ToSet
  <2> QED BY <2>1 DEF Claimed, Evicting, Flushing, AtRest
<1>4. ~Out(b)
  BY <1>1, <1>3 DEF Out, FreeAreClean
<1>5. ~NotYet(t)
  BY DEF NotYet, AtRest, CriticalLabels, RoundEnd
<1>6. b \in ToSet(lru)
  BY <1>0, <1>1, <1>4, <1>5 DEF Placed
<1>7. ~HeldBy(t, b)
  <2>1. ~HoldsNew(t) /\ pc[t] \notin FlushLabels
    BY DEF HoldsNew, Internalizing, AtRest, FlushLabels, EvictLabels,
       CriticalLabels
  <2>2. ~InLoop(t) \/ iOff[t] = 0
    BY DEF InLoop, AtRest, FlushLabels
  <2>3. b # Null
    BY NamesAssumption
  <2> QED BY <1>0, <2>1, <2>2, <2>3 DEF HeldBy, OldSetOf
<1> QED
  BY <1>0, <1>1, <1>6, <1>7 DEF Found

(* A locked block is in the storage of its band.                           *)
LEMMA LockedIsStored ==
    ASSUME SingleThread, FiledInv, NEW t \in Threads, pc[t] \in {"readRW", "locked"}
    PROVE  /\ at[t] \in Keys /\ poBlock[t] \in Blocks /\ poBlock[t] # Null
           /\ slot[at[t]] = poBlock[t] /\ key[poBlock[t]] = at[t]
<1>0. Found /\ OldSetOf(t) /\ KeysOf(t) /\ LocksExact /\ OwnInv
  BY DEF FiledInv, Filed, OwnInv, Owned, ControlInv, Types
<1>1. \A u \in Threads : u = t
  BY DEF SingleThread
<1>2. HasLock(t) /\ ~NotYet(t) /\ ~HoldsNew(t) /\ pc[t] \notin FlushLabels /\ ~InLoop(t)
  BY DEF HasLock, NotYet, HoldsNew, Internalizing, InLoop, FlushLabels,
     EvictLabels, CriticalLabels, RoundEnd
<1>3. /\ poBlock[t] \in Blocks /\ key[poBlock[t]] = at[t] /\ at[t] \in Keys
      /\ poBlock[t] \in ToSet(lru)
  BY <1>0, <1>2, UserIsOwner DEF KeysOf, LocksExact
<1>4. poBlock[t] # Null
  BY <1>3, NamesAssumption
<1>5. ~HeldBy(t, poBlock[t])
  BY <1>0, <1>2, <1>4 DEF HeldBy, OldSetOf
<1> QED
  BY <1>0, <1>1, <1>3, <1>4, <1>5 DEF Found

(* Steps that change neither pixels nor marks, and at most take blocks out *)
(* of the storage.                                                         *)
Inert(t) ==
    /\ UNCHANGED <<key, bDirty, pData, disk, last, psListBlocksToFree>>
    /\ \A d \in Bands : eFlushBlockErr'[d] = FALSE
    /\ eGlobalErr'[t] = FALSE
    /\ \A k \in Keys : slot'[k] \in {slot[k], Null}
    /\ pc[t] \notin {"write", "flushIO"}
    /\ pc'[t] \notin {"write", "release", "flushIO", "delete"}
    /\ HoldsNew(t)' \/ pc'[t] = "readRW" =>
         (HoldsNew(t) \/ pc[t] = "readRW") /\ poBlock'[t] = poBlock[t]
    /\ \A k \in Keys : Dropped(t, k) => Dropped(t, k)'
    /\ \A k \in Keys : Loading(t, k) => Loading(t, k)' \/ slot'[k] = Null

(* Such a step keeps the pixels.                                           *)
LEMMA InertStep ==
    ASSUME PixelInv, NEW t \in Threads, Inert(t)
    PROVE  PixelsOf(t)' /\ FreeAreClean'
<1>0. FreeAreClean /\ SettledOf(t) /\ BearsLast(t) /\ Kept(t) /\ StoresLast(t)
  BY PixelParts
<1>1. FreeAreClean'
  BY <1>0 DEF Inert, FreeAreClean, Frees, FreeBlocks
<1>2. SettledOf(t)'
  BY <1>0 DEF Inert, SettledOf
<1>3. \A b \in Blocks : (Bears(t, b) <=> bDirty[b]) /\ (Bears(t, b)' <=> bDirty[b])
  BY DEF Inert, Bears
<1>4. BearsLast(t)' /\ Kept(t)'
  BY <1>0, <1>3 DEF Inert, BearsLast, Kept
<1>5. StoresLast(t)'
  BY <1>0 DEF Inert, StoresLast
<1> QED
  BY <1>1, <1>2, <1>4, <1>5 DEF PixelsOf

(* Steps that change only blocks without pixels that count: the blocks S   *)
(* are clean, or those of a band that is dropped, and not in the storage.  *)
Spares(t, S) ==
    /\ UNCHANGED <<disk, last>>
    /\ \A c \in Blocks : c \in S =>
         ~bDirty'[c] /\ (bDirty[c] => \A k \in Keys : k = key[c] => Dropped(t, k)')
    /\ \A c \in Blocks : c \notin S =>
         key'[c] = key[c] /\ bDirty'[c] = bDirty[c] /\ pData'[c] = pData[c]
    /\ \A k \in Keys : slot[k] \notin S
    /\ \A k \in Keys : slot'[k] \in {slot[k], Null} \/ Loading(t, k)'
    /\ {pc[t], pc'[t]} \cap {"write", "flushIO"} = {}
    /\ \A k \in Keys : Dropped(t, k) => Dropped(t, k)'
    /\ \A k \in Keys : Loading(t, k) => Loading(t, k)'

(* Such a step keeps the pixels.                                           *)
LEMMA SparesStep ==
    ASSUME PixelInv, NEW t \in Threads, NEW S, Spares(t, S)
    PROVE  BearsLast(t)' /\ Kept(t)' /\ StoresLast(t)'
<1>0. BearsLast(t) /\ Kept(t) /\ StoresLast(t) /\ BandTypes
  BY PixelParts
<1>1. \A b \in Blocks : (Bears(t, b) <=> bDirty[b]) /\ (Bears(t, b)' <=> bDirty'[b])
  BY DEF Spares, Bears
<1>2. BearsLast(t)'
  <2> SUFFICES ASSUME NEW b \in Blocks, bDirty'[b]
               PROVE  /\ key'[b] \in Keys
                      /\ pData'[b] = last'[key'[b]] \/ Dropped(t, key[b])'
    BY <1>1 DEF BearsLast
  <2>1. b \notin S
    BY DEF Spares
  <2>2. /\ bDirty[b] /\ key'[b] = key[b] /\ pData'[b] = pData[b]
        /\ UNCHANGED last
    BY <2>1 DEF Spares
  <2>3. key[b] \in Keys /\ (pData[b] = last[key[b]] \/ Dropped(t, key[b]))
    BY <1>0, <1>1, <2>2 DEF BearsLast
  <2>k. PICK k \in Keys : k = key[b]
    BY <2>3
  <2>4. Dropped(t, key[b]) => Dropped(t, k)'
    BY <2>k DEF Spares
  <2>5. Dropped(t, k)' => Dropped(t, key[b])'
    BY <2>2, <2>k DEF Dropped
  <2> QED BY <2>2, <2>3, <2>4, <2>5
<1>3. Kept(t)'
  <2> SUFFICES ASSUME NEW k \in Keys, disk'[k] # last'[k], ~Dropped(t, k)'
               PROVE  \E b \in Blocks : key'[b] = k /\ bDirty'[b]
    BY <1>1 DEF Kept
  <2>1. PICK b \in Blocks : key[b] = k /\ bDirty[b]
    BY <1>0, <1>1 DEF Spares, Kept
  <2>2. b \notin S
    BY <2>1 DEF Spares
  <2> QED BY <2>1, <2>2 DEF Spares
<1>4. StoresLast(t)'
  <2> SUFFICES ASSUME NEW k \in Keys, slot'[k] # Null, ~Loading(t, k)', ~Dropped(t, k)'
               PROVE  pData'[slot'[k]] = last'[k]
    BY DEF StoresLast
  <2>1. slot'[k] = slot[k] /\ slot[k] \in Blocks /\ slot[k] \notin S
    BY <1>0 DEF Spares, BandTypes, BlockOrNull
  <2>2. pData[slot[k]] = last[k]
    BY <1>0, <2>1 DEF Spares, StoresLast
  <2> QED BY <2>1, <2>2 DEF Spares
<1> QED
  BY <1>2, <1>3, <1>4

(* Steps that change no pixels and leave the blocks that bear some.        *)
LEMMA BearersStay ==
    ASSUME PixelInv, NEW t \in Threads, UNCHANGED <<key, pData, disk, last, slot>>,
           \A b \in Blocks : Bears(t, b)' <=> Bears(t, b),
           \A k \in Keys : Dropped(t, k) => Dropped(t, k)',
           \A k \in Keys : Loading(t, k) => Loading(t, k)'
    PROVE  BearsLast(t)' /\ Kept(t)' /\ StoresLast(t)'
<1>0. BearsLast(t) /\ Kept(t) /\ StoresLast(t)
  BY PixelParts
<1>1. BearsLast(t)' /\ Kept(t)'
  BY <1>0 DEF BearsLast, Kept
<1>2. StoresLast(t)'
  BY <1>0 DEF StoresLast
<1> QED
  BY <1>1, <1>2

(* A block of the storage is neither in a free list nor evicted, but for   *)
(* the block that the only thread is about to take from there.             *)
LEMMA StoredIsListed ==
    ASSUME SingleThread, PixelInv, NEW t \in Threads, pc[t] # "unreference",
           NEW k \in Keys, slot[k] # Null
    PROVE  /\ slot[k] \in Blocks /\ slot[k] \in ToSet(lru) /\ key[slot[k]] = k
           /\ ~Frees(slot[k]) /\ slot[k] \notin ToSet(toFree[t])
<1>0. StoreInv /\ Exclusive /\ BandTypes
  BY PixelParts
<1>1. \A u \in Threads : u = t
  BY DEF SingleThread
<1>2. slot[k] \in Blocks /\ slot[k] \in ToSet(lru) /\ key[slot[k]] = k
  BY <1>0, <1>1 DEF StoreInv, BandTypes, BlockOrNull
<1> QED
  BY <1>0, <1>2 DEF Exclusive, Frees

-----------------------------------------------------------------------------
(* CreateBlock() takes a block that holds nothing.                         *)
LEMMA Pixel_CreateBlock ==
    ASSUME SingleThread, PixelInv, NEW t \in Threads, NEW b \in Blocks,
           CreateBlock(t, b)
    PROVE  PixelsOf(t)' /\ FreeAreClean'
<1>0. /\ CallTypes /\ BlockTypes /\ BandTypes /\ OwnInv /\ CallOf(t) /\ OpOf(t)
      /\ FreeAreClean /\ SettledOf(t) /\ BearsLast(t)
  BY PixelParts
<1>d. PICK d : d = BandOf(at[t])
  OBVIOUS
<1>1. /\ pc[t] = "create" /\ pc'[t] = "internalize" /\ poBlock'[t] = b
      /\ key' = [key EXCEPT ![b] = at[t]]
      /\ bDirty' = [bDirty EXCEPT ![b] = FALSE]
      /\ pData' = [pData EXCEPT ![b] = NoData]
      /\ IF psListBlocksToFree[d] # <<>>
         THEN /\ b = Head(psListBlocksToFree[d])
              /\ psListBlocksToFree' = [psListBlocksToFree EXCEPT ![d] = Tail(@)]
         ELSE key[b] = NoKey /\ UNCHANGED psListBlocksToFree
      /\ UNCHANGED <<slot, disk, last, op, at, eFlushBlockErr, eGlobalErr>>
  BY <1>0, <1>d DEF CreateBlock, CallTypes, Goto, flushVars
<1>2. d \in Bands /\ op[t] \in IoOps
  BY <1>0, <1>d, <1>1, AtIsKey DEF OwnerLabels, IoLabels, OpOf
<1>3. /\ key[b] = NoKey \/ Frees(b)
      /\ \A e \in Bands : FreeBlocks(e)' \subseteq FreeBlocks(e)
  <2>1. CASE psListBlocksToFree[d] # <<>>
    <3>1. psListBlocksToFree[d] \in Seq(Blocks)
      BY <1>0, <1>2 DEF BandTypes
    <3>2. b \in FreeBlocks(d)
      BY <1>1, <2>1, <3>1, TailProperties DEF FreeBlocks
    <3>3. psListBlocksToFree'[d] = Tail(psListBlocksToFree[d])
      BY <1>0, <1>1, <1>2, <2>1 DEF BandTypes
    <3>4. FreeBlocks(d)' \subseteq FreeBlocks(d)
      BY <2>1, <3>1, <3>3, TailProperties DEF FreeBlocks
    <3>5. \A e \in Bands : e # d => FreeBlocks(e)' = FreeBlocks(e)
      BY <1>0, <1>1, <2>1 DEF BandTypes, FreeBlocks
    <3> QED BY <1>2, <3>2, <3>4, <3>5 DEF Frees
  <2>2. CASE psListBlocksToFree[d] = <<>>
    BY <1>1, <2>2 DEF FreeBlocks
  <2> QED BY <2>1, <2>2
<1>4. /\ ~bDirty'[b]
      /\ \A c \in Blocks : c # b =>
           bDirty'[c] = bDirty[c] /\ key'[c] = key[c] /\ pData'[c] = pData[c]
  BY <1>0, <1>1 DEF BlockTypes
<1>5. ~bDirty[b]
  BY <1>0, <1>3, NoKeyIsNoKey DEF FreeAreClean, BearsLast, Bears
<1>6. \A k \in Keys : slot[k] \notin {b}
  <2>1. b \notin ToSet(lru) /\ b # Null
    BY <1>0, CreatedIsFree, NamesAssumption
  <2> QED BY <1>1, <2>1, StoredIsListed
<1>7. Spares(t, {b})
  <2>1. \A k : ~Dropped(t, k) /\ ~Loading(t, k)
    BY <1>1, <1>2 DEF Dropped, Loading, IoOps, ReadOps, WriteOps
  <2> QED BY <1>1, <1>4, <1>5, <1>6, <2>1 DEF Spares
<1>8. FreeAreClean'
  <2> SUFFICES ASSUME NEW c \in Blocks, NEW e \in Bands, c \in FreeBlocks(e)'
               PROVE  ~bDirty'[c]
    BY DEF FreeAreClean, Frees
  <2>1. ~bDirty[c]
    BY <1>0, <1>3 DEF FreeAreClean, Frees
  <2> QED BY <1>4, <2>1
<1>9. SettledOf(t)'
  BY <1>0, <1>1, <1>4 DEF SettledOf
<1> QED
  BY <1>7, <1>8, <1>9, SparesStep DEF PixelsOf

(* Internalize() gives memory to a block that is not in the storage yet.   *)
LEMMA Pixel_Allocate ==
    ASSUME SingleThread, PixelInv, NEW t \in Threads, NEW ok \in BOOLEAN,
           Allocate(t, ok)
    PROVE  PixelsOf(t)' /\ FreeAreClean'
<1>0. /\ CallTypes /\ BlockTypes /\ OwnInv /\ OpOf(t) /\ KeysOf(t) /\ NewOf(t)
      /\ FreeAreClean /\ SettledOf(t)
  BY PixelParts
<1>b. PICK b : b = poBlock[t]
  OBVIOUS
<1>1. /\ pc[t] = "allocate" /\ pc'[t] = "reacquire"
      /\ pData' = IF ok THEN [pData EXCEPT ![b] = 0] ELSE pData
      /\ UNCHANGED <<slot, disk, last, op, at, poBlock, key, bDirty>>
      /\ UNCHANGED <<psListBlocksToFree, eFlushBlockErr, eGlobalErr>>
  BY <1>0, <1>b DEF Allocate, CallTypes, Goto, bandVars, dataVars, callVars,
     flushVars
<1>2. HasLock(t) /\ HoldsNew(t) /\ Past(t)
  BY <1>1 DEF HasLock, HoldsNew, Past
<1>3. b \in Blocks /\ key[b] = at[t] /\ at[t] \in Keys /\ slot[at[t]] = Null /\ b # Null
  BY <1>0, <1>b, <1>2, UserIsOwner, NamesAssumption DEF KeysOf, NewOf
<1>4. ~bDirty[b]
  BY <1>0, <1>b, <1>2 DEF SettledOf
<1>5. \A k \in Keys : slot[k] \notin {b}
  BY <1>1, <1>3, StoredIsListed
<1>6. Spares(t, {b})
  <2>1. \A k : ~Dropped(t, k) /\ ~Loading(t, k)
    BY <1>0, <1>1 DEF Dropped, Loading, OpOf, IoLabels, IoOps, ReadOps, WriteOps
  <2>2. \A c \in Blocks : c # b => pData'[c] = pData[c]
    BY <1>0, <1>1, <1>3 DEF BlockTypes
  <2> QED BY <1>1, <1>4, <1>5, <2>1, <2>2 DEF Spares
<1>7. FreeAreClean'
  BY <1>0, <1>1 DEF FreeAreClean, Frees, FreeBlocks
<1>8. SettledOf(t)'
  BY <1>0, <1>b, <1>1, <1>4 DEF SettledOf
<1> QED
  BY <1>6, <1>7, <1>8, SparesStep DEF PixelsOf

(* AddBlockToFreeList() of a block that has been written.                  *)
LEMMA Pixel_Release ==
    ASSUME SingleThread, PixelInv, NEW t \in Threads, Release(t)
    PROVE  PixelsOf(t)' /\ FreeAreClean'
<1>0. /\ CallTypes /\ BandTypes /\ BlockTypes /\ OwnInv /\ OpOf(t) /\ RoundInv
      /\ ControlInv /\ FreeAreClean /\ SettledOf(t)
  BY PixelParts
<1>b. PICK b : b = Target(t)
  OBVIOUS
<1>d. PICK d : d = BandOf(key[b])
  OBVIOUS
<1>1. /\ pc[t] = "release" /\ pc'[t] = "keepAlive"
      /\ psListBlocksToFree' = [psListBlocksToFree EXCEPT ![d] = <<b>> \o @]
      /\ pData' = [pData EXCEPT ![b] = NoData]
      /\ UNCHANGED <<slot, disk, last, op, at, poBlock, key, bDirty>>
      /\ UNCHANGED <<eFlushBlockErr, eGlobalErr>>
  BY <1>0, <1>b, <1>d DEF Release, CallTypes, Goto, dataVars, callVars,
     flushVars
<1>2. b \in Blocks /\ d \in Bands /\ ~bDirty[b] /\ b \in ToSet(toFree[t])
  <2>1. b \in Claimed(t) /\ ~bDirty[b]
    BY <1>0, <1>b, <1>1, TargetIsClaimed DEF SettledOf
  <2>2. b \in ToSet(toFree[t])
    <3>1. toFree[t] # <<>>
      BY <1>0, <1>1 DEF RoundInv, RoundOf, Releasing
    <3> QED BY <1>0, <1>b, <3>1, TargetIsBlock
  <2> QED BY <1>0, <1>d, <2>1, <2>2, ClaimedAreBlocks, KeyParts
<1>3. \A e \in Bands : FreeBlocks(e)' \subseteq FreeBlocks(e) \cup {b}
  <2>1. psListBlocksToFree[d] \in Seq(Blocks)
        /\ psListBlocksToFree'[d] = <<b>> \o psListBlocksToFree[d]
    BY <1>0, <1>1, <1>2 DEF BandTypes
  <2>2. FreeBlocks(d)' = FreeBlocks(d) \cup {b}
    BY <1>2, <2>1, PushProperties DEF FreeBlocks
  <2>3. \A e \in Bands : e # d => FreeBlocks(e)' = FreeBlocks(e)
    BY <1>0, <1>1 DEF BandTypes, FreeBlocks
  <2> QED BY <2>2, <2>3
<1>4. FreeAreClean'
  BY <1>0, <1>1, <1>2, <1>3 DEF FreeAreClean, Frees
<1>5. \A k \in Keys : slot[k] \notin {b}
  BY <1>1, <1>2, StoredIsListed, NamesAssumption
<1>6. Spares(t, {b})
  <2>1. \A k : ~Dropped(t, k) /\ ~Loading(t, k)
    BY <1>0, <1>1 DEF Dropped, Loading, OpOf, RoundEnd, IoOps, ReadOps,
       WriteOps, GlobalOps
  <2>2. \A c \in Blocks : c # b => pData'[c] = pData[c]
    BY <1>0, <1>1, <1>2 DEF BlockTypes
  <2> QED BY <1>1, <1>2, <1>5, <2>1, <2>2 DEF Spares
<1>7. SettledOf(t)'
  <2>1. HoldsNew(t)' => HoldsNew(t)
    BY <1>1 DEF HoldsNew, Internalizing, EvictLabels
  <2> QED BY <1>0, <1>1, <2>1 DEF SettledOf
<1> QED
  BY <1>4, <1>6, <1>7, SparesStep DEF PixelsOf

(* FreeDanglingBlocks() deletes clean blocks that are not in the storage.  *)
LEMMA FreedSpares ==
    ASSUME SingleThread, PixelInv, NEW t \in Threads, pc[t] # "unreference",
           NEW d \in Bands, FreeDanglingBlocks(d)
    PROVE  /\ FreeAreClean'
           /\ \A c \in Blocks : c \in FreeBlocks(d) => ~bDirty[c] /\ ~bDirty'[c]
           /\ \A c \in Blocks : c \notin FreeBlocks(d) =>
                key'[c] = key[c] /\ bDirty'[c] = bDirty[c] /\ pData'[c] = pData[c]
           /\ \A k \in Keys : slot[k] \notin FreeBlocks(d)
<1>0. BlockTypes /\ BandTypes /\ FreeAreClean /\ OwnInv
  BY PixelParts
<1>1. /\ key' = [c \in Blocks |-> IF c \in FreeBlocks(d) THEN NoKey ELSE key[c]]
      /\ pData' = [c \in Blocks |-> IF c \in FreeBlocks(d) THEN NoData ELSE pData[c]]
      /\ bDirty' = [c \in Blocks |-> bDirty[c] /\ c \notin FreeBlocks(d)]
      /\ psListBlocksToFree' = [psListBlocksToFree EXCEPT ![d] = <<>>]
  BY DEF FreeDanglingBlocks, Deleted, FreeBlocks
<1>2. \A c \in Blocks : c \in FreeBlocks(d) => ~bDirty[c] /\ ~bDirty'[c]
  BY <1>0, <1>1 DEF FreeAreClean, Frees
<1>3. \A c \in Blocks : c \notin FreeBlocks(d) =>
         key'[c] = key[c] /\ bDirty'[c] = bDirty[c] /\ pData'[c] = pData[c]
  <2>1. \A c \in Blocks : c \notin FreeBlocks(d) => bDirty'[c] = bDirty[c]
    BY <1>0, <1>1 DEF BlockTypes
  <2> QED BY <1>1, <2>1
<1>4. \A e \in Bands : FreeBlocks(e)' \subseteq FreeBlocks(e)
  <2>1. psListBlocksToFree'[d] = <<>> /\ ToSet(<<>>) = {}
    BY <1>0, <1>1 DEF BandTypes, ToSet
  <2>2. \A e \in Bands : e # d => psListBlocksToFree'[e] = psListBlocksToFree[e]
    BY <1>0, <1>1 DEF BandTypes
  <2> QED BY <2>1, <2>2 DEF FreeBlocks
<1>5. FreeAreClean'
  <2> SUFFICES ASSUME NEW c \in Blocks, NEW e \in Bands, c \in FreeBlocks(e)'
               PROVE  ~bDirty'[c]
    BY DEF FreeAreClean, Frees
  <2>1. ~bDirty[c]
    BY <1>0, <1>4 DEF FreeAreClean, Frees
  <2> QED BY <1>2, <1>3, <2>1
<1>6. \A k \in Keys : slot[k] \notin FreeBlocks(d)
  <2> SUFFICES ASSUME NEW k \in Keys, slot[k] \in FreeBlocks(d) PROVE FALSE
    OBVIOUS
  <2>1. slot[k] # Null
    BY <1>0, ClaimedAreBlocks, NamesAssumption
  <2>2. ~Frees(slot[k])
    BY <2>1, StoredIsListed
  <2> QED BY <2>2 DEF Frees
<1> QED
  BY <1>2, <1>3, <1>5, <1>6

(* The new block enters the storage; it is filled next.                    *)
LEMMA Pixel_AdoptBlock ==
    ASSUME SingleThread, PixelInv, NEW t \in Threads, NEW ok \in BOOLEAN,
           AdoptBlock(t, ok)
    PROVE  PixelsOf(t)' /\ FreeAreClean'
<1>0. /\ CallTypes /\ BandTypes /\ OwnInv /\ CallOf(t) /\ OpOf(t) /\ KeysOf(t)
      /\ SettledOf(t)
  BY PixelParts
<1>d. PICK d : d = BandOf(at[t])
  OBVIOUS
<1>1. /\ pc[t] = "adopt" /\ FreeDanglingBlocks(d)
      /\ slot' = IF ok THEN [slot EXCEPT ![at[t]] = poBlock[t]] ELSE slot
      /\ pc'[t] = IF ~ok THEN "discard"
                  ELSE IF op[t] \in ReadOps THEN "readRW" ELSE "locked"
      /\ UNCHANGED <<disk, last, op, at, poBlock, eFlushBlockErr, eGlobalErr>>
  BY <1>0, <1>d DEF AdoptBlock, MustRead, CallTypes, Goto, dataVars, callVars
<1>2. d \in Bands /\ op[t] \in IoOps /\ at[t] \in Keys
  BY <1>0, <1>d, <1>1, AtIsKey DEF OwnerLabels, IoLabels, OpOf
<1>3. /\ FreeAreClean'
      /\ \A c \in Blocks : c \in FreeBlocks(d) => ~bDirty[c] /\ ~bDirty'[c]
      /\ \A c \in Blocks : c \notin FreeBlocks(d) =>
           key'[c] = key[c] /\ bDirty'[c] = bDirty[c] /\ pData'[c] = pData[c]
      /\ \A k \in Keys : slot[k] \notin FreeBlocks(d)
  BY <1>1, <1>2, FreedSpares
<1>4. Spares(t, FreeBlocks(d))
  <2>1. \A k : ~Dropped(t, k) /\ ~Loading(t, k)
    BY <1>1, <1>2 DEF Dropped, Loading, IoOps, ReadOps, WriteOps
  <2>2. \A k \in Keys : slot'[k] \in {slot[k], Null} \/ Loading(t, k)'
    <3> SUFFICES ASSUME NEW k \in Keys, slot'[k] # slot[k] PROVE Loading(t, k)'
      OBVIOUS
    <3>1. ok /\ k = at[t]
      BY <1>0, <1>1 DEF BandTypes
    <3> QED BY <1>1, <1>2, <3>1 DEF Loading, IoOps
  <2> QED BY <1>1, <1>3, <2>1, <2>2 DEF Spares
<1>5. SettledOf(t)'
  <2>1. HasLock(t) /\ HoldsNew(t) /\ ~HoldsNew(t)'
    BY <1>1 DEF HasLock, HoldsNew, Internalizing, EvictLabels, CriticalLabels
  <2>2. poBlock[t] \in Blocks /\ ~bDirty[poBlock[t]]
    BY <1>0, <2>1, UserIsOwner DEF SettledOf
  <2>3. ~bDirty'[poBlock[t]]
    BY <1>3, <2>2
  <2> QED BY <1>0, <1>1, <2>1, <2>3 DEF SettledOf
<1> QED
  BY <1>3, <1>4, <1>5, SparesStep DEF PixelsOf

(* FlushCache() takes the blocks of a hash set out of the storage.         *)
LEMMA Pixel_FlushStorage ==
    ASSUME SingleThread, PixelInv, NEW t \in Threads, FlushStorage(t)
    PROVE  PixelsOf(t)' /\ FreeAreClean'
<1>0. /\ CallTypes /\ BandTypes /\ FlushTypes /\ CallOf(t) /\ OpOf(t) /\ SettledOf(t)
  BY PixelParts
<1>d. PICK d : d = BandOf(at[t])
  OBVIOUS
<1>1. /\ pc[t] = "flushStorage" /\ pc'[t] = "flushNext" /\ FreeDanglingBlocks(d)
      /\ \A k \in Keys : slot'[k] \in {slot[k], Null}
      /\ eGlobalErr' = [eGlobalErr EXCEPT ![t] = eFlushBlockErr[d]]
      /\ UNCHANGED <<disk, last, op, at, eFlushBlockErr>>
  BY <1>0, <1>d DEF FlushStorage, CallTypes, Goto, dataVars, callVars
<1>2. d \in Bands
  BY <1>0, <1>d, <1>1, AtIsKey DEF OwnerLabels
<1>3. /\ FreeAreClean'
      /\ \A c \in Blocks : c \in FreeBlocks(d) => ~bDirty[c] /\ ~bDirty'[c]
      /\ \A c \in Blocks : c \notin FreeBlocks(d) =>
           key'[c] = key[c] /\ bDirty'[c] = bDirty[c] /\ pData'[c] = pData[c]
      /\ \A k \in Keys : slot[k] \notin FreeBlocks(d)
  BY <1>1, <1>2, FreedSpares
<1>4. Spares(t, FreeBlocks(d))
  <2>1. \A k : ~Loading(t, k) /\ (Dropped(t, k) => Dropped(t, k)')
    BY <1>1 DEF Dropped, Loading
  <2> QED BY <1>1, <1>3, <2>1 DEF Spares
<1>5. SettledOf(t)'
  <2>1. ~HoldsNew(t)'
    BY <1>1 DEF HoldsNew, Internalizing, EvictLabels, CriticalLabels
  <2>2. eGlobalErr'[t] = FALSE
    BY <1>0, <1>1, <1>2 DEF SettledOf, FlushTypes
  <2> QED BY <1>0, <1>1, <2>1, <2>2 DEF SettledOf
<1> QED
  BY <1>3, <1>4, <1>5, SparesStep DEF PixelsOf

(* ~GDALRasterBand(), when the pixels of the band are settled.             *)
LEMMA Pixel_Destroy ==
    ASSUME SingleThread, PixelInv, NEW t \in Threads, Destroy(t)
    PROVE  PixelsOf(t)' /\ FreeAreClean'
<1>0. /\ CallTypes /\ BandTypes /\ CallOf(t) /\ SettledOf(t)
  BY PixelParts
<1>d. PICK d : d = BandOf(at[t])
  OBVIOUS
<1>1. /\ pc[t] = "destroy" /\ pc'[t] \in {"flushed", "flushCache"}
      /\ FreeDanglingBlocks(d)
      /\ eFlushBlockErr' = [eFlushBlockErr EXCEPT ![d] = FALSE]
      /\ UNCHANGED <<slot, disk, last, op, eGlobalErr>>
  BY <1>0, <1>d DEF Destroy, CallTypes, Goto, flushVars
<1>2. d \in Bands
  BY <1>0, <1>d, <1>1, AtIsKey DEF OwnerLabels
<1>3. /\ FreeAreClean'
      /\ \A c \in Blocks : c \in FreeBlocks(d) => ~bDirty[c] /\ ~bDirty'[c]
      /\ \A c \in Blocks : c \notin FreeBlocks(d) =>
           key'[c] = key[c] /\ bDirty'[c] = bDirty[c] /\ pData'[c] = pData[c]
      /\ \A k \in Keys : slot[k] \notin FreeBlocks(d)
  BY <1>1, <1>2, FreedSpares
<1>4. Spares(t, FreeBlocks(d))
  <2>1. \A k : ~Loading(t, k) /\ ~Dropped(t, k)
    BY <1>1 DEF Dropped, Loading
  <2> QED BY <1>1, <1>3, <2>1 DEF Spares
<1>5. SettledOf(t)'
  <2>1. ~HoldsNew(t)'
    BY <1>1 DEF HoldsNew, Internalizing, EvictLabels, CriticalLabels
  <2>2. \A e \in Bands : eFlushBlockErr'[e] = FALSE
    BY <1>0, <1>1, <1>2 DEF SettledOf, BandTypes
  <2> QED BY <1>0, <1>1, <2>1, <2>2 DEF SettledOf
<1> QED
  BY <1>3, <1>4, <1>5, SparesStep DEF PixelsOf

(* A flushed block is deleted when it has been written, or with the cache  *)
(* of its band.                                                            *)
LEMMA Pixel_Delete ==
    ASSUME SingleThread, PixelInv, NEW t \in Threads, Delete(t)
    PROVE  PixelsOf(t)' /\ FreeAreClean'
<1>0. /\ CallTypes /\ BlockTypes /\ OwnInv /\ OpOf(t) /\ KeysOf(t)
      /\ FreeAreClean /\ SettledOf(t)
  BY PixelParts
<1>b. PICK b : b = poBlock[t]
  OBVIOUS
<1>1. /\ pc[t] = "delete" /\ pc'[t] = AfterFlushBlock(t)
      /\ key' = [c \in Blocks |-> IF c \in {b} THEN NoKey ELSE key[c]]
      /\ pData' = [c \in Blocks |-> IF c \in {b} THEN NoData ELSE pData[c]]
      /\ bDirty' = [c \in Blocks |-> bDirty[c] /\ c \notin {b}]
      /\ UNCHANGED <<slot, disk, last, op, at, psListBlocksToFree>>
      /\ UNCHANGED <<eFlushBlockErr, eGlobalErr>>
  <2>1. pc[t] = "delete"
    BY <1>0 DEF Delete, KeysOf
  <2> QED BY <1>0, <1>b, <2>1 DEF Delete, Deleted, CallTypes, Goto, bandVars,
             dataVars, flushVars
<1>2. /\ b \in Blocks /\ key[b] \in Keys /\ BandOf(key[b]) = BandOf(at[t])
      /\ slot[key[b]] = Null
  BY <1>0, <1>b, <1>1, UserIsOwner DEF KeysOf, FlushLabels
<1>3. /\ ~bDirty'[b]
      /\ \A c \in Blocks : c # b =>
           key'[c] = key[c] /\ bDirty'[c] = bDirty[c] /\ pData'[c] = pData[c]
  BY <1>0, <1>1, <1>2 DEF BlockTypes
<1>4. \A k \in Keys : slot[k] \notin {b}
  BY <1>1, <1>2, StoredIsListed, NamesAssumption
<1>5. \A k : Dropped(t, k) => Dropped(t, k)'
  BY <1>1 DEF Dropped, AfterFlushBlock, FlushOps
<1>6. bDirty[b] => Dropped(t, key[b])
  BY <1>0, <1>b, <1>1, <1>2 DEF SettledOf, Dropped
<1>7. Spares(t, {b})
  <2>1. \A k : ~Loading(t, k)
    BY <1>1 DEF Loading
  <2>2. pc'[t] \notin {"write", "flushIO"}
    BY <1>1 DEF AfterFlushBlock
  <2>3. bDirty[b] => \A k \in Keys : k = key[b] => Dropped(t, k)'
    BY <1>5, <1>6
  <2> QED BY <1>1, <1>3, <1>4, <1>5, <2>1, <2>2, <2>3 DEF Spares
<1>8. FreeAreClean'
  <2>1. \A c \in Blocks : bDirty'[c] => bDirty[c]
    BY <1>1
  <2> QED BY <1>0, <1>1, <2>1 DEF FreeAreClean, Frees, FreeBlocks
<1>9. SettledOf(t)'
  <2>1. pc'[t] \in {"flushNext", "failed", "flushed"}
    BY <1>1 DEF AfterFlushBlock
  <2>2. ~HoldsNew(t)'
    BY <2>1 DEF HoldsNew, Internalizing, EvictLabels, CriticalLabels
  <2> QED BY <1>0, <1>1, <2>1, <2>2 DEF SettledOf
<1> QED
  BY <1>7, <1>8, <1>9, SparesStep DEF PixelsOf

(* Write() of an evicted block marks it clean before it writes it.         *)
LEMMA Pixel_FreeNext ==
    ASSUME PixelInv, NEW t \in Threads, FreeNext(t)
    PROVE  PixelsOf(t)' /\ FreeAreClean'
<1>0. /\ CallTypes /\ BlockTypes /\ OwnInv /\ ControlInv /\ OpOf(t)
      /\ FreeAreClean /\ SettledOf(t)
  BY PixelParts
<1>b. PICK b : b = Target(t)
  OBVIOUS
<1>1. /\ pc[t] = "free" /\ toFree[t] # <<>>
      /\ IF bDirty[b]
         THEN /\ bDirty' = [bDirty EXCEPT ![b] = FALSE]
              /\ pc'[t] = IF eFlushBlockErr[BandOf(key[b])] THEN "release" ELSE "write"
         ELSE UNCHANGED bDirty /\ pc'[t] = "release"
      /\ UNCHANGED <<key, pData, disk, last, slot, op, at, poBlock, toFree>>
      /\ UNCHANGED <<psListBlocksToFree, eFlushBlockErr, eGlobalErr>>
  BY <1>0, <1>b DEF FreeNext, MarkClean, CallTypes, Goto, dataVars, callVars,
     scanVars, flushVars
<1>2. b \in Claimed(t) /\ Target(t)' = b
  BY <1>0, <1>b, <1>1, TargetIsBlock, ClaimedAreBlocks DEF Target
<1>3. b \in Blocks /\ BandOf(key[b]) \in Bands
  BY <1>0, <1>2, ClaimedAreBlocks, KeyParts
<1>4. /\ ~bDirty'[b] /\ \A c \in Blocks : c # b => bDirty'[c] = bDirty[c]
      /\ pc'[t] = IF bDirty[b] THEN "write" ELSE "release"
  BY <1>0, <1>1, <1>3 DEF BlockTypes, SettledOf
<1>5. \A c \in Blocks : Bears(t, c)' <=> Bears(t, c)
  BY <1>1, <1>2, <1>4 DEF Bears
<1>6. \A k : ~Dropped(t, k) /\ ~Loading(t, k)
  BY <1>0, <1>1 DEF Dropped, Loading, OpOf, RoundEnd, IoOps, ReadOps,
     WriteOps, GlobalOps
<1>7. BearsLast(t)' /\ Kept(t)' /\ StoresLast(t)'
  BY <1>1, <1>5, <1>6, BearersStay
<1>8. FreeAreClean'
  BY <1>0, <1>1, <1>4 DEF FreeAreClean, Frees, FreeBlocks
<1>9. SettledOf(t)'
  <2>1. HoldsNew(t)' => HoldsNew(t) /\ poBlock[t] \in Blocks
    <3>1. HoldsNew(t)' => HoldsNew(t) /\ HasLock(t)
      BY <1>1, <1>4 DEF HoldsNew, HasLock, Internalizing, EvictLabels
    <3> QED BY <1>0, <3>1, UserIsOwner
  <2>2. HoldsNew(t)' => ~bDirty'[poBlock[t]]
    BY <1>0, <1>4, <2>1 DEF SettledOf
  <2> QED BY <1>0, <1>1, <1>2, <1>4, <2>2 DEF SettledOf
<1> QED
  BY <1>7, <1>8, <1>9 DEF PixelsOf

(* So does Write() of a flushed block; a dropped one is not written.       *)
LEMMA Pixel_FlushWrite ==
    ASSUME PixelInv, NEW t \in Threads, FlushWrite(t)
    PROVE  PixelsOf(t)' /\ FreeAreClean'
<1>0. /\ CallTypes /\ BlockTypes /\ FlushTypes /\ OwnInv /\ CallOf(t)
      /\ FreeAreClean /\ SettledOf(t)
  BY PixelParts
<1>b. PICK b : b = poBlock[t]
  OBVIOUS
<1>d. PICK d : d = BandOf(at[t])
  OBVIOUS
<1>1. /\ pc[t] = "flushWrite"
      /\ IF MustWrite(t, b)
         THEN /\ bDirty' = [bDirty EXCEPT ![b] = FALSE]
              /\ pc'[t] = IF eFlushBlockErr[d] THEN "delete" ELSE "flushIO"
              /\ eGlobalErr' = [eGlobalErr EXCEPT ![t] = eFlushBlockErr[d]]
         ELSE UNCHANGED <<bDirty, eGlobalErr>> /\ pc'[t] = "delete"
      /\ UNCHANGED <<key, pData, disk, last, slot, op, at, poBlock>>
      /\ UNCHANGED <<psListBlocksToFree, eFlushBlockErr>>
  BY <1>0, <1>b, <1>d DEF FlushWrite, MarkClean, CallTypes, Goto, dataVars,
     callVars
<1>2. b \in Blocks /\ d \in Bands
  BY <1>0, <1>b, <1>d, <1>1, UserIsOwner, AtIsKey DEF FlushLabels, OwnerLabels
<1>3. /\ IF MustWrite(t, b) THEN pc'[t] = "flushIO" /\ ~bDirty'[b]
         ELSE pc'[t] = "delete" /\ bDirty'[b] = bDirty[b]
      /\ \A c \in Blocks : c # b => bDirty'[c] = bDirty[c]
      /\ eGlobalErr'[t] = FALSE
  BY <1>0, <1>1, <1>2 DEF BlockTypes, SettledOf, FlushTypes
<1>4. /\ MustWrite(t, b) => bDirty[b]
      /\ ~MustWrite(t, b) => ~bDirty[b] \/ op[t] \in {"dropCache", "suppress"}
  BY <1>0 DEF MustWrite, WritesDirtyBlocks, SettledOf
<1>5. \A c \in Blocks : Bears(t, c)' <=> Bears(t, c)
  BY <1>b, <1>1, <1>3, <1>4 DEF Bears
<1>6. \A k : (Dropped(t, k) => Dropped(t, k)') /\ ~Loading(t, k)
  BY <1>1, <1>3 DEF Dropped, Loading
<1>7. BearsLast(t)' /\ Kept(t)' /\ StoresLast(t)'
  BY <1>1, <1>5, <1>6, BearersStay
<1>8. FreeAreClean'
  BY <1>0, <1>1, <1>2, <1>3, <1>4 DEF FreeAreClean, Frees, FreeBlocks
<1>9. SettledOf(t)'
  <2>1. ~HoldsNew(t)'
    BY <1>3 DEF HoldsNew, Internalizing, EvictLabels, CriticalLabels
  <2> QED BY <1>0, <1>b, <1>1, <1>3, <1>4, <2>1 DEF SettledOf
<1> QED
  BY <1>7, <1>8, <1>9 DEF PixelsOf

(* The driver writes the pixels of block b, the last ones of its key.      *)
LEMMA WrittenStep ==
    ASSUME PixelInv, NEW t \in Threads, NEW b \in Blocks, Bears(t, b),
           UNCHANGED <<key, bDirty, pData, last, slot>>,
           disk' = [disk EXCEPT ![key[b]] = pData[b]],
           \A c \in Blocks : c # b => (Bears(t, c)' <=> Bears(t, c)),
           Bears(t, b)' => Bears(t, b),
           \A k \in Keys : Dropped(t, k) => Dropped(t, k)',
           \A k \in Keys : ~Loading(t, k)
    PROVE  BearsLast(t)' /\ Kept(t)' /\ StoresLast(t)'
<1>0. BearsLast(t) /\ Kept(t) /\ StoresLast(t) /\ DataTypes
  BY PixelParts
<1>k. PICK k : k = key[b]
  OBVIOUS
<1>1. k \in Keys /\ (pData[b] = last[k] \/ Dropped(t, k))
  BY <1>0, <1>k DEF BearsLast
<1>2. disk'[k] = pData[b] /\ \A j \in Keys : j # k => disk'[j] = disk[j]
  BY <1>0, <1>k, <1>1 DEF DataTypes
<1>3. BearsLast(t)'
  BY <1>0 DEF BearsLast
<1>4. Kept(t)'
  <2> SUFFICES ASSUME NEW j \in Keys, disk'[j] # last'[j], ~Dropped(t, j)'
               PROVE  \E c \in Blocks : key'[c] = j /\ Bears(t, c)'
    BY DEF Kept
  <2>1. j # k
    BY <1>1, <1>2
  <2>2. PICK c \in Blocks : key[c] = j /\ Bears(t, c)
    BY <1>0, <1>2, <2>1 DEF Kept
  <2> QED BY <1>k, <2>1, <2>2
<1>5. StoresLast(t)'
  BY <1>0 DEF StoresLast
<1> QED
  BY <1>3, <1>4, <1>5

(* IWriteBlock() of an evicted block.                                      *)
LEMMA Pixel_WriteEvicted ==
    ASSUME PixelInv, WritesSucceed, NEW t \in Threads, NEW ok \in BOOLEAN,
           WriteEvicted(t, ok)
    PROVE  PixelsOf(t)' /\ FreeAreClean'
<1>0. /\ CallTypes /\ OwnInv /\ OpOf(t) /\ FreeAreClean /\ SettledOf(t)
  BY PixelParts
<1>b. PICK b : b = Target(t)
  OBVIOUS
<1>1. /\ pc[t] = "write" /\ pc'[t] = "release"
      /\ disk' = [disk EXCEPT ![key[b]] = pData[b]]
      /\ UNCHANGED <<key, bDirty, pData, last, slot, op, at, poBlock, toFree>>
      /\ UNCHANGED <<psListBlocksToFree, eFlushBlockErr, eGlobalErr>>
  BY <1>0, <1>b DEF WriteEvicted, WritesSucceed, CallTypes, Goto, blockVars,
     callVars, scanVars, flushVars
<1>2. b \in Blocks /\ Target(t)' = b
  BY <1>0, <1>b, <1>1, TargetIsClaimed, ClaimedAreBlocks DEF Target
<1>3. \A c \in Blocks : c # b => (Bears(t, c)' <=> Bears(t, c))
  BY <1>b, <1>1 DEF Bears
<1>4. \A k : ~Dropped(t, k) /\ ~Loading(t, k)
  BY <1>0, <1>1 DEF Dropped, Loading, OpOf, RoundEnd, IoOps, ReadOps,
     WriteOps, GlobalOps
<1>5. Bears(t, b)
  BY <1>b, <1>1 DEF Bears
<1>6. BearsLast(t)' /\ Kept(t)' /\ StoresLast(t)'
  BY <1>1, <1>2, <1>3, <1>4, <1>5, WrittenStep
<1>7. FreeAreClean'
  BY <1>0, <1>1 DEF FreeAreClean, Frees, FreeBlocks
<1>8. SettledOf(t)'
  <2>1. HoldsNew(t)' => HoldsNew(t)
    BY <1>1 DEF HoldsNew, Internalizing, EvictLabels
  <2> QED BY <1>0, <1>b, <1>1, <1>2, <2>1 DEF SettledOf
<1> QED
  BY <1>6, <1>7, <1>8 DEF PixelsOf

(* IWriteBlock() of a flushed block.                                       *)
LEMMA Pixel_FlushIO ==
    ASSUME PixelInv, WritesSucceed, NEW t \in Threads, NEW ok \in BOOLEAN,
           FlushIO(t, ok)
    PROVE  PixelsOf(t)' /\ FreeAreClean'
<1>0. /\ CallTypes /\ FlushTypes /\ OwnInv /\ FreeAreClean /\ SettledOf(t)
  BY PixelParts
<1>b. PICK b : b = poBlock[t]
  OBVIOUS
<1>1. /\ pc[t] = "flushIO" /\ pc'[t] = "delete"
      /\ disk' = [disk EXCEPT ![key[b]] = pData[b]]
      /\ eGlobalErr'[t] = FALSE
      /\ UNCHANGED <<key, bDirty, pData, last, slot, op, at, poBlock>>
      /\ UNCHANGED <<psListBlocksToFree, eFlushBlockErr>>
  BY <1>0, <1>b DEF FlushIO, WritesSucceed, CallTypes, FlushTypes, Goto,
     blockVars, bandVars, callVars
<1>2. b \in Blocks
  BY <1>0, <1>b, <1>1, UserIsOwner DEF FlushLabels
<1>3. \A c \in Blocks : c # b => (Bears(t, c)' <=> Bears(t, c))
  BY <1>b, <1>1 DEF Bears
<1>4. \A k : (Dropped(t, k) => Dropped(t, k)') /\ ~Loading(t, k)
  BY <1>1 DEF Dropped, Loading
<1>5. Bears(t, b)
  BY <1>b, <1>1 DEF Bears
<1>6. BearsLast(t)' /\ Kept(t)' /\ StoresLast(t)'
  BY <1>1, <1>2, <1>3, <1>4, <1>5, WrittenStep
<1>7. FreeAreClean'
  BY <1>0, <1>1 DEF FreeAreClean, Frees, FreeBlocks
<1>8. SettledOf(t)'
  <2>1. ~HoldsNew(t)'
    BY <1>1 DEF HoldsNew, Internalizing, EvictLabels, CriticalLabels
  <2> QED BY <1>0, <1>1, <2>1 DEF SettledOf
<1> QED
  BY <1>6, <1>7, <1>8 DEF PixelsOf

(* IReadBlock() reads the last pixels written: no block bears newer ones.  *)
LEMMA Pixel_ReadBlock ==
    ASSUME SingleThread, PixelInv, NEW t \in Threads, NEW ok \in BOOLEAN,
           ReadBlock(t, ok)
    PROVE  PixelsOf(t)' /\ FreeAreClean'
<1>0. /\ CallTypes /\ BlockTypes /\ FiledInv /\ OpOf(t) /\ FreeAreClean
      /\ SettledOf(t) /\ BearsLast(t) /\ Kept(t) /\ StoresLast(t)
  BY PixelParts
<1>b. PICK b : b = poBlock[t]
  OBVIOUS
<1>1. /\ pc[t] = "readRW" /\ pc'[t] = IF ok THEN "locked" ELSE "flushBlock"
      /\ pData' = IF ok THEN [pData EXCEPT ![b] = disk[at[t]]] ELSE pData
      /\ UNCHANGED <<key, bDirty, disk, last, slot, op, at, poBlock>>
      /\ UNCHANGED <<psListBlocksToFree, eFlushBlockErr, eGlobalErr>>
  BY <1>0, <1>b DEF ReadBlock, CallTypes, Goto, bandVars, dataVars, callVars,
     flushVars
<1>2. op[t] \in IoOps /\ \A k : ~Dropped(t, k) /\ ~Dropped(t, k)'
  BY <1>0, <1>1 DEF OpOf, IoLabels, Dropped, IoOps, ReadOps, WriteOps
<1>3. /\ at[t] \in Keys /\ b \in Blocks /\ slot[at[t]] = b /\ key[b] = at[t]
      /\ ~bDirty[b]
  BY <1>0, <1>b, <1>1, LockedIsStored DEF SettledOf
<1>4. ~HoldsNew(t)' /\ pc'[t] \in {"locked", "flushBlock"}
  BY <1>1 DEF HoldsNew, Internalizing, EvictLabels, CriticalLabels
<1>5. SettledOf(t)'
  BY <1>0, <1>1, <1>4 DEF SettledOf
<1>6. FreeAreClean'
  BY <1>0, <1>1 DEF FreeAreClean, Frees, FreeBlocks
<1>7. CASE ok
  <2>0. pData'[b] = disk[at[t]] /\ \A c \in Blocks : c # b => pData'[c] = pData[c]
    BY <1>0, <1>1, <1>3, <1>7 DEF BlockTypes
  <2>1. disk[at[t]] = last[at[t]]
    <3>1. ASSUME NEW c \in Blocks, key[c] = at[t], bDirty[c] PROVE FALSE
      <4>1. slot[at[t]] = c
        BY <1>0, <1>1, <1>3, <3>1, DirtyIsStored DEF AtRest
      <4> QED BY <1>3, <3>1, <4>1
    <3> QED BY <1>0, <1>1, <1>2, <1>3, <3>1 DEF Kept, Bears
  <2>2. \A c \in Blocks : Bears(t, c)' <=> Bears(t, c)
    BY <1>1, <1>4 DEF Bears
  <2>3. \A c \in Blocks : Bears(t, c) => c # b
    BY <1>1, <1>3 DEF Bears
  <2>4. BearsLast(t)'
    BY <1>0, <1>1, <1>2, <2>0, <2>2, <2>3 DEF BearsLast
  <2>5. Kept(t)'
    BY <1>0, <1>1, <1>2, <2>2 DEF Kept
  <2>6. StoresLast(t)'
    <3> SUFFICES ASSUME NEW k \in Keys, slot[k] # Null
                 PROVE  pData'[slot[k]] = last[k]
      BY <1>1 DEF StoresLast
    <3>1. slot[k] \in Blocks /\ key[slot[k]] = k
      BY <1>1, StoredIsListed
    <3>2. CASE k = at[t]
      BY <1>3, <2>0, <2>1, <3>2
    <3>3. CASE k # at[t]
      BY <1>0, <1>2, <1>3, <2>0, <3>1, <3>3 DEF StoresLast, Loading
    <3> QED BY <3>2, <3>3
  <2> QED BY <1>5, <1>6, <2>4, <2>5, <2>6 DEF PixelsOf
<1>8. CASE ~ok
  <2>1. \A c \in Blocks : Bears(t, c)' <=> Bears(t, c)
    BY <1>1, <1>4 DEF Bears
  <2>2. \A k \in Keys : Loading(t, k) => Loading(t, k)'
    BY <1>1, <1>2, <1>8 DEF Loading
  <2>3. BearsLast(t)' /\ Kept(t)' /\ StoresLast(t)'
    BY <1>1, <1>2, <1>8, <2>1, <2>2, BearersStay
  <2> QED BY <1>5, <1>6, <2>3 DEF PixelsOf
<1> QED
  BY <1>7, <1>8

(* The caller writes in the locked block, the only one of its key that     *)
(* bears pixels.                                                           *)
LEMMA Pixel_WriteLocked ==
    ASSUME SingleThread, PixelInv, NEW t \in Threads, WriteLocked(t)
    PROVE  PixelsOf(t)' /\ FreeAreClean'
<1>0. /\ CallTypes /\ BlockTypes /\ DataTypes /\ FiledInv /\ LocksExact
      /\ FreeAreClean /\ SettledOf(t) /\ BearsLast(t) /\ Kept(t) /\ StoresLast(t)
  BY PixelParts
<1>b. PICK b : b = poBlock[t]
  OBVIOUS
<1>v. PICK v : v = (last[at[t]] + 1) % NValues
  OBVIOUS
<1>1. /\ pc[t] = "locked" /\ pc'[t] = "drop" /\ op[t] \in WriteOps
      /\ bDirty' = [bDirty EXCEPT ![b] = TRUE]
      /\ pData' = [pData EXCEPT ![b] = v]
      /\ last' = [last EXCEPT ![at[t]] = v]
      /\ UNCHANGED <<key, disk, slot, op, at, poBlock>>
      /\ UNCHANGED <<psListBlocksToFree, eFlushBlockErr, eGlobalErr>>
  BY <1>0, <1>b, <1>v DEF WriteLocked, CallTypes, Goto, callVars, flushVars
<1>2. \A k : ~Dropped(t, k)
  BY <1>1 DEF Dropped, WriteOps
<1>3. /\ at[t] \in Keys /\ b \in Blocks /\ slot[at[t]] = b /\ key[b] = at[t]
  BY <1>0, <1>b, <1>1, LockedIsStored
<1>4. /\ bDirty'[b] /\ pData'[b] = v /\ last'[at[t]] = v
      /\ \A c \in Blocks : c # b => bDirty'[c] = bDirty[c] /\ pData'[c] = pData[c]
      /\ \A k \in Keys : k # at[t] => last'[k] = last[k]
  BY <1>0, <1>1, <1>3 DEF BlockTypes, DataTypes
<1>5. \A c \in Blocks : (Bears(t, c) <=> bDirty[c]) /\ (Bears(t, c)' <=> bDirty'[c])
  BY <1>1 DEF Bears
<1>6. BearsLast(t)'
  <2> SUFFICES ASSUME NEW c \in Blocks, bDirty'[c]
               PROVE  key[c] \in Keys /\ pData'[c] = last'[key[c]]
    BY <1>1, <1>5 DEF BearsLast
  <2>1. CASE c = b
    BY <1>3, <1>4, <2>1
  <2>2. CASE c # b
    <3>1. bDirty[c] /\ key[c] \in Keys /\ pData[c] = last[key[c]]
      BY <1>0, <1>2, <1>4, <1>5, <2>2 DEF BearsLast
    <3>2. slot[key[c]] = c
      BY <1>0, <1>1, <3>1, DirtyIsStored DEF AtRest
    <3> QED BY <1>3, <1>4, <2>2, <3>1, <3>2
  <2> QED BY <2>1, <2>2
<1>7. Kept(t)'
  <2> SUFFICES ASSUME NEW k \in Keys, disk[k] # last'[k]
               PROVE  \E c \in Blocks : key[c] = k /\ bDirty'[c]
    BY <1>1, <1>5 DEF Kept
  <2>1. CASE k = at[t]
    BY <1>3, <1>4, <2>1
  <2>2. CASE k # at[t]
    <3>1. PICK c \in Blocks : key[c] = k /\ bDirty[c]
      BY <1>0, <1>2, <1>4, <1>5, <2>2 DEF Kept
    <3> QED BY <1>3, <1>4, <2>2, <3>1
  <2> QED BY <2>1, <2>2
<1>8. StoresLast(t)'
  <2> SUFFICES ASSUME NEW k \in Keys, slot[k] # Null
               PROVE  pData'[slot[k]] = last'[k]
    BY <1>1 DEF StoresLast
  <2>1. slot[k] \in Blocks /\ key[slot[k]] = k
    BY <1>1, StoredIsListed
  <2>2. CASE k = at[t]
    BY <1>3, <1>4, <2>2
  <2>3. CASE k # at[t]
    BY <1>0, <1>2, <1>3, <1>4, <2>1, <2>3 DEF StoresLast, Loading
  <2> QED BY <2>2, <2>3
<1>9. FreeAreClean'
  <2>1. HasLock(t)
    BY <1>1 DEF HasLock
  <2>2. ~Frees(b)
    BY <1>0, <1>b, <2>1 DEF LocksExact, Out
  <2> QED BY <1>0, <1>1, <1>4, <2>2 DEF FreeAreClean, Frees, FreeBlocks
<1>10. SettledOf(t)'
  <2>1. ~HoldsNew(t)'
    BY <1>1 DEF HoldsNew, Internalizing, EvictLabels, CriticalLabels
  <2> QED BY <1>0, <1>1, <2>1 DEF SettledOf
<1> QED
  BY <1>6, <1>7, <1>8, <1>9, <1>10 DEF PixelsOf

(* FlushCache() is done with a band, and DropCache() with its pixels: what *)
(* is on disk is now the last that was written, and no block has others.   *)
LEMMA Pixel_FlushEnds ==
    ASSUME SingleThread, PixelInv, NEW t \in Threads, FlushEnds(t)
    PROVE  PixelsOf(t)' /\ FreeAreClean'
<1>0. /\ CallTypes /\ BandTypes /\ FiledInv /\ CallOf(t) /\ OpOf(t) /\ LoopOf(t)
      /\ FreeAreClean /\ SettledOf(t) /\ BearsLast(t) /\ Kept(t) /\ StoresLast(t)
  BY PixelParts
<1>d. PICK d : d = BandOf(at[t])
  OBVIOUS
<1>1. /\ pc[t] = "flushNext" /\ iOff[t] = 0
      /\ pc'[t] \in {"destroy", "flushStorage", "flushed"}
      /\ last' = IF WritesDirtyBlocks(t) THEN last
                 ELSE [k \in Keys |-> IF BandOf(k) = d THEN disk[k] ELSE last[k]]
      /\ UNCHANGED <<key, bDirty, pData, disk, slot, op, at, poBlock>>
      /\ UNCHANGED <<psListBlocksToFree, eFlushBlockErr, eGlobalErr>>
  BY <1>0, <1>d DEF FlushEnds, CallTypes, Goto, blockVars, bandVars, callVars
<1>2. d \in Bands /\ op[t] \in FlushOps
  BY <1>0, <1>d, <1>1, AtIsKey DEF OwnerLabels, OpOf
<1>3. \A k \in Keys : BandOf(k) = d => slot[k] = Null
  <2>1. InLoop(t)
    BY <1>1, <1>2 DEF InLoop
  <2>2. \A o \in Offs : slot[<<d, o>>] = Null
    BY <1>0, <1>d, <1>1, <2>1 DEF LoopOf
  <2> QED BY <2>2 DEF Keys, BandOf
<1>4. \A c \in Blocks : bDirty[c] => key[c] \in Keys /\ BandOf(key[c]) # d
  <2> SUFFICES ASSUME NEW c \in Blocks, bDirty[c]
               PROVE  key[c] \in Keys /\ BandOf(key[c]) # d
    OBVIOUS
  <2>1. key[c] \in Keys
    BY <1>0 DEF BearsLast, Bears
  <2>2. slot[key[c]] = c
    BY <1>0, <1>1, <2>1, DirtyIsStored DEF AtRest
  <2> QED BY <1>3, <2>1, <2>2, NamesAssumption
<1>5. \A c \in Blocks : (Bears(t, c) <=> bDirty[c]) /\ (Bears(t, c)' <=> bDirty[c])
  BY <1>1 DEF Bears
<1>6. \A k \in Keys : /\ BandOf(k) # d => ~Dropped(t, k) /\ last'[k] = last[k]
                      /\ Dropped(t, k) => last'[k] = disk[k]
                      /\ ~Dropped(t, k) => last'[k] = last[k]
                      /\ ~Loading(t, k)
  BY <1>d, <1>1 DEF Dropped, Loading, WritesDirtyBlocks
<1>7. BearsLast(t)'
  BY <1>0, <1>1, <1>4, <1>5, <1>6 DEF BearsLast
<1>8. Kept(t)'
  <2> SUFFICES ASSUME NEW k \in Keys, disk[k] # last'[k]
               PROVE  \E c \in Blocks : key[c] = k /\ bDirty[c]
    BY <1>1, <1>5 DEF Kept
  <2> QED BY <1>0, <1>5, <1>6 DEF Kept
<1>9. StoresLast(t)'
  <2> SUFFICES ASSUME NEW k \in Keys, slot[k] # Null
               PROVE  pData[slot[k]] = last'[k]
    BY <1>1 DEF StoresLast
  <2> QED BY <1>0, <1>3, <1>6 DEF StoresLast
<1>10. FreeAreClean'
  BY <1>0, <1>1 DEF FreeAreClean, Frees, FreeBlocks
<1>11. SettledOf(t)'
  <2>1. ~HoldsNew(t)'
    BY <1>1 DEF HoldsNew, Internalizing, EvictLabels, CriticalLabels
  <2> QED BY <1>0, <1>1, <2>1 DEF SettledOf
<1> QED
  BY <1>7, <1>8, <1>9, <1>10, <1>11 DEF PixelsOf

-----------------------------------------------------------------------------
(* The other steps of reads, writes and evictions: a thread that holds a   *)
(* new block, or fills one, goes on with it.                               *)
NewLabels == EvictLabels \cup {"allocate", "reacquire", "adopt", "readRW"}

LEMMA InertCall ==
    ASSUME PixelInv, NEW t \in Threads,
           UNCHANGED <<key, bDirty, pData, disk, last, psListBlocksToFree, slot>>,
           \A d \in Bands : eFlushBlockErr'[d] = FALSE, eGlobalErr'[t] = FALSE,
           op[t] \notin {"dropCache", "suppress"},
           pc[t] \notin {"write", "flushIO"},
           pc'[t] \notin {"write", "release", "flushIO", "delete"},
           op'[t] = op[t] \/ pc'[t] \notin NewLabels,
           op[t] \in IoOps /\ pc'[t] \in NewLabels =>
             pc[t] \in NewLabels /\ poBlock'[t] = poBlock[t],
           pc'[t] \in NewLabels \ EvictLabels => op[t] \in IoOps,
           \/ pc[t] \notin {"readRW", "locked", "flushBlock"}
           \/ pc[t] = "readRW" /\ pc'[t] = "readRW" /\ at'[t] = at[t]
           \/ pc[t] = "locked" /\ op[t] \notin WriteOps
    PROVE  PixelsOf(t)' /\ FreeAreClean'
<1>1. HoldsNew(t)' \/ pc'[t] = "readRW" =>
        (HoldsNew(t) \/ pc[t] = "readRW") /\ poBlock'[t] = poBlock[t]
  <2> SUFFICES ASSUME HoldsNew(t)' \/ pc'[t] = "readRW"
               PROVE  (HoldsNew(t) \/ pc[t] = "readRW") /\ poBlock'[t] = poBlock[t]
    OBVIOUS
  <2>1. pc'[t] \in NewLabels
    BY DEF HoldsNew, Internalizing, NewLabels
  <2>2. op[t] \in IoOps
    <3>1. CASE pc'[t] \in EvictLabels
      BY <2>1, <3>1 DEF HoldsNew, Internalizing, EvictLabels, CriticalLabels
    <3>2. CASE pc'[t] \notin EvictLabels
      BY <2>1, <3>2
    <3> QED BY <3>1, <3>2
  <2>3. pc[t] \in NewLabels /\ poBlock'[t] = poBlock[t]
    BY <2>1, <2>2
  <2> QED BY <2>2, <2>3 DEF HoldsNew, Internalizing, NewLabels
<1>2. \A k : ~Dropped(t, k) /\ (Loading(t, k) => Loading(t, k)')
  BY DEF Dropped, Loading
<1>3. Inert(t)
  BY <1>1, <1>2 DEF Inert
<1> QED
  BY <1>3, InertStep

(* The calls.                                                              *)
LEMMA Pixel_Start ==
    ASSUME PixelInv, NEW t \in Threads, Start(t)
    PROVE  PixelsOf(t)' /\ FreeAreClean'
<1>0. CallTypes /\ BandTypes /\ FlushTypes /\ SettledOf(t) /\ OpOf(t)
  BY PixelParts
<1>n. pc[t] = "idle" => op[t] = "none"
  BY <1>0 DEF OpOf
<1> USE DEF Goto, CallTypes, SettledOf, blockVars, bandVars, callVars, flushVars,
        dataVars, NewLabels, EvictLabels, CriticalLabels
<1>1. ASSUME NEW o \in Ops, NEW k \in Keys, StartIO(t, o, k)
      PROVE  PixelsOf(t)' /\ FreeAreClean'
  <2>1. /\ pc[t] = "idle"
        /\ pc'[t] \in {"idle", "enterRW", "tryGet", "flushBlock", "flushCache",
                       "flushCacheBlock", "setCacheMax"}
        /\ UNCHANGED <<key, bDirty, pData, disk, last, psListBlocksToFree, slot>>
        /\ eGlobalErr'[t] = FALSE /\ \A d \in Bands : eFlushBlockErr'[d] = FALSE
    BY <1>0, <1>1 DEF StartIO, BandTypes
  <2> QED BY <1>n, <2>1, InertCall DEF IoOps, ReadOps, WriteOps
<1>2. ASSUME NEW o \in Ops, NEW k \in Keys, StartFlush(t, o, k)
      PROVE  PixelsOf(t)' /\ FreeAreClean'
  <2>1. /\ pc[t] = "idle"
        /\ pc'[t] \in {"idle", "enterRW", "tryGet", "flushBlock", "flushCache",
                       "flushCacheBlock", "setCacheMax"}
        /\ UNCHANGED <<key, bDirty, pData, disk, last, psListBlocksToFree, slot>>
        /\ eGlobalErr'[t] = FALSE /\ \A d \in Bands : eFlushBlockErr'[d] = FALSE
    BY <1>0, <1>2 DEF StartFlush
  <2> QED BY <1>n, <2>1, InertCall DEF IoOps, ReadOps, WriteOps
<1>3. ASSUME NEW o \in Ops, StartGlobal(t, o)
      PROVE  PixelsOf(t)' /\ FreeAreClean'
  <2>1. /\ pc[t] = "idle"
        /\ pc'[t] \in {"idle", "enterRW", "tryGet", "flushBlock", "flushCache",
                       "flushCacheBlock", "setCacheMax"}
        /\ UNCHANGED <<key, bDirty, pData, disk, last, psListBlocksToFree, slot>>
        /\ eGlobalErr'[t] = FALSE /\ \A d \in Bands : eFlushBlockErr'[d] = FALSE
    BY <1>0, <1>3 DEF StartGlobal
  <2> QED BY <1>n, <2>1, InertCall DEF IoOps, ReadOps, WriteOps
<1>4. ASSUME NEW ds \in Datasets, Reopen(t, ds)
      PROVE  PixelsOf(t)' /\ FreeAreClean'
  <2>1. /\ pc[t] = "idle"
        /\ pc'[t] \in {"idle", "enterRW", "tryGet", "flushBlock", "flushCache",
                       "flushCacheBlock", "setCacheMax"}
        /\ UNCHANGED <<key, bDirty, pData, disk, last, psListBlocksToFree, slot>>
        /\ eGlobalErr'[t] = FALSE /\ \A d \in Bands : eFlushBlockErr'[d] = FALSE
    BY <1>0, <1>4 DEF Reopen
  <2> QED BY <1>n, <2>1, InertCall DEF IoOps, ReadOps, WriteOps
<1>5. CASE EnterDisableDirtyBlockFlush(t)
  <2>1. /\ pc[t] = "idle"
        /\ pc'[t] \in {"idle", "enterRW", "tryGet", "flushBlock", "flushCache",
                       "flushCacheBlock", "setCacheMax"}
        /\ UNCHANGED <<key, bDirty, pData, disk, last, psListBlocksToFree, slot>>
        /\ eGlobalErr'[t] = FALSE /\ \A d \in Bands : eFlushBlockErr'[d] = FALSE
    BY <1>0, <1>5 DEF EnterDisableDirtyBlockFlush
  <2> QED BY <1>n, <2>1, InertCall DEF IoOps, ReadOps, WriteOps
<1>6. CASE LeaveDisableDirtyBlockFlush(t)
  <2>1. /\ pc[t] = "idle"
        /\ pc'[t] \in {"idle", "enterRW", "tryGet", "flushBlock", "flushCache",
                       "flushCacheBlock", "setCacheMax"}
        /\ UNCHANGED <<key, bDirty, pData, disk, last, psListBlocksToFree, slot>>
        /\ eGlobalErr'[t] = FALSE /\ \A d \in Bands : eFlushBlockErr'[d] = FALSE
    BY <1>0, <1>6 DEF LeaveDisableDirtyBlockFlush
  <2> QED BY <1>n, <2>1, InertCall DEF IoOps, ReadOps, WriteOps
<1> QED
  BY <1>1, <1>2, <1>3, <1>4, <1>5, <1>6 DEF Start

(* GetLockedBlockRef() and its callers.                                    *)
LEMMA Pixel_Io ==
    ASSUME SingleThread, PixelInv, NEW t \in Threads, IoStep(t)
    PROVE  PixelsOf(t)' /\ FreeAreClean'
<1>0. CallTypes /\ BandTypes /\ FlushTypes /\ SettledOf(t) /\ OpOf(t)
  BY PixelParts
<1>n. pc[t] \in IoLabels => op[t] \in IoOps /\ op[t] \notin {"dropCache", "suppress"}
  BY <1>0 DEF OpOf, IoOps, ReadOps, WriteOps
<1> DEFINE Idle == /\ UNCHANGED <<key, bDirty, pData, disk, last>>
                   /\ UNCHANGED <<psListBlocksToFree, slot>>
                   /\ \A d \in Bands : eFlushBlockErr'[d] = FALSE
                   /\ eGlobalErr'[t] = FALSE
<1>i. ASSUME Idle, pc[t] \in IoLabels \ {"readRW", "locked"},
             pc'[t] \in Labels \ (NewLabels \cup {"delete", "flushIO"})
      PROVE  PixelsOf(t)' /\ FreeAreClean'
  <2>1. pc'[t] \notin NewLabels \cup {"delete", "flushIO"}
    BY <1>i
  <2>2. pc'[t] \notin {"write", "release"}
    BY <2>1 DEF NewLabels, EvictLabels
  <2> QED BY <1>i, <1>n, <2>1, <2>2, InertCall DEF IoLabels
<1>1. CASE WaitPendingTasks(t)
  <2>1. /\ Idle /\ pc[t] \in {"enterRW", "readRW"} /\ pc'[t] = pc[t]
        /\ at'[t] = at[t] /\ op'[t] = op[t] /\ poBlock'[t] = poBlock[t]
    BY <1>0, <1>1 DEF WaitPendingTasks, SettledOf, blockVars, bandVars,
       dataVars,
       callVars
  <2> HIDE DEF Idle
  <2>2. op[t] \in IoOps /\ op[t] \notin {"dropCache", "suppress"}
    BY <1>n, <2>1 DEF IoLabels
  <2>3. pc[t] = "enterRW" => pc'[t] \notin NewLabels
    BY <2>1 DEF NewLabels, EvictLabels, CriticalLabels
  <2>4. pc[t] = "readRW" => pc[t] \in NewLabels
    BY DEF NewLabels
  <2> QED BY <2>1, <2>2, <2>3, <2>4, InertCall DEF Idle
<1>2. CASE EnterReadWrite(t)
  <2>1. Idle /\ pc[t] \in {"enterRW"} /\ pc'[t] \in {"tryGet"}
    BY <1>0, <1>2 DEF EnterReadWrite, SettledOf, CallTypes, FlushTypes, Goto,
       blockVars, bandVars, dataVars, callVars, flushVars
  <2> HIDE DEF Idle
  <2> QED BY <1>i, <2>1 DEF IoLabels, Labels, NewLabels, EvictLabels, CriticalLabels
<1>3. CASE TryGetLockedBlockRef(t)
  <2>1. Idle /\ pc[t] \in {"tryGet"} /\ pc'[t] \in {"create", "takeLock"}
    BY <1>0, <1>3 DEF TryGetLockedBlockRef, SettledOf, CallTypes, FlushTypes,
       Goto,
       blockVars, bandVars, dataVars, callVars, flushVars
  <2> HIDE DEF Idle
  <2> QED BY <1>i, <2>1 DEF IoLabels, Labels, NewLabels, EvictLabels, CriticalLabels
<1>4. CASE TakeLock(t)
  <2>1. Idle /\ pc[t] \in {"takeLock"} /\ pc'[t] \in {"touch", "takeLockFailed"}
    BY <1>0, <1>4 DEF TakeLock, SettledOf, CallTypes, FlushTypes, Goto,
       blockVars, bandVars, dataVars, callVars, flushVars
  <2> HIDE DEF Idle
  <2> QED BY <1>i, <2>1 DEF IoLabels, Labels, NewLabels, EvictLabels, CriticalLabels
<1>5. CASE TakeLockFailed(t)
  <2>1. Idle /\ pc[t] \in {"takeLockFailed"} /\ pc'[t] \in {"create"}
    BY <1>0, <1>5 DEF TakeLockFailed, SettledOf, CallTypes, FlushTypes, Goto,
       blockVars, bandVars, dataVars, callVars, flushVars
  <2> HIDE DEF Idle
  <2> QED BY <1>i, <2>1 DEF IoLabels, Labels, NewLabels, EvictLabels, CriticalLabels
<1>6. CASE Touch(t)
  <2>1. Idle /\ pc[t] \in {"touch"} /\ pc'[t] \in {"locked", "touchLocked"}
    BY <1>0, <1>6 DEF Touch, SettledOf, CallTypes, FlushTypes, Goto,
       blockVars, bandVars, dataVars, callVars, flushVars
  <2> HIDE DEF Idle
  <2> QED BY <1>i, <2>1 DEF IoLabels, Labels, NewLabels, EvictLabels, CriticalLabels
<1>7. CASE TouchLocked(t)
  <2>1. Idle /\ pc[t] \in {"touchLocked"} /\ pc'[t] \in {"locked"}
    BY <1>0, <1>7 DEF TouchLocked, SettledOf, CallTypes, FlushTypes, Goto,
       blockVars, bandVars, dataVars, callVars, flushVars
  <2> HIDE DEF Idle
  <2> QED BY <1>i, <2>1 DEF IoLabels, Labels, NewLabels, EvictLabels, CriticalLabels
<1>8. CASE CreateBlockFails(t)
  <2>1. Idle /\ pc[t] \in {"create"} /\ pc'[t] \in {"failed"}
    BY <1>0, <1>8 DEF CreateBlockFails, SettledOf, CallTypes, FlushTypes, Goto,
       blockVars, bandVars, dataVars, callVars, flushVars
  <2> HIDE DEF Idle
  <2> QED BY <1>i, <2>1 DEF IoLabels, Labels, NewLabels, EvictLabels, CriticalLabels
<1>9. CASE ReacquireReadWriteLock(t)
  <2>1. /\ Idle /\ pc[t] = "reacquire" /\ pc'[t] \in {"adopt", "discard"}
        /\ op'[t] = op[t] /\ poBlock'[t] = poBlock[t]
    BY <1>0, <1>9 DEF ReacquireReadWriteLock, SettledOf, CallTypes, Goto,
       blockVars, bandVars, callVars, flushVars
  <2> HIDE DEF Idle
  <2>2. op[t] \in IoOps /\ op[t] \notin {"dropCache", "suppress"}
    BY <1>n, <2>1 DEF IoLabels
  <2>3. pc[t] \in NewLabels
    BY <2>1 DEF NewLabels
  <2> QED BY <2>1, <2>2, <2>3, InertCall DEF Idle
<1>10. ASSUME NEW b \in Blocks, CreateBlock(t, b)
      PROVE  PixelsOf(t)' /\ FreeAreClean'
  BY <1>10, Pixel_CreateBlock
<1>11. ASSUME NEW ok \in BOOLEAN, Allocate(t, ok)
      PROVE  PixelsOf(t)' /\ FreeAreClean'
  BY <1>11, Pixel_Allocate
<1>12. ASSUME NEW ok \in BOOLEAN, AdoptBlock(t, ok)
      PROVE  PixelsOf(t)' /\ FreeAreClean'
  BY <1>12, Pixel_AdoptBlock
<1>13. ASSUME NEW ok \in BOOLEAN, ReadBlock(t, ok)
      PROVE  PixelsOf(t)' /\ FreeAreClean'
  BY <1>13, Pixel_ReadBlock
<1>14. CASE WriteLocked(t)
  BY <1>14, Pixel_WriteLocked
<1>15. CASE Discard(t)
  <2>1. Idle /\ pc[t] \in {"discard"} /\ pc'[t] \in {"discarded"}
    BY <1>0, <1>15 DEF Discard, SettledOf, CallTypes, FlushTypes, Goto,
       blockVars, bandVars, dataVars, callVars, flushVars
  <2> HIDE DEF Idle
  <2> QED BY <1>i, <2>1 DEF IoLabels, Labels, NewLabels, EvictLabels, CriticalLabels
<1>16. CASE Failed(t)
  <2>1. Idle /\ pc[t] \in {"failed"} /\ pc'[t] \in {"idle"}
    BY <1>0, <1>16 DEF Failed, Return, SettledOf, CallTypes, FlushTypes, Goto,
       blockVars, bandVars, dataVars, callVars, flushVars
  <2> HIDE DEF Idle
  <2> QED BY <1>i, <2>1 DEF IoLabels, Labels, NewLabels, EvictLabels, CriticalLabels
<1>17. ASSUME NEW more \in BOOLEAN, DropLock(t, more)
      PROVE  PixelsOf(t)' /\ FreeAreClean'
  <2>1. /\ Idle
        /\ pc[t] = "drop" \/ (pc[t] = "locked" /\ op[t] \notin WriteOps)
        /\ pc'[t] \in {"tryGet", "idle"}
    BY <1>0, <1>17 DEF DropLock, Return, SettledOf, CallTypes, FlushTypes, Goto,
       bandVars
  <2> HIDE DEF Idle
  <2>2. op[t] \in IoOps /\ op[t] \notin {"dropCache", "suppress"}
    BY <1>n, <2>1 DEF IoLabels
  <2>3. pc'[t] \notin NewLabels
    BY <2>1 DEF NewLabels, EvictLabels, CriticalLabels
  <2> QED BY <2>1, <2>2, <2>3, InertCall DEF Idle
<1> QED
  BY <1>1, <1>2, <1>3, <1>4, <1>5, <1>6, <1>7, <1>8, <1>9, <1>10, <1>11,
     <1>12, <1>13, <1>14, <1>15, <1>16, <1>17 DEF IoStep

(* Evictions.                                                              *)
LEMMA Pixel_Evict ==
    ASSUME SingleThread, PixelInv, WritesSucceed, NEW t \in Threads, EvictStep(t)
    PROVE  PixelsOf(t)' /\ FreeAreClean'
<1>0. CallTypes /\ BandTypes /\ FlushTypes /\ SettledOf(t) /\ OpOf(t)
  BY PixelParts
<1> DEFINE Scans == {"internalize", "scan", "exchange", "exchangeOther", "fallback",
                     "detach", "unreference", "scanned", "free", "keepAlive"}
<1> DEFINE Idle == /\ UNCHANGED <<key, bDirty, pData, disk, last>>
                   /\ UNCHANGED <<psListBlocksToFree, op, poBlock>>
                   /\ \A k \in Keys : slot'[k] \in {slot[k], Null}
                   /\ \A d \in Bands : eFlushBlockErr'[d] = FALSE
                   /\ eGlobalErr'[t] = FALSE
<1>n. /\ pc[t] \in GlobalLabels => op[t] \in GlobalOps
      /\ pc[t] \in Scans => op[t] \in IoOps \cup GlobalOps
      /\ op[t] \in IoOps \cup GlobalOps => op[t] \notin {"dropCache", "suppress"}
  BY <1>0 DEF OpOf, IoLabels, RoundEnd, IoOps, ReadOps, WriteOps, GlobalOps
<1>i. ASSUME Idle, pc[t] \in Scans \cup GlobalLabels,
             \/ pc[t] \in Scans /\ pc'[t] \in Scans
             \/ pc'[t] \in GlobalLabels \cup {"detach", "flushed"} /\ op[t] \in GlobalOps
             \/ pc[t] = "free" /\ pc'[t] = "allocate" /\ op[t] \in IoOps
      PROVE  PixelsOf(t)' /\ FreeAreClean'
  <2> HIDE DEF Idle
  <2>1. \A k : ~Dropped(t, k) /\ ~Loading(t, k)
    BY <1>i, <1>n DEF Dropped, Loading, GlobalLabels
  <2>2. HoldsNew(t)' => HoldsNew(t) /\ poBlock'[t] = poBlock[t]
    <3>1. op[t] \in GlobalOps => op[t] \notin IoOps
      BY DEF GlobalOps, IoOps, ReadOps, WriteOps
    <3>2. op'[t] = op[t] /\ poBlock'[t] = poBlock[t]
      BY <1>i DEF Idle
    <3> QED BY <1>i, <3>1, <3>2 DEF HoldsNew, Internalizing, EvictLabels,
               CriticalLabels, GlobalLabels
  <2>3. /\ pc[t] \notin {"write", "flushIO"}
        /\ pc'[t] \notin {"write", "release", "flushIO", "delete", "readRW"}
    BY <1>i DEF GlobalLabels
  <2>4. Inert(t)
    BY <1>i, <2>1, <2>2, <2>3 DEF Inert, Idle
  <2> QED BY <2>4, InertStep
<1>1. CASE InternalizeLock(t)
  <2>1. Idle /\ pc[t] = "internalize" /\ pc'[t] \in {"scan"}
    BY <1>0, <1>1 DEF InternalizeLock, StartRound, SettledOf, CallTypes, Goto,
       blockVars, bandVars, dataVars, callVars, flushVars
  <2> HIDE DEF Idle
  <2> QED BY <1>i, <1>n, <2>1 DEF GlobalLabels
<1>2. CASE Scan(t)
  <2>1. /\ Idle /\ pc[t] = "scan"
        /\ pc'[t] \in {"scan", "exchange", "exchangeOther", "scanned"}
    BY <1>0, <1>2 DEF Scan, SettledOf, CallTypes, Goto,
       blockVars, bandVars, dataVars, callVars, flushVars
  <2> HIDE DEF Idle
  <2> QED BY <1>i, <1>n, <2>1 DEF GlobalLabels
<1>3. CASE Exchange(t)
  <2>1. Idle /\ pc[t] = "exchange" /\ pc'[t] \in {"scan", "detach"}
    BY <1>0, <1>3 DEF Exchange, Claim, SettledOf, CallTypes, Goto,
       blockVars, bandVars, dataVars, callVars, flushVars
  <2> HIDE DEF Idle
  <2> QED BY <1>i, <1>n, <2>1 DEF GlobalLabels
<1>4. CASE ExchangeOther(t)
  <2>1. Idle /\ pc[t] = "exchangeOther" /\ pc'[t] \in {"fallback", "detach"}
    BY <1>0, <1>4 DEF ExchangeOther, Claim, SettledOf, CallTypes, Goto,
       blockVars, bandVars, dataVars, callVars, flushVars
  <2> HIDE DEF Idle
  <2> QED BY <1>i, <1>n, <2>1 DEF GlobalLabels
<1>5. CASE Fallback(t)
  <2>1. Idle /\ pc[t] = "fallback" /\ pc'[t] \in {"fallback", "detach"}
    BY <1>0, <1>5 DEF Fallback, Claim, SettledOf, CallTypes, Goto,
       blockVars, bandVars, dataVars, callVars, flushVars
  <2> HIDE DEF Idle
  <2> QED BY <1>i, <1>n, <2>1 DEF GlobalLabels
<1>6. CASE FallbackEnds(t)
  <2>1. Idle /\ pc[t] = "fallback" /\ pc'[t] \in {"scanned"}
    BY <1>0, <1>6 DEF FallbackEnds, SettledOf, CallTypes, Goto,
       blockVars, bandVars, dataVars, callVars, flushVars
  <2> HIDE DEF Idle
  <2> QED BY <1>i, <1>n, <2>1 DEF GlobalLabels
<1>7. CASE Detach(t)
  <2>1. Idle /\ pc[t] = "detach" /\ pc'[t] \in {"unreference"}
    BY <1>0, <1>7 DEF Detach, SettledOf, CallTypes, Goto,
       blockVars, bandVars, dataVars, callVars, flushVars
  <2> HIDE DEF Idle
  <2> QED BY <1>i, <1>n, <2>1 DEF GlobalLabels
<1>8. CASE UnreferenceBlock(t)
  <2>1. Idle /\ pc[t] = "unreference" /\ pc'[t] \in {"scan", "scanned"}
    BY <1>0, <1>8 DEF UnreferenceBlock, Unreferenced, BandTypes, SettledOf,
       CallTypes, Goto,
       blockVars, bandVars, dataVars, callVars, flushVars
  <2> HIDE DEF Idle
  <2> QED BY <1>i, <1>n, <2>1 DEF GlobalLabels
<1>9. CASE Scanned(t)
  <2>1. Idle /\ pc[t] = "scanned" /\ pc'[t] \in {"free"}
    BY <1>0, <1>9 DEF Scanned, SettledOf, CallTypes, Goto,
       blockVars, bandVars, dataVars, callVars, flushVars
  <2> HIDE DEF Idle
  <2> QED BY <1>i, <1>n, <2>1 DEF GlobalLabels
<1>10. CASE FreeNext(t)
  BY <1>10, Pixel_FreeNext
<1>11. CASE Release(t)
  BY <1>11, Pixel_Release
<1>12. CASE KeepAliveDec(t)
  <2>1. Idle /\ pc[t] = "keepAlive" /\ pc'[t] \in {"free"}
    BY <1>0, <1>12 DEF KeepAliveDec, SettledOf, CallTypes, Goto,
       blockVars, bandVars, dataVars, callVars, flushVars
  <2> HIDE DEF Idle
  <2> QED BY <1>i, <1>n, <2>1 DEF GlobalLabels
<1>13. CASE FreeEnds(t)
  <2>1. /\ Idle /\ pc[t] = "free"
        /\ pc'[t] = IF op[t] \in IoOps
                    THEN IF bLoopAgain[t] THEN "internalize" ELSE "allocate"
                    ELSE IF op[t] = "flushDirtyBlocks" THEN "flushCacheBlock"
                    ELSE "flushedOne"
    BY <1>0, <1>13 DEF FreeEnds, SettledOf, CallTypes, Goto,
       blockVars, bandVars, dataVars, callVars, flushVars
  <2> HIDE DEF Idle
  <2> QED BY <1>i, <1>n, <2>1 DEF GlobalLabels
<1>14. ASSUME NEW ok \in BOOLEAN, WriteEvicted(t, ok)
      PROVE  PixelsOf(t)' /\ FreeAreClean'
  BY <1>14, Pixel_WriteEvicted
<1>15. CASE SetCacheMaxLoop(t)
  <2>1. /\ Idle /\ pc[t] = "setCacheMax"
        /\ pc'[t] \in {"flushCacheBlock", "flushed"}
    BY <1>0, <1>15 DEF SetCacheMaxLoop, SettledOf, CallTypes, Goto,
       blockVars, bandVars, dataVars, callVars, flushVars
  <2> HIDE DEF Idle
  <2> QED BY <1>i, <1>n, <2>1 DEF GlobalLabels
<1>16. CASE FlushCacheBlock(t)
  <2>1. Idle /\ pc[t] = "flushCacheBlock" /\ pc'[t] \in {"flushScan"}
    BY <1>0, <1>16 DEF FlushCacheBlock, SettledOf, CallTypes, Goto,
       blockVars, bandVars, dataVars, callVars, flushVars
  <2> HIDE DEF Idle
  <2> QED BY <1>i, <1>n, <2>1 DEF GlobalLabels
<1>17. CASE FlushScan(t)
  <2>1. Idle /\ pc[t] = "flushScan" /\ pc'[t] \in {"flushScan", "flushExchange"}
    BY <1>0, <1>17 DEF FlushScan, SettledOf, CallTypes, Goto,
       blockVars, bandVars, dataVars, callVars, flushVars
  <2> HIDE DEF Idle
  <2> QED BY <1>i, <1>n, <2>1 DEF GlobalLabels
<1>18. CASE FlushExchange(t)
  <2>1. Idle /\ pc[t] = "flushExchange" /\ pc'[t] \in {"flushScan", "detach"}
    BY <1>0, <1>18 DEF FlushExchange, Claim, SettledOf, CallTypes, Goto,
       blockVars, bandVars, dataVars, callVars, flushVars
  <2> HIDE DEF Idle
  <2> QED BY <1>i, <1>n, <2>1 DEF GlobalLabels
<1>19. CASE FlushScanEnds(t)
  <2>1. Idle /\ pc[t] = "flushScan" /\ pc'[t] \in {"flushedOne", "flushed"}
    BY <1>0, <1>19 DEF FlushScanEnds, SettledOf, CallTypes, Goto,
       blockVars, bandVars, dataVars, callVars, flushVars
  <2> HIDE DEF Idle
  <2> QED BY <1>i, <1>n, <2>1 DEF GlobalLabels
<1>20. CASE FlushedOne(t)
  <2>1. Idle /\ pc[t] = "flushedOne" /\ pc'[t] \in {"setCacheMax", "flushed"}
    BY <1>0, <1>20 DEF FlushedOne, SettledOf, CallTypes, Goto,
       blockVars, bandVars, dataVars, callVars, flushVars
  <2> HIDE DEF Idle
  <2> QED BY <1>i, <1>n, <2>1 DEF GlobalLabels
<1> QED
  BY <1>1, <1>2, <1>3, <1>4, <1>5, <1>6, <1>7, <1>8, <1>9, <1>10, <1>11,
     <1>12, <1>13, <1>14, <1>15, <1>16, <1>17, <1>18, <1>19, <1>20 DEF
     EvictStep

(* FlushBlock(), FlushCache() and the destructors.                         *)
LEMMA Pixel_Flush ==
    ASSUME SingleThread, PixelInv, WritesSucceed, NEW t \in Threads, FlushStep(t)
    PROVE  PixelsOf(t)' /\ FreeAreClean'
<1>0. CallTypes /\ BandTypes /\ FlushTypes /\ SettledOf(t) /\ OpOf(t)
  BY PixelParts
<1> DEFINE Idle == /\ UNCHANGED <<key, bDirty, pData, disk, last>>
                   /\ UNCHANGED psListBlocksToFree
                   /\ \A k \in Keys : slot'[k] \in {slot[k], Null}
                   /\ \A d \in Bands : eFlushBlockErr'[d] = FALSE
                   /\ eGlobalErr'[t] = FALSE
<1>i. ASSUME Idle,
             pc[t] \notin {"write", "flushIO", "readRW", "locked"},
             pc'[t] \in {"idle", "claimFlush", "flushWait", "flushDetach", "flushWrite",
                         "flushStorage", "flushNext", "flushed", "failed"},
             \A k \in Keys : Dropped(t, k) => Dropped(t, k)',
             \A k \in Keys : Loading(t, k) => slot'[k] = Null
      PROVE  PixelsOf(t)' /\ FreeAreClean'
  <2> HIDE DEF Idle
  <2>1. ~HoldsNew(t)'
    BY <1>i DEF HoldsNew, Internalizing, EvictLabels, CriticalLabels
  <2>2. Inert(t)
    BY <1>i, <2>1 DEF Inert, Idle
  <2> QED BY <2>2, InertStep
<1>1. CASE FlushBlock(t)
  <2>1. /\ Idle /\ pc[t] = "flushBlock"
        /\ slot' = [slot EXCEPT ![at[t]] = Null]
        /\ pc'[t] \in {"flushNext", "failed", "flushed", "claimFlush"}
    BY <1>0, <1>1 DEF FlushBlock, AfterFlushBlock, BandTypes, SettledOf,
       CallTypes, Goto, blockVars, dataVars, flushVars
  <2> HIDE DEF Idle
  <2>2. \A k \in Keys : Loading(t, k) => slot'[k] = Null
    BY <1>0, <2>1 DEF Loading, BandTypes
  <2>3. \A k : ~Dropped(t, k)
    BY <1>0, <2>1 DEF Dropped, OpOf, IoOps, ReadOps, WriteOps
  <2> QED BY <1>i, <2>1, <2>2, <2>3
<1>2. CASE ClaimFlush(t)
  <2>1. /\ Idle /\ pc[t] = "claimFlush"
        /\ pc'[t] \in {"flushWrite", "flushDetach", "flushWait"}
        /\ UNCHANGED <<op, at>>
    BY <1>0, <1>2 DEF ClaimFlush, SettledOf, CallTypes, Goto,
       blockVars, bandVars, dataVars, callVars, flushVars
  <2> HIDE DEF Idle
  <2>2. \A k : ~Loading(t, k) /\ (Dropped(t, k) => Dropped(t, k)')
    BY <2>1 DEF Dropped, Loading
  <2> QED BY <1>i, <2>1, <2>2
<1>3. CASE FlushWait(t)
  <2>1. /\ Idle /\ pc[t] = "flushWait" /\ UNCHANGED <<op, at>>
        /\ pc'[t] = AfterFlushBlock(t)
    BY <1>0, <1>3 DEF FlushWait, SettledOf, CallTypes, Goto,
       blockVars, bandVars, dataVars, flushVars
  <2> HIDE DEF Idle
  <2>2. \A k : ~Loading(t, k) /\ (Dropped(t, k) => Dropped(t, k)')
    BY <2>1 DEF Dropped, Loading, AfterFlushBlock, FlushOps
  <2>3. pc'[t] \in {"flushNext", "failed", "flushed"}
    BY <2>1 DEF AfterFlushBlock
  <2> QED BY <1>i, <2>1, <2>2, <2>3
<1>4. CASE FlushDetach(t)
  <2>1. /\ Idle /\ pc[t] = "flushDetach" /\ pc'[t] \in {"flushWrite"}
        /\ UNCHANGED <<op, at>>
    BY <1>0, <1>4 DEF FlushDetach, SettledOf, CallTypes, Goto,
       blockVars, bandVars, dataVars, callVars, flushVars
  <2> HIDE DEF Idle
  <2>2. \A k : ~Loading(t, k) /\ (Dropped(t, k) => Dropped(t, k)')
    BY <2>1 DEF Dropped, Loading
  <2> QED BY <1>i, <2>1, <2>2
<1>5. CASE FlushWrite(t)
  BY <1>5, Pixel_FlushWrite
<1>6. CASE Delete(t)
  BY <1>6, Pixel_Delete
<1>7. CASE FlushCache(t)
  <2>1. /\ Idle /\ pc[t] = "flushCache" /\ pc'[t] \in {"flushStorage"}
        /\ UNCHANGED <<op, at>>
    BY <1>0, <1>7 DEF FlushCache, BandTypes, SettledOf, CallTypes, Goto,
       blockVars, bandVars, dataVars, callVars, flushVars
  <2> HIDE DEF Idle
  <2>2. \A k : ~Loading(t, k) /\ (Dropped(t, k) => Dropped(t, k)')
    BY <2>1 DEF Dropped, Loading
  <2> QED BY <1>i, <2>1, <2>2
<1>8. CASE FlushStorage(t)
  BY <1>8, Pixel_FlushStorage
<1>9. CASE FlushNext(t)
  <2>1. /\ Idle /\ pc[t] = "flushNext"
        /\ pc'[t] \in {"flushNext", "claimFlush"} /\ UNCHANGED <<op, at>>
    BY <1>0, <1>9 DEF FlushNext, BandTypes, SettledOf, CallTypes, Goto,
       blockVars, bandVars, dataVars, callVars, flushVars
  <2> HIDE DEF Idle
  <2>2. \A k : ~Loading(t, k) /\ (Dropped(t, k) => Dropped(t, k)')
    BY <2>1 DEF Dropped, Loading
  <2> QED BY <1>i, <2>1, <2>2
<1>10. CASE FlushEnds(t)
  BY <1>10, Pixel_FlushEnds
<1>11. CASE Destroy(t)
  BY <1>11, Pixel_Destroy
<1>12. CASE Flushed(t)
  <2>1. Idle /\ pc[t] = "flushed" /\ pc'[t] = "idle"
    BY <1>0, <1>12 DEF Flushed, Return, SettledOf, CallTypes, FlushTypes, Goto,
       blockVars, bandVars, dataVars
  <2> HIDE DEF Idle
  <2>2. \A k : ~Loading(t, k) /\ ~Dropped(t, k)
    BY <2>1 DEF Dropped, Loading
  <2> QED BY <1>i, <2>1, <2>2
<1>13. ASSUME NEW ok \in BOOLEAN, FlushIO(t, ok)
      PROVE  PixelsOf(t)' /\ FreeAreClean'
  BY <1>13, Pixel_FlushIO
<1> QED
  BY <1>1, <1>2, <1>3, <1>4, <1>5, <1>6, <1>7, <1>8, <1>9, <1>10, <1>11,
     <1>12, <1>13 DEF FlushStep

-----------------------------------------------------------------------------
(* At the start there is no block, and no pixel has been written.          *)
LEMMA Pixel_Init == Init => FreeAreClean /\ \A t \in Threads : PixelsOf(t)
<1> SUFFICES ASSUME Init PROVE FreeAreClean /\ \A t \in Threads : PixelsOf(t)
  OBVIOUS
<1>1. FreeAreClean
  BY DEF Init, FreeAreClean
<1>2. ASSUME NEW t \in Threads PROVE PixelsOf(t)
  <2>1. pc[t] = "idle"
    BY DEF Init
  <2>2. \A b \in Blocks : ~Bears(t, b)
    BY <2>1 DEF Init, Bears
  <2>3. ~HoldsNew(t)
    BY <2>1 DEF HoldsNew, Internalizing, EvictLabels, CriticalLabels
  <2>4. SettledOf(t)
    BY <2>1, <2>3 DEF Init, SettledOf
  <2>5. BearsLast(t)
    BY <2>2 DEF BearsLast
  <2>6. Kept(t)
    BY DEF Init, Kept
  <2>7. StoresLast(t)
    BY DEF Init, StoresLast
  <2> QED BY <2>4, <2>5, <2>6, <2>7 DEF PixelsOf
<1> QED BY <1>1, <1>2

LEMMA PixelInv_Next ==
    ASSUME AllocationsSucceed, WritesSucceed, SingleThread, PixelInv, [Next]_vars
    PROVE  PixelInv'
<1>1. FiledInv'
  BY FiledInv_Next DEF PixelInv
<1>2. ASSUME NEW t \in Threads, Start(t) \/ Step(t)
      PROVE  FreeAreClean' /\ \A u \in Threads : PixelsOf(u)'
  <2>1. PixelsOf(t)' /\ FreeAreClean'
    BY <1>2, Pixel_Start, Pixel_Io, Pixel_Evict, Pixel_Flush DEF Step
  <2>2. \A u \in Threads : u = t
    BY DEF SingleThread
  <2> QED BY <2>1, <2>2
<1>3. CASE UNCHANGED vars
  <2>1. /\ UNCHANGED <<key, bDirty, pData, disk, last, psListBlocksToFree, slot>>
        /\ UNCHANGED <<eFlushBlockErr, eGlobalErr, pc, op, at, poBlock, poTarget>>
        /\ UNCHANGED toFree
    BY <1>3 DEF vars, blockVars, cacheVars, bandVars, dataVars, callVars,
       scanVars, flushVars
  <2>2. FreeAreClean'
    BY <2>1 DEF PixelInv, FreeAreClean, Frees, FreeBlocks
  <2>3. ASSUME NEW t \in Threads PROVE PixelsOf(t)'
    <3>1. /\ HoldsNew(t)' <=> HoldsNew(t)
          /\ Target(t)' = Target(t)
      BY <2>1 DEF HoldsNew, Internalizing, Target
    <3>2. /\ \A b : Bears(t, b)' <=> Bears(t, b)
          /\ \A k : Dropped(t, k)' <=> Dropped(t, k)
          /\ \A k : Loading(t, k)' <=> Loading(t, k)
      BY <2>1, <3>1 DEF Bears, Dropped, Loading
    <3>3. PixelsOf(t)
      BY DEF PixelInv
    <3>4. SettledOf(t)'
      BY <2>1, <3>1, <3>3 DEF PixelsOf, SettledOf
    <3>5. BearsLast(t)' /\ Kept(t)' /\ StoresLast(t)'
      BY <2>1, <3>2, <3>3 DEF PixelsOf, BearsLast, Kept, StoresLast
    <3> QED BY <3>4, <3>5 DEF PixelsOf
  <2> QED BY <1>1, <2>2, <2>3 DEF PixelInv
<1> QED
  BY <1>1, <1>2, <1>3 DEF Next, PixelInv

(* With one thread, a driver whose writes succeed and memory for every     *)
(* block: the pixels last given to a band are on disk or in a dirty block  *)
(* (or one being written), every block in the storage has them, and a      *)
(* block is clean before FreeDanglingBlocks() or an eviction deletes it.   *)
THEOREM PixelsInvariant ==
    AllocationsSucceed /\ WritesSucceed /\ SingleThread => (Spec => []PixelInv)
<1> SUFFICES ASSUME AllocationsSucceed, WritesSucceed, SingleThread
             PROVE  Spec => []PixelInv
  OBVIOUS
<1>1. Init => PixelInv
  BY ControlInv_Init, Owned_Init, Filed_Init, Pixel_Init
     DEF PixelInv, FiledInv, OwnInv
<1>2. PixelInv /\ [Next]_vars => PixelInv'
  BY PixelInv_Next
<1> QED
  BY <1>1, <1>2, PTL DEF Spec

(* A block that RasterIO() or ReadBlock() hands to its caller holds the    *)
(* pixels last written there, whether the block stayed in the cache, was   *)
(* evicted and read back, flushed, or dropped: no sequence of calls that   *)
(* fills the cache, disables flushing, shrinks it or fails to read returns *)
(* older pixels.                                                           *)
THEOREM ReadersSeeLastWrite ==
    AllocationsSucceed /\ WritesSucceed /\ SingleThread =>
        (Spec => []ReadsLastWrite)
<1> SUFFICES ASSUME AllocationsSucceed, WritesSucceed, SingleThread
             PROVE  Spec => []ReadsLastWrite
  OBVIOUS
<1>1. PixelInv => ReadsLastWrite
  <2> SUFFICES ASSUME PixelInv, NEW t \in Threads, pc[t] = "locked",
                      op[t] \in {"read", "readBlock"}
               PROVE  pData[poBlock[t]] = last[at[t]]
    BY DEF ReadsLastWrite
  <2>1. FiledInv /\ StoresLast(t)
    BY PixelParts
  <2>2. at[t] \in Keys /\ poBlock[t] # Null /\ slot[at[t]] = poBlock[t]
    BY <2>1, LockedIsStored
  <2>3. ~Dropped(t, at[t]) /\ ~Loading(t, at[t])
    BY DEF Dropped, Loading, WriteOps
  <2> QED BY <2>1, <2>2, <2>3 DEF StoresLast
<1> QED
  BY <1>1, PixelsInvariant, PTL

(* When FlushCache() is done with a band, and when a dataset is closed,     *)
(* the pixels last written to every block of the band are on disk: neither *)
(* evictions before the flush nor taking a block out of the storage before *)
(* it is written loses any.  After DropCache(), which writes nothing, the  *)
(* pixels on disk count as the last ones.                                  *)
THEOREM FlushReachesDisk ==
    AllocationsSucceed /\ WritesSucceed /\ SingleThread =>
        (Spec => []FlushedIsOnDisk)
<1> SUFFICES ASSUME AllocationsSucceed, WritesSucceed, SingleThread
             PROVE  Spec => []FlushedIsOnDisk
  OBVIOUS
<1>1. PixelInv => FlushedIsOnDisk
  <2> SUFFICES ASSUME PixelInv, NEW t \in Threads, pc[t] = "flushed",
                      op[t] \in FlushOps, NEW o \in Offs
               PROVE  disk[<<BandOf(at[t]), o>>] = last[<<BandOf(at[t]), o>>]
    BY DEF FlushedIsOnDisk
  <2> DEFINE k == <<BandOf(at[t]), o>>
  <2>1. FiledInv /\ FreeAreClean /\ CallOf(t) /\ LoopOf(t) /\ Kept(t)
    BY PixelParts
  <2>2. op[t] \in OwnerOps
    BY DEF OwnerOps
  <2>3. BandOf(at[t]) \in Bands
    BY <2>1, <2>2, AtIsKey
  <2>4. k \in Keys /\ BandOf(k) = BandOf(at[t])
    BY <2>3 DEF Keys, BandOf
  <2>5. ~Dropped(t, k)
    BY DEF Dropped
  <2>6. ASSUME NEW b \in Blocks, key[b] = k, Bears(t, b) PROVE FALSE
    <3>1. bDirty[b]
      BY <2>6 DEF Bears
    <3>2. b \in ToSet(lru)
      BY <2>1, <2>4, <2>6, <3>1, DirtyIsStored DEF AtRest
    <3>3. BandOf(key[b]) # BandOf(at[t])
      BY <2>1, <3>2 DEF LoopOf
    <3> QED BY <2>4, <2>6, <3>3
  <2> QED BY <2>1, <2>4, <2>5, <2>6 DEF Kept
<1> QED
  BY <1>1, PixelsInvariant, PTL
=============================================================================
