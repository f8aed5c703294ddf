---------------------------- MODULE RasterBlockList ----------------------------
(***************************************************************************)
(* The pointers of gcore/gdalrasterblock.cpp: the global list poNewest ..  *)
(* poOldest of the cached blocks, linked both ways by poPrevious (towards  *)
(* the newest) and poNext (towards the oldest), and the per-band lists     *)
(* psListBlocksToFree of gcore/gdalabstractbandblockcache.cpp, which       *)
(* thread detached blocks through the same poNext member.                  *)
(*                                                                         *)
(* Each action is one critical section of the code: hRBLock protects the   *)
(* global list, hSpinLock a free list.  Which thread may run which action  *)
(* on which block is the subject of module RasterBlockCache; here it is    *)
(* summarised by state[b].                                                 *)
(***************************************************************************)
EXTENDS Integers, FiniteSets

CONSTANTS
    Blocks,     \* addresses of GDALRasterBlock objects
    Bands,      \* bands
    BandOf,     \* the band for which the object at an address is built
    Null        \* nullptr

ASSUME NullAssumption == Null \notin Blocks
ASSUME BandOfAssumption == BandOf \in [Blocks -> Bands]

VARIABLES
    poNewest, poOldest,     \* ends of the global list
    poPrevious, poNext,     \* links of a block
    bMustDetach,            \* the block still has to be taken off the list
    psListBlocksToFree,     \* head of the free list of a band
    poList,                 \* the list FreeDanglingBlocks() of a band is deleting
    state,                  \* where a block is in its life (see States)
    newer                   \* history: <<a, b>> \in newer when a and b are in
                            \* the list and a was touched after b

listVars == <<poNewest, poOldest, poPrevious, poNext>>
vars == <<poNewest, poOldest, poPrevious, poNext, bMustDetach,
          psListBlocksToFree, poList, state, newer>>

(* none: no object; held: built or recycled, private to the thread in      *)
(* GetLockedBlockRef(); linked: in the global list; detached: taken off it *)
(* by a thread that will write and release it; free: in the free list of   *)
(* its band, or in the list its owner is deleting.                         *)
States == {"none", "held", "linked", "detached", "free"}

BlockOrNull == Blocks \cup {Null}
Linked == {b \in Blocks : state[b] = "linked"}

-----------------------------------------------------------------------------
(* Operators whose name ends in Unchecked, Forgotten... are used nowhere:  *)
(* each is the operator below it with a mistake that the code could have,  *)
(* which the properties must detect.                                       *)

(* Taking block b out of its neighbours: the links after the conditional   *)
(* stores that Touch_unlocked() and Detach_unlocked() share.               *)
UnlinkedNextUnchecked(b) ==
    [x \in Blocks \cup {poPrevious[b]} |->
        IF x = poPrevious[b] THEN poNext[b] ELSE poNext[x]]
UnlinkedNextForgotten(b) == poNext
UnlinkedNext(b) ==
    IF poPrevious[b] # Null
    THEN [poNext EXCEPT ![poPrevious[b]] = poNext[b]]
    ELSE poNext

UnlinkedPreviousForgotten(b) == poPrevious
UnlinkedPrevious(b) ==
    IF poNext[b] # Null
    THEN [poPrevious EXCEPT ![poNext[b]] = poPrevious[b]]
    ELSE poPrevious

(* GDALRasterBlock::Touch_unlocked(): b becomes poNewest.                  *)
TouchUnlocked(b) ==
    IF poNewest = b
    THEN UNCHANGED <<listVars, newer>>
    ELSE LET oldest == IF poOldest = b THEN poPrevious[b] ELSE poOldest
             prev == [UnlinkedPrevious(b) EXCEPT ![b] = Null]
         IN  /\ poNext' = [UnlinkedNext(b) EXCEPT ![b] = poNewest]
             /\ poPrevious' = IF poNewest # Null
                              THEN [prev EXCEPT ![poNewest] = b]
                              ELSE prev
             /\ poNewest' = b
             /\ poOldest' = IF oldest = Null THEN b ELSE oldest
             /\ newer' = {p \in newer : p[1] # b /\ p[2] # b}
                           \cup ({b} \X (Linked \ {b}))

(* GDALRasterBlock::Detach_unlocked(): b leaves the list.                  *)
DetachUnlocked(b) ==
    /\ poOldest' = IF poOldest = b THEN poPrevious[b] ELSE poOldest
    /\ poNewest' = IF poNewest = b THEN poNext[b] ELSE poNewest
    /\ poNext' = [UnlinkedNext(b) EXCEPT ![b] = Null]
    /\ poPrevious' = [UnlinkedPrevious(b) EXCEPT ![b] = Null]
    /\ newer' = {p \in newer : p[1] # b /\ p[2] # b}

-----------------------------------------------------------------------------
Init ==
    /\ poNewest = Null
    /\ poOldest = Null
    /\ poPrevious = [b \in Blocks |-> Null]
    /\ poNext = [b \in Blocks |-> Null]
    /\ bMustDetach = [b \in Blocks |-> FALSE]
    /\ psListBlocksToFree = [d \in Bands |-> Null]
    /\ poList = [d \in Bands |-> Null]
    /\ state = [b \in Blocks |-> "none"]
    /\ newer = {}

(* CreateBlock() with an empty free list: the constructor.                 *)
New(b) ==
    /\ psListBlocksToFree[BandOf[b]] = Null
    /\ poList[BandOf[b]] = Null
    /\ state[b] = "none"
    /\ state' = [state EXCEPT ![b] = "held"]
    /\ bMustDetach' = [bMustDetach EXCEPT ![b] = TRUE]
    /\ UNCHANGED <<listVars, psListBlocksToFree, poList, newer>>

(* CreateBlock() popping the head of the free list, and RecycleFor().      *)
Recycle(d) ==
    LET b == psListBlocksToFree[d]
    IN  /\ b # Null
        /\ poList[d] = Null
        /\ psListBlocksToFree' = [psListBlocksToFree EXCEPT ![d] = poNext[b]]
        /\ poNext' = [poNext EXCEPT ![b] = Null]
        /\ poPrevious' = [poPrevious EXCEPT ![b] = Null]
        /\ bMustDetach' = [bMustDetach EXCEPT ![b] = TRUE]
        /\ state' = [state EXCEPT ![b] = "held"]
        /\ UNCHANGED <<poNewest, poOldest, poList, newer>>

(* Touch() of a block found in its band, and the end of Internalize(),     *)
(* which enters a held block in the list.                                  *)
Touch(b) ==
    /\ state[b] \in {"held", "linked"}
    /\ TouchUnlocked(b)
    /\ state' = [state EXCEPT ![b] = "linked"]
    /\ UNCHANGED <<bMustDetach, psListBlocksToFree, poList>>

(* An evictor (Internalize(), FlushCacheBlock()) or FlushBlock() of the    *)
(* array storage takes the block off the list.                             *)
Detach(b) ==
    /\ state[b] = "linked"
    /\ DetachUnlocked(b)
    /\ bMustDetach' = [bMustDetach EXCEPT ![b] = FALSE]
    /\ state' = [state EXCEPT ![b] = "detached"]
    /\ UNCHANGED <<psListBlocksToFree, poList>>

(* GDALAbstractBandBlockCache::AddBlockToFreeList().                       *)
AddBlockUnchained(b) ==
    /\ state[b] = "detached"
    /\ psListBlocksToFree' = [psListBlocksToFree EXCEPT ![BandOf[b]] = b]
    /\ state' = [state EXCEPT ![b] = "free"]
    /\ UNCHANGED <<listVars, bMustDetach, poList, newer>>
AddBlockToFreeList(b) ==
    /\ state[b] = "detached"
    /\ poNext' = [poNext EXCEPT ![b] = psListBlocksToFree[BandOf[b]]]
    /\ psListBlocksToFree' = [psListBlocksToFree EXCEPT ![BandOf[b]] = b]
    /\ state' = [state EXCEPT ![b] = "free"]
    /\ UNCHANGED <<poNewest, poOldest, poPrevious, bMustDetach, poList, newer>>

(* delete of a block, whose destructor detaches it when it still has to    *)
(* be: FlushBlock(), and GetLockedBlockRef() when Internalize() or         *)
(* AdoptBlock() fails.                                                     *)
Delete(b) ==
    /\ state[b] \in {"linked", "detached"}
    /\ IF bMustDetach[b] THEN DetachUnlocked(b) ELSE UNCHANGED <<listVars, newer>>
    /\ bMustDetach' = [bMustDetach EXCEPT ![b] = FALSE]
    /\ state' = [state EXCEPT ![b] = "none"]
    /\ UNCHANGED <<psListBlocksToFree, poList>>

(* FreeDanglingBlocks(), run by the owner of band d, takes the whole list  *)
(* under hSpinLock ...                                                     *)
TakeDanglingKeepsHead(d) ==
    /\ poList[d] = Null
    /\ psListBlocksToFree[d] # Null
    /\ poList' = [poList EXCEPT ![d] = psListBlocksToFree[d]]
    /\ UNCHANGED <<listVars, bMustDetach, psListBlocksToFree, state, newer>>
TakeDanglingBlocks(d) ==
    /\ poList[d] = Null
    /\ psListBlocksToFree[d] # Null
    /\ poList' = [poList EXCEPT ![d] = psListBlocksToFree[d]]
    /\ psListBlocksToFree' = [psListBlocksToFree EXCEPT ![d] = Null]
    /\ UNCHANGED <<listVars, bMustDetach, state, newer>>

(* ... and deletes its blocks one by one, while evictors may already be    *)
(* filling the free list again.                                            *)
FreeDanglingBlock(d) ==
    LET b == poList[d]
    IN  /\ b # Null
        /\ poList' = [poList EXCEPT ![d] = poNext[b]]
        /\ IF bMustDetach[b]
           THEN DetachUnlocked(b)
           ELSE /\ poNext' = [poNext EXCEPT ![b] = Null]
                /\ UNCHANGED <<poNewest, poOldest, poPrevious, newer>>
        /\ bMustDetach' = [bMustDetach EXCEPT ![b] = FALSE]
        /\ state' = [state EXCEPT ![b] = "none"]
        /\ UNCHANGED psListBlocksToFree

Next ==
    \/ \E b \in Blocks : \/ New(b)
                         \/ Touch(b)
                         \/ Detach(b)
                         \/ AddBlockToFreeList(b)
                         \/ Delete(b)
    \/ \E d \in Bands : \/ Recycle(d)
                        \/ TakeDanglingBlocks(d)
                        \/ FreeDanglingBlock(d)

Spec == Init /\ [][Next]_vars

-----------------------------------------------------------------------------
(* Every variable holds a value of its C++ type; the pointers are null or  *)
(* addresses of blocks.                                                    *)
TypeOK ==
    /\ poNewest \in BlockOrNull
    /\ poOldest \in BlockOrNull
    /\ poPrevious \in [Blocks -> BlockOrNull]
    /\ poNext \in [Blocks -> BlockOrNull]
    /\ bMustDetach \in [Blocks -> BOOLEAN]
    /\ psListBlocksToFree \in [Bands -> BlockOrNull]
    /\ poList \in [Bands -> BlockOrNull]
    /\ state \in [Blocks -> States]
    /\ newer \in SUBSET (Blocks \X Blocks)

(* a was touched after b, and no block of the list in between.             *)
Adjacent(a, b) ==
    /\ <<a, b>> \in newer
    /\ \A c \in Linked : ~(<<a, c>> \in newer /\ <<c, b>> \in newer)

(* The history variable is a strict total order on the blocks of the list. *)
NewerIsTotalOrder ==
    /\ newer \subseteq Linked \X Linked
    /\ \A a \in Linked : <<a, a>> \notin newer
    /\ \A a, b \in Linked : a = b \/ <<a, b>> \in newer \/ <<b, a>> \in newer
    /\ \A a, b, c \in Linked :
          <<a, b>> \in newer /\ <<b, c>> \in newer => <<a, c>> \in newer

(* The links of Touch_unlocked() and Detach_unlocked() keep the list in    *)
(* exact least-recently-used order, whatever blocks come and go: poNext    *)
(* leads to the block touched just before, poPrevious is its inverse, and  *)
(* poNewest and poOldest are the last and the first block touched.  This   *)
(* implies every assertion of Verify() (ENABLE_DEBUG), in particular that  *)
(* an eviction scan from poOldest reaches every cached block.              *)
ListIsLruOrder ==
    /\ \A a \in Linked, b \in Linked :
          /\ poNext[a] = b <=> Adjacent(a, b)
          /\ poPrevious[b] = a <=> Adjacent(a, b)
    /\ \A a \in Linked : /\ poNext[a] \in Linked \cup {Null}
                         /\ poPrevious[a] \in Linked \cup {Null}
                         /\ poNext[a] = Null <=> a = poOldest
                         /\ poPrevious[a] = Null <=> a = poNewest
    /\ IF Linked = {}
       THEN poNewest = Null /\ poOldest = Null
       ELSE /\ poNewest \in Linked
            /\ poOldest \in Linked
            /\ \A b \in Linked : b = poNewest \/ <<poNewest, b>> \in newer
            /\ \A b \in Linked : b = poOldest \/ <<b, poOldest>> \in newer

(* The assertions of AddBlockToFreeList() and Touch_unlocked(): a block    *)
(* handed to a free list has been cut from its neighbours, and no block    *)
(* that still has to be touched has lost its bMustDetach.                  *)
ListAssertions ==
    \A b \in Blocks :
        /\ state[b] = "detached" => poPrevious[b] = Null /\ poNext[b] = Null
        /\ state[b] \in {"held", "linked"} => bMustDetach[b]
        /\ state[b] \in {"detached", "free"} => ~bMustDetach[b]

(* The free lists share poNext with the global list without ever crossing  *)
(* it or each other: a chain of released blocks stays inside its band and  *)
(* no block is in two places, so that none can be recycled or deleted      *)
(* twice.                                                                  *)
FreeListsDisjoint ==
    /\ \A d \in Bands :
          /\ psListBlocksToFree[d] # Null =>
                /\ state[psListBlocksToFree[d]] = "free"
                /\ BandOf[psListBlocksToFree[d]] = d
                /\ psListBlocksToFree[d] # poList[d]
          /\ poList[d] # Null => state[poList[d]] = "free" /\ BandOf[poList[d]] = d
    /\ \A b \in Blocks : state[b] = "free" =>
          /\ poPrevious[b] = Null
          /\ poNext[b] # Null =>
                /\ state[poNext[b]] = "free"
                /\ BandOf[poNext[b]] = BandOf[b]
                /\ poNext[b] \notin {psListBlocksToFree[BandOf[b]], poList[BandOf[b]]}
    /\ \A a, b \in Blocks :
          state[a] = "free" /\ state[b] = "free" /\ poNext[a] = poNext[b]
            => a = b \/ poNext[a] = Null

-----------------------------------------------------------------------------
(* The blocks met by following poNext from p, as Verify() does.            *)
Walk(p) ==
    LET chain[n \in 0..Cardinality(Blocks)] ==
            IF n = 0 THEN p
            ELSE IF chain[n - 1] = Null THEN Null ELSE poNext[chain[n - 1]]
        length == Cardinality({n \in 0..Cardinality(Blocks) : chain[n] # Null})
    IN  [i \in 1..length |-> chain[i - 1]]

(* No released block is lost: every block in state free can be reached     *)
(* from the free list of its band or from the list being deleted, so       *)
(* FreeDanglingBlocks() frees the memory of all of them.                   *)
NoBlockLeaked ==
    \A b \in Blocks : state[b] = "free" =>
        \/ \E i \in DOMAIN Walk(psListBlocksToFree[BandOf[b]]) :
              Walk(psListBlocksToFree[BandOf[b]])[i] = b
        \/ \E i \in DOMAIN Walk(poList[BandOf[b]]) :
              Walk(poList[BandOf[b]])[i] = b

(* The linked list implements the abstract one: what poNext visits from    *)
(* poNewest changes only by moving a block to the front or removing one.   *)
Lru == INSTANCE BlockLru WITH lru <- Walk(poNewest)

ImplementsLru == Lru!LruSpec
=============================================================================
