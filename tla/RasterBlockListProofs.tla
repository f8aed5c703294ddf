------------------------- MODULE RasterBlockListProofs -------------------------
(***************************************************************************)
(* The pointers of the block list stay in least-recently-used order, for   *)
(* any number of blocks and bands.                                         *)
(***************************************************************************)
EXTENDS RasterBlockList, TLAPS

(* A block that is not built, or that is held by the thread building it,   *)
(* has null links.                                                         *)
UnusedIsUnlinked ==
    \A b \in Blocks :
        state[b] \in {"none", "held"} => poPrevious[b] = Null /\ poNext[b] = Null

IInv == /\ TypeOK
        /\ NewerIsTotalOrder
        /\ ListIsLruOrder
        /\ ListAssertions
        /\ FreeListsDisjoint
        /\ UnusedIsUnlinked

USE NullAssumption, BandOfAssumption

LEMMA TypeOK_Init == Init => TypeOK
BY DEF Init, TypeOK, BlockOrNull, States

LEMMA TypeOK_Next == TypeOK /\ [Next]_vars => TypeOK'
<1> SUFFICES ASSUME TypeOK, [Next]_vars PROVE TypeOK'
  OBVIOUS
<1> USE DEF TypeOK, BlockOrNull, States
<1>1. ASSUME NEW b \in Blocks, New(b) PROVE TypeOK'
  BY <1>1 DEF New, listVars
<1>2. ASSUME NEW b \in Blocks, Touch(b) PROVE TypeOK'
  BY <1>2 DEF Touch, TouchUnlocked, UnlinkedNext, UnlinkedPrevious, listVars, Linked
<1>3. ASSUME NEW b \in Blocks, Detach(b) PROVE TypeOK'
  BY <1>3 DEF Detach, DetachUnlocked, UnlinkedNext, UnlinkedPrevious
<1>4. ASSUME NEW b \in Blocks, AddBlockToFreeList(b) PROVE TypeOK'
  BY <1>4 DEF AddBlockToFreeList
<1>5. ASSUME NEW b \in Blocks, Delete(b) PROVE TypeOK'
  BY <1>5 DEF Delete, DetachUnlocked, UnlinkedNext, UnlinkedPrevious, listVars
<1>6. ASSUME NEW d \in Bands, Recycle(d) PROVE TypeOK'
  BY <1>6 DEF Recycle
<1>7. ASSUME NEW d \in Bands, TakeDanglingBlocks(d) PROVE TypeOK'
  BY <1>7 DEF TakeDanglingBlocks, listVars
<1>8. ASSUME NEW d \in Bands, FreeDanglingBlock(d) PROVE TypeOK'
  BY <1>8 DEF FreeDanglingBlock, DetachUnlocked, UnlinkedNext, UnlinkedPrevious
<1>9. CASE UNCHANGED vars
  BY <1>9 DEF vars
<1> QED
  BY <1>1, <1>2, <1>3, <1>4, <1>5, <1>6, <1>7, <1>8, <1>9 DEF Next

-----------------------------------------------------------------------------
(* In a total order, the neighbours of a block are unique, and the blocks  *)
(* on both sides of b become neighbours when b is removed.                 *)
LEMMA AdjacentUnique ==
    ASSUME NewerIsTotalOrder, NEW a \in Linked, NEW b \in Linked, NEW c \in Linked
    PROVE  /\ Adjacent(a, b) /\ Adjacent(a, c) => b = c
           /\ Adjacent(a, c) /\ Adjacent(b, c) => a = b
BY DEF NewerIsTotalOrder, Adjacent

(* Adjacency in the list without b.                                        *)
AdjacentWithout(b, x, y) ==
    /\ <<x, y>> \in newer
    /\ \A c \in Linked \ {b} : ~(<<x, c>> \in newer /\ <<c, y>> \in newer)

LEMMA AdjacentRemoved ==
    ASSUME NewerIsTotalOrder, NEW b \in Linked,
           NEW x \in Linked \ {b}, NEW y \in Linked \ {b}
    PROVE  AdjacentWithout(b, x, y)
             <=> Adjacent(x, y) \/ (Adjacent(x, b) /\ Adjacent(b, y))
<1>1. ASSUME AdjacentWithout(b, x, y), ~Adjacent(x, y)
      PROVE  Adjacent(x, b) /\ Adjacent(b, y)
  <2>1. <<x, b>> \in newer /\ <<b, y>> \in newer
    BY <1>1 DEF AdjacentWithout, Adjacent
  <2> QED
    BY <1>1, <2>1 DEF AdjacentWithout, Adjacent, NewerIsTotalOrder
<1>2. ASSUME Adjacent(x, b), Adjacent(b, y) PROVE AdjacentWithout(b, x, y)
  <2>1. <<x, y>> \in newer
    BY <1>2 DEF Adjacent, NewerIsTotalOrder
  <2>2. ASSUME NEW c \in Linked \ {b}, <<x, c>> \in newer, <<c, y>> \in newer
        PROVE  FALSE
    <3>1. <<c, b>> \in newer \/ <<b, c>> \in newer
      BY DEF NewerIsTotalOrder
    <3> QED
      BY <1>2, <2>2, <3>1 DEF Adjacent
  <2> QED
    BY <2>1, <2>2 DEF AdjacentWithout
<1>3. Adjacent(x, y) => AdjacentWithout(b, x, y)
  BY DEF Adjacent, AdjacentWithout
<1> QED
  BY <1>1, <1>2, <1>3

-----------------------------------------------------------------------------
(* Detach_unlocked() of a block of the list keeps the order.               *)
LEMMA DetachKeepsOrder ==
    ASSUME TypeOK, NewerIsTotalOrder, ListIsLruOrder,
           NEW b \in Linked, DetachUnlocked(b), Linked' = Linked \ {b}
    PROVE  NewerIsTotalOrder' /\ ListIsLruOrder'
<1> USE DEF BlockOrNull
<1> Linked \subseteq Blocks
  BY DEF Linked
<1>1. \A x, y \in Linked' : <<x, y>> \in newer' <=> <<x, y>> \in newer
  BY DEF DetachUnlocked
<1>2. NewerIsTotalOrder'
  <2>1. newer' \subseteq Linked' \X Linked'
    BY DEF DetachUnlocked, NewerIsTotalOrder
  <2> QED
    BY <1>1, <2>1 DEF NewerIsTotalOrder
<1>3. \A x, y \in Linked' : Adjacent(x, y)' <=> AdjacentWithout(b, x, y)
  BY <1>1 DEF Adjacent, AdjacentWithout
<1>4. \A x, y \in Linked' :
         Adjacent(x, y)' <=> Adjacent(x, y) \/ (Adjacent(x, b) /\ Adjacent(b, y))
  BY <1>3, AdjacentRemoved
<1>5. \A x \in Linked' :
         poNext'[x] = IF poPrevious[b] = x THEN poNext[b] ELSE poNext[x]
  BY DEF DetachUnlocked, UnlinkedNext, TypeOK
<1>6. \A x \in Linked' :
         poPrevious'[x] = IF poNext[b] = x THEN poPrevious[b] ELSE poPrevious[x]
  BY DEF DetachUnlocked, UnlinkedPrevious, TypeOK
<1>7. \A x \in Linked : /\ poPrevious[b] = x <=> Adjacent(x, b)
                        /\ poNext[x] = b <=> Adjacent(x, b)
                        /\ poNext[b] = x <=> Adjacent(b, x)
                        /\ poPrevious[x] = b <=> Adjacent(b, x)
  BY DEF ListIsLruOrder
<1>8. ASSUME NEW x \in Linked', NEW y \in Linked'
      PROVE  /\ poNext'[x] = y <=> Adjacent(x, y)'
             /\ poPrevious'[y] = x <=> Adjacent(x, y)'
  <2>1. /\ poNext[x] = y <=> Adjacent(x, y)
        /\ poPrevious[y] = x <=> Adjacent(x, y)
    BY DEF ListIsLruOrder
  <2>2. /\ ~(Adjacent(x, b) /\ Adjacent(x, y))
        /\ ~(Adjacent(b, y) /\ Adjacent(x, y))
    BY AdjacentUnique
  <2> QED
    BY <1>4, <1>5, <1>6, <1>7, <2>1, <2>2
<1>9. \A x \in Linked' : /\ poNext'[x] \in Linked' \cup {Null}
                         /\ poPrevious'[x] \in Linked' \cup {Null}
  <2> SUFFICES ASSUME NEW x \in Linked'
               PROVE  /\ poNext'[x] \in Linked' \cup {Null}
                      /\ poPrevious'[x] \in Linked' \cup {Null}
    OBVIOUS
  <2>1. poNext[b] # b /\ poPrevious[b] # b
    BY <1>7 DEF Adjacent, NewerIsTotalOrder
  <2>2. /\ poNext[b] \in Linked \cup {Null}
        /\ poPrevious[b] \in Linked \cup {Null}
        /\ poNext[x] \in Linked \cup {Null}
        /\ poPrevious[x] \in Linked \cup {Null}
    BY DEF ListIsLruOrder
  <2>3. /\ poNext[x] = b <=> poPrevious[b] = x
        /\ poPrevious[x] = b <=> poNext[b] = x
    BY <1>7
  <2> QED
    BY <1>5, <1>6, <2>1, <2>2, <2>3
<1>10. /\ poNewest \in Linked /\ poOldest \in Linked
       /\ \A x \in Linked : x = poNewest \/ <<poNewest, x>> \in newer
       /\ \A x \in Linked : x = poOldest \/ <<x, poOldest>> \in newer
       /\ \A x \in Linked : /\ poNext[x] = Null <=> x = poOldest
                            /\ poPrevious[x] = Null <=> x = poNewest
  BY DEF ListIsLruOrder
<1>11. IF Linked' = {}
       THEN poNewest' = Null
       ELSE /\ poNewest' \in Linked'
            /\ \A x \in Linked' : x = poNewest' \/ <<poNewest', x>> \in newer'
  <2>1. CASE poNewest # b
    BY <1>1, <1>10, <2>1 DEF DetachUnlocked
  <2>2. CASE poNewest = b
    <3>1. poNewest' = poNext[b]
      BY <2>2 DEF DetachUnlocked
    <3>2. CASE poNext[b] = Null
      BY <1>10, <2>2, <3>1, <3>2 DEF NewerIsTotalOrder
    <3>3. CASE poNext[b] # Null
      <4>1. poNext[b] \in Linked /\ Adjacent(b, poNext[b])
        BY <1>7, <3>3 DEF ListIsLruOrder
      <4>2. \A x \in Linked' : x = poNext[b] \/ <<poNext[b], x>> \in newer
        BY <1>10, <2>2, <4>1 DEF Adjacent, NewerIsTotalOrder
      <4>3. poNext[b] # b
        BY <4>1 DEF Adjacent, NewerIsTotalOrder
      <4> QED
        BY <1>1, <3>1, <4>1, <4>2, <4>3
    <3> QED
      BY <3>2, <3>3
  <2> QED
    BY <2>1, <2>2
<1>12. IF Linked' = {}
       THEN poOldest' = Null
       ELSE /\ poOldest' \in Linked'
            /\ \A x \in Linked' : x = poOldest' \/ <<x, poOldest'>> \in newer'
  <2>1. CASE poOldest # b
    BY <1>1, <1>10, <2>1 DEF DetachUnlocked
  <2>2. CASE poOldest = b
    <3>1. poOldest' = poPrevious[b]
      BY <2>2 DEF DetachUnlocked
    <3>2. CASE poPrevious[b] = Null
      BY <1>10, <2>2, <3>1, <3>2 DEF NewerIsTotalOrder
    <3>3. CASE poPrevious[b] # Null
      <4>1. poPrevious[b] \in Linked /\ Adjacent(poPrevious[b], b)
        BY <1>7, <3>3 DEF ListIsLruOrder
      <4>2. \A x \in Linked' : x = poPrevious[b] \/ <<x, poPrevious[b]>> \in newer
        BY <1>10, <2>2, <4>1 DEF Adjacent, NewerIsTotalOrder
      <4>3. poPrevious[b] # b
        BY <4>1 DEF Adjacent, NewerIsTotalOrder
      <4> QED
        BY <1>1, <3>1, <4>1, <4>2, <4>3
    <3> QED
      BY <3>2, <3>3
  <2> QED
    BY <2>1, <2>2
<1>13. \A x \in Linked' : /\ poNext'[x] = Null <=> x = poOldest'
                          /\ poPrevious'[x] = Null <=> x = poNewest'
  <2> SUFFICES ASSUME NEW x \in Linked'
               PROVE  /\ poNext'[x] = Null <=> x = poOldest'
                      /\ poPrevious'[x] = Null <=> x = poNewest'
    OBVIOUS
  <2>1. poNext'[x] = Null <=> x = poOldest'
    BY <1>5, <1>7, <1>10 DEF DetachUnlocked, TypeOK
  <2>2. poPrevious'[x] = Null <=> x = poNewest'
    BY <1>6, <1>7, <1>10 DEF DetachUnlocked, TypeOK
  <2> QED
    BY <2>1, <2>2
<1> QED
  BY <1>2, <1>8, <1>9, <1>11, <1>12, <1>13 DEF ListIsLruOrder

(* Touch_unlocked() keeps the order, of a block of the list as of a block  *)
(* that enters it.                                                         *)
LEMMA TouchKeepsOrder ==
    ASSUME TypeOK, NewerIsTotalOrder, ListIsLruOrder,
           NEW b \in Blocks, TouchUnlocked(b), Linked' = Linked \cup {b},
           b \in Linked \/ (poPrevious[b] = Null /\ poNext[b] = Null)
    PROVE  NewerIsTotalOrder' /\ ListIsLruOrder'
<1> USE DEF BlockOrNull
<1> DEFINE Rest == Linked \ {b}
<1>a. Linked \subseteq Blocks /\ Linked' = Rest \cup {b}
  BY DEF Linked
<1>1. CASE poNewest = b
  <2>1. b \in Linked
    BY <1>1, <1>a DEF ListIsLruOrder
  <2>2. Linked' = Linked /\ UNCHANGED <<listVars, newer>>
    BY <1>1, <1>a, <2>1 DEF TouchUnlocked
  <2> QED
    BY <2>2 DEF NewerIsTotalOrder, ListIsLruOrder, Adjacent, listVars
<1>2. CASE poNewest # b
  <2>1. /\ newer' = {p \in newer : p[1] # b /\ p[2] # b} \cup ({b} \X Rest)
        /\ poNewest' = b
    BY <1>2 DEF TouchUnlocked
  <2>2. /\ \A x, y \in Rest : <<x, y>> \in newer' <=> <<x, y>> \in newer
        /\ \A y \in Rest : <<b, y>> \in newer' /\ <<y, b>> \notin newer'
        /\ <<b, b>> \notin newer'
    BY <2>1
  <2>3. NewerIsTotalOrder'
    <3>1. newer' \subseteq Linked' \X Linked'
      BY <1>a, <2>1 DEF NewerIsTotalOrder
    <3>2. \A x, y \in Linked' : x = y \/ <<x, y>> \in newer' \/ <<y, x>> \in newer'
      BY <1>a, <2>2 DEF NewerIsTotalOrder
    <3>3. \A x \in Linked' : <<x, x>> \notin newer'
      BY <1>a, <2>2 DEF NewerIsTotalOrder
    <3>4. ASSUME NEW x \in Linked', NEW y \in Linked', NEW z \in Linked',
                 <<x, y>> \in newer', <<y, z>> \in newer'
          PROVE  <<x, z>> \in newer'
      BY <1>a, <2>2, <3>4 DEF NewerIsTotalOrder
    <3> QED
      BY <3>1, <3>2, <3>3, <3>4 DEF NewerIsTotalOrder
  <2>4. ASSUME NEW x \in Rest, NEW y \in Rest
        PROVE  Adjacent(x, y)'
                 <=> Adjacent(x, y) \/ (Adjacent(x, b) /\ Adjacent(b, y))
    <3>1. Adjacent(x, y)' <=> AdjacentWithout(b, x, y)
      BY <1>a, <2>2 DEF Adjacent, AdjacentWithout
    <3>2. CASE b \in Linked
      BY <3>1, <3>2, AdjacentRemoved
    <3>3. CASE b \notin Linked
      <4>1. ~Adjacent(x, b)
        BY <3>3 DEF Adjacent, NewerIsTotalOrder
      <4>2. AdjacentWithout(b, x, y) <=> Adjacent(x, y)
        BY <3>3 DEF Adjacent, AdjacentWithout
      <4> QED
        BY <3>1, <4>1, <4>2
    <3> QED
      BY <3>2, <3>3
  <2>5. /\ Rest # {} => poNewest \in Rest
        /\ Rest = {} => poNewest = Null
        /\ \A x \in Rest : x = poNewest \/ <<poNewest, x>> \in newer
    BY <1>2 DEF ListIsLruOrder
  <2>6. \A y \in Rest : Adjacent(b, y)' <=> y = poNewest
    <3> SUFFICES ASSUME NEW y \in Rest PROVE Adjacent(b, y)' <=> y = poNewest
      OBVIOUS
    <3>1. Adjacent(b, y)' <=> \A c \in Rest : <<c, y>> \notin newer
      BY <1>a, <2>2 DEF Adjacent
    <3> QED
      BY <2>5, <3>1 DEF NewerIsTotalOrder
  <2>7. \A x \in Linked' : ~Adjacent(x, b)'
    BY <1>a, <2>2 DEF Adjacent
  <2>8. \A x \in Rest : /\ poPrevious[b] = x <=> Adjacent(x, b)
                        /\ poNext[b] = x <=> Adjacent(b, x)
                        /\ b \in Linked => (poNext[x] = b <=> Adjacent(x, b))
                        /\ b \in Linked => (poPrevious[x] = b <=> Adjacent(b, x))
    <3>1. CASE b \in Linked
      BY <3>1 DEF ListIsLruOrder
    <3>2. CASE b \notin Linked
      BY <1>a, <3>2 DEF Adjacent, NewerIsTotalOrder
    <3> QED
      BY <3>1, <3>2
  <2>9. poNext[b] # b /\ poPrevious[b] # b
    BY DEF ListIsLruOrder, Adjacent, NewerIsTotalOrder
  <2>10. /\ \A x \in Rest :
               poNext'[x] = IF poPrevious[b] = x THEN poNext[b] ELSE poNext[x]
         /\ poNext'[b] = poNewest
    BY <1>2, <1>a, <2>9 DEF TouchUnlocked, UnlinkedNext, TypeOK
  <2>11. /\ \A x \in Rest :
               poPrevious'[x] = IF x = poNewest THEN b
                                ELSE IF poNext[b] = x THEN poPrevious[b]
                                ELSE poPrevious[x]
         /\ poPrevious'[b] = Null
    BY <1>2, <1>a, <2>9 DEF TouchUnlocked, UnlinkedPrevious, TypeOK
  <2>12. \A x \in Rest : ~Adjacent(x, poNewest) /\ ~Adjacent(b, poNewest)
    BY <2>5 DEF Adjacent, NewerIsTotalOrder, ListIsLruOrder
  <2>13. ASSUME NEW x \in Linked', NEW y \in Linked'
         PROVE  /\ poNext'[x] = y <=> Adjacent(x, y)'
                /\ poPrevious'[y] = x <=> Adjacent(x, y)'
    <3>1. CASE x \in Rest /\ y \in Rest
      <4>1. /\ poNext[x] = y <=> Adjacent(x, y)
            /\ poPrevious[y] = x <=> Adjacent(x, y)
        BY <3>1 DEF ListIsLruOrder
      <4>2. /\ ~(Adjacent(x, b) /\ Adjacent(x, y) /\ b \in Linked)
            /\ ~(Adjacent(b, y) /\ Adjacent(x, y) /\ b \in Linked)
        BY <3>1, AdjacentUnique
      <4>3. b \notin Linked => ~Adjacent(x, b) /\ ~Adjacent(b, y)
        BY DEF Adjacent, NewerIsTotalOrder
      <4> QED
        BY <1>2, <2>4, <2>8, <2>10, <2>11, <2>12, <3>1, <4>1, <4>2, <4>3
    <3>2. CASE x = b /\ y \in Rest
      <4>1. poPrevious[y] = b => Adjacent(b, y)
        <5>1. CASE b \in Linked
          BY <2>8, <3>2, <5>1
        <5>2. CASE b \notin Linked
          BY <3>2, <5>2 DEF ListIsLruOrder
        <5> QED
          BY <5>1, <5>2
      <4> QED
        BY <2>6, <2>8, <2>9, <2>10, <2>11, <3>2, <4>1
    <3>3. CASE x \in Rest /\ y = b
      <4>1. poNext[x] = b => poPrevious[b] = x
        <5>1. CASE b \in Linked
          BY <2>8, <3>3, <5>1
        <5>2. CASE b \notin Linked
          BY <3>3, <5>2 DEF ListIsLruOrder
        <5> QED
          BY <5>1, <5>2
      <4> QED
        BY <1>a, <2>7, <2>9, <2>10, <2>11, <3>3, <4>1
    <3>4. CASE x = b /\ y = b
      BY <1>2, <1>a, <2>7, <2>10, <2>11, <3>4
    <3> QED
      BY <1>a, <3>1, <3>2, <3>3, <3>4
  <2>14. \A x \in Linked' : /\ poNext'[x] \in Linked' \cup {Null}
                            /\ poPrevious'[x] \in Linked' \cup {Null}
    <3> SUFFICES ASSUME NEW x \in Linked'
                 PROVE  /\ poNext'[x] \in Linked' \cup {Null}
                        /\ poPrevious'[x] \in Linked' \cup {Null}
      OBVIOUS
    <3>1. /\ poNext[b] \in Linked \cup {Null}
          /\ poPrevious[b] \in Linked \cup {Null}
          /\ x \in Rest => /\ poNext[x] \in Linked \cup {Null}
                           /\ poPrevious[x] \in Linked \cup {Null}
      BY DEF ListIsLruOrder
    <3> QED
      BY <1>a, <2>5, <2>10, <2>11, <3>1
  <2>15. \A x \in Linked : /\ poNext[x] = Null <=> x = poOldest
                           /\ poPrevious[x] = Null <=> x = poNewest
    BY DEF ListIsLruOrder
  <2>16. /\ poOldest' \in Linked'
         /\ \A x \in Linked' : x = poOldest' \/ <<x, poOldest'>> \in newer'
         /\ \A x \in Linked' : poNext'[x] = Null <=> x = poOldest'
    <3>1. CASE Rest = {}
      <4>1. poOldest' = b
        BY <1>2, <2>5, <2>15, <3>1 DEF TouchUnlocked, ListIsLruOrder
      <4> QED
        BY <1>a, <2>5, <2>10, <3>1, <4>1
    <3>2. CASE Rest # {} /\ poOldest # b
      <4>1. poOldest' = poOldest /\ poOldest \in Rest
        BY <1>2, <1>a, <3>2 DEF TouchUnlocked, ListIsLruOrder
      <4>2. \A x \in Rest : x = poOldest \/ <<x, poOldest>> \in newer
        BY DEF ListIsLruOrder
      <4>3. \A x \in Rest : poPrevious[b] = x => poNext[b] # Null
        BY <1>a, <2>8, <2>15, <3>2
      <4>4. poPrevious[b] # Null => b \in Linked
        OBVIOUS
      <4> QED
        BY <1>a, <2>2, <2>5, <2>8, <2>10, <2>15, <3>2, <4>1, <4>2, <4>3, <4>4
    <3>3. CASE Rest # {} /\ poOldest = b
      <4>1. b \in Linked
        BY <1>a, <3>3 DEF ListIsLruOrder
      <4>2. poPrevious[b] \in Rest /\ poNext[b] = Null
        BY <1>2, <2>9, <2>15, <3>3, <4>1 DEF ListIsLruOrder
      <4>3. poOldest' = poPrevious[b]
        BY <1>2, <1>a, <3>3, <4>2 DEF TouchUnlocked
      <4>4. Adjacent(poPrevious[b], b)
        BY <2>8, <4>2
      <4>5. \A x \in Rest : x = poPrevious[b] \/ <<x, poPrevious[b]>> \in newer
        <5>1. \A x \in Rest : <<x, b>> \in newer
          BY <3>3 DEF ListIsLruOrder
        <5>2. \A x \in Rest : <<poPrevious[b], x>> \notin newer
          BY <4>4, <5>1 DEF Adjacent
        <5> QED
          BY <4>2, <5>2 DEF NewerIsTotalOrder
      <4> QED
        BY <1>a, <2>2, <2>5, <2>10, <2>15, <3>3, <4>2, <4>3, <4>5
    <3> QED
      BY <3>1, <3>2, <3>3
  <2>17. \A x \in Linked' : poPrevious'[x] = Null <=> x = poNewest'
    <3>1. ASSUME NEW x \in Rest PROVE poPrevious'[x] # Null
      <4>1. poNext[b] = x => poPrevious[b] # Null
        <5>1. poNext[b] = x => b \in Linked
          BY <1>a
        <5> QED
          BY <1>2, <2>15, <5>1
      <4> QED
        BY <1>a, <2>11, <2>15, <4>1
    <3> QED
      BY <1>a, <2>1, <2>11, <3>1
  <2>18. \A x \in Linked' : x = poNewest' \/ <<poNewest', x>> \in newer'
    BY <1>a, <2>1, <2>2
  <2> QED
    BY <1>a, <2>1, <2>3, <2>13, <2>14, <2>16, <2>17, <2>18 DEF ListIsLruOrder
<1> QED
  BY <1>1, <1>2

-----------------------------------------------------------------------------
(* The list operations store in blocks of the list only.                   *)
LEMMA DetachElsewhere ==
    ASSUME TypeOK, ListIsLruOrder, NEW b \in Linked, DetachUnlocked(b)
    PROVE  /\ poNext'[b] = Null /\ poPrevious'[b] = Null
           /\ \A x \in Blocks \ Linked :
                 poNext'[x] = poNext[x] /\ poPrevious'[x] = poPrevious[x]
<1>1. /\ b \in Blocks
      /\ poNext[b] \in Linked \cup {Null}
      /\ poPrevious[b] \in Linked \cup {Null}
  BY DEF ListIsLruOrder, Linked
<1> QED
  BY <1>1 DEF DetachUnlocked, UnlinkedNext, UnlinkedPrevious, TypeOK, BlockOrNull

LEMMA TouchElsewhere ==
    ASSUME TypeOK, ListIsLruOrder, NEW b \in Blocks, TouchUnlocked(b),
           b \in Linked \/ (poPrevious[b] = Null /\ poNext[b] = Null)
    PROVE  \A x \in Blocks \ (Linked \cup {b}) :
              poNext'[x] = poNext[x] /\ poPrevious'[x] = poPrevious[x]
<1>1. /\ poNext[b] \in Linked \cup {Null}
      /\ poPrevious[b] \in Linked \cup {Null}
      /\ poNewest \in Linked \cup {Null}
  BY DEF ListIsLruOrder
<1> QED
  BY <1>1 DEF TouchUnlocked, UnlinkedNext, UnlinkedPrevious, TypeOK, BlockOrNull,
              listVars

(* The order of the list does not change when the list does not.           *)
LEMMA SameListSameOrder ==
    ASSUME NewerIsTotalOrder, ListIsLruOrder, Linked' = Linked,
           UNCHANGED <<poNewest, poOldest, newer>>,
           \A x \in Linked : poNext'[x] = poNext[x] /\ poPrevious'[x] = poPrevious[x]
    PROVE  NewerIsTotalOrder' /\ ListIsLruOrder'
<1>1. NewerIsTotalOrder'
  BY DEF NewerIsTotalOrder
<1>2. ListIsLruOrder'
  BY DEF ListIsLruOrder, Adjacent
<1> QED
  BY <1>1, <1>2

LEMMA IInv_Init == Init => IInv
<1> SUFFICES ASSUME Init PROVE IInv
  OBVIOUS
<1>1. TypeOK
  BY TypeOK_Init
<1>2. Linked = {} /\ newer = {}
  BY DEF Init, Linked
<1> QED
  BY <1>1, <1>2 DEF Init, IInv, NewerIsTotalOrder, ListIsLruOrder, ListAssertions,
                    FreeListsDisjoint, UnusedIsUnlinked

(* Every action preserves the invariant.                                   *)
LEMMA IInv_Next == IInv /\ [Next]_vars => IInv'
<1> SUFFICES ASSUME IInv, [Next]_vars PROVE IInv'
  OBVIOUS
<1>t. TypeOK /\ TypeOK'
  BY TypeOK_Next DEF IInv
<1>i. /\ NewerIsTotalOrder /\ ListIsLruOrder
      /\ ListAssertions /\ FreeListsDisjoint /\ UnusedIsUnlinked
  BY DEF IInv
<1> DEFINE Others == ListAssertions /\ FreeListsDisjoint /\ UnusedIsUnlinked
<1>1. ASSUME NEW b \in Blocks, New(b) PROVE IInv'
  <2>1. Linked' = Linked
    BY <1>1, <1>t DEF New, Linked, TypeOK
  <2>2. NewerIsTotalOrder' /\ ListIsLruOrder'
    BY <1>1, <1>i, <2>1, SameListSameOrder DEF New, listVars
  <2>3. Others'
    BY <1>1, <1>i, <1>t
       DEF New, listVars, ListAssertions, FreeListsDisjoint, UnusedIsUnlinked,
           TypeOK, BlockOrNull
  <2> QED
    BY <1>t, <2>2, <2>3 DEF IInv
<1>2. ASSUME NEW b \in Blocks, Touch(b) PROVE IInv'
  <2>1. Linked' = Linked \cup {b} /\ TouchUnlocked(b)
    BY <1>2, <1>t DEF Touch, Linked, TypeOK
  <2>2. b \in Linked \/ (poPrevious[b] = Null /\ poNext[b] = Null)
    BY <1>2, <1>i DEF Touch, Linked, UnusedIsUnlinked
  <2>3. NewerIsTotalOrder' /\ ListIsLruOrder'
    BY <1>i, <1>t, <2>1, <2>2, TouchKeepsOrder
  <2>4. \A x \in Blocks : state'[x] # "linked" =>
           /\ state'[x] = state[x]
           /\ poNext'[x] = poNext[x] /\ poPrevious'[x] = poPrevious[x]
    BY <1>2, <1>i, <1>t, <2>1, <2>2, TouchElsewhere DEF Touch, Linked, TypeOK
  <2>5. /\ ListAssertions' /\ UnusedIsUnlinked'
    BY <1>2, <1>i, <1>t, <2>4 DEF Touch, ListAssertions, UnusedIsUnlinked, TypeOK
  <2>6. FreeListsDisjoint'
    BY <1>2, <1>i, <1>t, <2>4 DEF Touch, FreeListsDisjoint, TypeOK, BlockOrNull
  <2> QED
    BY <1>t, <2>3, <2>5, <2>6 DEF IInv
<1>3. ASSUME NEW b \in Blocks, Detach(b) PROVE IInv'
  <2>1. b \in Linked /\ Linked' = Linked \ {b} /\ DetachUnlocked(b)
    BY <1>3, <1>t DEF Detach, Linked, TypeOK
  <2>2. NewerIsTotalOrder' /\ ListIsLruOrder'
    BY <1>i, <1>t, <2>1, DetachKeepsOrder
  <2>3. /\ poNext'[b] = Null /\ poPrevious'[b] = Null
        /\ \A x \in Blocks \ {b} : state'[x] # "linked" =>
              /\ state'[x] = state[x]
              /\ poNext'[x] = poNext[x] /\ poPrevious'[x] = poPrevious[x]
    BY <1>3, <1>i, <1>t, <2>1, DetachElsewhere DEF Detach, Linked, TypeOK
  <2>4. /\ ListAssertions' /\ UnusedIsUnlinked'
    BY <1>3, <1>i, <1>t, <2>3 DEF Detach, ListAssertions, UnusedIsUnlinked, TypeOK
  <2>5. FreeListsDisjoint'
    BY <1>3, <1>i, <1>t, <2>3 DEF Detach, FreeListsDisjoint, TypeOK, BlockOrNull
  <2> QED
    BY <1>t, <2>2, <2>4, <2>5 DEF IInv
<1>4. ASSUME NEW b \in Blocks, AddBlockToFreeList(b) PROVE IInv'
  <2>1. Linked' = Linked /\ b \notin Linked
    BY <1>4, <1>t DEF AddBlockToFreeList, Linked, TypeOK
  <2>2. NewerIsTotalOrder' /\ ListIsLruOrder'
    BY <1>4, <1>i, <1>t, <2>1, SameListSameOrder
       DEF AddBlockToFreeList, TypeOK, Linked
  <2>3. /\ ListAssertions' /\ UnusedIsUnlinked'
    BY <1>4, <1>i, <1>t DEF AddBlockToFreeList, ListAssertions, UnusedIsUnlinked, TypeOK
  <2>4. FreeListsDisjoint'
    BY <1>4, <1>i, <1>t
       DEF AddBlockToFreeList, ListAssertions, FreeListsDisjoint, TypeOK, BlockOrNull
  <2> QED
    BY <1>t, <2>2, <2>3, <2>4 DEF IInv
<1>5. ASSUME NEW b \in Blocks, Delete(b) PROVE IInv'
  <2>1. CASE state[b] = "linked"
    <3>1. b \in Linked /\ Linked' = Linked \ {b} /\ DetachUnlocked(b)
      BY <1>5, <1>i, <1>t, <2>1 DEF Delete, Linked, TypeOK, ListAssertions
    <3>2. NewerIsTotalOrder' /\ ListIsLruOrder'
      BY <1>i, <1>t, <3>1, DetachKeepsOrder
    <3>3. /\ poNext'[b] = Null /\ poPrevious'[b] = Null
          /\ \A x \in Blocks \ {b} : state'[x] # "linked" =>
                /\ state'[x] = state[x]
                /\ poNext'[x] = poNext[x] /\ poPrevious'[x] = poPrevious[x]
      BY <1>5, <1>i, <1>t, <3>1, DetachElsewhere DEF Delete, Linked, TypeOK
    <3>4. /\ ListAssertions' /\ UnusedIsUnlinked'
      BY <1>5, <1>i, <1>t, <3>3 DEF Delete, ListAssertions, UnusedIsUnlinked, TypeOK
    <3>5. FreeListsDisjoint'
      BY <1>5, <1>i, <1>t, <2>1, <3>3 DEF Delete, FreeListsDisjoint, TypeOK, BlockOrNull
    <3> QED
      BY <1>t, <3>2, <3>4, <3>5 DEF IInv
  <2>2. CASE state[b] = "detached"
    <3>1. Linked' = Linked /\ UNCHANGED <<listVars, newer>>
      BY <1>5, <1>i, <1>t, <2>2 DEF Delete, Linked, TypeOK, ListAssertions
    <3>2. NewerIsTotalOrder' /\ ListIsLruOrder'
      BY <1>i, <3>1, SameListSameOrder DEF listVars
    <3>3. Others'
      BY <1>5, <1>i, <1>t, <2>2, <3>1
         DEF Delete, listVars, ListAssertions, FreeListsDisjoint, UnusedIsUnlinked,
             TypeOK, BlockOrNull
    <3> QED
      BY <1>t, <3>2, <3>3 DEF IInv
  <2> QED
    BY <1>5, <2>1, <2>2 DEF Delete
<1>6. ASSUME NEW d \in Bands, Recycle(d) PROVE IInv'
  <2> DEFINE b == psListBlocksToFree[d]
  <2>0. b \in Blocks /\ state[b] = "free" /\ BandOf[b] = d
    BY <1>6, <1>i, <1>t DEF Recycle, FreeListsDisjoint, TypeOK, BlockOrNull
  <2>1. Linked' = Linked /\ b \notin Linked
    BY <1>6, <1>t, <2>0 DEF Recycle, Linked, TypeOK
  <2>2. NewerIsTotalOrder' /\ ListIsLruOrder'
    BY <1>6, <1>i, <1>t, <2>0, <2>1, SameListSameOrder DEF Recycle, TypeOK, Linked
  <2>3. /\ ListAssertions' /\ UnusedIsUnlinked'
    BY <1>6, <1>i, <1>t, <2>0 DEF Recycle, ListAssertions, UnusedIsUnlinked, TypeOK
  <2>4. FreeListsDisjoint'
    BY <1>6, <1>i, <1>t, <2>0 DEF Recycle, FreeListsDisjoint, TypeOK, BlockOrNull
  <2> QED
    BY <1>t, <2>2, <2>3, <2>4 DEF IInv
<1>7. ASSUME NEW d \in Bands, TakeDanglingBlocks(d) PROVE IInv'
  <2>1. Linked' = Linked
    BY <1>7 DEF TakeDanglingBlocks, Linked
  <2>2. NewerIsTotalOrder' /\ ListIsLruOrder'
    BY <1>7, <1>i, <2>1, SameListSameOrder DEF TakeDanglingBlocks, listVars
  <2>3. Others'
    BY <1>7, <1>i, <1>t
       DEF TakeDanglingBlocks, listVars, ListAssertions, FreeListsDisjoint,
           UnusedIsUnlinked, TypeOK, BlockOrNull
  <2> QED
    BY <1>t, <2>2, <2>3 DEF IInv
<1>8. ASSUME NEW d \in Bands, FreeDanglingBlock(d) PROVE IInv'
  <2> DEFINE b == poList[d]
  <2>0. b \in Blocks /\ state[b] = "free" /\ BandOf[b] = d /\ ~bMustDetach[b]
    BY <1>8, <1>i, <1>t
       DEF FreeDanglingBlock, FreeListsDisjoint, ListAssertions, TypeOK, BlockOrNull
  <2>1. Linked' = Linked /\ b \notin Linked
    BY <1>8, <1>t, <2>0 DEF FreeDanglingBlock, Linked, TypeOK
  <2>2. NewerIsTotalOrder' /\ ListIsLruOrder'
    BY <1>8, <1>i, <1>t, <2>0, <2>1, SameListSameOrder
       DEF FreeDanglingBlock, TypeOK, Linked
  <2>3. /\ ListAssertions' /\ UnusedIsUnlinked'
    BY <1>8, <1>i, <1>t, <2>0
       DEF FreeDanglingBlock, ListAssertions, FreeListsDisjoint, UnusedIsUnlinked, TypeOK
  <2>4. FreeListsDisjoint'
    BY <1>8, <1>i, <1>t, <2>0 DEF FreeDanglingBlock, FreeListsDisjoint, TypeOK, BlockOrNull
  <2> QED
    BY <1>t, <2>2, <2>3, <2>4 DEF IInv
<1>9. CASE UNCHANGED vars
  BY <1>9, <1>i, <1>t
     DEF vars, IInv, NewerIsTotalOrder, ListIsLruOrder, Adjacent, Linked,
         ListAssertions, FreeListsDisjoint, UnusedIsUnlinked
<1> QED
  BY <1>1, <1>2, <1>3, <1>4, <1>5, <1>6, <1>7, <1>8, <1>9 DEF Next

-----------------------------------------------------------------------------
(* The conjunction of all of the above holds in every state.               *)
LEMMA IInvHolds == Spec => []IInv
BY IInv_Init, IInv_Next, PTL DEF Spec

(* Every pointer of the list and of the free lists is null or the address  *)
(* of a block, whatever the operations.                                    *)
THEOREM TypeCorrect == Spec => []TypeOK
BY TypeOK_Init, TypeOK_Next, PTL DEF Spec

(* For any number of blocks, Touch_unlocked() and Detach_unlocked() keep   *)
(* poNewest .. poOldest in exact least-recently-used order.                *)
THEOREM LruOrder == Spec => [](NewerIsTotalOrder /\ ListIsLruOrder)
<1>1. IInv => NewerIsTotalOrder /\ ListIsLruOrder
  BY DEF IInv
<1> QED
  BY <1>1, IInvHolds, PTL

(* For any number of blocks and bands, no assertion of Touch_unlocked() or *)
(* AddBlockToFreeList() fails, and no released block is in two free lists, *)
(* although they share poNext with the list of the cached blocks.          *)
THEOREM FreeListsSafe == Spec => [](ListAssertions /\ FreeListsDisjoint)
<1>1. IInv => ListAssertions /\ FreeListsDisjoint
  BY DEF IInv
<1> QED
  BY <1>1, IInvHolds, PTL
=============================================================================
