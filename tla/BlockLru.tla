------------------------------- MODULE BlockLru -------------------------------
(***************************************************************************)
(* The abstract content of GDAL's global raster block list: the attached   *)
(* blocks, most recently used first.  GDALRasterBlock keeps it as a doubly *)
(* linked list (module RasterBlockList, which implements this one); the    *)
(* block cache (module RasterBlockCache) uses the operators below.         *)
(***************************************************************************)
EXTENDS Sequences, SequencesExt

(* Position of block b in list s.                                          *)
PositionOf(s, b) == CHOOSE i \in DOMAIN s : s[i] = b

(* The list without block b: the effect of Detach_unlocked().              *)
Detached(s, b) ==
    IF \E i \in DOMAIN s : s[i] = b THEN RemoveAt(s, PositionOf(s, b)) ELSE s

(* The list with block b moved, or added, to the front: Touch_unlocked().  *)
Touched(s, b) == <<b>> \o Detached(s, b)

-----------------------------------------------------------------------------
CONSTANT Blocks
VARIABLE lru

LruInit == lru = <<>>

LruTouch(b) == lru' = Touched(lru, b)

LruDetach(b) == lru' = Detached(lru, b)

LruNext == \E b \in Blocks : LruTouch(b) \/ LruDetach(b)

LruSpec == LruInit /\ [][LruNext]_lru
=============================================================================
