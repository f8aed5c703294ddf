-------------------------- MODULE MCRasterBlockCache --------------------------
(* Instances of the block cache.  Band 2 belongs to dataset ds2, the       *)
(* others to ds1.                                                          *)
EXTENDS RasterBlockCache

CONSTANTS t1, t2, ds1, ds2, b1, b2, b3, b4, b5

TwoThreads == {t1, t2}
OneThread == {t1}
TwoDatasets == {ds1, ds2}
EvenBands == [d \in Bands |-> IF d = 2 THEN ds2 ELSE ds1]

(* Each thread has a dataset of its own, or one thread has both.           *)
OwnThread == [ds \in TwoDatasets |-> IF ds = ds1 THEN t1 ELSE t2]
OneOwner == [ds \in TwoDatasets |-> t1]

(* Addresses are interchangeable.                                          *)
BlockSymmetry == Permutations(Blocks)
=============================================================================
