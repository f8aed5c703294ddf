-------------------------- MODULE MCRasterBlockList ---------------------------
(* Four block objects, three of one band and one of another.               *)
EXTENDS RasterBlockList

CONSTANTS b1, b2, b3, b4, d1, d2

MCBlocks == {b1, b2, b3, b4}
MCBands == {d1, d2}
MCBandOf == [b \in MCBlocks |-> IF b = b4 THEN d2 ELSE d1]
=============================================================================
