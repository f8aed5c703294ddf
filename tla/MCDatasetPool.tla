----------------------------- MODULE MCDatasetPool -----------------------------
EXTENDS DatasetPool, TLC

CONSTANTS t1, t2, v, w, f, g, A, p1, p2, p3, p4

(* A VRT v and a PRF w, with sources f and g. p3 and p4 are not shared; p4 is a
   proxy of the source of the PRF. *)
MCKind == v :> "vrt" @@ w :> "prf" @@ f :> "plain" @@ g :> "plain"
MCSource == v :> f @@ w :> g @@ f :> None @@ g :> None
MCRam == v :> 1 @@ w :> 0 @@ f :> 2 @@ g :> 1
MCFile == p1 :> v @@ p2 :> v @@ p3 :> w @@ p4 :> g
MCOwner == p1 :> A @@ p2 :> A @@ p3 :> None @@ p4 :> None
MCMaker == p1 :> t1 @@ p2 :> t1 @@ p3 :> t2 @@ p4 :> t1
MCShared == p1 :> TRUE @@ p2 :> TRUE @@ p3 :> FALSE @@ p4 :> FALSE
==============================================================================
