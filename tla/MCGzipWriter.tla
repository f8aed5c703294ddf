----------------------------- MODULE MCGzipWriter -----------------------------
(* Instance of GzipWriter for TLC. *)
EXTENDS GzipWriter

MCJobs == PoolJobs
MCChildren == [j \in PoolJobs |-> {}]
==============================================================================
