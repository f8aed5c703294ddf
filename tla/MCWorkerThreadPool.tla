-------------------------- MODULE MCWorkerThreadPool --------------------------
(* Instances of WorkerThreadPool for TLC. *)
EXTENDS WorkerThreadPool

CONSTANTS c1, p1, p2, k1, k2, b1

(* Jobs p1 and p2 submit one job each. *)
MCChildren == [j \in Jobs |-> IF j = p1 THEN {k1} ELSE IF j = p2 THEN {k2} ELSE {}]

(* Clients that make every call. *)
MCAllCalls ==
    [c \in Clients |-> {"setup", "submit", "queueSubmit", "wait", "queueWait",
                        "destroy"}]
==============================================================================
