------------------------- MODULE MC_TaskDispatcher -------------------------
(* Constants for the runs of TaskDispatcher.                               *)
EXTENDS TaskDispatcher, TLC

CONSTANTS k1, k2, k3, s1, s2

\* k1 and k2 share a shard, k3 has its own.
TwoShards == (k1 :> s1) @@ (k2 :> s1) @@ (k3 :> s2)
=============================================================================
