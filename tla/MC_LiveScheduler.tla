-------------------------- MODULE MC_LiveScheduler --------------------------
(* Constants for the runs of LiveScheduler.                                *)
EXTENDS LiveSchedulerRefinement, TLC

\* All keys in one shard of the dispatcher.
OneShard == [k \in Keys |-> CHOOSE s \in Shards : TRUE]

\* Workers and clients are interchangeable, and so are the keys of one shard.
Symmetry == Permutations(Workers) \cup Permutations(Keys)
=============================================================================
