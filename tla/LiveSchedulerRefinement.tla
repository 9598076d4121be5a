---------------------- MODULE LiveSchedulerRefinement ----------------------
(* The live scheduler, given no instructions, implements TaskLifecycle.    *)
EXTENDS LiveScheduler

\* Does some queue, hand or hand-over hold the item <<k, what>>?
Queued(q, i) == \E n \in DOMAIN q : q[n] = i

Held(i) ==
  \/ \E w \in Workers : \/ Queued(ingress[w], i) \/ Queued(local[w], i)
                        \/ hand[w] = i
  \/ Queued(global, i)
  \/ \E p \in Producers : stage[p] = "push" /\ item[p] = i

PhaseOf(k) ==
  IF Running(k) THEN "running"
  ELSE IF Held(Work(k, "Dispatch")) \/ Queued(fired, k) THEN "due"
  ELSE IF armed[k] > 0 THEN "waiting"
  ELSE IF Held(Work(k, "Trigger")) THEN "planning"
  ELSE IF k \in allocated THEN "gone" ELSE "absent"

Lifecycle ==
  INSTANCE TaskLifecycle WITH
    registered <- store,
    phase <- [k \in Keys |-> PhaseOf(k)],
    Cuts <- Panics \/ Aborts

\* Whatever the interleaving of clients, workers, thieves, main loop and engine,
\* every step of the scheduler is a step of the cycle of one task or none: a run
\* is preceded by exactly one release of the engine, a release by one trigger,
\* and nothing but the failover policy or a removal ends the cycle.
ImplementsLifecycle == Lifecycle!Spec
=============================================================================
