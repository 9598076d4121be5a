--------------------------- MODULE TaskLifecycle ---------------------------
(***************************************************************************)
(* What the scheduler promises of one task, whichever queues, workers and  *)
(* wake-ups carry it: a registered task is planned (its trigger computes a *)
(* time), waits in the engine, becomes due, runs, and is planned again.    *)
(* It runs once for every time it became due, an error is answered by the  *)
(* failover policy, and only a task that is no longer registered is        *)
(* dropped on the way.                                                     *)
(***************************************************************************)
EXTENDS Naturals

CONSTANTS
  Keys,      \* the keys of tasks
  Failures,  \* may triggers and runs return an error?
  Cuts       \* may a run be cut short by an abort or a panic?

VARIABLES
  policy,      \* the failover policy
  registered,  \* the tasks in the store
  phase        \* per key: where the task is in its cycle

vars == <<policy, registered, phase>>

Policies == {"Keep", "Terminate", "Deallocate", "ShutdownScheduler"}
Phases == {"absent", "planning", "waiting", "due", "running", "gone"}

Enter(k, p) == phase' = [phase EXCEPT ![k] = p]

Init == policy \in Policies /\ registered = {} /\ phase = [k \in Keys |-> "absent"]

Register(k) ==
  /\ phase[k] = "absent"
  /\ registered' = registered \cup {k}
  /\ Enter(k, "planning")
  /\ UNCHANGED policy

Unregister(ks) ==
  /\ registered' = registered \ ks
  /\ UNCHANGED <<policy, phase>>

Cycle(k, from, to) ==
  /\ phase[k] = from
  /\ Enter(k, to)
  /\ UNCHANGED <<policy, registered>>

Plan(k) == Cycle(k, "planning", "waiting")
BecomeDue(k) == Cycle(k, "waiting", "due")
Run(k) == Cycle(k, "due", "running")
Finish(k) == Cycle(k, "running", "planning")

\* A trigger or a run fails.  Keep tries the same thing again.
Fail(k) ==
  /\ Failures /\ phase[k] \in {"planning", "running"}
  /\ Enter(k, IF policy # "Keep" THEN "gone"
              ELSE IF phase[k] = "running" THEN "due" ELSE "planning")
  /\ registered' = IF policy = "Deallocate" THEN registered \ {k} ELSE registered
  /\ UNCHANGED policy

\* The task is met again after it was removed.
Drop(k) ==
  /\ k \notin registered /\ phase[k] \in {"planning", "due"}
  /\ Enter(k, "gone")
  /\ UNCHANGED <<policy, registered>>

CutShort(k) ==
  /\ Cuts \/ policy = "ShutdownScheduler"
  /\ phase[k] \in {"planning", "running"}
  /\ Enter(k, "gone")
  /\ UNCHANGED <<policy, registered>>

Next ==
  \/ \E k \in Keys : \/ Register(k) \/ Plan(k) \/ BecomeDue(k) \/ Run(k)
                     \/ Finish(k) \/ Fail(k) \/ Drop(k) \/ CutShort(k)
  \/ \E ks \in SUBSET registered : Unregister(ks)

Spec == Init /\ [][Next]_vars
=============================================================================
