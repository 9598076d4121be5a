--------------------------- MODULE TaskDispatcher ---------------------------
(***************************************************************************)
(* The default task dispatcher (scheduler/task_dispatcher/default.rs) with *)
(* the runtime threads its callers run on.  dispatch() takes the write     *)
(* lock of its key's DashMap shard when it looks up the key's Notify, and  *)
(* the guard moves into the returned future: the lock is held, over every  *)
(* await, until the run ends.  A caller that finds a shard locked blocks   *)
(* the thread it runs on; a run that has gone to sleep occupies no thread, *)
(* but needs one to wake up and end.                                       *)
(***************************************************************************)
EXTENDS Naturals, FiniteSets

CONSTANTS
  Callers,  \* the futures that call the dispatcher: workers, instruction loop
  Keys,
  Shards,
  ShardOf,  \* the shard a key is hashed to
  Threads,  \* the number of threads of the runtime
  None      \* "no caller"

ASSUME DispatcherAssumption ==
  /\ ShardOf \in [Keys -> Shards]
  /\ Threads \in Nat \ {0}
  /\ IsFiniteSet(Callers) /\ None \notin Callers

VARIABLES
  at,        \* per caller: "idle", "blocked" on a lock, "running" (asleep in the
             \* task's run), or "ready" (the run can be resumed)
  call,      \* per caller: the operation it is in and its key, or None
  owner,     \* per shard: the caller that holds its lock, or None
  entries,   \* the keys with a Notify in the map
  notified   \* per caller: has the Notify its run listens to been notified?

vars == <<at, call, owner, entries, notified>>

Calls == [op : {"dispatch", "cancel"}, key : Keys]

Init ==
  /\ at = [c \in Callers |-> "idle"]
  /\ call = [c \in Callers |-> None]
  /\ owner = [s \in Shards |-> None]
  /\ entries = {}
  /\ notified = [c \in Callers |-> FALSE]

Blocked == {c \in Callers : at[c] = "blocked"}

\* A future is polled only on a thread no blocked caller occupies.
ThreadFree == Cardinality(Blocked) < Threads

Runs(c, k) == at[c] \in {"running", "ready"} /\ call[c].key = k

\* Mutants: the map is keyed by shard; the guard is dropped when the run starts.
EnterDispatchByShard(c, k) ==
  /\ owner' = [owner EXCEPT ![ShardOf[k]] = c]
  /\ entries' = entries \cup {ShardOf[k]}
  /\ at' = [at EXCEPT ![c] = "running"]
  /\ call' = [call EXCEPT ![c] = [op |-> "dispatch", key |-> k]]
  /\ notified' = [notified EXCEPT ![c] = FALSE]
EnterDispatchUnlocked(c, k) ==
  /\ entries' = entries \cup {k}
  /\ at' = [at EXCEPT ![c] = "running"]
  /\ call' = [call EXCEPT ![c] = [op |-> "dispatch", key |-> k]]
  /\ notified' = [notified EXCEPT ![c] = FALSE]
  /\ UNCHANGED owner

\* entry().or_insert_with(): the run starts, and the guard stays with it.
EnterDispatch(c, k) ==
  /\ owner' = [owner EXCEPT ![ShardOf[k]] = c]
  /\ entries' = entries \cup {k}
  /\ at' = [at EXCEPT ![c] = "running"]
  /\ call' = [call EXCEPT ![c] = [op |-> "dispatch", key |-> k]]
  /\ notified' = [notified EXCEPT ![c] = FALSE]

\* remove() and notify_one(): the lock is released at once, the removed Notify
\* reaches the runs that were started with it.
EnterCancel(c, k) ==
  /\ entries' = entries \ {k}
  /\ notified' = [d \in Callers |-> notified[d] \/ (k \in entries /\ Runs(d, k))]
  /\ at' = [at EXCEPT ![c] = "idle"]
  /\ call' = [call EXCEPT ![c] = None]
  /\ UNCHANGED owner

Enter(c, o) ==
  /\ owner[ShardOf[o.key]] = None
  /\ \/ o.op = "dispatch" /\ EnterDispatch(c, o.key)
     \/ o.op = "cancel" /\ EnterCancel(c, o.key)

\* dispatch() or cancel() is called; it may find the shard locked.
Call(c, o) ==
  /\ at[c] = "idle" /\ ThreadFree
  /\ \/ Enter(c, o)
     \/ /\ owner[ShardOf[o.key]] # None
        /\ at' = [at EXCEPT ![c] = "blocked"]
        /\ call' = [call EXCEPT ![c] = o]
        /\ UNCHANGED <<owner, entries, notified>>

Acquire(c) ==
  /\ at[c] = "blocked"
  /\ Enter(c, call[c])

\* What the run was waiting for has happened.
Wake(c) ==
  /\ at[c] = "running"
  /\ at' = [at EXCEPT ![c] = "ready"]
  /\ UNCHANGED <<call, owner, entries, notified>>

\* Mutant: the guard outlives the run.
FinishLocked(c) ==
  /\ at[c] = "ready" \/ (at[c] = "running" /\ notified[c])
  /\ ThreadFree
  /\ at' = [at EXCEPT ![c] = "idle"]
  /\ call' = [call EXCEPT ![c] = None]
  /\ UNCHANGED <<owner, entries, notified>>

\* select!: the run has ended or its Notify fired; the guard is dropped.
Finish(c) ==
  /\ at[c] = "ready" \/ (at[c] = "running" /\ notified[c])
  /\ ThreadFree
  /\ at' = [at EXCEPT ![c] = "idle"]
  /\ call' = [call EXCEPT ![c] = None]
  /\ owner' = [owner EXCEPT ![ShardOf[call[c].key]] = None]
  /\ UNCHANGED <<entries, notified>>

Next ==
  \E c \in Callers :
    \/ \E o \in Calls : Call(c, o)
    \/ Acquire(c) \/ Wake(c) \/ Finish(c)

Spec == Init /\ [][Next]_vars

WaitsFor(c, s) == at[c] = "blocked" /\ ShardOf[call[c].key] = s

\* A shard that stays unlocked is taken by one of those who wait for it: the lock
\* (dashmap's RawRwLock) unparks a waiter, which a newcomer may still overtake.
\* A run that can go on, and finds a thread free again and again, gets one.
SchedulingFairness ==
  /\ \A s \in Shards : WF_vars(\E c \in Callers : WaitsFor(c, s) /\ Acquire(c))
  /\ \A c \in Callers : SF_vars(Finish(c))

\* Runs may sleep forever ...
SleepySpec == Spec /\ SchedulingFairness
\* ... or what they wait for happens ...
FairSpec == SleepySpec /\ \A c \in Callers : WF_vars(Wake(c))
\* ... and, more than the code ensures, no newcomer overtakes a waiter forever.
FairLockSpec == FairSpec /\ \A c \in Callers : SF_vars(Acquire(c))

-----------------------------------------------------------------------------

TypeOK ==
  /\ at \in [Callers -> {"idle", "blocked", "running", "ready"}]
  /\ call \in [Callers -> Calls \cup {None}]
  /\ owner \in [Shards -> Callers \cup {None}]
  /\ entries \subseteq Keys
  /\ notified \in [Callers -> BOOLEAN]

\* A shard is locked exactly while a task of one of its keys runs: two runs of a
\* key, or of two keys of a shard, never overlap, whoever dispatches them, and no
\* lock outlives its run.  (ARCHITECTURE.md:264 has the dispatcher decide whether
\* instances of a task run concurrently or block each other: this one blocks them.)
LockedWhileRunning ==
  /\ \A c \in Callers : at[c] \in {"running", "ready"} =>
       owner[ShardOf[call[c].key]] = c /\ call[c].key \in entries
  /\ \A s \in Shards : owner[s] # None =>
       /\ at[owner[s]] \in {"running", "ready"}
       /\ ShardOf[call[owner[s]].key] = s

NobodyCalls == \A c \in Callers, o \in Calls : ~Call(c, o)

\* Unless the threads are all blocked for good, locks are lost to newcomers only:
\* once nobody calls any more, every dispatch and every cancel comes to its end,
\* however the callers of a shard are queued behind its runs.
CallsEnd ==
  []<>ThreadFree /\ <>[][NobodyCalls]_vars
    => \A c \in Callers : at[c] # "idle" ~> at[c] = "idle"

\* What the comment on Execute says: it spawns a new instance of the task to run.
DispatchedTaskRuns ==
  \A c \in Callers, k \in Keys :
    at[c] = "blocked" /\ call[c] = [op |-> "dispatch", key |-> k] ~> Runs(c, k)

\* What the comment on Halt says: it cancels the task's current execution.
HaltEndsTheRun ==
  \A c, d \in Callers, k \in Keys :
    at[c] = "blocked" /\ call[c] = [op |-> "cancel", key |-> k] /\ Runs(d, k)
      ~> ~Runs(d, k)
=============================================================================
