-------------------------- MODULE SchedulerEngine --------------------------
(***************************************************************************)
(* The default engine (scheduler/engine/default.rs): workers queue their   *)
(* commands, a task of its own waits for the clock's next tick, carries    *)
(* them out on the timing wheel, turns the wheel and pushes what it has    *)
(* released; the main loop retrieves one such batch after another.  The    *)
(* clock is SchedulerClock, the wheel TimingWheel.                         *)
(***************************************************************************)
EXTENDS SchedulerClock, Sequences, FiniteSets

CONSTANTS
  Entries,      \* what the calls of schedule() arm, a name for each call
  Base, Levels, \* the dimensions of the wheel
  MaxDelay,     \* bound on the delays
  MaxClears,    \* bound on the clear() commands in the queue
  MaxResults    \* bound on the batches in the result queue

ASSUME EngineAssumption ==
  /\ Base \in Nat \ {0, 1} /\ Levels \in Nat \ {0}
  /\ MaxDelay \in Nat
  /\ "none" \notin Entries

VARIABLES
  commandBatch,  \* the queue of commands
  resultQueue,   \* get_result_queue: batches of released entries, oldest first
  stage,         \* the engine's loop: "tick", "batch" or "notify"
  retrieving,    \* the main loop in retrieve(): "pop", "gap" or "wait"
  current, slots, released  \* the wheel

wheelVars == <<current, slots, released>>
engineVars == <<commandBatch, resultQueue, stage, retrieving>>
vars == <<clockVars, engineVars, wheelVars>>

Wheel == INSTANCE TimingWheel WITH results <- released

None == "none"
Insertion(k, delay) == [key |-> k, delay |-> delay]
ClearAll == [key |-> None, delay |-> 0]
Commands == [key : Entries \cup {None}, delay : 0 .. MaxDelay]

Init ==
  /\ ClockInit /\ Wheel!Init
  /\ commandBatch = <<>> /\ resultQueue = <<>>
  /\ stage = "tick" /\ retrieving = "pop"

Commanded == {n \in DOMAIN commandBatch : commandBatch[n].key # None}
Clears == DOMAIN commandBatch \ Commanded

Armed == {commandBatch[n].key : n \in Commanded} \cup {k \in Entries : Wheel!Contained(k)}
Fired == UNION {resultQueue[n] : n \in DOMAIN resultQueue}

-----------------------------------------------------------------------------
(* The methods of the engine.                                              *)

\* A worker schedules a key; the time its trigger computed may be any, the
\* engine is given what is left until then.  Each call makes an entry of its
\* own, whatever entries of the same key there are: k is a name that no entry
\* has at present.  The engine never compares keys.
Schedule(k, delay) ==
  /\ k \notin Armed \cup Fired
  /\ commandBatch' = Append(commandBatch, Insertion(k, delay))
  /\ UNCHANGED <<clockVars, resultQueue, stage, retrieving, wheelVars>>

Clear ==
  /\ Cardinality(Clears) < MaxClears
  /\ commandBatch' = Append(commandBatch, ClearAll)
  /\ UNCHANGED <<clockVars, resultQueue, stage, retrieving, wheelVars>>

\* retrieve(): a batch is returned and the main loop calls again.
PopResult ==
  /\ retrieving = "pop" /\ resultQueue # <<>>
  /\ resultQueue' = Tail(resultQueue)
  /\ UNCHANGED <<clockVars, commandBatch, stage, retrieving, wheelVars>>

NoResult ==
  /\ retrieving = "pop" /\ resultQueue = <<>>
  /\ retrieving' = "gap"
  /\ UNCHANGED <<clockVars, commandBatch, resultQueue, stage, wheelVars>>

AwaitResult ==
  /\ retrieving = "gap"
  /\ retrieving' = "wait"
  /\ UNCHANGED <<clockVars, commandBatch, resultQueue, stage, wheelVars>>

-----------------------------------------------------------------------------
(* The engine's own task.                                                  *)

EngineTicked ==
  /\ stage = "tick" /\ TickReturns
  /\ stage' = "batch"
  /\ UNCHANGED <<commandBatch, resultQueue, retrieving, wheelVars>>

\* Mutant: clear empties the queue as well.
AfterClearNothing == <<>>

\* The commands that are left after a clear.
AfterClear == Tail(commandBatch)

PopCommand ==
  /\ stage = "batch" /\ commandBatch # <<>>
  /\ LET c == Head(commandBatch)
     IN  \/ /\ c.key # None
            /\ Wheel!Insert(c.key, c.delay)
            /\ commandBatch' = Tail(commandBatch)
         \/ /\ c.key = None
            /\ Wheel!Clear
            /\ commandBatch' = AfterClear
  /\ UNCHANGED <<clockVars, resultQueue, stage, retrieving>>

\* The bound on the queue must not hold back the batch whose notification a
\* waiting main loop needs.
RoomForResults ==
  Len(resultQueue) < IF retrieving = "wait" THEN MaxResults + 1 ELSE MaxResults

Turn ==
  /\ stage = "batch" /\ commandBatch = <<>> /\ RoomForResults
  /\ Wheel!Tick
  /\ resultQueue' = Append(resultQueue, released')
  /\ stage' = "notify"
  /\ UNCHANGED <<clockVars, commandBatch, retrieving>>

\* Mutant: the waiting retrieve() is not notified.
RetrieverAsleep == retrieving

RetrieverNotified == IF retrieving = "wait" THEN "pop" ELSE retrieving

NotifyResults ==
  /\ stage = "notify"
  /\ retrieving' = RetrieverNotified
  /\ stage' = "tick" /\ ticking' = "call"
  /\ UNCHANGED <<clock, time, buffered, advanceVars, sleepVars, previous, ticked,
                 signalled, raises, commandBatch, resultQueue, wheelVars>>

-----------------------------------------------------------------------------

EngineStep == EngineTicked \/ PopCommand \/ Turn \/ NotifyResults
RetrieveStep == PopResult \/ NoResult \/ AwaitResult

Next ==
  \/ ClockStep /\ UNCHANGED <<engineVars, wheelVars>>
  \/ EngineStep \/ RetrieveStep
  \/ Clear \/ \E k \in Entries, delay \in 0 .. MaxDelay : Schedule(k, delay)

Spec == Init /\ [][Next]_vars

\* tokio polls the engine's task and the main loop, and the queue of commands
\* is not refilled faster than it is emptied.
FairSpec ==
  /\ Spec /\ ClockFairness
  /\ WF_vars(EngineStep) /\ SF_vars(Turn) /\ WF_vars(RetrieveStep)

-----------------------------------------------------------------------------

TypeOK ==
  /\ ClockTypeOK /\ Wheel!TypeOK
  /\ commandBatch \in Seq(Commands)
  /\ resultQueue \in Seq(SUBSET Entries)
  /\ stage \in {"tick", "batch", "notify"}
  /\ (stage = "tick") = (ticking # "away")
  /\ retrieving \in {"pop", "gap", "wait"}

\* An entry that a clear() in the queue will take out.
Doomed(k) ==
  \E m \in Clears :
    Wheel!Contained(k) \/ \E n \in Commanded : n < m /\ commandBatch[n].key = k

Contract ==
  INSTANCE EngineContract WITH
    armed <- Armed, doomed <- {k \in Armed : Doomed(k)}, fired <- resultQueue

\* The command queue, the wheel and the result queue together keep what the
\* scheduler relies on: no armed entry is lost, released twice or returned out of
\* order, and clear() spares what was scheduled after it.
ImplementsContract == Contract!Spec

\* While the progressive clock beats, every armed entry is retrieved or cleared,
\* although a notification the main loop misses is not repeated.
EveryEntryIsRetrieved ==
  \A k \in Entries :
    clock = "progressive" /\ k \in Armed \cup Fired ~> k \notin Armed \cup Fired
=============================================================================
