--------------------------- MODULE LiveScheduler ---------------------------
(***************************************************************************)
(* The live scheduler of ChronoGrapher (base/src/scheduler/impls): client  *)
(* threads store tasks and hand them to workers, every worker drains its   *)
(* ingress queue into a local FIFO deque, triggers and dispatches tasks,   *)
(* steals from the other workers and from the global queue, and goes to    *)
(* sleep; the main loop hands due tasks back to the workers, and the       *)
(* instruction loop serves the instructions of the SchedulerHandle.        *)
(*                                                                         *)
(* A work item is a key and what to do with it: "Trigger" asks the task    *)
(* for its next time and arms the engine, "Dispatch" runs the task.  The   *)
(* engine is abstract here: `armed' counts the entries it holds for a key, *)
(* `fired' is the FIFO of the keys it has released and retrieve() has not  *)
(* returned yet.                                                           *)
(***************************************************************************)
EXTENDS Naturals, Sequences, FiniteSets

CONSTANTS
  Workers,          \* the indices of the workers
  Keys,             \* the keys the store may allocate
  Clients,          \* the threads that call the scheduler's methods
  Shards,           \* the shards of the dispatcher's DashMap
  ShardOf,          \* the shard a key is hashed to
  Failovers,        \* the FailoverPolicies it may be configured with
  Failures,         \* may triggers and runs return an error?
  Panics,           \* may a task panic?
  Removals,         \* may clients call remove and clear?
  Aborts,           \* may a client call abort?
  Instructions,     \* the instructions clients may give
  MaxInstructions,  \* bound on the number of instructions given
  None              \* "no value"

Policies == {"Keep", "Terminate", "Deallocate", "ShutdownScheduler"}
AllInstructions == {"Reschedule", "Halt", "Block", "Execute"}

ASSUME ConstantsAssumption ==
  /\ ShardOf \in [Keys -> Shards]
  /\ Failovers \subseteq Policies
  /\ Instructions \subseteq AllInstructions
  /\ MaxInstructions \in Nat
  /\ {Failures, Panics, Removals, Aborts} \subseteq BOOLEAN
  /\ {"main_loop", "instruction_loop"} \cap Clients = {}
  /\ None \notin Workers

VARIABLES
  policy,      \* the configured FailoverPolicy
  process,     \* has_started(): "new", then "running", then "drained"
  store,       \* the keys of the tasks in the store
  allocated,   \* the keys the store has ever returned
  ingress,     \* per worker: the queue the producers push to
  local,       \* per worker: local_worker, the deque thieves steal from
  global,      \* the global queue
  pending,     \* per worker: is the counter `pending' above zero?
  permit,      \* per worker: does its Notify hold a permit?
  pc,          \* per worker: where it is in its loop
  hand,        \* per worker: the item it has popped and is working on
  armed,       \* per key: entries the engine holds
  fired,       \* keys the engine has released, oldest first
  stage,       \* per producer: where it is in handing an item to a worker
  item,        \* per producer: the item it hands over
  target,      \* per producer: the worker it has chosen
  mainLoop,    \* "off", "on" or "dead"
  instructing, \* where the instruction loop is
  instructionQueue,
  instructed   \* the number of instructions given, at most MaxInstructions

storeVars == <<store, allocated>>
queueVars == <<ingress, local, global>>
wakeVars == <<pending, permit>>
workerVars == <<pc, hand>>
engineVars == <<armed, fired>>
handoffVars == <<stage, item, target>>
loopVars == <<mainLoop, instructing>>
instructionVars == <<instructionQueue, instructed>>
vars == <<policy, process, storeVars, queueVars, wakeVars, workerVars, engineVars,
          handoffVars, loopVars, instructionVars>>

Producers == Clients \cup {"main_loop", "instruction_loop"}

Work(k, what) == [key |-> k, work |-> what]
WorkItems == [key : Keys, work : {"Trigger", "Dispatch"}]
InstructionItems == [key : Keys, work : AllInstructions]

ASSUME NoneAssumption == None \notin WorkItems

WorkerStates == {"off", "drain", "pop", "trigger", "dispatch", "run",
                 "global", "swap", "wait", "dead"}
Stages == {"idle", "push", "add", "notify", "signal"}
LoopStates == {"off", "pop", "cancel", "gap", "wait", "done"}

Init ==
  /\ policy \in Failovers
  /\ process = "new"
  /\ store = {} /\ allocated = {}
  /\ ingress = [w \in Workers |-> <<>>]
  /\ local = [w \in Workers |-> <<>>]
  /\ global = <<>>
  /\ pending = [w \in Workers |-> FALSE]
  /\ permit = [w \in Workers |-> FALSE]
  /\ pc = [w \in Workers |-> "off"]
  /\ hand = [w \in Workers |-> None]
  /\ armed = [k \in Keys |-> 0]
  /\ fired = <<>>
  /\ stage = [p \in Producers |-> "idle"]
  /\ item = [p \in Producers |-> None]
  /\ target = [p \in Producers |-> None]
  /\ mainLoop = "off" /\ instructing = "off"
  /\ instructionQueue = <<>> /\ instructed = 0

-----------------------------------------------------------------------------
(* Handing an item to a worker: assign_to_trigger_worker and spawn_task.   *)
(* The push, the fetch_add and the notify_one are three steps.             *)

HandOff(p, i) ==
  /\ stage' = [stage EXCEPT ![p] = "push"]
  /\ item' = [item EXCEPT ![p] = i]
  /\ UNCHANGED target

EndHandOff(p) ==
  /\ stage' = [stage EXCEPT ![p] = "idle"]
  /\ target' = [target EXCEPT ![p] = None]
  /\ UNCHANGED item

Push(p, w) ==
  /\ stage[p] = "push"
  /\ ingress' = [ingress EXCEPT ![w] = Append(@, item[p])]
  /\ stage' = [stage EXCEPT ![p] = "add"]
  /\ item' = [item EXCEPT ![p] = None]
  /\ target' = [target EXCEPT ![p] = w]
  /\ UNCHANGED <<policy, process, storeVars, local, global, wakeVars, workerVars,
                 engineVars, loopVars, instructionVars>>

\* Mutant: notify when `pending' was already above zero.
FetchAddInverted(p) ==
  /\ stage[p] = "add"
  /\ pending' = [pending EXCEPT ![target[p]] = TRUE]
  /\ IF ~pending[target[p]]
     THEN EndHandOff(p)
     ELSE stage' = [stage EXCEPT ![p] = "notify"] /\ UNCHANGED <<item, target>>
  /\ UNCHANGED <<policy, process, storeVars, queueVars, permit, workerVars,
                 engineVars, loopVars, instructionVars>>

FetchAdd(p) ==
  /\ stage[p] = "add"
  /\ pending' = [pending EXCEPT ![target[p]] = TRUE]
  /\ IF pending[target[p]]
     THEN EndHandOff(p)
     ELSE stage' = [stage EXCEPT ![p] = "notify"] /\ UNCHANGED <<item, target>>
  /\ UNCHANGED <<policy, process, storeVars, queueVars, permit, workerVars,
                 engineVars, loopVars, instructionVars>>

NotifyOne(p) ==
  /\ stage[p] = "notify"
  /\ permit' = [permit EXCEPT ![target[p]] = TRUE]
  /\ EndHandOff(p)
  /\ UNCHANGED <<policy, process, storeVars, queueVars, pending, workerVars,
                 engineVars, loopVars, instructionVars>>

-----------------------------------------------------------------------------
(* The methods clients call.                                               *)

\* The instruction loop is left out where no instruction is ever given.
Start ==
  /\ process = "new"
  /\ process' = "running"
  /\ pc' = [w \in Workers |-> "drain"]
  /\ mainLoop' = "on"
  /\ instructing' = IF Instructions = {} THEN "off" ELSE "pop"
  /\ UNCHANGED <<policy, storeVars, queueVars, wakeVars, hand, engineVars,
                 handoffVars, instructionVars>>

DrainProcess ==
  process' = IF process = "running" THEN "drained" ELSE process

Abort ==
  /\ Aborts /\ process = "running"
  /\ DrainProcess
  /\ UNCHANGED <<policy, storeVars, queueVars, wakeVars, workerVars, engineVars,
                 handoffVars, loopVars, instructionVars>>

\* Mutant: the store gives a key out again once the task it was given for is gone.
ScheduleReusesKeys(c, k) ==
  /\ stage[c] = "idle" /\ k \notin store
  /\ store' = store \cup {k}
  /\ HandOff(c, Work(k, "Trigger"))
  /\ UNCHANGED <<policy, process, allocated, queueVars, wakeVars, workerVars,
                 engineVars, loopVars, instructionVars>>

Schedule(c, k) ==
  /\ stage[c] = "idle" /\ k \notin allocated
  /\ store' = store \cup {k}
  /\ allocated' = allocated \cup {k}
  /\ HandOff(c, Work(k, "Trigger"))
  /\ UNCHANGED <<policy, process, queueVars, wakeVars, workerVars, engineVars,
                 loopVars, instructionVars>>

Remove(k) ==
  /\ Removals /\ k \in allocated
  /\ store' = store \ {k}
  /\ UNCHANGED <<policy, process, allocated, queueVars, wakeVars, workerVars,
                 engineVars, handoffVars, loopVars, instructionVars>>

\* clear() empties the store one shard at a time; a shard holds any of the keys.
ClearShard(ks) ==
  /\ Removals /\ ks # {}
  /\ store' = store \ ks
  /\ UNCHANGED <<policy, process, allocated, queueVars, wakeVars, workerVars,
                 engineVars, handoffVars, loopVars, instructionVars>>

\* SchedulerHandle::instruct: the push and the notify_waiters are two steps.
Instruct(c, k, i) ==
  /\ stage[c] = "idle" /\ k \in allocated
  /\ instructed < MaxInstructions
  /\ instructed' = instructed + 1
  /\ instructionQueue' = Append(instructionQueue, Work(k, i))
  /\ stage' = [stage EXCEPT ![c] = "signal"]
  /\ UNCHANGED <<policy, process, storeVars, queueVars, wakeVars, workerVars,
                 engineVars, item, target, loopVars>>

NotifyWaiters(c) ==
  /\ stage[c] = "signal"
  /\ stage' = [stage EXCEPT ![c] = "idle"]
  /\ instructing' = IF instructing = "wait" THEN "done" ELSE instructing
  /\ UNCHANGED <<policy, process, storeVars, queueVars, wakeVars, workerVars,
                 engineVars, item, target, mainLoop, instructionVars>>

-----------------------------------------------------------------------------
(* One worker: start_worker_process.                                       *)

Goto(w, l) == pc' = [pc EXCEPT ![w] = l]

PutDown(w) == hand' = [hand EXCEPT ![w] = None]

outside == <<policy, allocated, handoffVars, loopVars, instructionVars>>

\* A step that only moves the worker to another point of its loop.
Move(w, l) ==
  /\ Goto(w, l)
  /\ UNCHANGED <<process, store, queueVars, wakeVars, hand, engineVars, outside>>

DrainIngress(w) ==
  /\ pc[w] = "drain" /\ ingress[w] # <<>>
  /\ local' = [local EXCEPT ![w] = Append(@, Head(ingress[w]))]
  /\ ingress' = [ingress EXCEPT ![w] = Tail(@)]
  /\ UNCHANGED <<process, store, global, wakeVars, workerVars, engineVars, outside>>

IngressEmpty(w) ==
  /\ pc[w] = "drain" /\ ingress[w] = <<>>
  /\ Move(w, "pop")

\* Mutant: the popped item is worked on without a look at the store.
NeverDropped(i) == FALSE

Dropped(i) == i.key \notin store

\* The items of tasks that are no longer stored are dropped.
PopLocal(w) ==
  /\ pc[w] = "pop" /\ local[w] # <<>>
  /\ local' = [local EXCEPT ![w] = Tail(@)]
  /\ LET i == Head(local[w]) IN
       IF Dropped(i)
       THEN UNCHANGED workerVars
       ELSE /\ hand' = [hand EXCEPT ![w] = i]
            /\ Goto(w, IF i.work = "Trigger" THEN "trigger" ELSE "dispatch")
  /\ UNCHANGED <<process, store, ingress, global, wakeVars, engineVars, outside>>

\* TaskTrigger::schedule returned a time and the engine took the entry.
TriggerOk(w) ==
  /\ pc[w] = "trigger"
  /\ armed' = [armed EXCEPT ![hand[w].key] = @ + 1]
  /\ Goto(w, "pop") /\ PutDown(w)
  /\ UNCHANGED <<process, store, queueVars, wakeVars, fired, outside>>

\* A run holds the write lock of its key's shard from dispatch() to its end.
Locked(s) == \E w \in Workers : pc[w] = "run" /\ ShardOf[hand[w].key] = s

Dispatch(w) ==
  /\ pc[w] = "dispatch" /\ ~Locked(ShardOf[hand[w].key])
  /\ Move(w, "run")

RunOk(w) ==
  /\ pc[w] = "run"
  /\ local' = [local EXCEPT ![w] = Append(@, Work(hand[w].key, "Trigger"))]
  /\ Goto(w, "pop") /\ PutDown(w)
  /\ UNCHANGED <<process, store, ingress, global, wakeVars, engineVars, outside>>

\* Mutant: no policy removes the task.
ForgottenNever(k) == store

\* The global queue and the store after a failure with item i of task k.
Retried(i) == IF policy = "Keep" THEN Append(global, i) ELSE global
Forgotten(k) == IF policy = "Deallocate" THEN store \ {k} ELSE store

\* Mutant: a run that failed is triggered anew as well as failed over (the push
\* after the match on its result is reached by both arms).
ApplyFailoverTriggers(w) ==
  /\ Failures /\ pc[w] \in {"trigger", "run"}
  /\ global' = Retried(hand[w])
  /\ store' = Forgotten(hand[w].key)
  /\ local' = IF pc[w] = "run"
              THEN [local EXCEPT ![w] = Append(@, Work(hand[w].key, "Trigger"))]
              ELSE local
  /\ IF policy = "ShutdownScheduler" THEN DrainProcess ELSE UNCHANGED process
  /\ Goto(w, "pop") /\ PutDown(w)
  /\ UNCHANGED <<ingress, wakeVars, engineVars, outside>>

\* The trigger or the run returned an error: apply_failover, then continue.
ApplyFailover(w) ==
  /\ Failures /\ pc[w] \in {"trigger", "run"}
  /\ global' = Retried(hand[w])
  /\ store' = Forgotten(hand[w].key)
  /\ IF policy = "ShutdownScheduler" THEN DrainProcess ELSE UNCHANGED process
  /\ Goto(w, "pop") /\ PutDown(w)
  /\ UNCHANGED <<ingress, local, wakeVars, engineVars, outside>>

\* A panic unwinds the worker's future: the item and the worker are gone, its
\* deque can still be stolen from.
Panic(w) ==
  /\ Panics /\ pc[w] \in {"trigger", "run"}
  /\ Goto(w, "dead") /\ PutDown(w)
  /\ UNCHANGED <<process, store, queueVars, wakeVars, engineVars, outside>>

\* steal_batch_and_pop moves half of the victim's queue, rounded up; the first
\* item it returns is pushed behind the others.
Batch(q) == (Len(q) + 1) \div 2
\* Mutants: the first item is lost; one item too many stays with the victim.
TakenLosesOne(q) == SubSeq(q, 2, Batch(q))
LeftKeepsOne(q) == SubSeq(q, Batch(q), Len(q))

Taken(q) == SubSeq(q, 2, Batch(q)) \o <<Head(q)>>
Left(q) == SubSeq(q, Batch(q) + 1, Len(q))

Steal(w, v) ==
  /\ pc[w] = "pop" /\ local[w] = <<>> /\ v # w /\ local[v] # <<>>
  /\ local' = [local EXCEPT ![w] = @ \o Taken(local[v]),
                            ![v] = Left(local[v])]
  /\ Goto(w, "drain")
  /\ UNCHANGED <<process, store, ingress, global, wakeVars, hand, engineVars, outside>>

\* The victims are drawn at random: every attempt may draw the thief itself or
\* an empty deque.
StealFails(w) ==
  /\ pc[w] = "pop" /\ local[w] = <<>>
  /\ Move(w, "global")

StealGlobal(w) ==
  /\ pc[w] = "global" /\ global # <<>>
  /\ local' = [local EXCEPT ![w] = @ \o Taken(global)]
  /\ global' = Left(global)
  /\ Goto(w, "drain")
  /\ UNCHANGED <<process, store, ingress, wakeVars, hand, engineVars, outside>>

GlobalEmpty(w) ==
  /\ pc[w] = "global" /\ global = <<>>
  /\ Move(w, "swap")

\* Mutant: the worker sleeps whatever the swap returned.
SwapPendingIgnored(w) ==
  /\ pc[w] = "swap"
  /\ pending' = [pending EXCEPT ![w] = FALSE]
  /\ Goto(w, "wait")
  /\ UNCHANGED <<process, store, queueVars, permit, hand, engineVars, outside>>

\* Mutant: the counter is read and not reset.
SwapPendingKept(w) ==
  /\ pc[w] = "swap"
  /\ Goto(w, IF pending[w] THEN "drain" ELSE "wait")
  /\ UNCHANGED <<process, store, queueVars, wakeVars, hand, engineVars, outside>>

SwapPending(w) ==
  /\ pc[w] = "swap"
  /\ pending' = [pending EXCEPT ![w] = FALSE]
  /\ Goto(w, IF pending[w] THEN "drain" ELSE "wait")
  /\ UNCHANGED <<process, store, queueVars, permit, hand, engineVars, outside>>

Notified(w) ==
  /\ pc[w] = "wait" /\ permit[w]
  /\ permit' = [permit EXCEPT ![w] = FALSE]
  /\ Goto(w, "drain")
  /\ UNCHANGED <<process, store, queueVars, pending, hand, engineVars, outside>>

\* An aborted handle takes effect where the worker's future may yield.
Cancelled(w) ==
  /\ process = "drained" /\ pc[w] \in {"trigger", "run", "wait"}
  /\ Goto(w, "dead") /\ PutDown(w)
  /\ UNCHANGED <<process, store, queueVars, wakeVars, engineVars, outside>>

-----------------------------------------------------------------------------
(* The engine releases an entry; the main loop hands it to a worker.       *)

Fire(k) ==
  /\ armed[k] > 0
  /\ armed' = [armed EXCEPT ![k] = @ - 1]
  /\ fired' = Append(fired, k)
  /\ UNCHANGED <<policy, process, storeVars, queueVars, wakeVars, workerVars,
                 handoffVars, loopVars, instructionVars>>

Retrieve ==
  /\ mainLoop = "on" /\ stage["main_loop"] = "idle" /\ fired # <<>>
  /\ HandOff("main_loop", Work(Head(fired), "Dispatch"))
  /\ fired' = Tail(fired)
  /\ UNCHANGED <<policy, process, storeVars, queueVars, wakeVars, workerVars, armed,
                 loopVars, instructionVars>>

MainLoopCancelled ==
  /\ process = "drained" /\ mainLoop = "on" /\ stage["main_loop"] = "idle"
  /\ mainLoop' = "dead"
  /\ UNCHANGED <<policy, process, storeVars, queueVars, wakeVars, workerVars,
                 engineVars, handoffVars, instructing, instructionVars>>

-----------------------------------------------------------------------------
(* scheduler_handle_instructions_logic: the queue is drained once, then    *)
(* one notification is awaited, then the future ends.                      *)

PopInstruction ==
  /\ instructing = "pop" /\ stage["instruction_loop"] = "idle"
  /\ instructionQueue # <<>>
  /\ instructionQueue' = Tail(instructionQueue)
  /\ LET k == Head(instructionQueue).key
         i == Head(instructionQueue).work
     IN  /\ CASE i = "Reschedule" -> HandOff("instruction_loop", Work(k, "Trigger"))
              [] i = "Execute" -> HandOff("instruction_loop", Work(k, "Dispatch"))
              [] i = "Halt" -> /\ item' = [item EXCEPT !["instruction_loop"] = Work(k, i)]
                               /\ UNCHANGED <<stage, target>>
              [] i = "Block" -> UNCHANGED handoffVars
         /\ store' = IF i = "Block" THEN store \ {k} ELSE store
         /\ instructing' = IF i = "Halt" THEN "cancel" ELSE instructing
  /\ UNCHANGED <<policy, process, allocated, queueVars, wakeVars, workerVars,
                 engineVars, mainLoop, instructed>>

\* dispatcher.cancel() blocks on the shard's lock, then finds nothing running.
CancelHalted ==
  /\ instructing = "cancel"
  /\ ~Locked(ShardOf[item["instruction_loop"].key])
  /\ item' = [item EXCEPT !["instruction_loop"] = None]
  /\ instructing' = "pop"
  /\ UNCHANGED <<policy, process, storeVars, queueVars, wakeVars, workerVars,
                 engineVars, stage, target, mainLoop, instructionVars>>

InstructionsDrained ==
  /\ instructing = "pop" /\ stage["instruction_loop"] = "idle"
  /\ instructionQueue = <<>>
  /\ instructing' = "gap"
  /\ UNCHANGED <<policy, process, storeVars, queueVars, wakeVars, workerVars,
                 engineVars, handoffVars, mainLoop, instructionVars>>

AwaitInstructions ==
  /\ instructing = "gap"
  /\ instructing' = "wait"
  /\ UNCHANGED <<policy, process, storeVars, queueVars, wakeVars, workerVars,
                 engineVars, handoffVars, mainLoop, instructionVars>>

InstructionLoopCancelled ==
  /\ process = "drained" /\ instructing = "wait"
  /\ instructing' = "done"
  /\ UNCHANGED <<policy, process, storeVars, queueVars, wakeVars, workerVars,
                 engineVars, handoffVars, mainLoop, instructionVars>>

-----------------------------------------------------------------------------

ClientStep ==
  \/ Start \/ Abort
  \/ \E ks \in SUBSET store : ClearShard(ks)
  \/ \E k \in Keys :
       \/ Remove(k)
       \/ \E c \in Clients : Schedule(c, k) \/ \E i \in Instructions : Instruct(c, k, i)

HandOffStep(p) == (\E w \in Workers : Push(p, w)) \/ FetchAdd(p) \/ NotifyOne(p)

\* The steps a worker takes with an item in its hand.
Serve(w) ==
  TriggerOk(w) \/ Dispatch(w) \/ RunOk(w) \/ ApplyFailover(w) \/ Panic(w)

\* The steps by which a worker looks for an item or for a reason to sleep.
Look(w) ==
  \/ DrainIngress(w) \/ IngressEmpty(w) \/ PopLocal(w)
  \/ (\E v \in Workers : Steal(w, v)) \/ StealFails(w)
  \/ StealGlobal(w) \/ GlobalEmpty(w) \/ SwapPending(w) \/ Notified(w)

InstructionStep ==
  PopInstruction \/ CancelHalted \/ InstructionsDrained \/ AwaitInstructions

Next ==
  \/ ClientStep
  \/ \E c \in Clients : NotifyWaiters(c)
  \/ \E p \in Producers : HandOffStep(p)
  \/ \E w \in Workers : Look(w) \/ Serve(w) \/ Cancelled(w)
  \/ \E k \in Keys : Fire(k)
  \/ Retrieve \/ MainLoopCancelled
  \/ InstructionStep \/ InstructionLoopCancelled

Spec == Init /\ [][Next]_vars

\* tokio polls every task that is ready, triggers and runs end, and the engine
\* releases every entry.  A thief that draws its victims at random does not
\* succeed in every round: two workers do not steal one item from each other
\* forever.  Nothing is assumed of who gets the dispatcher's lock.
RunFairness ==
  /\ \A p \in Producers : WF_vars(HandOffStep(p))
  /\ \A w \in Workers : WF_vars(Look(w)) /\ WF_vars(Serve(w)) /\ SF_vars(StealFails(w))
  /\ \A k \in Keys : WF_vars(Fire(k))
  /\ WF_vars(Retrieve)

\* A trigger that is asked again and again does not fail every time.
RetryFairness == \A w \in Workers : SF_vars(TriggerOk(w))

\* An aborted worker is sure to end when it waits for its Notify.  Its other
\* awaits may be ready at once, and then it is not cancelled there.
CancelledAsleep(w) == pc[w] = "wait" /\ Cancelled(w)

StopFairness ==
  /\ \A w \in Workers : SF_vars(CancelledAsleep(w))
  /\ SF_vars(MainLoopCancelled) /\ WF_vars(InstructionLoopCancelled)

InstructionFairness ==
  /\ \A c \in Clients : WF_vars(NotifyWaiters(c))
  /\ WF_vars(InstructionStep)

RunningSpec == Spec /\ RunFairness /\ (Failures => RetryFairness)
StoppingSpec == Spec /\ RunFairness /\ StopFairness
InstructedSpec == Spec /\ RunFairness /\ InstructionFairness

-----------------------------------------------------------------------------
(* Properties.                                                             *)

\* Every variable has its type: the queues hold work items, the store only keys
\* it has given out, and no key twice (`allocated' is what its slot map remembers
\* in the versions of its slots); a producer that has chosen a worker knows it.
TypeOK ==
  /\ policy \in Policies
  /\ process \in {"new", "running", "drained"}
  /\ store \subseteq allocated /\ allocated \subseteq Keys
  /\ ingress \in [Workers -> Seq(WorkItems)]
  /\ local \in [Workers -> Seq(WorkItems)]
  /\ global \in Seq(WorkItems)
  /\ pending \in [Workers -> BOOLEAN] /\ permit \in [Workers -> BOOLEAN]
  /\ pc \in [Workers -> WorkerStates]
  /\ hand \in [Workers -> WorkItems \cup {None}]
  /\ \A w \in Workers : pc[w] \in {"trigger", "dispatch", "run"} => hand[w] \in WorkItems
  /\ armed \in [Keys -> Nat] /\ fired \in Seq(Keys)
  /\ stage \in [Producers -> Stages]
  /\ item \in [Producers -> WorkItems \cup InstructionItems \cup {None}]
  /\ target \in [Producers -> Workers \cup {None}]
  /\ \A p \in Producers :
       /\ stage[p] = "push" => item[p] \in WorkItems
       /\ stage[p] \in {"add", "notify"} => target[p] \in Workers
       /\ stage[p] = "signal" => p \in Clients
  /\ mainLoop \in {"off", "on", "dead"} /\ instructing \in LoopStates
  /\ instructing = "cancel" => /\ stage["instruction_loop"] = "idle"
                               /\ item["instruction_loop"] \in InstructionItems
  /\ instructionQueue \in Seq(InstructionItems)
  /\ instructed \in 0 .. MaxInstructions

Searching(w) == pc[w] \notin {"off", "swap", "wait", "dead"}

\* No lost wake-up (the pending counter and the Notify of live.rs): a worker
\* sleeps on an item in its ingress only while the producer that will notify it
\* is still on its way, it never sleeps on an item in its deque, and while the
\* scheduler runs an item in the global queue, which nobody announces, has a
\* worker that will look there before it sleeps (a panic may take it away).
NoStrandedWork ==
  /\ \A w \in Workers :
       pc[w] = "wait" /\ ~permit[w] =>
         /\ local[w] = <<>>
         /\ ingress[w] # <<>> =>
              \E p \in Producers : /\ target[p] = w
                                   /\ \/ stage[p] = "notify"
                                      \/ stage[p] = "add" /\ ~pending[w]
  /\ process = "running" /\ ~Panics /\ global # <<>> => \E w \in Workers : Searching(w)

\* The bookkeeping NoStrandedWork rests on, in four parts.
\* A worker that has left its drain loop finds an item in its ingress only if
\* `pending' tells it so or the producer's fetch_add is still to come.
Announced(w) ==
  pc[w] \notin {"off", "drain", "dead"} /\ ingress[w] # <<>> =>
    pending[w] \/ \E p \in Producers : stage[p] = "add" /\ target[p] = w

\* A worker that sleeps without a permit while `pending' is set will be notified.
Notifying(w) ==
  pc[w] = "wait" /\ ~permit[w] /\ pending[w] =>
    \E p \in Producers : stage[p] = "notify" /\ target[p] = w

\* A worker looks at the global queue, and sleeps, with an empty deque.
LocalDone(w) == pc[w] \in {"global", "swap", "wait"} => local[w] = <<>>

\* A running scheduler has no dead worker, nothing has failed over before the
\* start, and a worker that is awake will look at the global queue.
GlobalWatched ==
  /\ process = "new" => global = <<>> /\ \A w \in Workers : pc[w] = "off"
  /\ process = "running" /\ ~Panics =>
       /\ \A w \in Workers : pc[w] \notin {"off", "dead"}
       /\ global # <<>> => \E w \in Workers : Searching(w)

\* The inductive invariant behind NoStrandedWork.
WakeProtocol ==
  /\ \A w \in Workers : Announced(w) /\ Notifying(w) /\ LocalDone(w)
  /\ GlobalWatched

At(q, k) == {n \in DOMAIN q : q[n].key = k}

\* The places that hold a work item or an engine entry of k.
Tokens(k) ==
  (UNION {{<<w, "ingress", n>> : n \in At(ingress[w], k)} : w \in Workers})
  \cup (UNION {{<<w, "local", n>> : n \in At(local[w], k)} : w \in Workers})
  \cup {<<"queue", "global", n>> : n \in At(global, k)}
  \cup {<<w, "hand", 0>> : w \in {x \in Workers : hand[x] # None /\ hand[x].key = k}}
  \cup {<<p, "item", 0>> : p \in {q \in Producers : stage[q] = "push" /\ item[q].key = k}}
  \cup {<<"engine", "armed", n>> : n \in 1 .. armed[k]}
  \cup {<<"engine", "fired", n>> : n \in {m \in DOMAIN fired : fired[m] = k}}

\* A task's cycle is never duplicated: whatever is stolen, failed over, fired or
\* handed over, a key has at most one item, and one more for every instruction
\* given (Reschedule and Execute each start another cycle, for good).  Without
\* instructions a task never runs concurrently with itself.
OneTokenPerCycle == \A k \in Keys : Cardinality(Tokens(k)) <= 1 + instructed

\* A task that is stored is never lost: some queue, worker or engine entry
\* still holds its item, until the scheduler is aborted (Terminate gives up a
\* failed task, see TerminatedTaskIsRemoved).
StoredTaskIsAlive ==
  process # "drained" /\ policy # "Terminate" => \A k \in store : Tokens(k) # {}

\* What the documentation says of Terminate: a task that is terminated is also
\* removed, so that a stored task still has a place in the scheduler.
TerminatedTaskIsRemoved ==
  process # "drained" /\ policy = "Terminate" => \A k \in store : Tokens(k) # {}

Running(k) == \E w \in Workers : pc[w] = "run" /\ hand[w].key = k

\* While the scheduler runs, every stored task runs again and again, until it
\* is removed: no wake-up, stealing or hand-over order starves it.
EveryStoredTaskRuns ==
  \A k \in Keys : process = "running" /\ k \in store
                    ~> Running(k) \/ k \notin store \/ process # "running"

\* What is left of a removed task (queued items, engine entries, a run in
\* progress) drains away while the scheduler runs.
RemovedTaskDrains ==
  \A k \in Keys : process = "running" /\ k \in allocated \ store
                    ~> Tokens(k) = {} \/ process # "running"

\* After abort(), or after a worker has drained the process list itself on a
\* ShutdownScheduler failover, every worker and the main loop end: whatever is
\* still queued, stolen, fired or handed over, each worker comes to its Notify.
DrainedSchedulerStops ==
  process = "drained" ~> (\A w \in Workers : pc[w] = "dead") /\ mainLoop = "dead"

\* What the comments on SchedulerHandleInstructions promise for every
\* instruction: a running scheduler takes it off the queue.
InstructionsAreServed ==
  process = "running" /\ instructionQueue # <<>>
    ~> instructionQueue = <<>> \/ process # "running"
=============================================================================
