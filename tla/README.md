# ChronoGrapher in TLA+

ChronoGrapher is a scheduling library in Rust: clients build a *Task* (a trigger that computes
the next time, a tree of *TaskFrames* that is run, and *TaskHooks* that listen to its events) and
hand it to a scheduler, which runs it again and again. This directory models the scheduler, the runs
of tasks with their frames, hooks and dependencies, the schedules, and the macros that read schedules
and workflows; it checks them with TLC on small instances and proves some of it with TLAPS for every
instance. Paths in this file are relative to the repository; `base/` is the crate that holds the
run-time system.

## 1. Inventory

| component (source) | state | operations | correct when |
|---|---|---|---|
| live scheduler (`base/src/scheduler/impls`) | store, per worker an ingress queue, a stealable FIFO deque, a counter `pending` and a `Notify`; the global queue; the process list; the instruction queue | `start`, `abort`, `schedule`, `remove`, `clear`, one loop per worker, the main loop, the instruction loop, `instruct` | no work is stranded, lost or duplicated; every stored task runs again and again; instructions are served |
| task dispatcher (`scheduler/task_dispatcher`) | a `DashMap` from keys to `Notify`s, and the shard locks inside it | `dispatch`, `cancel` | runs of a key exclude each other and end; `cancel` ends a run |
| timing wheel (`utils/timing_wheel`) | five wheels of 256 slots | `insert`, `tick`, `clear` | an entry is released once, when it is due |
| default engine (`scheduler/engine`) | command queue, wheel, result queue and its `Notify` | `schedule`, `clear`, `retrieve`, the engine's own task | what is armed comes out once, in order |
| clocks (`scheduler/clock`) | virtual time, buffered ticks, a `Notify` | `now`, `idle_to`, `tick`, `advance`, `advance_to` | sleepers wake, ticks follow the time |
| task store (`scheduler/task_store`) | sharded map of tasks | `store`, `get`, `exists`, `remove`, `clear` | a key finds the task it was given for |
| TaskHook registry (`task/hooks.rs`, `task.rs`, `task/frames.rs`) | per event and task a promoted map from type to a stack of hooks | `attach`, `detach`, `get`, `emit`, `shared`, `instruct_*` | an emission calls the newest hook of each type; a hook stays until it is detached |
| workflow frames (`task/frames/*.rs`, `task.rs`) | the threshold's counter; the stack of a run's future, its JoinSets | `run`; `execute` of retry, timeout, threshold, fallback, condition, delay, collection, selection, dependency, noop | every run ends with a result its frames promise; limits hold; no child outlives its collection |
| dependencies (`task/dependency.rs`) | countdowns, flags | `is_resolved`, `enable`, `disable`, the operators, the hooks that count | resolved exactly when the runs have happened |
| schedules (`task/schedule/*.rs`, `utils/src`) | none | interval, immediate, cron: next time; cron lexer, parser, validator | the next matching time, never the past |
| macros (`proc/src/{cron,every,workflow}*`) | none at run time | `cron!`, `every!`, `#[workflow]` | what is generated is what was written |
| builders, the other macros (`task/frame_builder.rs`, `proc/src`) | none | construction, code generation | - |

How they interact. `schedule` puts a task in the store and hands a *trigger* item to a random
worker (`assign_to_trigger_worker`: push to its ingress, `pending.fetch_add`, and `notify_one` if
it was 0). A worker drains its ingress into its deque, pops items, asks the task's trigger for the
next time and gives key and time to the engine, which queues a command. The engine's task waits
for the clock's tick, carries out the commands on the wheel, turns it and pushes the released
keys; the main loop retrieves them and hands each to a random worker as a *dispatch* item
(`spawn_task`, the same three steps). The worker that pops it runs the task through the dispatcher
and pushes a new trigger item. An error goes to `apply_failover`: retry through the global queue
(`Keep`), give up (`Terminate`), remove the task (`Deallocate`), stop everything
(`ShutdownScheduler`). A run emits `OnTaskStart`, executes the root frame and emits `OnTaskEnd`; frames
emit events of their own. An emission reads the registry once and then awaits the hooks it found, one
after the other, while others attach and detach. A frame dependency is a hook on another task's
`OnTaskEnd`. A worker without items steals from the deques of others, then from the
global queue, and goes to sleep on its `Notify`.

What is hard here: producers, workers and thieves interleave around `pending`, the permits and
`swap`; `notify_waiters` stores nothing for who listens later; a shard lock of the dispatcher's map
is held over the awaits of a run; removals, failures, panics and aborts come at any point; the
wheel computes with digits of delays and of its own position; a virtual clock is advanced while the
engine reads it. Frames nest, and a deadline, a panic or an early return drops whatever runs below
it, parallel children included; counters are read before a run and raised after it; hooks change
between an emission's reading and its calls. The search of a cron schedule turns fields of a date
forward and back until all match; texts are read twice, by macros and by `from_str`. `PROJECT.json` lists the hazards one by one, each with its line.

## 2. Modules

| module | models | remarks |
|---|---|---|
| `LiveScheduler` | `impls/live.rs`, `impls/utils/*.rs`, the store | one action per step that other threads can see |
| `TaskLifecycle` | what the scheduler promises of one task | abstract specification |
| `LiveSchedulerRefinement` | the mapping of the first to the second | `INSTANCE ... WITH` |
| `LiveSchedulerProofs` | types and wake-ups of `LiveScheduler`; its items, none duplicated, none lost; it implements `TaskLifecycle` | TLAPS |
| `TaskDispatcher`, `TaskDispatcherProofs` | `task_dispatcher/default.rs`, the shard locks, the runtime's threads | the lock over the awaits of a run |
| `TimingWheel`, `TimingWheelProofs` | `utils/timing_wheel/*.rs` for any number of levels and slots | |
| `TimedWheel`, `TimedWheelProofs` | the wheel with history variables | the firing law |
| `Recursion` | lemmas: induction over numbers, existence of functions defined by iteration | for the proofs |
| `SchedulerClock` | the virtual and the progressive clock | its proofs are part of the engine's |
| `SchedulerEngine`, `SchedulerEngineProofs` | `engine/default.rs`, composed with `SchedulerClock` (EXTENDS) and `TimingWheel` (INSTANCE) | |
| `EngineContract` | what the scheduler relies on in an engine | abstract specification |
| `HookRegistry` | `task/hooks.rs`: the promoted containers and the registry | no state machine of its own: used by |
| `WorkflowFrames`, `WorkflowFramesProofs` | `task.rs`, `task/frames/*.rs`, `task/dependency.rs` | futures as stacks of steps; the proofs cover `HookRegistry` too |
| `WorkflowResultsProofs` | the results of runs are those their frames promise; dependencies count the runs that ended | TLAPS |
| `TaskMacros` | `proc/src/workflow*` | annotation to frames |
| `CronSyntax` | `utils/src/*.rs`, `proc/src/cron.rs`, the first half of `schedule/cron.rs` | text or tokens to fields |
| `Schedules` | `schedule/*.rs`, `proc/src/every.rs` | the search for the next time |
| `MC_LiveScheduler`, `MC_TaskDispatcher` | constants and symmetry for TLC | |
| `MC_Tasks` | small workflows, client programs and annotations | |
| `MC_Schedules` | what an expression is documented to mean, and the expressions tried | reference definition |

**LiveScheduler.** `process` is the process list seen through `has_started()`. `ingress`, `local`,
`global`, `pending`, `permit` are the queues, counters (only "above zero" matters to the code) and
permits. `pc` and `hand` are where a worker is in `start_worker_process` and the item it holds.
A producer (client, main loop or instruction loop) has `stage`, `item` and `target`: the push, the
`fetch_add` and the `notify_one` are the actions `Push`, `FetchAdd`, `NotifyOne`. The worker's loop
is `DrainIngress`, `IngressEmpty`, `PopLocal` (with the look into the store), `TriggerOk`,
`Dispatch`, `RunOk`, `ApplyFailover`, `Steal`, `StealFails`, `StealGlobal`, `GlobalEmpty`,
`SwapPending`, `Notified`; `Cancelled` and `Panic` end it. The policy is a variable that never
changes, so that one run covers all four. The engine is abstract here: `armed` counts its entries,
`Fire` releases one, in any order; `SchedulerEngine` shows what the real one keeps of that. Queue
operations and read-modify-writes are atomic and seen by everyone in one order; what weakly
ordered hardware makes of the `Relaxed` orderings on `pending` is not modelled.

**TaskDispatcher.** `dispatch()` calls `entry().or_insert_with()`, whose guard moves into the
returned future: from that call to the end of the run the shard is locked (`owner`). A caller that
meets a locked shard blocks its thread (`at = "blocked"`), a run that sleeps takes no thread but
needs one to end (`ThreadFree`). `LiveScheduler` sees the same lock as `Locked`.

**TimingWheel, TimedWheel.** `Base` slots and `Levels` wheels stand for 256 and 5. `Insert`
puts an entry at the slot of its highest nonzero digit counted from that wheel's own position,
`Tick` turns level 0 and every level above a wrap, and moves what a higher level takes out one
level down. `Weight` is what a slot of a level stands for, the shift in the code. `left` and `born` in
`TimedWheel` only record; `Ticked` adds up digits and `Lateness` is what the law compares with.

**SchedulerClock, SchedulerEngine.** `notify_waiters` completes the `Notified` futures that exist
at that moment (`Listening`, `signalled`); `tick()` and `idle_to()` are split at the points where
an advance may come in between, `advance()` at its read of the time, `advance_to()` between
`fetch_max` and `notify_waiters`. The engine's loop is `EngineTicked`, `PopCommand`, `Turn`,
`NotifyResults`; `retrieve()` is `PopResult`, `NoResult`, `AwaitResult` with the gap in which a
notification is missed. What a call of `schedule()` arms is an *entry*: the engine never compares
keys, so that two calls for one key are two entries, and `Schedule` only picks a name that is free.

**HookRegistry.** An entry of the registry is the sequence of its slots, one per hook type. Its
length is the variant of the Rust enum (empty, `Single`, `Double`, `Triplet`, map), so that `promote`
and `remove` take the branch of that variant; a map is walked in any order (`Snapshots`). A slot's
`instances` are the stack of hooks of that type. `FiledUnder` and `TypeIdOf` keep apart the type id
under which `attach` files, that of `Arc<T>`, and the one that `get` and `detach` look for, that of
`T`. `filed` and `detached` are history: every hook attached to an event, in order, and every call of
`detach`; neither looks at what `remove` did.

**WorkflowFrames.** A process is a future that is polled by itself: a client, or a child that a
parallel collection has spawned. `work[p]` is the stack of what is left of it. `Exec(n)` expands to
the steps of frame n's `execute()` (`Retry`, `Timeout`, `Sequential`, `Threshold`, ...), every emission
to one `deliver` per hook found; `res[p]` is the result the last step returned. A step runs from one
await to the next. `Suspended` says where a future rests and may be dropped: in a client's frame, a sleep, a hook, or
`join_next()`. `Elapse` is a deadline: the stack down to the `timed` mark goes, and the children in
its JoinSets are aborted (`doomed`), which `Drop` completes at their next suspension. `Join` takes any
child that has ended, passes over one that panicked, and on a verdict drops the JoinSet. `Threshold`
reads the counter and `CountRun` raises it after the child; `MonitorCounts` subtracts and `StoreFlag`
raises the flag, two steps. `ended` and `overlapped` are history. Which workflow, dependencies and
clients there are is the variable `scenario`, which never changes. `ScenarioAssumption` says what Rust's
types ensure of one: a frame owns its children, as many as its kind takes, and is listed before them,
so that no frame is inside itself; a client's program consists of calls that the library offers; a
dependency is of one of the three kinds, asks for a `NonZeroU16` of runs, and its name stands for one
call that makes it, a client's and not a leaf's, which would make another at every run. A client's frame may do anything a
context allows (attach, detach, `shared`, `instruct`) and end with any result its scenario lists; time is the
order of steps, so that a sleep ends at any moment and a deadline passes at any moment.

**TaskMacros.** A workflow annotation is a sequence of primitives with argument lists; an argument has
a name (or none), the class of its expression and a value. `ParseSpec` and `Parses` are what the parsers
of `proc/src/workflow/*.rs` accept; `transform` is the chain of builder calls that is generated,
`get_type` the type that is declared for it, and `taskframe` puts the two together: where they differ,
or a primitive expands to an error, a panic or a path that does not parse (`Refuses`), nothing compiles.
Expressions of `dependency` are trees; they are written back as tokens, which `Evaluates` reads with
Rust's precedence. Names are simple identifiers (of a path the macro keeps the last name). Whether rustc
then resolves the names generated is not modelled (see section 4).

**CronSyntax, Schedules.** A text is a sequence of characters because the lexer's and the macro's
tokens differ by where they end; both are read to seven fields, validated, and turned to `CronField`s.
`Schedules` takes one request (a text, fields, the arguments of `every!`, an interval) and one instant,
and makes one step for each turn of the loop in `next_time_from`: `SkipYear`, `SkipMonth`, `SkipDay`,
`SkipHour`, `SkipMinute`, `SkipSecond`, each with the resets it makes, or `Found`. An instant has the
part of its second that has passed (`sub`), which the search keeps until it turns a field. `LastYear` is the end of the calendar, 9999 in the
code and 2033 in the run: a search that turns the year gives up long before, one that turns days runs
into it.

## 3. Runs

| run | instance | shows |
|---|---|---|
| `sched_safety` | 2 workers, 2 keys, failures, each of the 4 policies | type; `NoStrandedWork`: no worker sleeps on work unless its waker is on the way, and work in the global queue has a worker awake; `OneTokenPerCycle`: a task has at most one item; `StoredTaskIsAlive`: and at least one; `ImplementsLifecycle` |
| `sched_live` | 2 workers, 1 key, removals, failures under `Keep` | every stored task runs again and again; what is left of a removed one drains; the lifecycle with removals |
| `sched_fifo` | 1 worker, 2 keys, removals, abort | the same for two tasks that share a deque: neither starves the other |
| `sched_stop` | 2 workers, 1 key, failures under `ShutdownScheduler`, abort | whoever drains the process list, a worker that failed or a client, every worker and the main loop end |
| `sched_hostile` | 2 workers, 1 key, panics, aborts, one instruction of any kind | the wake-up protocol and the item count survive |
| `wheel` | 3 levels of 3 slots, every delay up to 29, every position | `FiringLaw`, nothing lost or repeated in the cascade |
| `clock` | virtual clock, 2 advancing threads, 1 sleeper, time up to 2 | sleepers return; ticks run ahead of the time at most by the notification race |
| `engine` | progressive clock, 2 entries, wheel of 2 x 2, 1 clear | implements `EngineContract`; every entry is retrieved or cleared although wake-ups of `retrieve()` are lost |
| `dispatch` | 4 callers, 3 keys on 2 shards, 3 threads | runs of a shard exclude each other; unless the threads are blocked for good, all calls end once nobody calls any more |
| `schedules` | 46 texts, 360 combinations of day fields and 2 field lists, from five instants; every call of `every!` with up to four of six literals and commas, and a longer one | `PlainCronFiresNext`: the search finds the first second the expression means, or none when there is none, five shapes excepted; the two readers of a text agree; `every!` reads what is written, two arrangements excepted; every search ends |
| `tasks` | 16 scenarios of up to 3 clients and 5 processes; some 11,000 annotations | results, aborts of children, thresholds, dependencies, emissions and expansions, and that every run ends (`MC_Tasks`) |
| `dispatch_halt` | violation | `cancel()` waits for the lock of the run it should end |

The bounds and why they are enough. Two workers are needed for stealing and for a sleeper beside
an awake worker; the protocol of a worker's counter and permit involves that worker and its
producers only, of which there are a client, the main loop and, in `sched_hostile`, the instruction
loop. Two keys give a batch of more than one item to steal and a queue whose order matters; one key
is enough where the question is about that task's own cycle. The queues need no bound:
`OneTokenPerCycle` keeps them short. `MaxInstructions` = 1 lets one cycle be duplicated. A fourth caller in `dispatch` lets three of
them block all three threads, whatever the fourth does. For the
wheel, 3 x 3 has a level below and a level above the middle one, digits that are zero, and delays
beyond the highest wheel (27 and more, the counterpart of 2^40 ms). `MaxTime` = 2 lets an advance
be overtaken and be counted twice. `MaxResults` bounds the result queue only while the main loop is
awake: the batch whose notification it waits for always fits. `MaxClears` bounds the clear commands
queued at one time. In `tasks`, two clients are what a race on a threshold, a registry entry or a
dependency takes, a third runs or emits beside them; four hook types reach the last promotion and
attaching and detaching go back from it; nesting two parallel collections under each policy lets an
abort pass through a level, and a deadline above a retry above a collection drops all three. Five
processes are enough for the widest scenario. The `Mixed` scenarios hold every frame the others leave
out. `OverflowChecks = FALSE` is the release build, where the monitors' `u16` wraps. In `schedules`,
the five instants include the last second of a year, a 29 February, and a day whose remaining
times are all past; the calendar is long enough for `next_time_from` to give up.
`CHECK_DEADLOCK FALSE` stands in the runs of `MC_Schedules` and `MC_Tasks`, where everything comes to its
end, in the scheduler runs, where tasks may all end by failure, removal or abort, and in those of the
dispatcher with fewer threads than callers, which really can stop. `sched_hostile` and `sched_safety` use the symmetry of workers and keys;
no liveness run does.

Fairness. Every worker, producer and loop is a tokio task, which the runtime polls whenever it is
ready: weak fairness per task. Triggers and runs end, as does everything the model says of time.
Strong fairness is used where a step is only sometimes possible: for `StealFails`, because victims
are drawn at random and a thief that always succeeds would need an endless run of lucky draws (two
workers can hand one item back and forth without popping it); where tasks fail (`Failures`), for
`TriggerOk`, because a trigger that is asked again and again does not fail every time; for a worker
that was aborted, only at its `Notify` (`CancelledAsleep`), because its other awaits may be ready at
once and then do not yield; for the main loop's abort; for `Turn`, because the command queue runs
empty again and again. Nothing is assumed of who gets the dispatcher's lock: `LiveScheduler` has weak
fairness for a worker whose lock is free, and in `TaskDispatcher` a shard that stays unlocked is taken by
one of those who wait for it, while a newcomer may overtake any of them each time (dashmap's
`RawRwLock` is no fair lock). `CallsEnd` therefore has two conditions: that threads become free again and
again, without which the callers are blocked for good (`Dispatch_threads.cfg`), and that at some time
nobody calls any more. Only `Dispatch_threads.cfg` assumes fair locks, and the task does not run even so. Clients are never fair: nobody has to schedule, remove or abort. The clock
ticks forever only in the progressive clock; nothing is assumed of who advances the virtual one. In
`tasks` every process has weak fairness: the runtime polls every future that can go on, timers fire,
and clients' frames and hooks return. Deadlines may pass but need not. In `schedules` the search is
a loop that runs.

## 4. What the model says of the code

*Wake-ups.* The order push, `fetch_add`, `notify_one` against drain, look, `swap`, `notified` is
right, also when a permit is left over or a producer is slow. `Keep` relies on the failing worker
itself, which looks at the global queue before it sleeps; nobody else is told.

*The firing law.* An entry of delay d is released `Lateness` ticks after it is due. It is on time
exactly for 1 <= d < 256. A zero digit below the highest costs a whole revolution of its wheel (a
delay of 0 fires 256 ticks late), and the part of the lower revolution that has already passed is
not counted, which lets entries fire up to one such revolution early. The second
half of `FiringLaw` bounds every wait, so that a wheel that ticks releases everything.

*Clocks.* An advance of the virtual clock that happens while the engine is between two calls of
`tick()` is seen by neither call: the wheel stays behind for good. The other way round it can run
ahead, by at most one tick for every advance but the first (`DriftBounded`). Two concurrent
`advance()` collapse into one. A key released by the wheel may wait for the next tick until the main
loop hears of it, so under a virtual clock that is not advanced again it is not retrieved.

*Dispatcher.* Runs of one key never overlap, and neither do those of two keys that share a shard.
`ARCHITECTURE.md:264` leaves it to a dispatcher whether instances of a task run concurrently or block
each other, and `:159` speaks of several instances at a time: this one blocks, and so `Execute`,
which "spawns a new instance", waits for the one that runs. A caller that waits for a shard blocks its
thread. With fewer threads than callers the blocked ones may take every thread, and the run they wait
for can never end (`Dispatch_threads.cfg`). By default there are four workers per processor on one runtime
thread per processor (`live.rs:89`), so that this is the normal case. `cancel` waits for the same lock,
and cannot end the run it is called for (`dispatch_halt`).

*Removal and instructions.* `remove` takes the task out of the store and lets its run go on; the
item left behind is dropped when a worker meets it. `Reschedule` and `Execute` add a second cycle to
a task for good.

*Stated, and not so.* Some definitions say what a reader of the documentation would expect and what
the code does not do; they stay beside their modules. Three need no run to see it.
`TerminatedTaskIsRemoved` (`LiveScheduler`): under `Terminate` a failed task stays in the store for
good, though `website/content/docs/workflows/index.mdx:118` says it is removed. `InstructionsAreServed`
(`LiveScheduler`): an instruction that arrives after the first drain of the instruction queue is never
served. `NeverEarly` (`TimedWheel`): entries of the higher wheels are released before they are due, by
less than one revolution of the wheel below. For the others a configuration makes TLC show it: (`lib.rs`,
`every.rs`, `utils.rs`, `taskframe.rs` and the files under `workflow` are of `proc/src`, `cron.rs` of
`base/src/task/schedule`, `default.rs` of the dispatcher):

| configuration | property | the documentation | the code |
|---|---|---|---|
| `Dispatch_threads.cfg` | `DispatchedTaskRuns` | `Execute` spawns a new instance (`scheduler_handle.rs:20`) | it waits for the shard, and for good when blocked callers take every thread (`default.rs:24`) |
| `Hooks_get.cfg` | `AttachedHookIsFound` | a hook exists after `attach` (`taskhook_test.rs:149`) | `get` looks under another type id (`hooks.rs:323`) |
| `Hooks_wiped.cfg` | `AttachedHookStays` | a hook gives way when it is removed (`ARCHITECTURE.md:226`) | `remove` empties an entry of one type, whatever type is asked for (`hooks.rs:308`) |
| `Cron_last.cfg` | `DocumentedCronFiresNext` | `L`: last day of month, or of week (`lib.rs:1210`) | always the last day of the month (`cron.rs:624`) |
| `Cron_list.cfg` | the same | a list matches any of its expressions (`lib.rs:1209`) | `LW` inside a list never matches (`cron.rs:118`) |
| `Cron_step.cfg` | the same | `0-30/5` (`lib.rs:1208`) | the step goes on past 30 (`cron.rs:112`) |
| `Every_fraction.cfg` | `MillisecondsAreWhole` | milliseconds have no fraction (`lib.rs:64`) | accepted (`every.rs:93`) |
| `Every_year.cfg` | `LongIntervalsAreTaken` | `every!(365d)` (`lib.rs:87`) | days end at 31 (`utils.rs:57`) |
| `Workflow_order.cfg` | `DeadlineCoversTheWorkflow` | the last `timeout` covers the entire workflow (`lib.rs:387`) | a `retry` below it wraps it (`taskframe.rs:300`) |
| `Workflow_time.cfg` | `LiteralKeepsItsUnit` | `timeout(5s)`: five seconds (`lib.rs:595`) | five hours (`utils.rs:298`) |
| `Workflow_dependency.cfg` | `ExpressionKeepsItsMeaning` | `^` is the exclusive or (`lib.rs:674`) | its parts lose their parentheses (`workflow/dependency.rs:210`) |
| `Workflow_threshold.cfg` | `ThresholdErrorsOut` | `threshold(2, error)` errors out (`lib.rs:647`) | the argument is dropped (`workflow/utils.rs:140`) |
| `Workflow_backup.cfg` | `BackupIsRun` | `condition` runs its `backup` (`lib.rs:740`) | the type declared is the backup's alone (`workflow/condition.rs:42`) |

*Hooks.* `attach()` asks the type id of its argument, which is an `Arc<T>`; `get()` and `detach()` ask
that of `T`. They never meet (`Hooks_get.cfg`): `shared()` attaches a new hook at each call, `instruct_*()`
panics, and `detach()` removes nothing, except from an entry of one type, which it empties whatever
type was asked for (`Hooks_wiped.cfg`). What an emission calls after a `detach()` is therefore left open by
`EmissionReachesTheNewest`: hooks that were attached, no two of one type; where nothing was detached it
is exactly the newest of each type.

*Frames and dependencies.* A retry waits once more after its last attempt. A parallel collection passes
over a child that panicked, and so may succeed without any child's success. A child that is aborted
emits `OnChildTaskFrameStart` without an `End`. Two overlapping runs can jump over a threshold, which is
compared with `==`; from then on it never limits again (`ThresholdHolds` excepts them). All monitors of
one kind are one hook type, so that a second dependency of that kind on a task silences the first
(`NewestDependencyCounts` is about the newest, on a task from which no hook is detached). The countdown of a monitor goes on below zero; it
raises its flag once, and in a build with overflow checks it panics instead.

*Workflow annotations.* What is generated is what was written for a workflow in minutes with named
optional arguments in the order of the signature and without parentheses or `^`
(`WorkflowIsExpandedAsWritten`), the first primitive innermost. The rest the documentation promises and the
macros do not do. The order: "everything is applied from top to bottom" may be read as what is done, but
the example's `timeout`, said to cover the entire workflow, does not cover the `retry` below it
(`Workflow_order.cfg`). Time: the parser numbers the units from the shortest and the names of the types
from the longest, so that `1s` becomes one hour, `5ms` five days and `2d` 20 milliseconds
(`Workflow_time.cfg`). Dependencies: parentheses are lost, and `^` is written out over parts without them
(`Workflow_dependency.cfg`); a metric `custom` panics in the macro, and `unresolve = custom(...)` looks for its
argument behind the parentheses. An optional argument without a name, or out of order, is dropped in
silence; `threshold`'s behaviour `error` parses by name only and expands to a path with a stray colon,
`skip` is a `todo!()` (`Workflow_threshold.cfg`). A condition with a backup declares the type of the backup
(`Workflow_backup.cfg`). `exponential` and `jitter` name constructors that the frames' crate lacks.

*Cron.* Five shapes match other values than documented, and `Plain` excepts them: a step over a range
(`Cron_step.cfg`) or inside a list, a step over `*` in a field that starts at 1, `L`, `W` or `#` inside a list,
which never match (`Cron_list.cfg`), and `L` as the day of the week, which is the last day of the month
(`Cron_last.cfg`). `32W` searches to the end of the calendar
and panics. The search gives up after turning the year three times, so that asked
on or after a 29 February it does not find the next one. `cron!` takes `6 L` for `6L`, and tokens
that are left over go to the sixth field. `every!` takes a fraction of a millisecond, which it is said not to
(`Every_fraction.cfg`), and no more than 31 days, where its documentation has 365 (`Every_year.cfg`).

## 5. Proofs

The theorems hold for every value of the constants that satisfies the named assumptions of the
module; TLC evaluates those assumptions in every run. Each invariant called inductive below was
first checked by TLC as an invariant of the corresponding run, except `PromiseInv`, which quantifies
over families of sets. Induction over data goes through `Recursion`: instead of a predicate it takes a
set, and rests on the fact that a nonempty set of numbers has a least element (`LeastElement`).

**The scheduler's wake-ups** (`LiveSchedulerProofs`: any sets of workers, keys and clients, every
policy, every set of instructions). `TypeCorrect`, `WakeProtocolHolds`, and
`NoLostWakeup`: `Spec => []NoStrandedWork`. `NoStrandedWork` is not inductive: it speaks of a sleeping
worker only, and whether a worker may go to sleep depends on what was true before. `WakeProtocol` adds:
a worker past its drain loop has an item in its ingress only if `pending` says so or the producer's
`fetch_add` is still to come (`Announced`); a sleeper without a permit whose `pending` is set has a
producer about to notify (`Notifying`); a worker reaches the global queue with an empty deque
(`LocalDone`); no worker of a running scheduler is dead, and global work has a worker that will look
there (`GlobalWatched`). Every action that changes a queue, counter, permit or `pc` is taken by itself,
the others together (`WakeQuiet`).

**The scheduler's items** (`LiveSchedulerProofs`). An item of a task is a *token*, in a queue, in a
worker's hand, in the engine or on its way between them (`Tokens(k)`). `CycleIsNotDuplicated`:
`Spec => []OneTokenPerCycle`. The inductive `TokenInv` counts tokens together with the instructions
that are queued, each of which may still turn into one, and says that a key never given out has none.
The lemmas say of every action which token it moves, makes or takes away; a move is an injection of
the tokens after into the tokens before. `StoredTaskIsNeverLost`: `~Panics => (Spec => []StoredTaskIsAlive)`, where `HandsAreFree` adds
that a worker between two items holds none. The hypothesis is real: a worker that panics takes
its item with it, so that the property does not hold with panics, and the run that checks it has
none. `NoneAssumption`: `None` is no item.

**The scheduler implements the lifecycle** (`LiveSchedulerProofs`).
`SchedulerImplementsLifecycle`: `Instructions = {} => (Spec => ImplementsLifecycle)`; with an
instruction a task may have two items at a time and is in no single stage of `TaskLifecycle`. On top
of the above, `CycleInv` needs that what a worker holds matches where it is (`HandsMatch`), that no
instruction was given (`Uninstructed`), and that a scheduler which is being drained was aborted or has
the policy that shuts it down (`DrainedForAReason`). Each action maps to one step of one task's lifecycle or to a
stutter.

**The dispatcher** (`TaskDispatcherProofs`). `TypeCorrect` and `RunsExclude`
(`Spec => []LockedWhileRunning`, through the invariant that a caller outside "idle" has a call). That calls
end is liveness and stays with TLC.

**The wheel** (`TimingWheelProofs`: any base of at least 2, any number of levels). `TypeCorrect`,
`ReleasesOnce` and `LosesNone`. `WheelInv` says that every entry lies in one slot of one level at most,
and that what the last tick released is in none. `LosesNone` is the action property that a tick
releases each entry of the wheel or keeps it, and never both: the proof follows what a cascade takes
from a level into the level below, for wraps of any number of levels at a time.

**The firing law** (`TimedWheelProofs`: any base of at least 2, any number of levels, every delay).
`WheelKeepsTheLaw`: `TimedSpec => []FiringLaw`. The law speaks of what is released and of bounds on the
rest; it is not inductive, because it does not say how long an item in the middle of the wheels will
take. `TimedInv` does (`WaitsAsLateness`): the wait of an item, computed from its level, its slot and the
hands of the wheels, is what is left of its delay plus its lateness; and what was released was
that late (`ReleasedLate`). An insertion sets up this equation (`WaitWhenInserted`), each tick takes one from
both sides, for items that stay and for items that a cascade moves down (`WaitTick`), and an item that is
released has waited to the end (`LastTick`). Below it are lemmas about sums of digits: `Ticked` of the
hands grows by one at a tick whatever wraps (`TickedTick`), is below `Weight` of its number of digits
(`TickedBound`), and is the remainder of the whole by it (`TickedRemainder`), all by induction over the
levels. TLC checked `TimedInv` with 3 levels of 3 slots and delays up to 12.

**Clock and engine** (`SchedulerEngineProofs`). `TypeCorrect`;
`DriftIsBounded`: the ticks taken, buffered and announced exceed the time at most by the advances but
one. `DriftInv` adds what the engine knows while it is inside `tick()`: that it counts from `previous`
there, and is signalled only while it waits. `EngineImplementsContract`:
`Spec => ImplementsContract`, with the invariant that no entry is armed twice, by two commands of the
queue or by one and the wheel (`ArmedInOnePlace`); the steps of the wheel come from
`TimingWheelProofs`, instantiated. `EngineAssumption` repeats the wheel's and says that `"none"` is no
entry.

**Runs and hooks** (`WorkflowFramesProofs`: any finite set of processes, any set of proper scenarios,
with and without overflow checks). `ChildrenStayOwned` (`OrphansAreAborted`), `ThresholdIsKept` (`ThresholdHolds`)
and `NewestHooksAreCalled` (`EmissionReachesTheNewest`).
`FrameInv` says that each step on a stack is about a frame of the right kind, that a process with work
left holds a value, and, of a threshold frame whose executions never overlapped, that there is at most
one mark `counts` on all stacks, below which the counter has not reached the threshold (`Limited`). Every
action but four either cuts a stack somewhere and puts steps on what is left (`UnwindStep`: what it cuts off it
aborts), or ends a process. The four that spawn, join, mark and count have lemmas of their own. `Registry` says that each entry
mirrors a part of what was attached to it (`Mirrors`, `Keeps`): one slot for each type, never empty, whose
newest instance is the one attached last; the part is all of it unless a type was detached there. `filed`
is kept apart from what `remove` does, so that this is about the code: `detach` looks for an id
that no hook is filed under (`FiledApart`), and either leaves an entry alone or empties it. Ids are given out
in order (`Numbered`), by which two attachments differ. For `NewestHooksAreCalled`: the order in which
a map is walked is an injection of a finite set to itself, hence reaches every slot, and only an
emission changes the stack of a process that is about to emit, unless it is dropped (`EmitsAlone`).

**Results of runs** (`WorkflowResultsProofs`). `RunsReturnAsPromised`:
`~OverflowChecks => (Spec => []ResultIsPromised)`. The property looks at a run when it ends; what ties
the result to the frames is spread over the stack. `PromiseInv` says that each stack is a *chain*:
between any two of its steps there is a set of results, and each step takes every result of the set
before it to one of the set after it (`Carries`). `exec` of a frame ends with one of the frame's promise, `recover` keeps a success and answers for
an error of the first child, `quit` knows that the children before it can all succeed, and the `emit` of
`OnTaskEnd` is given only what the workflow promises. A step that may panic stands on a stack only
if the stack's promise has `"panic"` (`Risky`). Cutting the top off a chain leaves one
(`ChainCut`), two that meet make one (`ChainConcat`), so that each action is about the step it
replaces: a deadline replaces `timed`, whatever was above it. Parallel children have stacks of their
own, whose chains end in the child's promise, and `Gathers` ties them to their `JoinSet`: none of them is
aborted while it lives, nobody else waits for them, and under `QuitOnFailure` every child of the frame that is
no longer in the set can pass. The hypothesis is the release build: with overflow checks a monitor that counts below zero
panics in the middle of a run, which no frame promises. That there is a function `Promised`, with the
value that each frame's definition gives it from those of its children, is proved by induction from
the last frame to the first (`PromisesDefined`): children stand after their owners. The proof corrected the property: a sequential collection whose child panics, and
a frame whose program runs a task, may panic themselves, which a parallel collection above passes over
(the scenario `Swallowed`).

**Dependencies** (`WorkflowResultsProofs`). `NewestMonitorIsExact`:
`~OverflowChecks /\ LeavesRunNothing => (Spec => []NewestDependencyCounts)`. The property looks at a
dependency only while no call of its monitor is on its way; in between, a run has ended that the counter
has not seen, or the counter has reached zero and the flag is still down. `CountInv` says what holds then.
A dependency that is about to be made is untouched (`Fresh`), and one process alone makes it. For the
newest of its kind on its task (`Watched`), the counter has seen the runs that ended except those that
still owe it a call (`Owing`); it shows what is missing until it has seen enough, and from then on the flag
is up or a process is about to raise it (`Exact`). No run owes twice: `OrderInv` says that the calls of an
emission stand above the steps that are left of the same run and no two of them call the same monitor
(`MayTop`), that only clients run tasks and call monitors, never a child that may be aborted (`Placed`), and
that a monitor is filed under the `OnTaskEnd` of its task with the hook type of its kind (`FitsIn`). An emission
calls the newest of each type once (`NewestHooksAreCalled` above), hence every watched monitor; a
dependency that is silenced by a newer one never is the newest again, since nothing
is ever removed from what was attached, and the property only speaks of tasks from which no hook was
detached. Both hypotheses are real. With overflow checks a counter at zero panics, and the flag of another
monitor in the same emission is never raised. A leaf that runs a task below a deadline may be dropped
after that run has ended and before the monitor was called, which then misses it;
`LeavesRunNothing` excludes that. TLC checked `OrderInv` and `CountInv` on the scenarios of `tasks`, which
satisfy the hypotheses, with two more whose dependencies share a task or a kind.

Only model-checked, and why:

- all liveness properties, and deadlock freedom: fairness and ENABLED are out of the prover's reach.
- `PlainCronFiresNext`, `MacroMatchesFromStr`, `EveryReadsItsLiterals` and
  `WorkflowIsExpandedAsWritten`: recursive computations over texts and trees, written with RECURSIVE
  operators (`CronSyntax`, `Schedules`, `TaskMacros`), in whose modules the prover has no SMT backend.

## 6. Not modelled, and the plan

Not modelled because nothing changes after construction: typed builders, error types, re-exports;
`#[task]`, `#[taskframe]`, `#[hook]`, `#[event]` and the entry macro, which generate `impl` blocks with
the effect of the code they wrap; tests, benchmarks and website, which are read as documentation. Left
out of modelled parts: positions and kinds of errors of the cron parser; the wording of macro errors;
what rustc makes of generated names; real numbers in backoffs and jitter (whole units here); floating
durations.

Left of the plan:

1. `SchedulerLifecycle`: `start` after `abort` (workers whose queues are taken), concurrent `start`.
2. A timed composition of engine and wheel: how late an entry is retrieved.
