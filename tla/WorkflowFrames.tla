--------------------------- MODULE WorkflowFrames ---------------------------
(***************************************************************************)
(* Task runs: a Task's workflow of TaskFrames executed by asynchronous     *)
(* processes (base/src/task.rs, task/frames/, task/dependency.rs) on top   *)
(* of the TaskHook registry.  A process keeps the stack of what its future *)
(* still has to do; `exec' expands into what the frame's execute() does.   *)
(* A future may be dropped only where it is suspended.  The children of a  *)
(* parallel collection are processes of their own, owned by a JoinSet.     *)
(***************************************************************************)
EXTENDS HookRegistry, TLC

CONSTANTS
    Procs,          \* the futures that are spawned
    Scenarios,      \* the programs of the clients, with their workflows
    OverflowChecks  \* whether the build panics on integer overflow

(***************************************************************************)
(* The programs: a step is what to do, the frame, task or dependency it is *)
(* about, and more.  What Rust's types ensure of a program: a frame owns   *)
(* its children, as many as its kind takes, so that no frame is below      *)
(* itself and the owners can be listed first, a task owns its root, and a  *)
(* client or a client's frame does only what the library offers it.        *)
(***************************************************************************)
Op(do, on, arg) == <<do, on, arg>>
Do(op) == op[1]
On(op) == op[2]
Arg(op) == op[3]

IsSeq(s) == s \in Seq(Range(s))

Offered == {"run", "attach", "detach", "shared", "instruct", "depend", "disable", "enable"}

ProperProgram(s, ops) ==
    /\ IsSeq(ops)
    /\ \A i \in DOMAIN ops :
        /\ Do(ops[i]) \in Offered
        /\ Do(ops[i]) = "run" => On(ops[i]) \in DOMAIN s.root
        /\ Do(ops[i]) = "depend" => On(ops[i]) \in DOMAIN s.deps
        /\ Do(ops[i]) \in {"attach", "detach"} => IsSeq(Arg(ops[i]).event)

Outcomes == {"ok", "err"}

Kinds ==
    {"leaf", "noop", "delay", "fallback", "condition", "retry", "timeout", "threshold",
     "dependency", "sequential", "parallel", "selection"}

ProperFrame(s, f) ==
    /\ f.kind \in Kinds
    /\ f.kids \in Seq(DOMAIN s.frames)
    /\ f.kind \in {"timeout", "delay", "retry", "threshold", "dependency"} => Len(f.kids) = 1
    /\ f.kind \in {"fallback", "condition"} => Len(f.kids) = 2
    /\ f.kind = "leaf" => ProperProgram(s, f.acts) /\ f.outs \subseteq Outcomes \cup {"panic"}
    /\ f.kind = "threshold" => f.threshold \in Nat /\ f.reach \in Outcomes
    /\ f.kind = "dependency" => f.unresolve \in Outcomes

\* A dependency asks for a NonZeroU16 of runs; its name stands for the one
\* call that makes it, so it is made once (0 names none of them).
ProperDependency(dep) ==
    /\ dep.kind \in {"runs", "successful_runs", "failed_runs"}
    /\ dep.value \in Nat \ {0} /\ dep.value < 65536

MadeOnce(s) ==
    /\ \A n \in DOMAIN s.frames : s.frames[n].kind = "leaf" =>
        \A i \in DOMAIN s.frames[n].acts : Do(s.frames[n].acts[i]) # "depend"
    /\ \A b, c \in DOMAIN s.clients :
        \A i \in DOMAIN s.clients[b], j \in DOMAIN s.clients[c] :
            /\ Do(s.clients[b][i]) = "depend" /\ Do(s.clients[c][j]) = "depend"
            /\ On(s.clients[b][i]) = On(s.clients[c][j])
            => b = c /\ i = j

ProperDependencies(s) ==
    /\ 0 \notin DOMAIN s.deps
    /\ \A d \in DOMAIN s.deps : ProperDependency(s.deps[d])
    /\ MadeOnce(s)

ASSUME ScenarioAssumption ==
    /\ IsFiniteSet(Procs)
    /\ \A s \in Scenarios :
        /\ IsSeq(s.frames)
        /\ \A n \in DOMAIN s.frames :
            /\ ProperFrame(s, s.frames[n])
            /\ \A k \in Range(s.frames[n].kids) : k > n
        /\ ProperDependencies(s)
        /\ \A t \in DOMAIN s.root : s.root[t] \in DOMAIN s.frames
        /\ \A c \in DOMAIN s.clients : ProperProgram(s, s.clients[c])

VARIABLES
    scenario,   \* the program being run: frames, dependencies and clients
    work,       \* process -> what it still has to do, the next step first
    res,        \* process -> the result (or flag value) it holds
    doomed,     \* processes aborted by the drop of their JoinSet
    count,      \* threshold frame -> runs counted so far
    disabled,   \* dependency frames whose FrameDependency is disabled
    countdown,  \* dependency -> runs its monitor has still to see
    flag,       \* the dependencies whose monitor has raised its flag
    ended,      \* ghost: dependency -> matching runs that ended since it exists
    overlapped  \* ghost: threshold frames that two executions shared

counters == <<count, disabled, countdown, flag, ended, overlapped>>
vars == <<hookVars, scenario, work, res, doomed, counters>>

Exec(n) == Op("exec", n, 0)
EmitOp(event, task) == Op("emit", task, event)

Frames == scenario.frames
Clients == DOMAIN scenario.clients
Frame(p) == Frames[On(work[p][1])]
At(p, do) == work[p] # <<>> /\ Do(work[p][1]) = do
Executes(p, kind) == At(p, "exec") /\ Frame(p).kind = kind

\* The children a stretch of work still owns, those that have ended excepted.
JoinedIn(ops) == UNION {Arg(ops[i]) : i \in {j \in DOMAIN ops : Do(ops[j]) = "join"}}
LiveKids(ops) == {k \in JoinedIn(ops) : work[k] # <<>>}

\* Dropping a JoinSet aborts its tasks; one that has ended is not doomed.
Doom(kids) == doomed' = {q \in doomed \cup kids : work'[q] # <<>>}

\* p goes on with ops and holds result r; kids are aborted.
Leaves(p, ops, r, kids) ==
    /\ work' = [work EXCEPT ![p] = ops]
    /\ res' = [res EXCEPT ![p] = r]
    /\ Doom(kids)
    /\ UNCHANGED scenario

Proceeds(p, ops, r) == Leaves(p, ops \o Tail(work[p]), r, {})
Continues(p, ops) == Proceeds(p, ops, res[p]) /\ UNCHANGED <<hookVars, counters>>
Returns(p, r) == Proceeds(p, <<>>, r) /\ UNCHANGED <<hookVars, counters>>

\* A panic unwinds the whole future and drops what it owns.
Panics(p) == Leaves(p, <<>>, "panic", LiveKids(work[p]))

-----------------------------------------------------------------------------
(***************************************************************************)
(* Emissions and the other uses of the registry.                           *)
(***************************************************************************)
Counts(kind, r) ==
    \/ kind = "runs"
    \/ kind = "successful_runs" /\ r = "ok"
    \/ kind = "failed_runs" /\ r = "err"

OnTaskEnd == <<"OnTaskEnd">>

\* ghost: the run that ends now matters to the dependencies on its task.
Sees(p, event, task) ==
    ended' = [d \in DOMAIN ended |->
        IF /\ event = OnTaskEnd
           /\ \E h \in Range(Filed(event, task)) : h.dep = d
           /\ res[p] \in [runs |-> {"ok", "err"}, successful_runs |-> {"ok"},
                           failed_runs |-> {"err"}][scenario.deps[d].kind]
        THEN ended[d] + 1 ELSE ended[d]]

Emit(p) ==
    /\ At(p, "emit")
    /\ LET event == Arg(work[p][1])
           task == On(work[p][1])
           slots == Entry(event, task)
       IN /\ IF Unreachable(slots)
             THEN Panics(p)
             ELSE \E s \in Snapshots(slots) :
                    Proceeds(p, [i \in DOMAIN s |-> Op("deliver", task, s[i])], res[p])
          /\ Sees(p, event, task)
    /\ UNCHANGED <<hookVars, count, disabled, countdown, flag, overlapped>>

\* A monitor that compares the counter it had before.
RaisesLate(d) == countdown[d] = 0

Raises(d) == countdown[d] = 1

\* A dependency's monitor takes one from its u16 counter: the step from one
\* to zero raises the flag, in a step of its own.
MonitorCounts(p, d) ==
    /\ countdown' = [countdown EXCEPT ![d] = (@ + 65535) % 65536]
    /\ IF countdown[d] = 0 /\ OverflowChecks
       THEN Panics(p)
       ELSE Proceeds(p, IF Raises(d) THEN <<Op("store", d, 0)>> ELSE <<>>, res[p])
    /\ UNCHANGED <<hookVars, count, disabled, flag, ended, overlapped>>

Deliver(p) ==
    /\ At(p, "deliver")
    /\ LET h == Arg(work[p][1])
       IN IF h.dep # 0 /\ Counts(h.type, res[p])
          THEN MonitorCounts(p, h.dep)
          ELSE Continues(p, <<>>)

StoreFlag(p) ==
    /\ At(p, "store")
    /\ flag' = flag \cup {On(work[p][1])}
    /\ Proceeds(p, <<>>, res[p])
    /\ UNCHANGED <<hookVars, count, disabled, countdown, ended, overlapped>>

\* attach() files the hook at once and then announces it.
Files(p, event, task, hook) ==
    /\ attach(event, task, hook)
    /\ nextHook' = nextHook + 1
    /\ Proceeds(p, <<EmitOp(<<"OnHookAttach">> \o event, task)>>, res[p])

attach_hook(p) ==
    /\ At(p, "attach")
    /\ LET call == Arg(work[p][1])
       IN Files(p, call.event, On(work[p][1]), [type |-> call.type, id |-> nextHook, dep |-> 0])
    /\ UNCHANGED counters

detach_hook(p) ==
    /\ At(p, "detach")
    /\ LET call == Arg(work[p][1])
           task == On(work[p][1])
           popped == remove(Entry(call.event, task), TypeIdOf(call.type)).popped
       IN /\ detach(call.event, task, call.type)
          /\ Proceeds(p, IF popped = {} THEN <<>>
                         ELSE <<EmitOp(<<"OnHookDetach">> \o call.event, task)>>, res[p])
    /\ UNCHANGED <<nextHook, counters>>

\* shared() attaches a hook of its own unless get_hook() finds one.
shared(p) ==
    /\ At(p, "shared")
    /\ LET task == On(work[p][1])
           T == Arg(work[p][1])
       IN IF Lookup(<<"()">>, task, T) # {}
          THEN Proceeds(p, <<>>, res[p]) /\ UNCHANGED hookVars
          ELSE Files(p, <<"()">>, task, [type |-> T, id |-> nextHook, dep |-> 0])
    /\ UNCHANGED counters

\* instruct_*(): expect()s the SchedulerHandle hook of the task.
instruct(p) ==
    /\ At(p, "instruct")
    /\ IF Lookup(<<"()">>, On(work[p][1]), "SchedulerHandle") = {}
       THEN Panics(p)
       ELSE Proceeds(p, <<>>, res[p])
    /\ UNCHANGED <<hookVars, counters>>

\* FrameDependency::runs, ::successful_runs and ::failed_runs attach a monitor;
\* each of the three is one hook type, whatever the value and the call.
Depend(p) ==
    /\ At(p, "depend")
    /\ LET d == On(work[p][1])
           dep == scenario.deps[d]
       IN /\ countdown' = [countdown EXCEPT ![d] = dep.value]
          /\ Files(p, OnTaskEnd, dep.task, [type |-> dep.kind, id |-> nextHook, dep |-> d])
    /\ UNCHANGED <<count, disabled, flag, ended, overlapped>>

disable(p) ==
    /\ At(p, "disable")
    /\ disabled' = disabled \cup {On(work[p][1])}
    /\ Proceeds(p, <<>>, res[p])
    /\ UNCHANGED <<hookVars, count, countdown, flag, ended, overlapped>>

enable(p) ==
    /\ At(p, "enable")
    /\ disabled' = disabled \ {On(work[p][1])}
    /\ Proceeds(p, <<>>, res[p])
    /\ UNCHANGED <<hookVars, count, countdown, flag, ended, overlapped>>

-----------------------------------------------------------------------------
(***************************************************************************)
(* ErasedTask::run and the frames without state.                           *)
(***************************************************************************)
run(p) ==
    /\ At(p, "run")
    /\ LET task == On(work[p][1])
       IN Continues(p, <<EmitOp(<<"OnTaskStart">>, task), Exec(scenario.root[task]),
                         EmitOp(OnTaskEnd, task)>>)

\* The user's own frame: it uses its context and then returns or panics.
Enter(p) ==
    /\ Executes(p, "leaf")
    /\ Continues(p, Frame(p).acts \o <<Op("leaf", On(work[p][1]), 0)>>)

Leaf(p) ==
    /\ At(p, "leaf")
    /\ \E r \in Frame(p).outs :
        /\ IF r = "panic" THEN Panics(p) ELSE Proceeds(p, <<>>, r)
        /\ UNCHANGED <<hookVars, counters>>

NoOperation(p) == Executes(p, "noop") /\ Returns(p, "ok")

Delay(p) ==
    /\ Executes(p, "delay")
    /\ Continues(p, <<EmitOp(<<"OnDelayStart">>, Frame(p).task), Op("sleep", 0, Frame(p).delay),
                      EmitOp(<<"OnDelayEnd">>, Frame(p).task), Exec(Frame(p).kids[1])>>)

\* A sleep, or yield_now() for none: only a process that is not aborted wakes.
Wake(p) == At(p, "sleep") /\ p \notin doomed /\ Continues(p, <<>>)

Fallback(p) ==
    /\ Executes(p, "fallback")
    /\ Continues(p, <<Exec(Frame(p).kids[1]), Op("recover", On(work[p][1]), 0)>>)

Recover(p) ==
    /\ At(p, "recover")
    /\ Continues(p, IF res[p] = "ok" THEN <<>>
                    ELSE <<EmitOp(<<"OnFallback">>, Frame(p).task), Exec(Frame(p).kids[2])>>)

Condition(p) ==
    /\ Executes(p, "condition")
    /\ \/ Continues(p, <<EmitOp(<<"OnTruthyValueEvent">>, Frame(p).task), Exec(Frame(p).kids[1])>>)
       \/ Continues(p, <<EmitOp(<<"OnFalseyValueEvent">>, Frame(p).task), Exec(Frame(p).kids[2])>>)

(***************************************************************************)
(* RetriableTaskFrame: retries + 1 attempts.  It waits after every failed  *)
(* attempt that the filter accepts, the last one included.                 *)
(***************************************************************************)
Least(a, b) == IF a < b THEN a ELSE b

\* The waits a backoff strategy may compute, in whole units.
constant(s) == {s.delay}
exponential(s, retry) == {Least(s.factor ^ retry, s.max)}
linear(s, retry) == {Least(s.start * retry * s.factor, s.max)}
jitter(s) ==
    LET most == s.factor * s.delay
    IN CASE s.kind = "full" -> 0 .. most
         [] s.kind = "equal" -> most \div 2 .. most
         [] s.kind = "decorrelated" -> 0 .. Least(3 * most, s.max)

compute(s, retry) ==
    CASE s.kind = "constant" -> constant(s)
      [] s.kind = "exponential" -> exponential(s, retry)
      [] s.kind = "linear" -> linear(s, retry)
      [] s.kind \in {"full", "equal", "decorrelated"} -> jitter(s)

Retry(p) ==
    /\ Executes(p, "retry")
    /\ Continues(p, <<Op("attempt", On(work[p][1]), 0)>>)

Attempt(p) ==
    /\ At(p, "attempt")
    /\ Continues(p, <<EmitOp(<<"OnRetryAttemptStart">>, Frame(p).task), Exec(Frame(p).kids[1]),
                      EmitOp(<<"OnRetryAttemptEnd">>, Frame(p).task),
                      Op("attempted", On(work[p][1]), Arg(work[p][1]))>>)

\* A loop whose counter does not advance.
NextAttemptAnew(n, k) == IF k = Frames[n].retries THEN <<>> ELSE <<Op("attempt", n, k)>>

\* What is left of the loop after attempt k of frame n.
NextAttempt(n, k) == IF k = Frames[n].retries THEN <<>> ELSE <<Op("attempt", n, k + 1)>>

Attempted(p) ==
    /\ At(p, "attempted")
    /\ LET n == On(work[p][1])
           k == Arg(work[p][1])
       IN \/ res[p] = "ok" /\ Continues(p, <<>>)
          \/ res[p] = "err" /\ FALSE \in Frame(p).filter /\ Continues(p, <<>>)
          \/ /\ res[p] = "err" /\ TRUE \in Frame(p).filter
             /\ \E delay \in compute(Frame(p).backoff, k) :
                  Continues(p, <<Op("sleep", 0, delay)>> \o NextAttempt(n, k))

-----------------------------------------------------------------------------
(***************************************************************************)
(* TimeoutTaskFrame: the child is dropped where it is suspended, with      *)
(* everything it owns.                                                     *)
(***************************************************************************)
Timeout(p) ==
    /\ Executes(p, "timeout")
    /\ Continues(p, <<Exec(Frame(p).kids[1]), Op("timed", On(work[p][1]), 0)>>)

InTime(p) == At(p, "timed") /\ Continues(p, <<>>)

Suspended(p) ==
    \/ At(p, "leaf") \/ At(p, "sleep") \/ At(p, "deliver")
    \/ At(p, "join") /\ LiveKids(work[p]) = Arg(work[p][1])

\* A drop that leaves the children of the dropped frame running.
AbortedByNone(p, i) == {}

\* What the expiry of the deadline at position i of p's work aborts.
AbortedBy(p, i) == LiveKids(SubSeq(work[p], 1, i))

Elapse(p) ==
    /\ p \notin doomed /\ Suspended(p)
    /\ \E i \in DOMAIN work[p] :
        /\ Do(work[p][i]) = "timed"
        /\ Leaves(p, <<EmitOp(<<"OnTimeout">>, Frames[On(work[p][i])].task)>>
                       \o SubSeq(work[p], i + 1, Len(work[p])), "err", AbortedBy(p, i))
    /\ UNCHANGED <<hookVars, counters>>

(***************************************************************************)
(* ThresholdTaskFrame: reads the counter, runs the child, then adds.       *)
(***************************************************************************)
\* A limit that is noticed one run late.
ReachedLate(n) == count[n] > Frames[n].threshold

Reached(n) == count[n] = Frames[n].threshold

\* The processes in the middle of frame n.
Inside(n) == {q \in Procs : \E i \in DOMAIN work[q] : Do(work[q][i]) = "counts" /\ On(work[q][i]) = n}

Threshold(p) ==
    /\ Executes(p, "threshold")
    /\ LET n == On(work[p][1])
       IN IF Reached(n)
          THEN Returns(p, Frame(p).reach)
          ELSE /\ Proceeds(p, <<Exec(Frame(p).kids[1]), Op("counts", n, 0)>>, res[p])
               /\ overlapped' = IF Inside(n) = {} THEN overlapped ELSE overlapped \cup {n}
               /\ UNCHANGED <<hookVars, count, disabled, countdown, flag, ended>>

\* The three counting logics: every run, the successes, the errors.
Counted(logic, r) == logic \in {"any", r}

CountRun(p) ==
    /\ At(p, "counts")
    /\ count' = [count EXCEPT ![On(work[p][1])] =
                   IF Counted(Frame(p).counts, res[p]) THEN @ + 1 ELSE @]
    /\ Proceeds(p, <<>>, res[p])
    /\ UNCHANGED <<hookVars, disabled, countdown, flag, ended, overlapped>>

(***************************************************************************)
(* DependencyTaskFrame: FrameDependency::is_resolved loads the disabled    *)
(* flag and then the monitors' flags one by one, left to right.            *)
(***************************************************************************)
Dependency(p) ==
    /\ Executes(p, "dependency")
    /\ LET n == On(work[p][1])
           rest == <<EmitOp(<<"OnDependencyValidation">>, Frame(p).task), Op("resolve", n, 0)>>
       IN IF n \in disabled
          THEN /\ Proceeds(p, rest, "false")
               /\ UNCHANGED <<hookVars, counters>>
          ELSE Continues(p, <<Op("eval", n, Frame(p).on)>> \o rest)

is_resolved(p) ==
    /\ At(p, "eval")
    /\ LET e == Arg(work[p][1])
           n == On(work[p][1])
       IN \/ e.op = "flag" /\ Returns(p, IF e.d \in flag THEN "true" ELSE "false")
          \/ e.op = "external" /\ \E b \in {"true", "false"} : Returns(p, b)
          \/ e.op = "not" /\ Continues(p, <<Op("eval", n, e.l), Op("negate", n, 0)>>)
          \/ /\ e.op \in {"and", "or"}
             /\ Continues(p, <<Op("eval", n, e.l), Op(e.op, n, e.r)>>)

\* && and || do not look at the second operand if the first one decides.
Combine(p) ==
    \/ /\ At(p, "and") \/ At(p, "or")
       /\ Continues(p, IF (At(p, "and") <=> res[p] = "true")
                       THEN <<Op("eval", On(work[p][1]), Arg(work[p][1]))>> ELSE <<>>)
    \/ At(p, "negate") /\ Returns(p, IF res[p] = "true" THEN "false" ELSE "true")

Resolve(p) ==
    /\ At(p, "resolve")
    /\ IF res[p] = "true"
       THEN Continues(p, <<Exec(Frame(p).kids[1])>>)
       ELSE Returns(p, Frame(p).unresolve)

-----------------------------------------------------------------------------
(***************************************************************************)
(* CollectionTaskFrame and its strategies.                                 *)
(***************************************************************************)
\* The two policies in each other's place.
should_quit_swapped(policy, r) ==
    CASE policy = "QuitOnFailure" /\ r = "ok" -> "ok"
      [] policy = "QuitOnSuccess" /\ r = "err" -> "err"
      [] OTHER -> "skip"

should_quit(policy, r) ==
    CASE policy = "QuitOnSuccess" /\ r = "ok" -> "ok"
      [] policy = "QuitOnFailure" /\ r = "err" -> "err"
      [] OTHER -> "skip"

\* CollectionTaskFrameHandle::execute and the body of a spawned child.
Child(n, i) ==
    <<EmitOp(<<"OnChildTaskFrameStart">>, Frames[n].task), Exec(Frames[n].kids[i]),
      EmitOp(<<"OnChildTaskFrameEnd">>, Frames[n].task)>>

Sequential(p) ==
    /\ Executes(p, "sequential")
    /\ Continues(p, <<Op("next", On(work[p][1]), 1)>>)

NextChild(p) ==
    /\ At(p, "next")
    /\ LET n == On(work[p][1])
           i == Arg(work[p][1])
       IN IF i > Len(Frame(p).kids) THEN Returns(p, "ok")
          ELSE Continues(p, Child(n, i) \o <<Op("quit", n, i)>>)

QuitOrNext(p) ==
    /\ At(p, "quit")
    /\ LET verdict == should_quit(Frame(p).policy, res[p])
       IN IF verdict = "skip"
          THEN Continues(p, <<Op("next", On(work[p][1]), Arg(work[p][1]) + 1)>>)
          ELSE Returns(p, verdict)

\* The accessor may name an index that the collection does not have.
Selection(p) ==
    /\ Executes(p, "selection")
    /\ \/ \E i \in DOMAIN Frame(p).kids : Continues(p, Child(On(work[p][1]), i))
       \/ Returns(p, "err")

Idle == {q \in Procs \ Clients :
            /\ work[q] = <<>>
            /\ \A r \in Procs : q \notin JoinedIn(work[r])}

Parallel(p) ==
    /\ Executes(p, "parallel")
    /\ LET n == On(work[p][1])
           kids == Frame(p).kids
           procs == SetToSeq(Idle)
           spawned == {procs[i] : i \in DOMAIN kids}
       IN IF kids = <<>> THEN Returns(p, "ok")
          ELSE /\ Len(procs) >= Len(kids)
               /\ work' = [q \in Procs |->
                    IF q = p THEN <<Op("join", n, spawned)>> \o Tail(work[p])
                    ELSE IF q \in spawned
                    THEN Child(n, CHOOSE i \in DOMAIN kids : procs[i] = q)
                    ELSE work[q]]
               /\ res' = [q \in Procs |-> IF q \in spawned THEN "ok" ELSE res[q]]
               /\ UNCHANGED <<hookVars, counters, doomed, scenario>>

\* join_next(): a child that panicked is a join error and is passed over; a
\* return drops the JoinSet.
Join(p) ==
    /\ At(p, "join") /\ p \notin doomed
    /\ LET kids == Arg(work[p][1])
           joins(left) == <<Op("join", On(work[p][1]), left)>>
       IN \/ kids = {} /\ Returns(p, "ok")
          \/ \E k \in kids :
               LET verdict == should_quit(Frame(p).policy, res[k])
               IN /\ work[k] = <<>>
                  /\ IF verdict = "skip" THEN Continues(p, joins(kids \ {k}))
                     ELSE /\ Leaves(p, Tail(work[p]), verdict, LiveKids(<<work[p][1]>>))
                          /\ UNCHANGED <<hookVars, counters>>

\* An aborted process is dropped at its next suspension at the latest.
Drop(p) ==
    /\ p \in doomed
    /\ Leaves(p, <<>>, "dropped", LiveKids(work[p]))
    /\ UNCHANGED <<hookVars, counters>>

-----------------------------------------------------------------------------
Init ==
    /\ InitHooks
    /\ scenario \in Scenarios
    /\ work = [p \in Procs |-> IF p \in Clients THEN scenario.clients[p] ELSE <<>>]
    /\ res = [p \in Procs |-> "ok"]
    /\ doomed = {}
    /\ count = [n \in DOMAIN Frames |-> 0]
    /\ disabled = {}
    /\ countdown = [d \in DOMAIN scenario.deps |-> 0]
    /\ flag = {}
    /\ ended = [d \in DOMAIN scenario.deps |-> 0]
    /\ overlapped = {}

HookStep(p) ==
    \/ Emit(p) \/ Deliver(p) \/ StoreFlag(p) \/ attach_hook(p) \/ detach_hook(p)
    \/ shared(p) \/ instruct(p) \/ Depend(p) \/ disable(p) \/ enable(p)

FrameStep(p) ==
    \/ run(p) \/ Enter(p) \/ Leaf(p) \/ NoOperation(p) \/ Delay(p) \/ Wake(p)
    \/ Fallback(p) \/ Recover(p) \/ Condition(p) \/ Retry(p) \/ Attempt(p) \/ Attempted(p)
    \/ Timeout(p) \/ InTime(p) \/ Threshold(p) \/ CountRun(p)
    \/ Dependency(p) \/ is_resolved(p) \/ Combine(p) \/ Resolve(p)
    \/ Sequential(p) \/ NextChild(p) \/ QuitOrNext(p) \/ Selection(p)
    \/ Parallel(p) \/ Join(p)

Step(p) == HookStep(p) \/ FrameStep(p) \/ Drop(p)

Next == \E p \in Procs : Step(p) \/ Elapse(p)

\* The runtime polls every future that can go on; whether a deadline passes
\* first is left open.
Spec == Init /\ [][Next]_vars /\ \A p \in Procs : WF_vars(Step(p))

-----------------------------------------------------------------------------
(***************************************************************************)
(* What must hold.                                                         *)
(***************************************************************************)
\* Whatever the container has been promoted through, an emission calls hooks
\* that were attached to that event of that task, no two of one type, and
\* unless a type has been detached there, of each type the instance attached
\* last (hooks.rs, promote and emit).
EmissionReachesTheNewest ==
    [][\A p \in Procs :
        At(p, "emit") /\ work'[p] # work[p] /\ res'[p] = res[p] =>
            LET event == Arg(work[p][1])
                task == On(work[p][1])
                before == Len(work[p]) - 1
                steps == SubSeq(work'[p], 1, Len(work'[p]) - before)
                called == Range([i \in DOMAIN steps |-> Arg(steps[i])])
            IN /\ called \subseteq Range(Filed(event, task))
               /\ \A i, j \in DOMAIN steps : Arg(steps[i]).type = Arg(steps[j]).type => i = j
               /\ Untouched(event, task) => called = NewestOfEachType(Filed(event, task))]_vars

\* A child of a parallel collection runs on only under a JoinSet that lives
\* or as a task that is being aborted: no early return, panic, deadline or
\* drop of an ancestor lets it loose (collectionframe.rs, execute).
OrphansAreAborted ==
    \A k \in Procs \ Clients :
        work[k] # <<>> => k \in doomed \/ \E p \in Procs : k \in JoinedIn(work[p])

\* As long as no two executions of a threshold frame overlap, it counts no
\* run beyond its threshold (thresholdframe.rs, execute); two that overlap can
\* jump over the value it is compared with.
ThresholdHolds ==
    \A n \in DOMAIN Frames :
        Frames[n].kind = "threshold" /\ n \notin overlapped => count[n] <= Frames[n].threshold

\* No part of dependency d's monitor is on its way.
Settled(d) ==
    \A p \in Procs : \A i \in DOMAIN work[p] :
        /\ Do(work[p][i]) = "deliver" => Arg(work[p][i]).dep # d
        /\ Do(work[p][i]) = "store" => On(work[p][i]) # d

Monitors(d) ==
    {h \in Range(Filed(OnTaskEnd, scenario.deps[d].task)) : h.dep = d}

\* The dependency attached last of its kind on a task, from which nobody has
\* detached a hook, is resolved exactly when as many matching runs have ended as
\* it asks for, whoever ran the task and however the counter wraps
\* (dependency.rs, impl_monitor_based_dependency).
NewestDependencyCounts ==
    \A d \in DOMAIN scenario.deps :
        /\ Settled(d)
        /\ Untouched(OnTaskEnd, scenario.deps[d].task)
        /\ Monitors(d) # {}
        /\ Monitors(d) \subseteq NewestOfEachType(Filed(OnTaskEnd, scenario.deps[d].task))
        => (d \in flag <=> ended[d] >= scenario.deps[d].value)

(***************************************************************************)
(* What each frame promises of its result, from what its children promise. *)
(***************************************************************************)
Instructs(leaf) == \E i \in DOMAIN leaf.acts : Do(leaf.acts[i]) = "instruct"

\* The ends of a child that do not make its collection fail.
Passes(kind) == IF kind = "parallel" THEN {"ok", "panic"} ELSE {"ok"}

Runs(leaf) == \E i \in DOMAIN leaf.acts : Do(leaf.acts[i]) = "run"

PromiseOf(f, of) ==
    LET kid(i) == of[f.kids[i]]
        all == UNION {kid(i) : i \in DOMAIN f.kids}
    IN CASE f.kind = "noop" -> {"ok"}
         [] f.kind = "leaf" /\ Instructs(f) -> {"panic"}
         [] f.kind = "leaf" /\ ~Instructs(f) -> f.outs \cup (IF Runs(f) THEN {"panic"} ELSE {})
         [] f.kind \in {"retry", "delay", "condition"} -> all
         [] f.kind = "timeout" -> all \cup {"err"}
         [] f.kind = "fallback" ->
              (kid(1) \ {"err"}) \cup (IF "err" \in kid(1) THEN kid(2) ELSE {})
         [] f.kind = "threshold" -> all \cup {f.reach}
         [] f.kind = "dependency" -> all \cup {f.unresolve}
         [] f.kind \in {"sequential", "parallel"} /\ f.policy # "QuitOnFailure" ->
              {"ok"} \cup (all \ (Passes(f.kind) \cup {"err"}))
         [] f.kind \in {"sequential", "parallel"} /\ f.policy = "QuitOnFailure" ->
              (all \ Passes(f.kind)) \cup
              (IF \A i \in DOMAIN f.kids : kid(i) \cap Passes(f.kind) # {}
               THEN {"ok"} ELSE {})
         [] f.kind = "selection" -> all \cup {"err"}

PromisedBy(s) ==
    LET of[n \in DOMAIN s.frames] == PromiseOf(s.frames[n], of)
    IN of

Promised == PromisedBy(scenario)

\* A run ends with a result that its workflow promises: an error is neither
\* lost by a frame that must hand it on nor made up by one that must not,
\* through retries, deadlines, aborted children and skipped panics.
ResultIsPromised ==
    \A p \in Procs :
        At(p, "emit") /\ Arg(work[p][1]) = OnTaskEnd =>
            res[p] \in Promised[scenario.root[On(work[p][1])]]

\* Every client comes to the end of its program, and every child of a
\* parallel collection ends or is dropped: nobody waits for a child that
\* panicked, was aborted or will never be polled again.
EveryRunEnds == \A p \in Procs : []<>(work[p] = <<>>)

\* get_hook() finds a hook that has been attached to the task and whose type
\* nobody has detached since.
AttachedHookIsFound ==
    \A key \in DOMAIN filed : \A h \in Range(filed[key]) :
        NotDetached(key, h) => Lookup(key[1], key[2], h.type) # {}

\* To detach one hook type leaves the others as they are: a hook whose own type
\* nobody has detached since is still in the registry.
AttachedHookStays ==
    \A key \in DOMAIN filed : \A h \in Range(filed[key]) :
        NotDetached(key, h) =>
            \E i \in DOMAIN registry[key] : h \in Range(registry[key][i].instances)
=============================================================================
