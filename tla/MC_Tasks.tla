------------------------------ MODULE MC_Tasks ------------------------------
(***************************************************************************)
(* Small programs of clients for WorkflowFrames.                           *)
(***************************************************************************)
EXTENDS WorkflowFrames, TaskMacros

VARIABLE source     \* a workflow annotation given to the macros

MCProcs == 1 .. 5

\* Frames of task t.
leaf(t, outs) == [kind |-> "leaf", task |-> t, acts |-> <<>>, outs |-> outs, kids |-> <<>>]
acting(t, acts) == [leaf(t, {"ok"}) EXCEPT !.acts = acts]
noop(t) == [kind |-> "noop", task |-> t, kids |-> <<>>]
wrap(t, kind, kids) == [kind |-> kind, task |-> t, kids |-> kids]
retry(t, retries, backoff, filter, kid) ==
    wrap(t, "retry", <<kid>>) @@ [retries |-> retries, backoff |-> backoff, filter |-> filter]
group(t, kind, policy, kids) == wrap(t, kind, kids) @@ [policy |-> policy]
delay(t, kid) == wrap(t, "delay", <<kid>>) @@ [delay |-> 1]
threshold(t, max, counts, reach, kid) ==
    wrap(t, "threshold", <<kid>>) @@ [threshold |-> max, counts |-> counts, reach |-> reach]
dependency(t, on, unresolve, kid) ==
    wrap(t, "dependency", <<kid>>) @@ [on |-> on, unresolve |-> unresolve]

\* Steps of a client.
Run(t) == Op("run", t, 0)
Attach(t, event, type) == Op("attach", t, [event |-> <<event>>, type |-> type])
Detach(t, event, type) == Op("detach", t, [event |-> <<event>>, type |-> type])

Program(frames, root, deps, clients) ==
    [frames |-> frames, root |-> root, deps |-> deps, clients |-> clients]

Constant == [kind |-> "constant", delay |-> 0]
Exponential == [kind |-> "exponential", factor |-> 2, max |-> 3]
Linear == [kind |-> "linear", factor |-> 2, start |-> 0, max |-> 3]
Jitter(kind) == [kind |-> kind, delay |-> 1, factor |-> 1, max |-> 1]

\* A deadline around retried parallel children, one of which may panic.
Deadline == Program(
    <<wrap("A", "timeout", <<2>>), retry("A", 1, Exponential, {TRUE}, 3),
      group("A", "parallel", "QuitOnFailure", <<4, 5>>),
      delay("A", 6), leaf("A", {"ok", "err"}), leaf("A", {"ok", "panic"})>>,
    [A |-> 1], <<>>, (1 :> <<Run("A")>>))

\* A parallel collection inside a parallel collection that quits on success.
Nested == Program(
    <<group("A", "parallel", "QuitOnSuccess", <<2, 3>>),
      group("A", "parallel", "QuitOnFailure", <<4, 5>>),
      leaf("A", {"ok", "err"}), delay("A", 6),
      acting("A", <<Op("instruct", "A", 0)>>), leaf("A", {"ok"})>>,
    [A |-> 1], <<>>, (1 :> <<Run("A")>>))

\* A child that is unwound by what runs below it, which its siblings survive.
Swallowed == Program(
    <<group("A", "parallel", "QuitOnFailure", <<2, 3>>),
      group("A", "sequential", "QuitOnFailure", <<4, 5>>), leaf("A", {"ok"}),
      leaf("A", {"ok"}), leaf("A", {"panic"})>>,
    [A |-> 1], <<>>, (1 :> <<Run("A")>>))

\* Every other frame, in one workflow.
Mixed(kind) == Program(
    <<wrap("A", "fallback", <<2, 3>>),
      group("A", "sequential", "QuitOnFailure", <<4, 5>>),
      wrap("A", "selection", <<6, 7>>),
      group("A", "sequential", "QuitOnSuccess", <<6, 7>>),
      wrap("A", "condition", <<7, 8>>),
      retry("A", 1, Jitter(kind), {TRUE, FALSE}, 9),
      retry("A", 1, Linear, {TRUE}, 9),
      noop("A"), leaf("A", {"ok", "err"})>>,
    [A |-> 1], <<>>, (1 :> <<Run("A")>>))

\* A threshold met by one client, and by two whose runs may overlap.
Limit(counts, second) == Program(
    <<threshold("A", 1, counts, "ok", 2), retry("A", 1, Constant, {TRUE}, 3),
      leaf("A", {"ok", "err"})>>,
    [A |-> 1], <<>>, (1 :> <<Run("A"), Run("A")>> @@ 2 :> second))

\* Dependencies on the runs of A, and a task B whose frame waits for them.
flagOf(d) == [op |-> "flag", d |-> d]
Watch(kinds, on) == Program(
    <<leaf("A", {"ok", "err"}), dependency("B", on, "err", 3), leaf("B", {"ok"})>>,
    [A |-> 1, B |-> 2],
    [d \in DOMAIN kinds |-> [kind |-> kinds[d], task |-> "A", value |-> 1 + (d % 2)]],
    (1 :> [d \in DOMAIN kinds |-> Op("depend", d, 0)] \o <<Run("A"), Run("A")>>
     @@ 2 :> <<Run("B"), Op("disable", 2, 0), Run("B"), Op("enable", 2, 0)>>
     @@ 3 :> <<Run("A")>>))

BothRanAndNotFailed ==
    [op |-> "and", l |-> flagOf(1),
     r |-> [op |-> "not", l |-> [op |-> "or", l |-> flagOf(2), r |-> [op |-> "external"]]]]

\* Hooks of four types come and go while runs of the task emit.
Hooks(first, second) == Program(
    <<acting("A", <<Op("shared", "A", "Counter"), Attach("A", "OnTaskEnd", "H1")>>)>>,
    [A |-> 1], <<>>, (1 :> first @@ 2 :> second @@ 3 :> <<Run("A")>>))

FourTypes == <<Attach("A", "OnTaskEnd", "H1"), Attach("A", "OnTaskEnd", "H2"),
               Attach("A", "OnTaskEnd", "H3"), Attach("A", "OnTaskEnd", "H4")>>
Retreat == <<Detach("A", "OnTaskEnd", "H2"), Attach("A", "OnTaskEnd", "H2"),
             Detach("A", "OnTaskEnd", "H1")>>

\* No clients: the state stands for a workflow's text alone.
Quiet == Program(<<>>, <<>>, <<>>, <<>>)

MCScenarios ==
    {Quiet, Deadline, Nested, Swallowed, Hooks(FourTypes, Retreat)}
    \cup {Mixed(j) : j \in {"full", "equal", "decorrelated"}}
    \cup {Limit(c, s) : c \in {"any", "ok", "err"}, s \in {<<Run("A")>>, <<>>}}
    \cup {Watch(<<"runs", "failed_runs">>, BothRanAndNotFailed),
          Watch(<<"successful_runs">>, flagOf(1))}

HookScenarios == {Hooks(FourTypes, Retreat)}
TextScenarios == {Quiet}

-----------------------------------------------------------------------------
(***************************************************************************)
(* Workflow texts: every argument list of every primitive, dependencies of *)
(* two operators, and lists of primitives.                                 *)
(***************************************************************************)
Named(name, class, val) == [name |-> name, class |-> class, val |-> val]
Given(class) == Named("", class, "1")

\* The classes tried for a primitive: one that each parameter takes, one none does.
Classes(name) ==
    {CHOOSE c \in Signature[name][i].classes \ {"linear"} :
        c = "m" \/ "m" \notin Signature[name][i].classes : i \in DOMAIN Signature[name]}
    \cup {"unknown"}

Arguments(name) ==
    [name : {""} \cup {Signature[name][i].name : i \in DOMAIN Signature[name]},
     class : Classes(name), val : {"1"}]

Primitive(name, args) == [name |-> name, args |-> args]

Calls ==
    UNION {{Primitive(name, args) :
               args \in UNION {[1 .. n -> Arguments(name)] : n \in 0 .. Len(Signature[name])}} :
           name \in DOMAIN Signature \ {"dependency"}}

\* Expressions as the parser reads them: || below && below ^ below !.
atom(metric, name) == [op |-> "atom", metric |-> metric, name |-> name]
Atomic ==
    {atom("any", "A"), atom("success", "A"), [op |-> "not", l |-> atom("failures", "B")]}
Level(e) ==
    CASE e.op = "||" -> 1 [] e.op = "&&" -> 2 [] e.op = "^" -> 3 [] e.op = "not" -> 4
      [] e.op \in {"atom", "paren"} -> 5
WellFormed(e) ==
    CASE e.op = "not" -> Level(e.l) >= 4
      [] e.op \in {"||", "&&", "^"} -> Level(e.l) >= Level(e) /\ Level(e.r) > Level(e)
      [] e.op \in {"atom", "paren"} -> TRUE
Grow(exprs) ==
    {e \in exprs \cup [op : {"&&", "||", "^"}, l : exprs, r : exprs]
               \cup [op : {"paren", "not"}, l : exprs] : WellFormed(e)}
Expressions ==
    Grow(Grow(Atomic)) \cup {atom(m, "A") : m \in {"custom", "dynamic", "function", "unknown"}}

Wait(e) == Primitive("dependency", <<Named("dep", "dependency", e), Named("unresolve", "skip", "1")>>)

WellWritten ==
    <<Primitive("retry", <<Given("int"), Named("delay", "m", "2"), Named("when", "ident", "f")>>),
      Primitive("retry", <<Named("max", "int", "0")>>),
      Primitive("retry", <<Given("int"), Named("delay", "linear",
                    <<Given("int"), Named("start", "int", "2"), Named("clamp", "int", "3")>>)>>),
      Primitive("retry", <<Given("int"), Named("delay", "linear", <<Given("unknown")>>)>>),
      Primitive("timeout", <<Given("s"), Named("on_timeout", "ident", "E")>>),
      Primitive("delay", <<Given("m")>>),
      Primitive("threshold", <<Given("int"), Named("reach_behavior", "skip", "1")>>),
      Primitive("threshold", <<Given("int"), Named("reach_behavior", "error", "1")>>),
      Primitive("fallback", <<Given("ident"), Named("", "constructor", "G()")>>),
      Primitive("fallback", <<Given("unknown")>>),
      Primitive("unknown", <<>>),
      Primitive("dependency", <<Named("dep", "dependency", atom("dynamic", "f")),
                                Named("unresolve", "call", "x")>>),
      Primitive("condition", <<Given("ident")>>),
      Wait(atom("function", "f"))>>

\* Texts out of the documentation of the macros.
TopToBottom ==
    <<Primitive("threshold", <<Given("int")>>), Primitive("timeout", <<Given("s")>>),
      Primitive("retry", <<Given("int")>>)>>
FiveSeconds == <<Primitive("timeout", <<Named("", "s", "5")>>)>>
ErrorsOut == <<Primitive("threshold", <<Given("int"), Named("", "error", "1")>>)>>

IsSource(s) ==
    \/ \E p \in Calls : s = <<p>>
    \/ \E e \in Expressions : s = <<Wait(e)>>
    \/ s \in {TopToBottom, FiveSeconds, ErrorsOut}
    \/ \E n \in 0 .. 3 : \E f \in [1 .. n -> DOMAIN WellWritten] :
            s = [i \in 1 .. n |-> WellWritten[f[i]]]

MCInit ==
    /\ Init
    /\ IF Clients = {} THEN IsSource(source) ELSE source = <<>>

MCNext == Next /\ UNCHANGED source
MCSpec ==
    /\ MCInit
    /\ [][MCNext]_<<vars, source>>
    /\ \A p \in Procs : WF_<<vars, source>>(Step(p) /\ UNCHANGED source)

\* A workflow whose arguments are in order, and named where they are optional,
\* whose dependency has no parentheses and no ^ and whose time literals are in
\* minutes is expanded to what it says, unless it is in error, when it does not
\* compile: the frames in the order written, the first around the function
\* itself and the last around all the others, each with the values it was given
\* and the dependency with its meaning (proc/workflow/).  What the antecedent
\* leaves out, and the order, are questions of the five properties below.
WorkflowIsExpandedAsWritten ==
    (\A i \in DOMAIN source :
        /\ NamedInOrder(source[i])
        /\ \A a \in Range(source[i].args) :
              /\ a.class = "dependency" => Unparenthesised(a.val)
              /\ a.class \in TimeLiteral => a.class = "m")
    => IF Erroneous(source) THEN taskframe(source) = <<>> ELSE ExpandedAsWritten(source)

\* "Everything is applied from top to bottom" (proc/lib.rs): the retry written
\* below the deadline of "the entire workflow" happens within it.
DeadlineCoversTheWorkflow ==
    source = TopToBottom =>
        LET out == taskframe(source)
            place(frame) == CHOOSE i \in DOMAIN out : out[i].frame = frame
        IN place("retry") < place("timeout")

\* timeout(5s) is a deadline of five seconds.
LiteralKeepsItsUnit == source = FiveSeconds => ExpandedAsWritten(source)

\* The operators of a dependency map to those of FrameDependency, whatever the
\* expression they are written in.
ExpressionKeepsItsMeaning ==
    \A e \in Expressions :
        source = <<Wait(e)>> /\ ~Erroneous(source) => ExpandedAsWritten(source)

\* threshold(2, error) errors out when it is tempted a third time: an error
\* behaviour reaches the frame.
ThresholdErrorsOut ==
    source = ErrorsOut =>
        \E layer \in Range(taskframe(source)) :
            \E call \in layer.sets : call.setter = "reach_behaviour"

\* A condition with a backup is a frame that has the backup to run.
BackupIsRun ==
    \A c \in {"ident", "constructor"} :
        source = <<Primitive("condition", <<Given("ident"), Named("backup", c, "1")>>)>>
            => ExpandedAsWritten(source)
=============================================================================
