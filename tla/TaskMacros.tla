----------------------------- MODULE TaskMacros -----------------------------
(***************************************************************************)
(* The workflow annotation of #[task] and #[taskframe] (proc/src/workflow, *)
(* taskframe.rs): how the list of workflow primitives is parsed and what   *)
(* chain of builder calls it expands to.  Source text is a sequence of     *)
(* primitives, [name, args]; an argument is [name, class, val], where name *)
(* is "" for a positional one and class tells what kind of expression it   *)
(* is.                                                                     *)
(***************************************************************************)
EXTENDS Naturals, Sequences, SequencesExt, FiniteSets

-----------------------------------------------------------------------------
(***************************************************************************)
(* ArgumentParser: st is what is left to parse, whether a named argument   *)
(* has been seen, whether an error was met, and the values kept so far.    *)
(***************************************************************************)
None == [name |-> "", class |-> "none", val |-> <<>>]
Parser(args) == [left |-> args, expect_named |-> FALSE, ok |-> TRUE, kept |-> <<>>]

Keep(st, arg) == [st EXCEPT !.kept = Append(@, arg)]
Fail(st) == [st EXCEPT !.ok = FALSE]

\* One argument, whose value must be of an accepted class.
parse_next(st, classes) ==
    LET arg == Head(st.left)
    IN IF \/ arg.class \notin classes
          \/ arg.name = "" /\ st.expect_named
       THEN Fail(st)
       ELSE [st EXCEPT !.left = Tail(@), !.expect_named = @ \/ arg.name # ""]

parse_required(st, expected, classes) ==
    IF st.left = <<>> THEN Fail(st)
    ELSE LET arg == Head(st.left)
             next == parse_next(st, classes)
         IN IF next.ok /\ arg.name \in {"", expected} THEN Keep(next, arg) ELSE Fail(st)

\* A parser that forgets a named argument, as the one below forgets others.
parse_optional_never(st, expected, classes) ==
    IF st.left = <<>> THEN Keep(st, None) ELSE Keep(parse_next(st, classes), None)

\* A value given by position, or under another name, is consumed and dropped.
parse_optional(st, expected, classes) ==
    IF st.left = <<>> THEN Keep(st, None)
    ELSE LET arg == Head(st.left)
         IN Keep(parse_next(st, classes), IF arg.name = expected THEN arg ELSE None)

parse_remaining(st, classes) ==
    [st EXCEPT !.left = <<>>,
               !.ok = /\ \A i \in DOMAIN st.left : st.left[i].class \in classes
                      /\ \A i, j \in DOMAIN st.left :
                            i < j /\ st.left[i].name # "" => st.left[j].name # "",
               !.kept = st.left]

(***************************************************************************)
(* The primitives: for each parameter its name, the classes of expression  *)
(* that parse and the builder's setter its value is handed to.             *)
(***************************************************************************)
Param(name, classes, setter) == [name |-> name, classes |-> classes, setter |-> setter]

\* ValueSource<T>: a literal of T or something that evaluates to one.
Source(literals) == literals \cup {"ident", "closure", "macro"}

\* The suffixes of a TimeLiteral, each a class of its own, and the unit whose
\* length the expansion multiplies by: the parser numbers the units from the
\* shortest, the type names them from the longest.
TimeLiteral == {"ms", "s", "m", "h", "d"}
to_tokens == [ms |-> "d", s |-> "h", m |-> "m", h |-> "s", d |-> "10ms"]

\* What starts with an identifier must be a known strategy, where constant(v)
\* reads as v does; a jitter parses only with a comma after its last argument;
\* anything else is an expression.
RetryDelay == TimeLiteral \cup {"immediate", "linear", "exponential", "jitter,", "closure", "int"}
LinearArguments ==
    <<Param("factor", {"int"}, "factor"), Param("start", {"int"}, "start"),
      Param("clamp", {"int"}, "clamp")>>
RetryErrorFilter == {"ident", "closure", "macro", "patterns", "!patterns"}
RetryArguments ==
    <<Param("max", Source({"int"}), "retries"), Param("delay", RetryDelay, "backoff"),
      Param("when", RetryErrorFilter, "when")>>

DelayArguments == <<Param("delay", Source(TimeLiteral), "delay")>>

OnTimeoutVariants == {"ident", "macro", "dynamic"}
TimeoutArguments ==
    <<Param("duration", Source(TimeLiteral), "duration"),
      Param("on_timeout", OnTimeoutVariants, "on_timeout")>>

ThresholdReachBehavior == {"error", "skip", "custom"}
ThresholdCountBehavior == {"identity", "successes", "failures", "custom"}
ThresholdArguments ==
    <<Param("max", Source({"int"}), "threshold"),
      Param("reach_behavior", ThresholdReachBehavior, "reach_behaviour"),
      Param("count_behavior", ThresholdCountBehavior, "count_behaviour")>>

\* A call of any name parses only with a further expression after it and no
\* comma between, and that expression is what is kept.
UnresolveBehavior == {"fail", "skip", "call value"}
DependencyArguments ==
    <<Param("dep", {"dependency"}, "dependency"),
      Param("unresolve", UnresolveBehavior, "unresolve")>>

ConditionArguments ==
    <<Param("predicate", {"ident"}, "predicate"),
      Param("backup", {"ident", "constructor"}, "fallback")>>

Signature ==
    [retry |-> RetryArguments, delay |-> DelayArguments, timeout |-> TimeoutArguments,
     threshold |-> ThresholdArguments, dependency |-> DependencyArguments,
     condition |-> ConditionArguments]

FallbackArguments(args) == parse_remaining(Parser(args), {"ident", "constructor"})

ParseArguments(sig, args) ==
    LET first == parse_required(Parser(args), sig[1].name, sig[1].classes)
        step(st, a) == IF st.ok THEN parse_optional(st, a.name, a.classes) ELSE st
    IN FoldLeft(step, first, Tail(sig))

\* Task(metric = n), dynamic(closure), or the name of a function; of a path its
\* last name is all that counts.
AtomicDependency(e) ==
    e.metric \in {"any", "success", "failures", "custom", "dynamic", "function"}

RECURSIVE TryInto(_)
TryInto(e) ==
    CASE e.op = "atom" -> AtomicDependency(e)
      [] e.op \in {"paren", "not"} -> TryInto(e.l)
      [] e.op \in {"&&", "||", "^"} -> TryInto(e.l) /\ TryInto(e.r)

\* The values that have an inside of their own.
Parses(arg) ==
    CASE arg.class = "linear" -> LET st == ParseArguments(LinearArguments, arg.val)
                                 IN st.ok /\ st.left = <<>>
      [] arg.class = "dependency" -> TryInto(arg.val)
      [] arg.class \notin {"linear", "dependency"} -> TRUE

\* What is left in the parentheses is an error of the surrounding parser.
ParsePrimitive(p) ==
    LET st == CASE p.name = "fallback" -> FallbackArguments(p.args)
                [] p.name \in DOMAIN Signature -> ParseArguments(Signature[p.name], p.args)
                [] p.name \notin DOMAIN Signature \cup {"fallback"} -> Fail(Parser(<<>>))
    IN [name |-> p.name, kept |-> st.kept,
        ok |-> st.ok /\ st.left = <<>> /\ \A i \in DOMAIN p.args : Parses(p.args[i])]

ParseSpec(list) ==
    LET parsed == [i \in DOMAIN list |-> ParsePrimitive(list[i])]
    IN [list |-> parsed, ok |-> list # <<>> /\ \A i \in DOMAIN parsed : parsed[i].ok]

-----------------------------------------------------------------------------
(***************************************************************************)
(* Dependency expressions.  The macro keeps the tree that the parser made  *)
(* of the expression but writes it back without parentheses, and the       *)
(* compiler reads & before | again.  A token is [sym, task].               *)
(***************************************************************************)
Tok(sym) == [sym |-> sym, task |-> ""]
Infix(a, op, b) == Append(a, Tok(op)) \o b

\* A macro that writes every conjunction as a disjunction.
BothTokens(a, b) == Infix(a, "|", b)

AndTokens(a, b) == Infix(a, "&", b)

\* The constructor of FrameDependency for a metric; a function or a closure is
\* itself.
TaskRunMetric == [any |-> "runs", success |-> "successful_runs", failures |-> "failed_runs",
                  dynamic |-> "dynamic", function |-> "function"]

RECURSIVE DependencyTokens(_)
DependencyTokens(e) ==
    CASE e.op = "atom" -> <<[sym |-> TaskRunMetric[e.metric], task |-> e.name]>>
      [] e.op = "paren" -> DependencyTokens(e.l)
      [] e.op = "not" -> <<Tok("!")>> \o DependencyTokens(e.l)
      [] e.op = "&&" -> AndTokens(DependencyTokens(e.l), DependencyTokens(e.r))
      [] e.op = "||" -> Infix(DependencyTokens(e.l), "|", DependencyTokens(e.r))
      [] e.op = "^" ->
           LET l == DependencyTokens(e.l)
               r == DependencyTokens(e.r)
               paren(toks) == <<Tok("(")>> \o toks \o <<Tok(")")>>
               not(toks) == <<Tok("!")>> \o toks
           IN Infix(paren(Infix(l, "&", not(r))), "|", paren(Infix(not(l), "&", r)))

\* The last place of op outside parentheses, 0 if there is none.
Depth(toks, i) ==
    Cardinality({j \in 1 .. i : toks[j].sym = "("}) - Cardinality({j \in 1 .. i - 1 : toks[j].sym = ")"})

LastOf(toks, op) ==
    LET at == {i \in DOMAIN toks : toks[i].sym = op /\ Depth(toks, i) = 0}
    IN IF at = {} THEN 0 ELSE CHOOSE i \in at : \A j \in at : j <= i

\* What the generated expression evaluates to when the dependencies in `up'
\* are resolved: BitOr, BitAnd and Not of FrameDependency.
RECURSIVE Evaluates(_, _)
Evaluates(toks, up) ==
    LET or == LastOf(toks, "|")
        and == LastOf(toks, "&")
        before(i) == SubSeq(toks, 1, i - 1)
        after(i) == SubSeq(toks, i + 1, Len(toks))
    IN CASE or # 0 -> Evaluates(before(or), up) \/ Evaluates(after(or), up)
         [] or = 0 /\ and # 0 -> Evaluates(before(and), up) /\ Evaluates(after(and), up)
         [] or = 0 /\ and = 0 /\ toks[1].sym = "!" -> ~Evaluates(after(1), up)
         [] or = 0 /\ and = 0 /\ toks[1].sym = "(" -> Evaluates(SubSeq(toks, 2, Len(toks) - 1), up)
         [] or = 0 /\ and = 0 /\ Len(toks) = 1 -> toks[1] \in up

-----------------------------------------------------------------------------
(***************************************************************************)
(* The expansion: a primitive wraps the tokens made so far into a chain of *)
(* builder calls, [frame, sets]; each frame of a fallback wraps once more. *)
(***************************************************************************)
Expanded(arg) ==
    CASE arg.class = "dependency" -> DependencyTokens(arg.val)
      [] arg.class = "immediate" -> "Duration::ZERO"
      [] arg.class = "linear" -> ParseArguments(LinearArguments, arg.val).kept
      [] arg.class \in TimeLiteral -> <<arg.val, to_tokens[arg.class]>>
      [] arg.class \notin {"dependency", "immediate", "linear"} \cup TimeLiteral -> arg.val

Setters(p) ==
    LET sig == Signature[p.name]
        call(i) == [setter |-> sig[i].setter, class |-> p.kept[i].class, val |-> Expanded(p.kept[i])]
    IN {call(i) : i \in {j \in DOMAIN sig : p.kept[j].class # "none"}}

\* Compile errors and panics of the expansion itself: retry(0), a threshold
\* that skips (a todo!()) or errors (a malformed path) and a custom metric (an
\* unreachable!()).
RECURSIVE Custom(_)
Custom(e) ==
    CASE e.op = "atom" -> e.metric = "custom"
      [] e.op \in {"paren", "not"} -> Custom(e.l)
      [] e.op \in {"&&", "||", "^"} -> Custom(e.l) \/ Custom(e.r)

Refuses(p) ==
    \/ p.name = "retry" /\ p.kept[1].class = "int" /\ p.kept[1].val = "0"
    \/ p.name = "threshold" /\ p.kept[2].class \in {"skip", "error"}
    \/ p.name = "dependency" /\ Custom(p.kept[1].val)

Layers(p) ==
    IF p.name = "fallback"
    THEN [i \in DOMAIN p.kept |->
            [frame |-> "fallback",
             sets |-> {[setter |-> "second", class |-> p.kept[i].class, val |-> p.kept[i].val]}]]
    ELSE <<[frame |-> p.name, sets |-> Setters(p)]>>

\* From the function's own frame outwards: the primitives in their order.
transform(spec) == FlattenSeq([i \in DOMAIN spec.list |-> Layers(spec.list[i])])

\* The frames of the type declared for them, around the function's own; that of
\* a condition with a backup is the type of the backup alone.
Backed(p) == p.name = "condition" /\ p.kept[2].class # "none"

get_type(spec) ==
    LET around(type, p) ==
            IF Backed(p) THEN <<p.kept[2].val>>
            ELSE type \o [i \in DOMAIN Layers(p) |-> Layers(p)[i].frame]
    IN FoldLeft(around, <<"Self">>, spec.list)

\* What compiles is the expansion whose type is the one declared; <<>> stands
\* for a compile error.
taskframe(list) ==
    LET spec == ParseSpec(list)
        init == transform(spec)
    IN IF /\ spec.ok
          /\ ~\E i \in DOMAIN spec.list : Refuses(spec.list[i])
          /\ get_type(spec) = <<"Self">> \o [i \in DOMAIN init |-> init[i].frame]
       THEN init ELSE <<>>
-----------------------------------------------------------------------------
(***************************************************************************)
(* What must hold of a workflow's text.                                    *)
(***************************************************************************)
\* An argument list that skips no argument and names all but the first.
InOrder(sig, args) ==
    /\ Len(args) \in DOMAIN sig
    /\ \A i \in DOMAIN args : args[i].name = sig[i].name \/ (i = 1 /\ args[i].name = "")

NamedInOrder(p) ==
    /\ p.name \in DOMAIN Signature => InOrder(Signature[p.name], p.args)
    /\ \A i \in DOMAIN p.args :
          p.args[i].class = "linear" => InOrder(LinearArguments, p.args[i].val)

RECURSIVE Unparenthesised(_), Atoms(_), Holds(_, _)
Unparenthesised(e) ==
    \/ e.op = "atom"
    \/ e.op = "not" /\ Unparenthesised(e.l)
    \/ e.op \in {"&&", "||"} /\ Unparenthesised(e.l) /\ Unparenthesised(e.r)

\* What each metric of a dependency is to count.
Meant == [any |-> "runs", success |-> "successful_runs", failures |-> "failed_runs",
          dynamic |-> "dynamic", function |-> "function"]

Atoms(e) ==
    CASE e.op = "atom" -> {[sym |-> Meant[e.metric], task |-> e.name]}
      [] e.op \in {"not", "paren"} -> Atoms(e.l)
      [] e.op \in {"&&", "||", "^"} -> Atoms(e.l) \cup Atoms(e.r)

\* What the expression says as it is written.
Holds(e, up) ==
    CASE e.op = "atom" -> Atoms(e) \subseteq up
      [] e.op = "paren" -> Holds(e.l, up)
      [] e.op = "not" -> ~Holds(e.l, up)
      [] e.op = "&&" -> Holds(e.l, up) /\ Holds(e.r, up)
      [] e.op = "||" -> Holds(e.l, up) \/ Holds(e.r, up)
      [] e.op = "^" -> Holds(e.l, up) # Holds(e.r, up)

\* The frames written, innermost first, each with the values it was given.
Written(list) ==
    FlattenSeq([i \in DOMAIN list |->
        IF list[i].name = "fallback"
        THEN [j \in DOMAIN list[i].args |->
                [frame |-> "fallback", vals |-> <<list[i].args[j]>>]]
        ELSE <<[frame |-> list[i].name, vals |-> list[i].args]>>])

\* A builder call hands on the value as it is, a dependency with its meaning
\* and a strategy with the arguments it was given.
HandsOn(layer, arg) ==
    \E call \in layer.sets :
        /\ call.class = arg.class
        /\ CASE arg.class = "dependency" ->
                  \A up \in SUBSET Atoms(arg.val) : Evaluates(call.val, up) = Holds(arg.val, up)
             [] arg.class = "linear" -> Range(arg.val) \subseteq Range(call.val)
             [] arg.class \in TimeLiteral -> call.val = <<arg.val, arg.class>>
             [] arg.class = "immediate" -> TRUE
             [] arg.class \notin {"dependency", "linear", "immediate"} \cup TimeLiteral ->
                  call.val = arg.val

ExpandedAsWritten(list) ==
    LET out == taskframe(list)
        written == Written(list)
    IN /\ Len(out) = Len(written)
       /\ \A i \in DOMAIN out :
            /\ out[i].frame = written[i].frame
            /\ Cardinality(out[i].sets) = Len(written[i].vals)
            /\ \A k \in DOMAIN written[i].vals : HandsOn(out[i], written[i].vals[k])

\* Texts that are in error: nothing written, an unknown primitive, a value that
\* its parameter does not take, or one of the values that no text can use.
Erroneous(list) ==
    \/ list = <<>>
    \/ \E p \in Range(list) :
        \/ p.name \notin DOMAIN Signature \cup {"fallback"}
        \/ p.name = "fallback" /\ ~FallbackArguments(p.args).ok
        \/ \E i \in DOMAIN p.args :
            \/ p.name # "fallback" /\ p.args[i].class \notin Signature[p.name][i].classes
            \/ ~Parses(p.args[i])
            \/ p.args[i].class = "dependency" /\ Custom(p.args[i].val)
            \/ p.name = "retry" /\ i = 1 /\ p.args[i].class = "int" /\ p.args[i].val = "0"
            \/ p.name = "threshold" /\ i = 2 /\ p.args[i].class \in {"skip", "error"}
            \/ p.name = "condition" /\ i = 2
=============================================================================
