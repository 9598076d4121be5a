---------------------------- MODULE HookRegistry ----------------------------
(***************************************************************************)
(* The global registry of TaskHooks (base/src/task/hooks.rs): for every    *)
(* pair of an event and a task, the hook types attached to it and, for     *)
(* each type, the history of its instances.  The container grows from      *)
(* Empty over Single, Double and Triplet to a HashMap; here it is the      *)
(* sequence of its slots, whose length names the variant, and the map      *)
(* (four slots or more) is walked in any order.                            *)
(***************************************************************************)
EXTENDS Naturals, Sequences, SequencesExt, FiniteSets

VARIABLES
    registry,   \* <<event, task>> -> slots, for the pairs that have an entry
    nextHook,   \* the next hook instance that a client creates
    filed,      \* ghost: <<event, task>> -> every instance attached, in order
    detached    \* ghost: the calls of detach(), and how many hooks there were

hookVars == <<registry, nextHook, filed, detached>>

(***************************************************************************)
(* TypeId.  attach() asks its argument, an Arc, for its type: the id it    *)
(* files under is that of Arc<T>.  get() and detach() ask for T itself.    *)
(***************************************************************************)
TypeIdOf(T) == <<"T", T>>

FiledUnder(hook) == <<"Arc", hook.type>>

-----------------------------------------------------------------------------
(***************************************************************************)
(* TaskHookInstances: the instances of one type, oldest first.             *)
(***************************************************************************)
push(instances, hook) == Append(instances, hook)

\* An implementation that keeps serving the instance that came first.
get_first(instances) == Head(instances)

get(instances) == Last(instances)

pop(instances) == Front(instances)

(***************************************************************************)
(* TaskHooksPromotion.                                                     *)
(***************************************************************************)
SlotsOf(slots, id) == {i \in DOMAIN slots : slots[i].id = id}

promote(slots, id, hook) ==
    IF SlotsOf(slots, id) = {}
    THEN Append(slots, [id |-> id, instances |-> <<hook>>])
    ELSE [i \in DOMAIN slots |->
            IF slots[i].id = id
            THEN [slots[i] EXCEPT !.instances = push(@, hook)] ELSE slots[i]]

\* The set of what fetch() returns: empty for None.
fetch(slots, id) == {get(slots[i].instances) : i \in SlotsOf(slots, id)}

\* remove(): an entry of at most one type is emptied, whatever type is asked
\* for; of two or three the newest instance goes, and a slot found empty goes
\* only then; the map loses the whole slot.
remove(slots, id) ==
    LET at == SlotsOf(slots, id)
        i == CHOOSE j \in at : TRUE
    IN CASE Len(slots) <= 1 -> [slots |-> <<>>, popped |-> {}]
         [] Len(slots) > 1 /\ at = {} -> [slots |-> slots, popped |-> {}]
         [] Len(slots) \in {2, 3} /\ at # {} ->
              IF slots[i].instances = <<>>
              THEN [slots |-> RemoveAt(slots, i), popped |-> {}]
              ELSE [slots |-> [slots EXCEPT ![i].instances = pop(@)],
                    popped |-> {get(slots[i].instances)}]
         [] Len(slots) > 3 /\ at # {} ->
              [slots |-> RemoveAt(slots, i), popped |-> {get(slots[i].instances)}]

\* The instances one emission will call, one after the other: the newest of
\* each type.  get() on a slot without instances is unreachable!().
Snapshots(slots) ==
    LET order == IF Len(slots) > 3
                 THEN {o \in [DOMAIN slots -> DOMAIN slots] : IsInjective(o)}
                 ELSE {[i \in DOMAIN slots |-> i]}
    IN {[i \in DOMAIN slots |-> get(slots[o[i]].instances)] : o \in order}

Unreachable(slots) == \E i \in DOMAIN slots : slots[i].instances = <<>>

-----------------------------------------------------------------------------
(***************************************************************************)
(* TaskHookContainer.                                                      *)
(***************************************************************************)
Entry(event, task) ==
    IF <<event, task>> \in DOMAIN registry THEN registry[<<event, task>>] ELSE <<>>

Filed(event, task) ==
    IF <<event, task>> \in DOMAIN filed THEN filed[<<event, task>>] ELSE <<>>

Put(f, key, value) == [k \in DOMAIN f \cup {key} |-> IF k = key THEN value ELSE f[k]]

attach(event, task, hook) ==
    /\ registry' = Put(registry, <<event, task>>,
                       promote(Entry(event, task), FiledUnder(hook), hook))
    /\ filed' = Put(filed, <<event, task>>, Append(Filed(event, task), hook))
    /\ UNCHANGED detached

Lookup(event, task, T) == fetch(Entry(event, task), TypeIdOf(T))

\* What detach() does before it emits OnHookDetach.
detach(event, task, T) ==
    /\ registry' = IF <<event, task>> \in DOMAIN registry
                   THEN [registry EXCEPT ![<<event, task>>] =
                            remove(@, TypeIdOf(T)).slots]
                   ELSE registry
    /\ detached' = detached \cup {[key |-> <<event, task>>, type |-> T, before |-> nextHook]}
    /\ UNCHANGED filed

InitHooks ==
    /\ registry = << >>
    /\ nextHook = 1
    /\ filed = << >>
    /\ detached = {}

(***************************************************************************)
(* What an emission promises: of each type attached for the event and      *)
(* task, the instance attached last, once.  What is left when a type has   *)
(* been detached is a question of its own.                                 *)
(***************************************************************************)
NewestOfEachType(history) ==
    {h \in Range(history) :
        \A i, j \in DOMAIN history :
            history[i] = h /\ history[j].type = h.type => j <= i}

Untouched(event, task) == \A d \in detached : d.key # <<event, task>>

\* Nobody has detached the type of hook h since it was attached.
NotDetached(key, h) ==
    ~\E d \in detached : d.key = key /\ d.type = h.type /\ h.id < d.before
=============================================================================
