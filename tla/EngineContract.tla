--------------------------- MODULE EngineContract ---------------------------
(***************************************************************************)
(* What the scheduler relies on when it uses an engine: what a call of     *)
(* schedule() arms, an entry, is released once, retrieve() returns what    *)
(* was released in that order, and a clear() takes none of the entries     *)
(* that were armed after it.                                               *)
(***************************************************************************)
EXTENDS Sequences

CONSTANT Entries

VARIABLES
  armed,   \* the entries that are scheduled and not yet released
  doomed,  \* those of them that were armed before a clear() still to take effect
  fired    \* the releases that retrieve() has not returned, oldest first

vars == <<armed, doomed, fired>>

Init == armed = {} /\ doomed = {} /\ fired = <<>>

Waiting(k) == k \in armed \/ \E n \in DOMAIN fired : k \in fired[n]

Arm(k) ==
  /\ ~Waiting(k)
  /\ armed' = armed \cup {k}
  /\ UNCHANGED <<doomed, fired>>

\* Some of the armed entries have become due, or none.
Release(ks) ==
  /\ ks \subseteq armed
  /\ armed' = armed \ ks /\ doomed' = doomed \ ks
  /\ fired' = Append(fired, ks)

Retrieve ==
  /\ fired # <<>>
  /\ fired' = Tail(fired)
  /\ UNCHANGED <<armed, doomed>>

Clear == doomed' = armed /\ UNCHANGED <<armed, fired>>

\* A clear() takes effect; of the doomed only those armed after it are left to a
\* later one.
Cancel(ks) ==
  /\ ks \subseteq doomed
  /\ armed' = armed \ ks /\ doomed' = doomed \ ks
  /\ UNCHANGED fired

Next ==
  \/ \E k \in Entries : Arm(k)
  \/ \E ks \in SUBSET armed : Release(ks) \/ Cancel(ks)
  \/ Retrieve \/ Clear

Spec == Init /\ [][Next]_vars
=============================================================================
