----------------------------- MODULE TimedWheel -----------------------------
(***************************************************************************)
(* The timing wheel with two history variables that record when an entry   *)
(* was inserted and how long it has waited, and the exact law by which it  *)
(* misses its due time.                                                    *)
(***************************************************************************)
EXTENDS TimingWheel, Integers

VARIABLES
  left,  \* per entry: ticks left until it is due (may be negative)
  born   \* per entry: its delay, and the wheel's position at its insertion

timedVars == <<vars, left, born>>

\* The ticks that the first k digits of a number stand for, for k up to `Levels'.
Ticked(digits) ==
  LET sum[k \in 0 .. Levels] ==
        IF k = 0 THEN 0 ELSE sum[k - 1] + digits[k - 1] * Weight[k - 1]
  IN  sum

\* The number of ticks the wheel has made, as far as it can tell.
Position == Ticked(current)[Levels]

TimedInit ==
  /\ Init
  /\ left = [e \in Entries |-> 0]
  /\ born = [e \in Entries |-> [delay |-> 0, at |-> 0]]

TimedInsert(e, delay) ==
  /\ Insert(e, delay)
  /\ left' = [left EXCEPT ![e] = delay]
  /\ born' = [born EXCEPT ![e] = [delay |-> delay, at |-> Position]]

TimedTick ==
  /\ Tick
  /\ left' = [e \in Entries |-> IF Contained(e) THEN left[e] - 1 ELSE left[e]]
  /\ UNCHANGED born

TimedClear == Clear /\ UNCHANGED <<left, born>>

TimedNext ==
  \/ \E e \in Entries, delay \in 0 .. MaxDelay : TimedInsert(e, delay)
  \/ TimedTick \/ TimedClear

TimedSpec == TimedInit /\ [][TimedNext]_timedVars

-----------------------------------------------------------------------------

\* By how many ticks an entry of this delay, inserted when the wheel was at this
\* position, misses its due time: the part of the current revolution that has
\* passed is not counted, a zero digit costs a whole revolution of its wheel, and
\* what exceeds the highest wheel is cut off.
Lateness(delay, at) ==
  LET digits == Digits(delay)
      level == LevelOf(digits)
      revolutions == [i \in Level |-> IF digits[i] = 0 THEN Base ELSE 0]
      cut == delay - Ticked(digits)[Levels]
  IN  IF level = 0 /\ digits[0] = 0 THEN Base - cut
      ELSE Ticked(revolutions)[level] - (at % Weight[level]) - cut

\* The exact law of the wheel, against which its code is checked: every entry is
\* released by that many ticks after it was due, so on time exactly when its delay
\* is 1 .. Base - 1, one revolution late when it is 0, and otherwise up to one
\* revolution of the levels below early or late.  The second conjunct is a bound
\* on every entry's wait: a wheel that ticks releases it.
FiringLaw ==
  /\ \A e \in results : left[e] = - Lateness(born[e].delay, born[e].at)
  /\ \A e \in Entries : Contained(e) => left[e] > - Lateness(born[e].delay, born[e].at)

\* What ARCHITECTURE.md promises: a task is dispatched once it is due, not before.
NeverEarly == \A e \in results : left[e] <= 0
=============================================================================
