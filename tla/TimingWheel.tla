---------------------------- MODULE TimingWheel ----------------------------
(***************************************************************************)
(* The hierarchical timing wheel of the default engine                     *)
(* (base/src/utils/timing_wheel): `Levels' wheels of `Base' slots, 5 of    *)
(* 256 in the code.  An entry is put in the wheel of the highest nonzero   *)
(* digit of its delay, counted from that wheel's current slot, and moves   *)
(* down one wheel whenever its slot comes up, until level 0 releases it.   *)
(***************************************************************************)
EXTENDS Naturals, FiniteSets

CONSTANTS
  Base,      \* the slots of one wheel
  Levels,    \* the number of wheels
  Entries,   \* the values that can be in the wheel
  MaxDelay   \* bound on the delays that are inserted

ASSUME WheelAssumption ==
  /\ Base \in Nat \ {0, 1} /\ Levels \in Nat \ {0}
  /\ MaxDelay \in Nat

VARIABLES
  current,  \* per level: the current slot
  slots,    \* per level and slot: the entries, each with its delay's digits
  results   \* what the last tick() returned

vars == <<current, slots, results>>

Level == 0 .. Levels - 1
Slot == 0 .. Base - 1
\* The ticks that one slot of level i stands for.
Weight[i \in Nat] == IF i = 0 THEN 1 ELSE Base * Weight[i - 1]

\* Mutant: the digits are not cut to a byte.
DigitsUncut(delay) == [i \in Level |-> delay \div Weight[i]]
Digits(delay) == [i \in Level |-> (delay \div Weight[i]) % Base]
Item == [value : Entries, digits : [Level -> Slot]]

Contained(e) == \E i \in Level, s \in Slot : \E x \in slots[i][s] : x.value = e

Init ==
  /\ current = [i \in Level |-> 0]
  /\ slots = [i \in Level |-> [s \in Slot |-> {}]]
  /\ results = {}

\* The level of the highest nonzero digit, 0 if there is none.
LevelOf(digits) ==
  LET nonzero == {i \in Level : digits[i] # 0}
  IN  IF nonzero = {} THEN 0 ELSE CHOOSE i \in nonzero : \A j \in nonzero : j <= i

Insert(e, delay) ==
  /\ ~Contained(e)
  /\ LET digits == Digits(delay)
         level == LevelOf(digits)
         slot == (current[level] + digits[level]) % Base
     IN  slots' = [slots EXCEPT ![level][slot] = @ \cup {[value |-> e, digits |-> digits]}]
  /\ results' = results \ {e}
  /\ UNCHANGED current

\* Level i ticks when every level below it wraps to slot 0.
Ticks(i) == \A j \in Level : j < i => current[j] = Base - 1

Advanced(i) == IF Ticks(i) THEN (current[i] + 1) % Base ELSE current[i]

\* What level i takes out of its wheel in this tick.
Expired(i) == IF i \in Level /\ Ticks(i) THEN slots[i][Advanced(i)] ELSE {}

\* Mutants: the slot is not emptied; an entry is moved from where level i was
\* before this tick; an entry with nothing left on level i is dropped.
EmptiedNever(i, s) == {}
MovedBeforeTick(i, s) ==
  {x \in Expired(i + 1) : (current[i] + x.digits[i]) % Base = s}
MovedNonzero(i, s) ==
  {x \in Expired(i + 1) : x.digits[i] # 0 /\ (Advanced(i) + x.digits[i]) % Base = s}

Emptied(i, s) == IF s = Advanced(i) THEN Expired(i) ELSE {}

\* What level i + 1 has taken out and puts into slot s of level i, which has
\* already advanced.
Moved(i, s) ==
  {x \in Expired(i + 1) : (Advanced(i) + x.digits[i]) % Base = s}

Tick ==
  /\ current' = [i \in Level |-> Advanced(i)]
  /\ slots' = [i \in Level |-> [s \in Slot |->
                (slots[i][s] \ Emptied(i, s)) \cup Moved(i, s)]]
  /\ results' = {x.value : x \in Expired(0)}

Clear ==
  /\ current' = [i \in Level |-> 0]
  /\ slots' = [i \in Level |-> [s \in Slot |-> {}]]
  /\ results' = {}

Next ==
  \/ \E e \in Entries, delay \in 0 .. MaxDelay : Insert(e, delay)
  \/ Tick \/ Clear

Spec == Init /\ [][Next]_vars

-----------------------------------------------------------------------------

TypeOK ==
  /\ current \in [Level -> Slot]
  /\ slots \in [Level -> [Slot -> SUBSET Item]]
  /\ results \in SUBSET Entries

\* The places of an entry: level, slot and digits.
Places(e) ==
  {p \in Level \X Slot \X [Level -> Slot] :
     [value |-> e, digits |-> p[3]] \in slots[p[1]][p[2]]}

\* Cascading neither loses nor duplicates an entry: a tick that takes an entry
\* out of the wheel returns it, a tick that leaves it in does not, and it is
\* never in two slots.
ReleasedExactlyOnce ==
  /\ \A e \in Entries : Cardinality(Places(e)) <= 1
  /\ \A e \in results : ~Contained(e)

NoEntryLost ==
  [][Tick => \A e \in Entries : Contained(e) => (e \in results') # Contained(e)']_vars
=============================================================================
