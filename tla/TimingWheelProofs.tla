------------------------- MODULE TimingWheelProofs -------------------------
(***************************************************************************)
(* Proofs about TimingWheel for every number and size of wheels and every  *)
(* set of entries: an entry sits in at most one slot, and a tick that      *)
(* takes it out of the wheel returns it or moves it one wheel down.        *)
(***************************************************************************)
EXTENDS TimingWheel, FiniteSetTheorems, Recursion

-----------------------------------------------------------------------------
(* The operators of the wheel.                                             *)

(* One slot of level 0 stands for one tick, one of the next level for Base *)
(* slots of this one.                                                      *)
LEMMA WeightDef ==
  /\ Weight \in [Nat -> Nat \ {0}] /\ Weight[0] = 1
  /\ \A n \in Nat : Weight[n + 1] = Base * Weight[n]
<1> DEFINE step == [p \in Nat \X Int |-> Base * p[2]]
<1>1. step \in [Nat \X Int -> Int]
  BY WheelAssumption
<1>2. PICK g : /\ g \in [Nat -> Int] /\ g[0] = 1
               /\ \A n \in Nat : g[n + 1] = step[<<n, g[n]>>]
  <2> HIDE DEF step
  <2>1. \E g : Iterates(g, 1, step)
    BY <1>1, IterationExists
  <2> QED
    BY <2>1 DEF Iterates
<1>3. ASSUME NEW i \in Nat, i # 0 PROVE g[i] = Base * g[i - 1]
  <2>1. i - 1 \in Nat /\ i = (i - 1) + 1
    BY <1>3
  <2>2. g[(i - 1) + 1] = step[<<i - 1, g[i - 1]>>]
    BY <2>1, <1>2
  <2> QED
    BY <2>1, <2>2, <1>2
<1>4. g = [i \in Nat |-> IF i = 0 THEN 1 ELSE Base * g[i - 1]]
  BY <1>2, <1>3
<1>5. Weight = [i \in Nat |-> IF i = 0 THEN 1 ELSE Base * Weight[i - 1]]
  BY <1>4 DEF Weight
<1>6. Weight[0] = 1
  BY <1>5
<1>7. ASSUME NEW n \in Nat PROVE Weight[n + 1] = Base * Weight[n]
  BY <1>5
<1> DEFINE positive == {n \in Nat : Weight[n] \in Nat \ {0}}
<1>8. 0 \in positive
  BY <1>6
<1>9. ASSUME NEW n \in Nat, n \in positive PROVE n + 1 \in positive
  BY <1>7, <1>9, WheelAssumption
<1>10. Nat \subseteq positive
  <2> HIDE DEF positive
  <2> QED
    BY <1>8, <1>9, InductionOverNat
<1> QED
  BY <1>5, <1>6, <1>7, <1>10

(* Every level's digit of a delay is the number of a slot.                 *)
LEMMA DigitsType == ASSUME NEW delay \in Nat PROVE Digits(delay) \in [Level -> Slot]
<1>1. ASSUME NEW i \in Level PROVE (delay \div Weight[i]) % Base \in Slot
  <2>1. delay \div Weight[i] \in Nat
    BY WeightDef DEF Level
  <2> QED
    BY <2>1, WheelAssumption DEF Slot
<1> QED
  BY <1>1 DEF Digits

(* The level of a delay is that of its highest nonzero digit, 0 if it has  *)
(* none.                                                                   *)
LEMMA LevelOfHighest ==
  ASSUME NEW digits \in [Level -> Slot]
  PROVE  /\ LevelOf(digits) \in Level
         /\ digits[LevelOf(digits)] = 0 => LevelOf(digits) = 0
         /\ \A i \in Level : LevelOf(digits) < i => digits[i] = 0
<1> DEFINE nonzero == {i \in Level : digits[i] # 0}
           below == {n \in Nat : \E i \in nonzero : n = Levels - i}
<1>1. CASE nonzero = {}
  BY <1>1, WheelAssumption DEF LevelOf, Level
<1>2. CASE nonzero # {}
  <2>1. \A i \in nonzero : Levels - i \in below
    BY WheelAssumption DEF Level
  <2>2. PICK n \in below : \A m \in below : n <= m
    <3>1. below \subseteq Nat /\ below # {}
      BY <1>2, <2>1
    <3> HIDE DEF below
    <3> QED
      BY <3>1, LeastElement
  <2>3. PICK top \in nonzero : n = Levels - top
    OBVIOUS
  <2>4. ASSUME NEW j \in nonzero PROVE j <= top
    <3>1. Levels - j \in below /\ Levels - top <= Levels - j
      BY <2>1, <2>2, <2>3
    <3>2. j \in Int /\ top \in Int /\ Levels \in Int
      BY WheelAssumption DEF Level
    <3> QED
      BY <3>1, <3>2
  <2> DEFINE level == CHOOSE k \in nonzero : \A j \in nonzero : j <= k
  <2>5. level \in nonzero /\ \A j \in nonzero : j <= level
    BY <2>4
  <2>6. LevelOf(digits) = level
    BY <1>2 DEF LevelOf
  <2> HIDE DEF level
  <2>7. ASSUME NEW i \in Level, level < i PROVE digits[i] = 0
    BY <2>5, <2>7 DEF Level
  <2> QED
    BY <2>5, <2>6, <2>7
<1> QED
  BY <1>1, <1>2

(* Before and after a tick every level has a current slot.                 *)
LEMMA AdvancedType == ASSUME TypeOK, NEW i \in Level PROVE Advanced(i) \in Slot
  BY WheelAssumption DEF TypeOK, Advanced, Slot

(* What a level takes out of its wheel are items.                          *)
LEMMA ExpiredType == ASSUME TypeOK, NEW i \in Nat PROVE Expired(i) \subseteq Item
  BY AdvancedType DEF TypeOK, Expired

-----------------------------------------------------------------------------
(* The inductive invariant.                                                *)

(* Two items of one entry are one item in one slot.                        *)
InOneSlot ==
  \A i, j \in Level : \A s, t \in Slot : \A x \in slots[i][s], y \in slots[j][t] :
    x.value = y.value => i = j /\ s = t /\ x = y

(* What the last tick returned is not in the wheel any more.               *)
ReleasedIsOut == \A e \in results : ~Contained(e)

WheelInv == TypeOK /\ InOneSlot /\ ReleasedIsOut

(* The wheel is empty before the first insertion and after every clear.    *)
LEMMA EmptyWheel ==
  ASSUME Init PROVE WheelInv /\ \A e : ~Contained(e)
BY WheelAssumption DEF Init, WheelInv, TypeOK, InOneSlot, ReleasedIsOut, Contained, Slot

(* Inserting keeps every variable in its type: the level and the slot are  *)
(* those of the wheel.                                                     *)
LEMMA InsertPlace ==
  ASSUME TypeOK, NEW e \in Entries, NEW delay \in Nat, Insert(e, delay)
  PROVE  \E i \in Level, s \in Slot, digits \in [Level -> Slot] :
           slots' = [slots EXCEPT ![i][s] = @ \cup {[value |-> e, digits |-> digits]}]
<1> DEFINE digits == Digits(delay)
           level == LevelOf(digits)
<1>1. digits \in [Level -> Slot] /\ level \in Level
  BY DigitsType, LevelOfHighest
<1> HIDE DEF digits
<1>2. (current[level] + digits[level]) % Base \in Slot
  BY <1>1, WheelAssumption DEF TypeOK, Slot
<1> QED
  BY <1>1, <1>2 DEF Insert, digits

(* Inserting an entry that is not in the wheel keeps the invariant, and    *)
(* puts just this entry in.                                                *)
LEMMA InsertStep ==
  ASSUME WheelInv, NEW e \in Entries, NEW delay \in Nat, Insert(e, delay)
  PROVE  WheelInv' /\ \A k : Contained(k)' <=> Contained(k) \/ k = e
<1>1. PICK i \in Level, s \in Slot, digits \in [Level -> Slot] :
        slots' = [slots EXCEPT ![i][s] = @ \cup {[value |-> e, digits |-> digits]}]
  BY InsertPlace DEF WheelInv
<1> DEFINE new == [value |-> e, digits |-> digits]
<1>2. new \in Item /\ new.value = e
  BY DEF Item
<1>3. ASSUME NEW j \in Level, NEW t \in Slot, NEW x
      PROVE  x \in slots'[j][t] <=> x \in slots[j][t] \/ (j = i /\ t = s /\ x = new)
  BY <1>1 DEF WheelInv, TypeOK
<1>4. ~Contained(e) /\ results' = results \ {e} /\ current' = current
  BY DEF Insert
<1>5. TypeOK'
  BY <1>1, <1>2, <1>4 DEF WheelInv, TypeOK
<1> HIDE DEF new
<1>6. ASSUME NEW k PROVE Contained(k)' <=> Contained(k) \/ k = e
  <2>1. Contained(e)'
    BY <1>2, <1>3 DEF Contained
  <2>2. Contained(k) => Contained(k)'
    BY <1>3 DEF Contained
  <2>3. Contained(k)' => Contained(k) \/ k = e
    BY <1>2, <1>3 DEF Contained
  <2> QED
    BY <2>1, <2>2, <2>3
<1>7. InOneSlot'
  <2> SUFFICES ASSUME NEW j \in Level, NEW l \in Level, NEW t \in Slot, NEW r \in Slot,
                      NEW x \in slots'[j][t], NEW y \in slots'[l][r], x.value = y.value
               PROVE  j = l /\ t = r /\ x = y
    BY DEF InOneSlot
  <2>1. x \in slots[j][t] \/ (j = i /\ t = s /\ x = new)
    BY <1>3
  <2>2. y \in slots[l][r] \/ (l = i /\ r = s /\ y = new)
    BY <1>3
  <2>3. x \in slots[j][t] => x.value # e
    BY <1>4 DEF Contained
  <2>4. y \in slots[l][r] => y.value # e
    BY <1>4 DEF Contained
  <2> QED
    BY <2>1, <2>2, <2>3, <2>4, <1>2 DEF WheelInv, InOneSlot
<1>8. ReleasedIsOut'
  BY <1>4, <1>6 DEF WheelInv, ReleasedIsOut
<1> QED
  BY <1>5, <1>6, <1>7, <1>8 DEF WheelInv

-----------------------------------------------------------------------------
(* A tick.                                                                 *)

(* An item that has stayed in a slot was not taken out of it; an item that *)
(* has come to a slot was taken out of the current slot one wheel above.   *)
LEMMA TickOrigin ==
  ASSUME TypeOK, Tick, NEW i \in Level, NEW s \in Slot, NEW x \in slots'[i][s]
  PROVE  \/ x \in slots[i][s] /\ ~(Ticks(i) /\ s = Advanced(i))
         \/ /\ i + 1 \in Level /\ Ticks(i + 1) /\ Advanced(i + 1) \in Slot
            /\ x \in slots[i + 1][Advanced(i + 1)]
            /\ s = (Advanced(i) + x.digits[i]) % Base
<1>1. x \in (slots[i][s] \ Emptied(i, s)) \cup Moved(i, s)
  BY DEF Tick
<1>2. CASE x \in slots[i][s] \ Emptied(i, s)
  BY <1>2 DEF Emptied, Expired
<1>3. CASE x \in Moved(i, s)
  <2>1. x \in Expired(i + 1) /\ s = (Advanced(i) + x.digits[i]) % Base
    BY <1>3 DEF Moved
  <2> QED
    BY <2>1, AdvancedType DEF Expired
<1> QED
  BY <1>1, <1>2, <1>3

(* A tick keeps every variable in its type.                                *)
LEMMA TickType == TypeOK /\ Tick => TypeOK'
<1> SUFFICES ASSUME TypeOK, Tick PROVE TypeOK'
  OBVIOUS
<1>1. current' \in [Level -> Slot]
  BY AdvancedType DEF Tick
<1>2. ASSUME NEW i \in Level, NEW s \in Slot
      PROVE  (slots[i][s] \ Emptied(i, s)) \cup Moved(i, s) \subseteq Item
  <2>1. slots[i][s] \subseteq Item
    BY DEF TypeOK
  <2>2. Expired(i + 1) \subseteq Item
    BY ExpiredType DEF Level
  <2> QED
    BY <2>1, <2>2 DEF Moved
<1>3. slots' \in [Level -> [Slot -> SUBSET Item]]
  BY <1>2 DEF Tick
<1>4. results' \in SUBSET Entries
  <2>1. Expired(0) \subseteq Item
    BY ExpiredType
  <2> QED
    BY <2>1 DEF Tick, Item
<1> QED
  BY <1>1, <1>3, <1>4 DEF TypeOK

(* A tick puts no entry in two slots: what has come to a slot came from     *)
(* the only slot it was in, and only from there.                           *)
LEMMA TickInOneSlot == TypeOK /\ InOneSlot /\ Tick => InOneSlot'
<1> SUFFICES ASSUME TypeOK, InOneSlot, Tick,
                    NEW i \in Level, NEW j \in Level, NEW s \in Slot, NEW t \in Slot,
                    NEW x \in slots'[i][s], NEW y \in slots'[j][t], x.value = y.value
             PROVE  i = j /\ s = t /\ x = y
  BY DEF InOneSlot
<1> DEFINE Stayed(z, l, r) == z \in slots[l][r] /\ ~(Ticks(l) /\ r = Advanced(l))
           Came(z, l, r) == /\ l + 1 \in Level /\ Ticks(l + 1) /\ Advanced(l + 1) \in Slot
                            /\ z \in slots[l + 1][Advanced(l + 1)]
                            /\ r = (Advanced(l) + z.digits[l]) % Base
<1>1. (Stayed(x, i, s) \/ Came(x, i, s)) /\ (Stayed(y, j, t) \/ Came(y, j, t))
  BY TickOrigin
<1>2. CASE Stayed(x, i, s) /\ Stayed(y, j, t)
  BY <1>2 DEF InOneSlot
<1>3. CASE Stayed(x, i, s) /\ Came(y, j, t)
  <2>1. \A l \in Level, r \in Slot : y \in slots[l][r] => i = l /\ s = r
    BY <1>3 DEF InOneSlot
  <2>2. i = j + 1 /\ s = Advanced(j + 1)
    BY <1>3, <2>1
  <2> QED
    BY <1>3, <2>2
<1>4. CASE Came(x, i, s) /\ Stayed(y, j, t)
  <2>1. \A l \in Level, r \in Slot : x \in slots[l][r] => j = l /\ t = r
    BY <1>4 DEF InOneSlot
  <2>2. j = i + 1 /\ t = Advanced(i + 1)
    BY <1>4, <2>1
  <2> QED
    BY <1>4, <2>2
<1>5. CASE Came(x, i, s) /\ Came(y, j, t)
  <2>1. \A l, m \in Level, r, u \in Slot :
          x \in slots[l][r] /\ y \in slots[m][u] => l = m /\ x = y
    BY DEF InOneSlot
  <2>2. i + 1 = j + 1 /\ x = y
    BY <1>5, <2>1
  <2>3. i = j
    BY <2>2 DEF Level
  <2> QED
    BY <1>5, <2>2, <2>3
<1> QED
  BY <1>1, <1>2, <1>3, <1>4, <1>5

(* What a tick returns is out of the wheel: it was in level 0's current    *)
(* slot and nowhere else, and that slot is emptied.                        *)
LEMMA TickReleases == TypeOK /\ InOneSlot /\ Tick => ReleasedIsOut'
<1> SUFFICES ASSUME TypeOK, InOneSlot, Tick, NEW x \in Expired(0),
                    NEW i \in Level, NEW s \in Slot, NEW y \in slots'[i][s],
                    y.value = x.value
             PROVE  FALSE
  BY DEF ReleasedIsOut, Contained, Tick
<1>1. 0 \in Level /\ Ticks(0) /\ Advanced(0) \in Slot /\ x \in slots[0][Advanced(0)]
  BY AdvancedType DEF Expired
<1>2. i + 1 # 0
  BY DEF Level
<1> QED
  BY <1>1, <1>2, TickOrigin DEF InOneSlot

(* A tick keeps the invariant.                                             *)
LEMMA TickStep == WheelInv /\ Tick => WheelInv'
BY TickType, TickInOneSlot, TickReleases DEF WheelInv

(* What a tick takes out of the wheel it returns, what it does not take     *)
(* out it keeps, and it adds nothing.                                      *)
LEMMA TickPartition ==
  ASSUME WheelInv, Tick
  PROVE  \A e : /\ e \in results' => Contained(e)
                /\ Contained(e)' <=> Contained(e) /\ e \notin results'
<1> SUFFICES ASSUME NEW e
             PROVE  /\ e \in results' => Contained(e)
                    /\ Contained(e)' <=> Contained(e) /\ e \notin results'
  OBVIOUS
<1>1. ASSUME e \in results' PROVE Contained(e) /\ ~Contained(e)'
  <2>1. PICK x \in Expired(0) : e = x.value
    BY <1>1 DEF Tick
  <2>2. Contained(e)
    BY <2>1, AdvancedType DEF Expired, Contained, WheelInv
  <2>3. ~Contained(e)'
    BY <1>1, TickStep DEF WheelInv, ReleasedIsOut
  <2> QED
    BY <2>2, <2>3
<1>2. ASSUME Contained(e)' PROVE Contained(e)
  <2>1. PICK i \in Level, s \in Slot : \E y \in slots'[i][s] : y.value = e
    BY <1>2 DEF Contained
  <2>2. PICK y \in slots'[i][s] : y.value = e
    BY <2>1
  <2> QED
    BY <2>2, TickOrigin DEF Contained, WheelInv
<1>3. ASSUME Contained(e), e \notin results' PROVE Contained(e)'
  <2>1. PICK i \in Level, s \in Slot : \E x \in slots[i][s] : x.value = e
    BY <1>3 DEF Contained
  <2>2. PICK x \in slots[i][s] : x.value = e
    BY <2>1
  <2>3. CASE x \notin Emptied(i, s)
    <3>1. x \in slots'[i][s]
      BY <2>2, <2>3 DEF Tick
    <3> QED
      BY <2>2, <3>1 DEF Contained
  <2>4. CASE x \in Emptied(i, s)
    <3>1. x \in Expired(i) /\ s = Advanced(i)
      BY <2>4 DEF Emptied
    <3>2. i # 0
      BY <1>3, <2>2, <3>1 DEF Tick
    <3> DEFINE j == i - 1
               t == (Advanced(j) + x.digits[j]) % Base
    <3>3. j \in Level /\ i = j + 1
      BY <3>2, WheelAssumption DEF Level
    <3>4. x \in Item
      BY <2>2 DEF WheelInv, TypeOK
    <3>5. x.digits[j] \in Slot /\ Advanced(j) \in Slot
      BY <3>3, <3>4, AdvancedType DEF WheelInv, Item
    <3>6. t \in Slot
      BY <3>5, WheelAssumption DEF Slot
    <3>7. x \in Moved(j, t)
      BY <3>1, <3>3 DEF Moved
    <3>8. x \in slots'[j][t]
      BY <3>3, <3>6, <3>7 DEF Tick
    <3> QED
      BY <2>2, <3>3, <3>6, <3>8 DEF Contained
  <2> QED
    BY <2>3, <2>4
<1> QED
  BY <1>1, <1>2, <1>3

-----------------------------------------------------------------------------
(* The specification.                                                      *)

(* Clearing empties the wheel.                                             *)
LEMMA ClearStep == Clear => WheelInv' /\ \A e : ~Contained(e)'
BY WheelAssumption
DEF Clear, WheelInv, TypeOK, InOneSlot, ReleasedIsOut, Contained, Slot

(* The invariant is inductive.                                             *)
LEMMA WheelInvariant == Spec => []WheelInv
<1>1. Init => WheelInv
  BY EmptyWheel
<1>2. WheelInv /\ [Next]_vars => WheelInv'
  <2> SUFFICES ASSUME WheelInv, [Next]_vars PROVE WheelInv'
    OBVIOUS
  <2>1. ASSUME NEW e \in Entries, NEW delay \in 0 .. MaxDelay, Insert(e, delay)
        PROVE  WheelInv'
    BY <2>1, InsertStep, WheelAssumption
  <2>2. CASE Tick
    BY <2>2, TickStep
  <2>3. CASE Clear
    BY <2>3, ClearStep
  <2>4. CASE UNCHANGED vars
    BY <2>4 DEF vars, WheelInv, TypeOK, InOneSlot, ReleasedIsOut, Contained
  <2> QED
    BY <2>1, <2>2, <2>3, <2>4 DEF Next
<1> QED
  BY <1>1, <1>2, PTL DEF Spec

(* Slots hold items, current slots are slots, and entries are returned.    *)
THEOREM TypeCorrect == Spec => []TypeOK
BY WheelInvariant, PTL DEF WheelInv

(* An entry is in at most one place of the wheel, and not there once it    *)
(* has been returned.                                                      *)
THEOREM ReleasesOnce == Spec => []ReleasedExactlyOnce
<1>1. WheelInv => ReleasedExactlyOnce
  <2> SUFFICES ASSUME WheelInv, NEW e \in Entries PROVE Cardinality(Places(e)) <= 1
    BY DEF WheelInv, ReleasedIsOut, ReleasedExactlyOnce
  <2>1. ASSUME NEW p \in Places(e), NEW q \in Places(e) PROVE p = q
    <3>1. /\ p = <<p[1], p[2], p[3]>> /\ q = <<q[1], q[2], q[3]>>
          /\ p[1] \in Level /\ p[2] \in Slot /\ q[1] \in Level /\ q[2] \in Slot
      BY DEF Places
    <3>2. /\ [value |-> e, digits |-> p[3]] \in slots[p[1]][p[2]]
          /\ [value |-> e, digits |-> q[3]] \in slots[q[1]][q[2]]
      BY DEF Places
    <3>3. /\ p[1] = q[1] /\ p[2] = q[2]
          /\ [value |-> e, digits |-> p[3]] = [value |-> e, digits |-> q[3]]
      BY <3>1, <3>2 DEF WheelInv, InOneSlot
    <3>4. p[3] = q[3]
      BY <3>3
    <3> QED
      BY <3>1, <3>3, <3>4
  <2>2. CASE Places(e) = {}
    BY <2>2, FS_EmptySet
  <2>3. CASE Places(e) # {}
    <3>1. PICK p : p \in Places(e)
      BY <2>3
    <3>2. Places(e) = {p}
      BY <3>1, <2>1
    <3> QED
      BY <3>2, FS_Singleton
  <2> QED
    BY <2>2, <2>3
<1> QED
  BY <1>1, WheelInvariant, PTL

(* A tick that takes an entry out of the wheel returns it, and a tick that *)
(* leaves it in does not.                                                  *)
THEOREM LosesNone == Spec => NoEntryLost
<1>1. WheelInv /\ [Next]_vars
        => [Tick => \A e \in Entries : Contained(e) => (e \in results') # Contained(e)']_vars
  BY TickPartition
<1> QED
  BY <1>1, WheelInvariant, PTL DEF Spec, NoEntryLost
=============================================================================
