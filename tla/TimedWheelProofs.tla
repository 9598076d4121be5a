-------------------------- MODULE TimedWheelProofs --------------------------
(***************************************************************************)
(* Proofs about TimedWheel for every number and size of wheels: the exact  *)
(* law by which the wheel releases its entries.                            *)
(***************************************************************************)
EXTENDS TimedWheel, TimingWheelProofs

-----------------------------------------------------------------------------
(* Numbers and their digits.                                               *)

(* Induction over the levels.                                              *)
LEMMA InductionOverLevels ==
  ASSUME NEW S, 0 \in S, \A n \in Level : n \in S => n + 1 \in S
  PROVE  0 .. Levels \subseteq S
<1> DEFINE T == {n \in Nat : n <= Levels => n \in S}
<1>1. 0 \in T
  OBVIOUS
<1>2. ASSUME NEW n \in Nat, n \in T PROVE n + 1 \in T
  BY <1>2, WheelAssumption DEF Level
<1>3. Nat \subseteq T
  <2> HIDE DEF T
  <2> QED
    BY <1>1, <1>2, InductionOverNat
<1> QED
  BY <1>3, WheelAssumption

(* A level is a number, and so is its weight.                              *)
LEMMA LevelFacts ==
  ASSUME NEW i \in Level
  PROVE  /\ i \in Nat /\ i \in 0 .. Levels /\ i + 1 \in 0 .. Levels /\ i < Levels
         /\ Weight[i] \in Nat /\ Weight[i] > 0 /\ Weight[i + 1] = Base * Weight[i]
BY WeightDef, WheelAssumption DEF Level

(* Division with remainder has one result.                                 *)
LEMMA Remainder ==
  ASSUME NEW m \in Nat \ {0}, NEW q \in Int, NEW r \in 0 .. m - 1
  PROVE  (q * m + r) % m = r
<1> DEFINE a == q * m + r
           d == a \div m
           e == a % m
<1>1. a \in Int /\ d \in Int /\ e \in 0 .. m - 1 /\ a = m * d + e
  OBVIOUS
<1> HIDE DEF a, d, e
<1>2. m * (q - d) = e - r
  <2>1. q * m + r = m * d + e
    BY <1>1 DEF a
  <2>2. m * (q - d) = q * m - m * d
    BY <1>1
  <2> QED
    BY <1>1, <2>1, <2>2
<1>3. ~(q - d >= 1)
  <2> SUFFICES ASSUME q - d >= 1 PROVE m * (q - d) >= m
    BY <1>1, <1>2
  <2> QED
    BY <1>1
<1>4. ~(q - d <= -1)
  <2> SUFFICES ASSUME q - d <= -1 PROVE m * (q - d) <= -m
    BY <1>1, <1>2
  <2> QED
    BY <1>1
<1>5. q = d
  BY <1>1, <1>3, <1>4
<1>6. e = r
  BY <1>1, <1>2, <1>5
<1> QED
  BY <1>6 DEF e, a

(* The ticks of the first k + 1 digits are those of the first k and those  *)
(* of digit k.                                                             *)
LEMMA TickedDef ==
  ASSUME NEW f \in [Level -> Int]
  PROVE  /\ Ticked(f) \in [0 .. Levels -> Int] /\ Ticked(f)[0] = 0
         /\ \A k \in Level : Ticked(f)[k + 1] = Ticked(f)[k] + f[k] * Weight[k]
<1> DEFINE part(n) == IF n \in Level THEN f[n] * Weight[n] ELSE 0
           step == [p \in Nat \X Int |-> p[2] + part(p[1])]
<1>1. \A n \in Nat : part(n) \in Int
  BY WeightDef
<1>2. step \in [Nat \X Int -> Int]
  <2> HIDE DEF part
  <2> QED
    BY <1>1
<1>3. PICK g : g \in [Nat -> Int] /\ g[0] = 0 /\ \A n \in Nat : g[n + 1] = step[<<n, g[n]>>]
  <2> HIDE DEF step
  <2>1. \E g : Iterates(g, 0, step)
    BY <1>2, IterationExists
  <2> QED
    BY <2>1 DEF Iterates
<1> DEFINE h == [k \in 0 .. Levels |-> g[k]]
           Sums(s) == s = [k \in 0 .. Levels |->
                             IF k = 0 THEN 0 ELSE s[k - 1] + f[k - 1] * Weight[k - 1]]
<1>4. ASSUME NEW k \in 0 .. Levels, k # 0 PROVE h[k] = h[k - 1] + f[k - 1] * Weight[k - 1]
  <2>1. k - 1 \in Level /\ k - 1 \in Nat /\ k = (k - 1) + 1 /\ k \in Nat
    BY <1>4, WheelAssumption DEF Level
  <2>2. g[(k - 1) + 1] = step[<<k - 1, g[k - 1]>>]
    BY <2>1, <1>3
  <2>3. step[<<k - 1, g[k - 1]>>] = g[k - 1] + part(k - 1)
    BY <2>1, <1>3
  <2>4. h[k] = g[k] /\ h[k - 1] = g[k - 1]
    <3>1. k - 1 \in 0 .. Levels
      BY <2>1, LevelFacts
    <3> QED
      BY <3>1
  <2> QED
    BY <2>1, <2>2, <2>3, <2>4
<1>5. Sums(h)
  BY <1>3, <1>4, WheelAssumption
<1>6. Ticked(f) = CHOOSE s : Sums(s)
  BY DEF Ticked
<1>7. Sums(Ticked(f))
  <2> HIDE DEF Sums
  <2> QED
    BY <1>5, <1>6
<1>8. Ticked(f)[0] = 0
  BY <1>7, WheelAssumption
<1>9. ASSUME NEW k \in Level PROVE Ticked(f)[k + 1] = Ticked(f)[k] + f[k] * Weight[k]
  <2>1. k + 1 \in 0 .. Levels /\ k + 1 # 0 /\ (k + 1) - 1 = k
    BY WheelAssumption DEF Level
  <2> QED
    BY <2>1, <1>7
<1> DEFINE whole == {n \in 0 .. Levels : Ticked(f)[n] \in Int}
<1>10. 0 \in whole
  BY <1>8, WheelAssumption
<1>11. ASSUME NEW n \in Level, n \in whole PROVE n + 1 \in whole
  <2>1. f[n] * Weight[n] \in Int
    BY LevelFacts
  <2> QED
    BY <1>9, <1>11, <2>1, WheelAssumption DEF Level
<1>12. 0 .. Levels \subseteq whole
  <2> HIDE DEF whole
  <2> QED
    BY <1>10, <1>11, InductionOverLevels
<1> QED
  BY <1>7, <1>8, <1>9, <1>12
(* The first k digits of a number stand for fewer ticks than one slot of   *)
(* level k does.                                                           *)
LEMMA TickedBound ==
  ASSUME NEW f \in [Level -> Slot], NEW n \in 0 .. Levels
  PROVE  Ticked(f)[n] \in Nat /\ Ticked(f)[n] < Weight[n]
<1> DEFINE S == {k \in 0 .. Levels : Ticked(f)[k] \in Nat /\ Ticked(f)[k] < Weight[k]}
<1>1. f \in [Level -> Int]
  BY DEF Slot
<1>2. 0 \in S
  <2>1. Ticked(f)[0] = 0 /\ Weight[0] = 1
    BY <1>1, TickedDef, WeightDef
  <2> QED
    BY <2>1, WheelAssumption
<1>3. ASSUME NEW k \in Level, k \in S PROVE k + 1 \in S
  <2> DEFINE w == Weight[k]
             t == Ticked(f)[k]
  <2>1. /\ w \in Nat /\ w > 0 /\ t \in Nat /\ t < w /\ k + 1 \in 0 .. Levels
        /\ Weight[k + 1] = Base * w /\ Ticked(f)[k + 1] = t + f[k] * w
    BY <1>1, <1>3, LevelFacts, TickedDef
  <2>2. f[k] \in Nat /\ f[k] + 1 <= Base /\ Base \in Nat
    BY WheelAssumption DEF Slot
  <2> HIDE DEF w, t
  <2>3. f[k] * w \in Nat /\ (f[k] + 1) * w <= Base * w
    BY <2>1, <2>2
  <2>4. (f[k] + 1) * w = f[k] * w + w
    BY <2>1, <2>2
  <2> QED
    BY <2>1, <2>2, <2>3, <2>4
<1>4. 0 .. Levels \subseteq S
  <2> HIDE DEF S
  <2> QED
    BY <1>2, <1>3, InductionOverLevels
<1> QED
  BY <1>4

(* What the digits below level n and those from it on stand for: the first *)
(* is the remainder of the whole by the weight of n.                       *)
LEMMA TickedRemainder ==
  ASSUME NEW f \in [Level -> Slot], NEW n \in Level
  PROVE  Ticked(f)[Levels] % Weight[n] = Ticked(f)[n]
<1> DEFINE S == {k \in 0 .. Levels : n <= k =>
                  \E q, c \in Int : /\ Ticked(f)[k] = q * Weight[n] + Ticked(f)[n]
                                    /\ Weight[k] = c * Weight[n]}
<1>1. f \in [Level -> Int] /\ n \in Nat /\ Weight[n] \in Nat /\ Weight[n] > 0
  BY LevelFacts DEF Slot
<1>2. Ticked(f)[n] \in Nat /\ Ticked(f)[n] < Weight[n]
  BY TickedBound, LevelFacts
<1>3. n \in S
  <2>1. Ticked(f)[n] = 0 * Weight[n] + Ticked(f)[n] /\ Weight[n] = 1 * Weight[n]
    BY <1>1, <1>2
  <2> QED
    BY <2>1, LevelFacts
<1>4. 0 \in S
  <2>1. CASE n = 0
    BY <1>3, <2>1
  <2>2. CASE n # 0
    BY <1>1, <2>2, WheelAssumption
  <2> QED
    BY <2>1, <2>2
<1>5. ASSUME NEW k \in Level, k \in S PROVE k + 1 \in S
  <2>1. CASE k + 1 < n
    BY <2>1, <1>1, LevelFacts
  <2>2. CASE k + 1 = n
    BY <2>2, <1>3
  <2>3. CASE n <= k
    <3>1. PICK q \in Int, c \in Int : /\ Ticked(f)[k] = q * Weight[n] + Ticked(f)[n]
                                      /\ Weight[k] = c * Weight[n]
      BY <1>5, <2>3
    <3>2. f[k] \in Int /\ Base \in Int
      BY <1>1, WheelAssumption
    <3>3. Ticked(f)[k + 1] = Ticked(f)[k] + f[k] * Weight[k] /\ Weight[k + 1] = Base * Weight[k]
      BY <1>1, TickedDef, LevelFacts
    <3>4. Weight[k + 1] = (Base * c) * Weight[n]
      BY <1>1, <3>1, <3>2, <3>3
    <3>5. Ticked(f)[k + 1] = (q + f[k] * c) * Weight[n] + Ticked(f)[n]
      <4>1. f[k] * (c * Weight[n]) = (f[k] * c) * Weight[n]
        BY <1>1, <3>2
      <4>2. (q + f[k] * c) * Weight[n] = q * Weight[n] + (f[k] * c) * Weight[n]
        BY <1>1, <3>2
      <4> QED
        BY <1>1, <1>2, <3>1, <3>2, <3>3, <4>1, <4>2
    <3>6. q + f[k] * c \in Int /\ Base * c \in Int
      BY <3>2
    <3> QED
      BY <3>4, <3>5, <3>6, LevelFacts
  <2> QED
    BY <2>1, <2>2, <2>3, <1>1, LevelFacts
<1>6. Levels \in S
  <2>1. 0 .. Levels \subseteq S
    <3> HIDE DEF S
    <3> QED
      BY <1>4, <1>5, InductionOverLevels
  <2> QED
    BY <2>1, WheelAssumption
<1>7. PICK q \in Int : Ticked(f)[Levels] = q * Weight[n] + Ticked(f)[n]
  BY <1>6, LevelFacts
<1>8. (q * Weight[n] + Ticked(f)[n]) % Weight[n] = Ticked(f)[n]
  BY <1>1, <1>2, Remainder
<1> QED
  BY <1>7, <1>8

(* Digits that are zero stand for nothing.                                 *)
LEMMA TickedZeros ==
  ASSUME NEW f \in [Level -> Int], NEW n \in 0 .. Levels,
         \A i \in Level : n <= i => f[i] = 0
  PROVE  Ticked(f)[Levels] = Ticked(f)[n]
<1> DEFINE S == {k \in 0 .. Levels : n <= k => Ticked(f)[k] = Ticked(f)[n]}
<1>1. 0 \in S
  BY WheelAssumption
<1>2. ASSUME NEW k \in Level, k \in S PROVE k + 1 \in S
  <2>1. CASE n <= k
    <3>1. f[k] = 0 /\ Ticked(f)[k] \in Int /\ Weight[k] \in Nat /\ k + 1 \in 0 .. Levels
      BY <2>1, TickedDef, LevelFacts
    <3>2. Ticked(f)[k + 1] = Ticked(f)[k] + f[k] * Weight[k]
      BY TickedDef
    <3>3. f[k] * Weight[k] = 0
      BY <3>1
    <3> QED
      BY <1>2, <2>1, <3>1, <3>2, <3>3
  <2>2. CASE n > k
    BY <2>2, LevelFacts
  <2> QED
    BY <2>1, <2>2, LevelFacts
<1>3. 0 .. Levels \subseteq S
  <2> HIDE DEF S
  <2> QED
    BY <1>1, <1>2, InductionOverLevels
<1> QED
  BY <1>3, WheelAssumption

(* The ticks of two rows of digits are those of the sums of their digits.  *)
LEMMA TickedSum ==
  ASSUME NEW f \in [Level -> Int], NEW g \in [Level -> Int], NEW h \in [Level -> Int],
         \A i \in Level : h[i] = f[i] + g[i],
         NEW n \in 0 .. Levels
  PROVE  Ticked(h)[n] = Ticked(f)[n] + Ticked(g)[n]
<1> DEFINE S == {k \in 0 .. Levels : Ticked(h)[k] = Ticked(f)[k] + Ticked(g)[k]}
<1>1. 0 \in S
  BY TickedDef, WheelAssumption
<1>2. ASSUME NEW k \in Level, k \in S PROVE k + 1 \in S
  <2>1. /\ Ticked(f)[k + 1] = Ticked(f)[k] + f[k] * Weight[k]
        /\ Ticked(g)[k + 1] = Ticked(g)[k] + g[k] * Weight[k]
        /\ Ticked(h)[k + 1] = Ticked(h)[k] + h[k] * Weight[k]
    BY TickedDef
  <2>2. /\ Ticked(f)[k] \in Int /\ Ticked(g)[k] \in Int /\ Ticked(h)[k] \in Int
        /\ Weight[k] \in Int /\ k + 1 \in 0 .. Levels /\ f[k] \in Int /\ g[k] \in Int
    <3>1. k \in 0 .. Levels /\ k + 1 \in 0 .. Levels /\ Weight[k] \in Nat
      BY LevelFacts
    <3>2. /\ Ticked(f) \in [0 .. Levels -> Int] /\ Ticked(g) \in [0 .. Levels -> Int]
          /\ Ticked(h) \in [0 .. Levels -> Int]
      BY TickedDef
    <3> QED
      BY <3>1, <3>2
  <2>3. h[k] * Weight[k] = f[k] * Weight[k] + g[k] * Weight[k]
    BY <2>2
  <2> QED
    BY <1>2, <2>1, <2>2, <2>3
<1>3. 0 .. Levels \subseteq S
  <2> HIDE DEF S
  <2> QED
    BY <1>1, <1>2, InductionOverLevels
<1> QED
  BY <1>3
-----------------------------------------------------------------------------
(* How long an entry still has to wait.                                    *)

\* The turns of a wheel that stands at slot c until it comes to slot s.
Turns(c, s) == IF s > c THEN s - c ELSE s - c + Base

\* A zero digit costs a whole revolution of its wheel.
Full(digits) == [i \in Level |-> IF digits[i] = 0 THEN Base ELSE digits[i]]

\* The ticks until an item in slot s of level i is returned: its wheel turns to
\* its slot, the first turn being under way, and each wheel below to its digit.
Wait(i, s, digits) ==
  Turns(current[i], s) * Weight[i] - Ticked(current)[i] + Ticked(Full(digits))[i]

(* A slot that is d slots ahead is reached in d turns, in a revolution if d *)
(* is zero.                                                                *)
LEMMA TurnsAhead ==
  ASSUME NEW c \in Slot, NEW d \in Slot
  PROVE  Turns(c, (c + d) % Base) = IF d = 0 THEN Base ELSE d
<1>1. Base \in Nat \ {0} /\ c \in Nat /\ d \in Nat /\ c < Base /\ d < Base
  BY WheelAssumption DEF Slot
<1>2. CASE c + d < Base
  <2>1. (c + d) % Base = c + d
    BY <1>1, <1>2
  <2> QED
    BY <1>1, <2>1 DEF Turns
<1>3. CASE c + d >= Base
  <2>1. (c + d) % Base = c + d - Base
    <3>1. c + d - Base \in 0 .. Base - 1 /\ c + d = 1 * Base + (c + d - Base)
      BY <1>1, <1>3
    <3> QED
      BY <1>1, <3>1, Remainder
  <2> QED
    BY <1>1, <1>3, <2>1 DEF Turns
<1> QED
  BY <1>1, <1>2, <1>3

(* After the last slot comes slot 0.                                       *)
LEMMA NextSlot ==
  ASSUME NEW c \in Slot
  PROVE  (c + 1) % Base = IF c = Base - 1 THEN 0 ELSE c + 1
<1>1. Base \in Nat \ {0} /\ c \in Nat /\ c < Base
  BY WheelAssumption DEF Slot
<1>2. CASE c = Base - 1
  <2>1. c + 1 = 1 * Base + 0 /\ (1 * Base + 0) % Base = 0
    BY <1>1, <1>2, Remainder
  <2> QED
    BY <1>2, <2>1
<1>3. CASE c # Base - 1
  <2>1. c + 1 \in 0 .. Base - 1 /\ c + 1 = 0 * Base + (c + 1)
    BY <1>1, <1>3
  <2>2. (0 * Base + (c + 1)) % Base = c + 1
    BY <1>1, <2>1, Remainder
  <2> QED
    BY <1>3, <2>1, <2>2
<1> QED
  BY <1>2, <1>3

(* Digits are integers, whichever way they are counted.                    *)
LEMMA DigitsAreInts ==
  ASSUME NEW digits \in [Level -> Slot]
  PROVE  digits \in [Level -> Int] /\ Full(digits) \in [Level -> Int]
BY WheelAssumption DEF Full, Slot

(* An entry that has just been inserted waits for its delay and what the   *)
(* wheel makes it late by.                                                 *)
LEMMA WaitWhenInserted ==
  ASSUME TypeOK, NEW delay \in Nat
  PROVE  LET level == LevelOf(Digits(delay))
             slot == (current[level] + Digits(delay)[level]) % Base
         IN  /\ Lateness(delay, Position) \in Int
             /\ Wait(level, slot, Digits(delay)) = delay + Lateness(delay, Position)
<1> DEFINE digits == Digits(delay)
           l == LevelOf(digits)
           slot == (current[l] + digits[l]) % Base
           rev == [i \in Level |-> IF digits[i] = 0 THEN Base ELSE 0]
           late == IF l = 0 /\ digits[0] = 0 THEN Base - (delay - Ticked(digits)[Levels])
                   ELSE Ticked(rev)[l] - (Position % Weight[l])
                          - (delay - Ticked(digits)[Levels])
<1>1. Lateness(delay, Position) = late
  BY DEF Lateness
<1>2. digits \in [Level -> Slot] /\ current \in [Level -> Slot]
  BY DigitsType DEF TypeOK
<1>3. /\ l \in Level /\ (digits[l] = 0 => l = 0)
      /\ \A i \in Level : l < i => digits[i] = 0
  BY <1>2, LevelOfHighest
<1> HIDE DEF digits
<1>4. /\ digits \in [Level -> Int] /\ Full(digits) \in [Level -> Int]
      /\ rev \in [Level -> Int] /\ current \in [Level -> Int]
  BY <1>2, DigitsAreInts, WheelAssumption
<1>5. /\ l \in 0 .. Levels /\ l + 1 \in 0 .. Levels /\ l \in Nat /\ Levels \in 0 .. Levels
      /\ Weight[l] \in Nat
  BY <1>3, LevelFacts, WheelAssumption
<1> HIDE DEF l
<1>6. Ticked(digits)[Levels] = Ticked(digits)[l] + digits[l] * Weight[l]
  <2>1. \A i \in Level : l + 1 <= i => digits[i] = 0
    BY <1>3, <1>5 DEF Level
  <2>2. Ticked(digits)[Levels] = Ticked(digits)[l + 1]
    BY <1>4, <1>5, <2>1, TickedZeros
  <2> QED
    BY <2>2, <1>3, <1>4, TickedDef
<1>7. Ticked(Full(digits))[l] = Ticked(digits)[l] + Ticked(rev)[l]
  <2>1. \A i \in Level : Full(digits)[i] = digits[i] + rev[i]
    BY <1>4, WheelAssumption DEF Full
  <2> HIDE DEF rev
  <2> QED
    BY <1>4, <1>5, <2>1, TickedSum
<1>8. Position % Weight[l] = Ticked(current)[l]
  BY <1>2, <1>3, TickedRemainder DEF Position
<1>9. Turns(current[l], slot) = IF digits[l] = 0 THEN Base ELSE digits[l]
  BY <1>2, <1>3, TurnsAhead
<1>10. /\ Ticked(digits)[l] \in Int /\ Ticked(rev)[l] \in Int /\ Ticked(current)[l] \in Int
       /\ Ticked(digits)[Levels] \in Int
  <2> HIDE DEF rev
  <2> QED
    BY <1>4, <1>5, TickedDef
<1>11. digits[l] \in Int /\ digits[l] * Weight[l] \in Int /\ Base \in Int
  BY <1>3, <1>4, <1>5, WheelAssumption
<1>12. CASE l = 0 /\ digits[0] = 0
  <2>1. /\ Ticked(digits)[0] = 0 /\ Ticked(Full(digits))[0] = 0 /\ Ticked(current)[0] = 0
        /\ Weight[0] = 1
    BY <1>4, TickedDef, WeightDef
  <2>2. late = Base - delay
    BY <1>6, <1>11, <1>12, <2>1
  <2>3. Wait(l, slot, digits) = Base
    BY <1>9, <1>11, <1>12, <2>1 DEF Wait
  <2> QED
    BY <1>1, <1>11, <2>2, <2>3 DEF l, digits
<1>13. CASE ~(l = 0 /\ digits[0] = 0)
  <2>1. digits[l] # 0
    BY <1>3, <1>13
  <2>2. late = Ticked(rev)[l] - Ticked(current)[l] - (delay - Ticked(digits)[Levels])
    BY <1>8, <1>13
  <2>3. Wait(l, slot, digits)
          = digits[l] * Weight[l] - Ticked(current)[l] + Ticked(Full(digits))[l]
    BY <1>9, <2>1 DEF Wait
  <2> HIDE DEF rev, late
  <2>4. /\ late \in Int
        /\ Wait(l, slot, digits) = delay + late
    BY <1>6, <1>7, <1>10, <1>11, <2>2, <2>3
  <2> QED
    BY <1>1, <2>4 DEF l, digits
<1> QED
  BY <1>12, <1>13
-----------------------------------------------------------------------------
(* The inductive invariant.                                                *)

(* The history variables hold numbers.                                     *)
Recorded ==
  /\ left \in [Entries -> Int]
  /\ born \in [Entries -> [delay : Nat, at : Nat]]
  /\ \A e \in Entries : Lateness(born[e].delay, born[e].at) \in Int

\* By how many ticks entry e will have missed its due time.
Late(e) == Lateness(born[e].delay, born[e].at)

(* Every item waits for what is left of its delay and its lateness.        *)
WaitsAsLateness ==
  \A i \in Level, s \in Slot : \A x \in slots[i][s] :
    Wait(i, s, x.digits) = left[x.value] + Late(x.value)

(* What the last tick returned has been that late.                         *)
ReleasedLate == \A e \in results : left[e] = -Late(e)

TimedInv == WheelInv /\ Recorded /\ WaitsAsLateness /\ ReleasedLate

(* An item in the wheel waits for one tick at least.                       *)
LEMMA WaitIsPositive ==
  ASSUME TypeOK, NEW i \in Level, NEW s \in Slot, NEW digits \in [Level -> Slot]
  PROVE  Wait(i, s, digits) \in Int /\ Wait(i, s, digits) > 0
<1> DEFINE t == Turns(current[i], s)
           w == Weight[i]
           c == Ticked(current)[i]
           f == Ticked(Full(digits))[i]
<1>1. w \in Nat /\ w > 0 /\ i \in 0 .. Levels
  BY LevelFacts
<1>2. t \in Nat /\ t >= 1
  BY WheelAssumption DEF Turns, TypeOK, Slot
<1>3. c \in Nat /\ c < w
  BY <1>1, TickedBound DEF TypeOK
<1>4. f \in Nat
  <2> DEFINE S == {k \in 0 .. Levels : Ticked(Full(digits))[k] \in Nat}
  <2>1. Full(digits) \in [Level -> Int] /\ \A k \in Level : Full(digits)[k] \in Nat
    BY DigitsAreInts, WheelAssumption DEF Full, Slot
  <2>2. 0 \in S
    <3>1. Ticked(Full(digits))[0] = 0
      BY <2>1, TickedDef
    <3> QED
      BY <3>1, WheelAssumption
  <2>3. ASSUME NEW k \in Level, k \in S PROVE k + 1 \in S
    <3>1. Ticked(Full(digits))[k + 1] = Ticked(Full(digits))[k] + Full(digits)[k] * Weight[k]
      BY <2>1, TickedDef
    <3>2. Full(digits)[k] * Weight[k] \in Nat
      BY <2>1, LevelFacts
    <3> QED
      BY <2>3, <3>1, <3>2, LevelFacts
  <2>4. 0 .. Levels \subseteq S
    <3> HIDE DEF S
    <3> QED
      BY <2>2, <2>3, InductionOverLevels
  <2> QED
    BY <1>1, <2>4
<1> HIDE DEF t, w, c, f
<1>5. t * w >= w /\ t * w \in Nat
  BY <1>1, <1>2
<1>6. Wait(i, s, digits) = t * w - c + f
  BY DEF Wait, t, w, c, f
<1> QED
  BY <1>1, <1>3, <1>4, <1>5, <1>6

(* A tick that level n does not see adds one to the ticks below n; a tick  *)
(* that it sees finds all of them and sets them to zero.                   *)
LEMMA TickedTick ==
  ASSUME TypeOK, Tick, NEW n \in Level
  PROVE  IF Ticks(n) THEN /\ Ticked(current)[n] = Weight[n] - 1
                          /\ Ticked(current')[n] = 0
                     ELSE Ticked(current')[n] = Ticked(current)[n] + 1
<1> DEFINE c == current
           d == current'
           Law(k) == IF Ticks(k) THEN Ticked(c)[k] = Weight[k] - 1 /\ Ticked(d)[k] = 0
                                 ELSE Ticked(d)[k] = Ticked(c)[k] + 1
           S == {k \in 0 .. Levels : Law(k)}
<1>1. c \in [Level -> Slot] /\ d \in [Level -> Slot]
  BY TickType DEF TypeOK
<1>2. c \in [Level -> Int] /\ d \in [Level -> Int]
  BY <1>1 DEF Slot
<1>3. 0 \in S
  <2>1. Ticks(0)
    BY WheelAssumption DEF Ticks, Level
  <2>2. Ticked(c)[0] = 0 /\ Ticked(d)[0] = 0 /\ Weight[0] = 1
    <3> HIDE DEF c, d
    <3> QED
      BY <1>2, TickedDef, WeightDef
  <2> QED
    BY <2>1, <2>2, WheelAssumption
<1>4. ASSUME NEW k \in Level, k \in S PROVE k + 1 \in S
  <2>1. Ticks(k + 1) <=> Ticks(k) /\ c[k] = Base - 1
    BY LevelFacts DEF Ticks, Level
  <2>2. d[k] = IF Ticks(k) THEN (c[k] + 1) % Base ELSE c[k]
    BY DEF Tick, Advanced
  <2> DEFINE w == Weight[k]
  <2>3. /\ Ticked(c)[k + 1] = Ticked(c)[k] + c[k] * w
        /\ Ticked(d)[k + 1] = Ticked(d)[k] + d[k] * w
        /\ w \in Nat /\ Weight[k + 1] = Base * w /\ k + 1 \in 0 .. Levels
    <3> HIDE DEF c, d
    <3> QED
      BY <1>2, TickedDef, LevelFacts
  <2>4. Ticked(c)[k] \in Int /\ Ticked(d)[k] \in Int
    <3>1. k \in 0 .. Levels
      BY LevelFacts
    <3> HIDE DEF c, d
    <3> QED
      BY <3>1, <1>2, TickedDef
  <2>5. c[k] \in Nat /\ c[k] < Base /\ Base \in Nat \ {0, 1}
    BY <1>1, WheelAssumption DEF Slot
  <2>6. IF Ticks(k) THEN Ticked(c)[k] = w - 1 /\ Ticked(d)[k] = 0
                    ELSE Ticked(d)[k] = Ticked(c)[k] + 1
    BY <1>4
  <2>7. SUFFICES Law(k + 1)
    BY <2>3
  <2> HIDE DEF c, d, w
  <2>8. CASE ~Ticks(k)
    BY <2>1, <2>2, <2>3, <2>4, <2>5, <2>6, <2>8
  <2>9. CASE Ticks(k) /\ c[k] = Base - 1
    <3>2. d[k] * w = 0
      BY <1>1, <2>2, <2>3, <2>9, NextSlot
    <3>3. c[k] * w = Base * w - w /\ Base * w \in Int
      BY <2>3, <2>5, <2>9
    <3>4. Ticked(c)[k + 1] = Base * w - 1 /\ Ticked(d)[k + 1] = 0
      BY <2>3, <2>4, <2>6, <2>9, <3>2, <3>3
    <3> QED
      BY <2>1, <2>3, <2>9, <3>4
  <2>10. CASE Ticks(k) /\ c[k] # Base - 1
    <3>2. d[k] * w = c[k] * w + w
      BY <1>1, <2>2, <2>3, <2>5, <2>10, NextSlot
    <3>3. c[k] * w \in Int
      BY <2>3, <2>5
    <3>4. Ticked(d)[k + 1] = Ticked(c)[k + 1] + 1
      BY <2>3, <2>4, <2>6, <2>10, <3>2, <3>3
    <3> QED
      BY <2>1, <2>10, <3>4
  <2> QED
    BY <2>8, <2>9, <2>10
<1>5. 0 .. Levels \subseteq S
  <2> HIDE DEF S
  <2> QED
    BY <1>3, <1>4, InductionOverLevels
<1> QED
  BY <1>5, LevelFacts

(* A tick brings every item that it does not return one tick closer, and   *)
(* returns those for whom it was the last.                                 *)
LEMMA WaitTick ==
  ASSUME TypeOK, Tick, NEW i \in Level, NEW s \in Slot, NEW x \in slots'[i][s]
  PROVE  \E j \in Level, t \in Slot :
           x \in slots[j][t] /\ Wait(i, s, x.digits)' = Wait(j, t, x.digits) - 1
<1> DEFINE c == current
           d == current'
           w == Weight[i]
           f == Ticked(Full(x.digits))
<1>1. c \in [Level -> Slot] /\ d \in [Level -> Slot]
  BY TickType DEF TypeOK
<1>2. x.digits \in [Level -> Slot] /\ Full(x.digits) \in [Level -> Int]
  <2>1. x \in Item
    BY TickType DEF TypeOK
  <2> QED
    BY <2>1, DigitsAreInts DEF Item
<1>3. /\ i \in 0 .. Levels /\ w \in Nat /\ Weight[i + 1] = Base * w /\ Base \in Nat \ {0, 1}
      /\ c[i] \in Nat /\ d[i] \in Nat /\ s \in Nat
      /\ c[i] < Base /\ d[i] < Base /\ s < Base
  BY <1>1, LevelFacts, WheelAssumption DEF Slot
<1>4. c \in [Level -> Int] /\ d \in [Level -> Int]
  BY <1>1 DEF Slot
<1>5. Ticked(c)[i] \in Int /\ Ticked(d)[i] \in Int /\ f[i] \in Int
  <2> HIDE DEF c, d
  <2> QED
    BY <1>2, <1>3, <1>4, TickedDef
<1>6. d[i] = IF Ticks(i) THEN (c[i] + 1) % Base ELSE c[i]
  BY DEF Tick, Advanced
<1>7. IF Ticks(i) THEN Ticked(c)[i] = w - 1 /\ Ticked(d)[i] = 0
                  ELSE Ticked(d)[i] = Ticked(c)[i] + 1
  BY TickedTick
<1>8. /\ Wait(i, s, x.digits)' = Turns(d[i], s) * w - Ticked(d)[i] + f[i]
      /\ Wait(i, s, x.digits) = Turns(c[i], s) * w - Ticked(c)[i] + f[i]
  BY DEF Wait
<1>9. (c[i] + 1) % Base = IF c[i] = Base - 1 THEN 0 ELSE c[i] + 1
  BY <1>1, NextSlot
<1>10. \/ x \in slots[i][s] /\ ~(Ticks(i) /\ s = Advanced(i))
       \/ /\ i + 1 \in Level /\ Ticks(i + 1) /\ Advanced(i + 1) \in Slot
          /\ x \in slots[i + 1][Advanced(i + 1)]
          /\ s = (Advanced(i) + x.digits[i]) % Base
  BY TickOrigin
<1>11. CASE x \in slots[i][s] /\ ~(Ticks(i) /\ s = Advanced(i))
  <2>1. Wait(i, s, x.digits)' = Wait(i, s, x.digits) - 1
    <3>1. s # d[i] \/ ~Ticks(i)
      BY <1>11 DEF Tick
    <3> HIDE DEF c, d, w, f
    <3>2. CASE ~Ticks(i)
      <4>1. Turns(d[i], s) = Turns(c[i], s) /\ Turns(c[i], s) * w \in Int
        BY <1>3, <1>6, <3>2 DEF Turns
      <4> QED
        BY <1>3, <1>5, <1>7, <1>8, <3>2, <4>1
    <3>3. CASE Ticks(i)
      <4>1. Turns(c[i], s) = Turns(d[i], s) + 1 /\ Turns(d[i], s) \in Int
        <5>1. d[i] = IF c[i] = Base - 1 THEN 0 ELSE c[i] + 1
          BY <1>6, <1>9, <3>3
        <5>2. /\ Base \in Nat /\ c[i] \in Nat /\ s \in Nat /\ c[i] < Base /\ s < Base
          BY <1>3
        <5>3. s # d[i]
          BY <3>1, <3>3
        <5> QED
          BY <5>1, <5>2, <5>3 DEF Turns
      <4>2. Turns(c[i], s) * w = Turns(d[i], s) * w + w /\ Turns(d[i], s) * w \in Int
        BY <1>3, <4>1
      <4>3. Ticked(c)[i] = w - 1 /\ Ticked(d)[i] = 0
        BY <1>7, <3>3
      <4>4. Wait(i, s, x.digits)' = Turns(d[i], s) * w - 0 + f[i]
        BY <1>8, <4>3
      <4>5. Wait(i, s, x.digits) = (Turns(d[i], s) * w + w) - (w - 1) + f[i]
        BY <1>8, <4>2, <4>3
      <4> DEFINE r == Turns(d[i], s) * w
      <4>6. r \in Int
        BY <4>2
      <4> HIDE DEF r
      <4> QED
        BY <1>3, <1>5, <4>4, <4>5, <4>6 DEF r
    <3> QED
      BY <3>2, <3>3
  <2> QED
    BY <1>11, <2>1
<1>12. CASE /\ i + 1 \in Level /\ Ticks(i + 1) /\ Advanced(i + 1) \in Slot
            /\ x \in slots[i + 1][Advanced(i + 1)]
            /\ s = (Advanced(i) + x.digits[i]) % Base
  <2> DEFINE j == i + 1
             t == Advanced(j)
             p == x.digits[i]
             full == Full(x.digits)[i]
  <2>1. Ticks(i) /\ c[i] = Base - 1
    BY <1>12, LevelFacts DEF Ticks, Level
  <2>2. d[i] = 0 /\ Advanced(i) = 0
    BY <1>6, <1>9, <2>1 DEF Advanced
  <2>3. Turns(d[i], s) = full
    <3>1. 0 \in Slot /\ p \in Slot
      BY <1>2, WheelAssumption DEF Slot
    <3>2. Turns(0, (0 + p) % Base) = IF p = 0 THEN Base ELSE p
      BY <3>1, TurnsAhead
    <3> QED
      BY <1>12, <2>2, <3>2 DEF Full
  <2>4. Wait(i, s, x.digits)' = full * w + f[i]
    <3>1. full \in Int
      BY <1>2
    <3> HIDE DEF c, d, w, f, full
    <3> QED
      BY <1>3, <1>5, <1>7, <1>8, <2>1, <2>3, <3>1
  <2>5. Wait(j, t, x.digits) = full * w + f[i] + 1
    <3>1. Turns(c[j], t) = 1
      <4>1. c[j] \in Nat /\ c[j] < Base /\ t = (c[j] + 1) % Base /\ 1 \in Slot /\ c[j] \in Slot
        BY <1>1, <1>12, WheelAssumption DEF Advanced, Slot
      <4>2. Turns(c[j], (c[j] + 1) % Base) = 1
        BY <4>1, TurnsAhead
      <4> QED
        BY <4>1, <4>2
    <3>2. Ticked(c)[j] = Weight[j] - 1
      BY <1>12, TickedTick
    <3>3. f[j] = f[i] + full * w
      BY <1>2, TickedDef
    <3>4. Weight[j] \in Nat /\ full \in Int /\ full * w \in Int
      BY <1>2, <1>3, <1>12, LevelFacts
    <3>5. Wait(j, t, x.digits) = Turns(c[j], t) * Weight[j] - Ticked(c)[j] + f[j]
      BY DEF Wait
    <3> HIDE DEF c, d, w, f, full, j, t
    <3> QED
      BY <1>5, <3>1, <3>2, <3>3, <3>4, <3>5
  <2>6. full * w + f[i] \in Int
    BY <1>2, <1>3, <1>5
  <2>7. Wait(i, s, x.digits)' = Wait(j, t, x.digits) - 1
    <3> HIDE DEF full, f, w, j, t
    <3> QED
      BY <2>4, <2>5, <2>6
  <2> QED
    BY <1>12, <2>7
<1> QED
  BY <1>10, <1>11, <1>12

(* What a tick returns has waited for its last tick.                       *)
LEMMA LastTick ==
  ASSUME TypeOK, NEW x \in Expired(0)
  PROVE  \E t \in Slot : x \in slots[0][t] /\ Wait(0, t, x.digits) = 1
<1> DEFINE c == current
           t == Advanced(0)
<1>1. 0 \in Level /\ t \in Slot /\ x \in slots[0][t] /\ Ticks(0)
  BY AdvancedType, WheelAssumption DEF Expired, Ticks, Level
<1>2. c[0] \in Slot /\ 1 \in Slot /\ t = (c[0] + 1) % Base
  BY <1>1, WheelAssumption DEF TypeOK, Advanced, Slot
<1>3. Turns(c[0], t) = 1
  <2>1. Turns(c[0], (c[0] + 1) % Base) = 1
    BY <1>2, TurnsAhead
  <2> QED
    BY <1>2, <2>1
<1>4. c \in [Level -> Int] /\ Full(x.digits) \in [Level -> Int]
  <2>1. x \in Item
    BY <1>1 DEF TypeOK
  <2> QED
    BY <2>1, DigitsAreInts DEF Item, TypeOK, Slot
<1>5. Ticked(c)[0] = 0 /\ Ticked(Full(x.digits))[0] = 0 /\ Weight[0] = 1
  <2> HIDE DEF c
  <2> QED
    BY <1>4, TickedDef, WeightDef
<1>6. Wait(0, t, x.digits) = 1
  BY <1>3, <1>5 DEF Wait
<1> QED
  BY <1>1, <1>6
-----------------------------------------------------------------------------
(* The specification.                                                      *)

(* Insertion files the entry with its delay and its lateness.              *)
LEMMA TimedInsertStep ==
  ASSUME TimedInv, NEW e \in Entries, NEW delay \in Nat, TimedInsert(e, delay)
  PROVE  TimedInv'
<1> DEFINE digits == Digits(delay)
           l == LevelOf(digits)
           slot == (current[l] + digits[l]) % Base
           new == [value |-> e, digits |-> digits]
<1>1. TypeOK /\ Insert(e, delay) /\ ~Contained(e)
  BY DEF TimedInv, WheelInv, TimedInsert, Insert
<1>2. WheelInv'
  BY <1>1, InsertStep DEF TimedInv
<1>3. digits \in [Level -> Slot] /\ l \in Level
  BY DigitsType, LevelOfHighest
<1>4. slots' = [slots EXCEPT ![l][slot] = @ \cup {new}] /\ current' = current
  BY <1>1 DEF Insert
<1>5. Position \in Nat
  <2>1. current \in [Level -> Slot] /\ Levels \in 0 .. Levels
    BY <1>1, WheelAssumption DEF TypeOK
  <2> QED
    BY <2>1, TickedBound DEF Position
<1>6. /\ left' = [left EXCEPT ![e] = delay]
      /\ born' = [born EXCEPT ![e] = [delay |-> delay, at |-> Position]]
  BY DEF TimedInsert
<1>7. /\ Lateness(delay, Position) \in Int
      /\ Wait(l, slot, digits) = delay + Lateness(delay, Position)
  BY <1>1, WaitWhenInserted
<1>8. /\ left'[e] = delay /\ Late(e)' = Lateness(delay, Position)
      /\ \A k \in Entries : k # e => left'[k] = left[k] /\ Late(k)' = Late(k)
  BY <1>6 DEF TimedInv, Recorded, Late
<1>9. Recorded'
  <2>1. left' \in [Entries -> Int] /\ born' \in [Entries -> [delay : Nat, at : Nat]]
    BY <1>5, <1>6 DEF TimedInv, Recorded
  <2>2. \A k \in Entries : Late(k)' \in Int
    BY <1>7, <1>8 DEF TimedInv, Recorded, Late
  <2> QED
    BY <2>1, <2>2 DEF Recorded, Late
<1>10. WaitsAsLateness'
  <2> SUFFICES ASSUME NEW i \in Level, NEW s \in Slot, NEW x \in slots'[i][s]
               PROVE  Wait(i, s, x.digits)' = left'[x.value] + Late(x.value)'
    BY DEF WaitsAsLateness
  <2>1. Wait(i, s, x.digits)' = Wait(i, s, x.digits)
    BY <1>4 DEF Wait
  <2>2. x \in slots[i][s] \/ (i = l /\ s = slot /\ x = new)
    <3> HIDE DEF new, slot, l, digits
    <3> QED
      BY <1>1, <1>3, <1>4 DEF TypeOK
  <2>3. CASE x \in slots[i][s]
    <3>1. x.value \in Entries /\ x.value # e
      BY <1>1, <2>3 DEF TypeOK, Item, Contained
    <3> QED
      BY <1>8, <2>1, <2>3, <3>1 DEF TimedInv, WaitsAsLateness
  <2>4. CASE i = l /\ s = slot /\ x = new
    <3>1. x.value = e /\ x.digits = digits
      BY <2>4
    <3> QED
      BY <1>7, <1>8, <2>1, <2>4, <3>1
  <2> QED
    BY <2>2, <2>3, <2>4
<1>11. ReleasedLate'
  <2>1. results' = results \ {e} /\ results \subseteq Entries
    BY <1>1 DEF Insert, TypeOK
  <2> QED
    BY <1>8, <2>1 DEF TimedInv, ReleasedLate
<1> QED
  BY <1>2, <1>9, <1>10, <1>11 DEF TimedInv

(* A tick counts every entry of the wheel down by one.                     *)
LEMMA TimedTickStep == TimedInv /\ TimedTick => TimedInv'
<1> SUFFICES ASSUME TimedInv, TimedTick PROVE TimedInv'
  OBVIOUS
<1>1. TypeOK /\ Tick /\ WheelInv'
  BY TickStep DEF TimedInv, WheelInv, TimedTick
<1>2. /\ left' = [e \in Entries |-> IF Contained(e) THEN left[e] - 1 ELSE left[e]]
      /\ born' = born
  BY DEF TimedTick
<1>3. /\ left \in [Entries -> Int]
      /\ \A e \in Entries : Late(e) \in Int /\ Late(e)' = Late(e)
  BY <1>2 DEF TimedInv, Recorded, Late
<1>4. ASSUME NEW j \in Level, NEW t \in Slot, NEW x \in slots[j][t]
      PROVE  /\ x.value \in Entries /\ left'[x.value] = left[x.value] - 1
             /\ Wait(j, t, x.digits) = left[x.value] + Late(x.value)
  <2>1. x.value \in Entries /\ Contained(x.value)
    BY <1>1 DEF TypeOK, Item, Contained
  <2> QED
    BY <1>2, <2>1 DEF TimedInv, WaitsAsLateness
<1>5. Recorded'
  <2>1. left' \in [Entries -> Int]
    BY <1>2, <1>3
  <2> QED
    BY <1>2, <2>1 DEF TimedInv, Recorded
<1>6. WaitsAsLateness'
  <2> SUFFICES ASSUME NEW i \in Level, NEW s \in Slot, NEW x \in slots'[i][s]
               PROVE  Wait(i, s, x.digits)' = left'[x.value] + Late(x.value)'
    BY DEF WaitsAsLateness
  <2>1. PICK j \in Level, t \in Slot :
          x \in slots[j][t] /\ Wait(i, s, x.digits)' = Wait(j, t, x.digits) - 1
    BY <1>1, WaitTick
  <2>2. /\ x.value \in Entries /\ left'[x.value] = left[x.value] - 1
        /\ Wait(j, t, x.digits) = left[x.value] + Late(x.value)
    BY <1>4, <2>1
  <2>3. left[x.value] \in Int /\ Late(x.value) \in Int /\ Late(x.value)' = Late(x.value)
    BY <1>3, <2>2
  <2> QED
    BY <2>1, <2>2, <2>3
<1>7. ReleasedLate'
  <2> SUFFICES ASSUME NEW e \in results' PROVE left'[e] = -(Late(e)')
    BY DEF ReleasedLate
  <2>1. PICK x \in Expired(0) : e = x.value
    BY <1>1 DEF Tick
  <2>2. PICK t \in Slot : x \in slots[0][t] /\ Wait(0, t, x.digits) = 1
    BY <1>1, LastTick
  <2>3. 0 \in Level
    BY WheelAssumption DEF Level
  <2>4. e \in Entries /\ left'[e] = left[e] - 1 /\ 1 = left[e] + Late(e)
    BY <1>4, <2>1, <2>2, <2>3
  <2>5. left[e] \in Int /\ Late(e) \in Int /\ Late(e)' = Late(e)
    BY <1>3, <2>4
  <2> QED
    BY <2>4, <2>5
<1> QED
  BY <1>1, <1>5, <1>6, <1>7 DEF TimedInv

(* An empty wheel keeps nobody waiting.                                    *)
LEMMA TimedEmpty ==
  ASSUME Recorded, WheelInv, \A e : ~Contained(e), results = {}
  PROVE  TimedInv
BY DEF TimedInv, WaitsAsLateness, ReleasedLate, Contained

(* The invariant is inductive.                                             *)
LEMMA TimedInvariant == TimedSpec => []TimedInv
<1>1. TimedInit => TimedInv
  <2> SUFFICES ASSUME TimedInit PROVE TimedInv
    OBVIOUS
  <2>1. WheelInv /\ (\A e : ~Contained(e)) /\ results = {}
    BY EmptyWheel DEF TimedInit, Init
  <2>2. Recorded
    <3>1. /\ left \in [Entries -> Int]
          /\ born \in [Entries -> [delay : Nat, at : Nat]]
          /\ \A e \in Entries : born[e].delay = 0 /\ born[e].at = 0
      BY DEF TimedInit
    <3>2. Position = 0
      <4>1. current \in [Level -> Int] /\ \A i \in Level : 0 <= i => current[i] = 0
        BY DEF TimedInit, Init
      <4>2. 0 \in 0 .. Levels /\ Ticked(current)[0] = 0
        BY <4>1, TickedDef, WheelAssumption
      <4> QED
        BY <4>1, <4>2, TickedZeros DEF Position
    <3>3. Lateness(0, 0) \in Int
      BY <2>1, <3>2, WaitWhenInserted DEF WheelInv
    <3> QED
      BY <3>1, <3>3 DEF Recorded
  <2> QED
    BY <2>1, <2>2, TimedEmpty
<1>2. TimedInv /\ [TimedNext]_timedVars => TimedInv'
  <2> SUFFICES ASSUME TimedInv, [TimedNext]_timedVars PROVE TimedInv'
    OBVIOUS
  <2>1. ASSUME NEW e \in Entries, NEW delay \in 0 .. MaxDelay, TimedInsert(e, delay)
        PROVE  TimedInv'
    BY <2>1, TimedInsertStep, WheelAssumption
  <2>2. CASE TimedTick
    BY <2>2, TimedTickStep
  <2>3. CASE TimedClear
    <3>1. WheelInv' /\ (\A e : ~Contained(e)') /\ results' = {}
      BY <2>3, ClearStep DEF TimedClear, Clear
    <3>2. Recorded'
      BY <2>3 DEF TimedClear, TimedInv, Recorded
    <3> QED
      BY <3>1, <3>2 DEF TimedInv, WaitsAsLateness, ReleasedLate, Contained
  <2>4. CASE UNCHANGED timedVars
    BY <2>4
    DEF timedVars, vars, TimedInv, WheelInv, TypeOK, InOneSlot, ReleasedIsOut, Contained,
        Recorded, WaitsAsLateness, ReleasedLate, Wait, Late
  <2> QED
    BY <2>1, <2>2, <2>3, <2>4 DEF TimedNext
<1> QED
  BY <1>1, <1>2, PTL DEF TimedSpec

(* Every entry is released by exactly its lateness after it was due, and   *)
(* an entry that is still in the wheel has not yet come to that.           *)
THEOREM WheelKeepsTheLaw == TimedSpec => []FiringLaw
<1>1. TimedInv => FiringLaw
  <2> SUFFICES ASSUME TimedInv PROVE FiringLaw
    OBVIOUS
  <2>1. ASSUME NEW e \in results PROVE left[e] = -Late(e)
    BY DEF TimedInv, ReleasedLate
  <2>2. ASSUME NEW e \in Entries, Contained(e) PROVE left[e] > -Late(e)
    <3>1. PICK i \in Level, s \in Slot : \E x \in slots[i][s] : x.value = e
      BY <2>2 DEF Contained
    <3>2. PICK x \in slots[i][s] : x.value = e
      BY <3>1
    <3>3. x.digits \in [Level -> Slot]
      BY <3>2 DEF TimedInv, WheelInv, TypeOK, Item
    <3>4. Wait(i, s, x.digits) > 0 /\ Wait(i, s, x.digits) \in Int
      BY <3>3, WaitIsPositive DEF TimedInv, WheelInv
    <3>5. Wait(i, s, x.digits) = left[e] + Late(e)
      BY <3>2 DEF TimedInv, WaitsAsLateness
    <3>6. left[e] \in Int /\ Late(e) \in Int
      BY DEF TimedInv, Recorded, Late
    <3> QED
      BY <3>4, <3>5, <3>6
  <2> QED
    BY <2>1, <2>2 DEF FiringLaw, Late
<1> QED
  BY <1>1, TimedInvariant, PTL
=============================================================================
