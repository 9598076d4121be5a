----------------------- MODULE SchedulerEngineProofs -----------------------
(***************************************************************************)
(* Proofs about SchedulerEngine for every set of entries, every wheel, both*)
(* clocks and every number of advancing threads and sleepers: the types,   *)
(* the bound on the drift of the virtual clock, and that the engine        *)
(* implements EngineContract.                                              *)
(***************************************************************************)
EXTENDS SchedulerEngine, Integers, FiniteSetTheorems, SequenceTheorems, TLAPS

-----------------------------------------------------------------------------
(***************************************************************************)
(* The clock: what each of its steps keeps.                                *)
(***************************************************************************)
\* The engine's loop calls tick() again.
TickCalled ==
  /\ ticking = "away" /\ ticking' = "call"
  /\ UNCHANGED <<clock, time, buffered, advanceVars, sleepVars, previous, ticked,
                 signalled, raises>>

\* Everything that can happen to the clock.
ClockNext == ClockStep \/ TickReturns \/ TickCalled \/ UNCHANGED clockVars

(* A step of advance() or advance_to() keeps every variable in its type.   *)
LEMMA AdvanceType ==
  ASSUME ClockTypeOK, NEW a \in Advancers, NEW t \in Nat,
         AdvanceTo(a, t) \/ AdvanceStep(a)
  PROVE  ClockTypeOK'
<1>1. CASE AdvanceTo(a, t)
  BY <1>1, ClockAssumption DEF AdvanceTo, ClockTypeOK, sleepVars, tickVars
<1>2. CASE FetchMax(a)
  BY <1>2, ClockAssumption DEF FetchMax, ClockTypeOK, sleepVars, tickVars
<1>3. CASE NotifyAdvance(a)
  BY <1>3 DEF NotifyAdvance, Listening, ClockTypeOK, sleepVars, tickVars
<1> QED
  BY <1>1, <1>2, <1>3 DEF AdvanceStep

(* A step of idle_to() keeps every variable in its type.                   *)
LEMMA IdleType ==
  ASSUME ClockTypeOK, NEW s \in Sleepers, NEW t \in 0 .. MaxTime,
         IdleTo(s, t) \/ IdleStep(s)
  PROVE  ClockTypeOK'
BY DEF IdleTo, IdleStep, IdleListen, IdleCheck, IdleAwait, IdleWoken, SleepTo,
       ClockTypeOK, advanceVars, tickVars

(* A step of tick() keeps every variable in its type.                      *)
LEMMA TickingType ==
  ClockTypeOK /\ (TickStep \/ TickReturns \/ TickCalled) => ClockTypeOK'
<1> SUFFICES ASSUME ClockTypeOK, TickStep \/ TickReturns \/ TickCalled
             PROVE  ClockTypeOK'
  OBVIOUS
<1>1. CASE TickPrevious
  BY <1>1 DEF TickPrevious, ClockTypeOK, tickOutside, advanceVars, sleepVars
<1>2. CASE TickListen
  BY <1>2 DEF TickListen, ClockTypeOK, tickOutside, advanceVars, sleepVars
<1>3. CASE TickBuffered
  BY <1>3 DEF TickBuffered, ClockTypeOK, tickOutside, advanceVars, sleepVars
<1>4. CASE TickWoken
  <2>1. Missed \in Nat
    BY DEF Missed, ClockTypeOK
  <2> QED
    BY <1>4, <2>1 DEF TickWoken, ClockTypeOK, tickOutside, advanceVars, sleepVars
<1>5. CASE TickCalled
  BY <1>5 DEF TickCalled, ClockTypeOK, advanceVars, sleepVars
<1> QED
  BY <1>1, <1>2, <1>3, <1>4, <1>5 DEF TickStep, TickReturns

(* Every step of the clock keeps every variable in its type.               *)
LEMMA ClockType == ClockTypeOK /\ ClockNext => ClockTypeOK'
<1> SUFFICES ASSUME ClockTypeOK, ClockNext PROVE ClockTypeOK'
  OBVIOUS
<1>1. ASSUME NEW a \in Advancers, NEW d \in Durations, Advance(a, d)
      PROVE  ClockTypeOK'
  <2>1. time + d \in Nat
    BY ClockAssumption DEF ClockTypeOK
  <2> QED
    BY <1>1, <2>1, AdvanceType DEF Advance
<1>2. ASSUME NEW a \in Advancers, NEW t \in 0 .. MaxTime, AdvanceTo(a, t)
      PROVE  ClockTypeOK'
  BY <1>2, AdvanceType
<1>3. ASSUME NEW a \in Advancers, AdvanceStep(a) PROVE ClockTypeOK'
  <2>1. 0 \in Nat
    OBVIOUS
  <2> QED
    BY <1>3, <2>1, AdvanceType
<1>4. ASSUME NEW s \in Sleepers, NEW t \in 0 .. MaxTime, IdleTo(s, t)
      PROVE  ClockTypeOK'
  BY <1>4, IdleType
<1>5. ASSUME NEW s \in Sleepers, IdleStep(s) PROVE ClockTypeOK'
  <2>1. 0 \in 0 .. MaxTime
    BY ClockAssumption
  <2> QED
    BY <1>5, <2>1, IdleType
<1>6. CASE Beat
  BY <1>6 DEF Beat, Listening, ClockTypeOK, advanceVars, sleepVars, tickVars
<1>7. CASE UNCHANGED clockVars
  BY <1>7 DEF clockVars, ClockTypeOK, advanceVars, sleepVars, tickVars
<1> QED
  BY <1>1, <1>2, <1>3, <1>4, <1>5, <1>6, <1>7, TickingType DEF ClockNext, ClockStep

-----------------------------------------------------------------------------
(* The drift of the virtual clock.                                         *)

\* The advances that have raised the time and not notified anyone of it yet.
Raising == {a \in Advancers : advancing[a] = "notify"}

\* The notifications that a call of tick() may still take for a tick.
Pending == Cardinality(Raising) + (IF "engine" \in signalled THEN 1 ELSE 0)

\* The ticks made, held back and still to come.
Counted == ticked + buffered + Pending

\* A notified engine waits.  No tick is ahead of the time by more than one for
\* every raise but the first, those of the notifications under way included; and
\* a call of tick() that has read the time was not ahead of it then by more than
\* one for every raise.
DriftInv ==
  /\ IsFiniteSet(Raising)
  /\ "engine" \in signalled => ticking = "wait"
  /\ raises = 0 => time = 0
  /\ clock = "progressive" => buffered = 0 /\ ticked = 0
  /\ clock = "virtual" =>
       /\ Counted <= time + (IF raises = 0 THEN 0 ELSE raises - 1)
       /\ ticking \in {"listen", "wait"} => Counted <= previous + raises

(* The bound holds when it holds with what is under way.                   *)
LEMMA DriftBound == ClockTypeOK /\ DriftInv => DriftBounded
<1> SUFFICES ASSUME ClockTypeOK, DriftInv PROVE DriftBounded
  OBVIOUS
<1>1. Cardinality(Raising) \in Nat
  BY FS_CardinalityType DEF DriftInv
<1>2. clock \in {"virtual", "progressive"}
  BY ClockAssumption DEF ClockTypeOK
<1> QED
  BY <1>1, <1>2 DEF DriftInv, DriftBounded, Counted, Pending, ClockTypeOK

(* The number of advances under way changes by one, or not.                *)
LEMMA RaisingChanges ==
  ASSUME ClockTypeOK, IsFiniteSet(Raising), NEW a \in Advancers, NEW l,
         advancing' = [advancing EXCEPT ![a] = l]
  PROVE  /\ IsFiniteSet(Raising') /\ Cardinality(Raising) \in Nat
         /\ Cardinality(Raising') =
              IF advancing[a] = "notify"
              THEN IF l = "notify" THEN Cardinality(Raising) ELSE Cardinality(Raising) - 1
              ELSE IF l = "notify" THEN Cardinality(Raising) + 1 ELSE Cardinality(Raising)
<1>1. Cardinality(Raising) \in Nat
  BY FS_CardinalityType
<1>2. CASE advancing[a] = "notify" /\ l = "notify"
  <2>1. Raising' = Raising
    BY <1>2 DEF Raising, ClockTypeOK
  <2> QED
    BY <1>1, <1>2, <2>1
<1>3. CASE advancing[a] = "notify" /\ l # "notify"
  <2>1. Raising' = Raising \ {a} /\ a \in Raising
    BY <1>3 DEF Raising, ClockTypeOK
  <2>2. IsFiniteSet(Raising') /\ Cardinality(Raising') = Cardinality(Raising) - 1
    BY <2>1, FS_RemoveElement
  <2> QED
    BY <1>1, <1>3, <2>2
<1>4. CASE advancing[a] # "notify" /\ l = "notify"
  <2>1. Raising' = Raising \cup {a} /\ a \notin Raising
    BY <1>4 DEF Raising, ClockTypeOK
  <2>2. IsFiniteSet(Raising') /\ Cardinality(Raising') = Cardinality(Raising) + 1
    BY <2>1, FS_AddElement
  <2> QED
    BY <1>1, <1>4, <2>2
<1>5. CASE advancing[a] # "notify" /\ l # "notify"
  <2>1. Raising' = Raising
    BY <1>5 DEF Raising, ClockTypeOK
  <2> QED
    BY <1>1, <1>5, <2>1
<1> QED
  BY <1>2, <1>3, <1>4, <1>5

(* A step that changes none of what the bound is about keeps it.           *)
LEMMA DriftOutside ==
  ASSUME ClockTypeOK, DriftInv,
         UNCHANGED <<clock, time, advancing, tickVars, raises>>,
         ("engine" \in signalled') = ("engine" \in signalled)
  PROVE  DriftInv'
BY DEF DriftInv, Counted, Pending, Raising, tickVars

(* Every step of an advance keeps the invariant.                           *)
LEMMA DriftAdvance ==
  ASSUME ClockTypeOK, DriftInv, NEW a \in Advancers, NEW t \in Nat,
         AdvanceTo(a, t) \/ AdvanceStep(a)
  PROVE  DriftInv'
<1>1. CASE AdvanceTo(a, t)
  <2>1. Raising' = Raising
    BY <1>1 DEF AdvanceTo, Raising, ClockTypeOK
  <2> QED
    BY <1>1, <2>1 DEF AdvanceTo, DriftInv, Counted, Pending, tickVars
<1>2. CASE FetchMax(a)
  <2>1. CASE time < goal[a]
    <3>1. /\ advancing[a] # "notify"
          /\ advancing' = [advancing EXCEPT ![a] = "notify"]
          /\ time' = goal[a] /\ raises' = raises + 1
          /\ UNCHANGED <<clock, tickVars, signalled>>
      BY <1>2, <2>1 DEF FetchMax
    <3>2. /\ IsFiniteSet(Raising') /\ Cardinality(Raising) \in Nat
          /\ Cardinality(Raising') = Cardinality(Raising) + 1
      BY <3>1, RaisingChanges DEF DriftInv
    <3>3. goal[a] \in Nat
      BY ClockAssumption DEF ClockTypeOK
    <3>4. Counted' = Counted + 1 /\ Counted \in Nat
      BY <3>1, <3>2 DEF Counted, Pending, tickVars, ClockTypeOK
    <3> QED
      BY <2>1, <3>1, <3>2, <3>3, <3>4 DEF DriftInv, ClockTypeOK, tickVars
  <2>2. CASE ~(time < goal[a])
    <3>1. Raising' = Raising
      BY <1>2, <2>2 DEF FetchMax, Raising, ClockTypeOK
    <3> QED
      BY <1>2, <2>2, <3>1 DEF FetchMax, DriftInv, Counted, Pending, tickVars
  <2> QED
    BY <2>1, <2>2
<1>3. CASE NotifyAdvance(a)
  <2>1. /\ IsFiniteSet(Raising') /\ Cardinality(Raising) \in Nat
        /\ Cardinality(Raising') = Cardinality(Raising) - 1
    BY <1>3, RaisingChanges DEF NotifyAdvance, DriftInv
  <2>2. /\ UNCHANGED <<clock, time, tickVars, raises>>
        /\ "engine" \in signalled' => ticking = "wait"
    BY <1>3, ClockAssumption DEF NotifyAdvance, Listening, DriftInv
  <2>3. Counted' <= Counted /\ Counted \in Nat /\ Counted' \in Int
    BY <2>1, <2>2, <1>3 DEF Counted, Pending, tickVars, ClockTypeOK, NotifyAdvance
  <2> QED
    BY <2>1, <2>2, <2>3 DEF DriftInv, ClockTypeOK, tickVars
<1> QED
  BY <1>1, <1>2, <1>3 DEF AdvanceStep

(* Every step of tick() keeps the invariant: what a call adds to the buffer *)
(* is what the time has run ahead since the call read it, less the tick     *)
(* that the notification was counted for already.                          *)
LEMMA DriftTick ==
  ClockTypeOK /\ DriftInv /\ (TickStep \/ TickReturns \/ TickCalled) => DriftInv'
<1> SUFFICES ASSUME ClockTypeOK, DriftInv, TickStep \/ TickReturns \/ TickCalled
             PROVE  DriftInv'
  OBVIOUS
<1>1. Cardinality(Raising) \in Nat
  BY FS_CardinalityType DEF DriftInv
<1>2. UNCHANGED <<clock, time, advancing, raises>> /\ Raising' = Raising
  BY DEF TickStep, TickReturns, TickCalled, TickPrevious, TickListen, TickBuffered,
         TickWoken, tickOutside, advanceVars, Raising
<1>3. clock \in {"virtual", "progressive"}
  BY ClockAssumption DEF ClockTypeOK
<1>4. CASE TickPrevious
  <2>1. "engine" \notin signalled /\ signalled' = signalled
    BY <1>4 DEF TickPrevious, DriftInv
  <2>2. Counted' = Counted /\ Counted \in Nat
    BY <1>1, <1>2, <1>4, <2>1 DEF TickPrevious, Counted, Pending, ClockTypeOK
  <2> QED
    BY <1>2, <1>4, <2>1, <2>2 DEF TickPrevious, DriftInv, ClockTypeOK
<1>5. CASE TickListen
  <2>1. signalled' = signalled
    BY <1>5 DEF TickListen
  <2>2. Counted' = Counted
    BY <1>2, <1>5, <2>1 DEF TickListen, Counted, Pending
  <2> QED
    BY <1>2, <1>3, <1>5, <2>1, <2>2 DEF TickListen, DriftInv, ClockTypeOK
<1>6. CASE TickBuffered
  <2>1. signalled' = signalled /\ "engine" \notin signalled
    BY <1>6 DEF TickBuffered, DriftInv
  <2>2. Counted' = Counted
    BY <1>1, <1>2, <1>6, <2>1 DEF TickBuffered, Counted, Pending, ClockTypeOK
  <2> QED
    BY <1>2, <1>6, <2>1, <2>2 DEF TickBuffered, DriftInv, ClockTypeOK
<1>7. CASE TickWoken
  <2>1. /\ ticking = "wait" /\ "engine" \in signalled /\ "engine" \notin signalled'
        /\ ticking' = "away" /\ previous' = previous
    BY <1>7 DEF TickWoken
  <2>2. CASE clock = "virtual"
    <3>1. Counted' = Counted + Missed /\ Counted \in Nat
      BY <1>1, <1>2, <1>7, <2>1, <2>2
      DEF TickWoken, Counted, Pending, Missed, ClockTypeOK
    <3>2. Counted <= previous + raises /\ (raises = 0 => time = 0)
      BY <2>1, <2>2 DEF DriftInv
    <3> QED
      BY <1>2, <2>1, <2>2, <3>1, <3>2 DEF DriftInv, Missed, ClockTypeOK
  <2>3. CASE clock = "progressive"
    BY <1>2, <1>7, <2>1, <2>3 DEF TickWoken, DriftInv
  <2> QED
    BY <1>3, <2>2, <2>3
<1>8. CASE TickCalled
  <2>1. Counted' = Counted /\ signalled' = signalled /\ "engine" \notin signalled
    BY <1>2, <1>8 DEF TickCalled, Counted, Pending, DriftInv
  <2> QED
    BY <1>2, <1>8, <2>1 DEF TickCalled, DriftInv
<1> QED
  BY <1>4, <1>5, <1>6, <1>7, <1>8 DEF TickStep, TickReturns

(* Every step of the clock keeps the invariant.                            *)
LEMMA DriftStep == ClockTypeOK /\ DriftInv /\ ClockNext => DriftInv'
<1> SUFFICES ASSUME ClockTypeOK, DriftInv, ClockNext PROVE DriftInv'
  OBVIOUS
<1>1. ASSUME NEW a \in Advancers, NEW d \in Durations, Advance(a, d)
      PROVE  DriftInv'
  <2>1. time + d \in Nat
    BY ClockAssumption DEF ClockTypeOK
  <2> QED
    BY <1>1, <2>1, DriftAdvance DEF Advance
<1>2. ASSUME NEW a \in Advancers, NEW t \in 0 .. MaxTime, AdvanceTo(a, t)
      PROVE  DriftInv'
  BY <1>2, DriftAdvance
<1>3. ASSUME NEW a \in Advancers, AdvanceStep(a) PROVE DriftInv'
  <2>1. 0 \in Nat
    OBVIOUS
  <2> QED
    BY <1>3, <2>1, DriftAdvance
<1>4. ASSUME NEW s \in Sleepers, IdleStep(s) \/ \E t \in 0 .. MaxTime : IdleTo(s, t)
      PROVE  DriftInv'
  <2>1. ("engine" \in signalled') = ("engine" \in signalled)
    BY <1>4, ClockAssumption
    DEF IdleStep, IdleListen, IdleCheck, IdleAwait, IdleWoken, IdleTo
  <2> QED
    BY <1>4, <2>1, DriftOutside
    DEF IdleStep, IdleListen, IdleCheck, IdleAwait, IdleWoken, IdleTo, advanceVars
<1>5. CASE Beat
  <2>1. /\ clock = "progressive" /\ UNCHANGED <<clock, time, advancing, tickVars, raises>>
        /\ "engine" \in signalled' => ticking = "wait"
    BY <1>5, ClockAssumption DEF Beat, Listening, DriftInv, advanceVars
  <2> QED
    BY <2>1 DEF DriftInv, Raising, tickVars
<1>6. CASE UNCHANGED clockVars
  BY <1>6, DriftOutside DEF clockVars, advanceVars
<1> QED
  BY <1>1, <1>2, <1>3, <1>4, <1>5, <1>6, DriftTick DEF ClockNext, ClockStep

-----------------------------------------------------------------------------
(***************************************************************************)
(* The engine.                                                             *)
(***************************************************************************)
\* The proofs about the engine's wheel.
WheelProofs == INSTANCE TimingWheelProofs WITH results <- released

-----------------------------------------------------------------------------
(* The wheel of the engine.                                                *)

(* The engine's wheel has slots and levels.                                *)
LEMMA EngineWheelAssumption == WheelProofs!WheelAssumption
BY EngineAssumption DEF WheelProofs!WheelAssumption

(* The two instances of the wheel have the same state and operations.      *)
LEMMA SameState ==
  /\ Wheel!Init <=> WheelProofs!Init
  /\ Wheel!TypeOK <=> WheelProofs!TypeOK
  /\ \A k : Wheel!Contained(k) <=> WheelProofs!Contained(k)
  /\ \A k : Wheel!Contained(k)' <=> WheelProofs!Contained(k)'
BY DEF Wheel!Init, WheelProofs!Init, Wheel!TypeOK, WheelProofs!TypeOK,
       Wheel!Contained, WheelProofs!Contained, Wheel!Item, WheelProofs!Item,
       Wheel!Level, WheelProofs!Level, Wheel!Slot, WheelProofs!Slot

(* The two instances of the wheel weigh their digits alike.                *)
LEMMA SameWeights == Wheel!Weight = WheelProofs!Weight
BY Zenon DEF Wheel!Weight, WheelProofs!Weight

(* The two instances of the wheel make the same steps.                     *)
LEMMA SameSteps ==
  /\ \A k, delay : Wheel!Insert(k, delay) <=> WheelProofs!Insert(k, delay)
  /\ Wheel!Tick <=> WheelProofs!Tick
  /\ Wheel!Clear <=> WheelProofs!Clear
BY SameWeights
   DEF Wheel!Insert, WheelProofs!Insert, Wheel!Tick, WheelProofs!Tick,
       Wheel!Clear, WheelProofs!Clear, Wheel!Contained, WheelProofs!Contained,
       Wheel!Digits, WheelProofs!Digits, Wheel!LevelOf, WheelProofs!LevelOf,
       Wheel!Advanced, WheelProofs!Advanced, Wheel!Ticks, WheelProofs!Ticks,
       Wheel!Expired, WheelProofs!Expired, Wheel!Emptied, WheelProofs!Emptied,
       Wheel!Moved, WheelProofs!Moved,
       Wheel!Level, WheelProofs!Level, Wheel!Slot, WheelProofs!Slot

\* The wheel's inductive invariant.
WheelInv == WheelProofs!WheelInv

(* The wheel is empty at first.                                            *)
LEMMA WheelInit == ASSUME Wheel!Init PROVE WheelInv /\ \A k : ~Wheel!Contained(k)
BY EngineWheelAssumption, SameState, WheelProofs!EmptyWheel DEF WheelInv

(* Inserting keeps the wheel's invariant and adds one entry.               *)
LEMMA WheelInsert ==
  ASSUME WheelInv, NEW k \in Entries, NEW delay \in Nat, Wheel!Insert(k, delay)
  PROVE  /\ WheelInv'
         /\ \A j : Wheel!Contained(j)' <=> Wheel!Contained(j) \/ j = k
BY EngineWheelAssumption, SameState, SameSteps, WheelProofs!InsertStep DEF WheelInv

(* A tick keeps the wheel's invariant and takes out what it returns.       *)
LEMMA WheelTick ==
  ASSUME WheelInv, Wheel!Tick
  PROVE  /\ WheelInv'
         /\ \A k : /\ k \in released' => Wheel!Contained(k)
                   /\ Wheel!Contained(k)' <=> Wheel!Contained(k) /\ k \notin released'
BY EngineWheelAssumption, SameState, SameSteps, WheelProofs!TickStep,
   WheelProofs!TickPartition DEF WheelInv

(* Clearing establishes the wheel's invariant and takes everything out.    *)
LEMMA WheelClear ==
  ASSUME Wheel!Clear
  PROVE  WheelInv' /\ \A k : ~Wheel!Contained(k)'
BY EngineWheelAssumption, SameState, SameSteps, WheelProofs!ClearStep DEF WheelInv

(* What does not touch the wheel keeps its invariant and its entries.      *)
LEMMA WheelUnchanged ==
  ASSUME WheelInv, UNCHANGED wheelVars
  PROVE  WheelInv' /\ \A k : Wheel!Contained(k)' <=> Wheel!Contained(k)
BY DEF wheelVars, WheelInv, WheelProofs!WheelInv, WheelProofs!TypeOK,
       WheelProofs!InOneSlot, WheelProofs!ReleasedIsOut, WheelProofs!Contained,
       Wheel!Contained, Wheel!Level, Wheel!Slot

(* The wheel's invariant has its types.                                    *)
LEMMA WheelType == WheelInv => Wheel!TypeOK
BY SameState DEF WheelInv, WheelProofs!WheelInv

-----------------------------------------------------------------------------
(* The command queue.                                                      *)

(* The queue before and after a command is added.                          *)
LEMMA QueueGrows ==
  ASSUME commandBatch \in Seq(Commands), NEW c \in Commands,
         commandBatch' = Append(commandBatch, c)
  PROVE  /\ commandBatch' \in Seq(Commands)
         /\ DOMAIN commandBatch = 1 .. Len(commandBatch) /\ Len(commandBatch) \in Nat
         /\ DOMAIN commandBatch' = 1 .. Len(commandBatch) + 1
         /\ \A n \in DOMAIN commandBatch : commandBatch'[n] = commandBatch[n]
         /\ commandBatch'[Len(commandBatch) + 1] = c
BY AppendProperties

(* The queue before and after its head is taken.                           *)
LEMMA QueueShrinks ==
  ASSUME commandBatch \in Seq(Commands), commandBatch # <<>>,
         commandBatch' = Tail(commandBatch)
  PROVE  /\ commandBatch' \in Seq(Commands)
         /\ DOMAIN commandBatch = 1 .. Len(commandBatch) /\ Len(commandBatch) \in Nat \ {0}
         /\ DOMAIN commandBatch' = 1 .. Len(commandBatch) - 1
         /\ \A n \in DOMAIN commandBatch' : commandBatch'[n] = commandBatch[n + 1]
         /\ Head(commandBatch) = commandBatch[1] /\ Head(commandBatch) \in Commands
BY EmptySeq, HeadTailProperties

\* A command of the queue arms this entry.
Queued(k) == \E n \in Commanded : commandBatch[n].key = k

(* What is armed is in the queue or in the wheel.                          *)
LEMMA ArmedIs == \A k : k \in Armed <=> Queued(k) \/ (k \in Entries /\ Wheel!Contained(k))
BY DEF Armed, Queued

-----------------------------------------------------------------------------
(* The inductive invariant of the engine.                                  *)

\* An entry is armed in one place: one command of the queue, or the wheel.
ArmedInOnePlace ==
  /\ \A n, m \in Commanded : commandBatch[n].key = commandBatch[m].key => n = m
  /\ \A k : Queued(k) => ~Wheel!Contained(k)

EngineInv == TypeOK /\ WheelInv /\ ArmedInOnePlace

(* The variables of the engine and the queue of results are of their type   *)
(* when the queue of commands, the wheel and the clock are.                *)
LEMMA EngineType ==
  ASSUME TypeOK, [Next]_vars, ClockTypeOK', Wheel!TypeOK', commandBatch' \in Seq(Commands)
  PROVE  TypeOK'
<1>1. resultQueue' \in Seq(SUBSET Entries)
  <2>1. CASE Turn
    <3>1. released' \in SUBSET Entries
      BY DEF Wheel!TypeOK
    <3> QED
      BY <2>1, <3>1 DEF Turn, TypeOK
  <2>2. CASE PopResult
    BY <2>2 DEF PopResult, TypeOK
  <2>3. CASE resultQueue' = resultQueue
    BY <2>3 DEF TypeOK
  <2> QED
    BY <2>1, <2>2, <2>3
    DEF Next, EngineStep, RetrieveStep, engineVars, vars, EngineTicked, PopCommand,
        NotifyResults, NoResult, AwaitResult, Clear, Schedule
<1>2. stage' \in {"tick", "batch", "notify"} /\ retrieving' \in {"pop", "gap", "wait"}
  BY DEF TypeOK, Next, EngineStep, RetrieveStep, engineVars, vars, EngineTicked,
         PopCommand, Turn, NotifyResults, RetrieverNotified, PopResult, NoResult,
         AwaitResult, Clear, Schedule
<1>3. (stage' = "tick") = (ticking' # "away")
  <2>1. stage = "tick" <=> ticking # "away"
    BY DEF TypeOK
  <2>2. CASE ClockStep /\ UNCHANGED stage
    <3>1. ticking' # "away" <=> ticking # "away"
      BY <2>2
      DEF ClockStep, Advance, AdvanceTo, AdvanceStep, FetchMax, NotifyAdvance, IdleStep,
          IdleListen, IdleCheck, IdleAwait, IdleWoken, IdleTo, Beat, TickStep,
          TickPrevious, TickListen, tickVars
    <3> QED
      BY <2>1, <2>2, <3>1
  <2>3. CASE EngineTicked
    BY <2>3 DEF EngineTicked, TickReturns, TickBuffered, TickWoken
  <2>4. CASE NotifyResults
    BY <2>4 DEF NotifyResults
  <2>5. CASE Turn
    BY <2>1, <2>5 DEF Turn, clockVars, tickVars
  <2>6. CASE UNCHANGED <<stage, ticking>>
    BY <2>1, <2>6
  <2> QED
    BY <2>2, <2>3, <2>4, <2>5, <2>6
    DEF Next, EngineStep, RetrieveStep, engineVars, vars, PopCommand,
        PopResult, NoResult, AwaitResult, Clear, Schedule, clockVars, tickVars
<1> QED
  BY <1>1, <1>2, <1>3 DEF TypeOK

(* Every step of the engine is one of the clock, or leaves the clock.      *)
LEMMA ClockSteps == TypeOK /\ [Next]_vars => ClockNext
<1> SUFFICES ASSUME TypeOK, [Next]_vars PROVE ClockNext
  OBVIOUS
<1>1. CASE NotifyResults
  <2>1. ticking = "away"
    BY <1>1 DEF NotifyResults, TypeOK
  <2> QED
    BY <1>1, <2>1 DEF NotifyResults, ClockNext, TickCalled
<1> QED
  BY <1>1
  DEF Next, EngineStep, RetrieveStep, vars, EngineTicked, PopCommand, Turn, PopResult,
      NoResult, AwaitResult, Clear, Schedule, ClockNext

(* The clock keeps its types and its invariant.                            *)
LEMMA ClockInvStep ==
  /\ TypeOK /\ [Next]_vars => ClockTypeOK'
  /\ TypeOK /\ DriftInv /\ [Next]_vars => DriftInv'
BY ClockSteps, ClockType, DriftStep DEF TypeOK

(* Scheduling adds a command for an entry that is armed nowhere.           *)
LEMMA ScheduleStep ==
  ASSUME EngineInv, NEW k \in Entries, NEW delay \in 0 .. MaxDelay, Schedule(k, delay)
  PROVE  /\ commandBatch' \in Seq(Commands) /\ WheelInv' /\ ArmedInOnePlace'
         /\ \A j : Queued(j)' <=> Queued(j) \/ j = k
         /\ \A j : Wheel!Contained(j)' <=> Wheel!Contained(j)
         /\ Clears' = Clears
<1> DEFINE c == Insertion(k, delay)
           last == Len(commandBatch) + 1
<1>1. c \in Commands /\ c.key = k /\ k # None
  BY EngineAssumption DEF Insertion, Commands, None
<1> HIDE DEF c
<1>2. /\ commandBatch' \in Seq(Commands)
      /\ DOMAIN commandBatch = 1 .. Len(commandBatch) /\ Len(commandBatch) \in Nat
      /\ DOMAIN commandBatch' = 1 .. last
      /\ \A n \in DOMAIN commandBatch : commandBatch'[n] = commandBatch[n]
      /\ commandBatch'[last] = c
  BY <1>1, QueueGrows DEF Schedule, c, EngineInv, TypeOK
<1>3. WheelInv' /\ \A j : Wheel!Contained(j)' <=> Wheel!Contained(j)
  BY WheelUnchanged DEF Schedule, EngineInv
<1>4. Commanded' = Commanded \cup {last} /\ Clears' = Clears
  BY <1>1, <1>2 DEF Commanded, Clears
<1>5. \A j : Queued(j)' <=> Queued(j) \/ j = k
  BY <1>1, <1>2, <1>4 DEF Queued, Commanded
<1>6. ~Queued(k) /\ ~Wheel!Contained(k)
  BY ArmedIs DEF Schedule
<1>7. ArmedInOnePlace'
  BY <1>1, <1>2, <1>3, <1>4, <1>6 DEF ArmedInOnePlace, Queued, Commanded, EngineInv
<1> QED
  BY <1>2, <1>3, <1>4, <1>5, <1>7

(* A clear() adds a command that arms nothing.                             *)
LEMMA ClearCommandStep ==
  ASSUME EngineInv, Clear
  PROVE  /\ commandBatch' \in Seq(Commands) /\ WheelInv' /\ ArmedInOnePlace'
         /\ \A j : Queued(j)' <=> Queued(j)
         /\ \A j : Wheel!Contained(j)' <=> Wheel!Contained(j)
         /\ Clears' = Clears \cup {Len(commandBatch) + 1}
<1>1. ClearAll \in Commands /\ ClearAll.key = None
  BY EngineAssumption DEF ClearAll, Commands
<1>2. /\ commandBatch' \in Seq(Commands)
      /\ DOMAIN commandBatch = 1 .. Len(commandBatch) /\ Len(commandBatch) \in Nat
      /\ DOMAIN commandBatch' = 1 .. Len(commandBatch) + 1
      /\ \A n \in DOMAIN commandBatch : commandBatch'[n] = commandBatch[n]
      /\ commandBatch'[Len(commandBatch) + 1] = ClearAll
  BY <1>1, QueueGrows DEF Clear, EngineInv, TypeOK
<1>3. WheelInv' /\ \A j : Wheel!Contained(j)' <=> Wheel!Contained(j)
  BY WheelUnchanged DEF Clear, EngineInv
<1>4. Commanded' = Commanded /\ Clears' = Clears \cup {Len(commandBatch) + 1}
  BY <1>1, <1>2 DEF Commanded, Clears
<1>5. \A j : Queued(j)' <=> Queued(j)
  BY <1>2, <1>4 DEF Queued, Commanded
<1>6. ArmedInOnePlace'
  BY <1>2, <1>3, <1>4, <1>5 DEF ArmedInOnePlace, Commanded, EngineInv
<1> QED
  BY <1>2, <1>3, <1>4, <1>5, <1>6

(* Carrying out a command takes it from the head of the queue: its entry   *)
(* goes to the wheel, or the wheel is emptied.                             *)
LEMMA PopCommandStep ==
  ASSUME EngineInv, PopCommand
  PROVE  /\ commandBatch' \in Seq(Commands) /\ WheelInv' /\ ArmedInOnePlace'
         /\ \A n : n \in Commanded' <=> n \in Nat \ {0} /\ n + 1 \in Commanded
         /\ \A n : n \in Clears' <=> n \in Nat \ {0} /\ n + 1 \in Clears
         /\ \A n \in Commanded' : commandBatch'[n] = commandBatch[n + 1]
         /\ \/ /\ 1 \in Commanded /\ commandBatch[1].key \in Entries
               /\ \A j : Wheel!Contained(j)' <=>
                           Wheel!Contained(j) \/ j = commandBatch[1].key
            \/ 1 \in Clears /\ \A j : ~Wheel!Contained(j)'
<1>1. /\ commandBatch' \in Seq(Commands)
      /\ DOMAIN commandBatch = 1 .. Len(commandBatch) /\ Len(commandBatch) \in Nat \ {0}
      /\ DOMAIN commandBatch' = 1 .. Len(commandBatch) - 1
      /\ \A n \in DOMAIN commandBatch' : commandBatch'[n] = commandBatch[n + 1]
      /\ Head(commandBatch) = commandBatch[1] /\ Head(commandBatch) \in Commands
  BY QueueShrinks DEF PopCommand, AfterClear, EngineInv, TypeOK
<1>2. /\ \A n : n \in Commanded' <=> n \in Nat \ {0} /\ n + 1 \in Commanded
      /\ \A n : n \in Clears' <=> n \in Nat \ {0} /\ n + 1 \in Clears
  BY <1>1 DEF Commanded, Clears
<1>3. \A n \in Commanded' : commandBatch'[n] = commandBatch[n + 1]
  BY <1>1 DEF Commanded
<1>4. \A n, m \in Commanded' : commandBatch'[n].key = commandBatch'[m].key => n = m
  <2> SUFFICES ASSUME NEW n \in Commanded', NEW m \in Commanded',
                      commandBatch'[n].key = commandBatch'[m].key
               PROVE  n = m
    OBVIOUS
  <2>1. n + 1 = m + 1
    BY <1>2, <1>3 DEF ArmedInOnePlace, EngineInv
  <2> QED
    BY <1>2, <2>1
<1>5. CASE commandBatch[1].key # None
  <2>1. PICK k \in Entries, delay \in Nat : k = commandBatch[1].key /\ Wheel!Insert(k, delay)
    BY <1>1, <1>5, EngineAssumption DEF PopCommand, Commands
  <2>2. WheelInv' /\ \A j : Wheel!Contained(j)' <=> Wheel!Contained(j) \/ j = k
    BY <2>1, WheelInsert DEF EngineInv
  <2>3. 1 \in Commanded
    BY <1>1, <1>5 DEF Commanded
  <2>4. ASSUME NEW j, Queued(j)' PROVE ~Wheel!Contained(j)'
    <3>1. PICK n \in Commanded' : commandBatch'[n].key = j
      BY <2>4 DEF Queued
    <3>2. n + 1 \in Commanded /\ n + 1 # 1 /\ commandBatch[n + 1].key = j
      BY <1>2, <1>3, <3>1
    <3>3. j # k /\ ~Wheel!Contained(j)
      BY <2>1, <2>3, <3>2 DEF ArmedInOnePlace, Queued, EngineInv
    <3> QED
      BY <2>2, <3>3
  <2> QED
    BY <1>1, <1>2, <1>3, <1>4, <2>1, <2>2, <2>3, <2>4 DEF ArmedInOnePlace
<1>6. CASE commandBatch[1].key = None
  <2>1. WheelInv' /\ \A j : ~Wheel!Contained(j)'
    BY <1>1, <1>6, WheelClear DEF PopCommand
  <2>2. 1 \in Clears
    BY <1>1, <1>6 DEF Commanded, Clears
  <2> QED
    BY <1>1, <1>2, <1>3, <1>4, <2>1, <2>2 DEF ArmedInOnePlace
<1> QED
  BY <1>5, <1>6

(* No other step but a turn of the wheel changes what is armed.            *)
LEMMA OtherStep ==
  ASSUME EngineInv, UNCHANGED <<commandBatch, wheelVars>>
  PROVE  /\ commandBatch' \in Seq(Commands) /\ WheelInv' /\ ArmedInOnePlace'
         /\ Armed' = Armed /\ {k \in Armed : Doomed(k)}' = {k \in Armed : Doomed(k)}
<1>1. WheelInv' /\ \A j : Wheel!Contained(j)' <=> Wheel!Contained(j)
  BY WheelUnchanged DEF EngineInv
<1>2. Commanded' = Commanded /\ Clears' = Clears
  BY DEF Commanded, Clears
<1>3. \A k : Queued(k)' <=> Queued(k)
  BY <1>2 DEF Queued
<1>4. ArmedInOnePlace'
  BY <1>1, <1>2, <1>3 DEF EngineInv, ArmedInOnePlace
<1>5. Armed' = Armed
  BY <1>1, <1>2 DEF Armed
<1>6. \A k : Doomed(k)' <=> Doomed(k)
  BY <1>1, <1>2 DEF Doomed
<1> QED
  BY <1>1, <1>4, <1>5, <1>6 DEF EngineInv, TypeOK

(* The invariant is inductive.                                             *)
LEMMA EngineInvStep == EngineInv /\ [Next]_vars => EngineInv'
<1> SUFFICES ASSUME EngineInv, [Next]_vars PROVE EngineInv'
  OBVIOUS
<1>1. commandBatch' \in Seq(Commands) /\ WheelInv' /\ ArmedInOnePlace'
  <2>1. ASSUME NEW k \in Entries, NEW delay \in 0 .. MaxDelay, Schedule(k, delay)
        PROVE  commandBatch' \in Seq(Commands) /\ WheelInv' /\ ArmedInOnePlace'
    BY <2>1, ScheduleStep
  <2>2. CASE Clear
    BY <2>2, ClearCommandStep
  <2>3. CASE PopCommand
    BY <2>3, PopCommandStep
  <2>4. CASE Turn
    <3>1. WheelInv' /\ Commanded' = {} /\ commandBatch' = commandBatch
      BY <2>4, WheelTick DEF Turn, EngineInv, Commanded
    <3> QED
      BY <3>1 DEF ArmedInOnePlace, Queued, EngineInv, TypeOK
  <2>5. CASE UNCHANGED <<commandBatch, wheelVars>>
    BY <2>5, OtherStep
  <2>6. CASE ClockStep /\ UNCHANGED <<engineVars, wheelVars>>
    BY <2>5, <2>6 DEF engineVars
  <2>7. CASE EngineTicked \/ NotifyResults
    BY <2>5, <2>7 DEF EngineTicked, NotifyResults
  <2>8. CASE RetrieveStep
    BY <2>5, <2>8 DEF RetrieveStep, PopResult, NoResult, AwaitResult
  <2>9. CASE UNCHANGED vars
    BY <2>5, <2>9 DEF vars, engineVars
  <2> QED
    BY <2>1, <2>2, <2>3, <2>4, <2>6, <2>7, <2>8, <2>9 DEF Next, EngineStep
<1>2. ClockTypeOK'
  BY ClockInvStep DEF EngineInv
<1>3. Wheel!TypeOK'
  BY <1>1, WheelType, PTL
<1> QED
  BY <1>1, <1>2, <1>3, EngineType DEF EngineInv

(* The invariant holds at first.                                           *)
LEMMA EngineInvInit == Init => EngineInv /\ DriftInv
<1> SUFFICES ASSUME Init PROVE EngineInv /\ DriftInv
  OBVIOUS
<1>1. WheelInv /\ \A k : ~Wheel!Contained(k)
  BY WheelInit DEF Init
<1>2. ClockTypeOK
  BY ClockAssumption DEF Init, ClockInit, ClockTypeOK
<1>3. commandBatch \in Seq(Commands) /\ Commanded = {}
  BY DEF Init, Commanded
<1>4. TypeOK
  BY <1>1, <1>2, <1>3, WheelType DEF Init, ClockInit, TypeOK
<1>5. ArmedInOnePlace
  BY <1>3 DEF ArmedInOnePlace, Queued
<1>6. Raising = {}
  BY DEF Init, ClockInit, Raising
<1>7. DriftInv
  BY <1>6, FS_EmptySet DEF Init, ClockInit, DriftInv, Counted, Pending
<1> QED
  BY <1>1, <1>4, <1>5, <1>7 DEF EngineInv

(* The two invariants are inductive together.                              *)
LEMMA EngineInvariant == Spec => [](EngineInv /\ DriftInv)
<1>1. EngineInv /\ DriftInv /\ [Next]_vars => (EngineInv /\ DriftInv)'
  BY EngineInvStep, ClockInvStep DEF EngineInv
<1> QED
  BY <1>1, EngineInvInit, PTL DEF Spec

(* The engine, its clock and its wheel keep every variable in its type.    *)
THEOREM TypeCorrect == Spec => []TypeOK
<1>1. EngineInv => TypeOK
  BY DEF EngineInv
<1> QED
  BY <1>1, EngineInvariant, PTL

(* The virtual clock never makes more than one tick too many for every     *)
(* raise of its time but the first, for any number of advancing threads.   *)
THEOREM DriftIsBounded == Spec => []DriftBounded
<1>1. EngineInv /\ DriftInv => DriftBounded
  BY DriftBound DEF EngineInv, TypeOK
<1> QED
  BY <1>1, EngineInvariant, PTL

-----------------------------------------------------------------------------
(* The refinement.                                                         *)

\* The doomed entries of the contract.
DoomedEntries == {k \in Armed : Doomed(k)}

(* Arming a task is the contract's Arm: the task is not doomed, as every   *)
(* clear() in the queue comes before it.                                   *)
LEMMA ScheduleArms ==
  ASSUME EngineInv, NEW k \in Entries, NEW delay \in 0 .. MaxDelay, Schedule(k, delay)
  PROVE  Contract!Arm(k)
<1>1. /\ \A j : Queued(j)' <=> Queued(j) \/ j = k
      /\ \A j : Wheel!Contained(j)' <=> Wheel!Contained(j)
      /\ Clears' = Clears
  BY ScheduleStep
<1>2. \A j : j \in Armed' <=> j \in Armed \/ j = k
  BY <1>1 DEF Armed, Queued
<1>3. Armed' = Armed \cup {k}
  BY <1>2
<1>4. /\ DOMAIN commandBatch = 1 .. Len(commandBatch) /\ Len(commandBatch) \in Nat
      /\ DOMAIN commandBatch' = 1 .. Len(commandBatch) + 1
      /\ \A n \in DOMAIN commandBatch : commandBatch'[n] = commandBatch[n]
      /\ commandBatch'[Len(commandBatch) + 1] = Insertion(k, delay)
  <2>1. Insertion(k, delay) \in Commands
    BY DEF Insertion, Commands
  <2> QED
    BY <2>1, QueueGrows DEF Schedule, EngineInv, TypeOK
<1>5. ASSUME NEW j, NEW m \in Clears
      PROVE  (\E n \in Commanded' : n < m /\ commandBatch'[n].key = j)
               <=> \E n \in Commanded : n < m /\ commandBatch[n].key = j
  BY <1>4 DEF Clears, Commanded
<1>6. \A j : Doomed(j)' <=> Doomed(j)
  BY <1>1, <1>5 DEF Doomed
<1>7. k \notin Armed /\ k \notin Fired /\ UNCHANGED resultQueue
  BY DEF Schedule
<1>8. ~Doomed(k)
  BY <1>7, ArmedIs DEF Doomed, Queued
<1>9. DoomedEntries' = DoomedEntries
  BY <1>3, <1>6, <1>8 DEF DoomedEntries
<1> QED
  BY <1>3, <1>7, <1>9 DEF Contract!Arm, Contract!Waiting, DoomedEntries, Fired

(* A clear() dooms everything that is armed, which is in the wheel or        *)
(* before it in the queue.                                                 *)
LEMMA ClearDooms == ASSUME EngineInv, Clear PROVE Contract!Clear
<1> DEFINE last == Len(commandBatch) + 1
<1>1. /\ \A j : Queued(j)' <=> Queued(j)
      /\ \A j : Wheel!Contained(j)' <=> Wheel!Contained(j)
      /\ Clears' = Clears \cup {last}
  BY ClearCommandStep
<1>2. \A j : j \in Armed' <=> j \in Armed
  BY <1>1 DEF Armed, Queued
<1>3. Armed' = Armed
  BY <1>2
<1>4. \A n \in Commanded' : n < last
  <2>1. ClearAll \in Commands /\ ClearAll.key = None
    BY EngineAssumption DEF ClearAll, Commands
  <2>2. /\ DOMAIN commandBatch = 1 .. Len(commandBatch) /\ Len(commandBatch) \in Nat
        /\ DOMAIN commandBatch' = 1 .. Len(commandBatch) + 1
        /\ commandBatch'[Len(commandBatch) + 1] = ClearAll
    BY <2>1, QueueGrows DEF Clear, EngineInv, TypeOK
  <2> QED
    BY <2>1, <2>2 DEF Commanded
<1>5. ASSUME NEW j, j \in Armed' PROVE Doomed(j)'
  <2>1. last \in Clears'
    BY <1>1
  <2>2. Queued(j)' \/ Wheel!Contained(j)'
    BY <1>1, <1>3, <1>5, ArmedIs
  <2> QED
    BY <1>4, <2>1, <2>2 DEF Doomed, Queued
<1>6. DoomedEntries' = Armed'
  BY <1>5 DEF DoomedEntries
<1> QED
  BY <1>3, <1>6 DEF Clear, Contract!Clear, DoomedEntries

(* Carrying out an insertion changes nothing of the contract's state: the   *)
(* entry moves from the queue to the wheel, and the same clear() commands     *)
(* come after it.  Carrying out a clear() cancels what is in the wheel,     *)
(* which was doomed, and nothing that is still in the queue.               *)
LEMMA PopCommandCancels ==
  ASSUME EngineInv, PopCommand
  PROVE  UNCHANGED Contract!vars \/ Contract!Cancel({k \in Entries : Wheel!Contained(k)})
<1>1. /\ \A n : n \in Commanded' <=> n \in Nat \ {0} /\ n + 1 \in Commanded
      /\ \A n : n \in Clears' <=> n \in Nat \ {0} /\ n + 1 \in Clears
      /\ \A n \in Commanded' : commandBatch'[n] = commandBatch[n + 1]
  BY PopCommandStep
<1>2. /\ Commanded \subseteq Nat \ {0} /\ Clears \subseteq Nat \ {0}
      /\ Commanded \cap Clears = {}
  BY DEF EngineInv, TypeOK, Commanded, Clears
<1>3. ASSUME NEW j
      PROVE  Queued(j)' <=> \E n \in Commanded : n # 1 /\ commandBatch[n].key = j
  <2>1. ASSUME NEW n \in Commanded, n # 1
        PROVE  n - 1 \in Commanded' /\ commandBatch'[n - 1] = commandBatch[n]
    BY <1>1, <1>2, <2>1
  <2> QED
    BY <1>1, <2>1 DEF Queued
<1>4. ASSUME NEW j
      PROVE  (\E m \in Clears' : \E n \in Commanded' : n < m /\ commandBatch'[n].key = j)
               <=> \E m \in Clears : \E n \in Commanded :
                     n # 1 /\ n < m /\ commandBatch[n].key = j
  <2>1. ASSUME NEW m \in Clears', NEW n \in Commanded', n < m, commandBatch'[n].key = j
        PROVE  /\ m + 1 \in Clears /\ n + 1 \in Commanded /\ n + 1 # 1 /\ n + 1 < m + 1
               /\ commandBatch[n + 1].key = j
    BY <1>1, <2>1
  <2>2. ASSUME NEW m \in Clears, NEW n \in Commanded, n # 1, n < m, commandBatch[n].key = j
        PROVE  /\ m - 1 \in Clears' /\ n - 1 \in Commanded' /\ n - 1 < m - 1
               /\ commandBatch'[n - 1].key = j
    BY <1>1, <1>2, <2>2
  <2> QED
    BY <2>1, <2>2
<1>5. resultQueue' = resultQueue
  BY DEF PopCommand
<1>6. ASSUME 1 \in Commanded, commandBatch[1].key \in Entries,
             \A j : Wheel!Contained(j)' <=> Wheel!Contained(j) \/ j = commandBatch[1].key
      PROVE  UNCHANGED Contract!vars
  <2>1. \A j : j \in Armed' <=> j \in Armed
    BY <1>3, <1>6, ArmedIs DEF Armed, Queued
  <2>2. ASSUME NEW j PROVE Doomed(j)' <=> Doomed(j)
    <3>1. Clears' = {} <=> Clears = {}
      <4>1. ASSUME NEW m \in Clears PROVE m - 1 \in Clears'
        BY <1>1, <1>2, <1>6
      <4> QED
        BY <1>1, <4>1
    <3>2. CASE j = commandBatch[1].key
      <4>1. Doomed(j) <=> Clears # {}
        <5>1. \A m \in Clears : 1 < m
          BY <1>2, <1>6
        <5> QED
          BY <1>6, <3>2, <5>1 DEF Doomed
      <4>2. Doomed(j)' <=> Clears' # {}
        BY <1>6, <3>2 DEF Doomed
      <4> QED
        BY <3>1, <4>1, <4>2
    <3>3. CASE j # commandBatch[1].key
      <4>1. Wheel!Contained(j)' <=> Wheel!Contained(j)
        BY <1>6, <3>3
      <4>2. \A n \in Commanded : commandBatch[n].key = j => n # 1
        BY <3>3
      <4> QED
        BY <1>4, <3>1, <4>1, <4>2 DEF Doomed
    <3> QED
      BY <3>2, <3>3
  <2>3. Armed' = Armed /\ DoomedEntries' = DoomedEntries
    BY <2>1, <2>2 DEF DoomedEntries
  <2> QED
    BY <1>5, <2>3 DEF Contract!vars, DoomedEntries
<1>7. ASSUME 1 \in Clears, \A j : ~Wheel!Contained(j)'
      PROVE  Contract!Cancel({k \in Entries : Wheel!Contained(k)})
  <2> DEFINE ks == {k \in Entries : Wheel!Contained(k)}
  <2>1. ks \subseteq DoomedEntries
    BY <1>7, ArmedIs DEF DoomedEntries, Doomed
  <2>2. \A j : Queued(j)' <=> Queued(j)
    BY <1>2, <1>3, <1>7 DEF Queued
  <2>3. \A j : Queued(j) => ~Wheel!Contained(j)
    BY DEF EngineInv, ArmedInOnePlace
  <2>4. \A j : j \in Armed' <=> j \in Armed /\ j \notin ks
    BY <1>7, <2>2, <2>3, ArmedIs DEF Armed, Queued
  <2>5. ASSUME NEW j, Queued(j) PROVE Doomed(j)' <=> Doomed(j)
    <3>1. \A n \in Commanded : n # 1
      BY <1>2, <1>7
    <3> QED
      BY <1>4, <1>7, <2>3, <2>5, <3>1 DEF Doomed
  <2>6. \A j : j \in Armed' => Queued(j)
    BY <1>7, <2>2, ArmedIs DEF Armed, Queued
  <2>7. Armed' = Armed \ ks
    BY <2>4
  <2>8. DoomedEntries' = DoomedEntries \ ks
    BY <2>4, <2>5, <2>6 DEF DoomedEntries
  <2> QED
    BY <1>5, <2>1, <2>7, <2>8 DEF Contract!Cancel, DoomedEntries
<1> QED
  BY <1>6, <1>7, PopCommandStep

(* A turn of the wheel releases armed entries, and with no command left in *)
(* the queue none is doomed.                                               *)
LEMMA TurnReleases == ASSUME EngineInv, Turn PROVE Contract!Release(released')
<1>1. \A k : /\ k \in released' => Wheel!Contained(k)
             /\ Wheel!Contained(k)' <=> Wheel!Contained(k) /\ k \notin released'
  BY WheelTick DEF EngineInv, Turn
<1>2. released' \subseteq Entries
  <2>1. WheelInv'
    BY WheelTick DEF EngineInv, Turn
  <2>2. Wheel!TypeOK'
    BY <2>1, WheelType, PTL
  <2> QED
    BY <2>2 DEF Wheel!TypeOK
<1>3. Commanded = {} /\ Clears = {} /\ Commanded' = {} /\ Clears' = {}
  BY DEF Turn, Commanded, Clears
<1>4. DoomedEntries = {} /\ DoomedEntries' = {}
  BY <1>3 DEF DoomedEntries, Doomed
<1>5. Armed = {k \in Entries : Wheel!Contained(k)}
  BY <1>3 DEF Armed
<1>6. Armed' = {k \in Entries : Wheel!Contained(k)'}
  BY <1>3 DEF Armed
<1>7. released' \subseteq Armed /\ Armed' = Armed \ released'
  BY <1>1, <1>2, <1>5, <1>6
<1> QED
  BY <1>4, <1>7 DEF Turn, Contract!Release, DoomedEntries

(* Every step of the engine is a step of the contract or changes nothing   *)
(* of its state.                                                           *)
LEMMA ContractStep == EngineInv /\ [Next]_vars => [Contract!Next]_Contract!vars
<1> SUFFICES ASSUME EngineInv, [Next]_vars PROVE [Contract!Next]_Contract!vars
  OBVIOUS
<1>1. ASSUME NEW k \in Entries, NEW delay \in 0 .. MaxDelay, Schedule(k, delay)
      PROVE  Contract!Next
  BY <1>1, ScheduleArms DEF Contract!Next
<1>2. CASE Clear
  BY <1>2, ClearDooms DEF Contract!Next
<1>3. CASE PopCommand
  <2>1. {k \in Entries : Wheel!Contained(k)} \in SUBSET Armed
    BY ArmedIs
  <2> QED
    BY <1>3, <2>1, PopCommandCancels DEF Contract!Next
<1>4. CASE Turn
  <2>1. released' \in SUBSET Armed
    BY <1>4, TurnReleases DEF Contract!Release
  <2> QED
    BY <1>4, <2>1, TurnReleases DEF Contract!Next
<1>5. CASE PopResult
  <2>1. UNCHANGED <<commandBatch, wheelVars>>
    BY <1>5 DEF PopResult
  <2>2. Armed' = Armed /\ {k \in Armed : Doomed(k)}' = {k \in Armed : Doomed(k)}
    BY <2>1, OtherStep
  <2> QED
    BY <1>5, <2>2 DEF PopResult, Contract!Next, Contract!Retrieve
<1>6. ASSUME UNCHANGED <<commandBatch, resultQueue, wheelVars>>
      PROVE  UNCHANGED Contract!vars
  BY <1>6, OtherStep DEF Contract!vars
<1>7. CASE ClockStep /\ UNCHANGED <<engineVars, wheelVars>>
  BY <1>6, <1>7 DEF engineVars
<1>8. CASE EngineTicked \/ NotifyResults
  BY <1>6, <1>8 DEF EngineTicked, NotifyResults
<1>9. CASE NoResult \/ AwaitResult
  BY <1>6, <1>9 DEF NoResult, AwaitResult
<1>10. CASE UNCHANGED vars
  BY <1>6, <1>10 DEF vars, engineVars
<1> QED
  BY <1>1, <1>2, <1>3, <1>4, <1>5, <1>7, <1>8, <1>9, <1>10
  DEF Next, EngineStep, RetrieveStep

(* The engine implements the contract the scheduler relies on, for every   *)
(* set of entries and every wheel.                                         *)
THEOREM EngineImplementsContract == Spec => ImplementsContract
<1>1. Init => Contract!Init
  <2> SUFFICES ASSUME Init PROVE Contract!Init
    OBVIOUS
  <2>1. \A k : ~Wheel!Contained(k)
    BY WheelInit DEF Init
  <2>2. Commanded = {} /\ resultQueue = <<>>
    BY DEF Init, Commanded
  <2>3. Armed = {}
    BY <2>1, <2>2 DEF Armed
  <2> QED
    BY <2>2, <2>3 DEF Contract!Init
<1>2. EngineInv /\ [Next]_vars => [Contract!Next]_Contract!vars
  BY ContractStep
<1> QED
  BY <1>1, <1>2, EngineInvariant, PTL DEF Spec, ImplementsContract, Contract!Spec
=============================================================================
