--------------------------- MODULE SchedulerClock ---------------------------
(***************************************************************************)
(* The two clocks of the scheduler (scheduler/clock).  The progressive     *)
(* clock beats once a millisecond.  The virtual clock stands still until   *)
(* some thread advances it; tick(), which only the engine calls, turns an  *)
(* advance into that many ticks, and idle_to() waits for a time.           *)
(*                                                                         *)
(* Both wake their waiters with notify_waiters, which stores nothing: it   *)
(* completes the Notified futures that exist at that moment, and who       *)
(* creates one later waits for the next.                                   *)
(***************************************************************************)
EXTENDS Naturals

CONSTANTS
  Clocks,     \* the clocks the scheduler may have: "virtual", "progressive"
  Advancers,  \* the threads that advance the virtual clock
  Sleepers,   \* the futures in idle_to
  Durations,  \* the durations of advance()
  MaxTime     \* bound on the virtual time, in milliseconds

ASSUME ClockAssumption ==
  /\ Clocks \subseteq {"virtual", "progressive"}
  /\ Durations \subseteq Nat /\ MaxTime \in Nat
  /\ "engine" \notin Sleepers

VARIABLES
  clock,      \* the clock the scheduler is configured with
  time,       \* current_time
  buffered,   \* ticks_buff
  advancing,  \* per advancer: "idle", before fetch_max, before notify_waiters
  goal,       \* per advancer: the argument of advance_to
  sleeping,   \* per sleeper: where it is in idle_to
  until,      \* per sleeper: the argument of idle_to
  ticking,    \* where the engine is in tick(); "away" outside of it
  previous,   \* tick()'s prev
  signalled,  \* the waiters whose Notified future has been completed
  raises,     \* history: how often current_time was raised
  ticked      \* history: how many calls of the virtual tick() have returned

advanceVars == <<advancing, goal>>
sleepVars == <<sleeping, until>>
tickVars == <<buffered, ticking, previous, ticked>>
clockVars == <<clock, time, advanceVars, sleepVars, tickVars, signalled, raises>>

ClockInit ==
  /\ clock \in Clocks
  /\ time = 0 /\ buffered = 0
  /\ advancing = [a \in Advancers |-> "idle"]
  /\ goal = [a \in Advancers |-> 0]
  /\ sleeping = [s \in Sleepers |-> "idle"]
  /\ until = [s \in Sleepers |-> 0]
  /\ ticking = "call" /\ previous = 0
  /\ signalled = {}
  /\ raises = 0 /\ ticked = 0

\* Mutant: a future is completed only once it is awaited.
AwaitingOnly ==
  {s \in Sleepers : sleeping[s] = "wait"} \cup {e \in {"engine"} : ticking = "wait"}

\* The waiters that have a Notified future.
Listening ==
  {s \in Sleepers : sleeping[s] \in {"check", "await", "wait"}}
  \cup {e \in {"engine"} : ticking = "wait"}

-----------------------------------------------------------------------------
(* advance() and advance_to().                                             *)

AdvanceTo(a, t) ==
  /\ clock = "virtual" /\ advancing[a] = "idle" /\ t <= MaxTime
  /\ goal' = [goal EXCEPT ![a] = t]
  /\ advancing' = [advancing EXCEPT ![a] = "raise"]
  /\ UNCHANGED <<clock, time, sleepVars, tickVars, signalled, raises>>

\* now() is read here, fetch_max comes later.
Advance(a, d) == AdvanceTo(a, time + d)

FetchMax(a) ==
  /\ advancing[a] = "raise"
  /\ IF time < goal[a]
     THEN /\ time' = goal[a] /\ raises' = raises + 1
          /\ advancing' = [advancing EXCEPT ![a] = "notify"]
     ELSE /\ UNCHANGED <<time, raises>>
          /\ advancing' = [advancing EXCEPT ![a] = "idle"]
  /\ UNCHANGED <<clock, goal, sleepVars, tickVars, signalled>>

NotifyAdvance(a) ==
  /\ advancing[a] = "notify"
  /\ advancing' = [advancing EXCEPT ![a] = "idle"]
  /\ signalled' = signalled \cup Listening
  /\ UNCHANGED <<clock, time, goal, sleepVars, tickVars, raises>>

\* The progressive clock's interval.
Beat ==
  /\ clock = "progressive"
  /\ signalled' = signalled \cup Listening
  /\ UNCHANGED <<clock, time, advanceVars, sleepVars, tickVars, raises>>

-----------------------------------------------------------------------------
(* idle_to() of the virtual clock.                                         *)

SleepTo(s, l) == sleeping' = [sleeping EXCEPT ![s] = l]

IdleTo(s, t) ==
  /\ clock = "virtual" /\ sleeping[s] = "idle"
  /\ until' = [until EXCEPT ![s] = t]
  /\ SleepTo(s, "listen")
  /\ UNCHANGED <<clock, time, advanceVars, tickVars, signalled, raises>>

IdleListen(s) ==
  /\ sleeping[s] = "listen"
  /\ SleepTo(s, "check")
  /\ UNCHANGED <<clock, time, advanceVars, until, tickVars, signalled, raises>>

IdleCheck(s) ==
  /\ sleeping[s] = "check"
  /\ IF time >= until[s]
     THEN SleepTo(s, "idle") /\ signalled' = signalled \ {s}
     ELSE SleepTo(s, "await") /\ UNCHANGED signalled
  /\ UNCHANGED <<clock, time, advanceVars, until, tickVars, raises>>

IdleAwait(s) ==
  /\ sleeping[s] = "await"
  /\ SleepTo(s, "wait")
  /\ UNCHANGED <<clock, time, advanceVars, until, tickVars, signalled, raises>>

IdleWoken(s) ==
  /\ sleeping[s] = "wait" /\ s \in signalled
  /\ SleepTo(s, "listen") /\ signalled' = signalled \ {s}
  /\ UNCHANGED <<clock, time, advanceVars, until, tickVars, raises>>

-----------------------------------------------------------------------------
(* tick().                                                                 *)

tickOutside == <<clock, time, advanceVars, sleepVars, raises>>

\* Mutant: the buffer is not checked before it is decremented.
TickBufferedUnchecked ==
  /\ clock = "virtual" /\ ticking = "call"
  /\ buffered' = buffered - 1
  /\ ticking' = "away" /\ ticked' = ticked + 1
  /\ UNCHANGED <<previous, signalled, tickOutside>>

TickBuffered ==
  /\ clock = "virtual" /\ ticking = "call" /\ buffered > 0
  /\ buffered' = buffered - 1
  /\ ticking' = "away" /\ ticked' = ticked + 1
  /\ UNCHANGED <<previous, signalled, tickOutside>>

TickPrevious ==
  /\ clock = "virtual" /\ ticking = "call" /\ buffered = 0
  /\ previous' = time
  /\ ticking' = "listen"
  /\ UNCHANGED <<buffered, ticked, signalled, tickOutside>>

\* notified(): of the progressive clock this is all tick() does.
TickListen ==
  /\ ticking = IF clock = "virtual" THEN "listen" ELSE "call"
  /\ ticking' = "wait"
  /\ UNCHANGED <<buffered, previous, ticked, signalled, tickOutside>>

\* Mutant: the tick that returns now is buffered, too.
MissedPlusOne == time - previous

\* The ticks of an advance that this call of tick() does not make itself.
Missed == IF time > previous THEN time - previous - 1 ELSE 0

TickWoken ==
  /\ ticking = "wait" /\ "engine" \in signalled
  /\ IF clock = "virtual"
     THEN buffered' = buffered + Missed /\ ticked' = ticked + 1
     ELSE UNCHANGED <<buffered, ticked>>
  /\ ticking' = "away"
  /\ signalled' = signalled \ {"engine"}
  /\ UNCHANGED <<previous, tickOutside>>

TickReturns == TickBuffered \/ TickWoken

-----------------------------------------------------------------------------

AdvanceStep(a) == FetchMax(a) \/ NotifyAdvance(a)
IdleStep(s) == IdleListen(s) \/ IdleCheck(s) \/ IdleAwait(s) \/ IdleWoken(s)
TickStep == TickPrevious \/ TickListen

\* The steps of the clock that the engine takes no part in.
ClockStep ==
  \/ \E a \in Advancers :
       \/ \E d \in Durations : Advance(a, d)
       \/ \E t \in 0 .. MaxTime : AdvanceTo(a, t)
       \/ AdvanceStep(a)
  \/ \E s \in Sleepers : IdleStep(s) \/ \E t \in 0 .. MaxTime : IdleTo(s, t)
  \/ Beat \/ TickStep

\* Every thread and future that can go on does.
ClockFairness ==
  /\ \A a \in Advancers : WF_clockVars(AdvanceStep(a))
  /\ \A s \in Sleepers : WF_clockVars(IdleStep(s))
  /\ WF_clockVars(Beat) /\ WF_clockVars(TickStep)

-----------------------------------------------------------------------------

ClockTypeOK ==
  /\ clock \in Clocks
  /\ time \in 0 .. MaxTime /\ buffered \in Nat
  /\ advancing \in [Advancers -> {"idle", "raise", "notify"}]
  /\ goal \in [Advancers -> 0 .. MaxTime]
  /\ sleeping \in [Sleepers -> {"idle", "listen", "check", "await", "wait"}]
  /\ until \in [Sleepers -> 0 .. MaxTime]
  /\ ticking \in {"away", "call", "listen", "wait"}
  /\ previous \in 0 .. time
  /\ signalled \subseteq Sleepers \cup {"engine"}
  /\ raises \in Nat /\ ticked \in Nat

\* The ticks the virtual clock has made or holds back never run ahead of its time
\* by more than one for every raise but the first: the race between fetch_max and
\* notify_waiters (an advance that was counted already is notified once more) costs
\* one tick each time, and the distance of an advance is never counted twice.
DriftBounded ==
  ticked + buffered <= time + (IF raises = 0 THEN 0 ELSE raises - 1)

\* idle_to() returns once its time has come, however the advances and their
\* notifications interleave with its check.
IdleReturns ==
  \A s \in Sleepers : sleeping[s] # "idle" /\ time >= until[s] ~> sleeping[s] = "idle"
=============================================================================
