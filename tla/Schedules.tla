------------------------------ MODULE Schedules ------------------------------
(* The schedules of a task. A cron schedule is built from a text or from its *)
(* fields and then searches its next instant, one action per pass of the     *)
(* loop of next_time_from; intervals are built from a number, a duration or  *)
(* the every! macro and added to the time they are asked about.              *)
EXTENDS CronSyntax, FiniteSets

CONSTANTS CronTexts,      \* texts given to from_str and to cron!
          CronFields,     \* arrays of seven fields given to TaskScheduleCron::new
          Nows,           \* instants asked about, [y, mo, d, h, mi, s, sub]
          Everys,         \* arguments of every!: sequences of literals [n, unit] and commas
          Intervals,      \* intervals given to the constructors, in seconds
          LastYear        \* where the calendar of the model ends (9999 in the code)

ASSUME CalendarAssumption == LastYear \in Nat /\ \A t \in Nows : t.y <= LastYear

VARIABLES req,      \* what was asked
          fields,   \* the seven cron fields, once built
          dt,       \* the instant the search looks at
          adv,      \* year_advances
          phase     \* "search", then "found", "none" or "panic"; "interval"; "rejected"
vars == <<req, fields, dt, adv, phase>>

(* ------------------------------ calendar (external: the time crate) ------ *)
Leap(y) == (y % 4 = 0 /\ y % 100 # 0) \/ y % 400 = 0
MonthLength(y, mo) == IF mo = 2 THEN (IF Leap(y) THEN 29 ELSE 28)
                      ELSE IF mo \in {4, 6, 9, 11} THEN 30 ELSE 31
\* 0 is Sunday (Sakamoto's method)
Weekday(y, mo, d) ==
  LET z == IF mo < 3 THEN y - 1 ELSE y
      shift == <<0, 3, 2, 5, 0, 3, 5, 1, 4, 6, 2, 4>>
  IN (z + z \div 4 - z \div 100 + z \div 400 + shift[mo] + d) % 7
\* An instant: `sub' is the part of its second that has passed, in nanoseconds.
At(y, mo, d, h, mi, s) == [y |-> y, mo |-> mo, d |-> d, h |-> h, mi |-> mi, s |-> s, sub |-> 0]
Date(y, mo, d) == At(y, mo, d, 0, 0, 0)
NextDay(t) == IF t.d < MonthLength(t.y, t.mo) THEN Date(t.y, t.mo, t.d + 1)
              ELSE IF t.mo < 12 THEN Date(t.y, t.mo + 1, 1) ELSE Date(t.y + 1, 1, 1)
Clock(t, h, mi, s) == At(t.y, t.mo, t.d, h, mi, s)
NextSecond(t) == IF t.s < 59 THEN Clock(t, t.h, t.mi, t.s + 1)
                 ELSE IF t.mi < 59 THEN Clock(t, t.h, t.mi + 1, 0)
                 ELSE IF t.h < 23 THEN Clock(t, t.h + 1, 0, 0) ELSE NextDay(t)
SecondLater(t) == [NextSecond(t) EXCEPT !.sub = t.sub]
Day(t) == (t.y * 12 + t.mo) * 31 + t.d      \* orders dates
Time(t) == (t.h * 60 + t.mi) * 60 + t.s
Before(t, u) == Day(t) < Day(u) \/ (Day(t) = Day(u) /\ Time(t) < Time(u))

(* ------------------------------- CronField ------------------------------- *)
None == -1
Least(S) == CHOOSE n \in S : \A k \in S : n <= k
Greatest(S) == CHOOSE n \in S : \A k \in S : n >= k
Some(S) == IF S = {} THEN None ELSE Least(S)

RECURSIVE min(_)
min(f) ==
  CASE f[1] \in {"Exact", "Range"} -> f[2]
    [] f[1] = "Step" -> min(f[2])
    [] f[1] = "List" -> Least({min(f[2][i]) : i \in DOMAIN f[2]})
    [] f[1] \in {"Last", "NearestWeekday", "NthWeekday"} -> 1
    [] OTHER -> 0

RECURSIVE max(_)
max(f) ==
  CASE f[1] = "Exact" -> f[2]
    [] f[1] = "Range" -> f[3]
    [] f[1] = "Step" -> max(f[2]) - ((max(f[2]) - min(f[2])) % f[3])
    [] f[1] = "List" -> Greatest({max(f[2][i]) : i \in DOMAIN f[2]})
    [] f[1] \in {"Last", "NearestWeekday", "NthWeekday"} -> 31
    [] OTHER -> 59

RECURSIVE matches(_, _)
matches(f, v) ==
  CASE f[1] = "Wildcard" -> TRUE
    [] f[1] = "Exact" -> f[2] = v
    [] f[1] = "Range" -> v \in f[2]..f[3]
    [] f[1] = "Step" -> v >= min(f[2]) /\ (v - min(f[2])) % f[3] = 0
    [] f[1] = "List" -> \E i \in DOMAIN f[2] : matches(f[2][i], v)
    [] OTHER -> FALSE

(* The arms are reached only by a value that does not match. *)
next_valid(f, v, top) ==
  IF v > top THEN None
  ELSE IF matches(f, v) THEN v
  ELSE CASE f[1] \in {"Exact", "Range"} -> IF v < f[2] THEN f[2] ELSE None
         [] f[1] = "Step" ->
              LET base == min(f[2])
                  up == base + ((v - base + f[3] - 1) \div f[3]) * f[3]
              IN IF v < base THEN base ELSE IF up <= top THEN up ELSE None
         [] f[1] = "List" ->
              Some({k \in v..top : \E i \in DOMAIN f[2] :
                      k \in min(f[2][i])..max(f[2][i]) /\ matches(f[2][i], k)})
         [] OTHER -> None

(* ------------------------------- the search ------------------------------ *)
last_day_of_month(t) == MonthLength(t.y, t.mo)
\* A nearest weekday that may lie in another month.
nearest_weekday_anywhere(t, day) ==
  LET dow == Weekday(t.y, t.mo, day)
  IN IF day \notin 1..last_day_of_month(t) THEN None
     ELSE IF dow = 0 THEN day + 1 ELSE IF dow = 6 THEN day - 1 ELSE day
nearest_weekday_day(t, day) ==
  LET last == last_day_of_month(t)
      dow == Weekday(t.y, t.mo, day)
  IN IF day \notin 1..last THEN None
     ELSE CASE dow = 0 /\ day = last -> day - 2
            [] dow = 0 /\ day # last -> day + 1
            [] dow = 6 /\ day = 1 -> day + 2
            [] dow = 6 /\ day # 1 -> day - 1
            [] OTHER -> day
last_weekday_of_month(t) ==
  LET last == last_day_of_month(t)
      dow == Weekday(t.y, t.mo, last)
  IN IF dow = 0 THEN last - 2 ELSE IF dow = 6 THEN last - 1 ELSE last
nth_weekday_day(t, weekday, nth) ==
  1 + ((weekday + 7 - (Weekday(t.y, t.mo, 1) + 1)) % 7) + (nth - 1) * 7

day_of_month_matches(f, t) ==
  CASE f[1] = "Unspecified" -> TRUE
    [] f[1] = "Last" -> t.d = last_day_of_month(t) - IF Len(f) = 2 THEN f[2] ELSE 0
    [] f = <<"NearestWeekday", 0>> -> t.d = last_weekday_of_month(t)
    [] f[1] = "NearestWeekday" /\ f[2] # 0 -> t.d = nearest_weekday_day(t, f[2])
    [] OTHER -> matches(f, t.d)
day_of_week_matches(f, t) ==
  LET last == last_day_of_month(t)
  IN CASE f[1] = "Unspecified" -> TRUE
       [] f = <<"Last">> -> t.d = last
       [] f[1] = "Last" /\ Len(f) = 2 -> t.d = last - ((Weekday(t.y, t.mo, last) + 1 + 7 - f[2]) % 7)
       [] f[1] = "NthWeekday" -> t.d = nth_weekday_day(t, f[2], f[3])
       [] OTHER -> matches(f, Weekday(t.y, t.mo, t.d) + 1)
matches_day(t) == day_of_month_matches(fields[4], t) /\ day_of_week_matches(fields[6], t)
next_valid_year(y) == next_valid(fields[7], y, 2099)

Seconds == fields[1]
Minutes == fields[2]
Hours == fields[3]

Goto(t) == dt' = t /\ phase' = "search" /\ UNCHANGED <<req, fields>>
GiveUp == phase' = "none" /\ UNCHANGED <<req, fields, dt, adv>>
\* A step that resets the time but does not advance the day.
GotoMidnight == Goto(Clock(dt, 0, 0, 0)) /\ UNCHANGED adv
GotoNextDay == IF NextDay(dt).y <= LastYear
                 THEN Goto(NextDay(dt)) /\ UNCHANGED adv
                 ELSE phase' = "panic" /\ UNCHANGED <<req, fields, dt, adv>>
\* .ok()? of a date or a time that does not exist
Try(valid, t) == IF valid THEN Goto(t) /\ UNCHANGED adv ELSE GiveUp

(* A new year is tried three times; the month it starts with comes from the caller. *)
TryYear(year, month) ==
  IF year = None \/ adv >= 3 \/ month \notin 1..12 THEN GiveUp
  ELSE Goto(Date(year, month, 1)) /\ adv' = adv + 1

MonthOk == matches(fields[5], dt.mo)
SkipYear ==
  /\ phase = "search" /\ ~matches(fields[7], dt.y)
  /\ TryYear(next_valid_year(dt.y), 1)
SkipMonth ==
  /\ phase = "search" /\ matches(fields[7], dt.y) /\ ~MonthOk
  /\ LET mo == next_valid(fields[5], dt.mo, 12)
     IN IF mo # None THEN Try(mo \in 1..12, Date(dt.y, mo, 1))
        ELSE TryYear(next_valid_year(dt.y + 1), min(fields[5]))
DateOk == phase = "search" /\ matches(fields[7], dt.y) /\ MonthOk
SkipDay == DateOk /\ ~matches_day(dt) /\ GotoNextDay
SkipHour ==
  /\ DateOk /\ matches_day(dt) /\ ~matches(Hours, dt.h)
  /\ LET h == next_valid(Hours, dt.h, 23)
     IN IF h # None THEN Try(h <= 23, Clock(dt, h, 0, 0)) ELSE GotoNextDay
HourOk == DateOk /\ matches_day(dt) /\ matches(Hours, dt.h)
NextHour(second) ==
  LET h == next_valid(Hours, dt.h + 1, 23)
  IN IF h # None THEN Try(h <= 23 /\ min(Minutes) <= 59 /\ second <= 59, Clock(dt, h, min(Minutes), second))
     ELSE GotoNextDay
SkipMinute ==
  /\ HourOk /\ ~matches(Minutes, dt.mi)
  /\ LET mi == next_valid(Minutes, dt.mi, 59)
     IN IF mi # None THEN Try(mi <= 59, Clock(dt, dt.h, mi, 0)) ELSE NextHour(0)
SkipSecond ==
  /\ HourOk /\ matches(Minutes, dt.mi) /\ ~matches(Seconds, dt.s)
  /\ LET s == next_valid(Seconds, dt.s, 59)
         mi == next_valid(Minutes, dt.mi + 1, 59)
     IN IF s # None THEN Try(s <= 59, Clock(dt, dt.h, dt.mi, s))
        ELSE IF mi # None THEN Try(mi <= 59 /\ min(Seconds) <= 59, Clock(dt, dt.h, mi, min(Seconds)))
        ELSE NextHour(min(Seconds))
Found ==
  /\ HourOk /\ matches(Minutes, dt.mi) /\ matches(Seconds, dt.s)
  /\ phase' = "found" /\ UNCHANGED <<req, fields, dt, adv>>

(* -------------------------- intervals and every! ------------------------- *)
(* Literals carry twice their value, so that halves are whole; totals count half milliseconds. *)
Units == <<"ms", "s", "m", "h", "d">>
Comma == [n |-> 0, unit |-> ","]
InRange(lit) ==
  /\ Contains(Units, lit.unit) /\ lit.n > 0
  /\ lit.n < CASE lit.unit = "ms" -> 2000 [] lit.unit = "h" -> 120 [] lit.unit = "d" -> 63 [] OTHER -> 120
PosOf(lit) == SelectInSeq(Units, LAMBDA u : u = lit.unit)

(* The reading of every!: commas between all literals or between none, units strictly
   falling, a fraction only in the last. parts[p] is the value read for the p-th suffix. *)
ParseEvery(args) ==
  LET commas == Len(args) >= 2 /\ args[2] = Comma
      Step(st, a) ==
        IF a = Comma THEN IF commas /\ st.expecting THEN [st EXCEPT !.expecting = FALSE] ELSE Failed(st)
        ELSE IF (commas /\ st.expecting) \/ ~InRange(a) \/ st.fraction \/ PosOf(a) >= st.ptr THEN Failed(st)
        ELSE [st EXCEPT !.expecting = ~@, !.fraction = a.n % 2 = 1, !.ptr = PosOf(a), !.parts[PosOf(a)] = a.n]
  IN FoldLeft(Step, [expecting |-> FALSE, fraction |-> FALSE, ptr |-> 6,
                     parts |-> [p \in 1..5 |-> 0], ok |-> TRUE], args)

\* A sum in the order in which TimeLiteral names the units.
every_reversed(args) ==
  LET p == ParseEvery(args).parts
  IN p[5] + 1000 * p[4] + 60000 * p[3] + 3600000 * p[2] + 86400000 * p[1]
every(args) ==
  LET p == ParseEvery(args).parts
  IN p[1] + 1000 * p[2] + 60000 * p[3] + 3600000 * p[4] + 86400000 * p[5]

EveryAccepts(args) == ParseEvery(args).ok /\ ParseEvery(args).ptr # 6

(* time_duration refuses what is not positive, from_secs_f64 what is negative; the rest take all. *)
IntervalRefused(kind, n) == (kind = "time_duration" /\ n <= 0) \/ (kind \in {"timedelta", "from_secs_f64"} /\ n < 0)
Constructors == {"timedelta", "time_duration", "duration", "from_secs", "from_secs_f64"}

(* --------------------------------- requests ------------------------------- *)
Requests ==
  [kind : {"text"}, arg : CronTexts, now : Nows] \cup [kind : {"fields"}, arg : CronFields, now : Nows]
  \cup [kind : {"every"}, arg : Everys] \cup [kind : Constructors, arg : Intervals]

(* A cron schedule is asked about `now': the search starts a second later, and that part of
   a second which now has passed stays with it until a field is turned. *)
InitCron ==
  /\ req.kind \in {"text", "fields"}
  /\ fields = IF req.kind = "text" THEN from_str(req.arg) ELSE req.arg
  /\ phase = IF fields = Rejected THEN "rejected" ELSE "search"
  /\ dt = SecondLater(req.now)

(* The offset is what schedule() adds to now; TaskScheduleImmediate adds 0. *)
InitInterval ==
  /\ fields = Rejected
  /\ \/ /\ req.kind = "every"
        /\ phase = IF EveryAccepts(req.arg) THEN "interval" ELSE "rejected"
        /\ dt = [offset |-> IF EveryAccepts(req.arg) THEN every(req.arg) ELSE 0]
     \/ /\ req.kind \in Constructors
        /\ req.kind \in {"duration", "from_secs"} => req.arg >= 0      \* a Duration, a u64
        /\ phase = IF IntervalRefused(req.kind, req.arg) THEN "rejected" ELSE "interval"
        /\ dt = [offset |-> IF IntervalRefused(req.kind, req.arg) THEN 0 ELSE req.arg]

Init == req \in Requests /\ adv = 0 /\ (InitCron \/ InitInterval)

Next == SkipYear \/ SkipMonth \/ SkipDay \/ SkipHour \/ SkipMinute \/ SkipSecond \/ Found
Spec == Init /\ [][Next]_vars /\ WF_vars(Next)
=============================================================================
