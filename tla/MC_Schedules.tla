---------------------------- MODULE MC_Schedules ----------------------------
(* What a cron expression is documented to mean (the cron! macro's field     *)
(* expressions and the Quartz calendar rules), and the schedules checked     *)
(* against it.                                                               *)
EXTENDS Schedules

(* ------------------------- the documented meaning ------------------------ *)
Lowest == <<0, 0, 0, 1, 1, 1, 2026>>
RECURSIVE Means(_, _, _)
Means(f, i, v) ==
  CASE f[1] = "Exact" -> v = f[2]
    [] f[1] = "Range" -> v \in f[2]..f[3]
    [] f[1] = "Step" -> LET b == f[2]
                            from == IF b[1] \in {"Exact", "Range"} THEN b[2] ELSE Lowest[i]
                        IN v >= from /\ (b[1] = "Range" => v <= b[3]) /\ (v - from) % f[3] = 0
    [] f[1] = "List" -> \E k \in DOMAIN f[2] : Means(f[2][k], i, v)
    [] OTHER -> f[1] \in {"Wildcard", "Unspecified"}

Workday(y, mo, d) == Weekday(y, mo, d) \in 1..5
Distance(a, b) == IF a < b THEN b - a ELSE a - b
\* The workday of t's month that is nearest to `day'.
Nearest(day, t) ==
  LET days == 1..MonthLength(t.y, t.mo)
  IN /\ day \in days /\ Workday(t.y, t.mo, t.d)
     /\ \A k \in days : Workday(t.y, t.mo, k) => Distance(t.d, day) <= Distance(k, day)
LastWorkday(t) ==
  Workday(t.y, t.mo, t.d) /\ \A k \in (t.d + 1)..MonthLength(t.y, t.mo) : ~Workday(t.y, t.mo, k)

\* Lists mean any of their parts, whatever these are; L is the last day of the month as a
\* day of the month, and the last of the week, Saturday, as a day of the week.
RECURSIVE MeansDayOfMonth(_, _)
MeansDayOfMonth(f, t) ==
  CASE f[1] = "Last" -> t.d + (IF Len(f) = 2 THEN f[2] ELSE 0) = MonthLength(t.y, t.mo)
    [] f[1] = "NearestWeekday" -> IF f[2] = 0 THEN LastWorkday(t) ELSE Nearest(f[2], t)
    [] f[1] = "List" -> \E k \in DOMAIN f[2] : MeansDayOfMonth(f[2][k], t)
    [] OTHER -> Means(f, 4, t.d)
RECURSIVE MeansDayOfWeek(_, _)
MeansDayOfWeek(f, t) ==
  LET wd == Weekday(t.y, t.mo, t.d) + 1
  IN CASE f = <<"Last">> -> wd = 7
       [] f[1] = "Last" /\ Len(f) = 2 -> wd = f[2] /\ t.d + 7 > MonthLength(t.y, t.mo)
       [] f[1] = "NthWeekday" -> wd = f[2] /\ (t.d - 1) \div 7 + 1 = f[3]
       [] f[1] = "List" -> \E k \in DOMAIN f[2] : MeansDayOfWeek(f[2][k], t)
       [] OTHER -> Means(f, 6, wd)
MeansDay(fs, t) == MeansDayOfMonth(fs[4], t) /\ MeansDayOfWeek(fs[6], t)

MeansDate(fs, t) == Means(fs[7], 7, t.y) /\ Means(fs[5], 5, t.mo) /\ MeansDay(fs, t)
MeansTimeBetween(fs, a, b) ==      \* strictly between two times of day
  \E h \in 0..23 : /\ Means(fs[3], 3, h) /\ h * 3600 + 3599 > a /\ h * 3600 < b
     /\ \E m \in 0..59 : /\ Means(fs[2], 2, m) /\ h * 3600 + m * 60 + 59 > a /\ h * 3600 + m * 60 < b
        /\ \E s \in 0..59 : Means(fs[1], 1, s) /\ LET x == h * 3600 + m * 60 + s IN a < x /\ x < b
MeantBetween(fs, t, u) ==          \* some instant after t and before u is meant
  \E y \in t.y..u.y, mo \in 1..12 : \E d \in 1..MonthLength(y, mo) :
    LET D == Date(y, mo, d)
    IN /\ Day(t) <= Day(D) /\ Day(D) <= Day(u) /\ MeansDate(fs, D)
       /\ MeansTimeBetween(fs, IF Day(D) = Day(t) THEN Time(t) ELSE -1, IF Day(D) = Day(u) THEN Time(u) ELSE 86400)

(* Five shapes that the code reads otherwise than documented (DocumentedCronFiresNext): a step
   inside a list, a step over a range, a step over * in a field that starts at 1, an L, W or #
   inside a list, and L as the day of the week. *)
HasStep(f) == f[1] = "Step"
OfTheMonth(f) == f[1] \in {"Last", "NearestWeekday", "NthWeekday"}
Plain(fs) ==
  /\ \A i \in 1..7 : /\ fs[i][1] = "List" =>
                         \A k \in DOMAIN fs[i][2] : ~HasStep(fs[i][2][k]) /\ ~OfTheMonth(fs[i][2][k])
                     /\ HasStep(fs[i]) => fs[i][2][1] # "Range" /\ (fs[i][2][1] = "Wildcard" => i <= 3)
  /\ fs[6] # <<"Last">>

FiresNext ==
  /\ phase = "found" =>
       /\ Before(req.now, dt) /\ MeansDate(fields, dt)
       /\ Means(Hours, 3, dt.h) /\ Means(Minutes, 2, dt.mi) /\ Means(Seconds, 1, dt.s)
       /\ ~MeantBetween(fields, req.now, dt)
       /\ dt.sub = 0 \/ dt = SecondLater(req.now)
  /\ phase = "none" => ~MeantBetween(fields, req.now, Date(req.now.y + 4, 1, 1))
  /\ phase = "panic" => ~MeantBetween(fields, req.now, Date(LastYear + 1, 1, 1))

(* What next_time_from answers lies in the first second after now that the expression means, and
   it gives up only when there is none before the fourth new year; the five shapes excepted. It
   is the start of that second, unless this is the very next one, where it is as far into its
   second as now is. *)
PlainCronFiresNext == fields # Rejected /\ Plain(fields) => FiresNext

(* What cron!'s documentation says of every expression, without exceptions. *)
DocumentedCronFiresNext == fields # Rejected => FiresNext

(* The loop of next_time_from has no bound of its own: every search still ends. *)
SearchEnds == <>(phase # "search")

(* cron! and from_str read their text in different ways, by token trees and by characters;
   a text both accept is one schedule. *)
MacroMatchesFromStr ==
  req.kind = "text" /\ phase # "search" => LET a == from_str(req.arg)  b == cron(req.arg)
                       IN a # Rejected /\ b # Rejected => a = b

(* every! reads each literal once, under its own unit, and refuses any other arrangement. Two
   arrangements are left out, of which documentation and code say different things: fractions
   of milliseconds (MillisecondsAreWhole) and more than 31 days (LongIntervalsAreTaken). *)
Millis(lit) == lit.n * (CASE lit.unit = "ms" -> 1 [] lit.unit = "s" -> 1000 [] lit.unit = "m" -> 60000
                          [] lit.unit = "h" -> 3600000 [] OTHER -> 86400000)
Literal(args) == SelectSeq(args, LAMBDA a : a # Comma)
Disputed(lit) == (lit.unit = "ms" /\ lit.n % 2 = 1) \/ (lit.unit = "d" /\ lit.n > 62)
\* The ranges the tests state, and what the documentation says of order, fraction and commas.
Listed(lit) == 0 < lit.n /\ lit.n < (CASE lit.unit = "ms" -> 2000 [] lit.unit = "d" -> 63 [] OTHER -> 120)
WellFormed(args) ==
  LET lits == Literal(args)
  IN /\ lits # <<>> /\ \A i \in 1..Len(lits) : Listed(lits[i])
     /\ \A i, j \in 1..Len(lits) : i < j => PosOf(lits[i]) > PosOf(lits[j]) /\ lits[i].n % 2 = 0
     /\ \/ Len(lits) = Len(args)
        \/ \A i \in 1..Len(args) : args[i] = Comma <=> i % 2 = 0
EveryReadsItsLiterals ==
  req.kind = "every" /\ (\A i \in DOMAIN Literal(req.arg) : ~Disputed(Literal(req.arg)[i])) =>
    /\ phase = "interval" <=> WellFormed(req.arg)
    /\ phase = "interval" => dt.offset = FoldLeft(LAMBDA a, l : a + Millis(l), 0, req.arg)

(* What its documentation says of fractions: milliseconds do not support them. *)
MillisecondsAreWhole ==
  req.kind = "every" /\ phase = "interval" =>
    \A i \in DOMAIN req.arg : req.arg[i].unit = "ms" => req.arg[i].n % 2 = 0

Lit(n, u) == [n |-> n, unit |-> u]
LongIntervals == {<<Lit(14, "d")>>, <<Lit(730, "d")>>}    \* 7d and 365d

(* What its documentation says of intervals longer than a month: a higher number of days. *)
LongIntervalsAreTaken == req.kind = "every" /\ req.arg \in LongIntervals => phase = "interval"

(* -------------------------------- instances ------------------------------ *)
MC_CronTexts ==
  {"* * * * * *", "30 * * * * *", "*/15 0/20 * * * *", "0 0/5 14 * * ?", "59 59 23 31 12 *",
   "10-20 5 9-17 * * MON-FRI", "0,30 15,45 8 1,15 * ?", "0 15 10 ? * 6L", "0 0 0 L 2 *", "0 0 0 L-3 * ?",
   "0 0 0 LW * ?", "0 0 0 31W * ?", "0 0 0 1W feb ?", "0 0 0 1W 8 ?", "0 0 0 31W 5 ?", "0 0 12 ? * 6#3", "0 0 12 ? * 5#5", "0 0 0 ? * L",
   "0 0 0 29 2 ?", "0 0 0 31 2 *", "0 0 0 32W * ?", "0 0 0 1 1 MON", "0 0 0 ? NOV-DEC SUN,wed", "5 0 * * *",
   "0 0 12 ? * 6 L", "0 0 0 * * 5MON", "0 0 0 ? * ?", "0 0 0 ? * MONDAY", "0 60 * * * *", "1 - 5 * * * *",
   "0  0 0 * * *", "0 0 0 3L * ?", "*/40 50/7 */5 * * *", "0 0 0 5-1 * *", "MON 0 0 * * *",
   "* * * L/2 * *", "0 0 0 L L ?", "0 0 0 W W W", "0 */0 0 * * *", "L L W * # 6", "0 0 0 1,,2 * *", "0 0 0 1,LW * ?"}
MC_OddTexts == {"0/5,30 * * * * *", "10-20/5 * * * * *", "0 0 0 1 */5 ?", "0 0 0 */10 * ?"}
F(n) == <<"Exact", n>>
MC_CronFields == {<<F(0), F(0), F(0), F(29), F(2), Unspecified, F(2028)>>, <<F(0), F(0), F(0), F(31), F(12), Unspecified, F(2026)>>}
Into(t) == [t EXCEPT !.sub = 1]
MC_Nows == {Date(2026, 1, 1), Into(At(2026, 1, 30, 23, 59, 58)), Into(At(2026, 11, 15, 14, 56, 31)),
            Date(2028, 2, 29), Into(At(2027, 12, 31, 23, 59, 59))}
\* every combination of a few day fields, at times of day that make the search turn back to the next day
MC_DayTexts == {a \o b \o " 9-17 " \o dom \o " " \o mo \o " " \o dow : a \in {"0 ", "10,50 "}, b \in {"20-22", "0/30"},
                  dom \in {"*", "?", "L", "15W", "1,31", "29"}, mo \in {"*", "FEB", "4/3"}, dow \in {"*", "?", "MON-FRI", "6#5", "2L"}}
MC_AllTexts == MC_CronTexts \cup MC_OddTexts \cup MC_DayTexts
Literals == {Lit(4, "d"), Lit(8, "h"), Lit(6, "m"), Lit(3, "s"), Lit(20, "ms"), Lit(120, "s"), Comma}
MC_Everys == UNION {[1..n -> Literals] : n \in 0..4}
             \cup {<<Lit(2, "d"), Comma, Lit(4, "h"), Comma, Lit(6, "m"), Comma, Lit(8, "s"), Comma, Lit(12, "ms")>>}
MC_Intervals == {-1, 0, 1, 60}
\* The instances of the runs that show what departs from the documentation.
NoFields == {}
NoEverys == {}
NoTexts == {}
LastDayTexts == {"0 0 0 ? * L"}
ListTexts == {"0 0 0 1,LW * ?"}
StepTexts == {"0-30/5 * * * * *"}
FractionEverys == {<<Lit(3, "s")>>, <<Lit(4, "s"), Lit(3, "ms")>>}
=============================================================================
