------------------------------ MODULE Schedule ------------------------------
(***************************************************************************)
(* internal/cron/parser.go: what a five-field expression denotes, and the  *)
(* chain of fire times the scheduler gets by asking Next again and again   *)
(* with the time of the last one.                                          *)
(*                                                                         *)
(* A field is the sequence of its comma-separated parts; a part has a      *)
(* range, given by kind, a and b, and a step.  Instants are whole minutes  *)
(* of UTC (Next only compares them with whole minutes); the clock's time   *)
(* zone matters to Next because it takes the year from the local time.     *)
(***************************************************************************)
EXTENDS Integers, Sequences, FiniteSets, FiniteSetsExt

CONSTANTS
  Exprs,       \* expressions to compile
  Starts,      \* dates <<year, month, day, hour, minute>> to start from
  Zones,       \* offsets of the local time zone, in minutes
  Width,       \* bits of an int: 64 in the code, fewer here
  MaxFires     \* bound: how many fire times are asked for in a row

ASSUME ScheduleAssumption == Width \in Nat \ {0} /\ MaxFires \in Nat

FieldNames == {"minute", "hour", "dayOfMonth", "month", "dayOfWeek"}

Bounds == [minute |-> <<0, 59>>, hour |-> <<0, 23>>, dayOfMonth |-> <<1, 31>>,
           month |-> <<1, 12>>, dayOfWeek |-> <<0, 6>>]

(***************************************************************************)
(* parseField.                                                             *)
(***************************************************************************)
MaxInt == 2^(Width - 1) - 1

Wrap(v) == ((v + 2^(Width - 1)) % 2^Width) - 2^(Width - 1)

Low(part, bound) == IF part.kind = "any" THEN bound[1] ELSE part.a
High(part, bound) ==
  CASE part.kind = "any" -> bound[2]
    [] part.kind = "value" -> part.a
    [] part.kind = "range" -> part.b

WellFormed(part, bound) ==
  /\ part.step > 0
  /\ part.kind # "any" =>
       /\ Low(part, bound) >= bound[1]
       /\ High(part, bound) <= bound[2]
       /\ Low(part, bound) <= High(part, bound)

\* Mutant of Walk: the end of the range is left out.
RECURSIVE WalkExclusive(_, _, _)
WalkExclusive(v, hi, step) == IF v >= hi THEN {} ELSE {v} \cup WalkExclusive(Wrap(v + step), hi, step)

\* The loop that lists a range in steps; the sum is an int.
RECURSIVE Walk(_, _, _)
Walk(v, hi, step) == IF v > hi THEN {} ELSE {v} \cup Walk(Wrap(v + step), hi, step)

ParseField(field, bound) ==
  UNION {Walk(Low(field[i], bound), High(field[i], bound), field[i].step) : i \in DOMAIN field}

\* Parse refuses the expression when a part of a field is out of range.
Accepted(expr) ==
  \A f \in FieldNames : \A i \in DOMAIN expr[f] : WellFormed(expr[f][i], Bounds[f])

Parse(expr) == [f \in FieldNames |-> ParseField(expr[f], Bounds[f])]

(***************************************************************************)
(* The calendar of package time.                                           *)
(***************************************************************************)
IsLeap(y) == y % 4 = 0 /\ (y % 100 # 0 \/ y % 400 = 0)

DaysInMonth(y, m) ==
  IF m = 2 THEN (IF IsLeap(y) THEN 29 ELSE 28) ELSE (IF m \in {4, 6, 9, 11} THEN 30 ELSE 31)

\* Days from 1 January 1970 to 1 January of year y, and to the first of month m.
YearStart(y) ==
  LET n == y - 1
  IN  365 * (y - 1970) + n \div 4 - n \div 100 + n \div 400 - 477

MonthStart(y, m) ==
  YearStart(y) + (367 * m - 362) \div 12
  + (IF m <= 2 THEN 0 ELSE IF IsLeap(y) THEN -1 ELSE -2)

Instant(y, m, d, h, mi) == ((MonthStart(y, m) + d - 1) * 24 + h) * 60 + mi

Weekday(y, m, d) == (MonthStart(y, m) + d + 3) % 7

YearOf(t) == CHOOSE y \in 1970..2199 : YearStart(y) * 1440 <= t /\ t < YearStart(y + 1) * 1440

\* AddDate(8, 0, 0) moves the 29th of February of a common year to 1 March.
AddEightYears(t) ==
  LET y == YearOf(t)
      day == t \div 1440 - YearStart(y)
      afterFebruary == day >= MonthStart(y, 3) - YearStart(y)
  IN  t + 1440 * IF afterFebruary THEN MonthStart(y + 8, 3) - MonthStart(y, 3)
                                  ELSE YearStart(y + 8) - YearStart(y)

(***************************************************************************)
(* Next.                                                                   *)
(***************************************************************************)
\* The days of year y on which the three date fields all match.
Days(s, y) ==
  {d \in s.month \X s.dayOfMonth :
     /\ d[2] <= DaysInMonth(y, d[1])
     /\ Weekday(y, d[1], d[2]) \in s.dayOfWeek}

Fires(s, y) == {Instant(y, d[1], d[2], h, mi) : d \in Days(s, y), h \in s.hour, mi \in s.minute}

\* The loops run through a year in ascending order and return the first hit.
RECURSIVE FirstFrom(_, _, _, _)
FirstFrom(s, after, y, last) ==
  LET hits == {c \in Fires(s, y) : c > after}
  IN  IF y > last THEN {}
      ELSE IF hits # {} THEN {Min(hits)}
      ELSE FirstFrom(s, after, y + 1, last)

\* Mutant of Next: the search ends one year early.
NextSevenYears(s, after, zone) ==
  LET found == FirstFrom(s, after, YearOf(after + zone + 1), YearOf(after + zone) + 7)
  IN  IF found # {} THEN Min(found) ELSE AddEightYears(after + zone) - zone

Next(s, after, zone) ==
  LET found == FirstFrom(s, after, YearOf(after + zone + 1), YearOf(after + zone) + 8)
  IN  IF found # {} THEN Min(found) ELSE AddEightYears(after + zone) - zone

(***************************************************************************)
(* The chain of fire times.                                                *)
(***************************************************************************)
VARIABLES
  expr, schedule,   \* the expression, and what Parse made of it
  zone,
  after,            \* the last fire time, at first a time of registration
  fires             \* how many fire times there were

scheduleVars == <<expr, schedule, zone, after, fires>>

ScheduleInit ==
  /\ expr \in Exprs
  /\ Accepted(expr)
  /\ schedule = Parse(expr)
  /\ zone \in Zones
  /\ after \in {Instant(s[1], s[2], s[3], s[4], s[5]) : s \in Starts}
  /\ fires = 0

Fire ==
  /\ fires < MaxFires /\ fires' = fires + 1
  /\ after' = Next(schedule, after, zone)
  /\ UNCHANGED <<expr, schedule, zone>>

ScheduleSpec == ScheduleInit /\ [][Fire]_scheduleVars

-----------------------------------------------------------------------------

\* The values a part stands for, by division instead of by a loop.
Denotes(part, bound) ==
  {v \in Low(part, bound)..High(part, bound) : (v - Low(part, bound)) % part.step = 0}

Overflows(part, bound) == High(part, bound) + part.step > MaxInt

\* A compiled field holds exactly the values its parts denote, whatever the
\* bounds and steps: the last value of a range, a step beyond the range, parts
\* that overlap.  Only a step so large that the loop's sum overflows can wrap
\* around and come back with values the expression does not name.
FieldsAreExact ==
  \A f \in FieldNames :
    (\A i \in DOMAIN expr[f] : ~Overflows(expr[f][i], Bounds[f])) =>
      schedule[f] = UNION {Denotes(expr[f][i], Bounds[f]) : i \in DOMAIN expr[f]}

Skipped(from, to) == {c \in UNION {Fires(schedule, y) : y \in YearOf(from)..YearOf(to)} :
                        from < c /\ c < to}

Fireable(t) == t \in Fires(schedule, YearOf(t))

\* The chain of fire times moves forward, leaves none out, and names only
\* instants of the schedule: across month ends, leap years and the turn of
\* the year.  It may leave some out only when the local time zone is already
\* in the next year, and name another instant only when there is none in the
\* years it looks at.
ChainIsComplete ==
  [][/\ after' > after
     /\ YearOf(after + zone + 1) <= YearOf(after + 1) => Skipped(after, after') = {}
     /\ Fireable(after') \/ Skipped(after, Instant(YearOf(after + zone) + 9, 1, 1, 0, 0)) = {}
                         \/ YearOf(after + zone + 1) > YearOf(after + 1)]_scheduleVars
=============================================================================
