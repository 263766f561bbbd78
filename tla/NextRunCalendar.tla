-------------------------- MODULE NextRunCalendar --------------------------
(***************************************************************************)
(* compute_next_run_at (backend/app/report_schedule_service.py): the next  *)
(* run of a schedule, found on the clock of its time zone and stored in    *)
(* UTC.                                                                    *)
(*                                                                         *)
(* Time is counted in minutes, in UTC and on the clock of the zone, which  *)
(* goes forward by an hour at Forward and back by an hour at Back.  A time *)
(* of the zone is a record [wall, fold], as Python's datetime has it: fold *)
(* tells the second pass through the repeated hour.  Comparing and adding  *)
(* look at the wall alone, and adding forgets the fold.                    *)
(***************************************************************************)
EXTENDS Integers, Sequences

Sets == INSTANCE FiniteSetsExt

CONSTANTS
    MinutesPerHour, HoursPerDay, DaysPerWeek,
    MonthLength,    \* the lengths of consecutive months, in days
    Forward, Back,  \* the wall times at which the clock is changed
    MaxDelay        \* bound on the minutes until a change, or by which a run is late

MinutesPerDay == HoursPerDay * MinutesPerHour

ASSUME CalendarAssumption ==
    /\ {MinutesPerHour, HoursPerDay, DaysPerWeek} \subseteq Nat \ {0}
    /\ MonthLength \in Seq(Nat \ {0})
    /\ Forward \in Nat /\ Back \in Nat /\ Forward + MinutesPerHour < Back
    /\ MaxDelay \in Nat

\* The first day of a month, from the first day of all.
FirstDay[m \in 1 .. Len(MonthLength) + 1] ==
    IF m = 1 THEN 0 ELSE FirstDay[m - 1] + MonthLength[m - 1]

Day(wall) == wall \div MinutesPerDay
Month(wall) == CHOOSE m \in DOMAIN MonthLength : FirstDay[m] <= Day(wall) /\ Day(wall) < FirstDay[m + 1]

------------------------------------------------------------------------------
(* astimezone and _iso_utc.  A time that the clock leaps over is taken as  *)
(* if it had not been changed yet.                                         *)

Repeated(wall) == Back <= wall /\ wall < Back + MinutesPerHour

Utc(t) ==
    IF Forward + MinutesPerHour <= t.wall /\ (t.wall < Back \/ (Repeated(t.wall) /\ t.fold = 0))
    THEN t.wall - MinutesPerHour ELSE t.wall

Local(utc) ==
    IF Forward <= utc /\ utc < Back THEN [wall |-> utc + MinutesPerHour, fold |-> 0]
    ELSE [wall |-> utc, fold |-> IF Repeated(utc) THEN 1 ELSE 0]

------------------------------------------------------------------------------
(* compute_next_run_at, for a schedule that is enabled.                    *)

Moved(t, minutes) == [wall |-> t.wall + minutes, fold |-> 0]
AtTime(t, day, hour, minute) ==
    [t EXCEPT !.wall = day * MinutesPerDay + hour * MinutesPerHour + minute]

\* A candidate that is not later than now goes on by one period.
Later(candidate, now, period) ==
    IF candidate.wall <= now.wall THEN Moved(candidate, period) ELSE candidate

Hourly(s, now) ==
    Later([now EXCEPT !.wall = (@ \div MinutesPerHour) * MinutesPerHour + s.minute], now, MinutesPerHour)

Daily(s, now) == Later(AtTime(now, Day(now.wall), s.hour, s.minute), now, MinutesPerDay)

Weekly(s, now) ==
    LET days == (s.day - Day(now.wall)) % DaysPerWeek
    IN  Later(Moved(AtTime(now, Day(now.wall), s.hour, s.minute), days * MinutesPerDay),
              now, DaysPerWeek * MinutesPerDay)

\* The day of a month, or its last one if it is shorter.
DayIn(m, day) == FirstDay[m] + Sets!Min({day, MonthLength[m]}) - 1

\* Mutant: the day it was cut to in this month is kept for the next.
MonthlyKeepingCut(s, now) ==
    LET m == Month(now.wall)
        candidate == AtTime(now, DayIn(m, s.day), s.hour, s.minute)
        cut == Sets!Min({s.day, MonthLength[m]})
    IN  IF candidate.wall <= now.wall THEN AtTime(now, DayIn(m + 1, cut), s.hour, s.minute) ELSE candidate

Monthly(s, now) ==
    LET m == Month(now.wall)
        candidate == AtTime(now, DayIn(m, s.day), s.hour, s.minute)
    IN  IF candidate.wall <= now.wall THEN AtTime(now, DayIn(m + 1, s.day), s.hour, s.minute) ELSE candidate

ComputeNextRunAt(s, utc) ==
    LET now == Local(utc)
    IN  Utc(CASE s.cadence = "hourly" -> Hourly(s, now)
              [] s.cadence = "daily" -> Daily(s, now)
              [] s.cadence = "weekly" -> Weekly(s, now)
              [] s.cadence = "monthly" -> Monthly(s, now))

------------------------------------------------------------------------------

Schedule ==
    [cadence : {"hourly", "daily"}, hour : 0 .. HoursPerDay - 1, minute : 0 .. MinutesPerHour - 1, day : {0}]
      \cup [cadence : {"weekly"}, hour : 0 .. HoursPerDay - 1, minute : 0 .. MinutesPerHour - 1,
            day : 0 .. DaysPerWeek - 1]
      \cup [cadence : {"monthly"}, hour : 0 .. HoursPerDay - 1, minute : 0 .. MinutesPerHour - 1,
            day : 1 .. Sets!Max({MonthLength[m] : m \in DOMAIN MonthLength})]

\* The last month is there for the runs that are found before it.
End == FirstDay[Len(MonthLength)] * MinutesPerDay
EndOfAll == FirstDay[Len(MonthLength) + 1] * MinutesPerDay

VARIABLES schedule, reference, next  \* next was computed at reference, both in UTC

vars == <<schedule, reference, next>>

Compute(s, utc) ==
    /\ schedule' = s
    /\ reference' = utc
    /\ next' = ComputeNextRunAt(s, utc)

\* create_schedule, at any minute of the first day.
Init ==
    /\ schedule \in Schedule
    /\ reference \in 0 .. MinutesPerDay - 1
    /\ next = ComputeNextRunAt(schedule, reference)

\* update_schedule, while the run is waited for.
Update(s) ==
    \E utc \in reference .. reference + MaxDelay : utc < next /\ utc < End /\ Compute(s, utc)

\* The scheduler finds it due, at once or late.
RunDue ==
    \E delay \in 0 .. MaxDelay :
        LET utc == Sets!Max({reference, next}) + delay
        IN  utc < End /\ Compute(schedule, utc)

Next == RunDue \/ \E s \in Schedule : Update(s)

Spec == Init /\ [][Next]_vars

------------------------------------------------------------------------------
(* Properties.                                                             *)

\* The times of the zone's clock that a schedule names.
IsSlot(s, wall) ==
    /\ wall % MinutesPerHour = s.minute
    /\ s.cadence # "hourly" => (wall % MinutesPerDay) \div MinutesPerHour = s.hour
    /\ s.cadence = "weekly" => Day(wall) % DaysPerWeek = s.day
    /\ s.cadence = "monthly" => Day(wall) = DayIn(Month(wall), s.day)

\* Walls at which the clock of the zone never stands.
LeaptOver(wall) == Forward <= wall /\ wall < Forward + MinutesPerHour

SecondPass(utc) == Local(utc).fold = 1

\* The next run is later than the time it was computed at: otherwise the schedule is
\* due at once, and again.  Except: a weekly one in the second pass of the
\* repeated hour, when adding the days to its time forgets the pass.
NextRunLater == next > reference \/ (schedule.cadence = "weekly" /\ SecondPass(reference))

\* The next run is the first minute from now on at which the clock of the zone
\* shows a time of the schedule: none is skipped, a month that is too short cuts
\* the day once, and the change of the clock moves nothing.  Except: what is
\* computed in the repeated hour, and a time that is leapt over, which comes an
\* hour later.
NextRunIsNextSlot ==
    \/ next = Sets!Min({u \in reference + 1 .. EndOfAll - 1 : IsSlot(schedule, Local(u).wall)})
    \/ Repeated(Local(reference).wall)
    \/ LeaptOver(next) /\ IsSlot(schedule, next)

\* Both: the next run lies ahead, and is the one the schedule asks for.
NextRunRight == NextRunLater /\ NextRunIsNextSlot
=============================================================================
