------------------------------ MODULE Schedule ------------------------------
(***************************************************************************)
(* The calendar of one allowance (schedule.py): when an attempt completes, *)
(* the next payment is due at next_occurrence of its anchored start.       *)
(* PaymentLifecycle knows a schedule only as the set of its due times and  *)
(* takes the least one after the present; here the arithmetic that         *)
(* computes it is compared with that set.                                  *)
(*                                                                         *)
(* Instants are ticks of UTC.  A zone is its set of summer-time instants,  *)
(* at which the local clock is Shift ticks ahead of UTC.  The calendar has *)
(* DayTicks a day, WeekDays a week, YearMonths a year, and months whose    *)
(* first days are MonthFirst, from day 0 to the day after the last month.  *)
(***************************************************************************)
EXTENDS Integers, Sequences

CONSTANTS
    Minute, Hour,  \* ticks of the elapsed-time frequencies
    DayTicks, WeekDays, YearMonths, MonthFirst,
    Summer, Shift,
    Starts,        \* start instants
    Frequencies,
    Horizon,       \* bound: no attempt completes later
    None

ASSUME CalendarAssumption ==
    /\ {Minute, Hour, DayTicks, WeekDays, YearMonths} \subseteq Nat \ {0}
    /\ MonthFirst \in Seq(Nat) /\ Len(MonthFirst) > YearMonths
    /\ MonthFirst[1] = 0
    /\ \A m, n \in DOMAIN MonthFirst : m < n => MonthFirst[m] < MonthFirst[n]
    /\ Horizon \in Nat
    /\ Starts \subseteq 0..Horizon
    /\ Frequencies \subseteq
         {"minutely", "hourly", "daily", "weekly", "monthly", "yearly", "once"}
    /\ None \notin Int

ASSUME ZoneAssumption == Summer \subseteq Int /\ Shift \in 1..DayTicks - 1

(* The calendar goes on for a year after the last completion.              *)
ASSUME RoomAssumption ==
    Horizon + Shift < MonthFirst[Len(MonthFirst) - YearMonths] * DayTicks

VARIABLES
    start,      \* start_datetime
    frequency,  \* frequency_type
    last,       \* when the last attempt completed
    due         \* next_payment_date, None once the schedule is over

vars == <<start, frequency, last, due>>

-----------------------------------------------------------------------------
(* datetime, zoneinfo and calendar                                         *)

Offset(t) == IF t \in Summer THEN Shift ELSE 0

(* The instants at which the local clock shows w: none in the gap of spring, *)
(* two in the repeated time of autumn.                                     *)
Showing(w) == {t \in {w, w - Shift} : t + Offset(t) = w}

(* astimezone(zone): the local clock, and whether it shows it again.       *)
Local(t) ==
    [wall |-> t + Offset(t),
     fold |-> IF \E u \in Showing(t + Offset(t)) : u < t THEN 1 ELSE 0]

(* astimezone(utc).  fold chooses among two instants; a time in a gap is   *)
(* read by the offset before the gap (fold 0) or after it (fold 1).        *)
ToUtc(d) ==
    IF Showing(d.wall) = {} THEN d.wall - d.fold * Shift
    ELSE CHOOSE t \in Showing(d.wall) :
           \A u \in Showing(d.wall) : IF d.fold = 0 THEN t <= u ELSE t >= u

Months == 1..Len(MonthFirst) - 1

MonthOf(w) ==
    CHOOSE m \in Months :
        MonthFirst[m] <= w \div DayTicks /\ w \div DayTicks < MonthFirst[m + 1]

DayOf(w) == w \div DayTicks - MonthFirst[MonthOf(w)] + 1

(* monthrange.                                                             *)
MonthDays(m) == MonthFirst[m + 1] - MonthFirst[m]

Least(a, b) == IF a <= b THEN a ELSE b

(* The n-th day of month m at the time of day of w.                        *)
OnDay(m, n, w) == (MonthFirst[m] + n - 1) * DayTicks + (w % DayTicks)

(* start.replace(year, month, day clamped to the month); the fold stays.   *)
InMonth(d, m) == [d EXCEPT !.wall = OnDay(m, Least(DayOf(@), MonthDays(m)), @)]

-----------------------------------------------------------------------------
(* next_occurrence                                                         *)

(* Elapsed time: a whole number of intervals after the start.              *)
NextElapsed(s, after, interval) ==
    s + ((after - s) \div interval + 1) * interval

(* Variant: days are counted in UTC.                                       *)
NextDayByUtc(s, after, interval) == NextElapsed(s, after, interval)

(* Variant: the candidate by the wall clock is never passed over.          *)
NextDayByWall(s, after, interval) ==
    LET w == Local(s).wall
        periods == (Local(after).wall - w) \div interval
    IN ToUtc([wall |-> w + (periods + 1) * interval, fold |-> 0])

(* Local days: from the last candidate by the wall clock on, the first that *)
(* is later than `after`.  Adding to a datetime clears its fold.           *)
NextDay(s, after, interval) ==
    LET w == Local(s).wall
        periods == (Local(after).wall - w) \div interval
        Candidate(k) == ToUtc([wall |-> w + (periods + k) * interval, fold |-> 0])
    IN Candidate(CHOOSE k \in 0..2 :
                    /\ Candidate(k) > after
                    /\ \A j \in 0..k - 1 : Candidate(j) <= after)

(* Variant: the first month tried is always taken.                         *)
NextMonthSame(s, after, step) ==
    LET months == ((MonthOf(Local(after).wall) - MonthOf(Local(s).wall))
                      \div step) * step
    IN ToUtc(InMonth(Local(s), MonthOf(Local(s).wall) + months))

(* Local months: the one of `after`, or a step later.                      *)
NextMonth(s, after, step) ==
    LET first == MonthOf(Local(s).wall)
        months == ((MonthOf(Local(after).wall) - first) \div step) * step
        Candidate(m) == ToUtc(InMonth(Local(s), first + m))
    IN IF Candidate(months) > after THEN Candidate(months)
       ELSE Candidate(months + step)

NextOccurrence(s, f, after) ==
    CASE after < s -> s
      [] after >= s /\ f = "once" -> None
      [] after >= s /\ f = "minutely" -> NextElapsed(s, after, Minute)
      [] after >= s /\ f = "hourly" -> NextElapsed(s, after, Hour)
      [] after >= s /\ f = "daily" -> NextDay(s, after, DayTicks)
      [] after >= s /\ f = "weekly" -> NextDay(s, after, WeekDays * DayTicks)
      [] after >= s /\ f = "monthly" -> NextMonth(s, after, 1)
      [] after >= s /\ f = "yearly" -> NextMonth(s, after, YearMonths)

(* An allowance is created before it starts, and is due at its start.      *)
Init ==
    /\ start \in Starts
    /\ frequency \in Frequencies
    /\ last = start - 1
    /\ due = start

(* process_allowance: an attempt completes, however late.                  *)
Complete ==
    /\ due # None
    /\ \E after \in due..Horizon :
         /\ last' = after
         /\ due' = NextOccurrence(start, frequency, after)
    /\ UNCHANGED <<start, frequency>>

Next == Complete

Spec == Init /\ [][Next]_vars

-----------------------------------------------------------------------------
(* Properties                                                              *)

TypeOK ==
    /\ start \in Starts
    /\ frequency \in Frequencies
    /\ last \in start - 1 .. Horizon
    /\ due = None \/ (due \in Int /\ due > last)

Calendar == {"daily", "weekly", "monthly", "yearly"}

(* The k-th local date of the schedule, as the README describes it: the     *)
(* start's time of day, the start's day of the month or the month's last.  *)
AnchoredWall(k) ==
    LET w == Local(start).wall
        In(m) == OnDay(m, IF DayOf(w) <= MonthDays(m) THEN DayOf(w) ELSE MonthDays(m), w)
    IN CASE frequency = "daily" -> w + k * DayTicks
         [] frequency = "weekly" -> w + k * WeekDays * DayTicks
         [] frequency = "monthly" -> In(MonthOf(w) + k)
         [] frequency = "yearly" -> In(MonthOf(w) + k * YearMonths)

(* How many periods the calendar has room for.                             *)
Periods ==
    CASE frequency \in {"daily", "weekly"} -> 0..Horizon + 1
      [] frequency = "monthly" -> 0..Len(MonthFirst) - 1 - MonthOf(Local(start).wall)
      [] frequency = "yearly" ->
           0..(Len(MonthFirst) - 1 - MonthOf(Local(start).wall)) \div YearMonths

(* All due times.  A local time that does not exist moves forward by the   *)
(* gap, a repeated one counts the first time (README.md:53-57).            *)
DueTimes ==
    CASE frequency = "once" -> {start}
      [] frequency = "minutely" -> {start + k * Minute : k \in 0..Horizon + 1}
      [] frequency = "hourly" -> {start + k * Hour : k \in 0..Horizon + 1}
      [] frequency \in Calendar ->
           {start} \cup {ToUtc([wall |-> AnchoredWall(k), fold |-> 0]) :
                           k \in Periods \ {0}}

(* The next payment is due at the least due time after the completed one:   *)
(* downtime skips what it missed and nothing else, and no due time comes   *)
(* round again, at clock changes and in short months too (schedule.py).    *)
DueIsNext ==
    IF due = None THEN \A o \in DueTimes : o <= last
    ELSE /\ due \in DueTimes /\ due > last
         /\ \A o \in DueTimes : o > last => due <= o

(* The clock does not change across the local time b: every time shortly    *)
(* before b exists, and once b has passed the clock never shows one again. *)
UnbrokenAt(b) ==
    \A t \in b - Shift .. b - 1 :
        /\ Showing(t) # {}
        /\ t \in Summer => \A u \in t .. b - 1 : u \in Summer

(* What the theorems on local months and days ask of the zone.             *)
MonthsUnbroken ==
    \A m \in DOMAIN MonthFirst \ {1} : UnbrokenAt(MonthFirst[m] * DayTicks)

DaysUnbroken ==
    \A d \in 1..MonthFirst[Len(MonthFirst)] : UnbrokenAt(d * DayTicks)

(* A schedule of local days or months is never due twice in one of them,   *)
(* also when the clock goes back after the first payment (README.md:57     *)
(* "occurs once").                                                         *)
LaterPeriod ==
    due' # None /\ frequency \in Calendar =>
        LET w == Local(due).wall
            next == Local(due').wall
        IN IF frequency \in {"daily", "weekly"}
             THEN w \div DayTicks < next \div DayTicks
             ELSE MonthOf(w) < MonthOf(next)

OncePerPeriod == [][LaterPeriod]_vars

(* README.md:56 "At a spring DST gap the payment moves forward by the gap;  *)
(* an autumn repeated time occurs once, at its first occurrence".  The code *)
(* keeps the fold of a start in the second pass of the repeated time for   *)
(* all its months (schedule.py:49, 56): then a gap moves the payment back  *)
(* and a repeated time is the second.                                      *)
ClockChangesAsDocumented ==
    due # None /\ due # start /\ frequency \in Calendar =>
        /\ Local(due).fold = 0
        /\ (Local(due).wall - Local(start).wall) % DayTicks \in {0, Shift}
=============================================================================
