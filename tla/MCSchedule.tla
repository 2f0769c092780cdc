----------------------------- MODULE MCSchedule -----------------------------
(* A small calendar for Schedule: days of 6 ticks, weeks of 2 days, years   *)
(* of 2 months.                                                            *)
EXTENDS Schedule

(* The second month of a year is short, in every other year shorter still. *)
FirstDays == <<0, 3, 5, 8, 9, 12, 14, 17, 18>>

(* The clock goes back at 13, forward at 43 and back again at 67, at the   *)
(* same time of the third day of a month each, and never across midnight.  *)
SummerTime == 0..12 \cup 43..66

(* Starts on every day and time of the first months ...                    *)
AllStarts == 4..24

(* ... or only those not in the second pass of the repeated time.          *)
FirstPassStarts == {s \in AllStarts : Local(s).fold = 0}

ASSUME ZoneIsUnbroken == MonthsUnbroken /\ DaysUnbroken
=============================================================================
