-------------------------- MODULE SchedulerHealth --------------------------
(***************************************************************************)
(* AllowanceWorkers among users and restarts, and with the row it keeps in *)
(* scheduler_health, from which GET /api/v1/health tells whether the       *)
(* scheduler works: the state the scheduler wrote last, and when.          *)
(***************************************************************************)
EXTENDS AllowanceWorkers

VARIABLE
    health  \* the row: its state and the age of its later time stamp;
            \* lost: the time since then in calls of the database or without
            \* a server, and a minute for each "running" not written;
            \* call: how long the heartbeat in flight has taken

allvars == <<vars, health>>

(* More than three minutes, of any number, or never; and more than two.    *)
Old == 3 * Minute + 1
Much == 2 * Minute + 1

HealthTypeOK ==
    health \in [state : {"starting", "running", "healthy", "error"},
                age : 0..Old, lost : 0..Much, call : 0..Old]

(* The row of migration m006, or one that a scheduler left long ago.       *)
HealthInit ==
    /\ Init
    /\ health \in [state : {"starting", "error"}, age : {Old}, lost : {Much}, call : {0}]

UpTo(most, n) == IF n <= most THEN n ELSE most

(* record_scheduler_heartbeat took the time before its statement, which has *)
(* run since.                                                              *)
Recorded(state) ==
    [state |-> state, age |-> health.call, lost |-> UpTo(Much, health.call), call |-> 0]

Unrecorded == [health EXCEPT !.call = 0]

HeartbeatRecorded == Heartbeat /\ health' = Recorded("running")

(* The query failed after the heartbeat, or the heartbeat did.             *)
PollFailsRecorded ==
    /\ PollFails
    /\ health' = IF loop.pc = "poll" THEN health
                 ELSE [Unrecorded EXCEPT !.lost = UpTo(Much, @ + Minute)]

(* "error" if cycle_failed, which a backoff follows; an exception is logged. *)
DecideRecorded ==
    /\ Decide
    /\ health' \in {Unrecorded, Recorded(IF loop.failed THEN "error" ELSE "healthy")}

TickRecorded ==
    /\ Tick
    /\ health' = [health EXCEPT
         !.age = UpTo(Old, @ + 1),
         !.lost = IF Stalled THEN UpTo(Much, @ + 1) ELSE @,
         !.call = IF loop.pc \in {"heartbeat", "decide"} THEN UpTo(Old, @ + 1) ELSE @]

(* The other steps do not touch the row.                                   *)
CycleUnrecorded == (StartCycle \/ Poll \/ Collect \/ Wake) /\ UNCHANGED health
TaskUnrecorded(w) == TaskStep(w) /\ UNCHANGED health
UserUnrecorded(a) == UserChanges(a) /\ UNCHANGED health
RestartUnrecorded == Restart /\ health' = Unrecorded

HealthNext ==
    \/ HeartbeatRecorded \/ PollFailsRecorded \/ DecideRecorded \/ TickRecorded
    \/ CycleUnrecorded \/ RestartUnrecorded
    \/ \E w \in Wallets : TaskUnrecorded(w)
    \/ \E a \in Allowances : UserUnrecorded(a)

HealthSpec == HealthInit /\ [][HealthNext]_allvars

(* api_allowance_health.                                                   *)
scheduler_ok == health.age <= 3 * Minute /\ health.state # "error"

-----------------------------------------------------------------------------
(* Properties                                                              *)

(* The endpoint calls the scheduler unhealthy only for a reason: a failure  *)
(* it reported, or more than two minutes lost, counting one for each cycle *)
(* that could not write "running" and all the time the database did not     *)
(* answer or no server ran.  The tasks in flight, however long they take,   *)
(* and the waits between the cycles are never the reason, nor are two lost *)
(* heartbeats whose calls took no time (README.md:225-226 "A heartbeat     *)
(* older than three minutes is unhealthy"; tasks.py:499-511,               *)
(* views_api.py:471).                                                      *)
UnhealthyOnlyIfSilent ==
    ~scheduler_ok => health.state = "error" \/ health.lost > 2 * Minute

(* Why: the age is the time lost and the waits, of a minute at most after   *)
(* each attempt to write.                                                  *)
Remaining ==
    CASE loop.pc \in {"wait", "sleep"} -> loop.grid
      [] loop.pc = "backoff" -> loop.timer
      [] OTHER -> 0

Allowed == IF loop.pc \in {"poll", "polled", "decide"} THEN 0 ELSE Minute

WritesInTime ==
    health.lost <= 2 * Minute => health.age + Remaining <= health.lost + Allowed

HealthInv ==
    /\ WorkersInv
    /\ HealthTypeOK
    /\ WritesInTime

Failure == loop.failed \/ \E w \in Wallets : Ended(w) /\ running[w].pc = "failed"

(* A failure of a task or of the poll is not forgotten before it is written *)
(* to the row (or the write fails), whichever of the cycle's three          *)
(* collections noticed it (tasks.py:482-498).                              *)
ReportsFailure ==
    Failure /\ ~Restart =>
        \/ Failure'
        \/ loop'.pc = "backoff" /\ health' \in {Unrecorded, Recorded("error")}

FailureReported == [][ReportsFailure]_allvars
=============================================================================
