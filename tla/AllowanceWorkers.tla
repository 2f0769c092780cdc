-------------------------- MODULE AllowanceWorkers --------------------------
(***************************************************************************)
(* The scheduler of tasks.py: AllowanceWorkers hands rows to one task per  *)
(* wallet, check_and_process_allowances drives it.  What a task does to a  *)
(* row is PaymentLifecycle's business; here it leaves the row unchanged    *)
(* (a claim still pending) or changes it (claimed, deferred, finished).    *)
(*                                                                         *)
(* Times are countdowns of seconds, scaled to Minute units a minute, so    *)
(* that the state space is finite.  Time passes while the coroutine waits  *)
(* and while it awaits the database, for as long as the database likes; the *)
(* code between two awaits takes none.                                     *)
(***************************************************************************)
EXTENDS Naturals, FiniteSets, SequencesExt

CONSTANTS
    Allowances, Wallets,
    WalletOf,    \* the wallet of each allowance
    FirstOrder,  \* the order in which the rows are due at first
    MaxRunning,  \* 8: tasks at once
    Batch,       \* 5: rows a task takes
    Minute,      \* 60 s: grid of the polls, rest of a checked row, backoff
    FallDue,     \* rows that may fall due while others wait
    None

ASSUME WorkersAssumption ==
    /\ IsFiniteSet(Allowances) /\ IsFiniteSet(Wallets)
    /\ WalletOf \in [Allowances -> Wallets]
    /\ FirstOrder \in Bijection(1..Cardinality(Allowances), Allowances)
    /\ MaxRunning \in Nat \ {0} /\ Batch \in Nat \ {0} /\ Minute \in Nat \ {0}
    /\ FallDue \subseteq Allowances
    /\ None \notin Allowances \cup Wallets

VARIABLES
    ready,           \* rows of the database that a poll selects
    order,           \* all rows by next_payment_date, as the query sorts them
    rest,            \* last_checked: how long an unchanged row is passed over
    running,         \* per wallet None or its task
    last_wallet,     \* the wallet started last
    last_allowance,  \* per wallet the row processed last
    offered,         \* rows the last poll offered, unchanged since
    loop             \* the scheduler coroutine

vars == <<ready, order, rest, running, last_wallet, last_allowance, offered, loop>>

(* A task: the rows it still has to process, the one it processes, how long *)
(* ago it was polled and the rows that changed since.                      *)
Tasks ==
    [pc : {"run", "done", "failed"}, queue : Seq(Allowances),
     at : Allowances \cup {None}, age : 0..Minute, stale : SUBSET Allowances]

ASSUME TaskAssumption == None \notin Tasks

(* pc: no server ("down"), the head of the loop ("start"), what the         *)
(* coroutine awaits in a cycle (the first heartbeat, the query of "poll",   *)
(* the tasks just "polled", the second heartbeat of "decide"), and how it   *)
(* waits for the next.                                                     *)
(* grid: time to next_poll, 0 if it is past; timer: time to the end of a    *)
(* backoff; completed and failed: completed_in_poll and cycle_failed.      *)
Loops ==
    [pc : {"down", "start", "heartbeat", "poll", "polled", "decide",
           "wait", "sleep", "backoff"},
     grid : 0..Minute, timer : 0..Minute, completed : BOOLEAN, failed : BOOLEAN]

TypeOK ==
    /\ ready \in SUBSET Allowances
    /\ order \in Bijection(1..Cardinality(Allowances), Allowances)
    /\ rest \in [Allowances -> 0..Minute]
    /\ running \in [Wallets -> Tasks \cup {None}]
    /\ last_wallet \in Wallets \cup {None}
    /\ last_allowance \in [Wallets -> Allowances \cup {None}]
    /\ offered \in SUBSET Allowances
    /\ loop \in Loops

Init ==
    /\ ready \in SUBSET Allowances
    /\ order = FirstOrder
    /\ rest = [a \in Allowances |-> 0]
    /\ running = [w \in Wallets |-> None]
    /\ last_wallet = None
    /\ last_allowance = [w \in Wallets |-> None]
    /\ offered = {}
    /\ loop = [pc |-> "start", grid |-> 0, timer |-> 0,
               completed |-> FALSE, failed |-> FALSE]

-----------------------------------------------------------------------------
(* AllowanceWorkers                                                        *)

IsRunning(w) == running[w] # None
Ended(w) == IsRunning(w) /\ running[w].pc # "run"

(* collect(): finished tasks free their slot; an exception is reported.    *)
Collected == [w \in Wallets |-> IF Ended(w) THEN None ELSE running[w]]
AnyEnded == \E w \in Wallets : Ended(w)
AnyFailed == \E w \in Wallets : IsRunning(w) /\ running[w].pc = "failed"

(* Variant: rotation that always starts at the head.                       *)
FromHead(s, x) == s

(* The sequence s, starting after x if x is in it.                         *)
RotateAfter(s, x) ==
    IF x \in ToSet(s)
      THEN LET i == CHOOSE j \in DOMAIN s : s[j] = x
           IN SubSeq(s, i + 1, Len(s)) \o SubSeq(s, 1, i)
      ELSE s

Prefix(s, n) == SubSeq(s, 1, IF n <= Len(s) THEN n ELSE Len(s))

(* The elements of s that are in T, in their order.  (SelectSeq, which the *)
(* provers know nothing of.)                                               *)
Only(s, T) ==
    LET kept == {i \in DOMAIN s : s[i] \in T}
        nth == CHOOSE f \in [1..Cardinality(kept) -> kept] :
                   \A i, j \in DOMAIN f : i < j => f[i] < f[j]
    IN [i \in 1..Cardinality(kept) |-> s[nth[i]]]

(* The rows a poll offers to tasks, and their wallets by first appearance. *)
Offered == {a \in ready : rest[a] = 0}
Queued(w) == Only(order, {a \in Offered : WalletOf[a] = w})
WalletOrder ==
    LET first == Only(order, {a \in Offered : a = Head(Queued(WalletOf[a]))})
    IN [i \in DOMAIN first |-> WalletOf[first[i]]]

(* Variant: a wallet whose task still runs is started again.               *)
StartableAgain(occupied) ==
    Prefix(RotateAfter(WalletOrder, last_wallet), MaxRunning)

(* Variant: the tasks in flight are not counted.                           *)
StartableUncounted(occupied) ==
    Only(RotateAfter(WalletOrder, last_wallet), {w \in Wallets : occupied[w] = None})

(* The wallets a poll starts, in order, given the tasks still running.     *)
Startable(occupied) ==
    Prefix(Only(RotateAfter(WalletOrder, last_wallet),
                {w \in Wallets : occupied[w] = None}),
           MaxRunning - Cardinality({w \in Wallets : occupied[w] # None}))

NewTask(w) ==
    [pc |-> "run", at |-> None, age |-> 0, stale |-> {},
     queue |-> Prefix(RotateAfter(Queued(w), last_allowance[w]), Batch)]

(* Variant: cycle_failed is what poll returns, whatever it was before.     *)
PollForgets ==
    LET started == Startable(Collected) IN
    /\ loop.pc = "poll"
    /\ running' = [w \in Wallets |->
         IF w \in ToSet(started) THEN NewTask(w) ELSE Collected[w]]
    /\ last_wallet' = IF started = <<>> THEN last_wallet ELSE Last(started)
    /\ offered' = Offered
    /\ loop' = [loop EXCEPT !.pc = "polled", !.completed = AnyEnded,
                            !.failed = AnyFailed]
    /\ UNCHANGED <<ready, order, rest, last_allowance>>

(* get_all_active_allowances answers and poll starts tasks.  A row that     *)
(* changes while the answer is on its way counts as changed right after    *)
(* the poll: the task holds a stale copy of it either way.                 *)
Poll ==
    LET started == Startable(Collected) IN
    /\ loop.pc = "poll"
    /\ running' = [w \in Wallets |->
         IF w \in ToSet(started) THEN NewTask(w) ELSE Collected[w]]
    /\ last_wallet' = IF started = <<>> THEN last_wallet ELSE Last(started)
    /\ offered' = Offered
    /\ loop' = [loop EXCEPT !.pc = "polled", !.completed = AnyEnded,
                            !.failed = @ \/ AnyFailed]
    /\ UNCHANGED <<ready, order, rest, last_allowance>>

(* Variant: tasks that end while the others start free their slots and are  *)
(* not reported.                                                           *)
CollectBlind ==
    /\ loop.pc = "polled"
    /\ running' = Collected
    /\ loop' = [loop EXCEPT !.pc = "decide", !.failed = @ \/ AnyFailed]
    /\ UNCHANGED <<ready, order, rest, last_wallet, last_allowance, offered>>

(* poll lets the new tasks run once and collects those that have ended.    *)
Collect ==
    /\ loop.pc = "polled"
    /\ running' = Collected
    /\ loop' = [loop EXCEPT !.pc = "decide", !.completed = @ \/ AnyEnded,
                            !.failed = @ \/ AnyFailed]
    /\ UNCHANGED <<ready, order, rest, last_wallet, last_allowance, offered>>

(* process_wallet takes the next row of its batch.  The time it notes for   *)
(* the row is the poll's, the state it notes the one the poll read.        *)
BeginRow(w) ==
    LET t == running[w] IN
    /\ IsRunning(w) /\ t.pc = "run" /\ t.at = None /\ t.queue # <<>>
    /\ running' = [running EXCEPT ![w].at = Head(t.queue), ![w].queue = Tail(t.queue)]
    /\ last_allowance' = [last_allowance EXCEPT ![w] = Head(t.queue)]
    /\ rest' = [rest EXCEPT ![Head(t.queue)] =
                 IF Head(t.queue) \in t.stale THEN 0 ELSE Minute - t.age]
    /\ UNCHANGED <<ready, order, last_wallet, offered, loop>>

(* A row that changes is no longer the one anybody has noted or read.      *)
Outdated(a) ==
    [w \in Wallets |->
      IF IsRunning(w) THEN [running[w] EXCEPT !.stale = @ \cup {a}] ELSE None]

(* process_allowance returns: the row is as before, ...                    *)
EndUnchanged(w) ==
    /\ IsRunning(w) /\ running[w].at # None
    /\ running' = [running EXCEPT ![w].at = None]
    /\ UNCHANGED <<ready, order, rest, last_wallet, last_allowance, offered, loop>>

(* ... or it was claimed and is selected until the claim is released, or it *)
(* was deferred or finished; a finished row has a later date than any that  *)
(* is due.                                                                 *)
EndChanged(w) ==
    LET a == running[w].at IN
    /\ IsRunning(w) /\ a # None
    /\ running' = [Outdated(a) EXCEPT ![w].at = None]
    /\ rest' = [rest EXCEPT ![a] = 0]
    /\ offered' = offered \ {a}
    /\ \/ UNCHANGED <<ready, order>>
       \/ ready' = ready \ {a} /\ order' \in {order, Append(Only(order, Allowances \ {a}), a)}
    /\ UNCHANGED <<last_wallet, last_allowance, loop>>

TaskDone(w) ==
    /\ IsRunning(w) /\ running[w].pc = "run"
    /\ running[w].at = None /\ running[w].queue = <<>>
    /\ running' = [running EXCEPT ![w].pc = "done"]
    /\ UNCHANGED <<ready, order, rest, last_wallet, last_allowance, offered, loop>>

(* An exception ends the task; the rest of its batch is not processed.     *)
TaskFails(w) ==
    /\ IsRunning(w) /\ running[w].at # None
    /\ running' = [running EXCEPT ![w].pc = "failed", ![w].at = None,
                                  ![w].queue = <<>>]
    /\ UNCHANGED <<ready, order, rest, last_wallet, last_allowance, offered, loop>>

-----------------------------------------------------------------------------
(* check_and_process_allowances                                            *)

(* next_poll, if it has come, moves on along a grid of minutes: to within a *)
(* minute, or a whole one if the loop is not late.                         *)
StartCycle ==
    /\ loop.pc \in {"down", "start"}
    /\ running' = Collected
    /\ \E next \in 1..Minute :
         /\ loop.grid > 0 => next = loop.grid
         /\ loop' = [loop EXCEPT !.pc = "heartbeat", !.completed = FALSE,
                                 !.failed = AnyFailed, !.grid = next]
    /\ UNCHANGED <<ready, order, rest, last_wallet, last_allowance, offered>>

(* record_scheduler_heartbeat("running") returns.                          *)
Heartbeat ==
    /\ loop.pc = "heartbeat"
    /\ loop' = [loop EXCEPT !.pc = "poll"]
    /\ UNCHANGED <<ready, order, rest, running, last_wallet, last_allowance, offered>>

(* It raises, or the query does: nothing is polled in this cycle.          *)
PollFails ==
    /\ loop.pc \in {"heartbeat", "poll"}
    /\ offered' = {}
    /\ loop' = [loop EXCEPT !.pc = "decide", !.failed = TRUE]
    /\ UNCHANGED <<ready, order, rest, running, last_wallet, last_allowance>>

(* The second heartbeat returns or raises, and the coroutine waits for the  *)
(* next cycle: a minute after a failure, not at all after a completion,    *)
(* else until the grid point or (with tasks running) the first completion. *)
Decide ==
    LET idle == \A w \in Wallets : running[w] = None IN
    /\ loop.pc = "decide"
    /\ loop' = [loop EXCEPT
         !.pc = IF loop.failed THEN "backoff" ELSE IF loop.completed THEN "start"
                ELSE IF idle THEN "sleep" ELSE "wait",
         !.timer = IF loop.failed THEN Minute ELSE 0,
         !.completed = FALSE, !.failed = FALSE]
    /\ UNCHANGED <<ready, order, rest, running, last_wallet, last_allowance, offered>>

(* Variant: with tasks in flight, no time-out at the grid point.           *)
WakesOnCompletion ==
    \/ loop.pc = "backoff" /\ loop.timer = 0
    \/ loop.pc = "sleep" /\ loop.grid = 0
    \/ loop.pc = "wait" /\ AnyEnded

Wakes ==
    \/ loop.pc = "backoff" /\ loop.timer = 0
    \/ loop.pc \in {"wait", "sleep"} /\ loop.grid = 0
    \/ loop.pc = "wait" /\ AnyEnded

Wake ==
    /\ Wakes
    /\ loop' = [loop EXCEPT !.pc = "start"]
    /\ UNCHANGED <<ready, order, rest, running, last_wallet, last_allowance, offered>>

(* close() or a crash, and a new process: everything but the database is    *)
(* forgotten, and next_poll is the time the server starts again.           *)
Restart ==
    /\ rest' = [a \in Allowances |-> 0]
    /\ running' = [w \in Wallets |-> None]
    /\ last_wallet' = None
    /\ last_allowance' = [w \in Wallets |-> None]
    /\ offered' = {}
    /\ loop' = [loop EXCEPT !.pc = "down", !.grid = 0, !.timer = 0,
                            !.completed = FALSE, !.failed = FALSE]
    /\ UNCHANGED <<ready, order>>

-----------------------------------------------------------------------------
(* Outside the scheduler                                                   *)

(* A user pauses, edits or retries it.  (Its place in the order stays: that *)
(* a retry of an old occurrence sorts it earlier matters to the rotation   *)
(* only, which is checked without users.)                                  *)
UserChanges(a) ==
    /\ ready' \in {ready \cup {a}, ready \ {a}}
    /\ rest' = [rest EXCEPT ![a] = 0]
    /\ running' = Outdated(a)
    /\ offered' = offered \ {a}
    /\ UNCHANGED <<order, last_wallet, last_allowance, loop>>

(* Variant: a timeout that is over turns negative.                         *)
LessUnclamped(n) == n - 1

Less(n) == IF n = 0 THEN 0 ELSE n - 1

Waiting == loop.pc \in {"wait", "sleep", "backoff"} /\ ~Wakes

(* The database has not answered, or no server runs.                       *)
Stalled == loop.pc \in {"down", "heartbeat", "poll", "decide"}

(* Time passes, and rows fall due with it.                                 *)
Tick ==
    /\ Waiting \/ Stalled
    /\ loop' = [loop EXCEPT !.grid = Less(@), !.timer = Less(@)]
    /\ ready' \in {ready \cup due : due \in SUBSET FallDue}
    /\ rest' = [a \in Allowances |-> Less(rest[a])]
    /\ running' = [w \in Wallets |->
         IF IsRunning(w) /\ running[w].age < Minute
           THEN [running[w] EXCEPT !.age = @ + 1] ELSE running[w]]
    /\ UNCHANGED <<order, last_wallet, last_allowance, offered>>

LoopStep ==
    StartCycle \/ Heartbeat \/ PollFails \/ Poll \/ Collect \/ Decide \/ Wake

TaskStep(w) ==
    BeginRow(w) \/ EndUnchanged(w) \/ EndChanged(w) \/ TaskDone(w) \/ TaskFails(w)

(* The scheduler by itself; SchedulerHealth adds the users and restarts.   *)
Next ==
    \/ LoopStep
    \/ \E w \in Wallets : TaskStep(w)
    \/ Tick

Spec == Init /\ [][Next]_vars

(***************************************************************************)
(* Fairness: the event loop runs the coroutine and every task, the database *)
(* answers, time diverges (no endless run of steps in one instant), and    *)
(* neither the heartbeat nor the query fails for ever.                     *)
(***************************************************************************)
FairSpec ==
    /\ Spec
    /\ WF_vars(LoopStep) /\ []<><<Poll>>_vars /\ []<><<Tick>>_vars
    /\ \A w \in Wallets : WF_vars(TaskStep(w))

-----------------------------------------------------------------------------
(* Properties                                                              *)

(* At most MaxRunning tasks are in flight (README.md:77).                  *)
SlotsBounded ==
    Cardinality({w \in Wallets : IsRunning(w)}) <= MaxRunning

(* A task that is paying is never replaced or forgotten while the server    *)
(* runs: a wallet has one task, and it stays until it has ended            *)
(* (tasks.py:401-407, 446).                                                *)
KeepsTasks ==
    \A w \in Wallets :
        IsRunning(w) /\ running[w].pc = "run" =>
            \/ Restart
            \/ /\ running'[w] # None
               /\ Len(running'[w].queue) <= Len(running[w].queue)
               /\ running[w].at # None => running'[w].at \in {None, running[w].at}

TasksNeverDropped == [][KeepsTasks]_vars

Working(w) == IsRunning(w) /\ running[w].pc = "run"

(* While the coroutine waits without a failure, no slot is free for a row   *)
(* the last poll offered: a completion, be it during the poll, the second  *)
(* heartbeat or the wait, always leads to another poll (tasks.py:459-460,   *)
(* 502-509).  After a failure it sleeps a minute with slots free           *)
(* (tasks.py:500-501).                                                     *)
NoIdleSlot ==
    loop.pc \in {"wait", "sleep"} /\ ~Wakes =>
        \A a \in offered :
            Working(WalletOf[a]) \/ Cardinality({w \in Wallets : Working(w)}) = MaxRunning

SlotsFull == Cardinality({w \in Wallets : IsRunning(w)}) = MaxRunning

(* Why: the inductive invariant of SchedulerProofs.  Slots are as full as   *)
(* they can be from the poll on, and Decide waits only if no task ended    *)
(* between the polls; a failure is kept until Decide has seen it.          *)
SlotsUsed ==
    \/ loop.pc \notin {"polled", "decide", "wait", "sleep"}
    \/ loop.pc = "decide" /\ (loop.completed \/ loop.failed)
    \/ \A a \in offered : IsRunning(WalletOf[a]) \/ SlotsFull

SleepsIdle == loop.pc = "sleep" => \A w \in Wallets : ~IsRunning(w)

FailureNoted ==
    loop.failed => loop.pc \in {"heartbeat", "poll", "polled", "decide"}

WorkersInv ==
    /\ TypeOK
    /\ SlotsBounded
    /\ SlotsUsed
    /\ SleepsIdle
    /\ FailureNoted

InHand(a) ==
    \E w \in Wallets : IsRunning(w) /\ running[w].at = a

(* Every row that stays selected is processed in the end (README.md:77-78  *)
(* "wallets and rows rotate between turns so a backlog cannot monopolize   *)
(* scheduling").                                                           *)
EveryReadyRowProcessed ==
    \A a \in Allowances : a \in ready ~> (a \notin ready \/ InHand(a))
=============================================================================
