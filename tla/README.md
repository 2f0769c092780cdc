# A TLA+ verification of the Allowance extension

Allowance is an LNbits extension that pays a Lightning address on a schedule. This directory
holds TLA+ specifications of its payment logic, TLC configurations that model-check them on
small instances, and proofs, checked by TLAPS, of what matters most for every instance.
Paths such as `tasks.py:227` are relative to the repository.

What is at stake: a payment cannot be taken back. An occurrence must not be paid twice, not by
two schedulers, not after a crash, not by a retry; and an allowance must not silently stop.

## The system

| Component | State it keeps | Operations | What makes it hard |
|---|---|---|---|
| Payment attempt (`tasks.py:132-382`, `crud.py:264-466, 530-557`) | the allowance's row in `maintable`, its `payment_history`; locals of a task | poll, reread, prepare an invoice, claim, submit, await, reconcile, defer, finish | every `await` lets others act; a task works on a copy of the row |
| Allowance API (`views_api.py:155-295, 389-427`) | the same row | create, update, delete, reconcile | handlers act on the row they read earlier |
| Occurrence retry (`payment_retry.py`, `views_api.py:530-569`) | `retry_*` columns, `revision` | bring a backoff forward; pay a failed occurrence again | an old occurrence occupies the row for a while |
| Scheduler (`tasks.py:385-513`, `__init__.py:24-35`) | tasks per wallet, rotation, rest times, next poll | poll, collect, wait, back off, close | tasks complete at any time; restarts forget all of it |
| Calendar (`schedule.py`) | none | `next_occurrence` | months of different length, gaps and repeated hours |
| LNbits (external) | the ledger of payments | `pay_invoice`, payment lookup | accepts, refuses, raises, settles late |
| Creation and wallet limit (`crud.py:63-141`) | `wallet_limits`, rows of a wallet | create | creations and deletions that race, also from two server processes |
| Records (`crud.py:227-241, 313-332, 386-501`) | `payment_history`, `payment_logs` | finish, defer, log, delete the allowance | several statements, on two databases with different isolation |
| Scheduler health (`tasks.py:485-498`, `crud.py:514-527`, `views_api.py:464-483`) | one row of `scheduler_health` | heartbeat, health endpoint | a write may fail; failures are noticed at three places of a cycle |
| Migrations (`migrations.py`) | the schema, LNbits' version note | upgrade | a server stopped half-way |
| LNURL, test endpoint, pages, UI | none | | not modelled, see below |

**Interaction.** The scheduler reads rows (`get_all_active_allowances`) and gives them, as
objects, to one task per wallet. Tasks and API handlers meet only in the database: every write
is a conditional `UPDATE` that compares the `revision` (or, under a claim, the payment hash) and
the due date the writer saw. The right to pay an occurrence is the column
`pending_payment_hash`, the *claim*. `pay_invoice` records an outgoing payment in LNbits'
ledger, and only such a record of this allowance and occurrence is an answer to what became of
a claim.

**Hard behaviours** are listed with their lines under `hazards` in PROJECT.json: two senders of
one occurrence; rows edited, ended or deleted while an invoice is fetched; a crash between the
claim and the submission, or between the payment and its record; a late answer after another
poll or request already recorded it; an old occurrence retried while the regular one falls due;
a retry window that ends meanwhile; tasks that complete in the middle of a poll; clock changes.

**Correctness, per component**

- *Attempt and retry*: one sender at a time; an occurrence reaches LNbits at most once; only
  what never reached LNbits may be paid again, on the terms the user confirmed; no attempt is
  begun after its retry window; a claim is
  released only with the truth; history is final; the schedule never goes back; a settled claim
  is released and a due occurrence handled in the end.
- *Scheduler*: slots are bounded and used; a running task is never replaced; every selected row
  is processed in the end.
- *Calendar*: the least due time after the completion, once per period, clock changes as
  documented.
- *Creation*: at most 100 rows per wallet, none refused while there is room. *Records*: none for
  an allowance that is gone.
- *Health*: every failure is reported; a scheduler is called unhealthy only for a failure it
  reported, or when more than two minutes went by in calls of the database, in heartbeats not
  written or without a server.
- *Migrations*: never a part of one; no statement fails but in a migration that was committed
  and not noted; any other interrupted upgrade completes.

## Modules

| Module | What it is |
|---|---|
| `PaymentLifecycle` | one allowance with its tasks, requests, history and the ledger |
| `PaymentPromise` | the abstract specification: per occurrence, claimed – submitted – settled – told |
| `PaymentLifecycleRefinement` | the refinement mapping from the first to the second |
| `PaymentSchedule` | the inductive invariants `RetryInv` and `ScheduleInv`, and the behaviours in which claims are adopted in time |
| `PaymentLifecycleProofs` | TLAPS: type correctness, and the claim protocol |
| `PaymentScheduleProofs` | TLAPS: retries keep their details and windows, history tells the truth |
| `PaymentOnceProofs` | TLAPS: an occurrence is paid once, the schedule never goes back |
| `PaymentPromiseProofs` | TLAPS: the lifecycle implements PaymentPromise |
| `AllowanceWorkers` | the scheduler with several rows and wallets |
| `SchedulerHealth` | `AllowanceWorkers` among users and restarts, with the heartbeats it writes and what the health endpoint says |
| `SchedulerProofs` | TLAPS: the scheduler and its health |
| `Schedule` | `next_occurrence` and the due times it should compute |
| `ScheduleProofs` | TLAPS: the next payment is the right one |
| `Transactions` | creation, deletion and records, statement by statement, on SQLite and PostgreSQL |
| `WalletLimit` | the abstract specification of creation: each one step |
| `TransactionsProofs` | TLAPS: the limit, atomic creation, complete deletion, no record after it |
| `Migrations` | m001 to m009, LNbits' version note, a server that stops |
| `MigrationsProofs` | TLAPS: never half a migration, and the only way to fail |
| `MC...` | instances for TLC |

The operators whose comments begin with "Variant" are plausible bugs; no action uses them. They
serve to show that each property can fail (PROJECT.json, `mutants`).

### PaymentLifecycle and the code

A step is one database statement or transaction, or one external call: what the asyncio program
does between two awaits is not interrupted.

| Variable | Code |
|---|---|
| `row` | the row of `maintable`, `None` when deleted; fields are listed in the module's header |
| `history` | `payment_history`, one entry per occurrence (its id is allowance and due time) |
| `ledger` | LNbits' payments by hash; `mine` and `due` are what `owns_payment` compares |
| `task[p]` | a worker task or an API request: where it is, its `Allowance` object `snap`, the time `at` it was read, the invoice and the result |
| `now`, `aborts` | the clock; a count that bounds cancelled or crashed tasks |

| Actions | Code |
|---|---|
| `Poll`, `ProcessClaimed`, `ProcessEnded` | selection by `poll`, the branches of `process_allowance` |
| `AdoptClaim`, `AbandonStale`, `ExpireWindow`, `BeginPayment` | the four ways the reread (`tasks.py:139-153`) can go |
| `RequestInvoice`, `FailUnsent` | preparation succeeds or fails (`tasks.py:155-226, 297-315`) |
| `Claim`, `ClaimLost` | `claim_payment` |
| `Submit`, `SubmitRefused`, `PayReturns`, `Recheck` | `pay_invoice` and its exception handler |
| `LookupSettled`, `LookupUnresolved` | `reconcile_payment`, for tasks and requests |
| `FinishWorker`, `FinishRequest` | `finish_payment_attempt` after a result |
| `View`, `Reject`, `Save`, `Delete`, `Reconcile`, `RetryCurrent`, `RetryHistorical` | API handlers: the read, then the conditional write |
| `Abort` | an exception out of the task, cancellation, a crash |
| `Settle`, `OtherPays`, `Tick` | LNbits and time |

Abstractions, and why they lose nothing the properties see:

- `Delete` is one step: LNbits serialises the connections of one server process to the extension's
  database. Several workers stand for overlapping schedulers, but the three statements of
  `delete_allowance` interleave with those of another process only in `Transactions`. What is said
  of deletions (`NoOrphanHistory`, `Delete` of PaymentPromise) holds within one process; on
  PostgreSQL an overlapping one can leave an entry behind, see Findings.
- An exception of `claim_payment` itself, which the code handles like one of the preparation
  (`tasks.py:227, 266-294`), leaves the row as `FailUnsent` does just before, or as `Claim` and then
  `Abort` if the claim was committed.
- A schedule is the set `Occurrences`; the next due time is its least later member. `Schedule`
  compares the calendar code with exactly that reading.
- Reading the clock is merged with the write it is for; a read of `payment_history` with the
  write that follows it, which fails if the revision moved, and history changes only with it.
- `update_allowance_success/error` between a lookup and `finish_payment_attempt` write display
  columns under the same condition as the latter; the model keeps the last check.
- A request that names an unchanged field, a key that is not authorised, or a validation error
  is `Reject`.
- The start, frequency and zone of an allowance cannot be changed (`views_api.py:210-212`).
- Clock readings never go back, also between processes.
- History entries without saved details (from before migration m009) and with outcome `skipped`
  (written by operators, not by the code) do not occur.

### AllowanceWorkers and the code

`running`, `last_wallet`, `last_allowance` are the fields of that name, `rest` is
`last_checked` as the time left, `loop` the coroutine `check_and_process_allowances` with
`completed_in_poll` and `cycle_failed`, and the countdown to `next_poll`. `offered` remembers
what the last poll selected and is read by properties only. `loop.pc` says what the coroutine
awaits: the first heartbeat (`heartbeat`), the query (`poll`), the tasks it collects (`polled`), the
second heartbeat (`decide`), then the grid, a completion or the end of a backoff (`wait`, `sleep`,
`backoff`); `down` is a server that does not run. Time passes in the waits and, for as long as it
likes, in the calls of the database and while no server runs (`Tick`). A poll that is overdue keeps
to the grid of a minute in the code (`tasks.py:483-484`); the model lets the next one be due after
any part of a minute. `Only(s, K)` is what filtering the
rows `s` leaves, kept positions in their order: a definition without recursion, so that the
scheduler can be proved about. What a task does to a row is
PaymentLifecycle's subject: here it changes the row or leaves it as it was (`EndChanged`,
`EndUnchanged`), or raises (`TaskFails`). Times are countdowns, so the state space is finite.
A task is stale about a row that changes after its poll, as its noted observation then differs.

### SchedulerHealth and the code

The module extends `AllowanceWorkers`; its actions are those of the scheduler with what they do
to the row, and what may happen around it: users who change rows (`UserChanges`; that a retry of
an old occurrence also moves its row in the order of the query is left out, as these properties do
not depend on the order), restarts (`Restart`). `health.state` is the column `state`, `health.age`
the age of the later of `last_started` and `last_completed` (everything beyond three minutes is
alike). A heartbeat takes the time before it writes (`crud.py:514-527`), so a row just written is as
old as the call, which `health.call` counts. `health.lost` is for the properties only: what of the
age was spent in calls of the database or without a server, and a minute for each cycle whose
"running" was not written. `HeartbeatRecorded` is the first heartbeat; `PollFailsRecorded` is its
failure or that of the query; `DecideRecorded` writes the result of the cycle or fails to. A
heartbeat that is committed and yet raises is `HeartbeatRecorded` and then a failed query.
`scheduler_ok` is the endpoint's. One scheduler writes the row: of two that overlap the endpoint
reports the last writer. Wall clock and monotonic clock run alike.

### Transactions and the code

One allowance is followed (`row`, its `history`, the number of its `logs`), the `others` of its
wallet are counted. `session[s]` is the transaction of a connection: `pc` is its next statement,
`doomed` and `doomedLogs` what it deleted, not yet committed.

| Actions | Code |
|---|---|
| `LockWallet`, `Refuse`, `Admit`, `Insert` | `create_allowance`: upsert of the lock row, count, `AllowanceLimitError` or not, insertion and commit |
| `DeleteHistory`, `DeleteLogs`, `DeleteRow` | the three statements of `delete_allowance` |
| `UpdateRow`, `UpsertHistory`, `AppendLog` | `finish_payment_attempt`; without the second also `update_allowance_error`, `defer_payment` and `request_retry`, which only log |
| `DeleteOther` | another allowance of the wallet goes |
| `Rollback` | exception, cancellation, crash, deadlock resolved |

PostgreSQL is modelled with its default isolation (READ COMMITTED) and row locks, SQLite with one
writer at a time. LNbits serialises the connections of one process to the extension's database,
so several sessions stand for several server processes, such as an old and a new one at a
restart.

### Migrations and the code

A migration is a sequence of statements; a statement is what it makes, whether it may be repeated
(`IF NOT EXISTS`, `ON CONFLICT DO NOTHING`, `UPDATE`), and what it moves. `schema` is committed,
`work` is what the running transaction sees. From m006 on statements commit together
(`_migration_transaction`), before that one by one, as `Connection.execute` of LNbits does.
`Complete(type, k)` is the schema of the first k migrations: all that they make, but for what one
of them moves away.
That LNbits notes the version after each migration, in a transaction of its own, is external.
Databases whose DDL is not transactional are not considered. The data conversion of m007 is one
thing made per column: the text of its `CAST`, which differs between databases, and whether
CockroachDB accepts the one it is given, are left out.

### Schedule and the code

`NextElapsed`, `NextDay` and `NextMonth` follow the branches of `next_occurrence`. A calendar is
given by the first days of its months, so `monthrange` is a difference of two of them, not a sum; wall-clock
time, `fold` and conversion from and to UTC (`Local`, `ToUtc`) follow Python's documented
semantics for a zone with one shift. `DueTimes` is written from the README instead. The shift is
shorter than a day (`ZoneAssumption`), and the calendar goes on for a year after the last
completion (`RoomAssumption`: Python's ends in the year 9999).

## Runs

`tlc -workers 2 -config X.cfg M` with M the module in PROJECT.json.

| Run | Question | Bounds |
|---|---|---|
| `LifecycleRetries` | is anything paid twice, retried wrongly, on old terms, begun too late, or out of order? `ScheduleInv`, the second inductive invariant | 1 worker, 1 request at a time, 2 invoices, 2 sets of details, 5 ticks, revision 4; with one worker no claim is adopted, which is the subject of `StaleAdoption` and the proofs |
| `LifecycleEndAndRestart` | end dates, deletion, aborted tasks: does the lifecycle implement PaymentPromise, is a settled claim released, a due row handled? | 1 of each, 1 end date, 1 abort, 4 ticks, revision 3; one invoice, so that a second payment of an occurrence cannot occur here: `LifecycleRetries` and the proofs look for it |
| `LifecycleOverlap` | two schedulers at once, on a one-off allowance that may be reactivated; `ClaimInv`, the first inductive invariant | 2 workers, 2 invoices, 2 details |
| `WorkersSlots` | slots, tasks and heartbeats with failures, slow calls of the database, edits, restarts | 3 rows, 2 wallets, 1 slot; the two rows of one wallet are interchangeable (symmetry) |
| `RotationOfTwo` | is every selected row processed? | 3 rows in 2 wallets, 1 task, 1 row a task |
| `ScheduleCalendar` | is the next payment the right one? | every start, frequency and completion of 8 small months |
| `CreateAndDelete` | the limit and the records under racing transactions | 3 sessions, both databases, limit 2, up to 4 rows at first, 2 log entries, 2 occurrences |
| `UpgradeInterrupted` | what is left of an interrupted upgrade, does the next fail, does it complete? `UpgradeInv`, the inductive invariant | every version, 3 databases, 2 stops |
| `EditedWhilePending`, `StaleAdoption`, `BacklogRotation`, `RepeatedHourStart` | statements of the documentation the code does not keep | each the smallest instance that shows it; `StaleAdoption` needs 2 workers and 2 invoices, and `Spec`: adoptions need not be timely |

Why these bounds are enough: an occurrence can be claimed, fail, be retried as an old one, and
fail again within two invoices and revision 4; an action of a stale task needs one other actor
that moves the row under it; and the retry window (1 or 2) is shorter than a period (3), so it can end
by itself or, for an old occurrence, at the regular date. Hashes, details, workers and requests
are interchangeable (symmetry; not used with liveness). The cap of the doubling delay is reached
after two failures. What several schedulers do to retries of old occurrences is
proved (`TimelySpec`, below) for all of them, and `StaleAdoption` shows why its condition is needed.
`CHECK_DEADLOCK FALSE` is said where a deleted or finished allowance, or the end of the clock,
ends the behaviour, or where an upgrade is complete or can only fail.

Three sessions let two creations race while a deletion or a record runs; the wallet starts with
fewer rows than the limit, as many, or more. In `WorkersSlots` a minute is one tick: a cycle that
waits for the grid, one in a backoff and one woken by a completion still differ. Two stops let an
upgrade be interrupted in the migration that repairs it; stops are bounded because a server
stopped for ever completes nothing.

The calendar has days of 6 ticks, weeks of 2 days, years of 2 months, months of 1 to 3 days; the
shift is 2 ticks, with one gap and two repeated times, none of which crosses midnight. The
second month is shorter than the first, and shortest in every other year, as February is.

**Fairness.** `PaymentLifecycle!FairSpec`: the loop runs and gives each started task its steps
(weak fairness of a worker's steps, of the clock, and of settlement, which LNbits and the
network decide in the end), and a lookup that is possible again and again succeeds some time
(strong; `LookupUnresolved` covers database errors and status that lags). No user, abort or
other sender is assumed to act. A worker's steps include `Poll`: it is assumed that the scheduler
comes to the row, which is `EveryReadyRowProcessed` of `AllowanceWorkers` and holds where
a wallet has up to two batches of rows (`RotationOfTwo`), but not always where it has more
(`BacklogRotation`). `AllowanceWorkers!FairSpec`:
the coroutine and tasks run, every call of the database returns, polls succeed again and again
(neither the heartbeat before a poll nor its query fails for ever), and time passes; a task that
raises again and again is allowed.
`Migrations!FairSpec`: a server that was stopped is started again and goes on.

`SubmittedOnce` and the related properties are stated for recurring schedules: a one-off
allowance whose payment completed and that its owner activates again is paid again, as asked.

**A consequence worth knowing.** When a retry of an old occurrence is still unpaid at the regular
date, its window expires and `finish_payment_attempt` skips to the date after
(`crud.py:401-413`): the regular occurrence is not attempted. README.md:255-256 documents it.

**Another.** m001, m004, m005, m007 and m009 create without `IF NOT EXISTS`. A server that stops in
the instant between the commit of one of them and LNbits' note of the version runs it again at
every start, and it fails every time. `FailsOnlyUnnoted` says that no migration fails in any other
way, `UpgradeCompletes` that every other upgrade completes.

### Findings

Four runs show that the code departs from its documentation; PROJECT.json quotes each.

- `EditedWhilePending`: history saves the edited details of a payment that was pending during the
  edit.
- `StaleAdoption`: with two schedulers (an old server process that still runs, and its
  replacement) the schedule can move back to an occurrence that was paid. Both poll an
  occurrence at the end of its retry window, and one of them waits at its reread. Meanwhile the
  other gives the occurrence up and pays the next one, and the user asks for a retry of the first,
  which is claimed. The reread finds that claim, and `tasks.py:142` copies its hash and nothing else:
  `retry_resume_date` and `retry_deadline` stay those of the old poll. The retry fails;
  `process_allowance` (`tasks.py:371-382`) then knows no date to resume at, continues after the
  old window, and leaves the row active, unclaimed and due at the second, which was paid.
  With a single scheduler no claim is ever adopted (`SingleIsTimely`, proved below).
- `BacklogRotation`: rotation forgets its place when the last row is resting, and a backlog of
  more than two batches can starve a row, also without any failure.
- `RepeatedHourStart`: a start in the second pass of a repeated hour keeps its `fold`.

Seen in the code and not given runs: the loop sleeps a minute after any failure, with slots free
and rows waiting (`tasks.py:500`; README.md:79 says they are refilled immediately), and a row late
in a slow batch is rechecked early, as its rest counts from the poll (`tasks.py:465`). Neither
affects what is paid. `claim_payment` does not compare the retry window again, so an occurrence
may be claimed after its end by as long as the address lookup and the invoice took
(`tasks.py:152`); `ClaimBegunInWindow` says what remains of the promise: nobody whose poll was
after the end of the window claims it. If LNbits refuses a submission without a record of it, the
claim is kept for ever, as its outcome is unknown (`tasks.py:279-293`), although README.md:162 calls
an explicit rejection terminal; no property is about that, as `SettledClaimReleased` speaks of
recorded payments. On PostgreSQL, with two server processes, a result recorded while its allowance
is being deleted, after the `DELETE` of the history and before that of the row, outlives the
allowance (`crud.py:227-241`); `SerialDeletionComplete` is therefore stated for SQLite.

## Proofs

Every theorem is for all values of the constants that satisfy the named assumptions of its module,
and nothing else is assumed but what a theorem states.

### The lifecycle

`ClockAssumption`, `BoundAssumption`, `NoneAssumption` and `RecordAssumption` of PaymentLifecycle:
due times are positive and have a least one, the window and delays are positive, `None` is none of
the values, and a worker is not a request. `ScheduleAssumption`: a schedule that is not recurring
has one due time.

**Any number of schedulers and requests** (`Spec`):

- `TypeCorrect`. One lemma per family of actions; the facts about a next due time, the delays and
  a released row are lemmas of their own.
- `ClaimInvariant`: `ClaimInv`. `SenderHoldsClaim` alone is not inductive: to know that no other
  task frees the claim of a sender one needs what the others hold in their hands. The invariant
  adds
  - `StageInv`: at each stage, whether the task's copy carries the claim;
  - `SnapshotInv`: the copy is of the present revision or an earlier one, and with the same
    revision has the same details;
  - `ResultInv`: a result about to be recorded for a claim is the ledger's final word on it;
  - `UnsentInv`: an invoice still to be submitted has no payment of this occurrence in the
    ledger, so no result about to be recorded can be about it.

  The argument: a row changes while claimed only by an edit (which keeps the claim and raises the
  revision), by a deletion, or by finishing with that very hash; the last needs a terminal record
  of the hash, which a sender's hash does not have. The proof first shows what a step of one
  actor can do to *any* task, to the row and to the ledger, then takes each conjunct in turn.
- From it `SenderAlwaysHoldsClaim`, `AlwaysOneSender`, and the action properties
  `ReleasedTruthfully` and `ClaimedOnCurrentTerms`.
- `RetryInvariant`: `RetryInv` of PaymentSchedule adds what a task knows of the schedule of a row
  it read (`SeenScheduleInv`), that a retry of an old occurrence ends at the regular date
  (`RetryWindowInv`), that only what is due is claimed (`DueInv`), that what is prepared was read
  within its window (`BegunInv`), and that an attempt given up
  before its claim is a failure (`GaveUpInv`). From it `RetryAlwaysKeepsDetails`
  and `HistoryTellsTruth`: an entry with a payment agrees with LNbits' final
  word on it, one without is a failure. `AlwaysBegunInWindow` is the action property
  `ClaimBegunInWindow`; the window a claim finds in the row is the one compared at the reread, as
  whatever moves a window also moves the revision (`SeenScheduleInv`). `SingleLeavesNoOrphans`, that
  no task leaves history for a deleted allowance, is stated with one scheduler: for several
  processes `RetryInv` shows it only of a deletion that is one step.

**Schedulers whose adoptions are timely** (`TimelySpec`). The run `StaleAdoption` shows that what
follows is false of `Spec` with overlapping schedulers. `TimelyAdoption` is the least that makes it
true: when a task takes over a claim it did not make, its own row is of the attempt the claim is
for. `SingleIsTimely` proves that one scheduler never adopts a claim, so that each theorem has a
corollary about `Spec` itself, without an assumption on steps.

- `ScheduleInvariant`: `ScheduleInv` adds that every payment of a recurring allowance is the
  claimed one or the one in its history, and that nothing is recorded of the regular dates to come
  (`HistoryInv`); that a task which knows of a claim knows its attempt, or the claim is settled
  (`KnownClaimInv`); that an invoice that can still be claimed was never paid (`InvoiceInv`); and
  that the last sender, also of a deleted allowance, sends what was not sent (`SenderInv`).
- `TimelySubmittedOnce`, `TimelyRetriable`, `TimelySchedule`, `TimelyHistory`, and with one
  scheduler `SingleSubmittedOnce`, `SingleRetriable`, `SingleSchedule`, `SingleHistory`: an
  occurrence reaches LNbits at most once, the retry endpoint offers only what never did, the
  schedule never goes back, and the history of a submitted payment is final.
- `TimelyKeepsPromise`, `SingleKeepsPromise`: a recurring allowance implements PaymentPromise
  under the mapping of PaymentLifecycleRefinement. `ScheduleInv` makes the phase of an occurrence
  a function of the claim and of the only payment the ledger has of it; each action is then one of
  Claim, Submit, Settle, Close, Delete and Abandon, or a stutter. One lemma per action. A one-off
  allowance that its owner activates again is paid again and keeps no such promise.

### The scheduler

`WorkersAssumption` (finitely many rows and wallets, the rows in some order; at least one slot, one row in a batch, one tick in a minute) and `TaskAssumption`
(`None` is no task). All theorems are about `HealthSpec`, the scheduler among users, restarts,
failures and lost heartbeats.

- `HealthInvariant`: `HealthInv` is types, the slots and the time of the heartbeats. `SlotsBounded`
  needs that a poll starts at most as many tasks as slots are free: those started are an initial
  segment of an enumeration of the wallets on offer. `SlotsUsed` says of each point of the cycle
  after a poll that the slots are full or that every wallet with a row on offer has its task, unless
  a completion or failure already collected makes the loop poll again; `SleepsIdle` that the loop
  waits for the grid alone only if there is no task; and
  `FailureNoted` that the flag of a failed cycle is up only until the decision that writes it to the
  health row. `WritesInTime`: as long as no more than two minutes were lost, the age of the row and
  the wait that remains are together at most the time lost and one minute. It is the loop's own
  waits that are bounded; calls of the database and downtimes may take any time, which is then
  lost. The endpoint's three minutes are thus one of waiting and two that may be lost:
  `HealthyUnlessSilent`.
- From it `SlotsNeverExceeded`, `SlotsNeverIdle`, `HealthyUnlessSilent`, `WorkersTyped`,
  `HealthTyped`, and the action properties `TasksStay` and `FailuresReported`.
- That the rows kept of a finite list can be enumerated in their order needs an induction. The
  library's rules of induction take an operator, which the provers cannot instantiate; the proof
  takes the least counterexample instead, which exists as the naturals are well-founded.

### The calendar

`CalendarAssumption`, `ZoneAssumption` and `RoomAssumption`: any lengths of day, week and year, any
months, and any zone with one shift that is shorter than a day, in which summer time may come and
go at any instants whatever.

- `DueInvariant`: `DueInv`, which is `TypeOK` and `DueIsNext`; it is inductive because no attempt
  completes before the start.
- `RegularDueIsNext`, `RegularTypeCorrect`. *Days and weeks*: a date by the wall clock and the
  instant it is shown at differ by less than a day, so the dates keep their order however often the
  clock changes; the candidate before the first one tried is due or past, the one two later is
  not yet, so the loop ends with the first that is later than the completion. *Minutes and hours*:
  division. *Months and years*: an instant is after the date of every month before its own and
  before the date of every later one, so only the month of the completion and the next one count,
  which are the two the code tries.
- `RegularOncePerPeriod`: no local day or month is due twice.

The conditions are needed. For months, `Regular` asks that the start is not in the second pass of
a repeated time, which `RepeatedHourStart` shows to go wrong, and that the clock does not change
across the end of a month (`MonthsUnbroken`). If it goes back from the first day of a month into
the last day of the one before, and a payment due in between completes after the change, the code
counts from the earlier month and returns that same due time again, as it tries two months and
does not loop as it does for days (`schedule.py:55-61`). We know of no zone whose present rules do
that. `OncePerPeriod` asks the condition of every midnight (`DaysUnbroken`): where the last hour of
an evening is left out, as in Nuuk, a payment of that hour moves into the next day, which has its
own. A clock that skips the first hour of a day, or repeats an hour of one day, satisfies both; so
does the instance of TLC (`ZoneIsUnbroken`).

### Transactions

`TransactionsAssumption`: the limits are numbers, at least one log entry is kept, `None` is no
occurrence. For any sessions, limits and occurrences:

- `LocksInvariant`: `LocksInv`. That no creation exceeds the limit is not inductive: one
  needs that what a session counted still holds when it inserts, which is because no other session
  is between the lock and its insertion (`OneCreator`, `RoomToInsert`). Likewise nothing is
  recorded for a missing row because a session that records locks it (`RecorderHasRow`), and the
  number of logs stays a number because one session at a time deletes them (`OneDoomsLogs`,
  `DoomedLogsExist`). Most steps only change a session: `SessionStep` says once what such a step
  may hold, and the steps that write tables have a lemma each.
- `TypeCorrect`, and the action properties `LimitKept`, `NothingRecordedAfterDeletion`.
- `DeletionIsComplete`: `SerialDeletionComplete`, from `SerialInv`: on SQLite one session is active
  at a time, and a deletion has by each of its statements doomed all there is.
- `CreationIsAtomic`: `Spec => WalletLimit!Spec` under the mapping in Transactions; a creation is
  WalletLimit's single step at its insertion or refusal, a deletion is at its commit, everything
  else stutters or is a `Forget`. `AnsweredAtEnd` is in the invariant for this theorem.

### Migrations

`MigrationsAssumption`: the databases are among the three LNbits supports, and the bound on stops
is a number, any number. The migrations are a constant list.

- The lemmas `SoundFirst` to `SoundOccurrences` read off that list what the argument needs
  (`SoundMigration`): a thing has one place in the list where it is made (`Home`), a thing is moved
  by one statement only, after m001 made it, a migration that is not atomic has at most one
  statement, and a migration that may not be repeated (`Repeatable`) begins with a statement that
  fails the second time. `NextStatement`: on the schema of its predecessors a statement makes
  something new and finds what it moves. `WholeMakesAll`: a whole migration has made all that its
  statements make.
- `UpgradeInvariant`: `UpgradeInv`. `NeverHalfMigrated` alone does not say what a running migration
  sees, so `RunInv` does: either what its statements so far made of the version noted (then the
  next one is not rejected), or the whole of a run before (then the first statement is
  rejected, or all of them change nothing). `RestInv`: otherwise nothing is uncommitted.
- From it `TypeCorrect`, `NeverHalf` and `FailsOnly`.

### Only model-checked

- Liveness and fairness, which are out of the prover's reach: `SettledClaimReleased`,
  `DueOccurrenceHandled`, `EveryReadyRowProcessed`, `UpgradeCompletes`.
- The four violations, which are facts about an instance.

## Not modelled

- The columns `last_error`, `last_success_time` and the texts of logs: written, never read by a
  decision. `_append_payment_log` is modelled as a count of entries.
- The health endpoint's counts of overdue and pending rows; the test scheduler endpoint, rates,
  lists and pages: they read and change nothing.
- Field validation and currency conversion: stateless functions of a request. LNURL requests and
  address filtering in `safe_http.py`: stateless; to an attempt they succeed or raise
  (`RequestInvoice`, `FailUnsent`).
- The nested branch of `transaction()` and `_migration_transaction()`, for a connection with a
  transaction already open; two processes that migrate at once; extension modules cached from an
  older release.
- The browser client, which reaches the state only through the API.
- Slots and heartbeats of two schedulers that overlap: `PaymentLifecycle` has several schedulers,
  `AllowanceWorkers` and `SchedulerHealth` one.
- `update_next_payment_date` (`crud.py:244`) has no caller.

## Plan

1. Done: PaymentLifecycle with its properties, PaymentPromise and the refinement, AllowanceWorkers,
   Schedule, Transactions with WalletLimit, SchedulerHealth, Migrations.
2. Done: proofs of every safety property the runs check, and of both refinements.
3. Next: a composition of several allowances over AllowanceWorkers with the lifecycle's steps, so
   that a row's staleness is the lifecycle's revision; several schedulers in SchedulerHealth.
