-------------------------- MODULE PaymentLifecycle --------------------------
(***************************************************************************)
(* The life of ONE allowance: its row in `maintable`, its rows in          *)
(* `payment_history`, the LNbits ledger its payments are recorded in, and  *)
(* everything that acts on them at the same time:                          *)
(*   - the scheduler's worker tasks (tasks.py: poll, process_allowance,    *)
(*     execute_lightning_address_payment, reconcile_payment),              *)
(*   - the API handlers (views_api.py: update, delete, reconcile, retry),  *)
(*   - LNbits, the payee's invoices and the clock (external).              *)
(*                                                                         *)
(* A step is one database statement, one transaction or one call to an     *)
(* external service: the points at which the asyncio code can be           *)
(* interleaved.  A clock reading belongs to the database write it is for.  *)
(*                                                                         *)
(* The row's fields, and the columns of `maintable` they stand for:        *)
(*   active, revision, retry_count, retry_after  as in the code            *)
(*   due       next_payment_date      pending   pending_payment_hash       *)
(*   deadline  retry_deadline         resume    retry_resume_date          *)
(*   end       end_datetime           details   what payment_snapshot      *)
(*                                              keeps: amount, currency,   *)
(*                                              lightning_address, memo    *)
(* Left out: name, last_error and last_success (display only), payment_logs*)
(* (diagnostics), start_datetime and frequency_type (the schedule is the   *)
(* set Occurrences; start is its least member and never exceeds due).      *)
(***************************************************************************)
EXTENDS Integers

CONSTANTS
    Workers,      \* scheduler tasks that may hold this allowance at once
    Clients,      \* API requests that may be in flight at once
    Hashes,       \* payment hashes of the invoices the payee can hand out
    Details,      \* values of the payment details
    Occurrences,  \* the due times of the schedule (schedule.py)
    EndDates,     \* end dates a user can choose
    Horizon,      \* bound: the clock stops here
    RetryWindow,  \* 24 hours: how long an unsent occurrence is retried
    BackoffBase,  \* one minute: the first retry delay
    BackoffCap,   \* one hour: the longest retry delay
    MaxRevision,  \* bound: user requests change a row up to this revision
    MaxAborts,    \* bound: worker tasks that end by exception or cancellation
    None          \* NULL in a column, None in Python

ASSUME ClockAssumption ==
    /\ Occurrences \subseteq Nat \ {0}
    /\ \E first \in Occurrences : \A o \in Occurrences : first <= o
    /\ EndDates \subseteq Nat
    /\ Horizon \in Nat
    /\ RetryWindow \in Nat \ {0}
    /\ BackoffBase \in Nat \ {0}
    /\ BackoffCap \in Nat \ {0}

ASSUME BoundAssumption == MaxRevision \in Nat /\ MaxAborts \in Nat

ASSUME NoneAssumption ==
    /\ None \notin Nat \cup Hashes \cup Details
    /\ Workers \cap Clients = {}

VARIABLES
    now,      \* the wall clock
    row,      \* the row of maintable, None once it is deleted
    history,  \* payment_history: per occurrence None or its completion record
    ledger,   \* LNbits: per payment hash None or the outgoing payment record
    task,     \* per worker and per request: its program counter and locals
    aborts    \* how many worker tasks were aborted

vars == <<now, row, history, ledger, task, aborts>>

Procs == Workers \cup Clients

Times == Nat \cup {None}

Rows ==
    [active : BOOLEAN, revision : Nat, due : Occurrences,
     pending : Hashes \cup {None}, retry_count : Nat, retry_after : Times,
     deadline : Times, resume : Occurrences \cup {None},
     end : Times, details : Details]

Completions ==
    [success : BOOLEAN, hash : Hashes \cup {None}, snapshot : Details]

(***************************************************************************)
(* An outgoing payment.  "mine" carries allowance_id and scheduled_at in   *)
(* its extra, which is what owns_payment compares; any other payment that  *)
(* settles the same invoice is somebody else's.                            *)
(***************************************************************************)
Payments ==
    [mine : BOOLEAN, due : Occurrences \cup {None},
     details : Details \cup {None}, status : {"pending", "success", "failed"}]

(* NULL is not a record.                                                   *)
ASSUME RecordAssumption == None \notin Rows \cup Payments \cup Completions

Idle == [pc |-> "idle", snap |-> None, at |-> 0, hash |-> None, success |-> FALSE]

WorkerPCs == {"process", "invoice", "claim", "submit", "await", "recheck"}
SharedPCs == {"lookup", "finish"}

(***************************************************************************)
(* A task between two awaits: snap is its Allowance object, at the time it *)
(* was read, hash the invoice it decoded, success the result it reports.   *)
(***************************************************************************)
Tasks ==
    [pc : WorkerPCs \cup SharedPCs \cup {"view"}, snap : Rows, at : Nat,
     hash : Hashes \cup {None}, success : BOOLEAN]

TypeOK ==
    /\ now \in 0..Horizon
    /\ row \in Rows \cup {None}
    /\ history \in [Occurrences -> Completions \cup {None}]
    /\ ledger \in [Hashes -> Payments \cup {None}]
    /\ task \in [Procs -> Tasks \cup {Idle}]
    /\ aborts \in 0..MaxAborts

-----------------------------------------------------------------------------
(* Operators of the code                                                   *)

Before(t, u) == t # None /\ t < u
AtOrBefore(t, u) == t # None /\ t <= u
Least(t, u) == IF t <= u THEN t ELSE u

IsNext(o, t) ==
    /\ o > t
    /\ \A p \in Occurrences : p > t => o <= p

(* The next anchored due time strictly after t, None for a finished one-off *)
NextOccurrence(t) ==
    IF \E o \in Occurrences : IsNext(o, t)
      THEN CHOOSE o \in Occurrences : IsNext(o, t)
      ELSE None

(* start_datetime: a row is created before it, when the clock reads 0.      *)
Start == NextOccurrence(0)

(* 2 ** min(count, 6), and the wait before the next attempt: 1, 2, 4 ...    *)
(* minutes, at most an hour.                                                *)
Doubling == <<1, 2, 4, 8, 16, 32, 64>>
RetryDelay(count) == Least(BackoffCap, BackoffBase * Doubling[Least(count, 6) + 1])

(* Variant: a poll that forgets claims of paused or ended allowances.       *)
SelectedActive(a, t) == a.active /\ a.due <= t

(* Rows a poll starts a worker for.                                         *)
Selected(a, t) ==
    \/ a.pending # None
    \/ /\ a.active
       /\ \/ Before(a.end, t)
          \/ a.due <= t /\ (a.retry_after # None => a.retry_after <= t)

(* The WHERE clause of every write made on behalf of an attempt: the row is *)
(* still at the occurrence, and under the claim or the revision, seen in a. *)
Held(a) ==
    /\ row # None
    /\ row.due = a.due
    /\ row.pending = a.pending
    /\ a.pending = None => row.revision = a.revision

(* Variant: any settled payment of the invoice counts.                      *)
OwnsAny(a, h) == ledger[h] # None

(* The ledger record of h was made by this allowance for the occurrence.    *)
Owns(a, h) ==
    /\ ledger[h] # None
    /\ ledger[h].mine
    /\ ledger[h].due = a.due

(* Where the schedule of a finished attempt goes next.                      *)
NextDate(a, regular) ==
    IF a.resume = None THEN regular
    ELSE IF a.resume > now THEN a.resume
    ELSE NextOccurrence(now)

(* Variant: a one-off that has no next date is not deactivated but loses    *)
(* its date.                                                                *)
ReleasedWithoutDate(a, next) ==
    [row EXCEPT
      !.due = next, !.pending = None, !.retry_count = 0, !.retry_after = None,
      !.deadline = None, !.resume = None, !.revision = @ + 1]

(* The row of a released attempt.                                           *)
Released(a, next) ==
    [row EXCEPT
      !.due = IF next = None THEN @ ELSE next,
      !.active = @ /\ next # None /\ ~(a.resume # None /\ AtOrBefore(a.end, now)),
      !.pending = None, !.retry_count = 0, !.retry_after = None,
      !.deadline = None, !.resume = None, !.revision = @ + 1]

(* Variant: the upsert forgets to replace the payment hash.                 *)
CompletionKeepsHash(old, a, success) ==
    [success |-> success,
     hash |-> IF old = None THEN a.pending ELSE old.hash,
     snapshot |-> IF old = None THEN a.details ELSE old.snapshot]

(* The history entry of a finished attempt; an old one keeps its snapshot.  *)
Completion(old, a, success) ==
    [success |-> success, hash |-> a.pending,
     snapshot |-> IF old = None THEN a.details ELSE old.snapshot]

(* Variant: history is written whether or not the attempt was still held.   *)
FinishUnheld(a, regular, success) ==
    /\ row' = IF Held(a) THEN Released(a, NextDate(a, regular)) ELSE row
    /\ history' =
        [history EXCEPT ![a.due] = Completion(history[a.due], a, success)]

(* Release the attempt a and record its result, in one transaction.         *)
FinishAttempt(a, regular, success) ==
    IF Held(a)
      THEN /\ row' = Released(a, NextDate(a, regular))
           /\ history' =
               [history EXCEPT ![a.due] = Completion(history[a.due], a, success)]
      ELSE UNCHANGED <<row, history>>

At(p, pc) == task[p].pc = pc
Ends(p) == task' = [task EXCEPT ![p] = Idle]
Becomes(p, t) == task' = [task EXCEPT ![p] = t]
GoesTo(p, pc) == task' = [task EXCEPT ![p].pc = pc]

-----------------------------------------------------------------------------
(* Worker tasks                                                            *)

(* AllowanceWorkers.poll: a selected row is handed to a task as it was read. *)
Poll(w) ==
    /\ At(w, "idle")
    /\ row # None
    /\ Selected(row, now)
    /\ Becomes(w, [pc |-> "process", snap |-> row, at |-> now,
                   hash |-> None, success |-> FALSE])
    /\ UNCHANGED <<now, row, history, ledger, aborts>>

(* process_allowance: a claimed row is only inspected.                     *)
ProcessClaimed(w) ==
    /\ At(w, "process")
    /\ task[w].snap.pending # None
    /\ GoesTo(w, "lookup")
    /\ UNCHANGED <<now, row, history, ledger, aborts>>

(* deactivate_allowance.                                                   *)
Deactivated == [row EXCEPT !.active = FALSE, !.revision = @ + 1]

(* process_allowance past the end date: an occurrence retry hands back to  *)
(* the regular schedule, anything else is deactivated.                     *)
ProcessEnded(w) ==
    LET a == task[w].snap IN
    /\ At(w, "process")
    /\ a.pending = None
    /\ Before(a.end, task[w].at)
    /\ \/ /\ a.resume # None
          /\ FinishAttempt(a, a.resume, FALSE)
       \/ /\ a.resume = None
          /\ row' = IF row # None /\ row.revision = a.revision
                      THEN Deactivated ELSE row
          /\ UNCHANGED history
    /\ Ends(w)
    /\ UNCHANGED <<now, ledger, aborts>>

(* execute_lightning_address_payment rereads the row before it spends a    *)
(* network round trip on it.  Each of the next four actions is one way the *)
(* reread can go.                                                          *)
Executes(w) ==
    /\ At(w, "process")
    /\ task[w].snap.pending = None
    /\ ~Before(task[w].snap.end, task[w].at)

SameOccurrence(a) == row # None /\ row.due = a.due

StillDue(a) ==
    /\ SameOccurrence(a)
    /\ row.pending = None
    /\ row.revision = a.revision
    /\ row.active
    /\ row.due <= now
    /\ row.retry_after # None => row.retry_after <= now

AdoptClaim(w) ==
    /\ Executes(w)
    /\ SameOccurrence(task[w].snap)
    /\ row.pending # None
    /\ Becomes(w, [task[w] EXCEPT !.pc = "lookup", !.snap.pending = row.pending])
    /\ UNCHANGED <<now, row, history, ledger, aborts>>

AbandonStale(w) ==
    /\ Executes(w)
    /\ ~(SameOccurrence(task[w].snap) /\ row.pending # None)
    /\ ~StillDue(task[w].snap)
    /\ Ends(w)
    /\ UNCHANGED <<now, row, history, ledger, aborts>>

(* Variant: an expired window is noticed but nothing is done about it.      *)
ExpireSilently(w) ==
    /\ Executes(w)
    /\ StillDue(task[w].snap)
    /\ AtOrBefore(row.deadline, now)
    /\ Ends(w)
    /\ UNCHANGED <<now, row, history, ledger, aborts>>

ExpireWindow(w) ==
    /\ Executes(w)
    /\ StillDue(task[w].snap)
    /\ AtOrBefore(row.deadline, now)
    /\ Becomes(w, [task[w] EXCEPT !.pc = "finish", !.success = FALSE])
    /\ UNCHANGED <<now, row, history, ledger, aborts>>

(* Variant: the window is not compared before an attempt.                  *)
BeginAnyTime(w) ==
    /\ Executes(w)
    /\ StillDue(task[w].snap)
    /\ GoesTo(w, "invoice")
    /\ UNCHANGED <<now, row, history, ledger, aborts>>

BeginPayment(w) ==
    /\ Executes(w)
    /\ StillDue(task[w].snap)
    /\ ~AtOrBefore(row.deadline, now)
    /\ GoesTo(w, "invoice")
    /\ UNCHANGED <<now, row, history, ledger, aborts>>

(* Currency, address, amount and invoice checks all passed, and the ledger *)
(* shows no outgoing payment of this invoice yet.                          *)
RequestInvoice(w, h) ==
    /\ At(w, "invoice")
    /\ ledger[h] = None
    /\ Becomes(w, [task[w] EXCEPT !.pc = "claim", !.hash = h])
    /\ UNCHANGED <<now, row, history, ledger, aborts>>

(* Any of those checks failed, before a claim: retry_unsent_payment.  The  *)
(* first failure fixes the window; the attempt is deferred inside it and   *)
(* finished outside it.                                                    *)
WindowEnd(a) ==
    IF a.deadline # None THEN a.deadline
    ELSE IF NextOccurrence(now) = None THEN now + RetryWindow
    ELSE Least(now + RetryWindow, NextOccurrence(now))

(* defer_payment.                                                          *)
Deferred(a, deadline) ==
    [row EXCEPT
      !.pending = None, !.retry_count = @ + 1, !.revision = @ + 1,
      !.retry_after = Least(deadline, now + RetryDelay(a.retry_count)),
      !.deadline = deadline]

(* Should claim_payment itself raise, the row is left as by this step, or  *)
(* as by Claim and Abort if its commit came through.                       *)
FailUnsent(w) ==
    LET a == task[w].snap
        deadline == WindowEnd(a)
    IN /\ At(w, "invoice")
       /\ \/ /\ now >= deadline
             /\ Becomes(w, [task[w] EXCEPT !.pc = "finish", !.success = FALSE])
             /\ UNCHANGED row
          \/ /\ now < deadline
             /\ row' = IF Held(a) THEN Deferred(a, deadline) ELSE row
             /\ Ends(w)
       /\ UNCHANGED <<now, history, ledger, aborts>>

(* Variants: the UPDATE does not compare the revision, or does not ask for  *)
(* an unclaimed row.                                                        *)
ClaimableAnyRevision(a) ==
    /\ SameOccurrence(a)
    /\ row.pending = None /\ row.active /\ row.due <= now
    /\ ~Before(row.end, now)

ClaimableTwice(a) ==
    /\ SameOccurrence(a)
    /\ row.revision = a.revision /\ row.active /\ row.due <= now
    /\ ~Before(row.end, now)

(* claim_payment: one conditional UPDATE decides who may send.             *)
Claimable(a) ==
    /\ StillDue(a)
    /\ ~Before(row.end, now)

Claim(w) ==
    /\ At(w, "claim")
    /\ Claimable(task[w].snap)
    /\ row' = [row EXCEPT !.pending = task[w].hash]
    /\ Becomes(w, [task[w] EXCEPT !.pc = "submit", !.snap.pending = task[w].hash])
    /\ UNCHANGED <<now, history, ledger, aborts>>

ClaimLost(w) ==
    /\ At(w, "claim")
    /\ ~Claimable(task[w].snap)
    /\ Ends(w)
    /\ UNCHANGED <<now, row, history, ledger, aborts>>

(* pay_invoice reaches the ledger: LNbits records the outgoing payment.    *)
Submit(w) ==
    LET t == task[w] IN
    /\ At(w, "submit")
    /\ ledger[t.hash] = None
    /\ ledger' = [ledger EXCEPT ![t.hash] =
                    [mine |-> TRUE, due |-> t.snap.due,
                     details |-> t.snap.details, status |-> "pending"]]
    /\ GoesTo(w, "await")
    /\ UNCHANGED <<now, row, history, aborts>>

(* pay_invoice raises without a record of ours: no funds, or somebody else *)
(* paid the invoice first.                                                 *)
SubmitRefused(w) ==
    /\ At(w, "submit")
    /\ GoesTo(w, "recheck")
    /\ UNCHANGED <<now, row, history, ledger, aborts>>

(* pay_invoice returns.  A terminal status ends the attempt, a pending one *)
(* leaves the claim to later polls; it may also raise at this point.       *)
PayReturns(w) ==
    /\ At(w, "await")
    /\ \/ /\ ledger[task[w].hash].status # "pending"
          /\ Becomes(w, [task[w] EXCEPT !.pc = "finish",
                 !.success = ledger[task[w].hash].status = "success"])
       \/ Ends(w)
       \/ GoesTo(w, "recheck")
    /\ UNCHANGED <<now, row, history, ledger, aborts>>

(* The exception handler after a claim: with an outgoing record of its own *)
(* the attempt is reconciled, otherwise (or when the lookup fails) the     *)
(* outcome is unknown and the claim stays.                                 *)
Recheck(w) ==
    /\ At(w, "recheck")
    /\ \/ Owns(task[w].snap, task[w].hash) /\ GoesTo(w, "lookup")
       \/ Ends(w)
    /\ UNCHANGED <<now, row, history, ledger, aborts>>

(* reconcile_payment, for workers and requests: only a terminal record of  *)
(* this occurrence is an answer.                                           *)
LookupSettled(p) ==
    LET h == task[p].snap.pending IN
    /\ At(p, "lookup")
    /\ Owns(task[p].snap, h)
    /\ ledger[h].status # "pending"
    /\ Becomes(p, [task[p] EXCEPT !.pc = "finish",
                   !.success = ledger[h].status = "success"])
    /\ UNCHANGED <<now, row, history, ledger, aborts>>

(* No record, another's record, still pending, or the lookup failed.       *)
LookupUnresolved(p) ==
    /\ At(p, "lookup")
    /\ Ends(p)
    /\ UNCHANGED <<now, row, history, ledger, aborts>>

(* process_allowance after a result: the regular date follows the present, *)
(* or, for a window that ran out, the window.                              *)
FinishWorker(w) ==
    LET a == task[w].snap
        after == IF ~task[w].success /\ AtOrBefore(a.deadline, now)
                   THEN a.deadline - 1 ELSE now
    IN /\ At(w, "finish")
       /\ FinishAttempt(a, NextOccurrence(after), task[w].success)
       /\ Ends(w)
       /\ UNCHANGED <<now, ledger, aborts>>

(* The task ends early: a database error raised out of it, or the          *)
(* extension was stopped or crashed and started again.                     *)
Abort(w) ==
    /\ ~At(w, "idle")
    /\ aborts < MaxAborts
    /\ aborts' = aborts + 1
    /\ Ends(w)
    /\ UNCHANGED <<now, row, history, ledger>>

-----------------------------------------------------------------------------
(* API requests                                                            *)

(* A handler starts with get_allowance; what follows uses that copy.       *)
View(c) ==
    /\ At(c, "idle")
    /\ row # None
    /\ Becomes(c, [pc |-> "view", snap |-> row, at |-> now,
                   hash |-> None, success |-> FALSE])
    /\ UNCHANGED <<now, row, history, ledger, aborts>>

(* The handler answers without writing.                                    *)
Reject(c) ==
    /\ At(c, "view")
    /\ Ends(c)
    /\ UNCHANGED <<now, row, history, ledger, aborts>>

Unchanged(a) == row # None /\ row.revision = a.revision

(* An edit resets the unsent retry state ...                               *)
Edited(active, details, end) ==
    [row EXCEPT !.active = active, !.details = details, !.end = end,
      !.retry_after = None, !.deadline = None, !.retry_count = 0,
      !.revision = @ + 1]

(* ... and is refused during an occurrence retry.                          *)
MaySave(a, details, end) ==
    row.resume # None => details = a.details /\ end = a.end

(* validate_schedule_input: the end does not precede the start, and no row  *)
(* is activated past its end.                                              *)
ValidEnd(a, active, end, t) ==
    /\ ~Before(end, Start)
    /\ active /\ ~a.active => ~Before(end, t)

(* update_allowance: an edit of the row as it was read.  During an         *)
(* occurrence retry only `active` is written.                              *)
Save(c) ==
    LET a == task[c].snap IN
    /\ At(c, "view")
    /\ a.revision < MaxRevision
    /\ Unchanged(a)
    /\ \E active \in BOOLEAN, details \in Details, end \in EndDates \cup {None} :
         /\ ValidEnd(a, active, end, task[c].at)
         /\ MaySave(a, details, end)
         /\ row' = IF row.resume = None THEN Edited(active, details, end)
                   ELSE [row EXCEPT !.active = active, !.revision = @ + 1]
    /\ Ends(c)
    /\ UNCHANGED <<now, history, ledger, aborts>>

(* request_retry of the occurrence in progress: attempt it now.            *)
RetryCurrent(c) ==
    LET a == task[c].snap IN
    /\ At(c, "view")
    /\ a.revision < MaxRevision
    /\ a.pending = None /\ a.active /\ a.resume = None
    /\ ~AtOrBefore(a.end, task[c].at)
    /\ a.retry_after # None /\ a.deadline # None
    /\ a.deadline > task[c].at /\ a.retry_after > task[c].at
    /\ Unchanged(a) /\ row.pending = None
    /\ row' = [row EXCEPT !.retry_after = task[c].at, !.revision = @ + 1]
    /\ Ends(c)
    /\ UNCHANGED <<now, history, ledger, aborts>>

(* Variant: a failure that was submitted may be retried as well.           *)
RetriableAnyFailure(o, a) ==
    /\ history[o] # None
    /\ ~history[o].success
    /\ history[o].snapshot = a.details

(* Variant: the details may have changed since the failure.                *)
RetriableAnyDetails(o, a) ==
    /\ history[o] # None
    /\ ~history[o].success /\ history[o].hash = None

(* Only an unsuccessful occurrence that never reached LNbits may be paid    *)
(* again, and only with the details it had.                                *)
Retriable(o, a) ==
    /\ history[o] # None
    /\ ~history[o].success /\ history[o].hash = None
    /\ history[o].snapshot = a.details

(* Variant: the interrupted regular date is not remembered.                *)
RequeuedWithoutResume(a, o, at) ==
    [row EXCEPT !.due = o, !.retry_after = at,
      !.deadline = Least(at + RetryWindow, a.due), !.revision = @ + 1]

Requeued(a, o, at) ==
    [row EXCEPT !.due = o, !.retry_after = at,
      !.deadline = Least(at + RetryWindow, a.due),
      !.resume = a.due, !.revision = @ + 1]

(* request_retry of a completed occurrence: make it the row's occurrence   *)
(* for a while and remember the regular date to resume at.                 *)
RetryHistorical(c, o) ==
    LET a == task[c].snap
        at == task[c].at
    IN /\ At(c, "view")
       /\ a.revision < MaxRevision
       /\ a.pending = None /\ a.active /\ a.resume = None
       /\ ~AtOrBefore(a.end, at)
       /\ Retriable(o, a)
       /\ o < at
       /\ a.due > at /\ a.retry_after = None
       /\ Unchanged(a) /\ row.pending = None
       /\ row' = Requeued(a, o, at)
       /\ Ends(c)
       /\ UNCHANGED <<now, history, ledger, aborts>>

(* api_allowance_reconcile: a claimed row is inspected, never paid.        *)
Reconcile(c) ==
    /\ At(c, "view")
    /\ task[c].snap.pending # None
    /\ GoesTo(c, "lookup")
    /\ UNCHANGED <<now, row, history, ledger, aborts>>

FinishRequest(c) ==
    /\ At(c, "finish")
    /\ FinishAttempt(task[c].snap, NextOccurrence(now), task[c].success)
    /\ Ends(c)
    /\ UNCHANGED <<now, ledger, aborts>>

(* delete_allowance: the row, its history and its logs in one transaction, *)
(* which is one step as LNbits serialises the connections of one server    *)
(* process; Transactions has its statements among those of other processes. *)
Delete(c) ==
    /\ At(c, "view")
    /\ row' = None
    /\ history' = [o \in Occurrences |-> None]
    /\ Ends(c)
    /\ UNCHANGED <<now, ledger, aborts>>

-----------------------------------------------------------------------------
(* Outside the extension                                                   *)

(* The funding source settles a payment; the result is final.              *)
Settle(h) ==
    /\ ledger[h] # None
    /\ ledger[h].status = "pending"
    /\ \E status \in {"success", "failed"} :
         ledger' = [ledger EXCEPT ![h].status = status]
    /\ UNCHANGED <<now, row, history, task, aborts>>

(* Another sender of this LNbits pays the same invoice.                    *)
OtherPays(h) ==
    /\ ledger[h] = None
    /\ ledger' = [ledger EXCEPT ![h] =
         [mine |-> FALSE, due |-> None, details |-> None, status |-> "pending"]]
    /\ UNCHANGED <<now, row, history, task, aborts>>

Tick ==
    /\ now < Horizon
    /\ now' = now + 1
    /\ UNCHANGED <<row, history, ledger, task, aborts>>

-----------------------------------------------------------------------------
(* create_allowance: the first due time is the start, in the future.       *)
Init ==
    /\ now = 0
    /\ \E active \in BOOLEAN, details \in Details, end \in EndDates \cup {None} :
         /\ ~Before(end, Start)
         /\ row = [active |-> active, revision |-> 0, due |-> Start,
                   pending |-> None, retry_count |-> 0, retry_after |-> None,
                   deadline |-> None, resume |-> None, end |-> end,
                   details |-> details]
    /\ history = [o \in Occurrences |-> None]
    /\ ledger = [h \in Hashes |-> None]
    /\ task = [p \in Procs |-> Idle]
    /\ aborts = 0

Process(w) == ProcessClaimed(w) \/ ProcessEnded(w)

Execute(w) ==
    \/ AdoptClaim(w) \/ AbandonStale(w) \/ ExpireWindow(w) \/ BeginPayment(w)
    \/ FailUnsent(w) \/ Claim(w) \/ ClaimLost(w)
    \/ Submit(w) \/ SubmitRefused(w) \/ PayReturns(w) \/ Recheck(w)
    \/ \E h \in Hashes : RequestInvoice(w, h)

Inspect(p) == LookupSettled(p) \/ LookupUnresolved(p)

WorkerStep(w) == Poll(w) \/ Process(w) \/ Execute(w) \/ Inspect(w) \/ FinishWorker(w)

ClientStep(c) ==
    \/ View(c) \/ Reject(c) \/ Save(c) \/ Delete(c)
    \/ RetryCurrent(c) \/ \E o \in Occurrences : RetryHistorical(c, o)
    \/ Reconcile(c) \/ Inspect(c) \/ FinishRequest(c)

Next ==
    \/ \E w \in Workers : WorkerStep(w) \/ Abort(w)
    \/ \E c \in Clients : ClientStep(c)
    \/ \E h \in Hashes : Settle(h) \/ OtherPays(h)
    \/ Tick

Spec == Init /\ [][Next]_vars

(***************************************************************************)
(* Fairness.  The event loop keeps running the scheduler and a started     *)
(* task, the clock runs, and every payment LNbits accepted settles.  A     *)
(* status inspection may fail or lag for a while but not for ever.         *)
(* Nothing is assumed of users, aborted tasks or other senders.            *)
(***************************************************************************)
Fairness ==
    /\ \A w \in Workers : WF_vars(WorkerStep(w)) /\ SF_vars(LookupSettled(w))
    /\ \A h \in Hashes : WF_vars(Settle(h))
    /\ WF_vars(Tick)

FairSpec == Spec /\ Fairness

-----------------------------------------------------------------------------
(* Safety                                                                  *)

Mine(h) == ledger[h] # None /\ ledger[h].mine
Terminal(h) == ledger[h] # None /\ ledger[h].status # "pending"

(* The schedule goes on for ever: every frequency but "once".              *)
Recurring == \A t \in 0..Horizon : NextOccurrence(t) # None

(* A task that is about to hand an invoice to LNbits is the one whose claim *)
(* the row carries, for the same occurrence, unless the row was deleted: no *)
(* interleaving of schedulers, edits, retries or status checks frees the    *)
(* claim of a sender that has not submitted yet (tasks.py:227-245).         *)
SenderHoldsClaim ==
    \A w \in Workers :
        At(w, "submit") /\ row # None =>
            row.pending = task[w].hash /\ row.due = task[w].snap.due

(* Two tasks are never both about to submit, so the same occurrence is not *)
(* sent twice by schedulers that overlap (crud.py:361 claim_payment).      *)
OneSender ==
    \A v, w \in Workers :
        At(v, "submit") /\ At(w, "submit") /\ row # None => v = w

(***************************************************************************)
(* Why those two hold: the inductive invariant of PaymentLifecycleProofs.   *)
(***************************************************************************)

(* Who runs which stage, and what a task knows of the claim there.         *)
StageInv ==
    \A p \in Procs :
        LET t == task[p] IN
        /\ t.pc \in WorkerPCs => p \in Workers
        /\ t.pc \in {"invoice", "claim"} => t.snap.pending = None
        /\ t.pc \in {"claim", "submit", "await", "recheck"} => t.hash # None
        /\ t.pc \in {"submit", "await", "recheck"} => t.snap.pending = t.hash
        /\ t.pc = "lookup" => t.snap.pending # None

(* The row a task read is the present one or an earlier revision of it.    *)
SnapshotInv ==
    \A p \in Procs :
        task[p].pc # "idle" /\ row # None =>
            /\ task[p].snap.revision <= row.revision
            /\ task[p].snap.revision = row.revision =>
                 task[p].snap.details = row.details

(* A result that is about to be recorded is the ledger's final word on the *)
(* claim it is recorded for.                                               *)
ResultInv ==
    \A p \in Procs :
        LET t == task[p] IN
        /\ t.pc = "await" => Owns(t.snap, t.hash)
        /\ t.pc = "finish" /\ t.snap.pending # None =>
             /\ Owns(t.snap, t.snap.pending)
             /\ ledger[t.snap.pending].status # "pending"
             /\ t.success = (ledger[t.snap.pending].status = "success")

(* An invoice that may still be claimed or submitted has no payment of this *)
(* occurrence in the ledger.                                               *)
UnsentInv ==
    \A w \in Workers :
        LET t == task[w] IN
        row # None /\ t.hash # None /\ Owns(t.snap, t.hash) =>
            /\ t.pc # "submit"
            /\ t.pc = "claim" =>
                 row.revision # t.snap.revision \/ row.pending # None

ClaimInv ==
    /\ TypeOK
    /\ StageInv /\ SnapshotInv /\ ResultInv /\ UnsentInv
    /\ SenderHoldsClaim /\ OneSender

(* A recurring occurrence reaches LNbits at most once, whatever retries,   *)
(* restarts, edits and status checks happen around it.                     *)
SubmittedOnce ==
    Recurring =>
        \A g, h \in Hashes :
            Mine(g) /\ Mine(h) /\ ledger[g].due = ledger[h].due => g = h

(* A completed occurrence without a payment hash is one the retry endpoint *)
(* offers to pay: none of its payments ever reached LNbits, except for the *)
(* attempt a user's retry is making now (payment_retry.py:45).             *)
RetriableNeverSubmitted ==
    Recurring =>
        \A o \in Occurrences :
            history[o] # None /\ history[o].hash = None =>
                \/ row.due = o
                \/ \A h \in Hashes : ~(Mine(h) /\ ledger[h].due = o)

(* History never contradicts LNbits: an entry with a payment hash says what *)
(* became of that payment, which is final and was made for this occurrence, *)
(* and an entry without one is a failure (crud.py:425-454).                *)
HistoryTruthful ==
    \A o \in Occurrences :
        history[o] # None =>
            LET h == history[o].hash IN
            IF h = None THEN ~history[o].success
            ELSE /\ Mine(h) /\ Terminal(h) /\ ledger[h].due = o
                 /\ history[o].success = (ledger[h].status = "success")

(* While an occurrence is retried the row still has exactly the details the *)
(* user confirmed, the failure is on record, and the retry gives way to the *)
(* regular date it interrupts (payment_retry.py:62-98, crud.py:175-186).    *)
RetryKeepsDetails ==
    row # None /\ row.resume # None =>
        /\ history[row.due] # None
        /\ ~history[row.due].success
        /\ history[row.due].hash = None
        /\ history[row.due].snapshot = row.details
        /\ row.due < row.resume
        /\ row.pending = None => row.deadline <= row.resume

(* A deleted allowance leaves no history behind, not even from a task that *)
(* was paying when it was deleted (crud.py:227, 425-454), in the process   *)
(* that deleted it.                                                        *)
NoOrphanHistory ==
    row = None => \A o \in Occurrences : history[o] = None

(* A claim is given up only for the recorded final result of its own        *)
(* payment, and history then says what LNbits says (README: "Unknown        *)
(* outcomes retain their invoice identity").                                *)
ReleasesTruthfully ==
    row # None /\ row.pending # None /\ row' # None /\ row'.pending # row.pending =>
        LET h == row.pending IN
        /\ row'.pending = None
        /\ Mine(h) /\ Terminal(h) /\ ledger[h].due = row.due
        /\ history'[row.due].hash = h
        /\ history'[row.due].success = (ledger[h].status = "success")

ClaimReleasedTruthfully == [][ReleasesTruthfully]_vars

(* What is claimed is what the user last saved: the row is active, due, not *)
(* ended, and the payment is prepared from its present details, however     *)
(* long the invoice took (tasks.py:139-227).                                *)
ClaimsCurrentTerms ==
    row # None /\ row.pending = None /\ row' # None /\ row'.pending # None =>
        /\ row.active /\ row.due <= now /\ ~Before(row.end, now)
        /\ \E w \in Workers :
             task'[w].hash = row'.pending /\ task'[w].snap.details = row.details

ClaimUsesCurrentTerms == [][ClaimsCurrentTerms]_vars

(* Only a task whose poll was before the end of the retry window can claim *)
(* the row.  Preparing a payment may outlast the window, which is compared *)
(* at the reread and not again by the claim; of the two times the task     *)
(* keeps that of its poll, and a task polled after the end never gets as   *)
(* far (tasks.py:147-153, crud.py:361-383).                                *)
ClaimsInWindow ==
    row # None /\ row.pending = None /\ row' # None /\ row'.pending # None =>
        \E w \in Workers :
            /\ At(w, "claim") /\ task'[w].pc = "submit"
            /\ ~AtOrBefore(row.deadline, task[w].at)

ClaimBegunInWindow == [][ClaimsInWindow]_vars

(* The regular schedule: the next regular date, also during a retry of an  *)
(* earlier occurrence.                                                     *)
Regular(r) == IF r.resume = None THEN r.due ELSE r.resume

(* No completion, retry or edit moves the regular schedule back, so no      *)
(* occurrence comes round twice (tasks.py:371-382, crud.py:401-418).        *)
KeepsSchedule ==
    row # None /\ row' # None => Regular(row) <= Regular(row')

ScheduleNeverMovesBack == [][KeepsSchedule]_vars

(* Once history names a submitted payment of a recurring occurrence, that   *)
(* entry is final until the allowance is deleted.                           *)
KeepsSubmitted ==
    Recurring =>
        \A o \in Occurrences :
            history[o] # None /\ history[o].hash # None =>
                history'[o] = history[o] \/ row' = None

SubmittedHistoryFinal == [][KeepsSubmitted]_vars

-----------------------------------------------------------------------------
(* A statement of the documentation that the code does not keep            *)

(* The details saved with a submitted occurrence are those it was paid with *)
(* (README.md:266 "adds saved details for new outcomes").  A claim that is *)
(* settled by a later poll is recorded from the row as it is then, edited  *)
(* or not (crud.py:451).                                                   *)
HistoryShowsPaidDetails ==
    \A o \in Occurrences :
        history[o] # None /\ history[o].hash # None =>
            history[o].snapshot = ledger[history[o].hash].details

-----------------------------------------------------------------------------
(* Liveness, under FairSpec                                                *)

(* A claim whose payment has settled is released, by the worker's polls     *)
(* even when no user asks and when the allowance is paused or ended.        *)
SettledClaimReleased ==
    \A h \in Hashes :
        (row # None /\ row.pending = h /\ Terminal(h) /\ Mine(h))
            ~> (row = None \/ row.pending # h)

(* An active occurrence that is due (and not backing off) is dealt with:    *)
(* claimed, deferred, finished, ended or changed by the user.               *)
DueOccurrenceHandled ==
    \A r \in 0..MaxRevision :
        (row # None /\ row.revision = r /\ row.pending = None /\ Selected(row, now))
            ~> (row = None \/ row.revision # r \/ row.pending # None)
=============================================================================
