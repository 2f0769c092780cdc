----------------------- MODULE PaymentLifecycleProofs -----------------------
(***************************************************************************)
(* Proofs, for any number of schedulers, requests, invoices and due times, *)
(* that a claim is held by one sender, is given up only for the ledger's   *)
(* final word on its payment, and is made on the user's present terms.     *)
(* First the types and the retries, then ClaimInv, through what any step   *)
(* can do to one task, to the row and to the ledger.                       *)
(***************************************************************************)
EXTENDS PaymentLifecycle, TLAPS

(* The least due time after t is a due time.                               *)
LEMMA NextOccurrenceType ==
    ASSUME NEW t
    PROVE  NextOccurrence(t) \in Occurrences \cup {None}
  BY DEF NextOccurrence

(* The first due time exists.                                              *)
LEMMA StartType == Start \in Occurrences
<1>1. PICK o \in Occurrences : \A p \in Occurrences : o <= p
  BY ClockAssumption
<1>2. IsNext(o, 0)
  BY <1>1, ClockAssumption DEF IsNext
<1> QED
  BY <1>2 DEF Start, NextOccurrence

LEMMA LeastType ==
    ASSUME NEW t \in Nat, NEW u \in Nat
    PROVE  Least(t, u) \in Nat
  BY DEF Least

(* A retry delay is a number of ticks, whatever the count.                 *)
LEMMA RetryDelayType ==
    ASSUME NEW count \in Nat
    PROVE  RetryDelay(count) \in Nat
<1> DEFINE i == Least(count, 6) + 1
<1>1. i \in 1..7
  BY DEF Least
<1>2. Doubling[i] \in {1, 2, 4, 8, 16, 32, 64}
  BY <1>1 DEF Doubling
<1>3. BackoffBase * Doubling[i] \in Nat
  BY <1>2, ClockAssumption
<1> QED
  BY <1>3, ClockAssumption DEF RetryDelay, Least

LEMMA IdleType ==
    /\ Idle.pc = "idle" /\ Idle.snap = None /\ Idle.hash = None
    /\ Idle.success = FALSE
  BY DEF Idle

(* A task that is not idle is typed.                                       *)
LEMMA TaskType ==
    ASSUME TypeOK, NEW p \in Procs, task[p].pc # "idle"
    PROVE  /\ task[p] \in Tasks
           /\ task[p].snap \in Rows
           /\ task[p].at \in Nat
           /\ task[p].hash \in Hashes \cup {None}
           /\ task[p].success \in BOOLEAN
  BY IdleType DEF TypeOK, Tasks

(* A released row is a row.                                                *)
LEMMA ReleasedFieldsType ==
    ASSUME NEW r \in Rows, NEW due \in Occurrences, NEW active \in BOOLEAN,
           NEW revision \in Nat
    PROVE  [r EXCEPT
             !.due = due, !.active = active, !.pending = None, !.retry_count = 0,
             !.retry_after = None, !.deadline = None, !.resume = None,
             !.revision = revision] \in Rows
<1>1. None \in Times
  BY DEF Times
<1> QED
  BY <1>1 DEF Rows

LEMMA ReleasedType ==
    ASSUME NEW a, NEW next \in Occurrences \cup {None}, row \in Rows
    PROVE  Released(a, next) \in Rows
<1> DEFINE due == IF next = None THEN row.due ELSE next
           active == row.active /\ next # None
                       /\ ~(a.resume # None /\ AtOrBefore(a.end, now))
           revision == row.revision + 1
<1>1. due \in Occurrences
  BY DEF Rows
<1>2. active \in BOOLEAN
  OBVIOUS
<1>3. revision \in Nat
  BY DEF Rows
<1> HIDE DEF due, active, revision
<1>4. [row EXCEPT
        !.due = due, !.active = active, !.pending = None, !.retry_count = 0,
        !.retry_after = None, !.deadline = None, !.resume = None,
        !.revision = revision] \in Rows
  BY <1>1, <1>2, <1>3, ReleasedFieldsType
<1> QED
  BY <1>4 DEF Released, due, active, revision

(* What a finished attempt leaves behind is a row and a history.           *)
LEMMA FinishType ==
    ASSUME TypeOK, NEW a \in Rows, NEW regular \in Occurrences \cup {None},
           NEW success \in BOOLEAN, FinishAttempt(a, regular, success)
    PROVE  /\ row' \in Rows \cup {None}
           /\ history' \in [Occurrences -> Completions \cup {None}]
<1>1. CASE Held(a)
  <2> DEFINE next == NextDate(a, regular)
  <2>1. row \in Rows
    BY <1>1 DEF TypeOK, Held
  <2>2. next \in Occurrences \cup {None}
    BY NextOccurrenceType DEF NextDate, Rows
  <2>3. Released(a, next) \in Rows
    BY <2>1, <2>2, ReleasedType
  <2>4. Completion(history[a.due], a, success) \in Completions
    <3>1. /\ a.due \in Occurrences
          /\ a.pending \in Hashes \cup {None}
          /\ a.details \in Details
      BY DEF Rows
    <3>2. history[a.due] # None => history[a.due].snapshot \in Details
      BY <3>1 DEF TypeOK, Completions
    <3> QED
      BY <3>1, <3>2 DEF Completion, Completions
  <2> QED
    BY <1>1, <2>3, <2>4 DEF FinishAttempt, TypeOK
<1>2. CASE ~Held(a)
  BY <1>2 DEF FinishAttempt, TypeOK
<1> QED
  BY <1>1, <1>2
-----------------------------------------------------------------------------
(* Type correctness                                                        *)

(* A task that goes on to another stage, or ends, is typed.                *)
LEMMA GoesToType ==
    ASSUME TypeOK, NEW p \in Procs, task[p].pc # "idle",
           NEW pc \in WorkerPCs \cup SharedPCs \cup {"view"}, GoesTo(p, pc)
    PROVE  task' \in [Procs -> Tasks \cup {Idle}]
<1>1. [task[p] EXCEPT !.pc = pc] \in Tasks
  BY TaskType DEF Tasks
<1> QED
  BY <1>1 DEF TypeOK, GoesTo

LEMMA BecomesType ==
    ASSUME TypeOK, NEW p \in Procs, NEW t \in Tasks \cup {Idle}, Becomes(p, t)
    PROVE  task' \in [Procs -> Tasks \cup {Idle}]
  BY DEF TypeOK, Becomes

LEMMA EndsType ==
    ASSUME TypeOK, NEW p \in Procs, Ends(p)
    PROVE  task' \in [Procs -> Tasks \cup {Idle}]
  BY DEF TypeOK, Ends

(* The end of a retry window is a time.                                    *)
LEMMA WindowEndType ==
    ASSUME TypeOK, NEW a \in Rows
    PROVE  WindowEnd(a) \in Nat
<1>1. now \in Nat /\ now + RetryWindow \in Nat
  BY ClockAssumption DEF TypeOK
<1>2. NextOccurrence(now) # None => NextOccurrence(now) \in Nat
  BY NextOccurrenceType, ClockAssumption
<1>3. a.deadline \in Nat \cup {None}
  BY DEF Rows, Times
<1> QED
  BY <1>1, <1>2, <1>3 DEF WindowEnd, Least

(* Every step of a scheduler task keeps the types.                         *)
LEMMA WorkerType ==
    ASSUME TypeOK, NEW w \in Workers, WorkerStep(w) \/ Abort(w)
    PROVE  TypeOK'
<1> DEFINE a == task[w].snap
<1>p. w \in Procs
  BY DEF Procs
<1>i. /\ "idle" \notin WorkerPCs \cup SharedPCs \cup {"view"}
      /\ \A pc \in WorkerPCs \cup SharedPCs : At(w, pc) => task[w].pc # "idle"
  BY DEF WorkerPCs, SharedPCs, At
<1>t. task[w].pc # "idle" =>
        /\ task[w] \in Tasks /\ a \in Rows /\ task[w].at \in Nat
        /\ task[w].hash \in Hashes \cup {None} /\ task[w].success \in BOOLEAN
  BY <1>p, TaskType
<1>1. CASE Poll(w)
  <2>1. [pc |-> "process", snap |-> row, at |-> now,
         hash |-> None, success |-> FALSE] \in Tasks
    BY <1>1 DEF Poll, TypeOK, Tasks, WorkerPCs
  <2> QED
    BY <1>1, <1>p, <2>1, BecomesType DEF Poll, TypeOK
<1>2. CASE ProcessClaimed(w)
  BY <1>2, <1>p, <1>i, GoesToType DEF ProcessClaimed, TypeOK, WorkerPCs, SharedPCs
<1>3. CASE ProcessEnded(w)
  <2>1. task' \in [Procs -> Tasks \cup {Idle}]
    BY <1>3, <1>p, EndsType DEF ProcessEnded
  <2>2. a \in Rows
    BY <1>3, <1>i, <1>t DEF ProcessEnded, WorkerPCs
  <2>3. /\ row' \in Rows \cup {None}
        /\ history' \in [Occurrences -> Completions \cup {None}]
    <3>1. CASE a.resume # None /\ FinishAttempt(a, a.resume, FALSE)
      <4>1. a.resume \in Occurrences \cup {None}
        BY <2>2 DEF Rows
      <4> QED
        BY <3>1, <2>2, <4>1, FinishType
    <3>2. CASE ~(a.resume # None /\ FinishAttempt(a, a.resume, FALSE))
      <4> DEFINE revision == row.revision + 1
      <4>1. row # None => row \in Rows /\ revision \in Nat
        BY DEF TypeOK, Rows
      <4> HIDE DEF revision
      <4>2. row # None => [row EXCEPT !.active = FALSE, !.revision = revision] \in Rows
        BY <4>1 DEF Rows
      <4> QED
        BY <1>3, <3>2, <4>2 DEF ProcessEnded, Deactivated, TypeOK, revision
    <3> QED
      BY <3>1, <3>2
  <2> QED
    BY <1>3, <2>1, <2>3 DEF ProcessEnded, TypeOK
<1>4. CASE AdoptClaim(w)
  <2>1. [task[w] EXCEPT !.pc = "lookup", !.snap.pending = row.pending] \in Tasks
    <3>1. task[w] \in Tasks /\ a \in Rows
      BY <1>4, <1>i, <1>t DEF AdoptClaim, Executes, WorkerPCs
    <3>2. row.pending \in Hashes \cup {None}
      BY <1>4 DEF AdoptClaim, SameOccurrence, TypeOK, Rows
    <3>3. [a EXCEPT !.pending = row.pending] \in Rows
      BY <3>1, <3>2 DEF Rows
    <3> QED
      BY <3>1, <3>3 DEF Tasks, SharedPCs
  <2> QED
    BY <1>4, <1>p, <2>1, BecomesType DEF AdoptClaim, TypeOK
<1>5. CASE AbandonStale(w)
  BY <1>5, <1>p, EndsType DEF AbandonStale, TypeOK
<1>6. CASE ExpireWindow(w)
  <2>1. [task[w] EXCEPT !.pc = "finish", !.success = FALSE] \in Tasks
    BY <1>6, <1>i, <1>t DEF ExpireWindow, Executes, Tasks, WorkerPCs, SharedPCs
  <2> QED
    BY <1>6, <1>p, <2>1, BecomesType DEF ExpireWindow, TypeOK
<1>7. CASE BeginPayment(w)
  BY <1>7, <1>p, <1>i, GoesToType DEF BeginPayment, Executes, TypeOK, WorkerPCs
<1>8. CASE \E h \in Hashes : RequestInvoice(w, h)
  <2>1. PICK h \in Hashes : RequestInvoice(w, h)
    BY <1>8
  <2>2. [task[w] EXCEPT !.pc = "claim", !.hash = h] \in Tasks
    BY <2>1, <1>i, <1>t DEF RequestInvoice, Tasks, WorkerPCs
  <2> QED
    BY <2>1, <1>p, <2>2, BecomesType DEF RequestInvoice, TypeOK
<1>9. CASE FailUnsent(w)
  <2>1. task[w] \in Tasks /\ a \in Rows
    BY <1>9, <1>i, <1>t DEF FailUnsent, WorkerPCs
  <2>2. [task[w] EXCEPT !.pc = "finish", !.success = FALSE] \in Tasks
    BY <2>1 DEF Tasks, SharedPCs
  <2>3. task' \in [Procs -> Tasks \cup {Idle}]
    BY <1>9, <1>p, <2>2, BecomesType, EndsType DEF FailUnsent
  <2>4. row' \in Rows \cup {None}
    <3> DEFINE deadline == WindowEnd(a)
               after == Least(deadline, now + RetryDelay(a.retry_count))
               r == [row EXCEPT
                      !.pending = None, !.retry_count = @ + 1, !.revision = @ + 1,
                      !.retry_after = after, !.deadline = deadline]
    <3>1. deadline \in Nat
      BY <2>1, WindowEndType
    <3>2. after \in Nat
      <4>1. a.retry_count \in Nat
        BY <2>1 DEF Rows
      <4>2. now + RetryDelay(a.retry_count) \in Nat
        BY <4>1, RetryDelayType, ClockAssumption DEF TypeOK
      <4> QED
        BY <3>1, <4>2, LeastType
    <3> HIDE DEF deadline, after
    <3>3. row \in Rows => r \in Rows
      <4> SUFFICES ASSUME row \in Rows PROVE r \in Rows
        OBVIOUS
      <4>1. deadline \in Times /\ after \in Times
        BY <3>1, <3>2 DEF Times
      <4>2. row.retry_count + 1 \in Nat /\ row.revision + 1 \in Nat
        BY DEF Rows
      <4> QED
        BY <4>1, <4>2 DEF Rows
    <3>4. row' = row \/ (row \in Rows /\ row' = r)
      BY <1>9 DEF FailUnsent, Deferred, Held, TypeOK, deadline, after
    <3> QED
      BY <3>3, <3>4 DEF TypeOK
  <2> QED
    BY <1>9, <2>3, <2>4 DEF FailUnsent, TypeOK
<1>10. CASE Claim(w)
  <2>1. task[w] \in Tasks /\ a \in Rows /\ task[w].hash \in Hashes \cup {None}
    BY <1>10, <1>i, <1>t DEF Claim, WorkerPCs
  <2>2. [a EXCEPT !.pending = task[w].hash] \in Rows
    BY <2>1 DEF Rows
  <2>3. [task[w] EXCEPT !.pc = "submit", !.snap.pending = task[w].hash] \in Tasks
    BY <2>1, <2>2 DEF Tasks, WorkerPCs
  <2>4. row' \in Rows
    BY <1>10, <2>1
      DEF Claim, Claimable, StillDue, SameOccurrence, TypeOK, Rows
  <2> QED
    BY <1>10, <1>p, <2>3, <2>4, BecomesType DEF Claim, TypeOK
<1>11. CASE ClaimLost(w)
  BY <1>11, <1>p, EndsType DEF ClaimLost, TypeOK
<1>12. CASE Submit(w)
  <2>1. a \in Rows
    BY <1>12, <1>i, <1>t DEF Submit, WorkerPCs
  <2>2. [mine |-> TRUE, due |-> a.due, details |-> a.details,
         status |-> "pending"] \in Payments
    BY <2>1 DEF Rows, Payments
  <2>3. ledger' \in [Hashes -> Payments \cup {None}]
    BY <1>12, <2>2 DEF Submit, TypeOK
  <2>4. task' \in [Procs -> Tasks \cup {Idle}]
    BY <1>12, <1>p, <1>i, GoesToType DEF Submit, WorkerPCs
  <2> QED
    BY <1>12, <2>3, <2>4 DEF Submit, TypeOK
<1>13. CASE SubmitRefused(w)
  BY <1>13, <1>p, <1>i, GoesToType DEF SubmitRefused, TypeOK, WorkerPCs
<1>14. CASE PayReturns(w)
  <2>1. [task[w] EXCEPT !.pc = "finish",
           !.success = ledger[task[w].hash].status = "success"] \in Tasks
    BY <1>14, <1>i, <1>t DEF PayReturns, Tasks, WorkerPCs, SharedPCs
  <2>2. task' \in [Procs -> Tasks \cup {Idle}]
    BY <1>14, <1>p, <1>i, <2>1, BecomesType, EndsType, GoesToType
      DEF PayReturns, WorkerPCs
  <2> QED
    BY <1>14, <2>2 DEF PayReturns, TypeOK
<1>15. CASE Recheck(w)
  BY <1>15, <1>p, <1>i, EndsType, GoesToType
    DEF Recheck, TypeOK, WorkerPCs, SharedPCs
<1>16. CASE LookupSettled(w)
  <2>1. [task[w] EXCEPT !.pc = "finish",
           !.success = ledger[a.pending].status = "success"] \in Tasks
    BY <1>16, <1>i, <1>t DEF LookupSettled, Tasks, SharedPCs
  <2> QED
    BY <1>16, <1>p, <2>1, BecomesType DEF LookupSettled, TypeOK
<1>17. CASE LookupUnresolved(w)
  BY <1>17, <1>p, EndsType DEF LookupUnresolved, TypeOK
<1>18. CASE FinishWorker(w)
  <2> DEFINE after == IF ~task[w].success /\ AtOrBefore(a.deadline, now)
                        THEN a.deadline - 1 ELSE now
  <2>1. a \in Rows /\ task[w].success \in BOOLEAN
    BY <1>18, <1>i, <1>t DEF FinishWorker, SharedPCs
  <2>2. FinishAttempt(a, NextOccurrence(after), task[w].success)
    BY <1>18 DEF FinishWorker
  <2>3. /\ row' \in Rows \cup {None}
        /\ history' \in [Occurrences -> Completions \cup {None}]
    BY <2>1, <2>2, NextOccurrenceType, FinishType
  <2> QED
    BY <1>18, <1>p, <2>3, EndsType DEF FinishWorker, TypeOK
<1>19. CASE Abort(w)
  <2>1. aborts' \in 0..MaxAborts
    BY <1>19, BoundAssumption DEF Abort, TypeOK
  <2> QED
    BY <1>19, <1>p, <2>1, EndsType DEF Abort, TypeOK
<1> QED
  BY <1>1, <1>2, <1>3, <1>4, <1>5, <1>6, <1>7, <1>8, <1>9, <1>10, <1>11, <1>12,
     <1>13, <1>14, <1>15, <1>16, <1>17, <1>18, <1>19
    DEF WorkerStep, Process, Execute, Inspect

(* Every step of a request keeps the types.                                *)
LEMMA ClientType ==
    ASSUME TypeOK, NEW c \in Clients, ClientStep(c)
    PROVE  TypeOK'
<1> DEFINE a == task[c].snap
<1>p. c \in Procs
  BY DEF Procs
<1>i. \A pc \in SharedPCs \cup {"view"} : At(c, pc) => task[c].pc # "idle"
  BY DEF SharedPCs, At
<1>t. task[c].pc # "idle" =>
        /\ task[c] \in Tasks /\ a \in Rows /\ task[c].at \in Nat
        /\ task[c].success \in BOOLEAN
  BY <1>p, TaskType
<1>1. CASE View(c)
  <2>1. [pc |-> "view", snap |-> row, at |-> now,
         hash |-> None, success |-> FALSE] \in Tasks
    BY <1>1 DEF View, TypeOK, Tasks
  <2> QED
    BY <1>1, <1>p, <2>1, BecomesType DEF View, TypeOK
<1>2. CASE Reject(c)
  BY <1>2, <1>p, EndsType DEF Reject, TypeOK
<1>3. CASE Save(c)
  <2>1. PICK active \in BOOLEAN, details \in Details, end \in EndDates \cup {None} :
          row' = IF row.resume = None THEN Edited(active, details, end)
                 ELSE [row EXCEPT !.active = active, !.revision = @ + 1]
    BY <1>3 DEF Save
  <2> DEFINE revision == row.revision + 1
  <2>2. row \in Rows /\ revision \in Nat
    BY <1>3 DEF Save, Unchanged, TypeOK, Rows
  <2>3. end \in Times /\ None \in Times
    BY ClockAssumption DEF Times
  <2> HIDE DEF revision
  <2>4. /\ [row EXCEPT !.active = active, !.revision = revision] \in Rows
        /\ [row EXCEPT !.active = active, !.details = details, !.end = end,
             !.retry_after = None, !.deadline = None, !.retry_count = 0,
             !.revision = revision] \in Rows
    BY <2>2, <2>3 DEF Rows
  <2>5. row' \in Rows
    BY <2>1, <2>4 DEF Edited, revision
  <2> QED
    BY <1>3, <1>p, <2>5, EndsType DEF Save, TypeOK
<1>4. CASE RetryCurrent(c)
  <2> DEFINE revision == row.revision + 1
             at == task[c].at
  <2>1. row \in Rows /\ revision \in Nat
    BY <1>4 DEF RetryCurrent, Unchanged, TypeOK, Rows
  <2>2. at \in Times
    BY <1>4, <1>i, <1>t DEF RetryCurrent, Times
  <2>3. row' = [row EXCEPT !.retry_after = at, !.revision = revision]
    BY <1>4 DEF RetryCurrent
  <2> HIDE DEF revision, at
  <2>4. row' \in Rows
    BY <2>1, <2>2, <2>3 DEF Rows
  <2> QED
    BY <1>4, <1>p, <2>4, EndsType DEF RetryCurrent, TypeOK
<1>5. CASE \E o \in Occurrences : RetryHistorical(c, o)
  <2>1. PICK o \in Occurrences : RetryHistorical(c, o)
    BY <1>5
  <2> DEFINE revision == row.revision + 1
             at == task[c].at
             deadline == Least(at + RetryWindow, a.due)
             regular == a.due
  <2>2. row \in Rows /\ revision \in Nat
    BY <2>1 DEF RetryHistorical, Unchanged, TypeOK, Rows
  <2>3. at \in Nat /\ regular \in Occurrences
    BY <2>1, <1>i, <1>t DEF RetryHistorical, Rows
  <2>4. deadline \in Nat
    <3> HIDE DEF at, regular
    <3>1. at + RetryWindow \in Nat /\ regular \in Nat
      BY <2>3, ClockAssumption
    <3>2. Least(at + RetryWindow, regular) \in Nat
      BY <3>1, LeastType
    <3> QED
      BY <3>2 DEF regular
  <2>5. row' = [row EXCEPT !.due = o, !.retry_after = at, !.deadline = deadline,
                           !.resume = regular, !.revision = revision]
    BY <2>1 DEF RetryHistorical, Requeued
  <2> HIDE DEF revision, at, deadline, regular
  <2>6. at \in Times /\ deadline \in Times
    BY <2>3, <2>4 DEF Times
  <2>7. row' \in Rows
    BY <2>2, <2>3, <2>5, <2>6 DEF Rows
  <2> QED
    BY <2>1, <1>p, <2>7, EndsType DEF RetryHistorical, TypeOK
<1>6. CASE Reconcile(c)
  BY <1>6, <1>p, <1>i, GoesToType DEF Reconcile, TypeOK, SharedPCs
<1>7. CASE LookupSettled(c)
  <2>1. [task[c] EXCEPT !.pc = "finish",
           !.success = ledger[a.pending].status = "success"] \in Tasks
    BY <1>7, <1>i, <1>t DEF LookupSettled, Tasks, SharedPCs
  <2> QED
    BY <1>7, <1>p, <2>1, BecomesType DEF LookupSettled, TypeOK
<1>8. CASE LookupUnresolved(c)
  BY <1>8, <1>p, EndsType DEF LookupUnresolved, TypeOK
<1>9. CASE FinishRequest(c)
  <2>1. a \in Rows /\ task[c].success \in BOOLEAN
    BY <1>9, <1>i, <1>t DEF FinishRequest, SharedPCs
  <2>2. /\ row' \in Rows \cup {None}
        /\ history' \in [Occurrences -> Completions \cup {None}]
    BY <1>9, <2>1, NextOccurrenceType, FinishType DEF FinishRequest
  <2> QED
    BY <1>9, <1>p, <2>2, EndsType DEF FinishRequest, TypeOK
<1>10. CASE Delete(c)
  BY <1>10, <1>p, EndsType DEF Delete, TypeOK
<1> QED
  BY <1>1, <1>2, <1>3, <1>4, <1>5, <1>6, <1>7, <1>8, <1>9, <1>10
    DEF ClientStep, Inspect

(* The funding source, other senders and the clock keep the types.         *)
LEMMA OutsideType ==
    ASSUME TypeOK, (\E h \in Hashes : Settle(h) \/ OtherPays(h)) \/ Tick
    PROVE  TypeOK'
<1>1. CASE \E h \in Hashes : Settle(h)
  <2>1. PICK h \in Hashes : Settle(h)
    BY <1>1
  <2>2. ledger' \in [Hashes -> Payments \cup {None}]
    BY <2>1 DEF Settle, TypeOK, Payments
  <2> QED
    BY <2>1, <2>2 DEF Settle, TypeOK
<1>2. CASE \E h \in Hashes : OtherPays(h)
  <2>1. PICK h \in Hashes : OtherPays(h)
    BY <1>2
  <2>2. ledger' \in [Hashes -> Payments \cup {None}]
    BY <2>1 DEF OtherPays, TypeOK, Payments
  <2> QED
    BY <2>1, <2>2 DEF OtherPays, TypeOK
<1>3. CASE Tick
  BY <1>3, ClockAssumption DEF Tick, TypeOK
<1> QED
  BY <1>1, <1>2, <1>3

LEMMA InitType == Init => TypeOK
<1> SUFFICES ASSUME Init PROVE TypeOK
  OBVIOUS
<1>1. now \in 0..Horizon /\ aborts \in 0..MaxAborts
  BY ClockAssumption, BoundAssumption DEF Init
<1>2. row \in Rows
  <2>1. PICK active \in BOOLEAN, details \in Details, end \in EndDates \cup {None} :
          row = [active |-> active, revision |-> 0, due |-> Start,
                 pending |-> None, retry_count |-> 0, retry_after |-> None,
                 deadline |-> None, resume |-> None, end |-> end,
                 details |-> details]
    BY DEF Init
  <2>2. end \in Times /\ None \in Times
    BY ClockAssumption DEF Times
  <2> QED
    BY <2>1, <2>2, StartType DEF Rows
<1> QED
  BY <1>1, <1>2 DEF Init, TypeOK

(* Every step keeps the types.                                             *)
LEMMA NextType ==
    ASSUME TypeOK, [Next]_vars
    PROVE  TypeOK'
<1>1. CASE Next
  BY <1>1, WorkerType, ClientType, OutsideType DEF Next
<1>2. CASE UNCHANGED vars
  BY <1>2 DEF vars, TypeOK
<1> QED
  BY <1>1, <1>2

(* Rows, history, ledger records and tasks are always well-formed: no       *)
(* handler writes a NULL date, a negative count or an unknown detail.      *)
THEOREM TypeCorrect == Spec => []TypeOK
  BY InitType, NextType, PTL DEF Spec

-----------------------------------------------------------------------------
(* What a step can do to a task                                            *)

SameTerms(a, b) ==
    a.revision = b.revision /\ a.due = b.due /\ a.details = b.details

(* A poll or a request reads the row.                                      *)
ReadsRow(p) ==
    /\ row # None /\ row' = row
    /\ task'[p].pc = IF p \in Workers THEN "process" ELSE "view"
    /\ task'[p].snap = row /\ task'[p].at = now /\ task'[p].hash = None

(* It turns to a claim it knows of, with or without having made it.        *)
TurnsToClaim(p) ==
    /\ task[p].pc # "idle" /\ task'[p].pc = "lookup"
    /\ SameTerms(task'[p].snap, task[p].snap)
    /\ task'[p].snap.pending # None

(* It gives up an occurrence that was not claimed.                         *)
GivesUp(p) ==
    /\ task[p].pc # "idle" /\ task'[p].pc = "finish"
    /\ task'[p].snap = task[p].snap /\ task[p].snap.pending = None
    /\ task'[p].success = FALSE

(* It learns the final result of a claim.                                  *)
LearnsResult(p) ==
    LET a == task[p].snap IN
    /\ task[p].pc # "idle" /\ task'[p].pc = "finish"
    /\ task'[p].snap = a /\ a.pending # None
    /\ Owns(a, a.pending) /\ ledger[a.pending].status # "pending"
    /\ task'[p].success = (ledger[a.pending].status = "success")
    /\ ledger' = ledger

(* It prepares a payment of an unclaimed row.                              *)
Prepares(p) ==
    /\ p \in Workers
    /\ task[p].pc # "idle" /\ task'[p].pc = "invoice"
    /\ task'[p].snap = task[p].snap /\ task[p].snap.pending = None

FetchesInvoice(p) ==
    /\ p \in Workers
    /\ task[p].pc = "invoice" /\ task'[p].pc = "claim"
    /\ task'[p].snap = task[p].snap
    /\ task'[p].hash \in Hashes /\ ledger[task'[p].hash] = None
    /\ ledger' = ledger

(* It does not know whether the payment was submitted.                     *)
LosesSight(p) ==
    /\ task[p].pc \in {"submit", "await"} /\ task'[p].pc = "recheck"
    /\ task'[p].snap = task[p].snap /\ task'[p].hash = task[p].hash

TaskStep(p) ==
    \/ task'[p] = task[p] \/ task'[p] = Idle
    \/ ReadsRow(p) \/ TurnsToClaim(p) \/ GivesUp(p) \/ LearnsResult(p)
    \/ Prepares(p) \/ FetchesInvoice(p) \/ LosesSight(p)
    \/ p \in Workers /\ (Claim(p) \/ Submit(p))

(* The steps of another task leave a task alone.                           *)
LEMMA OtherTasks ==
    ASSUME TypeOK, NEW p \in Procs, NEW q \in Procs, p # q,
           (p \in Workers /\ (WorkerStep(p) \/ Abort(p)))
             \/ (p \in Clients /\ ClientStep(p))
    PROVE  task'[q] = task[q]
<1>1. task \in [Procs -> Tasks \cup {Idle}]
  BY DEF TypeOK
<1>2. CASE p \in Workers /\ (WorkerStep(p) \/ Abort(p))
  BY <1>1, <1>2
    DEF WorkerStep, Process, Execute, Inspect, Poll, ProcessClaimed, ProcessEnded,
        AdoptClaim, AbandonStale, ExpireWindow, BeginPayment, RequestInvoice,
        FailUnsent, Claim, ClaimLost, Submit, SubmitRefused, PayReturns, Recheck,
        LookupSettled, LookupUnresolved, FinishWorker, Abort, Ends, Becomes, GoesTo
<1>3. CASE p \in Clients /\ ClientStep(p)
  BY <1>1, <1>3
    DEF ClientStep, Inspect, View, Reject, Save, RetryCurrent, RetryHistorical,
        Reconcile, LookupSettled, LookupUnresolved, FinishRequest, Delete,
        Ends, Becomes, GoesTo
<1> QED
  BY <1>2, <1>3

LEMMA WorkerTaskStep ==
    ASSUME TypeOK, StageInv, ResultInv, NEW w \in Workers,
           WorkerStep(w) \/ Abort(w)
    PROVE  TaskStep(w)
<1> DEFINE a == task[w].snap
<1>p. w \in Procs
  BY DEF Procs
<1>f. task \in [Procs -> Tasks \cup {Idle}]
  BY DEF TypeOK
<1>i. task[w].pc # "idle" =>
        task[w] \in Tasks /\ a \in Rows /\ task[w].hash \in Hashes \cup {None}
  BY <1>p, TaskType
<1>1. CASE Poll(w)
  BY <1>1, <1>p, <1>f DEF Poll, Becomes, ReadsRow, TaskStep
<1>2. CASE ProcessClaimed(w)
  BY <1>2, <1>p, <1>f, <1>i
    DEF ProcessClaimed, At, GoesTo, TurnsToClaim, SameTerms, TaskStep
<1>3. CASE ProcessEnded(w)
  BY <1>3, <1>p, <1>f DEF ProcessEnded, Ends, TaskStep
<1>4. CASE AdoptClaim(w)
  <2>1. /\ task'[w] = [task[w] EXCEPT !.pc = "lookup", !.snap.pending = row.pending]
        /\ task[w].pc = "process"
    BY <1>4, <1>p, <1>f DEF AdoptClaim, Executes, At, Becomes
  <2>2. task'[w].pc = "lookup" /\ task'[w].snap = [a EXCEPT !.pending = row.pending]
    BY <2>1, <1>i DEF Tasks
  <2>3. SameTerms(task'[w].snap, a) /\ task'[w].snap.pending = row.pending
    BY <2>1, <2>2, <1>i DEF SameTerms, Rows
  <2> QED
    BY <1>4, <2>1, <2>2, <2>3 DEF AdoptClaim, TurnsToClaim, TaskStep
<1>5. CASE AbandonStale(w)
  BY <1>5, <1>p, <1>f DEF AbandonStale, Ends, TaskStep
<1>6. CASE ExpireWindow(w)
  BY <1>6, <1>p, <1>f, <1>i
    DEF ExpireWindow, Executes, At, Becomes, Tasks, GivesUp, TaskStep
<1>7. CASE BeginPayment(w)
  BY <1>7, <1>p, <1>f, <1>i
    DEF BeginPayment, Executes, At, GoesTo, Tasks, Prepares, TaskStep
<1>8. CASE \E h \in Hashes : RequestInvoice(w, h)
  BY <1>8, <1>p, <1>f, <1>i
    DEF RequestInvoice, At, Becomes, Tasks, FetchesInvoice, TaskStep
<1>9. CASE FailUnsent(w)
  <2>1. a.pending = None /\ task[w].pc = "invoice"
    BY <1>9, <1>p DEF FailUnsent, At, StageInv
  <2>2. \/ task' = [task EXCEPT ![w] = [task[w] EXCEPT !.pc = "finish",
                                                      !.success = FALSE]]
        \/ task' = [task EXCEPT ![w] = Idle]
    BY <1>9 DEF FailUnsent, Becomes, Ends
  <2> QED
    BY <2>1, <2>2, <1>p, <1>f, <1>i DEF Tasks, GivesUp, TaskStep
<1>10. CASE Claim(w)
  BY <1>10 DEF TaskStep
<1>11. CASE ClaimLost(w)
  BY <1>11, <1>p, <1>f DEF ClaimLost, Ends, TaskStep
<1>12. CASE Submit(w)
  BY <1>12 DEF TaskStep
<1>13. CASE SubmitRefused(w)
  BY <1>13, <1>p, <1>f, <1>i
    DEF SubmitRefused, At, GoesTo, Tasks, LosesSight, TaskStep
<1>14. CASE PayReturns(w)
  <2>1. /\ task[w].pc = "await" /\ task[w] \in Tasks
        /\ task[w].hash # None /\ a.pending = task[w].hash
        /\ Owns(a, task[w].hash)
    BY <1>14, <1>p, <1>i DEF PayReturns, At, StageInv, ResultInv
  <2>2. ledger' = ledger
    BY <1>14 DEF PayReturns
  <2>3. CASE /\ ledger[task[w].hash].status # "pending"
             /\ Becomes(w, [task[w] EXCEPT !.pc = "finish",
                     !.success = ledger[task[w].hash].status = "success"])
    <3>1. /\ task'[w].pc = "finish" /\ task'[w].snap = a
          /\ task'[w].success = (ledger[task[w].hash].status = "success")
      BY <2>3, <2>1, <1>p, <1>f DEF Becomes, Tasks
    <3> QED
      BY <3>1, <2>1, <2>2, <2>3 DEF LearnsResult, TaskStep
  <2>4. CASE Ends(w)
    BY <2>4, <1>p, <1>f DEF Ends, TaskStep
  <2>5. CASE GoesTo(w, "recheck")
    BY <2>5, <2>1, <1>p, <1>f DEF GoesTo, Tasks, LosesSight, TaskStep
  <2> QED
    BY <1>14, <2>3, <2>4, <2>5 DEF PayReturns
<1>15. CASE Recheck(w)
  <2>1. task[w].pc = "recheck" /\ a.pending # None
    BY <1>15, <1>p DEF Recheck, At, StageInv
  <2>2. Ends(w) \/ GoesTo(w, "lookup")
    BY <1>15 DEF Recheck
  <2> QED
    BY <2>1, <2>2, <1>p, <1>f, <1>i
      DEF GoesTo, Ends, Tasks, TurnsToClaim, SameTerms, TaskStep
<1>16. CASE LookupSettled(w)
  <2>1. /\ task[w].pc = "lookup" /\ task[w] \in Tasks /\ a.pending # None
        /\ Owns(a, a.pending) /\ ledger[a.pending].status # "pending"
        /\ ledger' = ledger
    BY <1>16, <1>p, <1>i DEF LookupSettled, At, StageInv
  <2>2. /\ task'[w].pc = "finish" /\ task'[w].snap = a
        /\ task'[w].success = (ledger[a.pending].status = "success")
    BY <1>16, <2>1, <1>p, <1>f DEF LookupSettled, Becomes, Tasks
  <2> QED
    BY <2>1, <2>2 DEF LearnsResult, TaskStep
<1>17. CASE LookupUnresolved(w)
  BY <1>17, <1>p, <1>f DEF LookupUnresolved, Ends, TaskStep
<1>18. CASE FinishWorker(w)
  BY <1>18, <1>p, <1>f DEF FinishWorker, Ends, TaskStep
<1>19. CASE Abort(w)
  BY <1>19, <1>p, <1>f DEF Abort, Ends, TaskStep
<1> QED
  BY <1>1, <1>2, <1>3, <1>4, <1>5, <1>6, <1>7, <1>8, <1>9, <1>10, <1>11, <1>12,
     <1>13, <1>14, <1>15, <1>16, <1>17, <1>18, <1>19
    DEF WorkerStep, Process, Execute, Inspect

LEMMA ClientTaskStep ==
    ASSUME TypeOK, StageInv, NEW c \in Clients, ClientStep(c)
    PROVE  TaskStep(c)
<1> DEFINE a == task[c].snap
<1>p. c \in Procs /\ c \notin Workers
  BY NoneAssumption DEF Procs
<1>f. task \in [Procs -> Tasks \cup {Idle}]
  BY DEF TypeOK
<1>i. task[c].pc # "idle" => task[c] \in Tasks /\ a \in Rows
  BY <1>p, TaskType
<1>1. CASE View(c)
  BY <1>1, <1>p, <1>f DEF View, Becomes, ReadsRow, TaskStep
<1>2. CASE Reject(c) \/ Save(c) \/ RetryCurrent(c) \/ LookupUnresolved(c)
           \/ FinishRequest(c) \/ Delete(c)
           \/ \E o \in Occurrences : RetryHistorical(c, o)
  BY <1>2, <1>p, <1>f
    DEF Reject, Save, RetryCurrent, RetryHistorical, LookupUnresolved,
        FinishRequest, Delete, Ends, TaskStep
<1>3. CASE Reconcile(c)
  BY <1>3, <1>p, <1>f, <1>i
    DEF Reconcile, At, GoesTo, Tasks, TurnsToClaim, SameTerms, TaskStep
<1>4. CASE LookupSettled(c)
  <2>1. /\ task[c].pc = "lookup" /\ task[c] \in Tasks /\ a.pending # None
        /\ Owns(a, a.pending) /\ ledger[a.pending].status # "pending"
        /\ ledger' = ledger
    BY <1>4, <1>p, <1>i DEF LookupSettled, At, StageInv
  <2>2. /\ task'[c].pc = "finish" /\ task'[c].snap = a
        /\ task'[c].success = (ledger[a.pending].status = "success")
    BY <1>4, <2>1, <1>p, <1>f DEF LookupSettled, Becomes, Tasks
  <2> QED
    BY <2>1, <2>2 DEF LearnsResult, TaskStep
<1> QED
  BY <1>1, <1>2, <1>3, <1>4 DEF ClientStep, Inspect

LEMMA AnyTaskStep ==
    ASSUME TypeOK, StageInv, ResultInv, [Next]_vars, NEW q \in Procs
    PROVE  TaskStep(q)
<1>1. CASE \E w \in Workers : WorkerStep(w) \/ Abort(w)
  <2>1. PICK w \in Workers : WorkerStep(w) \/ Abort(w)
    BY <1>1
  <2>2. CASE w = q
    BY <2>1, <2>2, WorkerTaskStep
  <2>3. CASE w # q
    BY <2>1, <2>3, OtherTasks DEF Procs, TaskStep
  <2> QED
    BY <2>2, <2>3
<1>2. CASE \E c \in Clients : ClientStep(c)
  <2>1. PICK c \in Clients : ClientStep(c)
    BY <1>2
  <2>2. CASE c = q
    BY <2>1, <2>2, ClientTaskStep
  <2>3. CASE c # q
    BY <2>1, <2>3, OtherTasks DEF Procs, TaskStep
  <2> QED
    BY <2>2, <2>3
<1>3. CASE (\E h \in Hashes : Settle(h) \/ OtherPays(h)) \/ Tick \/ UNCHANGED vars
  BY <1>3 DEF Settle, OtherPays, Tick, vars, TaskStep
<1> QED
  BY <1>1, <1>2, <1>3 DEF Next

-----------------------------------------------------------------------------
(* What a step can do to the ledger                                        *)

(* A record stays, is of the same payment, and a final status is final.    *)
KeepsRecord(h) ==
    ledger[h] # None =>
        /\ ledger'[h] # None
        /\ ledger'[h].mine = ledger[h].mine /\ ledger'[h].due = ledger[h].due
        /\ ledger[h].status # "pending" => ledger'[h].status = ledger[h].status

(* Only a worker that submits makes a record of this allowance.            *)
Records(h) ==
    ledger[h] = None /\ ledger'[h] # None /\ ledger'[h].mine =>
        \E w \in Workers : Submit(w) /\ task[w].hash = h

(* Only these steps change the ledger.                                     *)
LEMMA LedgerMoves ==
    ASSUME [Next]_vars
    PROVE  \/ ledger' = ledger
           \/ \E w \in Workers : Submit(w)
           \/ \E h \in Hashes : Settle(h) \/ OtherPays(h)
<1>1. ASSUME NEW w \in Workers, WorkerStep(w) \/ Abort(w), ~Submit(w)
      PROVE  ledger' = ledger
  BY <1>1
    DEF WorkerStep, Process, Execute, Inspect, Poll, ProcessClaimed, ProcessEnded,
        AdoptClaim, AbandonStale, ExpireWindow, BeginPayment, RequestInvoice,
        FailUnsent, Claim, ClaimLost, SubmitRefused, PayReturns, Recheck,
        LookupSettled, LookupUnresolved, FinishWorker, Abort
<1>2. ASSUME NEW c \in Clients, ClientStep(c)
      PROVE  ledger' = ledger
  BY <1>2
    DEF ClientStep, Inspect, View, Reject, Save, RetryCurrent, RetryHistorical,
        Reconcile, LookupSettled, LookupUnresolved, FinishRequest, Delete
<1> QED
  BY <1>1, <1>2 DEF Next, Tick, vars

LEMMA LedgerStep ==
    ASSUME TypeOK, StageInv, [Next]_vars, NEW h \in Hashes
    PROVE  KeepsRecord(h) /\ Records(h)
<1>f. ledger \in [Hashes -> Payments \cup {None}]
  BY DEF TypeOK
<1>1. CASE ledger' = ledger
  BY <1>1 DEF KeepsRecord, Records
<1>2. CASE \E w \in Workers : Submit(w)
  <2>1. PICK w \in Workers : Submit(w)
    BY <1>2
  <2>2. w \in Procs /\ task[w].pc = "submit"
    BY <2>1 DEF Submit, At, Procs
  <2>3. task[w].hash \in Hashes /\ task[w].snap \in Rows
    BY <2>2, TaskType DEF StageInv
  <2>4. /\ ledger[task[w].hash] = None
        /\ \A g \in Hashes : g # task[w].hash => ledger'[g] = ledger[g]
    BY <2>1, <2>3, <1>f DEF Submit
  <2> QED
    BY <2>1, <2>3, <2>4 DEF KeepsRecord, Records
<1>3. CASE \E g \in Hashes : Settle(g)
  <2>1. PICK g \in Hashes : Settle(g)
    BY <1>3
  <2>2. PICK status \in {"success", "failed"} :
          ledger' = [ledger EXCEPT ![g].status = status]
    BY <2>1 DEF Settle
  <2>3. ledger[g] # None /\ ledger[g] \in Payments /\ ledger[g].status = "pending"
    BY <2>1, <1>f DEF Settle
  <2>4. ledger'[g] \in Payments
    BY <2>2, <2>3, <1>f DEF Payments
  <2>5. ledger'[g] # None
    BY <2>4, RecordAssumption
  <2>6. ledger'[g].mine = ledger[g].mine /\ ledger'[g].due = ledger[g].due
    BY <2>2, <2>3, <1>f DEF Payments
  <2>7. h # g => ledger'[h] = ledger[h]
    BY <2>2, <1>f
  <2> QED
    BY <2>3, <2>5, <2>6, <2>7 DEF KeepsRecord, Records
<1>4. CASE \E g \in Hashes : OtherPays(g)
  <2>1. PICK g \in Hashes : OtherPays(g)
    BY <1>4
  <2>2. ledger[g] = None /\ (h # g => ledger'[h] = ledger[h])
    BY <2>1, <1>f DEF OtherPays
  <2>3. ~ledger'[g].mine
    <3>1. ledger'[g] = [mine |-> FALSE, due |-> None, details |-> None,
                        status |-> "pending"]
      BY <2>1, <1>f DEF OtherPays
    <3> QED
      BY <3>1
  <2> QED
    BY <2>2, <2>3 DEF KeepsRecord, Records
<1> QED
  BY <1>1, <1>2, <1>3, <1>4, LedgerMoves

-----------------------------------------------------------------------------
(* What a step can do to the row                                           *)

(* A new revision with the claim as it was; an occurrence changes only     *)
(* while it is unclaimed.                                                  *)
RowRevised ==
    /\ row # None
    /\ row'.revision = row.revision + 1 /\ row'.pending = row.pending
    /\ row'.due = row.due \/ row.pending = None

(* The claim is given up for the result of its own payment.                *)
RowReleased ==
    LET h == row.pending IN
    /\ row # None /\ h # None
    /\ row'.revision = row.revision + 1 /\ row'.pending = None
    /\ Owns(row, h) /\ ledger[h].status # "pending" /\ ledger' = ledger
    /\ history'[row.due].hash = h
    /\ history'[row.due].success = (ledger[h].status = "success")

RowStep ==
    \/ row' = row
    \/ row' = None
    \/ RowRevised
    \/ RowReleased
    \/ \E w \in Workers : Claim(w)

(* A finished attempt releases an unclaimed row, or a claim with its result. *)
LEMMA FinishRowStep ==
    ASSUME TypeOK, NEW a \in Rows, NEW regular \in Occurrences \cup {None},
           NEW success \in BOOLEAN, FinishAttempt(a, regular, success),
           ledger' = ledger,
           a.pending # None =>
             /\ Owns(a, a.pending) /\ ledger[a.pending].status # "pending"
             /\ success = (ledger[a.pending].status = "success")
    PROVE  RowStep
<1>1. CASE ~Held(a)
  BY <1>1 DEF FinishAttempt, RowStep
<1>2. CASE Held(a)
  <2>1. row # None /\ row \in Rows /\ row.due = a.due /\ row.pending = a.pending
    BY <1>2 DEF Held, TypeOK
  <2>2. /\ row' = Released(a, NextDate(a, regular))
        /\ history' = [history EXCEPT ![a.due] =
                         Completion(history[a.due], a, success)]
    BY <1>2 DEF FinishAttempt
  <2>3. row'.pending = None /\ row'.revision = row.revision + 1
    BY <2>1, <2>2 DEF Released, Rows
  <2>4. CASE a.pending = None
    BY <2>1, <2>3, <2>4 DEF RowRevised, RowStep
  <2>5. CASE a.pending # None
    <3>1. a.due \in Occurrences
      BY DEF Rows
    <3>2. history'[a.due] = Completion(history[a.due], a, success)
      BY <2>2, <3>1 DEF TypeOK
    <3>3. history'[a.due].hash = a.pending /\ history'[a.due].success = success
      BY <3>2 DEF Completion
    <3>4. Owns(row, row.pending)
      BY <2>1, <2>5 DEF Owns
    <3> QED
      BY <2>1, <2>3, <2>5, <3>3, <3>4 DEF RowReleased, RowStep
  <2> QED
    BY <2>4, <2>5
<1> QED
  BY <1>1, <1>2

LEMMA WorkerRowStep ==
    ASSUME TypeOK, StageInv, ResultInv, NEW w \in Workers,
           WorkerStep(w) \/ Abort(w)
    PROVE  RowStep
<1> DEFINE a == task[w].snap
<1>p. w \in Procs
  BY DEF Procs
<1>1. CASE FinishWorker(w)
  <2> DEFINE after == IF ~task[w].success /\ AtOrBefore(a.deadline, now)
                        THEN a.deadline - 1 ELSE now
  <2>1. /\ task[w].pc = "finish" /\ ledger' = ledger
        /\ FinishAttempt(a, NextOccurrence(after), task[w].success)
    BY <1>1 DEF FinishWorker, At
  <2>2. a \in Rows /\ task[w].success \in BOOLEAN
    BY <2>1, <1>p, TaskType
  <2>3. a.pending # None =>
          /\ Owns(a, a.pending) /\ ledger[a.pending].status # "pending"
          /\ task[w].success = (ledger[a.pending].status = "success")
    BY <2>1, <1>p DEF ResultInv
  <2>4. NextOccurrence(after) \in Occurrences \cup {None}
    BY NextOccurrenceType
  <2> QED
    BY <2>1, <2>2, <2>3, <2>4, FinishRowStep
<1>2. CASE ProcessEnded(w)
  <2>1. a.pending = None /\ task[w].pc # "idle" /\ ledger' = ledger
    BY <1>2 DEF ProcessEnded, At
  <2>2. a \in Rows /\ a.resume \in Occurrences \cup {None}
    BY <2>1, <1>p, TaskType DEF Rows
  <2>3. CASE FinishAttempt(a, a.resume, FALSE)
    BY <2>1, <2>2, <2>3, FinishRowStep
  <2>4. CASE row # None /\ row' = [row EXCEPT !.active = FALSE, !.revision = @ + 1]
    BY <2>4 DEF TypeOK, Rows, RowRevised, RowStep
  <2>5. CASE row' = row
    BY <2>5 DEF RowStep
  <2> QED
    BY <1>2, <2>3, <2>4, <2>5 DEF ProcessEnded, Deactivated
<1>3. CASE FailUnsent(w)
  <2>1. a.pending = None
    BY <1>3, <1>p DEF FailUnsent, At, StageInv
  <2>2. CASE row' = row
    BY <2>2 DEF RowStep
  <2>3. CASE row' # row
    <3>1. Held(a)
      BY <1>3, <2>3 DEF FailUnsent, Deferred
    <3>2. row # None /\ row \in Rows /\ row.pending = None
      BY <3>1, <2>1 DEF Held, TypeOK
    <3>3. row'.pending = None /\ row'.revision = row.revision + 1
      BY <1>3, <2>3, <3>2 DEF FailUnsent, Deferred, Rows
    <3> QED
      BY <3>2, <3>3 DEF RowRevised, RowStep
  <2> QED
    BY <2>2, <2>3
<1>4. CASE Claim(w)
  BY <1>4 DEF RowStep
<1> QED
  BY <1>1, <1>2, <1>3, <1>4
    DEF WorkerStep, Process, Execute, Inspect, Poll, ProcessClaimed, AdoptClaim,
        AbandonStale, ExpireWindow, BeginPayment, RequestInvoice, ClaimLost, Submit,
        SubmitRefused, PayReturns, Recheck, LookupSettled, LookupUnresolved, Abort,
        RowStep

LEMMA ClientRowStep ==
    ASSUME TypeOK, ResultInv, NEW c \in Clients, ClientStep(c)
    PROVE  RowStep
<1> DEFINE a == task[c].snap
<1>p. c \in Procs
  BY DEF Procs
<1>1. CASE FinishRequest(c)
  <2>1. /\ task[c].pc = "finish" /\ ledger' = ledger
        /\ FinishAttempt(a, NextOccurrence(now), task[c].success)
    BY <1>1 DEF FinishRequest, At
  <2>2. a \in Rows /\ task[c].success \in BOOLEAN
    BY <2>1, <1>p, TaskType
  <2>3. a.pending # None =>
          /\ Owns(a, a.pending) /\ ledger[a.pending].status # "pending"
          /\ task[c].success = (ledger[a.pending].status = "success")
    BY <2>1, <1>p DEF ResultInv
  <2>4. NextOccurrence(now) \in Occurrences \cup {None}
    BY NextOccurrenceType
  <2> QED
    BY <2>1, <2>2, <2>3, <2>4, FinishRowStep
<1>2. CASE Save(c)
  <2>1. row # None /\ row \in Rows
    BY <1>2 DEF Save, Unchanged, TypeOK
  <2>2. PICK active \in BOOLEAN, details \in Details, end \in EndDates \cup {None} :
          row' = IF row.resume = None THEN Edited(active, details, end)
                 ELSE [row EXCEPT !.active = active, !.revision = @ + 1]
    BY <1>2 DEF Save
  <2> QED
    BY <2>1, <2>2 DEF Edited, Rows, RowRevised, RowStep
<1>3. CASE RetryCurrent(c)
  BY <1>3 DEF RetryCurrent, Unchanged, TypeOK, Rows, RowRevised, RowStep
<1>4. CASE \E o \in Occurrences : RetryHistorical(c, o)
  <2>1. PICK o \in Occurrences : RetryHistorical(c, o)
    BY <1>4
  <2>2. row # None /\ row \in Rows /\ row.pending = None
    BY <2>1 DEF RetryHistorical, Unchanged, TypeOK
  <2>3. row' = Requeued(a, o, task[c].at)
    BY <2>1 DEF RetryHistorical
  <2> QED
    BY <2>2, <2>3 DEF Requeued, Rows, RowRevised, RowStep
<1> QED
  BY <1>1, <1>2, <1>3, <1>4
    DEF ClientStep, Inspect, View, Reject, Reconcile, Delete, LookupSettled,
        LookupUnresolved, RowStep

LEMMA AnyRowStep ==
    ASSUME TypeOK, StageInv, ResultInv, [Next]_vars
    PROVE  RowStep
<1>1. CASE (\E h \in Hashes : Settle(h) \/ OtherPays(h)) \/ Tick \/ UNCHANGED vars
  BY <1>1 DEF Settle, OtherPays, Tick, vars, RowStep
<1> QED
  BY <1>1, WorkerRowStep, ClientRowStep DEF Next

-----------------------------------------------------------------------------
(* The two steps that send                                                 *)

LEMMA ClaimEffect ==
    ASSUME TypeOK, StageInv, NEW w \in Workers, Claim(w)
    PROVE  /\ task[w].pc = "claim" /\ task'[w].pc = "submit"
           /\ SameTerms(task'[w].snap, task[w].snap)
           /\ task'[w].hash = task[w].hash /\ task[w].hash \in Hashes
           /\ task[w].hash # None
           /\ task'[w].snap.pending = task[w].hash /\ task'[w].at = task[w].at
           /\ \A v \in Workers : v # w => task'[v] = task[v]
           /\ row # None /\ row.pending = None
           /\ row.due = task[w].snap.due /\ row.revision = task[w].snap.revision
           /\ row.active /\ row.due <= now /\ ~Before(row.end, now)
           /\ row'.pending = task[w].hash /\ row'.due = row.due
           /\ row'.revision = row.revision /\ row'.details = row.details
           /\ ledger' = ledger
<1> DEFINE a == task[w].snap
<1>p. w \in Procs /\ Workers \subseteq Procs
  BY DEF Procs
<1>1. task[w].pc = "claim"
  BY DEF Claim, At
<1>2. task[w] \in Tasks /\ a \in Rows /\ task[w].hash \in Hashes \cup {None}
  BY <1>1, <1>p, TaskType
<1>3. task[w].hash # None
  BY <1>1, <1>p DEF StageInv
<1>4. task' = [task EXCEPT ![w] = [task[w] EXCEPT !.pc = "submit",
                                                  !.snap.pending = task[w].hash]]
  BY DEF Claim, Becomes
<1>5. /\ task'[w].pc = "submit" /\ task'[w].hash = task[w].hash
      /\ task'[w].at = task[w].at
      /\ task'[w].snap = [a EXCEPT !.pending = task[w].hash]
  BY <1>2, <1>4, <1>p DEF TypeOK, Tasks
<1>6. SameTerms(task'[w].snap, a) /\ task'[w].snap.pending = task[w].hash
  BY <1>2, <1>5 DEF SameTerms, Rows
<1>7. \A v \in Workers : v # w => task'[v] = task[v]
  BY <1>4, <1>p DEF TypeOK
<1>8. /\ row # None /\ row.pending = None /\ row.due = a.due
      /\ row.revision = a.revision /\ row.active /\ row.due <= now
      /\ ~Before(row.end, now)
      /\ row' = [row EXCEPT !.pending = task[w].hash] /\ ledger' = ledger
  BY DEF Claim, Claimable, StillDue, SameOccurrence
<1>9. /\ row'.pending = task[w].hash /\ row'.due = row.due
      /\ row'.revision = row.revision /\ row'.details = row.details
  BY <1>8 DEF TypeOK, Rows
<1> QED
  BY <1>1, <1>2, <1>3, <1>5, <1>6, <1>7, <1>8, <1>9

LEMMA SubmitEffect ==
    ASSUME TypeOK, StageInv, NEW w \in Workers, Submit(w)
    PROVE  /\ task[w].pc = "submit" /\ task'[w].pc = "await"
           /\ task'[w].snap = task[w].snap /\ task'[w].hash = task[w].hash
           /\ task[w].hash \in Hashes
           /\ row' = row
           /\ Owns(task[w].snap, task[w].hash)'
<1> DEFINE t == task[w]
<1>p. w \in Procs
  BY DEF Procs
<1>1. t.pc = "submit"
  BY DEF Submit, At
<1>2. t \in Tasks /\ t.snap \in Rows /\ t.hash \in Hashes
  BY <1>1, <1>p, TaskType DEF StageInv
<1>3. task' = [task EXCEPT ![w].pc = "await"] /\ row' = row
  BY DEF Submit, GoesTo
<1>4. task'[w].pc = "await" /\ task'[w].snap = t.snap /\ task'[w].hash = t.hash
  BY <1>2, <1>3, <1>p DEF TypeOK, Tasks
<1>5. ledger'[t.hash] = [mine |-> TRUE, due |-> t.snap.due,
                         details |-> t.snap.details, status |-> "pending"]
  BY <1>2 DEF Submit, TypeOK
<1>6. ledger'[t.hash] \in Payments
  BY <1>2, <1>5 DEF Payments, Rows
<1>7. ledger'[t.hash] # None /\ ledger'[t.hash].mine /\ ledger'[t.hash].due = t.snap.due
  <2>1. ledger'[t.hash].mine
    BY <1>5
  <2>2. ledger'[t.hash].due = t.snap.due
    BY <1>5
  <2>3. ledger'[t.hash] # None
    BY <1>6, RecordAssumption
  <2> QED
    BY <2>1, <2>2, <2>3
<1>8. Owns(t.snap, t.hash)'
  BY <1>4, <1>7, Zenon DEF Owns
<1> QED
  BY <1>1, <1>2, <1>3, <1>4, <1>8

-----------------------------------------------------------------------------
(* The inductive step                                                      *)

LEMMA StageStep ==
    ASSUME ClaimInv, [Next]_vars
    PROVE  StageInv'
<1> SUFFICES ASSUME NEW q \in Procs
             PROVE  LET t == task[q] IN
                    (/\ t.pc \in WorkerPCs => q \in Workers
                     /\ t.pc \in {"invoice", "claim"} => t.snap.pending = None
                     /\ t.pc \in {"claim", "submit", "await", "recheck"} => t.hash # None
                     /\ t.pc \in {"submit", "await", "recheck"} =>
                          t.snap.pending = t.hash
                     /\ t.pc = "lookup" => t.snap.pending # None)'
  BY DEF StageInv
<1>0. TypeOK /\ StageInv /\ ResultInv
  BY DEF ClaimInv
<1>1. TaskStep(q)
  BY <1>0, AnyTaskStep
<1>2. CASE task'[q] = task[q]
  BY <1>0, <1>2 DEF StageInv
<1>3. CASE task'[q] = Idle
  BY <1>3, IdleType DEF WorkerPCs
<1>4. CASE ReadsRow(q) \/ TurnsToClaim(q) \/ GivesUp(q) \/ LearnsResult(q)
  BY <1>4 DEF ReadsRow, TurnsToClaim, GivesUp, LearnsResult, WorkerPCs
<1>5. CASE Prepares(q)
  BY <1>5 DEF Prepares
<1>6. CASE FetchesInvoice(q)
  BY <1>0, <1>6, NoneAssumption DEF FetchesInvoice, StageInv
<1>7. CASE LosesSight(q)
  BY <1>0, <1>7 DEF LosesSight, StageInv, WorkerPCs
<1>8. CASE q \in Workers /\ Claim(q)
  BY <1>0, <1>8, ClaimEffect
<1>9. CASE q \in Workers /\ Submit(q)
  BY <1>0, <1>9, SubmitEffect DEF StageInv
<1> QED
  BY <1>1, <1>2, <1>3, <1>4, <1>5, <1>6, <1>7, <1>8, <1>9 DEF TaskStep

(* Revisions only grow, and details change only with the revision.         *)
LEMMA RowGrows ==
    ASSUME TypeOK, StageInv, ResultInv, [Next]_vars, row' # None
    PROVE  /\ row # None
           /\ row.revision \in Nat /\ row.revision <= row'.revision
           /\ row'.revision = row.revision => row'.details = row.details
<1>1. row = None => row' = None
  BY AnyRowStep, ClaimEffect DEF RowStep, RowRevised, RowReleased
<1>2. row # None /\ row.revision \in Nat
  BY <1>1 DEF TypeOK, Rows
<1>3. CASE row' = row
  BY <1>2, <1>3
<1>4. CASE RowRevised \/ RowReleased
  BY <1>2, <1>4 DEF RowRevised, RowReleased
<1>5. CASE \E w \in Workers : Claim(w)
  BY <1>2, <1>5, ClaimEffect
<1> QED
  BY <1>2, <1>3, <1>4, <1>5, AnyRowStep DEF RowStep

LEMMA SnapshotStep ==
    ASSUME ClaimInv, [Next]_vars
    PROVE  SnapshotInv'
<1> SUFFICES ASSUME NEW q \in Procs, task'[q].pc # "idle", row' # None
             PROVE  /\ task'[q].snap.revision <= row'.revision
                    /\ task'[q].snap.revision = row'.revision =>
                         task'[q].snap.details = row'.details
  BY DEF SnapshotInv
<1>0. TypeOK /\ StageInv /\ ResultInv /\ SnapshotInv
  BY DEF ClaimInv
<1>1. TaskStep(q)
  BY <1>0, AnyTaskStep
<1>2. /\ row # None
      /\ row.revision \in Nat /\ row.revision <= row'.revision
      /\ row'.revision = row.revision => row'.details = row.details
  BY <1>0, RowGrows
<1>3. CASE ReadsRow(q)
  BY <1>2, <1>3 DEF ReadsRow
<1>4. CASE task[q].pc # "idle" /\ SameTerms(task'[q].snap, task[q].snap)
  <2>1. task[q].snap.revision \in Nat
    BY <1>0, <1>4, TaskType DEF Rows
  <2>2. /\ task[q].snap.revision <= row.revision
        /\ task[q].snap.revision = row.revision =>
             task[q].snap.details = row.details
    BY <1>0, <1>2, <1>4 DEF SnapshotInv
  <2>3. row'.revision \in Nat
    BY <1>0, NextType DEF TypeOK, Rows
  <2> QED
    BY <1>2, <1>4, <2>1, <2>2, <2>3 DEF SameTerms
<1>5. task'[q] # Idle
  BY IdleType
<1>6. ReadsRow(q) \/ (task[q].pc # "idle" /\ SameTerms(task'[q].snap, task[q].snap))
  BY <1>0, <1>1, <1>5, ClaimEffect, SubmitEffect
    DEF TaskStep, SameTerms, TurnsToClaim, GivesUp, LearnsResult, Prepares,
        FetchesInvoice, LosesSight
<1> QED
  BY <1>3, <1>4, <1>6

(* A payment that is in the ledger stays there.                            *)
LEMMA OwnsStays ==
    ASSUME TypeOK, StageInv, [Next]_vars, NEW h \in Hashes, NEW a, Owns(a, h)
    PROVE  /\ ledger'[h] # None /\ ledger'[h].mine /\ ledger'[h].due = a.due
           /\ ledger[h].status # "pending" => ledger'[h].status = ledger[h].status
<1>1. ledger[h] # None /\ ledger[h].mine /\ ledger[h].due = a.due
  BY DEF Owns
<1>2. KeepsRecord(h)
  BY LedgerStep
<1>3. ledger'[h].mine = ledger[h].mine
  BY <1>1, <1>2 DEF KeepsRecord
<1>4. ledger'[h].mine
  BY <1>1, <1>3, Zenon
<1> QED
  BY <1>1, <1>2, <1>4 DEF KeepsRecord

LEMMA ResultStep ==
    ASSUME ClaimInv, [Next]_vars
    PROVE  ResultInv'
<1> SUFFICES ASSUME NEW q \in Procs
             PROVE  LET t == task[q] IN
                    (/\ t.pc = "await" => Owns(t.snap, t.hash)
                     /\ t.pc = "finish" /\ t.snap.pending # None =>
                          /\ Owns(t.snap, t.snap.pending)
                          /\ ledger[t.snap.pending].status # "pending"
                          /\ t.success = (ledger[t.snap.pending].status = "success"))'
  BY DEF ResultInv
<1>0. TypeOK /\ StageInv /\ ResultInv
  BY DEF ClaimInv
<1>1. TaskStep(q)
  BY <1>0, AnyTaskStep
<1>2. CASE task'[q] = task[q]
  <2> DEFINE t == task[q]
  <2>1. CASE t.pc = "await"
    <3>1. t.hash \in Hashes /\ Owns(t.snap, t.hash)
      BY <1>0, <2>1, TaskType DEF StageInv, ResultInv
    <3>2. /\ ledger'[t.hash] # None /\ ledger'[t.hash].mine
          /\ ledger'[t.hash].due = t.snap.due
      BY <1>0, <3>1, OwnsStays
    <3>3. Owns(t.snap, t.hash)'
      BY <1>2, <3>2, Zenon DEF Owns
    <3> QED
      BY <1>2, <2>1, <3>3
  <2>2. CASE t.pc = "finish" /\ t.snap.pending # None
    <3> DEFINE h == t.snap.pending
    <3>1. /\ h \in Hashes /\ Owns(t.snap, h) /\ ledger[h].status # "pending"
          /\ t.success = (ledger[h].status = "success")
      BY <1>0, <2>2, TaskType DEF Rows, ResultInv
    <3>2. /\ ledger'[h] # None /\ ledger'[h].mine /\ ledger'[h].due = t.snap.due
          /\ ledger'[h].status = ledger[h].status
      BY <1>0, <3>1, OwnsStays
    <3>3. Owns(t.snap, h)'
      BY <1>2, <3>2, Zenon DEF Owns
    <3> QED
      BY <1>2, <2>2, <3>1, <3>2, <3>3
  <2> QED
    BY <1>2, <2>1, <2>2
<1>3. CASE task'[q] = Idle
  BY <1>3, IdleType
<1>4. CASE ReadsRow(q) \/ TurnsToClaim(q) \/ GivesUp(q) \/ Prepares(q)
           \/ FetchesInvoice(q) \/ LosesSight(q)
  BY <1>4 DEF ReadsRow, TurnsToClaim, GivesUp, Prepares, FetchesInvoice, LosesSight
<1>5. CASE LearnsResult(q)
  <2> DEFINE a == task[q].snap
  <2>1. /\ task'[q].pc = "finish" /\ task'[q].snap = a
        /\ Owns(a, a.pending) /\ ledger[a.pending].status # "pending"
        /\ task'[q].success = (ledger[a.pending].status = "success")
        /\ ledger' = ledger
    BY <1>5 DEF LearnsResult
  <2>2. Owns(a, a.pending)'
    BY <2>1, Zenon DEF Owns
  <2> QED
    BY <2>1, <2>2
<1>6. CASE q \in Workers /\ Claim(q)
  BY <1>0, <1>6, ClaimEffect
<1>7. CASE q \in Workers /\ Submit(q)
  BY <1>0, <1>7, SubmitEffect
<1> QED
  BY <1>1, <1>2, <1>3, <1>4, <1>5, <1>6, <1>7 DEF TaskStep

(* A record of this allowance that is new was made by the holder of the    *)
(* claim.                                                                  *)
LEMMA NewOwner ==
    ASSUME ClaimInv, [Next]_vars, row' # None, NEW h \in Hashes, NEW a,
           ledger'[h] # None, ledger'[h].mine, ledger'[h].due = a.due, ~Owns(a, h)
    PROVE  \E v \in Workers : /\ Submit(v) /\ task[v].hash = h
                              /\ row' = row /\ row.pending = h
<1>0. TypeOK /\ StageInv /\ ResultInv /\ SenderHoldsClaim
  BY DEF ClaimInv
<1>1. KeepsRecord(h) /\ Records(h)
  BY <1>0, LedgerStep
<1>2. ledger[h] = None
  BY <1>1, Zenon DEF KeepsRecord, Owns
<1>3. PICK v \in Workers : Submit(v) /\ task[v].hash = h
  BY <1>1, <1>2 DEF Records
<1>4. row' = row /\ task[v].pc = "submit"
  BY <1>0, <1>3, SubmitEffect
<1>5. row.pending = h
  BY <1>0, <1>3, <1>4 DEF SenderHoldsClaim, At
<1> QED
  BY <1>3, <1>4, <1>5

LEMMA UnsentStep ==
    ASSUME ClaimInv, [Next]_vars
    PROVE  UnsentInv'
<1> SUFFICES ASSUME NEW w \in Workers, row' # None, task'[w].hash # None,
                    Owns(task[w].snap, task[w].hash)'
             PROVE  /\ task'[w].pc # "submit"
                    /\ task'[w].pc = "claim" =>
                         row'.revision # task'[w].snap.revision \/ row'.pending # None
  BY DEF UnsentInv
<1> DEFINE t == task[w]
<1>0. /\ TypeOK /\ StageInv /\ ResultInv /\ SnapshotInv /\ UnsentInv
      /\ SenderHoldsClaim /\ OneSender
  BY DEF ClaimInv
<1>p. w \in Procs
  BY DEF Procs
<1>r. row # None
  BY <1>0, RowGrows
<1>1. TaskStep(w)
  BY <1>0, <1>p, AnyTaskStep
<1>2. CASE task'[w] = task[w]
  <2>1. SUFFICES ASSUME t.pc \in {"submit", "claim"}
                 PROVE  /\ t.pc = "claim"
                        /\ row'.revision # t.snap.revision \/ row'.pending # None
    BY <1>2
  <2>2. t.hash \in Hashes /\ t.snap \in Rows
    BY <1>0, <1>2, <1>p, <2>1, TaskType
  <2>3. CASE Owns(t.snap, t.hash)
    <3>1. t.pc = "claim" /\ (row.revision # t.snap.revision \/ row.pending # None)
      BY <1>0, <1>r, <1>2, <2>1, <2>3 DEF UnsentInv
    <3>2. /\ t.snap.revision \in Nat /\ row.revision \in Nat
          /\ t.snap.revision <= row.revision
      BY <1>0, <1>r, <1>p, <2>1, <2>2 DEF SnapshotInv, TypeOK, Rows
    <3>3. CASE row' = row
      BY <3>1, <3>3
    <3>4. CASE RowRevised \/ RowReleased
      BY <3>1, <3>2, <3>4 DEF RowRevised, RowReleased
    <3>5. CASE \E v \in Workers : Claim(v)
      BY <1>0, <3>1, <3>5, ClaimEffect
    <3> QED
      BY <1>0, <3>3, <3>4, <3>5, AnyRowStep DEF RowStep
  <2>4. CASE ~Owns(t.snap, t.hash)
    <3>1. /\ ledger'[t.hash] # None /\ ledger'[t.hash].mine
          /\ ledger'[t.hash].due = t.snap.due
      BY <1>2, Zenon DEF Owns
    <3>2. PICK v \in Workers : /\ Submit(v) /\ task[v].hash = t.hash
                               /\ row' = row /\ row.pending = t.hash
      BY <2>2, <2>4, <3>1, NewOwner
    <3>3. task[v].pc = "submit" /\ task'[v].pc = "await"
      BY <1>0, <3>2, SubmitEffect
    <3>4. v # w
      BY <1>2, <3>3
    <3>5. t.pc # "submit"
      BY <1>0, <1>r, <3>3, <3>4 DEF OneSender, At
    <3> QED
      BY <1>2, <2>1, <3>2, <3>5
  <2> QED
    BY <2>3, <2>4
<1>3. CASE task'[w] = Idle
  BY <1>3, IdleType
<1>4. CASE ReadsRow(w) \/ TurnsToClaim(w) \/ GivesUp(w) \/ LearnsResult(w)
           \/ Prepares(w) \/ LosesSight(w)
  BY <1>4 DEF ReadsRow, TurnsToClaim, GivesUp, LearnsResult, Prepares, LosesSight
<1>5. CASE FetchesInvoice(w)
  BY <1>5 DEF FetchesInvoice, Owns
<1>6. CASE Claim(w)
  <2>1. /\ t.pc = "claim" /\ t.hash # None /\ task'[w].hash = t.hash
        /\ task'[w].snap.due = t.snap.due /\ ledger' = ledger
        /\ row.revision = t.snap.revision /\ row.pending = None
    BY <1>0, <1>6, ClaimEffect DEF SameTerms
  <2>2. Owns(t.snap, t.hash)
    BY <2>1, Zenon DEF Owns
  <2> QED
    BY <1>0, <1>r, <2>1, <2>2 DEF UnsentInv
<1>7. CASE Submit(w)
  BY <1>0, <1>7, SubmitEffect
<1> QED
  BY <1>1, <1>2, <1>3, <1>4, <1>5, <1>6, <1>7 DEF TaskStep

(* Who is about to submit was about to before, or has just claimed.        *)
LEMMA SubmitterBefore ==
    ASSUME TypeOK, StageInv, ResultInv, [Next]_vars, NEW w \in Workers,
           task'[w].pc = "submit"
    PROVE  (task[w].pc = "submit" /\ task'[w] = task[w]) \/ Claim(w)
  BY AnyTaskStep, IdleType, SubmitEffect
    DEF Procs, TaskStep, ReadsRow, TurnsToClaim, GivesUp, LearnsResult, Prepares,
        FetchesInvoice, LosesSight

LEMMA SenderStep ==
    ASSUME ClaimInv, [Next]_vars
    PROVE  SenderHoldsClaim'
<1> SUFFICES ASSUME NEW w \in Workers, task'[w].pc = "submit", row' # None
             PROVE  row'.pending = task'[w].hash /\ row'.due = task'[w].snap.due
  BY DEF SenderHoldsClaim, At
<1>0. TypeOK /\ StageInv /\ ResultInv /\ UnsentInv /\ SenderHoldsClaim
  BY DEF ClaimInv
<1>r. row # None
  BY <1>0, RowGrows
<1>1. CASE task[w].pc = "submit" /\ task'[w] = task[w]
  <2>1. row.pending = task[w].hash /\ row.due = task[w].snap.due
    BY <1>0, <1>r, <1>1 DEF SenderHoldsClaim, At
  <2>2. row.pending # None
    BY <1>0, <1>1, <2>1 DEF StageInv, Procs
  <2>3. CASE row' = row
    BY <1>1, <2>1, <2>3
  <2>4. CASE RowRevised
    BY <1>1, <2>1, <2>2, <2>4 DEF RowRevised
  <2>5. ~RowReleased
    <3>1. SUFFICES ASSUME Owns(row, row.pending) PROVE FALSE
      BY DEF RowReleased
    <3>2. Owns(task[w].snap, task[w].hash)
      BY <2>1, <3>1 DEF Owns
    <3> QED
      BY <1>0, <1>r, <1>1, <2>1, <2>2, <3>2 DEF UnsentInv
  <2>6. ~\E v \in Workers : Claim(v)
    BY <1>0, <2>2, ClaimEffect
  <2> QED
    BY <1>0, <2>3, <2>4, <2>5, <2>6, AnyRowStep DEF RowStep
<1>2. CASE Claim(w)
  BY <1>0, <1>2, ClaimEffect DEF SameTerms
<1> QED
  BY <1>0, <1>1, <1>2, SubmitterBefore

LEMMA OneSenderStep ==
    ASSUME ClaimInv, [Next]_vars
    PROVE  OneSender'
<1> SUFFICES ASSUME NEW v \in Workers, NEW w \in Workers, row' # None,
                    task'[v].pc = "submit", task'[w].pc = "submit"
             PROVE  v = w
  BY DEF OneSender, At
<1>0. TypeOK /\ StageInv /\ ResultInv /\ SenderHoldsClaim /\ OneSender
  BY DEF ClaimInv
<1>r. row # None
  BY <1>0, RowGrows
<1>1. /\ (task[v].pc = "submit" /\ task'[v] = task[v]) \/ Claim(v)
      /\ (task[w].pc = "submit" /\ task'[w] = task[w]) \/ Claim(w)
  BY <1>0, SubmitterBefore
<1>2. ASSUME NEW x \in Workers, NEW y \in Workers, task[x].pc = "submit", Claim(y)
      PROVE  FALSE
  <2>1. row.pending = task[x].hash /\ task[x].hash # None
    BY <1>0, <1>r, <1>2 DEF SenderHoldsClaim, StageInv, At, Procs
  <2> QED
    BY <1>0, <1>2, <2>1, ClaimEffect
<1>3. ASSUME NEW x \in Workers, NEW y \in Workers, Claim(x), Claim(y)
      PROVE  x = y
  <2>1. task'[x].pc = "submit" /\ task[x].pc = "claim"
    BY <1>0, <1>3, ClaimEffect
  <2>2. x # y => task'[x] = task[x]
    BY <1>0, <1>3, ClaimEffect
  <2> QED
    BY <2>1, <2>2
<1> QED
  BY <1>0, <1>r, <1>1, <1>2, <1>3 DEF OneSender, At

-----------------------------------------------------------------------------
(* Theorems                                                                *)

LEMMA InitClaim == Init => ClaimInv
<1> SUFFICES ASSUME Init PROVE ClaimInv
  OBVIOUS
<1>1. \A p \in Procs : task[p] = Idle
  BY DEF Init
<1>2. \A p \in Procs : task[p].pc = "idle" /\ task[p].hash = None
  BY <1>1, IdleType
<1>3. StageInv /\ SnapshotInv /\ ResultInv
  BY <1>2 DEF StageInv, SnapshotInv, ResultInv, WorkerPCs
<1>4. UnsentInv /\ SenderHoldsClaim /\ OneSender
  BY <1>2 DEF UnsentInv, SenderHoldsClaim, OneSender, At, Procs
<1> QED
  BY <1>3, <1>4, InitType DEF ClaimInv

LEMMA ClaimStep ==
    ASSUME ClaimInv, [Next]_vars
    PROVE  ClaimInv'
<1>1. TypeOK'
  BY NextType DEF ClaimInv
<1> QED
  BY <1>1, StageStep, SnapshotStep, ResultStep, UnsentStep, SenderStep,
     OneSenderStep DEF ClaimInv

(* Between any two steps of any tasks, claims, snapshots, results and the  *)
(* ledger fit together as ClaimInv says (tasks.py:132-294).                *)
THEOREM ClaimInvariant == Spec => []ClaimInv
  BY InitClaim, ClaimStep, PTL DEF Spec

(* A task that is about to call pay_invoice holds the row's claim          *)
(* (crud.py:361 claim_payment, tasks.py:227-245).                          *)
THEOREM SenderAlwaysHoldsClaim == Spec => []SenderHoldsClaim
<1>1. ClaimInv => SenderHoldsClaim
  BY DEF ClaimInv
<1> QED
  BY <1>1, ClaimInvariant, PTL

(* However many schedulers overlap, one task at most is about to call      *)
(* pay_invoice for an allowance.                                           *)
THEOREM AlwaysOneSender == Spec => []OneSender
<1>1. ClaimInv => OneSender
  BY DEF ClaimInv
<1> QED
  BY <1>1, ClaimInvariant, PTL

(* A claim is given up only with the ledger's final result of its own      *)
(* payment, which is what history then says (crud.py:386-466).             *)
THEOREM ReleasedTruthfully == Spec => ClaimReleasedTruthfully
<1>1. ASSUME ClaimInv, [Next]_vars
      PROVE  ReleasesTruthfully
  <2>1. SUFFICES ASSUME row # None, row.pending # None, row' # None,
                        row'.pending # row.pending
                 PROVE  LET h == row.pending IN
                        /\ row'.pending = None
                        /\ Mine(h) /\ Terminal(h) /\ ledger[h].due = row.due
                        /\ history'[row.due].hash = h
                        /\ history'[row.due].success = (ledger[h].status = "success")
    BY DEF ReleasesTruthfully
  <2>2. TypeOK /\ StageInv /\ ResultInv
    BY <1>1 DEF ClaimInv
  <2>3. RowStep
    BY <1>1, <2>2, AnyRowStep
  <2>4. ~\E w \in Workers : Claim(w)
    BY <2>1, <2>2, ClaimEffect
  <2>5. RowReleased
    BY <2>1, <2>3, <2>4 DEF RowStep, RowRevised
  <2> QED
    BY <2>5 DEF RowReleased, Owns, Mine, Terminal
<1> QED
  BY <1>1, ClaimInvariant, PTL DEF Spec, ClaimReleasedTruthfully

(* What is claimed is due, active and not ended, and is prepared with the  *)
(* details that are saved at the time of the claim (tasks.py:139-227).     *)
THEOREM ClaimedOnCurrentTerms == Spec => ClaimUsesCurrentTerms
<1>1. ASSUME ClaimInv, [Next]_vars
      PROVE  ClaimsCurrentTerms
  <2>1. SUFFICES ASSUME row # None, row.pending = None, row' # None,
                        row'.pending # None
                 PROVE  /\ row.active /\ row.due <= now /\ ~Before(row.end, now)
                        /\ \E w \in Workers : /\ task'[w].hash = row'.pending
                                               /\ task'[w].snap.details = row.details
    BY DEF ClaimsCurrentTerms
  <2>2. TypeOK /\ StageInv /\ ResultInv /\ SnapshotInv
    BY <1>1 DEF ClaimInv
  <2>3. RowStep
    BY <1>1, <2>2, AnyRowStep
  <2>4. PICK w \in Workers : Claim(w)
    BY <2>1, <2>3 DEF RowStep, RowRevised, RowReleased
  <2>5. task[w].snap.details = row.details
    BY <2>1, <2>2, <2>4, ClaimEffect DEF SnapshotInv, Procs
  <2> QED
    BY <2>2, <2>4, <2>5, ClaimEffect DEF SameTerms
<1> QED
  BY <1>1, ClaimInvariant, PTL DEF Spec, ClaimUsesCurrentTerms

=============================================================================
