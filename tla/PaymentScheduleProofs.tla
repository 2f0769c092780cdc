------------------------ MODULE PaymentScheduleProofs ------------------------
(***************************************************************************)
(* Proofs, for any number of requests, invoices and due times, that a      *)
(* retry keeps the terms the user confirmed, that the regular schedule     *)
(* never moves back, and that a recurring occurrence reaches LNbits once.  *)
(***************************************************************************)
EXTENDS PaymentSchedule, PaymentLifecycleProofs

-----------------------------------------------------------------------------
(* Due times                                                               *)

LEMMA NoneIsNoTime == None \notin Nat /\ None \notin Occurrences
  BY NoneAssumption, ClockAssumption

(* The next due time is later than t, and no due time lies between.        *)
LEMMA NextIsLater ==
    ASSUME NEW t \in Int, NextOccurrence(t) # None
    PROVE  /\ NextOccurrence(t) \in Occurrences
           /\ t < NextOccurrence(t)
           /\ \A p \in Occurrences : t < p => NextOccurrence(t) <= p
<1>1. PICK o \in Occurrences : IsNext(o, t)
  BY DEF NextOccurrence
<1>2. /\ NextOccurrence(t) \in Occurrences
      /\ IsNext(NextOccurrence(t), t)
  BY <1>1 DEF NextOccurrence
<1> QED
  BY <1>2, ClockAssumption DEF IsNext

(* A recurring schedule goes on after every reading of the clock.          *)
LEMMA NextExists ==
    ASSUME Recurring, TypeOK
    PROVE  /\ NextOccurrence(now) \in Occurrences /\ now < NextOccurrence(now)
           /\ \A t \in Nat : t <= now => NextOccurrence(t) # None
<1>1. now \in 0..Horizon /\ Horizon \in Nat
  BY ClockAssumption DEF TypeOK
<1>2. \A t \in Nat : t <= now => NextOccurrence(t) # None
  BY <1>1 DEF Recurring
<1> QED
  BY <1>1, <1>2, NextIsLater

LEMMA NowType ==
    ASSUME TypeOK
    PROVE  now \in Nat
  BY ClockAssumption DEF TypeOK

LEMMA RowTimes ==
    ASSUME NEW r \in Rows
    PROVE  /\ r.revision \in Nat
           /\ r.due \in Occurrences /\ r.due \in Nat
           /\ r.resume # None => r.resume \in Occurrences /\ r.resume \in Nat
           /\ r.deadline # None => r.deadline \in Nat
<1>1. /\ r.revision \in Nat /\ r.due \in Occurrences
      /\ r.resume # None => r.resume \in Occurrences
  BY DEF Rows
<1>2. r.deadline # None => r.deadline \in Nat
  BY DEF Rows, Times
<1>3. Occurrences \subseteq Nat
  BY ClockAssumption
<1> QED
  BY <1>1, <1>2, <1>3

LEMMA NowGrows ==
    ASSUME TypeOK, [Next]_vars
    PROVE  now \in Nat /\ now' \in Nat /\ now <= now'
<1>1. now \in Nat
  BY NowType
<1>2. now' = now \/ now' = now + 1
  <2>1. ASSUME NEW w \in Workers, WorkerStep(w) \/ Abort(w)
        PROVE  now' = now
    BY <2>1
      DEF WorkerStep, Process, Execute, Inspect, Poll, ProcessClaimed, ProcessEnded,
          AdoptClaim, AbandonStale, ExpireWindow, BeginPayment, RequestInvoice,
          FailUnsent, Claim, ClaimLost, Submit, SubmitRefused, PayReturns, Recheck,
          LookupSettled, LookupUnresolved, FinishWorker, Abort,
          Becomes, GoesTo, Ends
  <2>2. ASSUME NEW c \in Clients, ClientStep(c)
        PROVE  now' = now
    BY <2>2
      DEF ClientStep, Inspect, View, Reject, Save, RetryCurrent, RetryHistorical,
          Reconcile, LookupSettled, LookupUnresolved, FinishRequest, Delete, Becomes,
          GoesTo, Ends
  <2>3. CASE (\E h \in Hashes : Settle(h) \/ OtherPays(h)) \/ Tick \/ UNCHANGED vars
    BY <2>3 DEF Settle, OtherPays, Tick, vars
  <2> QED
    BY <2>1, <2>2, <2>3 DEF Next
<1> QED
  BY <1>1, <1>2

-----------------------------------------------------------------------------
(* What a step can do to the row a task read                               *)

SameSchedule(a, b) ==
    /\ a.revision = b.revision /\ a.due = b.due
    /\ a.resume = b.resume /\ a.deadline = b.deadline

(* It goes on with what it read; what it is about to end or pay is due,    *)
(* and what it begins to pay within its window.                            *)
GoesOn(p) ==
    /\ task[p].pc # "idle" /\ task'[p].pc # "idle"
    /\ task'[p].snap = task[p].snap /\ task'[p].at = task[p].at
    /\ task'[p].pc \in {"invoice", "claim"} =>
         \/ task[p].pc \in {"invoice", "claim"}
         \/ StillDue(task[p].snap) /\ ~AtOrBefore(row.deadline, now)
    /\ task'[p].pc \in {"invoice", "claim", "finish"} /\ task[p].snap.pending = None =>
         task[p].pc \in {"invoice", "claim", "finish"} \/ task[p].snap.due <= now

ReadStep(p) ==
    \/ task'[p] = task[p] \/ task'[p] = Idle
    \/ ReadsRow(p) \/ GoesOn(p)
    \/ p \in Workers /\ (AdoptClaim(p) \/ Claim(p))

LEMMA GoesToEffect ==
    ASSUME TypeOK, NEW p \in Procs, NEW pc, task[p].pc # "idle", GoesTo(p, pc)
    PROVE  /\ task'[p].pc = pc
           /\ task'[p].snap = task[p].snap /\ task'[p].at = task[p].at
<1>1. task[p] \in Tasks /\ task \in [Procs -> Tasks \cup {Idle}]
  BY TaskType DEF TypeOK
<1> QED
  BY <1>1 DEF GoesTo, Tasks

(* It stops for good, with a result.                                       *)
Finishes(p) ==
    \E success : task' = [task EXCEPT ![p] = [task[p] EXCEPT !.pc = "finish",
                                                             !.success = success]]

LEMMA FinishesEffect ==
    ASSUME TypeOK, NEW p \in Procs, task[p].pc # "idle", Finishes(p)
    PROVE  /\ task'[p].pc = "finish"
           /\ task'[p].snap = task[p].snap /\ task'[p].at = task[p].at
<1>1. task[p] \in Tasks /\ task \in [Procs -> Tasks \cup {Idle}]
  BY TaskType DEF TypeOK
<1> QED
  BY <1>1 DEF Finishes, Tasks

LEMMA EndsEffect ==
    ASSUME TypeOK, NEW p \in Procs, Ends(p)
    PROVE  task'[p] = Idle
  BY DEF TypeOK, Ends

LEMMA WorkerReadStep ==
    ASSUME TypeOK, StageInv, NEW w \in Workers, WorkerStep(w) \/ Abort(w)
    PROVE  ReadStep(w)
<1> DEFINE a == task[w].snap
<1>p. w \in Procs
  BY DEF Procs
<1>f. task \in [Procs -> Tasks \cup {Idle}]
  BY DEF TypeOK
<1>1. CASE Poll(w)
  BY <1>1, <1>p, <1>f DEF Poll, Becomes, ReadsRow, ReadStep
<1>2. CASE ProcessClaimed(w)
  BY <1>2, <1>p, GoesToEffect DEF ProcessClaimed, At, GoesOn, ReadStep
<1>3. CASE ProcessEnded(w) \/ AbandonStale(w) \/ ClaimLost(w)
           \/ LookupUnresolved(w) \/ FinishWorker(w) \/ Abort(w)
  BY <1>3, <1>p, EndsEffect
    DEF ProcessEnded, AbandonStale, ClaimLost, LookupUnresolved, FinishWorker,
        Abort, ReadStep
<1>4. CASE AdoptClaim(w) \/ Claim(w)
  BY <1>4 DEF ReadStep
<1>5. CASE ExpireWindow(w) \/ BeginPayment(w)
  <2>1. task[w].pc # "idle" /\ StillDue(a)
    BY <1>5 DEF ExpireWindow, BeginPayment, Executes, At
  <2>2. a.due <= now
    BY <2>1 DEF StillDue, SameOccurrence
  <2>3. /\ task'[w].snap = a /\ task'[w].at = task[w].at
        /\ \/ task'[w].pc = "finish"
           \/ task'[w].pc = "invoice" /\ ~AtOrBefore(row.deadline, now)
    <3>1. \/ Finishes(w)
          \/ GoesTo(w, "invoice") /\ ~AtOrBefore(row.deadline, now)
      BY <1>5 DEF ExpireWindow, BeginPayment, Becomes, Finishes
    <3> QED
      BY <3>1, <1>p, <2>1, FinishesEffect, GoesToEffect
  <2> QED
    BY <2>1, <2>2, <2>3 DEF GoesOn, ReadStep
<1>6. CASE \E h \in Hashes : RequestInvoice(w, h)
  <2>1. PICK h \in Hashes : RequestInvoice(w, h)
    BY <1>6
  <2>2. task[w].pc = "invoice" /\ task[w] \in Tasks
    BY <2>1, <1>p, TaskType DEF RequestInvoice, At
  <2>3. task'[w].pc = "claim" /\ task'[w].snap = a /\ task'[w].at = task[w].at
    BY <2>1, <2>2, <1>p, <1>f DEF RequestInvoice, Becomes, Tasks
  <2> QED
    BY <2>2, <2>3 DEF GoesOn, ReadStep
<1>7. CASE FailUnsent(w)
  <2>1. task[w].pc = "invoice"
    BY <1>7 DEF FailUnsent, At
  <2>2. Finishes(w) \/ Ends(w)
    BY <1>7 DEF FailUnsent, Becomes, Finishes
  <2>3. \/ task'[w].pc = "finish" /\ task'[w].snap = a /\ task'[w].at = task[w].at
        \/ task'[w] = Idle
    BY <2>1, <2>2, <1>p, FinishesEffect, EndsEffect
  <2> QED
    BY <2>1, <2>3 DEF GoesOn, ReadStep
<1>8. CASE Submit(w) \/ SubmitRefused(w)
  <2>1. task[w].pc = "submit" /\ (GoesTo(w, "await") \/ GoesTo(w, "recheck"))
    BY <1>8 DEF Submit, SubmitRefused, At
  <2>2. /\ task'[w].pc \in {"await", "recheck"}
        /\ task'[w].snap = a /\ task'[w].at = task[w].at
    BY <2>1, <1>p, GoesToEffect
  <2> QED
    BY <2>1, <2>2 DEF GoesOn, ReadStep
<1>9. CASE PayReturns(w)
  <2>1. task[w].pc = "await" /\ a.pending # None
    BY <1>9, <1>p DEF PayReturns, At, StageInv
  <2>2. \/ /\ task'[w].pc \in {"finish", "recheck"}
           /\ task'[w].snap = a /\ task'[w].at = task[w].at
        \/ task'[w] = Idle
    <3>1. Finishes(w) \/ Ends(w) \/ GoesTo(w, "recheck")
      BY <1>9 DEF PayReturns, Becomes, Finishes
    <3> QED
      BY <3>1, <1>p, <2>1, FinishesEffect, GoesToEffect, EndsEffect
  <2> QED
    BY <2>1, <2>2 DEF GoesOn, ReadStep
<1>10. CASE Recheck(w)
  <2>1. task[w].pc = "recheck"
    BY <1>10 DEF Recheck, At
  <2>2. \/ task'[w].pc = "lookup" /\ task'[w].snap = a /\ task'[w].at = task[w].at
        \/ task'[w] = Idle
    BY <1>10, <2>1, <1>p, GoesToEffect, EndsEffect DEF Recheck
  <2> QED
    BY <2>1, <2>2 DEF GoesOn, ReadStep
<1>11. CASE LookupSettled(w)
  <2>1. task[w].pc = "lookup" /\ a.pending # None
    BY <1>11, <1>p DEF LookupSettled, At, StageInv
  <2>2. Finishes(w)
    BY <1>11 DEF LookupSettled, Becomes, Finishes
  <2>3. task'[w].pc = "finish" /\ task'[w].snap = a /\ task'[w].at = task[w].at
    BY <2>1, <2>2, <1>p, FinishesEffect
  <2> QED
    BY <2>1, <2>3 DEF GoesOn, ReadStep
<1> QED
  BY <1>1, <1>2, <1>3, <1>4, <1>5, <1>6, <1>7, <1>8, <1>9, <1>10, <1>11
    DEF WorkerStep, Process, Execute, Inspect

LEMMA ClientReadStep ==
    ASSUME TypeOK, StageInv, NEW c \in Clients, ClientStep(c)
    PROVE  ReadStep(c)
<1> DEFINE a == task[c].snap
<1>p. c \in Procs /\ c \notin Workers
  BY NoneAssumption DEF Procs
<1>f. task \in [Procs -> Tasks \cup {Idle}]
  BY DEF TypeOK
<1>1. CASE View(c)
  BY <1>1, <1>p, <1>f DEF View, Becomes, ReadsRow, ReadStep
<1>2. CASE Reject(c) \/ Save(c) \/ RetryCurrent(c) \/ LookupUnresolved(c)
           \/ FinishRequest(c) \/ Delete(c)
           \/ \E o \in Occurrences : RetryHistorical(c, o)
  BY <1>2, <1>p, <1>f
    DEF Reject, Save, RetryCurrent, RetryHistorical, LookupUnresolved,
        FinishRequest, Delete, Ends, ReadStep
<1>3. CASE Reconcile(c)
  BY <1>3, <1>p, GoesToEffect DEF Reconcile, At, GoesOn, ReadStep
<1>4. CASE LookupSettled(c)
  <2>1. task[c].pc = "lookup" /\ a.pending # None
    BY <1>4, <1>p DEF LookupSettled, At, StageInv
  <2>2. Finishes(c)
    BY <1>4 DEF LookupSettled, Becomes, Finishes
  <2>3. task'[c].pc = "finish" /\ task'[c].snap = a /\ task'[c].at = task[c].at
    BY <2>1, <2>2, <1>p, FinishesEffect
  <2> QED
    BY <2>1, <2>3 DEF GoesOn, ReadStep
<1> QED
  BY <1>1, <1>2, <1>3, <1>4 DEF ClientStep, Inspect

LEMMA AnyReadStep ==
    ASSUME TypeOK, StageInv, [Next]_vars, NEW q \in Procs
    PROVE  ReadStep(q)
<1>1. CASE \E w \in Workers : WorkerStep(w) \/ Abort(w)
  <2>1. PICK w \in Workers : WorkerStep(w) \/ Abort(w)
    BY <1>1
  <2>2. CASE w = q
    BY <2>1, <2>2, WorkerReadStep
  <2>3. CASE w # q
    BY <2>1, <2>3, OtherTasks DEF Procs, ReadStep
  <2> QED
    BY <2>2, <2>3
<1>2. CASE \E c \in Clients : ClientStep(c)
  <2>1. PICK c \in Clients : ClientStep(c)
    BY <1>2
  <2>2. CASE c = q
    BY <2>1, <2>2, ClientReadStep
  <2>3. CASE c # q
    BY <2>1, <2>3, OtherTasks DEF Procs, ReadStep
  <2> QED
    BY <2>2, <2>3
<1>3. CASE (\E h \in Hashes : Settle(h) \/ OtherPays(h)) \/ Tick \/ UNCHANGED vars
  BY <1>3 DEF Settle, OtherPays, Tick, vars, ReadStep
<1> QED
  BY <1>1, <1>2, <1>3 DEF Next

-----------------------------------------------------------------------------
(* What a step can do to the row and its history                           *)

RowSame == row' = row /\ history' = history

RowDeleted == row' = None /\ history' = [o \in Occurrences |-> None]

(* An edit, a deferral, a deactivation, or the current retry brought       *)
(* forward: the occurrence stays, and a retry keeps its terms.             *)
RowEdited ==
    /\ row # None /\ row' # None
    /\ row'.revision = row.revision + 1
    /\ row'.pending = row.pending /\ row'.due = row.due /\ row'.resume = row.resume
    /\ row.resume # None =>
         row'.details = row.details /\ row'.deadline = row.deadline
    /\ row'.deadline # None =>
         row'.deadline = row.deadline \/ row.due < row'.deadline
    /\ history' = history

(* A completed occurrence takes the place of the regular one.              *)
RowRequeued(o) ==
    /\ row # None /\ row' # None
    /\ row.pending = None /\ row.resume = None
    /\ row'.revision = row.revision + 1 /\ row'.pending = None
    /\ row'.details = row.details
    /\ row'.due = o /\ row'.resume = row.due /\ o < row.due
    /\ row'.deadline \in Nat /\ o < row'.deadline /\ row'.deadline <= row.due
    /\ history[o] # None /\ ~history[o].success /\ history[o].hash = None
    /\ history[o].snapshot = row.details
    /\ history' = history

(* The due times an attempt that is finished with the copy a may lead to.  *)
Ahead(a, next) ==
    IF a.resume # None
      THEN next = IF now < a.resume THEN a.resume ELSE NextOccurrence(now)
      ELSE \/ next = NextOccurrence(now)
           \/ /\ a.deadline # None /\ a.deadline <= now
              /\ next = NextOccurrence(a.deadline - 1)

(* A task that holds the attempt finishes it.                              *)
RowFinished(p) ==
    LET a == task[p].snap IN
    /\ task[p].pc = "finish" \/ a.resume # None
    /\ task[p].pc # "idle" /\ Held(a) /\ row' # None
    /\ row'.revision = row.revision + 1 /\ row'.pending = None
    /\ row'.resume = None /\ row'.deadline = None
    /\ \E next \in Occurrences \cup {None} :
         Ahead(a, next) /\ row'.due = IF next = None THEN row.due ELSE next
    /\ \E success \in BOOLEAN :
         /\ success => task[p].pc = "finish" /\ task[p].success
         /\ history' = [history EXCEPT ![row.due] =
                          Completion(history[row.due], a, success)]

RowMove ==
    \/ RowSame \/ RowDeleted \/ RowEdited
    \/ \E o \in Occurrences : RowRequeued(o)
    \/ \E w \in Workers : Claim(w)
    \/ \E p \in Procs : RowFinished(p)

LEMMA FinishMove ==
    ASSUME TypeOK, NEW p \in Procs, task[p].pc # "idle",
           task[p].pc = "finish" \/ task[p].snap.resume # None,
           NEW regular \in Occurrences \cup {None}, NEW success \in BOOLEAN,
           success => task[p].pc = "finish" /\ task[p].success,
           FinishAttempt(task[p].snap, regular, success),
           task[p].snap.resume = None => Ahead(task[p].snap, regular)
    PROVE  RowSame \/ RowFinished(p)
<1> DEFINE a == task[p].snap
           next == NextDate(a, regular)
<1>1. CASE ~Held(a)
  BY <1>1 DEF FinishAttempt, RowSame
<1>2. CASE Held(a)
  <2>1. row # None /\ row \in Rows /\ row.due = a.due /\ a \in Rows
    BY <1>2, TaskType DEF Held, TypeOK
  <2>2. /\ row' = Released(a, next)
        /\ history' = [history EXCEPT ![a.due] =
                         Completion(history[a.due], a, success)]
    BY <1>2 DEF FinishAttempt
  <2>3. next \in Occurrences \cup {None}
    BY <2>1, NextOccurrenceType DEF NextDate, Rows
  <2>4. Ahead(a, next)
    <3>1. CASE a.resume = None
      BY <3>1 DEF NextDate
    <3>2. CASE a.resume # None
      <4>1. a.resume \in Nat /\ now \in Nat
        BY <2>1, <3>2, RowTimes, NowType
      <4> QED
        BY <3>2, <4>1 DEF NextDate, Ahead
    <3> QED
      BY <3>1, <3>2
  <2>5. /\ row'.pending = None /\ row'.revision = row.revision + 1
        /\ row'.resume = None /\ row'.deadline = None
        /\ row'.due = IF next = None THEN row.due ELSE next
    BY <2>1, <2>2 DEF Released, Rows
  <2>6. row' # None
    <3>1. row' \in Rows
      BY <2>1, <2>2, <2>3, ReleasedType
    <3> QED
      BY <3>1, RecordAssumption
  <2> HIDE DEF next
  <2>7. history' = [history EXCEPT ![row.due] =
                      Completion(history[row.due], a, success)]
    BY <2>1, <2>2
  <2> QED
    BY <1>2, <2>3, <2>4, <2>5, <2>6, <2>7 DEF RowFinished
<1> QED
  BY <1>1, <1>2

LEMMA DeferredFields ==
    ASSUME TypeOK, row # None, NEW a \in Rows, NEW deadline \in Nat
    PROVE  LET r == Deferred(a, deadline) IN
           /\ r # None
           /\ r.revision = row.revision + 1 /\ r.pending = None
           /\ r.due = row.due /\ r.resume = row.resume
           /\ r.details = row.details /\ r.deadline = deadline
<1> DEFINE after == Least(deadline, now + RetryDelay(a.retry_count))
           r == [row EXCEPT
                  !.pending = None, !.retry_count = @ + 1, !.revision = @ + 1,
                  !.retry_after = after, !.deadline = deadline]
<1>1. row \in Rows /\ a.retry_count \in Nat /\ now \in Nat
  BY ClockAssumption DEF TypeOK, Rows
<1>2. now + RetryDelay(a.retry_count) \in Nat
  BY <1>1, RetryDelayType
<1>3. after \in Times /\ deadline \in Times
  BY <1>2, LeastType DEF Times
<1>4. Deferred(a, deadline) = r
  BY DEF Deferred
<1> HIDE DEF after
<1>5. row.retry_count + 1 \in Nat /\ row.revision + 1 \in Nat
  BY <1>1 DEF Rows
<1>6. r \in Rows
  BY <1>1, <1>3, <1>5 DEF Rows
<1>7. /\ r.revision = row.revision + 1 /\ r.pending = None
      /\ r.due = row.due /\ r.resume = row.resume
      /\ r.details = row.details /\ r.deadline = deadline
  BY <1>1 DEF Rows
<1> QED
  BY <1>4, <1>6, <1>7, RecordAssumption

LEMMA WorkerMove ==
    ASSUME RetryInv, NEW w \in Workers, WorkerStep(w) \/ Abort(w)
    PROVE  RowMove
<1> DEFINE a == task[w].snap
<1>0. /\ TypeOK /\ StageInv /\ SeenScheduleInv /\ RetryWindowInv /\ DueInv
      /\ w \in Procs
  BY DEF RetryInv, ClaimInv, Procs
<1>1. CASE FinishWorker(w)
  <2> DEFINE after == IF ~task[w].success /\ AtOrBefore(a.deadline, now)
                        THEN a.deadline - 1 ELSE now
             regular == NextOccurrence(after)
  <2>1. task[w].pc = "finish" /\ FinishAttempt(a, regular, task[w].success)
    BY <1>1 DEF FinishWorker, At
  <2>2. regular \in Occurrences \cup {None} /\ task[w].success \in BOOLEAN
    BY <1>0, <2>1, TaskType, NextOccurrenceType
  <2>3. a.resume = None => Ahead(a, regular)
    BY DEF Ahead, AtOrBefore
  <2> HIDE DEF regular
  <2> QED
    BY <1>0, <2>1, <2>2, <2>3, FinishMove DEF RowMove
<1>2. CASE ProcessEnded(w)
  <2>1. task[w].pc = "process" /\ a \in Rows
    BY <1>0, <1>2, TaskType DEF ProcessEnded, At
  <2>2. CASE a.resume # None /\ FinishAttempt(a, a.resume, FALSE)
    <3>1. a.resume \in Occurrences
      BY <2>1, <2>2 DEF Rows
    <3> QED
      BY <1>0, <2>1, <2>2, <3>1, FinishMove DEF RowMove
  <2>3. CASE row # None /\ row' = Deactivated /\ history' = history
    <3>1. row \in Rows
      BY <1>0, <2>3 DEF TypeOK
    <3>2. row' \in Rows
      <4>1. row.revision + 1 \in Nat
        BY <3>1, RowTimes
      <4> QED
        BY <2>3, <3>1, <4>1 DEF Deactivated, Rows
    <3>3. /\ row'.revision = row.revision + 1
          /\ row'.pending = row.pending /\ row'.due = row.due
          /\ row'.resume = row.resume /\ row'.details = row.details
          /\ row'.deadline = row.deadline
      BY <2>3, <3>1 DEF Deactivated, Rows
    <3> QED
      BY <2>3, <3>2, <3>3, RecordAssumption DEF RowEdited, RowMove
  <2>4. CASE row' = row /\ history' = history
    BY <2>4 DEF RowSame, RowMove
  <2> QED
    BY <1>2, <2>2, <2>3, <2>4 DEF ProcessEnded
<1>3. CASE FailUnsent(w)
  <2> DEFINE deadline == WindowEnd(a)
  <2>1. task[w].pc = "invoice" /\ a \in Rows /\ a.pending = None /\ a.due <= now
    BY <1>0, <1>3, TaskType DEF FailUnsent, At, StageInv, DueInv
  <2>2. history' = history
    BY <1>3 DEF FailUnsent
  <2>3. CASE row' = row
    BY <2>2, <2>3 DEF RowSame, RowMove
  <2>4. CASE Held(a) /\ now < deadline /\ row' = Deferred(a, deadline)
    <3>1. /\ row # None /\ row \in Rows /\ row.pending = None
          /\ row.due = a.due /\ row.revision = a.revision
      BY <1>0, <2>1, <2>4 DEF Held, TypeOK
    <3>2. a.deadline = row.deadline /\ a.resume = row.resume
      BY <1>0, <2>1, <3>1 DEF SeenScheduleInv
    <3>3. row.resume # None => deadline = row.deadline
      BY <1>0, <3>1, <3>2 DEF RetryWindowInv, WindowEnd
    <3>4. deadline \in Nat
      BY <1>0, <2>1, WindowEndType
    <3>5. row.due < deadline
      <4>1. now \in Nat /\ row.due \in Nat
        BY <1>0, <3>1, RowTimes, NowType
      <4> QED
        BY <2>1, <2>4, <3>1, <3>4, <4>1
    <3> HIDE DEF deadline
    <3>6. /\ row'.revision = row.revision + 1 /\ row' # None
          /\ row'.pending = row.pending /\ row'.due = row.due
          /\ row'.resume = row.resume /\ row'.details = row.details
          /\ row'.deadline = deadline
      BY <1>0, <2>1, <2>4, <3>1, <3>4, DeferredFields
    <3> QED
      BY <2>2, <3>1, <3>3, <3>5, <3>6 DEF RowEdited, RowMove
  <2> QED
    BY <1>3, <2>3, <2>4 DEF FailUnsent
<1>4. CASE Claim(w)
  BY <1>4 DEF RowMove
<1> QED
  BY <1>1, <1>2, <1>3, <1>4
    DEF WorkerStep, Process, Execute, Inspect, Poll, ProcessClaimed, AdoptClaim,
        AbandonStale, ExpireWindow, BeginPayment, RequestInvoice, ClaimLost, Submit,
        SubmitRefused, PayReturns, Recheck, LookupSettled, LookupUnresolved, Abort,
        RowSame, RowMove
LEMMA ClientMove ==
    ASSUME RetryInv, NEW c \in Clients, ClientStep(c)
    PROVE  RowMove
<1> DEFINE a == task[c].snap
           at == task[c].at
<1>0. /\ TypeOK /\ StageInv /\ SnapshotInv /\ SeenScheduleInv
      /\ RetryWindowInv /\ DueInv /\ c \in Procs
  BY DEF RetryInv, ClaimInv, Procs
<1>1. CASE FinishRequest(c)
  <2> DEFINE regular == NextOccurrence(now)
  <2>1. task[c].pc = "finish" /\ FinishAttempt(a, regular, task[c].success)
    BY <1>1 DEF FinishRequest, At
  <2>2. regular \in Occurrences \cup {None} /\ task[c].success \in BOOLEAN
    BY <1>0, <2>1, TaskType, NextOccurrenceType
  <2>3. a.resume = None => Ahead(a, regular)
    BY DEF Ahead
  <2> HIDE DEF regular
  <2> QED
    BY <1>0, <2>1, <2>2, <2>3, FinishMove DEF RowMove
<1>2. CASE Save(c) \/ RetryCurrent(c)
  <2>1. row # None /\ row \in Rows /\ history' = history
    BY <1>0, <1>2 DEF Save, RetryCurrent, Unchanged, TypeOK
  <2>2. \/ \E active \in BOOLEAN, details \in Details, end \in EndDates \cup {None} :
             row.resume = None /\ row' = Edited(active, details, end)
        \/ \E active \in BOOLEAN : row' = [row EXCEPT !.active = active, !.revision = @ + 1]
        \/ row' = [row EXCEPT !.retry_after = at, !.revision = @ + 1]
    BY <1>2 DEF Save, RetryCurrent
  <2>3. /\ row'.revision = row.revision + 1
        /\ row'.pending = row.pending /\ row'.due = row.due
        /\ row'.resume = row.resume
        /\ row.resume # None => row'.details = row.details
        /\ \/ row.resume = None /\ row'.deadline = None
           \/ row'.deadline = row.deadline
    BY <2>1, <2>2 DEF Edited, Rows
  <2>4. row' # None
    <3>1. at \in Times
      BY <1>0, <1>2, TaskType DEF Save, RetryCurrent, At, Times
    <3>2. EndDates \cup {None} \subseteq Times /\ None \in Times /\ 0 \in Nat
      BY ClockAssumption DEF Times
    <3>3. row.revision + 1 \in Nat
      BY <2>1, RowTimes
    <3> DEFINE switched(active) == [row EXCEPT !.active = active, !.revision = @ + 1]
               hastened == [row EXCEPT !.retry_after = at, !.revision = @ + 1]
    <3>4. ASSUME NEW active \in BOOLEAN, NEW details \in Details,
                 NEW end \in EndDates \cup {None}
          PROVE  Edited(active, details, end) \in Rows
      <4>1. end \in Times
        BY <3>2
      <4> QED
        BY <2>1, <3>2, <3>3, <4>1 DEF Edited, Rows
    <3>5. \A active \in BOOLEAN : switched(active) \in Rows
      BY <2>1, <3>3 DEF Rows
    <3>6. hastened \in Rows
      BY <2>1, <3>1, <3>3 DEF Rows
    <3>7. \/ \E active \in BOOLEAN, details \in Details, end \in EndDates \cup {None} :
               row' = Edited(active, details, end)
          \/ \E active \in BOOLEAN : row' = switched(active)
          \/ row' = hastened
      BY <2>2, Zenon
    <3> HIDE DEF switched, hastened
    <3>8. row' \in Rows
      BY <3>4, <3>5, <3>6, <3>7
    <3> QED
      BY <3>8, RecordAssumption
  <2> QED
    BY <2>1, <2>3, <2>4 DEF RowEdited, RowMove
<1>3. CASE \E o \in Occurrences : RetryHistorical(c, o)
  <2>1. PICK o \in Occurrences : RetryHistorical(c, o)
    BY <1>3
  <2>2. /\ task[c].pc = "view" /\ row # None /\ row \in Rows
        /\ row.revision = a.revision /\ row.pending = None /\ a.resume = None
        /\ row' = Requeued(a, o, at) /\ history' = history
        /\ Retriable(o, a) /\ o < at /\ at < a.due
    BY <1>0, <2>1 DEF RetryHistorical, Unchanged, At, TypeOK
  <2>3. row.due = a.due /\ row.resume = None /\ row.details = a.details
    BY <1>0, <2>2 DEF SeenScheduleInv, SnapshotInv
  <2>4. at \in Nat /\ a.due \in Occurrences /\ a.due \in Nat
    BY <1>0, <2>2, TaskType, ClockAssumption DEF Rows
  <2>5. /\ Least(at + RetryWindow, a.due) \in Nat
        /\ o < Least(at + RetryWindow, a.due)
        /\ Least(at + RetryWindow, a.due) <= a.due
    BY <2>2, <2>4, ClockAssumption DEF Least
  <2> DEFINE deadline == Least(at + RetryWindow, a.due)
  <2>6. row' = [row EXCEPT !.due = o, !.retry_after = at, !.deadline = deadline,
                           !.resume = a.due, !.revision = @ + 1]
    BY <2>2 DEF Requeued
  <2> HIDE DEF deadline
  <2>7. /\ row'.revision = row.revision + 1 /\ row'.pending = None
        /\ row'.due = o /\ row'.resume = row.due
        /\ row'.details = row.details /\ row'.deadline = deadline
    BY <2>2, <2>3, <2>6 DEF Rows
  <2>8. row' \in Rows
    <3>1. deadline \in Times /\ at \in Times
      BY <2>4, <2>5 DEF deadline, Times
    <3>2. row.revision + 1 \in Nat /\ a.due \in Occurrences \cup {None}
      BY <2>2, <2>4, RowTimes
    <3> QED
      BY <2>2, <2>6, <3>1, <3>2 DEF Rows
  <2>9. /\ history[o] # None /\ ~history[o].success /\ history[o].hash = None
        /\ history[o].snapshot = row.details
    BY <2>2, <2>3 DEF Retriable
  <2>10. deadline \in Nat /\ o < deadline /\ deadline <= row.due /\ o < row.due
    <3>1. o \in Nat
      BY ClockAssumption
    <3> QED
      BY <2>2, <2>3, <2>4, <2>5, <3>1 DEF deadline
  <2>11. row' # None
    BY <2>8, RecordAssumption
  <2>12. RowRequeued(o)
    BY <2>2, <2>3, <2>7, <2>9, <2>10, <2>11 DEF RowRequeued
  <2> QED
    BY <2>12 DEF RowMove
<1>4. CASE Delete(c)
  BY <1>4 DEF Delete, RowDeleted, RowMove
<1> QED
  BY <1>1, <1>2, <1>3, <1>4
    DEF ClientStep, Inspect, View, Reject, Reconcile, LookupSettled,
        LookupUnresolved, RowSame, RowMove

LEMMA AnyMove ==
    ASSUME RetryInv, [Next]_vars
    PROVE  RowMove
<1>1. CASE (\E h \in Hashes : Settle(h) \/ OtherPays(h)) \/ Tick \/ UNCHANGED vars
  BY <1>1 DEF Settle, OtherPays, Tick, vars, RowSame, RowMove
<1> QED
  BY <1>1, WorkerMove, ClientMove DEF Next
-----------------------------------------------------------------------------
(* The two steps that change what a task knows of a claim                  *)

LEMMA ClaimKeeps ==
    ASSUME TypeOK, StageInv, NEW w \in Workers, Claim(w)
    PROVE  /\ row' # None /\ SameSchedule(row', row)
           /\ SameSchedule(task'[w].snap, task[w].snap)
           /\ history' = history /\ now' = now
<1> DEFINE a == task[w].snap
           h == task[w].hash
<1>p. w \in Procs
  BY DEF Procs
<1>1. task[w].pc = "claim" /\ row # None /\ h \in Hashes
  BY ClaimEffect
<1>2. task[w] \in Tasks /\ a \in Rows /\ row \in Rows
  BY <1>1, <1>p, TaskType DEF TypeOK
<1>3. row' = [row EXCEPT !.pending = h] /\ history' = history /\ now' = now
  BY DEF Claim
<1>4. row' \in Rows /\ SameSchedule(row', row)
  BY <1>1, <1>2, <1>3 DEF Rows, SameSchedule
<1>5. task'[w] = [task[w] EXCEPT !.pc = "submit", !.snap.pending = h]
  BY <1>p DEF Claim, Becomes, TypeOK
<1>6. task'[w].snap = [a EXCEPT !.pending = h]
  BY <1>2, <1>5 DEF Tasks
<1>7. SameSchedule(task'[w].snap, a)
  BY <1>2, <1>6 DEF Rows, SameSchedule
<1> QED
  BY <1>3, <1>4, <1>7, RecordAssumption

LEMMA AdoptEffect ==
    ASSUME TypeOK, NEW w \in Workers, AdoptClaim(w)
    PROVE  /\ task[w].pc = "process" /\ task'[w].pc = "lookup"
           /\ SameSchedule(task'[w].snap, task[w].snap)
           /\ task'[w].at = task[w].at /\ task[w].snap.pending = None
           /\ task'[w].snap.pending = row.pending /\ row.pending # None
           /\ row # None /\ row.due = task[w].snap.due
           /\ row' = row /\ history' = history /\ now' = now /\ ledger' = ledger
<1> DEFINE a == task[w].snap
<1>p. w \in Procs
  BY DEF Procs
<1>1. /\ task[w].pc = "process" /\ a.pending = None /\ row.pending # None
      /\ row # None /\ row.due = a.due
      /\ row' = row /\ history' = history /\ now' = now /\ ledger' = ledger
  BY DEF AdoptClaim, Executes, At, SameOccurrence
<1>2. task[w] \in Tasks /\ a \in Rows
  BY <1>1, <1>p, TaskType
<1>3. task'[w] = [task[w] EXCEPT !.pc = "lookup", !.snap.pending = row.pending]
  BY <1>p DEF AdoptClaim, Becomes, TypeOK
<1>4. /\ task'[w].pc = "lookup" /\ task'[w].at = task[w].at
      /\ task'[w].snap = [a EXCEPT !.pending = row.pending]
  BY <1>2, <1>3 DEF Tasks
<1>5. SameSchedule(task'[w].snap, a) /\ task'[w].snap.pending = row.pending
  BY <1>2, <1>4 DEF Rows, SameSchedule
<1> QED
  BY <1>1, <1>4, <1>5

(* What a task knows of the schedule, it read in the last poll or request. *)
LEMMA SnapshotFrom ==
    ASSUME TypeOK, StageInv, [Next]_vars, NEW q \in Procs, task'[q].pc # "idle"
    PROVE  \/ ReadsRow(q)
           \/ task[q].pc # "idle" /\ SameSchedule(task'[q].snap, task[q].snap)
<1>1. task'[q] # Idle
  BY IdleType
<1>2. CASE task'[q] = task[q] \/ GoesOn(q)
  BY <1>2 DEF SameSchedule, GoesOn
<1>3. CASE q \in Workers /\ Claim(q)
  BY <1>3, ClaimKeeps, ClaimEffect
<1>4. CASE q \in Workers /\ AdoptClaim(q)
  BY <1>4, AdoptEffect
<1> QED
  BY <1>1, <1>2, <1>3, <1>4, AnyReadStep DEF ReadStep

(* Between two revisions the schedule of a row stays.                      *)
LEMMA RowKeepsSchedule ==
    ASSUME TypeOK, StageInv, RowMove, row' # None
    PROVE  /\ row # None /\ row \in Rows
           /\ SameSchedule(row', row) \/ row'.revision = row.revision + 1
<1>1. CASE RowSame
  BY <1>1 DEF RowSame, SameSchedule, TypeOK
<1>2. CASE RowEdited \/ (\E o \in Occurrences : RowRequeued(o))
  BY <1>2 DEF RowEdited, RowRequeued, TypeOK
<1>3. CASE \E p \in Procs : RowFinished(p)
  BY <1>3 DEF RowFinished, Held, TypeOK
<1>4. CASE \E w \in Workers : Claim(w)
  BY <1>4, ClaimEffect, ClaimKeeps DEF TypeOK
<1> QED
  BY <1>1, <1>2, <1>3, <1>4 DEF RowMove, RowDeleted

-----------------------------------------------------------------------------
(* A retry of a completed occurrence keeps its terms                       *)

LEMMA SeenStep ==
    ASSUME RetryInv, [Next]_vars
    PROVE  SeenScheduleInv'
<1> SUFFICES ASSUME NEW q \in Procs, task'[q].pc # "idle", row' # None,
                    task'[q].snap.revision = row'.revision
             PROVE  /\ task'[q].snap.due = row'.due
                    /\ task'[q].snap.resume = row'.resume
                    /\ task'[q].snap.deadline = row'.deadline
  BY DEF SeenScheduleInv
<1>0. TypeOK /\ StageInv /\ SnapshotInv /\ SeenScheduleInv
  BY DEF RetryInv, ClaimInv
<1>1. /\ row # None /\ row \in Rows
      /\ SameSchedule(row', row) \/ row'.revision = row.revision + 1
  BY <1>0, AnyMove, RowKeepsSchedule
<1>2. CASE ReadsRow(q)
  BY <1>2 DEF ReadsRow
<1>3. CASE task[q].pc # "idle" /\ SameSchedule(task'[q].snap, task[q].snap)
  <2>1. task[q].snap.revision <= row.revision /\ row.revision \in Nat
    BY <1>0, <1>1, <1>3, RowTimes DEF SnapshotInv
  <2>2. SameSchedule(row', row)
    BY <1>1, <1>3, <2>1 DEF SameSchedule
  <2> QED
    BY <1>0, <1>1, <1>3, <2>2 DEF SeenScheduleInv, SameSchedule
<1> QED
  BY <1>0, <1>2, <1>3, SnapshotFrom

LEMMA RetryWindowStep ==
    ASSUME RetryInv, [Next]_vars
    PROVE  RetryWindowInv'
<1> SUFFICES ASSUME row' # None, row'.resume # None
             PROVE  row'.deadline # None /\ row'.deadline <= row'.resume
  BY DEF RetryWindowInv
<1>0. TypeOK /\ StageInv /\ RetryWindowInv /\ RowMove
  BY AnyMove DEF RetryInv, ClaimInv
<1>1. CASE RowSame \/ RowEdited
  BY <1>0, <1>1 DEF RowSame, RowEdited, RetryWindowInv
<1>2. CASE \E o \in Occurrences : RowRequeued(o)
  BY <1>2, NoneIsNoTime DEF RowRequeued
<1>3. CASE \E w \in Workers : Claim(w)
  BY <1>0, <1>3, ClaimEffect, ClaimKeeps DEF SameSchedule, RetryWindowInv
<1>4. ~\E p \in Procs : RowFinished(p)
  BY DEF RowFinished
<1> QED
  BY <1>0, <1>1, <1>2, <1>3, <1>4 DEF RowMove, RowDeleted

LEMMA DueStep ==
    ASSUME RetryInv, [Next]_vars
    PROVE  DueInv'
<1>0. TypeOK /\ StageInv /\ DueInv /\ RowMove /\ TypeOK'
  BY AnyMove, NextType DEF RetryInv, ClaimInv
<1>t. now \in Nat /\ now' \in Nat /\ now <= now'
  BY <1>0, NowGrows
<1>1. ASSUME row' # None
      PROVE  /\ row'.pending # None => row'.due <= now'
             /\ row'.deadline # None => row'.due < row'.deadline
  <2>1. /\ row # None /\ row.due \in Nat
        /\ row.pending # None => row.due <= now
        /\ row.deadline # None => row.due < row.deadline
    BY <1>0, <1>1, RowKeepsSchedule, RowTimes DEF DueInv
  <2>2. CASE RowSame \/ RowEdited
    BY <1>t, <2>1, <2>2 DEF RowSame, RowEdited
  <2>3. CASE \E o \in Occurrences : RowRequeued(o)
    BY <2>3 DEF RowRequeued
  <2>4. CASE \E w \in Workers : Claim(w)
    BY <1>0, <2>1, <2>4, ClaimEffect, ClaimKeeps DEF SameSchedule
  <2>5. CASE \E p \in Procs : RowFinished(p)
    BY <2>5 DEF RowFinished
  <2> QED
    BY <1>0, <1>1, <2>2, <2>3, <2>4, <2>5 DEF RowMove, RowDeleted
<1>2. ASSUME NEW q \in Procs, task'[q].pc # "idle"
      PROVE  LET a == task'[q].snap IN
             /\ a.pending # None \/ task'[q].pc \in {"invoice", "claim", "finish"} =>
                  a.due <= now'
             /\ a.deadline # None => a.due < a.deadline
  <2>1. CASE ReadsRow(q)
    <3>1. row.due \in Nat
      BY <1>0, <2>1, RowTimes DEF ReadsRow, TypeOK
    <3> QED
      BY <1>0, <1>t, <2>1, <3>1 DEF ReadsRow, DueInv
  <2>2. CASE task[q].pc # "idle" /\ SameSchedule(task'[q].snap, task[q].snap)
    <3> DEFINE a == task[q].snap
    <3>1. /\ a.due \in Nat /\ task'[q].snap.due = a.due
          /\ task'[q].snap.deadline = a.deadline
          /\ a.pending # None \/ task[q].pc \in {"invoice", "claim", "finish"} =>
               a.due <= now
          /\ a.deadline # None => a.due < a.deadline
      BY <1>0, <2>2, TaskType, RowTimes DEF SameSchedule, DueInv
    <3>2. CASE task'[q] = task[q]
      BY <1>t, <3>1, <3>2
    <3>3. CASE GoesOn(q)
      BY <1>t, <3>1, <3>3 DEF GoesOn
    <3>4. CASE q \in Workers /\ AdoptClaim(q)
      BY <1>0, <1>t, <3>1, <3>4, AdoptEffect DEF DueInv
    <3>5. CASE q \in Workers /\ Claim(q)
      BY <1>0, <1>t, <3>1, <3>5, ClaimEffect
    <3>6. CASE ReadsRow(q)
      BY <2>1, <3>6
    <3> QED
      BY <1>0, <1>2, <3>2, <3>3, <3>4, <3>5, <3>6, AnyReadStep, IdleType DEF ReadStep
  <2> QED
    BY <1>0, <1>2, <2>1, <2>2, SnapshotFrom
<1> QED
  BY <1>1, <1>2 DEF DueInv

LEMMA BegunStep ==
    ASSUME RetryInv, [Next]_vars
    PROVE  BegunInv'
<1> SUFFICES ASSUME NEW q \in Procs, task'[q].pc # "idle"
             PROVE  /\ task'[q].at <= now'
                    /\ task'[q].pc \in {"invoice", "claim"} =>
                         ~AtOrBefore(task'[q].snap.deadline, task'[q].at)
  BY DEF BegunInv, AtOrBefore
<1>0. TypeOK /\ StageInv /\ SeenScheduleInv /\ BegunInv
  BY DEF RetryInv, ClaimInv
<1>t. now \in Nat /\ now' \in Nat /\ now <= now'
  BY <1>0, NowGrows
<1>1. CASE ReadsRow(q)
  BY <1>t, <1>1 DEF ReadsRow
<1>2. ASSUME task[q].pc # "idle"
      PROVE  task[q].at \in Nat /\ task[q].at <= now /\ task[q].snap \in Rows
  BY <1>0, <1>2, TaskType DEF BegunInv, Tasks
<1>3. CASE task'[q] = task[q]
  BY <1>0, <1>t, <1>2, <1>3 DEF BegunInv
<1>4. CASE GoesOn(q)
  <2>1. /\ task[q].pc # "idle"
        /\ task'[q].snap = task[q].snap /\ task'[q].at = task[q].at
    BY <1>4 DEF GoesOn
  <2>2. CASE task[q].pc \in {"invoice", "claim"}
    BY <1>0, <1>t, <1>2, <2>1, <2>2 DEF BegunInv
  <2>3. CASE StillDue(task[q].snap) /\ ~AtOrBefore(row.deadline, now)
    <3>1. task[q].snap.deadline = row.deadline
      BY <1>0, <2>1, <2>3 DEF StillDue, SameOccurrence, SeenScheduleInv
    <3>2. row.deadline # None => row.deadline \in Nat /\ now < row.deadline
      BY <1>t, <1>2, <2>1, <2>3, <3>1, RowTimes DEF AtOrBefore
    <3> QED
      BY <1>t, <1>2, <2>1, <3>1, <3>2 DEF AtOrBefore
  <2> QED
    BY <1>4, <1>t, <1>2, <2>1, <2>2, <2>3 DEF GoesOn
<1>5. CASE q \in Workers /\ AdoptClaim(q)
  BY <1>0, <1>t, <1>2, <1>5, AdoptEffect
<1>6. CASE q \in Workers /\ Claim(q)
  BY <1>0, <1>t, <1>2, <1>6, ClaimEffect
<1> QED
  BY <1>0, <1>1, <1>3, <1>4, <1>5, <1>6, AnyReadStep, IdleType DEF ReadStep

LEMMA RetryDetailsStep ==
    ASSUME RetryInv, [Next]_vars
    PROVE  RetryKeepsDetails'
<1> SUFFICES ASSUME row' # None, row'.resume # None
             PROVE  /\ history'[row'.due] # None
                    /\ ~history'[row'.due].success
                    /\ history'[row'.due].hash = None
                    /\ history'[row'.due].snapshot = row'.details
                    /\ row'.due < row'.resume
                    /\ row'.pending = None => row'.deadline <= row'.resume
  BY DEF RetryKeepsDetails
<1>0. TypeOK /\ StageInv /\ RetryKeepsDetails /\ RowMove
  BY AnyMove DEF RetryInv, ClaimInv
<1>1. row'.deadline <= row'.resume
  BY RetryWindowStep DEF RetryWindowInv
<1>2. CASE RowSame \/ RowEdited
  BY <1>0, <1>1, <1>2 DEF RowSame, RowEdited, RetryKeepsDetails
<1>3. CASE \E o \in Occurrences : RowRequeued(o)
  BY <1>1, <1>3 DEF RowRequeued
<1>4. CASE \E w \in Workers : Claim(w)
  BY <1>0, <1>1, <1>4, ClaimEffect, ClaimKeeps DEF SameSchedule, RetryKeepsDetails
<1>5. ~\E p \in Procs : RowFinished(p)
  BY DEF RowFinished
<1> QED
  BY <1>0, <1>2, <1>3, <1>4, <1>5 DEF RowMove, RowDeleted

LEMMA OrphanStep ==
    ASSUME RetryInv, [Next]_vars
    PROVE  NoOrphanHistory'
<1> SUFFICES ASSUME row' = None, NEW o \in Occurrences
             PROVE  history'[o] = None
  BY DEF NoOrphanHistory
<1>0. TypeOK /\ StageInv /\ NoOrphanHistory /\ RowMove
  BY AnyMove DEF RetryInv, ClaimInv
<1>1. ~\E w \in Workers : Claim(w)
  BY <1>0, ClaimKeeps
<1> QED
  BY <1>0, <1>1
    DEF RowMove, RowSame, RowDeleted, RowEdited, RowRequeued, RowFinished,
        NoOrphanHistory

LEMMA GaveUpStep ==
    ASSUME RetryInv, [Next]_vars
    PROVE  GaveUpInv'
<1> SUFFICES ASSUME NEW p \in Procs, task'[p].pc = "finish",
                    task'[p].snap.pending = None
             PROVE  ~task'[p].success
  BY DEF GaveUpInv, At
<1>0. TypeOK /\ StageInv /\ ResultInv /\ GaveUpInv
  BY DEF RetryInv, ClaimInv
<1>1. TaskStep(p)
  BY <1>0, AnyTaskStep
<1>2. CASE task'[p] = task[p]
  BY <1>0, <1>2 DEF GaveUpInv, At
<1>3. CASE GivesUp(p)
  BY <1>3 DEF GivesUp
<1> QED
  BY <1>1, <1>2, <1>3, IdleType, ClaimEffect, <1>0, SubmitEffect
    DEF TaskStep, ReadsRow, TurnsToClaim, LearnsResult, Prepares, FetchesInvoice,
        LosesSight

(* What became of a payment stays so.                                      *)
LEMMA SettledStays ==
    ASSUME TypeOK, StageInv, [Next]_vars, NEW h \in Hashes, Mine(h), Terminal(h)
    PROVE  /\ Mine(h)' /\ Terminal(h)' /\ ledger'[h].due = ledger[h].due
           /\ ledger'[h].status = ledger[h].status
<1>1. KeepsRecord(h) /\ ledger[h] # None /\ ledger[h].mine
  BY LedgerStep DEF Mine
<1>2. /\ ledger'[h] # None /\ ledger'[h].mine = ledger[h].mine
      /\ ledger'[h].due = ledger[h].due /\ ledger'[h].status = ledger[h].status
      /\ ledger'[h].status # "pending"
  BY <1>1 DEF KeepsRecord, Terminal
<1>3. ledger'[h].mine
  BY <1>1, <1>2, Zenon
<1> QED
  BY <1>2, <1>3 DEF Mine, Terminal

(* An entry e of the occurrence o agrees with the ledger.                  *)
Truthful(o, e) ==
    e # None =>
        IF e.hash = None THEN ~e.success
        ELSE /\ Mine(e.hash) /\ Terminal(e.hash) /\ ledger[e.hash].due = o
             /\ e.success = (ledger[e.hash].status = "success")

LEMMA TruthStep ==
    ASSUME RetryInv, [Next]_vars
    PROVE  HistoryTruthful'
<1> SUFFICES ASSUME NEW o \in Occurrences
             PROVE  Truthful(o, history[o])'
  BY DEF HistoryTruthful, Truthful
<1>0. /\ TypeOK /\ StageInv /\ ResultInv /\ GaveUpInv /\ HistoryTruthful
      /\ RowMove /\ RowStep
  BY AnyMove, AnyRowStep DEF RetryInv, ClaimInv
<1>h. history \in [Occurrences -> Completions \cup {None}]
  BY <1>0 DEF TypeOK
<1>1. CASE history'[o] = history[o]
  <2>1. Truthful(o, history[o])
    BY <1>0 DEF HistoryTruthful, Truthful
  <2>2. CASE history[o] = None
    BY <1>1, <2>2 DEF Truthful
  <2>3. CASE history[o] # None /\ history[o].hash = None
    BY <1>1, <2>1, <2>3 DEF Truthful
  <2>4. CASE history[o] # None /\ history[o].hash # None
    <3> DEFINE h == history[o].hash
    <3>1. h \in Hashes
      BY <1>h, <2>4 DEF Completions
    <3>2. Mine(h) /\ Terminal(h) /\ ledger[h].due = o
      BY <2>1, <2>4 DEF Truthful
    <3>3. /\ Mine(h)' /\ Terminal(h)' /\ ledger'[h].due = ledger[h].due
          /\ ledger'[h].status = ledger[h].status /\ h' = h
      BY <1>0, <1>1, <3>1, <3>2, SettledStays
    <3> QED
      BY <1>1, <2>1, <2>4, <3>2, <3>3 DEF Truthful
  <2> QED
    BY <2>2, <2>3, <2>4
<1>2. CASE history'[o] # history[o] /\ RowDeleted
  BY <1>2 DEF RowDeleted, Truthful
<1>3. CASE history'[o] # history[o] /\ \E p \in Procs : RowFinished(p)
  <2>1. PICK p \in Procs : RowFinished(p)
    BY <1>3
  <2>2. PICK success \in BOOLEAN :
          /\ success => task[p].pc = "finish" /\ task[p].success
          /\ history' = [history EXCEPT ![row.due] =
                           Completion(history[row.due], task[p].snap, success)]
    BY <2>1 DEF RowFinished
  <2>3. /\ row # None /\ row' # None /\ row'.pending = None
        /\ row.pending = task[p].snap.pending
    BY <2>1 DEF RowFinished, Held
  <2>4. o = row.due
    BY <1>3, <2>2, <1>h
  <2>5. history'[o] = Completion(history[o], task[p].snap, success)
    BY <2>2, <2>4, <1>h
  <2>6. CASE row.pending = None
    <3>1. history'[o].hash = None /\ history'[o].success = success
      BY <2>3, <2>5, <2>6 DEF Completion
    <3>2. ~success
      BY <1>0, <2>2, <2>3, <2>6 DEF GaveUpInv, At
    <3> QED
      BY <3>1, <3>2 DEF Truthful
  <2>7. CASE row.pending # None
    <3>1. PICK h \in Hashes : h = row.pending
      BY <1>0, <2>3, <2>7 DEF TypeOK, Rows
    <3>2. RowReleased
      BY <1>0, <2>3, <2>7, ClaimEffect DEF RowStep, RowRevised
    <3>3. /\ Owns(row, h) /\ ledger[h].status # "pending" /\ ledger' = ledger
          /\ history'[o].hash = h
          /\ history'[o].success = (ledger[h].status = "success")
      BY <2>4, <3>1, <3>2 DEF RowReleased
    <3>4. Mine(h)' /\ Terminal(h)' /\ ledger'[h].due = o /\ h # None
      BY <2>4, <2>7, <3>1, <3>3 DEF Owns, Mine, Terminal
    <3> QED
      BY <3>3, <3>4 DEF Truthful
  <2> QED
    BY <2>6, <2>7
<1> QED
  BY <1>0, <1>1, <1>2, <1>3, ClaimKeeps
    DEF RowMove, RowSame, RowEdited, RowRequeued

LEMMA InitRow ==
    ASSUME Init
    PROVE  row # None /\ row.pending = None /\ row.deadline = None /\ row.resume = None
<1>1. row # None
  <2>1. PICK active \in BOOLEAN, details \in Details, end \in EndDates \cup {None} :
          row = [active |-> active, revision |-> 0, due |-> Start,
                 pending |-> None, retry_count |-> 0, retry_after |-> None,
                 deadline |-> None, resume |-> None, end |-> end,
                 details |-> details]
    BY DEF Init
  <2>2. end \in Times
    BY ClockAssumption DEF Times
  <2>3. row \in Rows
    BY <2>1, <2>2, StartType DEF Rows, Times
  <2> QED
    BY <2>3, RecordAssumption
<1> QED
  BY <1>1 DEF Init

LEMMA InitRetry == Init => RetryInv
<1> SUFFICES ASSUME Init PROVE RetryInv
  OBVIOUS
<1>1. \A p \in Procs : task[p].pc = "idle"
  BY IdleType DEF Init
<1>2. row # None /\ row.pending = None /\ row.deadline = None /\ row.resume = None
  BY InitRow
<1> QED
  <2>1. GaveUpInv
    BY <1>1 DEF GaveUpInv, At
  <2>2. HistoryTruthful
    BY DEF Init, HistoryTruthful
  <2> QED
    BY <1>1, <1>2, <2>1, <2>2, InitClaim
      DEF RetryInv, SeenScheduleInv, RetryWindowInv, DueInv, BegunInv, RetryKeepsDetails,
          NoOrphanHistory

LEMMA RetryStep ==
    ASSUME RetryInv, [Next]_vars
    PROVE  RetryInv'
<1>1. ClaimInv'
  BY ClaimStep DEF RetryInv
<1> QED
  BY <1>1, SeenStep, RetryWindowStep, DueStep, BegunStep, RetryDetailsStep, OrphanStep,
     GaveUpStep, TruthStep
    DEF RetryInv

(* What tasks know of the schedule, windows and claims fit together, with  *)
(* any number of schedulers and requests.                                  *)
THEOREM RetryInvariant == Spec => []RetryInv
  BY InitRetry, RetryStep, PTL DEF Spec

(* While a completed occurrence is retried, the row keeps the details the  *)
(* user confirmed and the failure stays on record (crud.py:175-186,        *)
(* payment_retry.py:62-98).                                                *)
THEOREM RetryAlwaysKeepsDetails == Spec => []RetryKeepsDetails
<1>1. RetryInv => RetryKeepsDetails
  BY DEF RetryInv
<1> QED
  BY <1>1, RetryInvariant, PTL

(* With one scheduler, no task leaves history behind for a deleted         *)
(* allowance (crud.py:227).  One scheduler is one server process: LNbits    *)
(* serialises the connections of a process to the database, which is why   *)
(* Delete is one step.  The statements of several processes interleave, and *)
(* Transactions shows what remains true then.                              *)
THEOREM SingleLeavesNoOrphans ==
    ASSUME SingleScheduler
    PROVE  Spec => []NoOrphanHistory
<1>1. RetryInv => NoOrphanHistory
  BY DEF RetryInv
<1> QED
  BY <1>1, RetryInvariant, PTL

(* What history says of a payment is what LNbits finally says of it, for    *)
(* any number of overlapping schedulers and requests.                      *)
THEOREM HistoryTellsTruth == Spec => []HistoryTruthful
<1>1. RetryInv => HistoryTruthful
  BY DEF RetryInv
<1> QED
  BY <1>1, RetryInvariant, PTL

(* However long a payment is prepared, it was begun by a task that polled   *)
(* the row before its retry window ended (tasks.py:147-153).               *)
THEOREM AlwaysBegunInWindow == Spec => ClaimBegunInWindow
<1>1. ASSUME RetryInv, [Next]_vars
      PROVE  ClaimsInWindow
  <2>1. SUFFICES ASSUME row # None, row.pending = None, row' # None,
                        row'.pending # None
                 PROVE  \E w \in Workers :
                            /\ At(w, "claim") /\ task'[w].pc = "submit"
                            /\ ~AtOrBefore(row.deadline, task[w].at)
    BY DEF ClaimsInWindow
  <2>2. TypeOK /\ StageInv /\ ResultInv /\ SeenScheduleInv /\ BegunInv
    BY <1>1 DEF RetryInv, ClaimInv
  <2>3. RowStep
    BY <1>1, <2>2, AnyRowStep
  <2>4. PICK w \in Workers : Claim(w)
    BY <2>1, <2>3 DEF RowStep, RowRevised, RowReleased
  <2>5. /\ task[w].pc = "claim" /\ task'[w].pc = "submit"
        /\ row.revision = task[w].snap.revision
    BY <2>2, <2>4, ClaimEffect
  <2>6. task[w].snap.deadline = row.deadline
    BY <2>1, <2>2, <2>5 DEF SeenScheduleInv, Procs
  <2>7. ~AtOrBefore(row.deadline, task[w].at)
    BY <2>2, <2>5, <2>6 DEF BegunInv, Procs
  <2> QED
    BY <2>5, <2>7 DEF At
<1> QED
  BY <1>1, RetryInvariant, PTL DEF Spec, ClaimBegunInWindow
=============================================================================
