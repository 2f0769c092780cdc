------------------------ MODULE PaymentPromiseProofs ------------------------
(***************************************************************************)
(* A recurring allowance keeps PaymentPromise: every step of the lifecycle *)
(* is, seen per occurrence, a step of the promise or none.                 *)
(***************************************************************************)
EXTENDS PaymentLifecycleRefinement, PaymentOnceProofs

-----------------------------------------------------------------------------
(* How far the payment of an occurrence got                                *)

SentFor(o) == \E h \in Hashes : Mine(h) /\ ledger[h].due = o

(* An occurrence with a payment is as far as its only payment.             *)
Reported(status) ==
    IF status = "pending" THEN "submitted"
    ELSE IF status = "success" THEN "paid" ELSE "rejected"

SentPhase ==
    SubmittedOnce /\ Recurring =>
        \A h \in Hashes :
            Mine(h) => PhaseOf(ledger[h].due) = Reported(ledger[h].status)

UnsentPhase ==
    \A o \in Occurrences :
        ~SentFor(o) => PhaseOf(o) = IF ClaimedFor(o) THEN "claimed" ELSE "unsent"

LEMMA SentPhaseHolds == SentPhase
<1> SUFFICES ASSUME NEW h \in Hashes, SubmittedOnce, Recurring, Mine(h)
             PROVE  PhaseOf(ledger[h].due) = Reported(ledger[h].status)
  BY DEF SentPhase
<1>1. \A g \in Hashes : Mine(g) /\ ledger[g].due = ledger[h].due <=> g = h
  BY DEF SubmittedOnce
<1>2. StatusesFor(ledger[h].due) = {ledger[h].status}
  BY <1>1 DEF StatusesFor
<1> QED
  BY <1>2 DEF PhaseOf, Reported

LEMMA UnsentPhaseHolds == UnsentPhase
  BY DEF UnsentPhase, PhaseOf, StatusesFor, SentFor

(* While the row exists, the claim is in it.                               *)
RowClaims ==
    StageInv /\ SenderHoldsClaim /\ row # None =>
        \A o \in Occurrences : ClaimedFor(o) <=> row.pending # None /\ row.due = o

LEMMA RowClaimsHolds == RowClaims
  BY DEF RowClaims, StageInv, SenderHoldsClaim, ClaimedFor, At, Procs

(* The same after a step.                                                  *)
LEMMA PhaseNext == SentPhase' /\ UnsentPhase' /\ RowClaims'
  BY SentPhaseHolds, UnsentPhaseHolds, RowClaimsHolds, PTL

LEMMA ReportedType ==
    \A status : Reported(status) \in {"submitted", "paid", "rejected"}
  BY DEF Reported

-----------------------------------------------------------------------------
(* What a step leaves alone                                                *)

LEMMA SamePhase ==
    ASSUME NEW o \in Occurrences, ledger' = ledger,
           SentFor(o) \/ (ClaimedFor(o)' <=> ClaimedFor(o))
    PROVE  PhaseOf(o)' = PhaseOf(o)
<1>1. StatusesFor(o)' = StatusesFor(o)
  BY DEF StatusesFor, Mine
<1>2. SentFor(o) => StatusesFor(o) # {}
  BY DEF SentFor, StatusesFor
<1> QED
  BY <1>1, <1>2 DEF PhaseOf

LEMMA SameSent ==
    ASSUME NEW o \in Occurrences, ledger' = ledger
    PROVE  SentFor(o)' <=> SentFor(o)
BY DEF SentFor, Mine

(* Another payment changes.                                                *)
LEMMA OtherPhase ==
    ASSUME NEW o \in Occurrences, NEW h \in Hashes,
           \A g \in Hashes : g # h => ledger'[g] = ledger[g],
           ~(Mine(h) /\ ledger[h].due = o), ~(Mine(h)' /\ ledger'[h].due = o),
           ClaimedFor(o)' <=> ClaimedFor(o)
    PROVE  PhaseOf(o)' = PhaseOf(o)
<1>1. \A g \in Hashes :
        /\ (Mine(g)' /\ ledger'[g].due = o) <=> (Mine(g) /\ ledger[g].due = o)
        /\ Mine(g) /\ ledger[g].due = o => ledger'[g].status = ledger[g].status
  BY DEF Mine
<1>2. StatusesFor(o)' = StatusesFor(o)
  BY <1>1 DEF StatusesFor
<1> QED
  BY <1>2 DEF PhaseOf

LEMMA Stutters ==
    ASSUME row' = None <=> row = None, history' = history,
           \A o \in Occurrences : PhaseOf(o)' = PhaseOf(o)
    PROVE  UNCHANGED Promise!vars
<1>1. \A o \in Occurrences : ToldOf(o)' = ToldOf(o)
  BY DEF ToldOf
<1> QED
  BY <1>1 DEF Promise!vars

LEMMA MovesTo ==
    ASSUME NEW o \in Occurrences, NEW stage, PhaseOf(o)' = stage,
           \A p \in Occurrences : p # o => PhaseOf(p)' = PhaseOf(p)
    PROVE  Promise!Moves(o, stage)
BY DEF Promise!Moves

LEMMA SameTold ==
    ASSUME history' = history
    PROVE  [o \in Occurrences |-> ToldOf(o)]' = [o \in Occurrences |-> ToldOf(o)]
BY DEF ToldOf

(* Who is about to submit was so before, or has just made the claim.       *)
LEMMA SendersBefore ==
    ASSUME ClaimInv, [Next]_vars, NEW w \in Workers, At(w, "submit")'
    PROVE  task'[w] = task[w] \/ Claim(w)
<1>0. TypeOK /\ StageInv /\ ResultInv /\ w \in Procs /\ task'[w].pc = "submit"
  BY DEF ClaimInv, At, Procs
<1>1. TaskStep(w)
  BY <1>0, AnyTaskStep
<1> QED
  BY <1>0, <1>1, IdleType, SubmitEffect
    DEF TaskStep, ReadsRow, TurnsToClaim, GivesUp, LearnsResult, Prepares,
        FetchesInvoice, LosesSight

-----------------------------------------------------------------------------
(* What the promise asks of an occurrence before it is paid or closed      *)

(* The occurrence in progress has reached LNbits only under the claim.     *)
LEMMA CurrentUnsent ==
    ASSUME ScheduleInv, Recurring, row # None, row.pending = None
    PROVE  ~SentFor(row.due)
<1>1. history[row.due] = None \/ history[row.due].hash = None
  BY NothingSubmittedYet
<1> QED
  BY <1>1, HashIsNotNone DEF ScheduleInv, HistoryInv, SentFor

(* Nothing final was told of it.                                           *)
LEMMA CurrentUntold ==
    ASSUME ScheduleInv, Recurring, row # None
    PROVE  ToldOf(row.due) \in {"nothing", "unsent"}
<1>1. history[row.due] = None \/ history[row.due].hash = None
  BY NothingSubmittedYet
<1>2. row.due \in Occurrences /\ HistoryTruthful
  BY RowTimes DEF ScheduleInv, RetryInv, ClaimInv, TypeOK
<1> QED
  BY <1>1, <1>2 DEF ToldOf, HistoryTruthful

(* Without a claim, no payment is under way.                               *)
LEMMA NothingUnderWay ==
    ASSUME ScheduleInv, Recurring, row # None, row.pending = None,
           NEW o \in Occurrences
    PROVE  PhaseOf(o) \notin {"claimed", "submitted"}
<1>0. /\ StageInv /\ SenderHoldsClaim /\ HistoryInv /\ HistoryTruthful
      /\ SubmittedOnce
  BY DEF ScheduleInv, RetryInv, ClaimInv
<1>1. ~ClaimedFor(o)
  BY <1>0, RowClaimsHolds DEF RowClaims
<1>2. CASE ~SentFor(o)
  BY <1>1, <1>2, UnsentPhaseHolds DEF UnsentPhase
<1>3. CASE SentFor(o)
  <2>1. PICK h \in Hashes : Mine(h) /\ ledger[h].due = o
    BY <1>3 DEF SentFor
  <2>2. h # None /\ history[o] # None /\ history[o].hash = h
    BY <1>0, <2>1, HashIsNotNone DEF HistoryInv
  <2>3. ledger[h].status # "pending"
    BY <1>0, <2>2 DEF HistoryTruthful, Terminal
  <2>4. PhaseOf(o) = Reported(ledger[h].status)
    BY <1>0, <2>1, SentPhaseHolds DEF SentPhase
  <2> QED
    BY <2>3, <2>4 DEF Reported
<1> QED
  BY <1>2, <1>3

-----------------------------------------------------------------------------
(* Steps of the payment                                                    *)

(* What the invariant says of the two states of a step.                    *)
LEMMA Facts ==
    ASSUME ScheduleInv
    PROVE  /\ TypeOK /\ StageInv /\ ResultInv /\ SenderHoldsClaim /\ ClaimInv
           /\ RetryInv /\ HistoryInv /\ HistoryTruthful /\ SenderInv
           /\ SubmittedOnce /\ NoOrphanHistory
           /\ row # None => row \in Rows /\ row.due \in Occurrences
BY RowTimes DEF ScheduleInv, RetryInv, ClaimInv, TypeOK

LEMMA FactsNext ==
    ASSUME ScheduleInv'
    PROVE  /\ StageInv' /\ SenderHoldsClaim' /\ SubmittedOnce' /\ NoOrphanHistory'
           /\ SenderInv' /\ TypeOK'
BY DEF ScheduleInv, RetryInv, ClaimInv

LEMMA PromiseClaim ==
    ASSUME ScheduleInv, ScheduleInv', Recurring, NEW w \in Workers, Claim(w)
    PROVE  \E o \in Occurrences : Promise!Claim(o)
<1>1. PICK o \in Occurrences : o = row.due /\ row # None
  BY Facts, ClaimEffect
<1>2. /\ row.pending = None /\ ledger' = ledger /\ history' = history
      /\ row' # None /\ row'.pending # None /\ row'.due = o
  BY <1>1, Facts, ClaimEffect, ClaimKeeps
<1>3. \A p \in Occurrences : ~ClaimedFor(p)
  BY <1>1, <1>2, Facts, RowClaimsHolds DEF RowClaims
<1>4. \A p \in Occurrences : ClaimedFor(p)' <=> p = o
  BY <1>2, FactsNext, PhaseNext DEF RowClaims
<1>5. ~SentFor(o) /\ ~SentFor(o)'
  BY <1>1, <1>2, CurrentUnsent, SameSent
<1>6. PhaseOf(o) = "unsent" /\ PhaseOf(o)' = "claimed"
  BY <1>3, <1>4, <1>5, UnsentPhaseHolds, PhaseNext DEF UnsentPhase
<1>7. \A p \in Occurrences : p # o => PhaseOf(p)' = PhaseOf(p)
  BY <1>2, <1>3, <1>4, SamePhase
<1>8. Promise!Moves(o, "claimed")
  BY <1>6, <1>7, MovesTo
<1>9. \A p \in Occurrences : PhaseOf(p) \notin {"claimed", "submitted"}
  BY <1>1, <1>2, NothingUnderWay
<1>10. ToldOf(o) \in {"nothing", "unsent"}
  BY <1>1, CurrentUntold
<1> QED
  BY <1>1, <1>2, <1>6, <1>8, <1>9, <1>10, SameTold DEF Promise!Claim

LEMMA PromiseSubmit ==
    ASSUME ScheduleInv, ScheduleInv', Recurring, NEW w \in Workers, Submit(w)
    PROVE  \E o \in Occurrences : Promise!Submit(o)
<1>p. w \in Procs /\ Workers \subseteq Procs
  BY DEF Procs
<1>1. /\ task[w].pc = "submit" /\ task'[w].pc = "await" /\ row' = row
      /\ task'[w].snap = task[w].snap /\ task'[w].hash = task[w].hash
      /\ task[w].hash \in Hashes /\ Owns(task[w].snap, task[w].hash)'
  BY Facts, SubmitEffect
<1>2. PICK o \in Occurrences : o = task[w].snap.due
  BY <1>1, <1>p, Facts, TaskType, RowTimes
<1>3. PICK h \in Hashes : h = task[w].hash
  BY <1>1
<1>4. /\ ledger[h] = None /\ history' = history
      /\ ledger' = [ledger EXCEPT ![h] =
                      [mine |-> TRUE, due |-> task[w].snap.due,
                       details |-> task[w].snap.details, status |-> "pending"]]
  BY <1>3 DEF Submit
<1>5. ledger'[h].status = "pending" /\ ledger'[h].due = o
  BY <1>2, <1>4, Facts DEF TypeOK
<1>6. Mine(h)'
  <2>1. /\ ledger'[task[w].hash] # None /\ ledger'[task[w].hash].mine
    BY <1>1, Zenon DEF Owns
  <2> QED
    BY <1>3, <2>1 DEF Mine
<1>7. ~SentFor(o)
  BY <1>1, <1>2, Facts DEF SenderInv, SentFor, At
<1>8. PhaseOf(o) = "claimed"
  <2>1. ClaimedFor(o)
    BY <1>1, <1>2 DEF ClaimedFor, At
  <2> QED
    BY <1>7, <2>1, UnsentPhaseHolds DEF UnsentPhase
<1>9. PhaseOf(o)' = "submitted"
  <2>1. (\A g \in Hashes : Mine(g) => PhaseOf(ledger[g].due) = Reported(ledger[g].status))'
    BY FactsNext, PhaseNext DEF SentPhase, Recurring
  <2> QED
    BY <1>5, <1>6, <2>1 DEF Reported
<1>10. ASSUME NEW p \in Occurrences, p # o
       PROVE  PhaseOf(p)' = PhaseOf(p)
  <2>1. \A v \in Workers : v # w => task'[v] = task[v]
    BY <1>p, Facts, OtherTasks DEF WorkerStep, Execute
  <2>2. ClaimedFor(p)' <=> ClaimedFor(p)
    BY <1>1, <1>2, <1>10, <2>1 DEF ClaimedFor, At
  <2>3. \A g \in Hashes : g # h => ledger'[g] = ledger[g]
    BY <1>4, Facts DEF TypeOK
  <2>4. ~Mine(h)
    BY <1>4 DEF Mine
  <2> QED
    BY <1>5, <1>10, <2>2, <2>3, <2>4, OtherPhase
<1>11. Promise!Moves(o, "submitted")
  BY <1>9, <1>10, MovesTo
<1> QED
  BY <1>1, <1>4, <1>8, <1>11, SameTold DEF Promise!Submit

(* A payment of somebody else, or of this allowance, settles.              *)
LEMMA PromiseSettle ==
    ASSUME ScheduleInv, ScheduleInv', Recurring, NEW h \in Hashes, Settle(h)
    PROVE  (\E o \in Occurrences : Promise!Settle(o)) \/ UNCHANGED Promise!vars
<1>1. /\ row' = row /\ history' = history /\ task' = task
      /\ ledger[h] # None /\ ledger[h].status = "pending"
  BY DEF Settle
<1>2. PICK status \in {"success", "failed"} :
        ledger' = [ledger EXCEPT ![h].status = status]
  BY DEF Settle
<1>3. ledger[h] \in Payments /\ \A g \in Hashes : g # h => ledger'[g] = ledger[g]
  BY <1>1, <1>2, Facts DEF TypeOK
<1>4. ledger'[h] = [ledger[h] EXCEPT !.status = status]
  BY <1>2, Facts DEF TypeOK
<1>5. /\ ledger'[h].status = status /\ ledger'[h].due = ledger[h].due
      /\ ledger'[h].mine = ledger[h].mine
  BY <1>3, <1>4 DEF Payments
<1>6. ledger'[h] # None
  <2>1. ledger'[h] \in Payments
    BY <1>3, <1>4 DEF Payments
  <2> QED
    BY <2>1, RecordAssumption
<1>7. Mine(h)' <=> Mine(h)
  BY <1>1, <1>5, <1>6, Zenon DEF Mine
<1>8. \A p \in Occurrences : ClaimedFor(p)' <=> ClaimedFor(p)
  BY <1>1 DEF ClaimedFor, At
<1>9. ASSUME NEW p \in Occurrences, ~(Mine(h) /\ p = ledger[h].due)
      PROVE  PhaseOf(p)' = PhaseOf(p)
  BY <1>3, <1>5, <1>7, <1>8, <1>9, OtherPhase
<1>10. CASE Mine(h) /\ ledger[h].due \in Occurrences
  <2>1. PICK o \in Occurrences : o = ledger[h].due
    BY <1>10
  <2>2. PhaseOf(o) = "submitted"
    BY <1>1, <1>10, <2>1, Facts, SentPhaseHolds DEF SentPhase, Reported
  <2>3. PhaseOf(o)' \in {"paid", "rejected"}
    <3>1. (\A g \in Hashes : Mine(g) => PhaseOf(ledger[g].due) = Reported(ledger[g].status))'
      BY FactsNext, PhaseNext DEF SentPhase, Recurring
    <3>2. PhaseOf(o)' = Reported(status)
      BY <1>5, <1>7, <1>10, <2>1, <3>1
    <3> QED
      BY <3>2 DEF Reported
  <2>4. PICK result \in {"paid", "rejected"} : PhaseOf(o)' = result
    BY <2>3
  <2>5. Promise!Moves(o, result)
    BY <1>9, <2>1, <2>4, MovesTo
  <2> QED
    BY <1>1, <2>2, <2>5, SameTold DEF Promise!Settle
<1>11. CASE ~(Mine(h) /\ ledger[h].due \in Occurrences)
  BY <1>1, <1>9, <1>11, Stutters
<1> QED
  BY <1>10, <1>11

LEMMA OtherPayment ==
    ASSUME ScheduleInv, NEW h \in Hashes, OtherPays(h)
    PROVE  UNCHANGED Promise!vars
<1>1. /\ row' = row /\ history' = history /\ task' = task /\ ledger[h] = None
      /\ ledger' = [ledger EXCEPT ![h] =
           [mine |-> FALSE, due |-> None, details |-> None, status |-> "pending"]]
  BY DEF OtherPays
<1>2. /\ ~ledger'[h].mine
      /\ \A g \in Hashes : g # h => ledger'[g] = ledger[g]
  <2>1. ledger'[h] = [mine |-> FALSE, due |-> None, details |-> None,
                      status |-> "pending"]
    BY <1>1, Facts DEF TypeOK
  <2> QED
    BY <1>1, <2>1, Facts DEF TypeOK
<1>3. \A p \in Occurrences : ClaimedFor(p)' <=> ClaimedFor(p)
  BY <1>1 DEF ClaimedFor, At
<1>4. ~Mine(h) /\ ~Mine(h)'
  BY <1>1, <1>2 DEF Mine
<1>5. \A p \in Occurrences : PhaseOf(p)' = PhaseOf(p)
  BY <1>2, <1>3, <1>4, OtherPhase
<1> QED
  BY <1>1, <1>5, Stutters

-----------------------------------------------------------------------------
(* Steps of the row and its history                                        *)

(* The owner is told how far the payment got, which stays as it is.        *)
Closes(o) ==
    /\ PhaseOf(o) \in {"unsent", "paid", "rejected"} /\ ToldOf(o)' = PhaseOf(o)
    /\ \A p \in Occurrences : PhaseOf(p)' = PhaseOf(p)

LEMMA PromiseClose ==
    ASSUME ScheduleInv, ScheduleInv', Recurring, [Next]_vars, ledger' = ledger,
           NEW t \in Procs, RowFinished(t)
    PROVE  \E o \in Occurrences : Promise!Close(o)
<1> DEFINE a == task[t].snap
<1>1. /\ row # None /\ row' # None /\ row'.pending = None
      /\ row.pending = a.pending /\ row.due = a.due /\ a \in Rows
  BY Facts, TaskType DEF RowFinished, Held
<1>2. PICK o \in Occurrences : o = row.due
  BY <1>1, Facts
<1>3. PICK success \in BOOLEAN :
        /\ success => task[t].pc = "finish" /\ task[t].success
        /\ history' = [history EXCEPT ![o] = Completion(history[o], a, success)]
  BY <1>2 DEF RowFinished
<1>h. history \in [Occurrences -> Completions \cup {None}]
  BY Facts DEF TypeOK
<1>4. /\ history'[o] = Completion(history[o], a, success)
      /\ \A p \in Occurrences : p # o => history'[p] = history[p]
  BY <1>3, <1>h
<1>5. history'[o] # None
  BY <1>1, <1>4, <1>h, CompletionIsNotNone
<1>6. ~ClaimedFor(o)'
  BY <1>1, FactsNext, PhaseNext DEF RowClaims
<1>7. \A p \in Occurrences : ClaimedFor(p) <=> row.pending # None /\ p = o
  BY <1>1, <1>2, Facts, RowClaimsHolds DEF RowClaims
<1>8. ASSUME row.pending = None
      PROVE  Closes(o)
  <2>1. ~SentFor(o)
    BY <1>1, <1>2, <1>8, CurrentUnsent
  <2>2. PhaseOf(o) = "unsent"
    BY <1>7, <1>8, <2>1, UnsentPhaseHolds DEF UnsentPhase
  <2>3. ~success
    BY <1>1, <1>3, <1>8, Facts DEF RetryInv, GaveUpInv, At
  <2>4. ToldOf(o)' = "unsent"
    BY <1>1, <1>4, <1>5, <1>8, <2>3 DEF ToldOf, Completion
  <2>5. \A p \in Occurrences : ~ClaimedFor(p)'
    BY <1>1, FactsNext, PhaseNext DEF RowClaims
  <2>6. \A p \in Occurrences : PhaseOf(p)' = PhaseOf(p)
    BY <1>7, <1>8, <2>5, SamePhase
  <2> QED
    BY <2>2, <2>4, <2>6 DEF Closes
<1>9. ASSUME row.pending # None
      PROVE  Closes(o)
  <2>1. RowReleased
    BY <1>1, <1>9, Facts, AnyRowStep, ClaimEffect DEF RowStep, RowRevised
  <2>2. PICK h \in Hashes : h = row.pending
    BY <1>1, <1>9, Facts DEF Rows
  <2>3. /\ Mine(h) /\ ledger[h].due = o /\ ledger[h].status # "pending" /\ h # None
        /\ history'[o].hash = h
        /\ history'[o].success = (ledger[h].status = "success")
    BY <1>2, <1>9, <2>1, <2>2 DEF RowReleased, Owns, Mine
  <2>4. SentFor(o)
    BY <2>3 DEF SentFor
  <2>5. PhaseOf(o) = IF ledger[h].status = "success" THEN "paid" ELSE "rejected"
    BY <2>3, Facts, SentPhaseHolds DEF SentPhase, Reported
  <2>6. ToldOf(o)' = PhaseOf(o)
    BY <1>5, <2>3, <2>5 DEF ToldOf
  <2>7. \A p \in Occurrences : PhaseOf(p)' = PhaseOf(p)
    <3>1. \A p \in Occurrences : p # o => ~ClaimedFor(p) /\ ~ClaimedFor(p)'
      BY <1>1, <1>7, FactsNext, PhaseNext DEF RowClaims
    <3> QED
      BY <2>4, <3>1, SamePhase
  <2> QED
    BY <2>5, <2>6, <2>7 DEF Closes
<1>10. /\ PhaseOf(o) \in {"unsent", "paid", "rejected"} /\ ToldOf(o)' = PhaseOf(o)
       /\ \A p \in Occurrences : PhaseOf(p)' = PhaseOf(p)
  BY <1>8, <1>9 DEF Closes
<1>11. \A p \in Occurrences : p # o => ToldOf(p)' = ToldOf(p)
  BY <1>4 DEF ToldOf
<1>12. ToldOf(o) \in {"nothing", "unsent"}
  BY <1>1, <1>2, CurrentUntold
<1>13. [p \in Occurrences |-> ToldOf(p)]' =
         [[p \in Occurrences |-> ToldOf(p)] EXCEPT ![o] = PhaseOf(o)]
  BY <1>10, <1>11
<1> QED
  BY <1>1, <1>10, <1>12, <1>13 DEF Promise!Close

(* The row goes; a claim stays only in the hands of its sender.            *)
LEMMA PromiseDelete ==
    ASSUME ScheduleInv, ScheduleInv', Recurring, [Next]_vars, ledger' = ledger,
           row # None, row' = None
    PROVE  Promise!Delete
<1>1. PICK o \in Occurrences : o = row.due
  BY Facts
<1>2. \A p \in Occurrences : ClaimedFor(p) <=> row.pending # None /\ p = o
  BY <1>1, Facts, RowClaimsHolds DEF RowClaims
<1>3. ASSUME NEW p \in Occurrences, ClaimedFor(p)'
      PROVE  ClaimedFor(p)
  <2>1. PICK w \in Workers : At(w, "submit")' /\ task'[w].snap.due = p
    BY <1>3 DEF ClaimedFor
  <2>2. task'[w] = task[w]
    BY <2>1, Facts, SendersBefore, ClaimKeeps
  <2> QED
    BY <2>1, <2>2 DEF ClaimedFor, At
<1>4. \A p \in Occurrences : p # o => PhaseOf(p)' = PhaseOf(p)
  BY <1>2, <1>3, SamePhase
<1>5. \A p \in Occurrences : ToldOf(p)' = "nothing"
  BY FactsNext DEF NoOrphanHistory, ToldOf
<1>6. [p \in Occurrences |-> ToldOf(p)]' = [p \in Occurrences |-> "nothing"]
  BY <1>5
<1>7. CASE PhaseOf(o)' = PhaseOf(o)
  BY <1>4, <1>6, <1>7 DEF Promise!Delete
<1>8. CASE PhaseOf(o)' # PhaseOf(o)
  <2>1. ~SentFor(o) /\ ClaimedFor(o) /\ ~ClaimedFor(o)' /\ ~SentFor(o)'
    BY <1>3, <1>8, SamePhase, SameSent
  <2>2. PhaseOf(o) = "claimed" /\ PhaseOf(o)' = "unsent"
    BY <2>1, UnsentPhaseHolds, PhaseNext DEF UnsentPhase
  <2>3. Promise!Moves(o, "unsent")
    BY <1>4, <2>2, MovesTo
  <2> QED
    BY <1>6, <2>2, <2>3 DEF Promise!Delete
<1> QED
  BY <1>7, <1>8

(* Without a row, only its last sender may still change anything.          *)
LEMMA PromiseAbandon ==
    ASSUME ScheduleInv, ScheduleInv', Recurring, [Next]_vars, ledger' = ledger,
           row = None, row' = None
    PROVE  (\E o \in Occurrences : Promise!Abandon(o)) \/ UNCHANGED Promise!vars
<1>1. history' = history
  BY Facts, FactsNext DEF NoOrphanHistory, TypeOK
<1>2. \A p \in Occurrences :
        /\ ClaimedFor(p) <=> \E w \in Workers : At(w, "submit") /\ task[w].snap.due = p
        /\ ClaimedFor(p)' <=>
             \E w \in Workers : At(w, "submit")' /\ task'[w].snap.due = p
  BY DEF ClaimedFor
<1>3. ASSUME NEW p \in Occurrences, ClaimedFor(p)'
      PROVE  ClaimedFor(p)
  <2>1. PICK w \in Workers : At(w, "submit")' /\ task'[w].snap.due = p
    BY <1>2, <1>3
  <2>2. task'[w] = task[w]
    BY <2>1, Facts, SendersBefore, ClaimEffect
  <2> QED
    BY <1>2, <2>1, <2>2 DEF At
<1>4. CASE \A p \in Occurrences : PhaseOf(p)' = PhaseOf(p)
  BY <1>1, <1>4, Stutters
<1>5. CASE \E o \in Occurrences : PhaseOf(o)' # PhaseOf(o)
  <2>1. PICK o \in Occurrences : PhaseOf(o)' # PhaseOf(o)
    BY <1>5
  <2>2. ~SentFor(o) /\ ClaimedFor(o) /\ ~ClaimedFor(o)' /\ ~SentFor(o)'
    BY <1>3, <2>1, SamePhase, SameSent
  <2>3. PhaseOf(o) = "claimed" /\ PhaseOf(o)' = "unsent"
    BY <2>2, UnsentPhaseHolds, PhaseNext DEF UnsentPhase
  <2>4. \A p \in Occurrences : p # o => ~ClaimedFor(p) /\ ~ClaimedFor(p)'
    BY <1>2, <1>3, <2>2, Facts DEF SenderInv
  <2>5. Promise!Moves(o, "unsent")
    BY <2>3, <2>4, SamePhase, MovesTo
  <2> QED
    BY <1>1, <2>3, <2>5, SameTold DEF Promise!Abandon
<1> QED
  BY <1>4, <1>5

(* Edits, deferrals and requests for a retry are not the promise's affair. *)
LEMMA PromiseUnaffected ==
    ASSUME ScheduleInv, ScheduleInv', ledger' = ledger, row # None, row' # None,
           RowSame \/ RowEdited \/ \E o \in Occurrences : RowRequeued(o)
    PROVE  UNCHANGED Promise!vars
<1>1. /\ history' = history
      /\ \/ row.pending = None /\ row'.pending = None
         \/ row'.pending = row.pending /\ row'.due = row.due
  BY DEF RowSame, RowEdited, RowRequeued
<1>2. \A o \in Occurrences : ClaimedFor(o)' <=> ClaimedFor(o)
  BY <1>1, Facts, FactsNext, RowClaimsHolds, PhaseNext DEF RowClaims
<1>3. \A o \in Occurrences : PhaseOf(o)' = PhaseOf(o)
  BY <1>2, SamePhase
<1> QED
  BY <1>1, <1>3, Stutters

-----------------------------------------------------------------------------
(* The refinement                                                          *)

LEMMA PromiseStep ==
    ASSUME ScheduleInv, ScheduleInv', Recurring, [Next]_vars
    PROVE  [Promise!Next]_(Promise!vars)
<1>1. CASE \E w \in Workers : Submit(w)
  BY <1>1, PromiseSubmit DEF Promise!Next
<1>2. CASE \E h \in Hashes : Settle(h) \/ OtherPays(h)
  BY <1>2, PromiseSettle, OtherPayment DEF Promise!Next
<1>3. CASE ledger' = ledger
  <2>1. RowMove
    BY Facts, AnyMove
  <2>2. CASE row = None
    <3>1. row' = None
      BY <2>1, <2>2, ClaimEffect, Facts
        DEF RowMove, RowSame, RowDeleted, RowEdited, RowRequeued, RowFinished, Held
    <3> QED
      BY <1>3, <2>2, <3>1, PromiseAbandon DEF Promise!Next
  <2>3. CASE row # None /\ row' = None
    BY <1>3, <2>3, PromiseDelete DEF Promise!Next
  <2>4. CASE row # None /\ row' # None
    <3>1. CASE RowSame \/ RowEdited \/ \E o \in Occurrences : RowRequeued(o)
      BY <1>3, <2>4, <3>1, PromiseUnaffected
    <3>2. CASE \E w \in Workers : Claim(w)
      BY <3>2, PromiseClaim DEF Promise!Next
    <3>3. CASE \E t \in Procs : RowFinished(t)
      BY <1>3, <3>3, PromiseClose DEF Promise!Next
    <3> QED
      BY <2>1, <2>4, <3>1, <3>2, <3>3 DEF RowMove, RowDeleted
  <2> QED
    BY <2>2, <2>3, <2>4
<1> QED
  BY <1>1, <1>2, <1>3, LedgerMoves

LEMMA PromiseInit ==
    ASSUME Init
    PROVE  Promise!Init
<1>1. ScheduleInv /\ row # None /\ row.pending = None
  BY InitSchedule, InitRow DEF Init
<1>2. \A o \in Occurrences : ~SentFor(o) /\ history[o] = None
  BY DEF Init, SentFor, Mine
<1>3. \A o \in Occurrences : ~ClaimedFor(o)
  BY <1>1, Facts, RowClaimsHolds DEF RowClaims
<1>4. \A o \in Occurrences : PhaseOf(o) = "unsent" /\ ToldOf(o) = "nothing"
  BY <1>2, <1>3, UnsentPhaseHolds DEF UnsentPhase, ToldOf
<1> QED
  BY <1>1, <1>4 DEF Promise!Init

(* A recurring allowance whose adoptions are timely keeps the promise: per  *)
(* occurrence it is claimed, submitted and settled once, one at a time, and *)
(* the owner is told the truth.                                            *)
THEOREM TimelyKeepsPromise ==
    ASSUME Recurring
    PROVE  TimelySpec => KeepsPromise
<1>1. Init => Promise!Init
  BY PromiseInit
<1>2. ScheduleInv /\ ScheduleInv' /\ [Next /\ TimelyAdoption]_vars
        => [Promise!Next]_(Promise!vars)
  BY PromiseStep
<1> QED
  BY <1>1, <1>2, ScheduleInvariant, PTL DEF TimelySpec, KeepsPromise, Promise!Spec

(* With one scheduler, the implementation of the promise by the code as it  *)
(* is (tasks.py, crud.py:361-466, payment_retry.py).                       *)
THEOREM SingleKeepsPromise ==
    ASSUME SingleScheduler, Recurring
    PROVE  Spec => KeepsPromise
  BY SingleIsTimely, TimelyKeepsPromise, PTL
=============================================================================
