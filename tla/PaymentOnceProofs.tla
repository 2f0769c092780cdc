------------------------- MODULE PaymentOnceProofs -------------------------
(***************************************************************************)
(* Proofs, for any number of requests, invoices and due times, that the    *)
(* regular schedule never moves back and that a recurring occurrence       *)
(* reaches LNbits once: of every behaviour in which adoptions are timely,  *)
(* and so of every behaviour with one scheduler.                           *)
(***************************************************************************)
EXTENDS PaymentScheduleProofs

-----------------------------------------------------------------------------
(* Payments of this allowance                                              *)

LEMMA HashIsNotNone == \A h \in Hashes : h # None
  BY NoneAssumption

(* A history entry is not NULL.                                            *)
LEMMA CompletionIsNotNone ==
    ASSUME NEW old \in Completions \cup {None}, NEW a \in Rows,
           NEW success \in BOOLEAN
    PROVE  Completion(old, a, success) # None
<1>1. a.pending \in Hashes \cup {None} /\ a.details \in Details
  BY DEF Rows
<1>2. old # None => old.snapshot \in Details
  BY DEF Completions
<1>3. Completion(old, a, success) \in Completions
  BY <1>1, <1>2 DEF Completion, Completions
<1> QED
  BY <1>3, RecordAssumption

LEMMA MineStays ==
    ASSUME TypeOK, StageInv, [Next]_vars, NEW h \in Hashes, Mine(h)
    PROVE  Mine(h)' /\ ledger'[h].due = ledger[h].due
<1>1. KeepsRecord(h) /\ ledger[h] # None /\ ledger[h].mine
  BY LedgerStep DEF Mine
<1>2. /\ ledger'[h] # None /\ ledger'[h].mine = ledger[h].mine
      /\ ledger'[h].due = ledger[h].due
  BY <1>1 DEF KeepsRecord
<1>3. ledger'[h].mine
  BY <1>1, <1>2, Zenon
<1> QED
  BY <1>2, <1>3 DEF Mine

(* The sender v makes the record of h.                                     *)
Sends(v, h) ==
    /\ Submit(v) /\ task[v].pc = "submit" /\ task'[v].pc = "await"
    /\ task[v].hash = h /\ ledger'[h].due = task[v].snap.due
    /\ task[v].snap.due \in Occurrences
    /\ row' = row /\ history' = history
    /\ row # None => row.pending = h /\ row.due = task[v].snap.due

(* A payment is an old one, or it is just sent by the holder of the claim. *)
LEMMA MineBefore ==
    ASSUME ClaimInv, [Next]_vars, NEW h \in Hashes, Mine(h)'
    PROVE  \/ Mine(h) /\ ledger'[h].due = ledger[h].due
           \/ \E v \in Workers : Sends(v, h)
<1>0. TypeOK /\ StageInv /\ SenderHoldsClaim
  BY DEF ClaimInv
<1>1. KeepsRecord(h) /\ Records(h) /\ ledger'[h] # None /\ ledger'[h].mine
  BY <1>0, LedgerStep DEF Mine
<1>2. CASE ledger[h] # None
  <2>1. ledger'[h].mine = ledger[h].mine /\ ledger'[h].due = ledger[h].due
    BY <1>1, <1>2 DEF KeepsRecord
  <2>2. ledger[h].mine
    BY <1>1, <2>1, Zenon
  <2> QED
    BY <1>2, <2>1, <2>2 DEF Mine
<1>3. CASE ledger[h] = None
  <2>1. PICK v \in Workers : Submit(v) /\ task[v].hash = h
    BY <1>1, <1>3 DEF Records
  <2>2. /\ task[v].pc = "submit" /\ task'[v].pc = "await" /\ row' = row
        /\ task'[v].snap = task[v].snap /\ task'[v].hash = h
        /\ Owns(task[v].snap, task[v].hash)'
    BY <1>0, <2>1, SubmitEffect
  <2>3. ledger'[h].due = task[v].snap.due
    BY <2>2, <2>1, Zenon DEF Owns
  <2>4. history' = history
    BY <2>1 DEF Submit
  <2>5. row # None => row.pending = h /\ row.due = task[v].snap.due
    BY <1>0, <2>1, <2>2 DEF SenderHoldsClaim, At
  <2>6. task[v].snap.due \in Occurrences
    BY <1>0, <2>2, TaskType, RowTimes DEF Procs
  <2> QED
    BY <2>1, <2>2, <2>3, <2>4, <2>5, <2>6 DEF Sends
<1> QED
  BY <1>2, <1>3

(* A claim is given up for a payment that is in the ledger.                *)
LEMMA ReleasedIsMine ==
    ASSUME ClaimInv, [Next]_vars, row # None, row.pending # None,
           row' # None, row'.pending = None
    PROVE  Mine(row.pending)
<1>0. TypeOK /\ StageInv /\ ResultInv
  BY DEF ClaimInv
<1>1. RowReleased
  BY <1>0, AnyRowStep, ClaimEffect DEF RowStep, RowRevised
<1> QED
  BY <1>1 DEF RowReleased, Owns, Mine

-----------------------------------------------------------------------------
(* The regular schedule moves ahead                                        *)

(* The occurrence in progress has no payment in its history.               *)
LEMMA NothingSubmittedYet ==
    ASSUME ScheduleInv, Recurring, row # None
    PROVE  history[row.due] = None \/ history[row.due].hash = None
<1>0. RetryKeepsDetails /\ HistoryInv /\ row \in Rows
  BY DEF ScheduleInv, RetryInv, ClaimInv, TypeOK
<1>1. CASE row.resume = None
  BY <1>0, <1>1, RowTimes DEF HistoryInv, Regular
<1>2. CASE row.resume # None
  BY <1>0, <1>2 DEF RetryKeepsDetails
<1> QED
  BY <1>1, <1>2

(* Who holds an attempt knows whether it is a retry.                       *)
LEMMA HolderKnowsAttempt ==
    ASSUME ScheduleInv, NEW p \in Procs, task[p].pc # "idle", Held(task[p].snap)
    PROVE  task[p].snap.resume = row.resume
<1>0. SeenScheduleInv /\ KnownClaimInv
  BY DEF ScheduleInv, RetryInv
<1>1. CASE task[p].snap.pending = None
  BY <1>0, <1>1 DEF Held, SeenScheduleInv
<1>2. CASE task[p].snap.pending # None
  BY <1>0, <1>2 DEF Held, KnownClaimInv
<1> QED
  BY <1>1, <1>2

(* A finished attempt leads to a later date of the regular schedule.       *)
LEMMA MovesAhead ==
    ASSUME ScheduleInv, Recurring, NEW p \in Procs, RowFinished(p)
    PROVE  /\ row # None /\ row'.due \in Occurrences
           /\ Regular(row) <= row'.due /\ row.due < row'.due
<1> DEFINE a == task[p].snap
<1>0. TypeOK /\ SeenScheduleInv /\ DueInv /\ RetryKeepsDetails
  BY DEF ScheduleInv, RetryInv, ClaimInv
<1>1. /\ task[p].pc # "idle" /\ Held(a)
      /\ task[p].pc = "finish" \/ a.resume # None
  BY DEF RowFinished
<1>2. row # None /\ row \in Rows /\ row.due = a.due /\ a.resume = row.resume
  BY <1>0, <1>1, HolderKnowsAttempt DEF Held, TypeOK
<1>3. PICK next \in Occurrences \cup {None} :
        Ahead(a, next) /\ row'.due = IF next = None THEN row.due ELSE next
  BY DEF RowFinished
<1>4. now \in Nat /\ row.due \in Nat /\ a \in Rows
  BY <1>0, <1>1, <1>2, TaskType, NowType, RowTimes
<1>5. NextOccurrence(now) \in Occurrences /\ now < NextOccurrence(now)
  BY <1>0, NextExists
<1>6. CASE a.resume # None
  <2>1. row.due < row.resume /\ row.resume \in Occurrences /\ row.resume \in Nat
    BY <1>0, <1>2, <1>6, RowTimes DEF RetryKeepsDetails
  <2>2. next = IF now < row.resume THEN row.resume ELSE NextOccurrence(now)
    BY <1>2, <1>3, <1>6 DEF Ahead
  <2>3. NextOccurrence(now) \in Nat
    BY <1>5, ClockAssumption
  <2>4. next \in Occurrences /\ row.resume <= next
    BY <1>4, <1>5, <2>1, <2>2, <2>3
  <2>5. next \in Nat /\ next # None
    BY <2>4, ClockAssumption, NoneIsNoTime
  <2> QED
    BY <1>2, <1>3, <1>4, <1>6, <2>1, <2>4, <2>5 DEF Regular
<1>7. CASE a.resume = None
  <2>1. a.due <= now
    BY <1>0, <1>1, <1>7 DEF DueInv
  <2>2. next \in Occurrences /\ a.due < next
    <3>1. CASE next = NextOccurrence(now)
      <4>1. NextOccurrence(now) \in Nat
        BY <1>5, ClockAssumption
      <4> QED
        BY <1>2, <1>4, <1>5, <2>1, <3>1, <4>1
    <3>2. CASE /\ a.deadline # None /\ a.deadline <= now
               /\ next = NextOccurrence(a.deadline - 1)
      <4>1. a.due < a.deadline /\ a.deadline \in Nat
        BY <1>0, <1>1, <1>4, <3>2, RowTimes DEF DueInv
      <4>2. a.deadline - 1 \in Nat /\ a.deadline - 1 <= now /\ a.due <= a.deadline - 1
        BY <1>2, <1>4, <3>2, <4>1
      <4>3. NextOccurrence(a.deadline - 1) # None
        BY <1>0, <4>2, NextExists
      <4>4. next \in Occurrences /\ a.deadline - 1 < next
        BY <3>2, <4>2, <4>3, NextIsLater
      <4>5. next \in Nat
        BY <4>4, ClockAssumption
      <4> QED
        BY <1>2, <1>4, <4>2, <4>4, <4>5
    <3> QED
      BY <1>3, <1>7, <3>1, <3>2 DEF Ahead
  <2>3. next \in Nat /\ next # None
    BY <2>2, ClockAssumption, NoneIsNoTime
  <2> QED
    BY <1>2, <1>3, <1>4, <1>7, <2>2, <2>3 DEF Regular
<1> QED
  BY <1>6, <1>7
-----------------------------------------------------------------------------
(* The inductive step                                                      *)

LEMMA KnownClaimStep ==
    ASSUME ScheduleInv, [Next /\ TimelyAdoption]_vars
    PROVE  KnownClaimInv'
<1> SUFFICES ASSUME NEW q \in Procs, task'[q].pc # "idle", row' # None,
                    task'[q].snap.pending # None
             PROVE  IF task'[q].snap.pending = row'.pending
                      THEN /\ task'[q].snap.due = row'.due
                           /\ task'[q].snap.resume = row'.resume
                      ELSE Mine(task[q].snap.pending)'
  BY DEF KnownClaimInv, Mine
<1>0. /\ ClaimInv /\ RetryInv /\ TypeOK /\ StageInv /\ KnownClaimInv /\ InvoiceInv
      /\ SeenScheduleInv
  BY DEF ScheduleInv, RetryInv, ClaimInv
<1>n. [Next]_vars
  OBVIOUS
<1>m. RowMove
  BY <1>0, <1>n, AnyMove
<1>r. row # None /\ row \in Rows
  BY <1>0, <1>m, RowKeepsSchedule
<1>1. CASE ReadsRow(q)
  BY <1>1 DEF ReadsRow
<1>2. CASE q \in Workers /\ AdoptClaim(q)
  <2>1. /\ task'[q].snap.pending = row'.pending /\ row' = row
        /\ row.due = task[q].snap.due
        /\ SameSchedule(task'[q].snap, task[q].snap)
        /\ task'[q] # task[q]
    BY <1>0, <1>2, AdoptEffect
  <2>2. task[q].snap.resume = row.resume
    BY <1>2, <2>1 DEF TimelyAdoption, vars
  <2> QED
    BY <2>1, <2>2 DEF SameSchedule
<1>3. CASE q \in Workers /\ Claim(q)
  <2>1. /\ task'[q].snap.pending = row'.pending
        /\ row.due = task[q].snap.due /\ row.revision = task[q].snap.revision
        /\ task[q].pc # "idle"
        /\ SameSchedule(task'[q].snap, task[q].snap) /\ SameSchedule(row', row)
    BY <1>0, <1>3, ClaimEffect, ClaimKeeps
  <2>2. task[q].snap.resume = row.resume
    BY <1>0, <1>r, <2>1 DEF SeenScheduleInv
  <2> QED
    BY <2>1, <2>2 DEF SameSchedule
<1>4. CASE task'[q].snap = task[q].snap /\ task[q].pc # "idle"
  <2> DEFINE a == task[q].snap
  <2>1. PICK h \in Hashes : h = a.pending /\ h # None
    BY <1>0, <1>4, TaskType DEF Rows
  <2>2. IF h = row.pending THEN a.due = row.due /\ a.resume = row.resume
                           ELSE Mine(h)
    BY <1>0, <1>r, <1>4, <2>1 DEF KnownClaimInv
  <2>0. /\ task'[q].snap.due = a.due /\ task'[q].snap.resume = a.resume
        /\ task'[q].snap.pending = h
    BY <1>4, <2>1
  <2>3. Mine(h) => Mine(h)'
    BY <1>0, <1>n, <2>1, MineStays
  <2> SUFFICES IF h = row'.pending THEN a.due = row'.due /\ a.resume = row'.resume
                                   ELSE Mine(h)'
    BY <2>0 DEF Mine
  <2>4. CASE RowSame \/ RowEdited
    BY <2>2, <2>3, <2>4 DEF RowSame, RowEdited
  <2>5. CASE \E o \in Occurrences : RowRequeued(o)
    BY <2>1, <2>2, <2>3, <2>5 DEF RowRequeued
  <2>6. CASE \E w \in Workers : Claim(w)
    <3>1. PICK w \in Workers : Claim(w)
      BY <2>6
    <3>2. /\ task[w].pc = "claim" /\ row.pending = None
          /\ row.revision = task[w].snap.revision
          /\ row'.pending = task[w].hash
      BY <1>0, <3>1, ClaimEffect
    <3>3. ~Mine(row'.pending)
      BY <1>0, <1>r, <3>2 DEF InvoiceInv
    <3>4. Mine(h)
      BY <2>1, <2>2, <3>2
    <3> QED
      BY <2>3, <3>3, <3>4
  <2>7. CASE \E p \in Procs : RowFinished(p)
    <3>1. row'.pending = None
      BY <2>7 DEF RowFinished
    <3>2. h = row.pending => Mine(h)
      BY <1>0, <1>n, <1>r, <2>1, <3>1, ReleasedIsMine
    <3> QED
      BY <2>1, <2>2, <2>3, <3>1, <3>2
  <2> QED
    BY <1>m, <2>4, <2>5, <2>6, <2>7 DEF RowMove, RowDeleted
<1>5. task'[q] # Idle
  BY IdleType
<1>6. \/ ReadsRow(q) \/ (q \in Workers /\ (AdoptClaim(q) \/ Claim(q)))
      \/ task'[q].snap = task[q].snap /\ task[q].pc # "idle"
  BY <1>0, <1>n, <1>5, AnyReadStep DEF ReadStep, GoesOn
<1> QED
  BY <1>1, <1>2, <1>3, <1>4, <1>6

LEMMA InvoiceStep ==
    ASSUME ScheduleInv, [Next]_vars
    PROVE  InvoiceInv'
<1> SUFFICES ASSUME NEW w \in Workers, task'[w].pc = "claim", row' # None,
                    task'[w].snap.revision = row'.revision, row'.pending = None,
                    Mine(task[w].hash)'
             PROVE  FALSE
  BY DEF InvoiceInv, Mine
<1>0. /\ ClaimInv /\ RetryInv /\ TypeOK /\ StageInv /\ ResultInv /\ SnapshotInv
      /\ InvoiceInv /\ w \in Procs
  BY DEF ScheduleInv, RetryInv, ClaimInv, Procs
<1>1. TaskStep(w)
  BY <1>0, AnyTaskStep
<1>2. CASE FetchesInvoice(w)
  BY <1>2 DEF FetchesInvoice, Mine
<1>3. CASE task'[w] = task[w]
  <2>1. PICK h \in Hashes : task[w].pc = "claim" /\ task[w].hash = h /\ h # None
    BY <1>0, <1>3, TaskType DEF StageInv
  <2>m. Mine(h)'
    BY <1>3, <2>1 DEF Mine
  <2>2. /\ row # None /\ row.revision \in Nat
        /\ row.revision <= row'.revision /\ task[w].snap.revision <= row.revision
        /\ task[w].snap.revision = row'.revision
    BY <1>0, <1>3, <2>1, RowGrows DEF SnapshotInv
  <2>3. row.revision = row'.revision
    <3>1. row'.revision \in Nat
      BY <1>0, <1>3, <2>1, <2>2, TaskType, RowTimes
    <3> QED
      BY <2>2, <3>1
  <2>4. row' = row
    <3>1. RowMove
      BY <1>0, AnyMove
    <3>2. ~\E v \in Workers : Claim(v)
      BY <1>0, ClaimEffect, HashIsNotNone
    <3> QED
      BY <2>2, <2>3, <3>1, <3>2
        DEF RowMove, RowSame, RowDeleted, RowEdited, RowRequeued, RowFinished
  <2>5. ~Mine(h)
    BY <1>0, <1>3, <2>1, <2>2, <2>4 DEF InvoiceInv
  <2>6. PICK v \in Workers : Sends(v, h)
    BY <1>0, <2>m, <2>5, MineBefore
  <2>7. row.pending = h
    BY <2>2, <2>6 DEF Sends
  <2> QED
    BY <2>1, <2>4, <2>7
<1>4. CASE ReadsRow(w)
  BY <1>4 DEF ReadsRow
<1>5. CASE Claim(w)
  BY <1>0, <1>5, ClaimEffect
<1>6. CASE Submit(w)
  BY <1>0, <1>6, SubmitEffect
<1>7. task'[w] # Idle
  BY IdleType
<1> QED
  BY <1>1, <1>2, <1>3, <1>4, <1>5, <1>6, <1>7
    DEF TaskStep, TurnsToClaim, GivesUp, LearnsResult, Prepares, LosesSight

(* A payment's occurrence is in the history, or being paid for now.        *)
Remembered(h) ==
    LET o == ledger[h].due IN
    /\ o \in Occurrences
    /\ \/ row.pending = h /\ row.due = o
       \/ history[o] # None /\ history[o].hash = h

LEMMA HistoryStep ==
    ASSUME ScheduleInv, [Next]_vars
    PROVE  HistoryInv'
<1> SUFFICES ASSUME Recurring, row' # None
             PROVE  /\ \A h \in Hashes : Mine(h)' => Remembered(h)'
                    /\ \A o \in Occurrences : Regular(row)' <= o => history'[o] = None
  BY DEF HistoryInv, Remembered, Recurring, NextOccurrence, Mine
<1>0. /\ ClaimInv /\ RetryInv /\ TypeOK /\ StageInv /\ RetryKeepsDetails
      /\ HistoryInv /\ RowMove
  BY AnyMove DEF ScheduleInv, RetryInv, ClaimInv
<1>r. row # None /\ row \in Rows
  BY <1>0, RowKeepsSchedule
<1>1. /\ \A h \in Hashes : Mine(h) => Remembered(h)
      /\ \A o \in Occurrences : Regular(row) <= o => history[o] = None
  BY <1>0, <1>r DEF HistoryInv, Remembered
<1>h. history \in [Occurrences -> Completions \cup {None}]
  BY <1>0 DEF TypeOK
<1>2. ASSUME NEW h \in Hashes, Mine(h)'
      PROVE  Remembered(h)'
  <2>1. CASE \E v \in Workers : Sends(v, h)
    BY <1>r, <2>1 DEF Sends, Remembered
  <2>2. CASE Mine(h) /\ ledger'[h].due = ledger[h].due
    <3> DEFINE o == ledger[h].due
    <3>1. /\ o \in Occurrences
          /\ \/ row.pending = h /\ row.due = o
             \/ history[o] # None /\ history[o].hash = h
      BY <1>1, <2>2 DEF Remembered
    <3> HIDE DEF o
    <3>2. CASE RowSame \/ RowEdited
      BY <2>2, <3>1, <3>2 DEF RowSame, RowEdited, Remembered, o
    <3>3. CASE \E x \in Occurrences : RowRequeued(x)
      BY <2>2, <3>1, <3>3, HashIsNotNone DEF RowRequeued, Remembered, o
    <3>4. CASE \E w \in Workers : Claim(w)
      BY <1>0, <2>2, <3>1, <3>4, ClaimEffect, ClaimKeeps, HashIsNotNone
        DEF Remembered, o
    <3>5. CASE \E p \in Procs : RowFinished(p)
      <4>1. PICK p \in Procs : RowFinished(p)
        BY <3>5
      <4> DEFINE a == task[p].snap
      <4>2. PICK success \in BOOLEAN :
              history' = [history EXCEPT ![row.due] =
                            Completion(history[row.due], a, success)]
        BY <4>1 DEF RowFinished
      <4>3. row.due \in Occurrences /\ row.pending = a.pending
        BY <1>r, <4>1, RowTimes DEF RowFinished, Held
      <4>4. CASE o = row.due
        <5>1. row.pending = h
          BY <1>r, <3>1, <4>4, NothingSubmittedYet, HashIsNotNone
        <5>2. history'[o] = Completion(history[row.due], a, success)
          BY <1>h, <4>2, <4>3, <4>4
        <5>3. history'[o].hash = h
          <6>1. Completion(history[row.due], a, success).hash = a.pending
            BY DEF Completion
          <6> QED
            BY <4>3, <5>1, <5>2, <6>1
        <5>4. history'[o] # None
          <6>1. a \in Rows /\ history[row.due] \in Completions \cup {None}
            BY <1>0, <1>h, <4>1, <4>3, TaskType DEF RowFinished
          <6> QED
            BY <5>2, <6>1, CompletionIsNotNone
        <5> QED
          BY <2>2, <3>1, <5>3, <5>4 DEF Remembered, o
      <4>5. CASE o # row.due
        <5>1. history'[o] = history[o]
          BY <1>h, <3>1, <4>2, <4>5
        <5> QED
          BY <2>2, <3>1, <4>5, <5>1 DEF Remembered, o
      <4> QED
        BY <4>4, <4>5
    <3> QED
      BY <1>0, <3>2, <3>3, <3>4, <3>5 DEF RowMove, RowDeleted
  <2> QED
    BY <1>0, <1>2, <2>1, <2>2, MineBefore
<1>3. ASSUME NEW o \in Occurrences, Regular(row)' <= o
      PROVE  history'[o] = None
  <2>1. CASE RowSame \/ RowEdited
    BY <1>1, <1>3, <2>1 DEF RowSame, RowEdited, Regular
  <2>2. CASE \E x \in Occurrences : RowRequeued(x)
    <3>1. row'.resume = row.due /\ row.resume = None /\ history' = history
      BY <2>2 DEF RowRequeued
    <3>2. row.due # None
      BY <1>r, RowTimes, NoneIsNoTime
    <3> QED
      BY <1>1, <1>3, <3>1, <3>2 DEF Regular
  <2>3. CASE \E w \in Workers : Claim(w)
    BY <1>0, <1>1, <1>3, <2>3, ClaimKeeps DEF SameSchedule, Regular
  <2>4. CASE \E p \in Procs : RowFinished(p)
    <3>1. PICK p \in Procs : RowFinished(p)
      BY <2>4
    <3>2. /\ row'.due \in Occurrences /\ Regular(row) <= row'.due
          /\ row.due < row'.due
      BY <3>1, MovesAhead
    <3>3. row'.due <= o
      BY <1>3, <3>1 DEF RowFinished, Regular
    <3>4. row.due \in Nat /\ row'.due \in Nat /\ o \in Nat /\ Regular(row) \in Nat
      BY <1>r, <3>2, RowTimes, ClockAssumption DEF Regular
    <3>5. o # row.due /\ Regular(row) <= o
      BY <3>2, <3>3, <3>4
    <3>6. history'[o] = history[o]
      BY <1>h, <3>1, <3>5 DEF RowFinished
    <3> QED
      BY <1>1, <3>5, <3>6
  <2> QED
    BY <1>0, <2>1, <2>2, <2>3, <2>4 DEF RowMove, RowDeleted
<1> QED
  BY <1>2, <1>3
LEMMA LastSenderStep ==
    ASSUME ScheduleInv, [Next]_vars
    PROVE  SenderInv'
<1>0. /\ ClaimInv /\ TypeOK /\ StageInv /\ ResultInv /\ SenderHoldsClaim
      /\ SenderInv /\ HistoryInv
  BY DEF ScheduleInv, RetryInv, ClaimInv
<1>1. ASSUME NEW x \in Workers, NEW y \in Workers, task[x].pc = "submit", Claim(y)
      PROVE  FALSE
  <2>1. row # None /\ row.pending = None
    BY <1>0, <1>1, ClaimEffect
  <2>2. row.pending = task[x].hash /\ task[x].hash # None
    BY <1>0, <1>1, <2>1 DEF SenderHoldsClaim, StageInv, At, Procs
  <2> QED
    BY <2>1, <2>2
<1>2. ASSUME NEW x \in Workers, NEW y \in Workers, Claim(x), Claim(y)
      PROVE  x = y
  <2>1. task'[x].pc = "submit" /\ task[x].pc = "claim"
    BY <1>0, <1>2, ClaimEffect
  <2>2. x # y => task'[x] = task[x]
    BY <1>0, <1>2, ClaimEffect
  <2> QED
    BY <2>1, <2>2
<1>3. ASSUME NEW v \in Workers, NEW w \in Workers,
             task'[v].pc = "submit", task'[w].pc = "submit"
      PROVE  v = w
  <2>1. /\ (task[v].pc = "submit" /\ task'[v] = task[v]) \/ Claim(v)
        /\ (task[w].pc = "submit" /\ task'[w] = task[w]) \/ Claim(w)
    BY <1>0, <1>3, SubmitterBefore
  <2> QED
    BY <1>0, <1>1, <1>2, <2>1 DEF SenderInv, At
<1>4. ASSUME Recurring, NEW w \in Workers, NEW h \in Hashes,
             task'[w].pc = "submit", Mine(h)'
      PROVE  ledger'[h].due # task'[w].snap.due
  <2>1. CASE task[w].pc = "submit" /\ task'[w] = task[w]
    <3>1. CASE Mine(h) /\ ledger'[h].due = ledger[h].due
      BY <1>0, <1>4, <2>1, <3>1 DEF SenderInv, At
    <3>2. ~\E v \in Workers : Sends(v, h)
      BY <1>0, <2>1 DEF Sends, SenderInv, At
    <3> QED
      BY <1>0, <1>4, <3>1, <3>2, MineBefore
  <2>2. CASE Claim(w)
    <3>1. /\ row # None /\ row.pending = None /\ row.due = task[w].snap.due
          /\ task'[w].snap.due = task[w].snap.due /\ ledger' = ledger
      BY <1>0, <2>2, ClaimEffect DEF SameTerms
    <3>2. Mine(h) /\ ledger'[h].due = ledger[h].due
      BY <1>4, <3>1 DEF Mine
    <3>3. history[ledger[h].due] # None /\ history[ledger[h].due].hash = h
      BY <1>0, <1>4, <3>1, <3>2, HashIsNotNone DEF HistoryInv
    <3>4. history[row.due] = None \/ history[row.due].hash = None
      BY <1>4, <3>1, NothingSubmittedYet
    <3> QED
      BY <3>1, <3>2, <3>3, <3>4, HashIsNotNone
  <2> QED
    BY <1>0, <1>4, <2>1, <2>2, SubmitterBefore
<1>5. Recurring' = Recurring
  BY DEF Recurring, NextOccurrence, IsNext
<1> QED
  BY <1>3, <1>4, <1>5 DEF SenderInv, At, Mine

LEMMA OnceStep ==
    ASSUME ScheduleInv, [Next]_vars
    PROVE  SubmittedOnce'
<1>1. Recurring' = Recurring
  BY DEF Recurring, NextOccurrence, IsNext
<1> SUFFICES ASSUME Recurring, NEW g \in Hashes, NEW h \in Hashes,
                    Mine(g)', Mine(h)', ledger'[g].due = ledger'[h].due
             PROVE  g = h
  BY <1>1 DEF SubmittedOnce, Mine
<1>0. ClaimInv /\ SenderInv /\ SubmittedOnce
  BY DEF ScheduleInv, RetryInv
<1>2. /\ (Mine(g) /\ ledger'[g].due = ledger[g].due) \/ \E v \in Workers : Sends(v, g)
      /\ (Mine(h) /\ ledger'[h].due = ledger[h].due) \/ \E v \in Workers : Sends(v, h)
  BY <1>0, MineBefore
<1>3. ASSUME NEW k \in Hashes, NEW l \in Hashes, NEW v \in Workers, Sends(v, k),
             Mine(l), ledger'[l].due = ledger[l].due, ledger'[k].due = ledger'[l].due
      PROVE  FALSE
  BY <1>0, <1>3 DEF Sends, SenderInv, At
<1>4. ASSUME NEW v \in Workers, NEW w \in Workers, Sends(v, g), Sends(w, h)
      PROVE  g = h
  BY <1>0, <1>4 DEF Sends, SenderInv, At
<1> QED
  BY <1>0, <1>2, <1>3, <1>4 DEF SubmittedOnce

LEMMA InitSchedule == Init => ScheduleInv
<1> SUFFICES ASSUME Init PROVE ScheduleInv
  OBVIOUS
<1>1. \A p \in Procs : task[p].pc = "idle"
  BY IdleType DEF Init
<1>2. \A h \in Hashes : ~Mine(h)
  BY DEF Init, Mine
<1>3. KnownClaimInv /\ InvoiceInv /\ SenderInv
  BY <1>1 DEF KnownClaimInv, InvoiceInv, SenderInv, Procs, At
<1>4. HistoryInv /\ SubmittedOnce
  BY <1>2 DEF HistoryInv, SubmittedOnce, Init
<1> QED
  BY <1>3, <1>4, InitRetry DEF ScheduleInv

LEMMA ScheduleStep ==
    ASSUME ScheduleInv, [Next /\ TimelyAdoption]_vars
    PROVE  ScheduleInv'
<1>1. [Next]_vars
  OBVIOUS
<1>2. RetryInv'
  BY <1>1, RetryStep DEF ScheduleInv
<1> QED
  BY <1>1, <1>2, KnownClaimStep, InvoiceStep, HistoryStep, LastSenderStep, OnceStep
    DEF ScheduleInv

-----------------------------------------------------------------------------
(* Theorems about timely adoptions                                         *)

(* What the row, its history, its tasks and the ledger know of past and    *)
(* present payments fits together, with any number of schedulers whose     *)
(* adoptions are timely (tasks.py:132-382).                                *)
THEOREM ScheduleInvariant == TimelySpec => []ScheduleInv
  BY InitSchedule, ScheduleStep, PTL DEF TimelySpec

(* A recurring occurrence reaches LNbits at most once (tasks.py:227-245,   *)
(* crud.py:361 claim_payment).                                             *)
THEOREM TimelySubmittedOnce == TimelySpec => []SubmittedOnce
<1>1. ScheduleInv => SubmittedOnce
  BY DEF ScheduleInv
<1> QED
  BY <1>1, ScheduleInvariant, PTL

(* What the retry endpoint offers to pay never reached LNbits              *)
(* (payment_retry.py:45).                                                  *)
THEOREM TimelyRetriable == TimelySpec => []RetriableNeverSubmitted
<1>1. ASSUME ScheduleInv
      PROVE  RetriableNeverSubmitted
  <2>1. SUFFICES ASSUME Recurring, NEW o \in Occurrences,
                        history[o] # None, history[o].hash = None, row.due # o,
                        NEW h \in Hashes, Mine(h), ledger[h].due = o
                 PROVE  FALSE
    BY DEF RetriableNeverSubmitted
  <2>2. HistoryInv /\ NoOrphanHistory
    BY <1>1 DEF ScheduleInv, RetryInv
  <2>3. row # None
    BY <2>1, <2>2 DEF NoOrphanHistory
  <2> QED
    BY <2>1, <2>2, <2>3, HashIsNotNone DEF HistoryInv
<1> QED
  BY <1>1, ScheduleInvariant, PTL

(* No completion, retry or edit moves the regular schedule back            *)
(* (tasks.py:371-382, crud.py:401-418).                                    *)
THEOREM TimelySchedule == TimelySpec => ScheduleNeverMovesBack
<1>1. ASSUME ScheduleInv, [Next]_vars
      PROVE  KeepsSchedule
  <2>1. SUFFICES ASSUME row # None, row' # None
                 PROVE  Regular(row) <= Regular(row')
    BY DEF KeepsSchedule
  <2>2. TypeOK /\ StageInv /\ RowMove /\ row \in Rows /\ row' \in Rows
    BY <1>1, <2>1, AnyMove, NextType DEF ScheduleInv, RetryInv, ClaimInv, TypeOK
  <2>3. Regular(row) \in Occurrences /\ Regular(row') \in Occurrences
    BY <2>2, RowTimes DEF Regular
  <2>4. Regular(row) \in Nat /\ Regular(row') \in Nat
    BY <2>3, ClockAssumption
  <2>5. CASE ~Recurring
    BY <2>3, <2>4, <2>5, ScheduleAssumption
  <2>6. CASE RowSame \/ RowEdited
    BY <2>4, <2>6 DEF RowSame, RowEdited, Regular
  <2>7. CASE \E o \in Occurrences : RowRequeued(o)
    <3>1. row'.resume = row.due /\ row.resume = None /\ row.due # None
      BY <2>2, <2>7, RowTimes, NoneIsNoTime DEF RowRequeued
    <3> QED
      BY <2>4, <3>1 DEF Regular
  <2>8. CASE \E w \in Workers : Claim(w)
    BY <2>2, <2>4, <2>8, ClaimKeeps DEF SameSchedule, Regular
  <2>9. CASE Recurring /\ \E p \in Procs : RowFinished(p)
    <3>1. PICK p \in Procs : RowFinished(p)
      BY <2>9
    <3> QED
      BY <1>1, <2>9, <3>1, MovesAhead DEF RowFinished, Regular
  <2> QED
    BY <2>1, <2>2, <2>5, <2>6, <2>7, <2>8, <2>9 DEF RowMove, RowDeleted
<1> QED
  BY <1>1, ScheduleInvariant, PTL DEF TimelySpec, ScheduleNeverMovesBack

(* The entry of a submitted occurrence stays as it is until the allowance  *)
(* is deleted (crud.py:425-454).                                           *)
THEOREM TimelyHistory == TimelySpec => SubmittedHistoryFinal
<1>1. ASSUME ScheduleInv, [Next]_vars
      PROVE  KeepsSubmitted
  <2>1. SUFFICES ASSUME Recurring, NEW o \in Occurrences,
                        history[o] # None, history[o].hash # None, row' # None
                 PROVE  history'[o] = history[o]
    BY DEF KeepsSubmitted
  <2>2. TypeOK /\ StageInv /\ RowMove
    BY <1>1, AnyMove DEF ScheduleInv, RetryInv, ClaimInv
  <2>3. CASE \E p \in Procs : RowFinished(p)
    <3>1. PICK p \in Procs : RowFinished(p)
      BY <2>3
    <3>2. row # None
      BY <3>1 DEF RowFinished, Held
    <3>3. o # row.due
      BY <1>1, <2>1, <3>2, NothingSubmittedYet
    <3> QED
      BY <2>2, <3>1, <3>3 DEF RowFinished, TypeOK
  <2> QED
    BY <2>1, <2>2, <2>3, ClaimKeeps
      DEF RowMove, RowSame, RowDeleted, RowEdited, RowRequeued
<1> QED
  BY <1>1, ScheduleInvariant, PTL DEF TimelySpec, SubmittedHistoryFinal

-----------------------------------------------------------------------------
(* One scheduler never adopts a claim                                      *)

(* What a single task of an allowance read as unclaimed still is, until    *)
(* the task itself claims it.                                              *)
AloneInv ==
    \A w \in Workers :
        At(w, "process") /\ task[w].snap.pending = None /\ row # None =>
            row.pending = None

LEMMA AloneStep ==
    ASSUME SingleScheduler, ClaimInv, AloneInv, [Next]_vars
    PROVE  AloneInv'
<1> SUFFICES ASSUME NEW w \in Workers, task'[w].pc = "process",
                    task'[w].snap.pending = None, row' # None
             PROVE  row'.pending = None
  BY DEF AloneInv, At
<1>0. TypeOK /\ StageInv /\ ResultInv /\ w \in Procs
  BY DEF ClaimInv, Procs
<1>1. task'[w] # Idle
  BY IdleType
<1>2. CASE ReadsRow(w)
  BY <1>2 DEF ReadsRow
<1>3. CASE task'[w] = task[w]
  <2>1. row # None /\ row.pending = None
    BY <1>0, <1>3, RowGrows DEF AloneInv, At
  <2>2. ~\E v \in Workers : Claim(v)
    BY <1>0, <1>3, ClaimEffect DEF SingleScheduler
  <2> QED
    BY <1>0, <2>1, <2>2, AnyRowStep DEF RowStep, RowRevised, RowReleased
<1> QED
  BY <1>0, <1>1, <1>2, <1>3, AnyTaskStep, ClaimEffect, SubmitEffect
    DEF TaskStep, TurnsToClaim, GivesUp, LearnsResult, Prepares, FetchesInvoice,
        LosesSight

(* Adoptions are timely when no two schedulers overlap, for want of any.   *)
THEOREM SingleIsTimely ==
    ASSUME SingleScheduler
    PROVE  Spec => TimelySpec
<1>1. Init => AloneInv
  BY IdleType DEF Init, AloneInv, At, Procs
<1>2. ClaimInv /\ AloneInv /\ [Next]_vars => AloneInv'
  BY AloneStep
<1>3. AloneInv /\ [Next]_vars => [Next /\ TimelyAdoption]_vars
  <2>1. AloneInv => TimelyAdoption
    BY DEF AloneInv, TimelyAdoption, AdoptClaim, Executes, SameOccurrence, At
  <2> QED
    BY <2>1
<1> QED
  BY <1>1, <1>2, <1>3, ClaimInvariant, PTL DEF Spec, TimelySpec

(* With one scheduler, a recurring occurrence reaches LNbits at most once. *)
THEOREM SingleSubmittedOnce ==
    ASSUME SingleScheduler
    PROVE  Spec => []SubmittedOnce
  BY SingleIsTimely, TimelySubmittedOnce, PTL

(* With one scheduler, what the retry endpoint offers never reached LNbits. *)
THEOREM SingleRetriable ==
    ASSUME SingleScheduler
    PROVE  Spec => []RetriableNeverSubmitted
  BY SingleIsTimely, TimelyRetriable, PTL

(* With one scheduler, the regular schedule never moves back.              *)
THEOREM SingleSchedule ==
    ASSUME SingleScheduler
    PROVE  Spec => ScheduleNeverMovesBack
  BY SingleIsTimely, TimelySchedule, PTL

(* With one scheduler, the history of a submitted payment is final.        *)
THEOREM SingleHistory ==
    ASSUME SingleScheduler
    PROVE  Spec => SubmittedHistoryFinal
  BY SingleIsTimely, TimelyHistory, PTL
=============================================================================
