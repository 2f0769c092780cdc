--------------------------- MODULE PaymentSchedule ---------------------------
(***************************************************************************)
(* Why a recurring occurrence is paid at most once and the schedule never  *)
(* moves back: the inductive invariant of PaymentScheduleProofs, and the   *)
(* one thing about overlapping schedulers it takes.                        *)
(***************************************************************************)
EXTENDS PaymentLifecycle

(* next_occurrence returns None for a schedule of one due time only.       *)
ASSUME ScheduleAssumption ==
    Recurring \/ \A o, p \in Occurrences : o = p

-----------------------------------------------------------------------------
(* Overlapping schedulers                                                  *)

SingleScheduler == \A v, w \in Workers : v = w

(***************************************************************************)
(* When the reread of execute_lightning_address_payment finds a claim, the *)
(* task takes over its hash and keeps the rest of the row it polled        *)
(* (tasks.py:139-144).  The adoption is timely if that row belongs to the  *)
(* attempt the claim was made for: the regular one, or the same retry of a *)
(* completed occurrence.  A single scheduler never adopts a claim.         *)
(***************************************************************************)
TimelyAdoption ==
    \A w \in Workers : AdoptClaim(w) => task[w].snap.resume = row.resume

TimelySpec == Init /\ [][Next /\ TimelyAdoption]_vars

-----------------------------------------------------------------------------
(* The parts of the invariant                                              *)

(* A task whose row is still at the revision it read knows its schedule.   *)
SeenScheduleInv ==
    \A p \in Procs :
        LET a == task[p].snap IN
        task[p].pc # "idle" /\ row # None /\ a.revision = row.revision =>
            a.due = row.due /\ a.resume = row.resume /\ a.deadline = row.deadline

(* A retry of a completed occurrence ends at the regular date, also while  *)
(* it is claimed.                                                          *)
RetryWindowInv ==
    row # None /\ row.resume # None =>
        row.deadline # None /\ row.deadline <= row.resume

(* A claim is of an occurrence that is due, and a window ends after it.    *)
DueInv ==
    /\ row # None =>
         /\ row.pending # None => row.due <= now
         /\ row.deadline # None => row.due < row.deadline
    /\ \A p \in Procs :
         LET a == task[p].snap IN
         task[p].pc # "idle" =>
            /\ a.pending # None \/ task[p].pc \in {"invoice", "claim", "finish"} =>
                 a.due <= now
            /\ a.deadline # None => a.due < a.deadline

(* What is prepared was read while its retry window was open.              *)
BegunInv ==
    \A p \in Procs :
        task[p].pc # "idle" =>
            /\ task[p].at <= now
            /\ task[p].pc \in {"invoice", "claim"} =>
                 ~AtOrBefore(task[p].snap.deadline, task[p].at)

(* An occurrence that is given up before it is claimed is a failure.       *)
GaveUpInv ==
    \A p \in Procs :
        At(p, "finish") /\ task[p].snap.pending = None => ~task[p].success

RetryInv ==
    /\ ClaimInv
    /\ SeenScheduleInv /\ RetryWindowInv /\ DueInv /\ BegunInv
    /\ RetryKeepsDetails /\ NoOrphanHistory
    /\ GaveUpInv /\ HistoryTruthful

(* A task that knows of a claim knows its attempt, or the claim is settled. *)
KnownClaimInv ==
    \A p \in Procs :
        LET a == task[p].snap IN
        task[p].pc # "idle" /\ row # None /\ a.pending # None =>
            IF a.pending = row.pending
              THEN a.due = row.due /\ a.resume = row.resume
              ELSE Mine(a.pending)

(* An invoice that can still be claimed was never paid by this allowance.  *)
InvoiceInv ==
    \A w \in Workers :
        LET t == task[w] IN
        /\ t.pc = "claim" /\ row # None
        /\ t.snap.revision = row.revision /\ row.pending = None
        => ~Mine(t.hash)

(* Every payment of a recurring allowance is the claimed one or in its     *)
(* history, and nothing is known of the regular dates to come.             *)
HistoryInv ==
    Recurring /\ row # None =>
        /\ \A h \in Hashes :
             Mine(h) =>
                LET o == ledger[h].due IN
                /\ o \in Occurrences
                /\ \/ row.pending = h /\ row.due = o
                   \/ history[o] # None /\ history[o].hash = h
        /\ \A o \in Occurrences : Regular(row) <= o => history[o] = None

(* The last sender of an allowance, deleted or not, sends what was not     *)
(* sent.                                                                   *)
SenderInv ==
    /\ \A v, w \in Workers : At(v, "submit") /\ At(w, "submit") => v = w
    /\ Recurring =>
         \A w \in Workers : \A h \in Hashes :
            At(w, "submit") /\ Mine(h) => ledger[h].due # task[w].snap.due

ScheduleInv ==
    /\ RetryInv
    /\ KnownClaimInv /\ InvoiceInv /\ HistoryInv /\ SenderInv
    /\ SubmittedOnce
=============================================================================
