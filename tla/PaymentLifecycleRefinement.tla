--------------------- MODULE PaymentLifecycleRefinement ---------------------
(* A recurring allowance with one scheduler keeps PaymentPromise.          *)
EXTENDS PaymentSchedule

(* A claim is in the row, or in the hands of a sender whose row is deleted. *)
ClaimedFor(o) ==
    \/ row # None /\ row.pending # None /\ row.due = o
    \/ \E w \in Workers : At(w, "submit") /\ task[w].snap.due = o

StatusesFor(o) ==
    {ledger[h].status : h \in {h \in Hashes : Mine(h) /\ ledger[h].due = o}}

PhaseOf(o) ==
    LET statuses == StatusesFor(o) IN
    IF statuses = {} THEN IF ClaimedFor(o) THEN "claimed" ELSE "unsent"
    ELSE IF "pending" \in statuses THEN "submitted"
    ELSE IF "success" \in statuses THEN "paid"
    ELSE "rejected"

ToldOf(o) ==
    IF history[o] = None THEN "nothing"
    ELSE IF history[o].success THEN "paid"
    ELSE IF history[o].hash # None THEN "rejected"
    ELSE "unsent"

Promise == INSTANCE PaymentPromise WITH
    alive <- row # None,
    phase <- [o \in Occurrences |-> PhaseOf(o)],
    told <- [o \in Occurrences |-> ToldOf(o)]

(* Every behaviour of the lifecycle is, seen per occurrence, a behaviour of *)
(* the promise: claimed, submitted and settled once, one at a time, and     *)
(* reported truthfully (the whole of tasks.py, crud.py:361-466).            *)
KeepsPromise == Promise!Spec
=============================================================================
