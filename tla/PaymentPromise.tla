--------------------------- MODULE PaymentPromise ---------------------------
(***************************************************************************)
(* What a recurring allowance promises its owner, without rows, revisions, *)
(* polls or retries.                                                       *)
(*                                                                         *)
(* Each occurrence is paid for at most once, one payment is under way at a *)
(* time, and what the owner is told of an occurrence is what became of it. *)
(* The owner may delete the allowance at any time; a payment that is       *)
(* already on its way then goes on without it.                             *)
(***************************************************************************)
EXTENDS Naturals

CONSTANT Occurrences

VARIABLES
    alive,  \* the owner has not deleted the allowance
    phase,  \* per occurrence: how far its payment got
    told    \* per occurrence: what its history entry says

vars == <<alive, phase, told>>

Phases == {"unsent", "claimed", "submitted", "paid", "rejected"}
Reports == {"nothing", "unsent", "paid", "rejected"}

TypeOK ==
    /\ alive \in BOOLEAN
    /\ phase \in [Occurrences -> Phases]
    /\ told \in [Occurrences -> Reports]

Init ==
    /\ alive = TRUE
    /\ phase = [o \in Occurrences |-> "unsent"]
    /\ told = [o \in Occurrences |-> "nothing"]

(* The first conjunct, which the second implies, spares TLC most of the    *)
(* comparisons.                                                            *)
Moves(o, stage) ==
    /\ phase'[o] = stage
    /\ phase' = [phase EXCEPT ![o] = stage]

(* The right to pay o is taken while no other payment is under way.        *)
Claim(o) ==
    /\ alive
    /\ phase[o] = "unsent" /\ Moves(o, "claimed")
    /\ \A p \in Occurrences : phase[p] \notin {"claimed", "submitted"}
    /\ told[o] \in {"nothing", "unsent"}
    /\ UNCHANGED <<alive, told>>

Submit(o) ==
    /\ phase[o] = "claimed"
    /\ Moves(o, "submitted")
    /\ UNCHANGED <<alive, told>>

Settle(o) ==
    /\ phase[o] = "submitted"
    /\ \E result \in {"paid", "rejected"} : Moves(o, result)
    /\ UNCHANGED <<alive, told>>

(* An occurrence is closed for the owner with its true result, for good if *)
(* it was submitted.                                                       *)
Close(o) ==
    /\ alive
    /\ told[o] \in {"nothing", "unsent"}
    /\ phase[o] \in {"unsent", "paid", "rejected"}
    /\ told'[o] = phase[o]
    /\ told' = [told EXCEPT ![o] = phase[o]]
    /\ UNCHANGED <<alive, phase>>

(* Deletion forgets the history; a claim survives in the sender's hands or *)
(* not at all.                                                             *)
Delete ==
    /\ alive
    /\ alive' = FALSE
    /\ told' = [o \in Occurrences |-> "nothing"]
    /\ \/ UNCHANGED phase
       \/ \E o \in Occurrences :
            phase[o] = "claimed" /\ Moves(o, "unsent")

(* A sender that outlived the allowance gives up.                          *)
Abandon(o) ==
    /\ ~alive
    /\ phase[o] = "claimed"
    /\ Moves(o, "unsent")
    /\ UNCHANGED <<alive, told>>

Next ==
    \/ \E o \in Occurrences : Claim(o) \/ Submit(o) \/ Settle(o) \/ Close(o) \/ Abandon(o)
    \/ Delete

Spec == Init /\ [][Next]_vars
=============================================================================
