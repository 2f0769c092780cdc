------------------------- MODULE MCPaymentLifecycle -------------------------
(* Small instances of PaymentLifecycle for TLC.                            *)
EXTENDS PaymentLifecycleRefinement, TLC

(* A schedule of three periods and the first date past the horizon.        *)
RecurringDates == {1, 4, 7}

(* The single due time of a "once" allowance.                              *)
OnceDate == {1}

(* A schedule whose periods are as short as the retry window.              *)
ShortDates == {1, 2, 3}

(* Hashes, requests and schedulers are interchangeable.                    *)
Symmetry ==
    Permutations(Hashes) \cup Permutations(Details)
        \cup Permutations(Clients) \cup Permutations(Workers)
=============================================================================
