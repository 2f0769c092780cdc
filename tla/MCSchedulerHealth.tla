------------------------- MODULE MCSchedulerHealth -------------------------
(* A small instance of SchedulerHealth for TLC.                            *)
EXTENDS SchedulerHealth, TLC

CONSTANTS a1, a2, a3, w1, w2

(* Two allowances of one wallet and one of another.                        *)
TwoWallets == a1 :> w1 @@ a2 :> w1 @@ a3 :> w2

QueryOrder == <<a1, a2, a3>>

(* The rows of the first wallet, interchangeable after the first state.    *)
Twins == Permutations({a1, a2})
=============================================================================
