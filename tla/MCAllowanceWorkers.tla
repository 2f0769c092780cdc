------------------------- MODULE MCAllowanceWorkers -------------------------
(* Small instances of AllowanceWorkers for TLC.                            *)
EXTENDS AllowanceWorkers, TLC

CONSTANTS a1, a2, a3, w1, w2

(* Two allowances of one wallet and one of another.                        *)
TwoWallets == a1 :> w1 @@ a2 :> w1 @@ a3 :> w2

(* One wallet for all three.                                               *)
OneWallet == a1 :> w1 @@ a2 :> w1 @@ a3 :> w1

(* The rows of the first wallet come first, as a backlog does.             *)
QueryOrder == <<a1, a2, a3>>
=============================================================================
