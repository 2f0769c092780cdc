--------------------------- MODULE MCTransactions ---------------------------
(* Small instances of Transactions for TLC.                                *)
EXTENDS Transactions, TLC

(* Connections are interchangeable.                                        *)
Symmetry == Permutations(Sessions)
=============================================================================
