---------------------------- MODULE WalletLimit ----------------------------
(***************************************************************************)
(* What the limit on allowances promises a wallet, as if each creation     *)
(* were one indivisible step: a request is granted while there is room,    *)
(* refused only when there is none, and rows beyond the limit, from before *)
(* there was one, are left alone.                                          *)
(***************************************************************************)
EXTENDS Naturals

CONSTANTS Sessions, Limit

VARIABLES
    rows,    \* allowances of the wallet
    answer   \* per session: the answer to its last creation request

vars == <<rows, answer>>

Answers == {"none", "created", "refused"}

Init ==
    /\ rows \in Nat
    /\ answer = [s \in Sessions |-> "none"]

Create(s) ==
    /\ rows < Limit
    /\ rows' = rows + 1
    /\ answer' = [answer EXCEPT ![s] = "created"]

Refuse(s) ==
    /\ rows >= Limit
    /\ answer' = [answer EXCEPT ![s] = "refused"]
    /\ UNCHANGED rows

(* The session is used for something else.                                 *)
Forget(s) ==
    /\ answer' = [answer EXCEPT ![s] = "none"]
    /\ UNCHANGED rows

Delete ==
    /\ rows > 0
    /\ rows' = rows - 1
    /\ UNCHANGED answer

Next ==
    \/ \E s \in Sessions : Create(s) \/ Refuse(s) \/ Forget(s)
    \/ Delete

Spec == Init /\ [][Next]_vars
=============================================================================
