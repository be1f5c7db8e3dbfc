------------------------------ MODULE MCLedger ------------------------------
(* Three commands of one client: a plain one, a Safe Apply and a decision    *)
(* about it.                                                               *)
EXTENDS Ledger, TLC

CONSTANTS o1, o2, r1, b1, c, x, f

Kinds == (c :> "command") @@ (x :> "execute") @@ (f :> "decide")
Swap == Permutations({o1, o2})
=============================================================================
