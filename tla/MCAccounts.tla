----------------------------- MODULE MCAccounts -----------------------------
EXTENDS Accounts, TLC

CONSTANTS c1, c2, p1, p2

(* c1 registers and changes its password; c2 has the merchants that the     *)
(* administrator sets up, without a password.                              *)
OneSelfMade == (c1 :> {p1, p2}) @@ (c2 :> {})

Symmetric == Permutations(Worker)
=============================================================================
