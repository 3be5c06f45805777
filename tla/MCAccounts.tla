----------------------------- MODULE MCAccounts -----------------------------
(* Two administrators, two browsers. *)
EXTENDS Accounts, TLC

Symmetric == Permutations(Browsers)
=============================================================================
