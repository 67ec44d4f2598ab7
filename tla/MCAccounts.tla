---------------------------- MODULE MCAccounts -----------------------------
(* Accounts for TLC: people and addresses are interchangeable.              *)
EXTENDS Accounts, TLC

Swaps == Permutations(Person) \cup Permutations(Address)
=============================================================================
