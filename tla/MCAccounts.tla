----------------------------- MODULE MCAccounts -----------------------------
(* Two requests at a time, which are interchangeable. *)
EXTENDS Accounts, TLC

Interchangeable == Permutations(Requests) \cup Permutations(Passwords)
=============================================================================
