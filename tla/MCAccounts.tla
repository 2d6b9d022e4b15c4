----------------------------- MODULE MCAccounts -----------------------------
(* Instances of Accounts.  Requests are interchangeable.                   *)
EXTENDS Accounts, TLC

Interchangeable == Permutations(Handlers)
=============================================================================
