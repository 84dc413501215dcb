----------------------------- MODULE MCAccounts -----------------------------
(* A small instance of Accounts for TLC.                                     *)
EXTENDS Accounts, TLC

Interchangeable == Permutations(Tokens)
=============================================================================
