-------------------------- MODULE MCTenantSessions --------------------------
(* A small instance of TenantSessions for TLC.                               *)
EXTENDS TenantSessions, TLC

Interchangeable == Permutations(Workers) \cup Permutations(Sessions) \cup Permutations(Tokens)
=============================================================================
