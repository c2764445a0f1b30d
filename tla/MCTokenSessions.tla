-------------------------- MODULE MCTokenSessions --------------------------
(* Requests over a store that does not fail.                              *)
EXTENDS TokenSessions, TLC

Symmetry == Permutations(Reqs) \cup Permutations(Tokens) \cup Permutations(Accounts)
=============================================================================
