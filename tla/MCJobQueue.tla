---------------------------- MODULE MCJobQueue ----------------------------
(* Jobs of two processes, as MCPlatform has them, on their own.           *)
EXTENDS JobQueue, TLC

Symmetry == Permutations(Jobs) \cup Permutations(Procs)
=============================================================================
