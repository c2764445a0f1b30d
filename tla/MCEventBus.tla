----------------------------- MODULE MCEventBus -----------------------------
(* Two processes of different releases on one event table.                 *)
EXTENDS EventBus, TLC

CONSTANTS p1, p2

\* p1 is the old release without subscribers, p2 the new one.
OldAndNew == (p1 :> {}) @@ (p2 :> Handlers)
=============================================================================
