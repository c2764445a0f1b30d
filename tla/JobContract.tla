---------------------------- MODULE JobContract ----------------------------
(***************************************************************************)
(* What infrastructure/job_queue promises about one job (lib.rs, "语义契约"): *)
(* a job stays open until a handler call returned Ok (done, at least once) *)
(* or MaxAttempts failures have been recorded (failed); both are final,    *)
(* and only a finished job is ever purged.  Processes, leases, timers and  *)
(* crashes do not exist here.                                              *)
(***************************************************************************)
EXTENDS Integers

CONSTANTS Jobs, MaxAttempts

VARIABLES state, tries, oks

vars == <<state, tries, oks>>

Init ==
    /\ state = [j \in Jobs |-> "none"]
    /\ tries = [j \in Jobs |-> 0]
    /\ oks = {}

Accept(j) ==
    /\ state[j] = "none"
    /\ state' = [state EXCEPT ![j] = "open"]
    /\ UNCHANGED <<tries, oks>>

\* A handler call for an open job returns Ok.
Succeed(j) ==
    /\ state[j] = "open"
    /\ oks' = oks \cup {j}
    /\ UNCHANGED <<state, tries>>

Complete(j) ==
    /\ state[j] = "open"
    /\ j \in oks
    /\ state' = [state EXCEPT ![j] = "done"]
    /\ UNCHANGED <<tries, oks>>

\* A failure is recorded; the last one closes the job.
Reject(j) ==
    /\ state[j] = "open"
    /\ tries[j] < MaxAttempts
    /\ tries' = [tries EXCEPT ![j] = @ + 1]
    /\ state' = IF tries[j] + 1 < MaxAttempts THEN state ELSE [state EXCEPT ![j] = "failed"]
    /\ UNCHANGED oks

Purge(S) ==
    /\ \A j \in S : state[j] \in {"done", "failed"}
    /\ state' = [j \in Jobs |-> IF j \in S THEN "gone" ELSE state[j]]
    /\ UNCHANGED <<tries, oks>>

Next ==
    \/ \E j \in Jobs : Accept(j) \/ Succeed(j) \/ Complete(j) \/ Reject(j)
    \/ \E S \in SUBSET Jobs : Purge(S)

Spec == Init /\ [][Next]_vars
=============================================================================
