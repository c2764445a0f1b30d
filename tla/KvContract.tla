----------------------------- MODULE KvContract -----------------------------
(***************************************************************************)
(* What the callers of the cache may rely on, whatever the back end: a key *)
(* has the last value written, or none, because it was taken, deleted, has *)
(* expired or was lost; take hands a value out and forgets it in one step. *)
(* What is forgotten stays forgotten until the key is written again.       *)
(***************************************************************************)
CONSTANTS Keys, Values, None

VARIABLES
    live,   \* the value of each key, or None
    got,    \* what the last take returned
    spent   \* the values that were written, or never will be

Init == live = [k \in Keys |-> None] /\ got = None /\ spent = {}

\* A value is written once, and may be lost at once.
Put(k, v) ==
    /\ v \notin spent /\ spent' = spent \cup {v}
    /\ live' \in {[live EXCEPT ![k] = v], [live EXCEPT ![k] = None]}
    /\ UNCHANGED got

\* A value of another type than the caller asks for is consumed, not returned.
Take(k) ==
    /\ got' \in {live[k], None}
    /\ live' = [live EXCEPT ![k] = None]
    /\ UNCHANGED spent

\* Values expire, are deleted or are lost, and writes are given up.
Forget(S) ==
    /\ live' = [k \in Keys |-> IF k \in S THEN None ELSE live[k]]
    /\ spent \subseteq spent'
    /\ UNCHANGED got

Next ==
    \/ \E k \in Keys, v \in Values : Put(k, v)
    \/ \E k \in Keys : Take(k)
    \/ \E S \in SUBSET Keys : Forget(S)

Spec == Init /\ [][Next]_<<live, got, spent>>
=============================================================================
