-------------------------------- MODULE Authz -------------------------------
(***************************************************************************)
(* libs/authz_kit: roles with permissions are compiled into a set of Cedar *)
(* policies, which is cached until a role changes.                         *)
(*                                                                         *)
(* Several threads evaluate at a time (&self); a change of the roles needs *)
(* the value for itself (&mut self).  A name is a sequence of parts: the   *)
(* double underscore that separates role and action in the id of a policy  *)
(* separates the parts of a name as well.                                  *)
(***************************************************************************)
EXTENDS Naturals, Sequences

CONSTANTS
    Threads,
    Roles, Actions,     \* names
    ResourceTypes,      \* types permissions are for, beside all
    ResourceType,       \* the type every resource is given
    MaxPermissions,     \* bound on the permissions of a role
    All, None

AuthzAssumption ==
    /\ MaxPermissions \in Nat
    /\ All \notin ResourceTypes \cup {ResourceType}

VARIABLES
    perms,      \* role_permissions: the list of each role, or None
    known,      \* known_actions
    cached,     \* cached_policies, or None
    call,       \* of each thread: its request and what it has found, or None
    result      \* the last decision since the roles changed, or None

vars == <<perms, known, cached, call, result>>

Permissions == [resource: ResourceTypes \cup {All}, action: Actions \cup {All}]
Lists == UNION {[1..n -> Permissions] : n \in 0..MaxPermissions}
Requests == [roles: SUBSET Roles, action: Actions, privileged: BOOLEAN]

Init ==
    /\ perms = [r \in Roles |-> None]
    /\ known = {}
    /\ cached = None
    /\ call = [t \in Threads |-> None]
    /\ result = None

-----------------------------------------------------------------------------
(* Compilation. *)

PolicyId(role, p) == role \o (IF p.action = All THEN <<"all">> ELSE p.action)

Policies(role) ==
    IF perms[role] = None THEN {}
    ELSE {[id |-> PolicyId(role, perms[role][i]), role |-> role, at |-> i, perm |-> perms[role][i]]
            : i \in DOMAIN perms[role]}

\* Faulty form of Compiled: the last permission of a role is left out.
CompiledShort ==
    {{p \in UNION {Policies(r) : r \in Roles} : p.at = 1}}

\* A policy replaces the one inserted before it under its id: the last one in
\* the list of a role, of any role since they come in no particular order.
Compiled ==
    LET all == UNION {Policies(r) : r \in Roles}
        last == {p \in all : \A q \in all : q.id = p.id /\ q.role = p.role => q.at <= p.at}
    IN  {S \in SUBSET last : /\ \A p, q \in S : p.id = q.id => p = q
                             /\ \A p \in last : \E q \in S : q.id = p.id}

\* Cedar: an action is compared, a resource has the one type it was built with.
Covers(perm, action) == perm.action \in {All, action} /\ perm.resource \in {All, ResourceType}

Decision(policies, req) ==
    \/ req.privileged
    \/ \E p \in policies : p.role \in req.roles /\ Covers(p.perm, req.action)

-----------------------------------------------------------------------------
(* Changes of the roles: no evaluation is under way. *)

Exclusive == \A t \in Threads : call[t] = None

RegisterAction(a) ==
    /\ Exclusive
    /\ known' = known \cup {a}
    /\ UNCHANGED <<perms, cached, call, result>>

\* Faulty form of SetRolePermissions: actions are not registered.
SetUnregistered(role) ==
    /\ Exclusive
    /\ \E list \in Lists : perms' = [perms EXCEPT ![role] = list]
    /\ cached' = None
    /\ result' = None
    /\ UNCHANGED <<known, call>>

SetRolePermissions(role) ==
    /\ Exclusive
    /\ \E list \in Lists :
         /\ perms' = [perms EXCEPT ![role] = list]
         /\ known' = known \cup ({list[i].action : i \in DOMAIN list} \ {All})
    /\ cached' = None
    /\ result' = None
    /\ UNCHANGED call

\* Faulty form of RemoveRole: the cache is not invalidated.
RemoveRoleCached(role) ==
    /\ Exclusive
    /\ perms' = [perms EXCEPT ![role] = None]
    /\ result' = None
    /\ UNCHANGED <<known, cached, call>>

RemoveRole(role) ==
    /\ Exclusive
    /\ perms' = [perms EXCEPT ![role] = None]
    /\ cached' = None
    /\ result' = None
    /\ UNCHANGED <<known, call>>

Clear ==
    /\ Exclusive
    /\ perms' = [r \in Roles |-> None]
    /\ known' = {}
    /\ cached' = None
    /\ result' = None
    /\ UNCHANGED call

-----------------------------------------------------------------------------
(* evaluate *)

\* The read lock: the cache is looked at.
LookUp(t) ==
    /\ call[t] = None
    /\ \E req \in Requests : call' = [call EXCEPT ![t] = [req |-> req, policies |-> cached]]
    /\ UNCHANGED <<perms, known, cached, result>>

\* The write lock: another thread may have compiled meanwhile.
Compile(t) ==
    /\ call[t] # None /\ call[t].policies = None
    /\ IF cached = None THEN \E c \in Compiled : cached' = c ELSE UNCHANGED cached
    /\ call' = [call EXCEPT ![t].policies = cached']
    /\ UNCHANGED <<perms, known, result>>

Decide(t) ==
    /\ call[t] # None /\ call[t].policies # None
    /\ result' = [req |-> call[t].req, allowed |-> Decision(call[t].policies, call[t].req)]
    /\ call' = [call EXCEPT ![t] = None]
    /\ UNCHANGED <<perms, known, cached>>

Next ==
    \/ \E a \in Actions : RegisterAction(a)
    \/ \E r \in Roles : SetRolePermissions(r) \/ RemoveRole(r)
    \/ Clear
    \/ \E t \in Threads : LookUp(t) \/ Compile(t) \/ Decide(t)

Spec == Init /\ [][Next]_vars

-----------------------------------------------------------------------------
(* Properties. *)

\* Type correctness: the actions of permissions are known.
TypeOK ==
    /\ \A r \in Roles : perms[r] # None =>
         \A i \in DOMAIN perms[r] : perms[r][i] \in Permissions
                                    /\ perms[r][i].action \in known \cup {All}
    /\ known \subseteq Actions
    /\ \A t \in Threads : call[t] # None => call[t].req \in Requests

\* The permissions the user's roles have now.
Granted(req) ==
    \/ req.privileged
    \/ \E r \in req.roles : perms[r] # None /\ \E i \in DOMAIN perms[r] : Covers(perms[r][i], req.action)

\* Only what a role of the user permits now is allowed: no thread decides by
\* policies compiled before the roles changed.
OnlyGranted == result # None => (result.allowed => Granted(result.req))

\* What a role of the user permits is allowed.
GrantedAllowed == result # None => (Granted(result.req) => result.allowed)
=============================================================================
