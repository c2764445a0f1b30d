------------------------------ MODULE MCRecords -----------------------------
(***************************************************************************)
(* Master data and how it is listed, shown and guarded, model-checked side *)
(* by side: CursorPage, JsonDiff, MasterData, Categories and Authz.  part  *)
(* picks the component that moves, with the instance named after it; the   *)
(* state of the others is <<>>, and the list stays empty.                  *)
(***************************************************************************)
EXTENDS CursorPage, TLC

CONSTANTS
    Workers, Records,
    Keys, Scalars, Depth, MaxLogs, Missing,     \* of Diff
    Coding, Tracing,            \* the ids and bounds of Master, as records
    Rooting, Patching,          \* and of Category
    Granting, Joining, All, Nobody,     \* and of Auth
    w1, r1, n1, u1, i1, Resource        \* single ids of each kind

VARIABLES
    part,
    current, log,
    records, seq,
    cats, items, units,
    perms, known, cached, call, result,
    trail, txn  \* of whichever part moves

vDiff == <<current, log>>
vMaster == <<records, seq>>
vCategories == <<cats, items, units>>
vAuthz == <<perms, known, cached, call, result>>

-----------------------------------------------------------------------------
(* Instances. *)

\* Limits below, at and above what the code allows.
AnyLimit == {-1, 0, 1, 2, 9}

\* All snapshots of two keys, two levels deep.
Diff == INSTANCE JsonDiff WITH Nothing <- Missing
NoSnapshot == [kind |-> "nothing"]

Master(c) == INSTANCE MasterData WITH
    Records <- c.records, Names <- c.names, MaxSeq <- c.codes, MaxTrail <- c.trail, rows <- records

\* Two records whose codes come from the same sequences.
TwoCodes == [records |-> Records, names |-> {n1}, codes |-> 4, trail |-> 1]

\* One record that two workers change.
OneTrail == [records |-> {r1}, names |-> Records, codes |-> 2, trail |-> 2]

Category(f) == INSTANCE Categories WITH
    Workers <- f.workers, Cats <- f.cats, Items <- f.items, Names <- f.names, Sorts <- f.sorts,
    Units <- f.units, Rates <- f.rates, MaxTrail <- f.trail

\* Every tree, forest and cycle of three categories.
ThreeCats ==
    [workers |-> {w1}, cats |-> {1, 2, 3}, items |-> {}, names |-> {7}, sorts |-> {0},
     units |-> {}, rates |-> {}, trail |-> 2]

\* Two categories that two workers change, and the units of an item.
TwoCats ==
    [workers |-> Workers, cats |-> {1, 2}, items |-> {i1}, names |-> {7}, sorts |-> {0},
     units |-> {u1}, rates |-> {1, 2}, trail |-> 2]

Auth(c) == INSTANCE Authz WITH
    Threads <- Workers, Roles <- c.roles, Actions <- c.actions, ResourceTypes <- c.types,
    ResourceType <- Resource, MaxPermissions <- c.permissions, None <- Nobody

\* One role, with permissions for the type that requests ask for and for all.
OneRole ==
    [roles |-> {<<"admin">>}, actions |-> {<<"read">>, <<"write">>}, types |-> {Resource},
     permissions |-> 2]

\* Names of roles and actions with a double underscore of their own.
TwoRoles ==
    [roles |-> {<<"stock">>, <<"stock", "doc">>}, actions |-> {<<"read">>, <<"doc", "read">>},
     types |-> {}, permissions |-> 1]

ASSUME RecordsAssumption ==
    /\ Diff!DiffAssumption
    /\ Master(Coding)!MasterAssumption /\ Master(Tracing)!MasterAssumption
    /\ Category(Rooting)!CategoryAssumption /\ Category(Patching)!CategoryAssumption
    /\ Auth(Granting)!AuthzAssumption /\ Auth(Joining)!AuthzAssumption

-----------------------------------------------------------------------------
NoList == Init /\ rows = [i \in Ids |-> "unused"]
NoDiff == current = <<>> /\ log = <<>>
NoMaster == records = <<>> /\ seq = <<>>
NoCategories == cats = <<>> /\ items = <<>> /\ units = <<>>
NoAuthz == perms = <<>> /\ known = <<>> /\ cached = <<>> /\ call = <<>> /\ result = <<>>
NoRequests == trail = <<>> /\ txn = <<>>

RecordsInit ==
    \/ part = "page" /\ Init /\ NoDiff /\ NoMaster /\ NoCategories /\ NoAuthz /\ NoRequests
    \/ part = "diff" /\ Diff!Init /\ NoList /\ NoMaster /\ NoCategories /\ NoAuthz /\ NoRequests
    \/ part = "codes" /\ Master(Coding)!Init /\ NoList /\ NoDiff /\ NoCategories /\ NoAuthz
    \/ part = "trail" /\ Master(Tracing)!Init /\ NoList /\ NoDiff /\ NoCategories /\ NoAuthz
    \/ part = "tree" /\ Category(Rooting)!Init /\ NoList /\ NoDiff /\ NoMaster /\ NoAuthz
    \/ part = "patch" /\ Category(Patching)!Init /\ NoList /\ NoDiff /\ NoMaster /\ NoAuthz
    \/ part = "plain" /\ Auth(Granting)!Init /\ NoList /\ NoDiff /\ NoMaster /\ NoCategories /\ NoRequests
    \/ part = "joined" /\ Auth(Joining)!Init /\ NoList /\ NoDiff /\ NoMaster /\ NoCategories /\ NoRequests

RecordsNext ==
    \/ part = "page" /\ Next /\ UNCHANGED <<part, vDiff, vMaster, vCategories, vAuthz, trail, txn>>
    \/ part = "diff" /\ Diff!Next /\ UNCHANGED <<part, vars, vMaster, vCategories, vAuthz, trail, txn>>
    \/ part = "codes" /\ Master(Coding)!Next /\ UNCHANGED <<part, vars, vDiff, vCategories, vAuthz>>
    \/ part = "trail" /\ Master(Tracing)!Next /\ UNCHANGED <<part, vars, vDiff, vCategories, vAuthz>>
    \/ part = "tree" /\ Category(Rooting)!Next /\ UNCHANGED <<part, vars, vDiff, vMaster, vAuthz>>
    \/ part = "patch" /\ Category(Patching)!Next /\ UNCHANGED <<part, vars, vDiff, vMaster, vAuthz>>
    \/ part = "plain" /\ Auth(Granting)!Next /\ UNCHANGED <<part, vars, vDiff, vMaster, vCategories, trail, txn>>
    \/ part = "joined" /\ Auth(Joining)!Next /\ UNCHANGED <<part, vars, vDiff, vMaster, vCategories, trail, txn>>

vAll == <<part, vars, vDiff, vMaster, vCategories, vAuthz, trail, txn>>
RecordsSpec == RecordsInit /\ [][RecordsNext]_vAll

\* The sets of different parts may share their members: only one moves.
Symmetry == UNION {Permutations(S) : S \in {Workers, Records}}

-----------------------------------------------------------------------------
(* Properties of the components that are instances. *)

\* The differences that the audit view shows, applied to what was there
\* before, give what is there after: nothing that changed is missing at any
\* depth, no field is shown twice and none that did not change.
DiffExact == part = "diff" => Diff!TypeOK /\ Diff!DiffRebuilds /\ Diff!DiffIsMinimal

\* No two records share a code, although codes are taken long before they
\* are committed and requests fail in between; and whatever requests ran at
\* the same time, the trail of a record ends with what the API shows; an item
\* has one rate for a unit, and no category a parent that is gone.
RecordsTraced ==
    /\ part = "codes" => Master(Coding)!CodesUnique
    /\ part = "trail" => Master(Tracing)!TypeOK /\ Master(Tracing)!TrailShowsRow
    /\ part = "tree" => Category(Rooting)!TypeOK
    /\ part = "patch" => Category(Patching)!TypeOK

\* The tree that the API returns holds every category with a chain of
\* parents up to the root exactly once, below its parent, and terminates
\* although the table may hold cycles (build_tree).
TreeShowsRooted == part = "tree" => Category(Rooting)!TreeShowsRooted

\* What a role of the user permits is allowed, and only what one permits now:
\* no thread decides by policies compiled before the roles changed.
PermitsExactly ==
    /\ part = "plain" => Auth(Granting)!TypeOK /\ Auth(Granting)!GrantedAllowed
    /\ part = "joined" => Auth(Joining)!OnlyGranted
=============================================================================
