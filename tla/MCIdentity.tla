----------------------------- MODULE MCIdentity -----------------------------
(***************************************************************************)
(* Who may log in and for how long, model-checked side by side: the token  *)
(* sessions (TokenSessions) and the accounts (Accounts).  part picks the   *)
(* component that moves, with the instance named after it; the others stay *)
(* in their initial state.                                                 *)
(***************************************************************************)
EXTENDS TokenSessions, TLC

CONSTANTS
    Ids, Names, Phones, SeedPhone, SeedPassword,    \* of Accounts
    ChainVersions, ChainRecords,                    \* bounds of Chain
    GuardVersions, GuardRecords                     \* bounds of Guard

VARIABLES
    part,
    rows, audit, events, served     \* of whichever instance of Accounts moves

vAccounts == <<rows, audit, events, served>>

-----------------------------------------------------------------------------
(* Instances. *)

\* Creations and updates, which the audit trail of an account chains.
Chain == INSTANCE Accounts WITH
    Ops <- {"create", "update"}, MaxVersion <- ChainVersions, MaxLog <- ChainRecords, req <- served

\* All operations, and servers that start and seed the administrator.
Guard == INSTANCE Accounts WITH
    Ops <- {"create", "seed", "update", "delete", "update_password", "reset_password"},
    MaxVersion <- GuardVersions, MaxLog <- GuardRecords, req <- served

ASSUME IdentityAssumption == Chain!AccountsAssumption /\ Guard!AccountsAssumption

-----------------------------------------------------------------------------
IdentityInit ==
    /\ part \in {"sessions", "chain", "guard"}
    /\ Init /\ Guard!Init

IdentityNext ==
    \/ part = "sessions" /\ Next /\ UNCHANGED <<part, vAccounts>>
    \/ part = "chain" /\ Chain!Next /\ UNCHANGED <<part, vars>>
    \/ part = "guard" /\ Guard!Next /\ UNCHANGED <<part, vars>>

vAll == <<part, vars, vAccounts>>
IdentitySpec == IdentityInit /\ [][IdentityNext]_vAll

\* The sets of different parts may share their members: only one moves.
Symmetry == UNION {Permutations(S) : S \in {Reqs, Tokens, Accounts, Ids}}

-----------------------------------------------------------------------------
(* Properties of the components that are instances. *)

\* What a committed write leaves behind: the audit records of an account chain
\* from its creation to its row, and account.created is published for exactly
\* the accounts whose creation committed (publish_in_tx, the outbox).
WritesRecorded ==
    /\ part = "chain" => Chain!TypeOK /\ Chain!AuditChain
    /\ Guard!CreatedEvents

\* Instances that start together, and restarts after any history of account
\* writes, leave at most one privileged account, for the second insert meets
\* the phone of the first; and that account keeps its name, phone and
\* privilege although the check and the write are different statements.
OneAdministrator == [][Guard!OnePrivileged' /\ Guard!KeepsPrivileged]_vAll
=============================================================================
