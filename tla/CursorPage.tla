----------------------------- MODULE CursorPage -----------------------------
(***************************************************************************)
(* shared_contract/query/cursor_page: the keyset pages that every search   *)
(* endpoint returns, beside the writers of the table.                      *)
(*                                                                         *)
(* A client walks down a list: it asks for a page, then for the page below *)
(* the cursor it got, and may change the limit on the way.  An id is drawn *)
(* before the row is committed, so rows appear in any order of their ids.  *)
(***************************************************************************)
EXTENDS Integers, FiniteSets

CONSTANTS
    Ids,            \* positive integers: the ids (tsid) rows may have
    Asked,          \* limits a client asks for; any integer
    DefaultLimit, MaxLimit

ASSUME PageAssumption ==
    /\ IsFiniteSet(Ids) /\ Ids \subseteq Nat \ {0}
    /\ Asked \subseteq Int
    /\ MaxLimit \in Nat \ {0} /\ DefaultLimit \in 1..MaxLimit

VARIABLES
    rows,       \* of each id: "unused", "hit" (matches the search), "other" or "deleted"
    phase,      \* the walk: "idle", "walking" or "done"
    cursor,     \* next_cursor of the last page, 0 before the first one
    listed,     \* ids on the pages so far
    twice,      \* history: ids that were listed a second time
    steady      \* history: rows that matched in every moment since the first page

vars == <<rows, phase, cursor, listed, twice, steady>>

Init ==
    /\ rows \in [Ids -> {"unused", "hit"}]
    /\ phase = "idle"
    /\ cursor = 0
    /\ listed = {} /\ twice = {} /\ steady = {}

-----------------------------------------------------------------------------
(* The writers. *)

Insert(i) ==
    /\ rows[i] = "unused"
    /\ \E r \in {"hit", "other"} : rows' = [rows EXCEPT ![i] = r]
    /\ UNCHANGED <<phase, cursor, listed, twice, steady>>

\* A rename, a change of status: the row enters or leaves the search.
Update(i) ==
    /\ rows[i] \in {"hit", "other"}
    /\ \E r \in {"hit", "other"} : rows' = [rows EXCEPT ![i] = r]
    /\ steady' = {j \in steady : rows'[j] = "hit"}
    /\ UNCHANGED <<phase, cursor, listed, twice>>

Delete(i) ==
    /\ rows[i] \in {"hit", "other"}
    /\ rows' = [rows EXCEPT ![i] = "deleted"]
    /\ steady' = steady \ {i}
    /\ UNCHANGED <<phase, cursor, listed, twice>>

-----------------------------------------------------------------------------
(* The pages. *)

Hits == {i \in Ids : rows[i] = "hit"}

\* limit.unwrap_or(DEFAULT_LIMIT).clamp(1, 100)
Limit(asked) == IF asked < 1 THEN 1 ELSE IF asked > MaxLimit THEN MaxLimit ELSE asked

\* Faulty form of Keyset: the last row of the page is fetched again.
KeysetInclusive == IF cursor = 0 THEN Hits ELSE {i \in Hits : i <= cursor}

\* The WHERE clause: col < cursor, if there is one.
Keyset == IF cursor = 0 THEN Hits ELSE {i \in Hits : i < cursor}

Above(S, i) == {j \in S : j > i}

\* ORDER BY col DESC LIMIT n
Top(S, n) == {i \in S : Cardinality(Above(S, i)) < n}

\* Faulty form of Finalize: the cursor is that of the row fetched in excess.
FinalizeExtra(fetched, limit) ==
    LET kept == Top(fetched, limit)
        extra == fetched \ kept
    IN  [items |-> kept,
         next |-> IF extra = {} THEN 0 ELSE CHOOSE i \in extra : TRUE]

\* Faulty form of Finalize: there is a cursor on the last page too.
FinalizeAlways(fetched, limit) ==
    LET kept == Top(fetched, limit)
    IN  [items |-> kept,
         next |-> IF kept = {} THEN cursor ELSE CHOOSE i \in kept : \A j \in kept : i <= j]

\* One row more than the limit says that there is another page.
Finalize(fetched, limit) ==
    LET kept == Top(fetched, limit)
    IN  [items |-> kept,
         next |-> IF fetched = kept THEN 0
                  ELSE CHOOSE i \in kept : \A j \in kept : i <= j]

Page(limit) == Finalize(Top(Keyset, limit + 1), limit)

\* Faulty form of Show: a client that does not look at next_cursor.
ShowEndless(page) ==
    /\ listed' = listed \cup page.items
    /\ twice' = twice \cup (listed \cap page.items)
    /\ cursor' = page.next
    /\ phase' = "walking"

\* CursorPagingResult: without a next_cursor the walk is over.
Show(page) ==
    /\ listed' = listed \cup page.items
    /\ twice' = twice \cup (listed \cap page.items)
    /\ cursor' = page.next
    /\ phase' = IF page.next = 0 THEN "done" ELSE "walking"

FirstPage ==
    /\ phase = "idle"
    /\ \E asked \in Asked \cup {DefaultLimit} : Show(Page(Limit(asked)))
    /\ steady' = Hits
    /\ UNCHANGED rows

NextPage ==
    /\ phase = "walking"
    /\ \E asked \in Asked \cup {DefaultLimit} : Show(Page(Limit(asked)))
    /\ UNCHANGED <<rows, steady>>

-----------------------------------------------------------------------------
Next ==
    \/ \E i \in Ids : Insert(i) \/ Update(i) \/ Delete(i)
    \/ FirstPage \/ NextPage

Spec == Init /\ [][Next]_vars

\* The client goes on asking, the writers never have to.
Fairness == WF_vars(NextPage)

FairSpec == Spec /\ Fairness

-----------------------------------------------------------------------------
(* Properties. *)

\* Type correctness.
TypeOK ==
    /\ rows \in [Ids -> {"unused", "hit", "other", "deleted"}]
    /\ phase \in {"idle", "walking", "done"}
    /\ cursor \in Ids \cup {0}
    /\ phase = "walking" <=> cursor # 0
    /\ listed \subseteq Ids /\ twice \subseteq Ids /\ steady \subseteq Hits

\* No row is on two pages, whatever is inserted, changed or deleted meanwhile.
ListedOnce == twice = {}

\* A walk that has ended has listed every row that matched all the time.
NothingMissed == phase = "done" => steady \subseteq listed

\* The inductive invariant: the walk is done with exactly the ids from the
\* cursor on.
IInv ==
    /\ TypeOK /\ ListedOnce
    /\ phase = "idle" => listed = {} /\ steady = {}
    /\ phase = "walking" => /\ \A i \in listed : i >= cursor
                            /\ \A i \in steady : i >= cursor => i \in listed
    /\ NothingMissed

\* A walk ends, though rows may be inserted all the time: below the cursor
\* there are ever fewer ids.
WalkEnds == phase = "walking" ~> phase = "done"
=============================================================================
