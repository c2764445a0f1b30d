--------------------------- MODULE Records_proofs ---------------------------
(***************************************************************************)
(* Proofs about the parts of MCRecords: that a walk through a list of any  *)
(* length lists no row twice and misses none that matched all the time;    *)
(* that access is what the roles permit now; that codes and trails stay    *)
(* right between the requests; that the tree of categories shows what      *)
(* hangs on a root, whatever cycles the table holds; and that the          *)
(* differences of two snapshots of any depth are exact.  An action of      *)
(* CursorPage keeps its name, the others are those of the instances Auth,  *)
(* Master, Category and Diff.                                              *)
(***************************************************************************)
EXTENDS MCRecords, FiniteSetTheorems, SequenceTheorems, SumLemmas, TLAPS

-----------------------------------------------------------------------------
(* CursorPage: a walk through a list. *)

Below(S, i) == {j \in S : j < i}

\* A limit, whatever the client asked for, is at least one: each page makes
\* progress.
LEMMA LimitPositive ==
    ASSUME NEW asked \in Asked \cup {DefaultLimit}
    PROVE  Limit(asked) \in Nat \ {0}
<1>1. asked \in Int
  BY PageAssumption
<1> QED
  BY <1>1, PageAssumption DEF Limit

LEMMA IdsInt ==
    \A i \in Ids : i \in Int
BY PageAssumption

LEMMA IdsFinite ==
    ASSUME NEW S \in SUBSET Ids
    PROVE  IsFiniteSet(S)
BY PageAssumption, FS_Subset

\* A set of ids has a largest and a smallest element: the sets of the ids
\* above, or below, an id are well-founded by inclusion.
LEMMA MaxExists ==
    ASSUME NEW S \in SUBSET Ids, S # {}
    PROVE  \E m \in S : \A j \in S : j <= m
<1>1. PICK T : T = {Above(S, i) : i \in S}
  OBVIOUS
<1>2. T \subseteq FiniteSubsetsOf(Ids) /\ T # {}
  <2>1. \A i \in S : Above(S, i) \in SUBSET Ids
    BY DEF Above
  <2> QED
    BY <1>1, <2>1, IdsFinite DEF FiniteSubsetsOf
<1>3. PICK x \in T : \A y \in T : ~(<<y, x>> \in StrictSubsetOrdering(Ids))
  BY <1>2, FS_StrictSubsetOrderingWellFounded, WFMin
<1>4. PICK m \in S : x = Above(S, m)
  BY <1>1, <1>3
<1>5. ASSUME NEW j \in S, j > m
      PROVE  FALSE
  <2>1. Above(S, j) \subseteq Above(S, m) /\ j \in Above(S, m) /\ j \notin Above(S, j)
    BY <1>5, IdsInt DEF Above
  <2>2. Above(S, j) \in SUBSET Ids /\ x \in SUBSET Ids
    BY <1>4 DEF Above
  <2>3. <<Above(S, j), x>> \in StrictSubsetOrdering(Ids)
    BY <2>1, <2>2, <1>4 DEF StrictSubsetOrdering
  <2>4. Above(S, j) \in T
    BY <1>1
  <2> QED
    BY <2>3, <2>4, <1>3
<1> QED
  BY <1>5, IdsInt

LEMMA MinExists ==
    ASSUME NEW S \in SUBSET Ids, S # {}
    PROVE  \E m \in S : \A j \in S : m <= j
<1>1. PICK T : T = {Below(S, i) : i \in S}
  OBVIOUS
<1>2. T \subseteq FiniteSubsetsOf(Ids) /\ T # {}
  <2>1. \A i \in S : Below(S, i) \in SUBSET Ids
    BY DEF Below
  <2> QED
    BY <1>1, <2>1, IdsFinite DEF FiniteSubsetsOf
<1>3. PICK x \in T : \A y \in T : ~(<<y, x>> \in StrictSubsetOrdering(Ids))
  BY <1>2, FS_StrictSubsetOrderingWellFounded, WFMin
<1>4. PICK m \in S : x = Below(S, m)
  BY <1>1, <1>3
<1>5. ASSUME NEW j \in S, j < m
      PROVE  FALSE
  <2>1. Below(S, j) \subseteq Below(S, m) /\ j \in Below(S, m) /\ j \notin Below(S, j)
    BY <1>5, IdsInt DEF Below
  <2>2. Below(S, j) \in SUBSET Ids /\ x \in SUBSET Ids
    BY <1>4 DEF Below
  <2>3. <<Below(S, j), x>> \in StrictSubsetOrdering(Ids)
    BY <2>1, <2>2, <1>4 DEF StrictSubsetOrdering
  <2>4. Below(S, j) \in T
    BY <1>1
  <2> QED
    BY <2>3, <2>4, <1>3
<1> QED
  BY <1>5, IdsInt

\* ORDER BY col DESC LIMIT n takes rows from the top: whatever is above a row
\* that was taken was taken too.
LEMMA TopUpward ==
    ASSUME NEW S \in SUBSET Ids, NEW n \in Nat, NEW i \in Top(S, n), NEW j \in S, j > i
    PROVE  j \in Top(S, n)
<1>1. i \in S /\ Cardinality(Above(S, i)) < n
  BY DEF Top
<1>2. Above(S, j) \subseteq Above(S, i) /\ Above(S, i) \in SUBSET Ids
  BY <1>1, IdsInt DEF Above
<1>3. IsFiniteSet(Above(S, i))
  BY <1>2, IdsFinite
<1>4. /\ IsFiniteSet(Above(S, j))
      /\ Cardinality(Above(S, j)) <= Cardinality(Above(S, i))
  BY <1>2, <1>3, FS_Subset
<1>5. /\ Cardinality(Above(S, i)) \in Nat
      /\ Cardinality(Above(S, j)) \in Nat
  BY <1>3, <1>4, FS_CardinalityType
<1>6. Cardinality(Above(S, j)) < n
  BY <1>1, <1>4, <1>5
<1> QED
  BY <1>6 DEF Top

\* The topmost row has none above it.
LEMMA TopNonEmpty ==
    ASSUME NEW S \in SUBSET Ids, S # {}, NEW n \in Nat \ {0}
    PROVE  Top(S, n) # {}
<1>1. PICK m \in S : \A i \in S : i <= m
  BY MaxExists
<1>2. Above(S, m) = {}
  BY <1>1, IdsInt DEF Above
<1>3. Cardinality(Above(S, m)) = 0
  BY <1>2, FS_EmptySet
<1>4. Cardinality(Above(S, m)) < n
  BY <1>3
<1> QED
  BY <1>4 DEF Top

\* If a page keeps everything that was fetched with one row more than its
\* limit, it has everything there is.
LEMMA NothingMore ==
    ASSUME NEW S \in SUBSET Ids, NEW n \in Nat \ {0},
           Top(Top(S, n + 1), n) = Top(S, n + 1)
    PROVE  Top(S, n + 1) = S
<1>1. PICK F : F = Top(S, n + 1)
  OBVIOUS
<1>2. F \in SUBSET Ids /\ F \subseteq S
  BY <1>1 DEF Top
<1>3. SUFFICES ASSUME S \ F # {} PROVE FALSE
  BY <1>1, <1>2
<1>4. F # {}
  <2>1. S # {} /\ n + 1 \in Nat \ {0}
    BY <1>3
  <2> QED
    BY <2>1, <1>1, TopNonEmpty
<1>5. PICK m \in F : \A j \in F : m <= j
  BY <1>2, <1>4, MinExists
<1>6. Cardinality(Above(F, m)) < n
  BY <1>1, <1>5 DEF Top
<1>7. IsFiniteSet(Above(F, m)) /\ m \notin Above(F, m) /\ F = Above(F, m) \cup {m}
  <2>1. Above(F, m) \in SUBSET Ids
    BY <1>2 DEF Above
  <2>2. IsFiniteSet(Above(F, m))
    BY <2>1, IdsFinite
  <2> QED
    BY <2>2, <1>2, <1>5, IdsInt DEF Above
<1>8. Cardinality(F) <= n /\ Cardinality(F) \in Nat /\ IsFiniteSet(F)
  <2>1. IsFiniteSet(F) /\ Cardinality(F) = Cardinality(Above(F, m)) + 1
    BY <1>7, FS_AddElement
  <2>2. Cardinality(Above(F, m)) \in Nat
    BY <1>7, FS_CardinalityType
  <2> QED
    BY <2>1, <2>2, <1>6
<1>9. PICK k \in S \ F : \A j \in S \ F : j <= k
  <2>1. S \ F \in SUBSET Ids
    OBVIOUS
  <2> QED
    BY <2>1, <1>3, MaxExists
<1>10. Above(S, k) \subseteq F
  BY <1>9, IdsInt DEF Above
<1>11. Cardinality(Above(S, k)) <= n
  <2>1. /\ IsFiniteSet(Above(S, k))
        /\ Cardinality(Above(S, k)) <= Cardinality(F)
    BY <1>8, <1>10, FS_Subset
  <2>2. Cardinality(Above(S, k)) \in Nat
    BY <2>1, FS_CardinalityType
  <2> QED
    BY <1>8, <2>1, <2>2
<1>12. Cardinality(Above(S, k)) \in Nat
  <2>1. IsFiniteSet(Above(S, k))
    BY <1>8, <1>10, FS_Subset
  <2> QED
    BY <2>1, FS_CardinalityType
<1>13. Cardinality(Above(S, k)) < n + 1
  BY <1>11, <1>12
<1> QED
  BY <1>1, <1>9, <1>13 DEF Top

\* What a page tells the client: its items are rows below the cursor it came
\* with, and the next cursor separates what was listed from what was not.
LEMMA PageFacts ==
    ASSUME TypeOK, NEW n \in Nat \ {0}
    PROVE  /\ Page(n).items \subseteq Keyset
           /\ Page(n).next = 0 => Page(n).items = Keyset
           /\ Page(n).next # 0 =>
                /\ Page(n).next \in Page(n).items
                /\ \A i \in Page(n).items : i >= Page(n).next
                /\ \A i \in Keyset : i >= Page(n).next => i \in Page(n).items
<1>1. PICK S : S = Keyset
  OBVIOUS
<1>2. S \in SUBSET Ids
  BY <1>1 DEF Keyset, Hits
<1>3. PICK F : F = Top(S, n + 1)
  OBVIOUS
<1>4. PICK K : K = Top(F, n)
  OBVIOUS
<1>5. F \in SUBSET Ids /\ F \subseteq S /\ K \subseteq F /\ K \in SUBSET Ids
  BY <1>2, <1>3, <1>4 DEF Top
<1>6. /\ Page(n).items = K
      /\ Page(n).next = IF F = K THEN 0
                        ELSE CHOOSE i \in K : \A j \in K : i <= j
  BY <1>1, <1>3, <1>4 DEF Page, Finalize
<1>7. CASE F = K
  <2>1. K = S
    BY <1>2, <1>3, <1>4, <1>7, NothingMore
  <2>2. Page(n).next = 0
    BY <1>6, <1>7
  <2> QED
    BY <1>1, <1>6, <2>1, <2>2
<1>8. CASE F # K
  <2>1. F # {} /\ K # {}
    <3>1. F # {}
      BY <1>5, <1>8
    <3> QED
      BY <3>1, <1>4, <1>5, TopNonEmpty
  <2>2. PICK c : c = Page(n).next
    OBVIOUS
  <2>3. c \in K /\ \A j \in K : c <= j
    <3>1. \E i \in K : \A j \in K : i <= j
      BY <1>5, <2>1, MinExists
    <3> QED
      BY <3>1, <1>6, <1>8, <2>2
  <2>4. c \in Ids /\ c \in Int /\ c # 0
    BY <1>5, <2>3, PageAssumption
  <2>5. ASSUME NEW i \in S, i >= c
        PROVE  i \in K
    <3>1. i \in Int
      BY <1>2, IdsInt
    <3>2. CASE i = c
      BY <3>2, <2>3
    <3>3. CASE i # c
      <4>1. i > c
        BY <3>1, <3>3, <2>4, <2>5
      <4>2. c \in F
        BY <1>5, <2>3
      <4>3. i \in F
        <5>1. n + 1 \in Nat /\ c \in Top(S, n + 1)
          BY <4>2, <1>3
        <5> QED
          BY <5>1, <4>1, <1>2, <1>3, TopUpward
      <4>4. n \in Nat /\ c \in Top(F, n)
        BY <2>3, <1>4
      <4> QED
        BY <4>1, <4>3, <4>4, <1>4, <1>5, TopUpward
    <3> QED
      BY <3>2, <3>3
  <2>6. \A i \in K : i >= c
    BY <1>5, <2>3, <2>4, IdsInt
  <2> QED
    BY <1>1, <1>5, <1>6, <2>2, <2>3, <2>4, <2>5, <2>6
<1> QED
  BY <1>7, <1>8

-----------------------------------------------------------------------------
LEMMA InitInv == Init => IInv
BY PageAssumption DEF Init, IInv, TypeOK, ListedOnce, NothingMissed, Hits

\* A row that enters the search is not one that matched all the time.
LEMMA InsertInv ==
    ASSUME IInv, NEW i \in Ids, Insert(i)
    PROVE  IInv'
<1>1. Hits \subseteq Hits'
  BY DEF Insert, Hits, IInv, TypeOK
<1>2. rows' \in [Ids -> {"unused", "hit", "other", "deleted"}]
  BY DEF Insert, IInv, TypeOK
<1>3. TypeOK'
  BY <1>1, <1>2 DEF Insert, IInv, TypeOK
<1> QED
  BY <1>3 DEF Insert, IInv, ListedOnce, NothingMissed

LEMMA UpdateInv ==
    ASSUME IInv, NEW i \in Ids, Update(i)
    PROVE  IInv'
<1>1. rows' \in [Ids -> {"unused", "hit", "other", "deleted"}]
  BY DEF Update, IInv, TypeOK
<1>2. steady' \subseteq Hits' /\ steady' \subseteq steady
  BY DEF Update, Hits, IInv, TypeOK
<1>3. TypeOK'
  BY <1>1, <1>2 DEF Update, IInv, TypeOK
<1> QED
  BY <1>2, <1>3 DEF Update, IInv, ListedOnce, NothingMissed

LEMMA DeleteInv ==
    ASSUME IInv, NEW i \in Ids, Delete(i)
    PROVE  IInv'
<1>1. rows' \in [Ids -> {"unused", "hit", "other", "deleted"}]
  BY DEF Delete, IInv, TypeOK
<1>2. steady' \subseteq Hits' /\ steady' \subseteq steady
  BY DEF Delete, Hits, IInv, TypeOK
<1>3. TypeOK'
  BY <1>1, <1>2 DEF Delete, IInv, TypeOK
<1> QED
  BY <1>2, <1>3 DEF Delete, IInv, ListedOnce, NothingMissed

\* A page, the first one or a later one, shown to a client whose list so far
\* is what the cursor says.
LEMMA ShowInv ==
    ASSUME IInv, NEW n \in Nat \ {0}, Show(Page(n)), UNCHANGED rows,
           phase \in {"idle", "walking"},
           steady' = IF phase = "idle" THEN Hits ELSE steady
    PROVE  IInv'
<1>1. PICK p : p = Page(n)
  OBVIOUS
<1>2. /\ p.items \subseteq Keyset
      /\ p.next = 0 => p.items = Keyset
      /\ p.next # 0 =>
           /\ p.next \in p.items
           /\ \A i \in p.items : i >= p.next
           /\ \A i \in Keyset : i >= p.next => i \in p.items
  BY <1>1, PageFacts DEF IInv
<1>3. /\ listed' = listed \cup p.items
      /\ twice' = twice \cup (listed \cap p.items)
      /\ cursor' = p.next
      /\ phase' = IF p.next = 0 THEN "done" ELSE "walking"
  BY <1>1 DEF Show
<1>4. Hits' = Hits /\ Keyset \subseteq Hits /\ Hits \subseteq Ids
  BY DEF Hits, Keyset
<1>5. steady' \subseteq Hits'
  BY <1>4 DEF IInv, TypeOK
<1>6. \A i \in listed : i \notin Keyset
  <2>1. CASE phase = "idle"
    BY <2>1 DEF IInv
  <2>2. CASE phase = "walking"
    <3>1. cursor # 0 /\ \A i \in listed : i \in Ids /\ i >= cursor
      BY <2>2 DEF IInv, TypeOK
    <3>2. cursor \in Int
      BY <3>1, IdsInt DEF IInv, TypeOK
    <3> QED
      BY <3>1, <3>2, IdsInt DEF Keyset
  <2> QED
    BY <2>1, <2>2
<1>7. twice' = {}
  BY <1>2, <1>3, <1>6 DEF IInv, ListedOnce
<1>8. \A i \in steady' : i \in listed \/ i \in Keyset
  <2>1. CASE phase = "idle"
    <3>1. cursor = 0
      BY <2>1 DEF IInv, TypeOK
    <3> QED
      BY <2>1, <3>1 DEF Keyset
  <2>2. CASE phase = "walking"
    <3>1. cursor # 0 /\ cursor \in Ids /\ steady' = steady
      BY <2>2 DEF IInv, TypeOK
    <3>2. ASSUME NEW i \in steady, i \notin listed
          PROVE  i \in Keyset
      <4>1. i \in Hits /\ i \in Int /\ cursor \in Int
        BY <1>4, <3>1, IdsInt DEF IInv, TypeOK
      <4>2. ~(i >= cursor)
        BY <2>2, <3>2 DEF IInv
      <4> QED
        BY <3>1, <4>1, <4>2 DEF Keyset
    <3> QED
      BY <3>1, <3>2
  <2> QED
    BY <2>1, <2>2
<1>9. TypeOK'
  <2>1. rows' \in [Ids -> {"unused", "hit", "other", "deleted"}]
    BY DEF IInv, TypeOK
  <2>2. listed' \subseteq Ids /\ twice' \subseteq Ids
    BY <1>2, <1>3, <1>4, <1>7 DEF IInv, TypeOK
  <2>3. cursor' \in Ids \cup {0} /\ phase' \in {"idle", "walking", "done"}
    BY <1>2, <1>3, <1>4
  <2>4. phase' = "walking" <=> cursor' # 0
    BY <1>3
  <2> QED
    BY <2>1, <2>2, <2>3, <2>4, <1>5 DEF TypeOK
<1>10. CASE p.next = 0
  <2>1. phase' = "done" /\ steady' \subseteq listed'
    BY <1>2, <1>3, <1>8, <1>10
  <2> QED
    BY <2>1, <1>7, <1>9 DEF IInv, ListedOnce, NothingMissed
<1>11. CASE p.next # 0
  <2>1. phase' = "walking" /\ cursor' = p.next
    BY <1>3, <1>11
  <2>2. p.next \in Keyset /\ p.next \in Int
    BY <1>2, <1>4, <1>11, IdsInt
  <2>3. \A i \in listed : i >= p.next
    <3>1. CASE phase = "idle"
      BY <3>1 DEF IInv
    <3>2. CASE phase = "walking"
      <4>1. cursor # 0 /\ cursor \in Int /\ p.next < cursor
        BY <3>2, <2>2, IdsInt DEF IInv, TypeOK, Keyset
      <4>2. ASSUME NEW i \in listed
            PROVE  i >= p.next
        <5>1. i >= cursor /\ i \in Int
          BY <3>2, IdsInt DEF IInv, TypeOK
        <5> QED
          BY <5>1, <4>1, <2>2
      <4> QED
        BY <4>2
    <3> QED
      BY <3>1, <3>2
  <2>4. \A i \in listed' : i >= cursor'
    BY <1>2, <1>3, <1>11, <2>1, <2>3
  <2>5. \A i \in steady' : i >= cursor' => i \in listed'
    BY <1>2, <1>3, <1>8, <1>11, <2>1
  <2> QED
    BY <2>1, <2>4, <2>5, <1>7, <1>9 DEF IInv, ListedOnce, NothingMissed
<1> QED
  BY <1>10, <1>11

LEMMA FirstPageInv ==
    ASSUME IInv, FirstPage
    PROVE  IInv'
<1>1. PICK asked \in Asked \cup {DefaultLimit} : Show(Page(Limit(asked)))
  BY DEF FirstPage
<1>2. Limit(asked) \in Nat \ {0}
  BY LimitPositive
<1>3. phase = "idle" /\ steady' = Hits /\ UNCHANGED rows
  BY DEF FirstPage
<1> QED
  BY <1>1, <1>2, <1>3, ShowInv

LEMMA NextPageInv ==
    ASSUME IInv, NextPage
    PROVE  IInv'
<1>1. PICK asked \in Asked \cup {DefaultLimit} : Show(Page(Limit(asked)))
  BY DEF NextPage
<1>2. Limit(asked) \in Nat \ {0}
  BY LimitPositive
<1>3. phase = "walking" /\ steady' = steady /\ UNCHANGED rows
  BY DEF NextPage
<1> QED
  BY <1>1, <1>2, <1>3, ShowInv

LEMMA StutterInv ==
    ASSUME IInv, UNCHANGED vars
    PROVE  IInv'
BY DEF IInv, TypeOK, ListedOnce, NothingMissed, Hits, vars

LEMMA StepInv == IInv /\ [Next]_vars => IInv'
<1>1. SUFFICES ASSUME IInv, [Next]_vars PROVE IInv'
  OBVIOUS
<1>2. CASE \E i \in Ids : Insert(i) \/ Update(i) \/ Delete(i)
  BY <1>1, <1>2, InsertInv, UpdateInv, DeleteInv
<1>3. CASE FirstPage
  BY <1>1, <1>3, FirstPageInv
<1>4. CASE NextPage
  BY <1>1, <1>4, NextPageInv
<1>5. CASE UNCHANGED vars
  BY <1>1, <1>5, StutterInv
<1> QED
  BY <1>1, <1>2, <1>3, <1>4, <1>5 DEF Next

\* The inductive invariant of a walk: the client has been through exactly the
\* ids from its cursor on.
THEOREM WalkInvariant == Spec => []IInv
BY InitInv, StepInv, PTL DEF Spec

\* Type correctness; in it, that a walk goes on as long as it has a cursor.
THEOREM PageTypes == Spec => []TypeOK
<1>1. IInv => TypeOK
  BY DEF IInv
<1> QED
  BY <1>1, WalkInvariant, PTL

\* No row is listed twice by the pages of one walk, whatever limits the client
\* asks for and whatever the writers do between two pages.
THEOREM NoRowTwice == Spec => []ListedOnce
<1>1. IInv => ListedOnce
  BY DEF IInv
<1> QED
  BY <1>1, WalkInvariant, PTL

\* The pages of a walk that has ended list every row that matched throughout.
THEOREM NoRowMissed == Spec => []NothingMissed
<1>1. IInv => NothingMissed
  BY DEF IInv
<1> QED
  BY <1>1, WalkInvariant, PTL

-----------------------------------------------------------------------------
(* Auth: permissions and what is compiled from them. *)

\* A list of permissions whose actions are known.
AuthLists(c) == UNION {[1..n -> Auth(c)!Permissions] : n \in Nat}
AuthCall(c) == [req: Auth(c)!Requests, policies: Auth(c)!Compiled \cup {Nobody}]

AuthTypes(c) ==
    /\ perms \in [c.roles -> AuthLists(c) \cup {Nobody}]
    /\ \A r \in c.roles : perms[r] # Nobody =>
         \A i \in DOMAIN perms[r] : /\ perms[r][i] \in Auth(c)!Permissions
                                    /\ perms[r][i].action \in known \cup {All}
    /\ known \subseteq c.actions
    /\ DOMAIN call = Workers /\ call = [t \in Workers |-> call[t]]

\* What is cached, held by a thread or was decided by is compiled from the
\* permissions as they are.
AuthCurrent(c) ==
    /\ cached # Nobody => cached \in Auth(c)!Compiled
    /\ \A t \in Workers : call[t] # Nobody => call[t] \in AuthCall(c)
    /\ result # Nobody =>
         \E S \in Auth(c)!Compiled, req \in Auth(c)!Requests :
           result = [req |-> req, allowed |-> Auth(c)!Decision(S, req)]

Governed(c) == Auth(c)!AuthzAssumption
AuthInv(c) == AuthTypes(c) /\ AuthCurrent(c)

\* The invariant holds at the start.
LEMMA AuthInit == ASSUME NEW CONSTANT c, Auth(c)!Init PROVE AuthInv(c)
BY DEF Auth!Init, AuthInv, AuthTypes, AuthCurrent

\* The roles change: nobody holds policies, and none are kept.
LEMMA AuthChange ==
    ASSUME NEW CONSTANT c, Governed(c), AuthInv(c),
           \/ \E r \in c.roles : Auth(c)!SetRolePermissions(r) \/ Auth(c)!RemoveRole(r)
           \/ Auth(c)!Clear
    PROVE  AuthInv(c)'
<1>1. /\ \A t \in Workers : call'[t] = Nobody
      /\ cached' = Nobody /\ result' = Nobody /\ call' = call
  BY DEF Auth!SetRolePermissions, Auth!RemoveRole, Auth!Clear, Auth!Exclusive
<1>2. AuthCurrent(c)'
  BY <1>1 DEF AuthCurrent
<1>3. AuthTypes(c)'
  <2>1. CASE \E r \in c.roles : Auth(c)!SetRolePermissions(r)
    <3>0. PICK r \in c.roles : Auth(c)!SetRolePermissions(r)
      BY <2>1
    <3>1. PICK list \in Auth(c)!Lists :
            /\ perms' = [perms EXCEPT ![r] = list]
            /\ known' = known \cup ({list[i].action : i \in DOMAIN list} \ {All})
      BY <3>0 DEF Auth!SetRolePermissions
    <3>n. PICK n \in 0..c.permissions : list \in [1..n -> Auth(c)!Permissions]
      BY DEF Auth!Lists
    <3>2. list \in AuthLists(c) /\ DOMAIN list = 1..n
      <4>1. n \in Nat
        BY DEF Governed, Auth!AuthzAssumption
      <4> QED
        BY <3>n, <4>1 DEF AuthLists
    <3>3. \A i \in DOMAIN list : /\ list[i] \in Auth(c)!Permissions
                                 /\ list[i].action \in known' \cup {All}
                                 /\ list[i].action \in c.actions \cup {All}
      BY <3>1, <3>2, <3>n DEF Auth!Permissions
    <3>4. \A q \in c.roles : perms'[q] = IF q = r THEN list ELSE perms[q]
      BY <3>1 DEF AuthInv, AuthTypes
    <3>5. perms' \in [c.roles -> AuthLists(c) \cup {Nobody}]
      BY <3>1, <3>2 DEF AuthInv, AuthTypes
    <3>6. \A q \in c.roles : perms'[q] # Nobody =>
            \A i \in DOMAIN perms'[q] : /\ perms'[q][i] \in Auth(c)!Permissions
                                        /\ perms'[q][i].action \in known' \cup {All}
      BY <3>1, <3>3, <3>4 DEF AuthInv, AuthTypes
    <3>7. known' \subseteq c.actions
      BY <3>1, <3>3 DEF AuthInv, AuthTypes
    <3> QED
      BY <1>1, <3>5, <3>6, <3>7 DEF AuthInv, AuthTypes
  <2>2. CASE \E r \in c.roles : Auth(c)!RemoveRole(r)
    BY <1>1, <2>2 DEF Auth!RemoveRole, AuthInv, AuthTypes
  <2>3. CASE Auth(c)!Clear
    BY <1>1, <2>3 DEF Auth!Clear, AuthInv, AuthTypes
  <2> QED
    BY <2>1, <2>2, <2>3
<1> QED
  BY <1>2, <1>3 DEF AuthInv

\* Decisions change no permission: what was compiled stays current.
LEMMA AuthDecide ==
    ASSUME NEW CONSTANT c, AuthInv(c),
           \/ \E a \in c.actions : Auth(c)!RegisterAction(a)
           \/ \E t \in Workers : Auth(c)!LookUp(t) \/ Auth(c)!Compile(t) \/ Auth(c)!Decide(t)
           \/ UNCHANGED <<perms, known, cached, call, result>>
    PROVE  AuthInv(c)'
<1>1. perms' = perms
  BY DEF Auth!RegisterAction, Auth!LookUp, Auth!Compile, Auth!Decide
<1>2. /\ Auth(c)!Compiled' = Auth(c)!Compiled /\ AuthCall(c)' = AuthCall(c)
      /\ \A S, req : Auth(c)!Decision(S, req)' = Auth(c)!Decision(S, req)
  BY <1>1 DEF Auth!Compiled, Auth!Policies, AuthCall, Auth!Requests, Auth!Decision, Auth!Covers
<1>3. ASSUME NEW t \in Workers, Auth(c)!LookUp(t) PROVE AuthInv(c)'
  <2>1. PICK req \in Auth(c)!Requests : call' = [call EXCEPT ![t] = [req |-> req, policies |-> cached]]
    BY <1>3 DEF Auth!LookUp
  <2>2. UNCHANGED <<known, cached, result>>
    BY <1>3 DEF Auth!LookUp
  <2>3. [req |-> req, policies |-> cached] \in AuthCall(c)
    BY DEF AuthInv, AuthCurrent, AuthCall
  <2>4. call' = [s \in Workers |-> IF s = t THEN [req |-> req, policies |-> cached] ELSE call[s]]
    BY <2>1 DEF AuthInv, AuthTypes
  <2> QED
    BY <1>1, <1>2, <2>2, <2>3, <2>4 DEF AuthInv, AuthTypes, AuthCurrent
<1>4. ASSUME NEW t \in Workers, Auth(c)!Compile(t) PROVE AuthInv(c)'
  <2>1. /\ cached' # Nobody => cached' \in Auth(c)!Compiled
        /\ call' = [call EXCEPT ![t].policies = cached'] /\ call[t] # Nobody /\ UNCHANGED <<known, result>>
    BY <1>4 DEF Auth!Compile, AuthInv, AuthCurrent
  <2>2. PICK y : y = [call[t] EXCEPT !.policies = cached']
    OBVIOUS
  <2>3. y \in AuthCall(c)
    <3>1. call[t] \in AuthCall(c)
      BY <2>1 DEF AuthInv, AuthCurrent
    <3> QED
      BY <2>1, <2>2, <3>1 DEF AuthCall
  <2>4. call' = [s \in Workers |-> IF s = t THEN y ELSE call[s]]
    BY <2>1, <2>2 DEF AuthInv, AuthTypes
  <2> QED
    BY <1>1, <1>2, <2>1, <2>3, <2>4 DEF AuthInv, AuthTypes, AuthCurrent
<1>5. ASSUME NEW t \in Workers, Auth(c)!Decide(t) PROVE AuthInv(c)'
  <2>1. /\ call[t] # Nobody /\ call[t].policies # Nobody
        /\ result' = [req |-> call[t].req, allowed |-> Auth(c)!Decision(call[t].policies, call[t].req)]
        /\ call' = [call EXCEPT ![t] = Nobody] /\ UNCHANGED <<known, cached>>
    BY <1>5 DEF Auth!Decide
  <2>2. call[t].req \in Auth(c)!Requests /\ call[t].policies \in Auth(c)!Compiled
    BY <2>1 DEF AuthInv, AuthCurrent, AuthCall
  <2>3. call' = [s \in Workers |-> IF s = t THEN Nobody ELSE call[s]]
    BY <2>1 DEF AuthInv, AuthTypes
  <2>4. \E S \in Auth(c)!Compiled, req \in Auth(c)!Requests :
          result' = [req |-> req, allowed |-> Auth(c)!Decision(S, req)]
    BY <2>1, <2>2
  <2>5. AuthTypes(c)'
    BY <1>1, <2>1, <2>3 DEF AuthInv, AuthTypes
  <2>6. AuthCurrent(c)'
    BY <1>2, <2>1, <2>3, <2>4 DEF AuthInv, AuthCurrent
  <2> QED
    BY <2>5, <2>6 DEF AuthInv
<1>6. ASSUME NEW a \in c.actions, Auth(c)!RegisterAction(a) PROVE AuthInv(c)'
  BY <1>1, <1>2, <1>6 DEF Auth!RegisterAction, AuthInv, AuthTypes, AuthCurrent
<1>7. ASSUME UNCHANGED <<perms, known, cached, call, result>> PROVE AuthInv(c)'
  BY <1>2, <1>7 DEF AuthInv, AuthTypes, AuthCurrent
<1> QED
  BY <1>3, <1>4, <1>5, <1>6, <1>7

\* What the invariant says of types and decisions.
LEMMA AuthTypeOK == ASSUME NEW CONSTANT c, AuthInv(c) PROVE Auth(c)!TypeOK
BY DEF AuthInv, AuthTypes, AuthCurrent, AuthCall, Auth!TypeOK

\* A policy in the compiled set is a permission of its role.
LEMMA AuthOnlyGranted == ASSUME NEW CONSTANT c, AuthInv(c) PROVE Auth(c)!OnlyGranted
<1>1. SUFFICES ASSUME NEW S \in Auth(c)!Compiled, NEW req \in Auth(c)!Requests, Auth(c)!Decision(S, req)
               PROVE  Auth(c)!Granted(req)
  BY DEF AuthInv, AuthCurrent, Auth!OnlyGranted
<1>2. CASE req.privileged
  BY <1>2 DEF Auth!Granted
<1>3. ASSUME NEW p \in S, p.role \in req.roles, Auth(c)!Covers(p.perm, req.action) PROVE Auth(c)!Granted(req)
  <2>1. PICK r \in c.roles : p \in Auth(c)!Policies(r)
    BY DEF Auth!Compiled
  <2>2. perms[r] # Nobody /\ \E i \in DOMAIN perms[r] : p.role = r /\ p.perm = perms[r][i]
    BY <2>1 DEF Auth!Policies
  <2> QED
    BY <1>3, <2>2 DEF Auth!Granted
<1> QED
  BY <1>1, <1>2, <1>3 DEF Auth!Decision

\* The ids of policies tell roles and actions apart, and every permission is
\* for the type that resources have.
PoliciesApart(c) ==
    /\ c.types \subseteq {Resource}
    /\ <<"all">> \notin c.actions
    /\ \A r, q \in c.roles, a, b \in c.actions \cup {<<"all">>} : r \o a = q \o b => r = q /\ a = b

\* Of the policies of a role with one id, the last is compiled.
LEMMA AuthLast ==
    ASSUME NEW CONSTANT c, AuthInv(c), NEW r \in c.roles, NEW p \in Auth(c)!Policies(r)
    PROVE  \E l \in Auth(c)!Policies(r) : /\ l.id = p.id
                                          /\ \A q \in Auth(c)!Policies(r) : q.id = p.id => q.at <= l.at
<1>1. PICK n \in Nat : perms[r] \in [1..n -> Auth(c)!Permissions]
  BY DEF Auth!Policies, AuthInv, AuthTypes, AuthLists
<1>2. \A q \in Auth(c)!Policies(r) : q.at \in 1..n
  BY <1>1 DEF Auth!Policies
<1> DEFINE Left == {k \in Nat : \E q \in Auth(c)!Policies(r) : q.id = p.id /\ k = n - q.at}
<1>3. n - p.at \in Left
  BY <1>2
<1>4. PICK k \in Left : \A j \in Left : k <= j
  <2>1. Left \subseteq Nat /\ Left # {}
    BY <1>3
  <2> HIDE DEF Left
  <2> QED
    BY <2>1, LeastNat
<1>5. PICK l \in Auth(c)!Policies(r) : l.id = p.id /\ k = n - l.at
  BY <1>4
<1>6. ASSUME NEW q \in Auth(c)!Policies(r), q.id = p.id PROVE q.at <= l.at
  <2>1. q.at \in 1..n /\ l.at \in 1..n
    BY <1>2
  <2>2. n - q.at \in Left
    BY <1>6, <2>1
  <2>3. n - l.at <= n - q.at
    BY <1>4, <1>5, <2>2
  <2> QED
    BY <2>1, <2>3
<1> QED
  BY <1>5, <1>6

\* Whoever has one id has one role and one action.
LEMMA AuthSameId ==
    ASSUME NEW CONSTANT c, AuthInv(c), PoliciesApart(c), NEW r \in c.roles, NEW q \in c.roles,
           NEW p \in Auth(c)!Policies(r), NEW s \in Auth(c)!Policies(q), p.id = s.id
    PROVE  r = q /\ p.perm.action = s.perm.action
<1>1. /\ p.perm \in Auth(c)!Permissions /\ p.id = Auth(c)!PolicyId(r, p.perm)
      /\ s.perm \in Auth(c)!Permissions /\ s.id = Auth(c)!PolicyId(q, s.perm)
  BY DEF Auth!Policies, AuthInv, AuthTypes
<1> DEFINE name(x) == IF x.action = All THEN <<"all">> ELSE x.action
<1>2. /\ p.id = r \o name(p.perm) /\ s.id = q \o name(s.perm)
      /\ name(p.perm) \in c.actions \cup {<<"all">>} /\ name(s.perm) \in c.actions \cup {<<"all">>}
  BY <1>1 DEF Auth!PolicyId, Auth!Permissions
<1>3. r = q /\ name(p.perm) = name(s.perm)
  <2> HIDE DEF name
  <2> QED
    BY <1>2 DEF PoliciesApart
<1>4. p.perm.action \in c.actions \cup {All} /\ s.perm.action \in c.actions \cup {All}
  BY <1>1 DEF Auth!Permissions
<1>5. p.perm.action = s.perm.action
  BY <1>3, <1>4 DEF PoliciesApart
<1> QED
  BY <1>3, <1>5

\* With the names apart, a permission of a role is compiled.
LEMMA AuthGrantedAllowed ==
    ASSUME NEW CONSTANT c, AuthInv(c), PoliciesApart(c) PROVE Auth(c)!GrantedAllowed
<1>1. SUFFICES ASSUME NEW S \in Auth(c)!Compiled, NEW req \in Auth(c)!Requests, Auth(c)!Granted(req)
               PROVE  Auth(c)!Decision(S, req)
  BY DEF AuthInv, AuthCurrent, Auth!GrantedAllowed
<1>2. CASE req.privileged
  BY <1>2 DEF Auth!Decision
<1>3. ASSUME NEW r \in req.roles, perms[r] # Nobody, NEW i \in DOMAIN perms[r],
             Auth(c)!Covers(perms[r][i], req.action)
      PROVE  Auth(c)!Decision(S, req)
  <2>1. r \in c.roles
    BY DEF Auth!Requests
  <2>2. PICK p \in Auth(c)!Policies(r) : p.perm = perms[r][i] /\ p.role = r
    <3>1. [id |-> Auth(c)!PolicyId(r, perms[r][i]), role |-> r, at |-> i, perm |-> perms[r][i]]
            \in Auth(c)!Policies(r)
      BY <1>3 DEF Auth!Policies
    <3> QED
      BY <3>1
  <2>3. PICK l \in Auth(c)!Policies(r) : /\ l.id = p.id
                                        /\ \A q \in Auth(c)!Policies(r) : q.id = p.id => q.at <= l.at
    BY <2>1, AuthLast
  <2> DEFINE all == UNION {Auth(c)!Policies(q) : q \in c.roles}
             last == {x \in all : \A q \in all : q.id = x.id /\ q.role = x.role => q.at <= x.at}
  <2>4. l \in last
    <3>1. \A q \in c.roles : \A x \in Auth(c)!Policies(q) : x.role = q
      BY DEF Auth!Policies
    <3>2. l \in all
      BY <2>1
    <3> QED
      BY <2>1, <2>3, <3>1, <3>2
  <2>5. S \subseteq last /\ \A x \in last : \E q \in S : q.id = x.id
    BY DEF Auth!Compiled
  <2>6. PICK s \in S : s.id = l.id
    BY <2>4, <2>5
  <2>7. PICK q \in c.roles : s \in Auth(c)!Policies(q)
    BY <2>5, <2>6
  <2>8. r = q /\ p.perm.action = s.perm.action
    BY <2>1, <2>3, <2>6, <2>7, AuthSameId
  <2>9. s.role = q /\ s.perm \in Auth(c)!Permissions
    BY <2>7 DEF Auth!Policies, AuthInv, AuthTypes
  <2>10. Auth(c)!Covers(s.perm, req.action)
    BY <1>3, <2>2, <2>8, <2>9 DEF Auth!Covers, Auth!Permissions, PoliciesApart
  <2> QED
    BY <2>6, <2>8, <2>9, <2>10 DEF Auth!Decision
<1> QED
  BY <1>1, <1>2, <1>3 DEF Auth!Granted

-----------------------------------------------------------------------------
(* Master: records, their codes and their trails. *)

\* A row with a code that its sequence has given.
MasterRow(c, row) ==
    /\ row \in Master(c)!Row
    /\ row.code[1] \in Master(c)!Prefixes(row.kind) /\ row.code[2] <= seq[row.code[1]]

\* What a worker has read of a record is of its kind and has its code.
MasterTxn(c, w) ==
    \/ txn[w] = Master(c)!Idle
    \/ txn[w] = [op |-> "create", row |-> txn[w].row] /\ MasterRow(c, txn[w].row)
    \/ /\ txn[w].op \in {"read", "update"}
       /\ txn[w] = [op |-> txn[w].op, id |-> txn[w].id, patch |-> txn[w].patch,
                    before |-> txn[w].before, row |-> txn[w].row]
       /\ txn[w].id \in Master(c)!Rows /\ txn[w].patch \in Master(c)!Patch
       /\ txn[w].before \in Master(c)!Row /\ MasterRow(c, txn[w].row)
       /\ txn[w].row.kind = records[txn[w].id].kind /\ txn[w].row.code = records[txn[w].id].code
    \/ /\ txn[w] = [op |-> "delete", id |-> txn[w].id, before |-> txn[w].before]
       /\ txn[w].id \in Master(c)!Rows /\ txn[w].before \in Master(c)!Row

MasterTypes(c) ==
    /\ DOMAIN records = c.records /\ records = [r \in c.records |-> records[r]]
    /\ \A r \in Master(c)!Rows : MasterRow(c, records[r])
    /\ seq \in [Master(c)!SeqNames -> 0..c.codes]
    /\ DOMAIN txn = Workers /\ txn = [w \in Workers |-> txn[w]]
    /\ \A w \in Workers : MasterTxn(c, w)

\* A code belongs to one record or to one request that creates one.
MasterCodes(c) ==
    /\ Master(c)!CodesUnique
    /\ \A w \in Workers : txn[w].op = "create" =>
         /\ \A r \in Master(c)!Rows : records[r].code # txn[w].row.code
         /\ \A v \in Workers \ {w} : txn[v].op = "create" => txn[v].row.code # txn[w].row.code

\* The last line of a trail, and what it says of the row.
MasterLines(c) ==
    [action: {"created", "updated", "deleted"},
     before: Master(c)!Row \cup {Master(c)!Nothing}, after: Master(c)!Row \cup {Master(c)!Nothing}]
MasterTrail(c) ==
    /\ trail \in [c.records -> Seq(MasterLines(c))]
    /\ \A r \in Master(c)!Rows :
         /\ trail[r] # <<>>
         /\ IF trail[r][Len(trail[r])].action = "deleted" THEN ~records[r].active
            ELSE trail[r][Len(trail[r])].after = records[r]

MasterInv(c) == MasterTypes(c) /\ MasterCodes(c) /\ MasterTrail(c)

LEMMA MasterInit == ASSUME NEW CONSTANT c, Master(c)!MasterAssumption, Master(c)!Init PROVE MasterInv(c)
<1>1. Master(c)!Rows = {}
  BY DEF Master!Init, Master!Rows
<1>2. \A w \in Workers : txn[w] = Master(c)!Idle /\ txn[w].op # "create"
  BY DEF Master!Init, Master!Idle
<1>3. MasterTypes(c)
  BY <1>1, <1>2 DEF Master!Init, MasterTypes, MasterTxn, Master!MasterAssumption
<1>4. MasterCodes(c)
  BY <1>1, <1>2 DEF MasterCodes, Master!CodesUnique
<1>5. MasterTrail(c)
  BY <1>1 DEF Master!Init, MasterTrail
<1> QED
  BY <1>3, <1>4, <1>5 DEF MasterInv

\* A request starts, reads or ends without writing.
LEMMA MasterReads ==
    ASSUME NEW CONSTANT c, MasterInv(c), NEW w \in Workers, NEW y,
           txn' = [txn EXCEPT ![w] = y], y.op # "create",
           UNCHANGED <<records, seq, trail>>, MasterTxn(c, w)'
    PROVE  MasterInv(c)'
<1>1. txn' = [v \in Workers |-> IF v = w THEN y ELSE txn[v]]
  BY DEF MasterInv, MasterTypes
<1>2. Master(c)!Rows' = Master(c)!Rows
  BY DEF Master!Rows
<1>3. \A row : MasterRow(c, row)' = MasterRow(c, row)
  BY DEF MasterRow, Master!Row, Master!Prefixes
<1>4. \A v \in Workers : MasterTxn(c, v)'
  <2>1. SUFFICES ASSUME NEW v \in Workers, v # w PROVE MasterTxn(c, v)'
    OBVIOUS
  <2>2. MasterTxn(c, v) /\ txn'[v] = txn[v]
    BY <1>1, <2>1 DEF MasterInv, MasterTypes
  <2> QED
    BY <1>2, <1>3, <2>2 DEF MasterTxn
<1>5. MasterTypes(c)'
  BY <1>1, <1>2, <1>3, <1>4 DEF MasterInv, MasterTypes
<1>6. MasterCodes(c)'
  BY <1>1, <1>2 DEF MasterInv, MasterCodes, Master!CodesUnique
<1>7. MasterTrail(c)'
  BY <1>2 DEF MasterInv, MasterTrail
<1> QED
  BY <1>5, <1>6, <1>7 DEF MasterInv

\* A code is taken: no record and no other request has it.
LEMMA MasterTakeCode ==
    ASSUME NEW CONSTANT c, Master(c)!MasterAssumption, MasterInv(c), NEW w \in Workers,
           NEW kind \in Master(c)!Kinds, Master(c)!TakeCode(w, kind)
    PROVE  MasterInv(c)'
<1>a. \A f, S : Master(c)!SumFunctionOnSet(f, S) = SumFunctionOnSet(f, S)
  BY DEF Master!SumFunctionOnSet, SumFunctionOnSet, Master!FoldFunctionOnSet, FoldFunctionOnSet,
         Master!MapThenFoldSet, MapThenFoldSet
<1>1. PICK p \in Master(c)!Prefixes(kind), n \in c.names, o \in c.names :
        /\ Master(c)!SumFunctionOnSet(seq, Master(c)!SeqNames) < c.codes
        /\ seq' = [seq EXCEPT ![p] = @ + 1]
        /\ txn' = [txn EXCEPT ![w] =
              [op |-> "create", row |-> [kind |-> kind, code |-> <<p, Master(c)!NextSeq(p)>>,
               name |-> n, note |-> o, active |-> TRUE]]]
  BY DEF Master!TakeCode
<1>2. UNCHANGED <<records, trail>> /\ txn[w] = Master(c)!Idle
  BY DEF Master!TakeCode
<1>3. PICK row : row = [kind |-> kind, code |-> <<p, seq[p] + 1>>, name |-> n, note |-> o, active |-> TRUE]
  OBVIOUS
<1>4. txn' = [v \in Workers |-> IF v = w THEN [op |-> "create", row |-> row] ELSE txn[v]]
  BY <1>1, <1>3 DEF MasterInv, MasterTypes, Master!NextSeq
<1>5. p \in Master(c)!SeqNames /\ seq[p] \in Nat
  BY DEF Master!SeqNames, MasterInv, MasterTypes
<1>6. seq[p] < c.codes
  <2>1. IsFiniteSet(Master(c)!SeqNames)
    <3>1. Master(c)!SeqNames \subseteq {"C", "S", "WH", "RAW", "MFT"}
      BY DEF Master!SeqNames, Master!Prefixes, Master!Kinds
    <3>2. IsFiniteSet({"C", "S", "WH", "RAW", "MFT"})
      <4>1. IsFiniteSet({"C"})
        BY FS_Singleton
      <4>2. IsFiniteSet({"C"} \cup {"S"})
        BY <4>1, FS_AddElement
      <4>3. IsFiniteSet(({"C"} \cup {"S"}) \cup {"WH"})
        BY <4>2, FS_AddElement
      <4>4. IsFiniteSet((({"C"} \cup {"S"}) \cup {"WH"}) \cup {"RAW"})
        BY <4>3, FS_AddElement
      <4>5. IsFiniteSet(((({"C"} \cup {"S"}) \cup {"WH"}) \cup {"RAW"}) \cup {"MFT"})
        BY <4>4, FS_AddElement
      <4>6. {"C", "S", "WH", "RAW", "MFT"} = ((({"C"} \cup {"S"}) \cup {"WH"}) \cup {"RAW"}) \cup {"MFT"}
        OBVIOUS
      <4> QED
        BY <4>5, <4>6
    <3> QED
      BY <3>1, <3>2, FS_Subset
  <2>2. PICK names : names = Master(c)!SeqNames
    OBVIOUS
  <2>3. PICK f : f = seq
    OBVIOUS
  <2>4. \A q \in names : f[q] \in Nat
    BY <2>2, <2>3 DEF MasterInv, MasterTypes
  <2>5. SumFunctionOnSet(f, names) = f[p] + SumFunctionOnSet(f, names \ {p})
    BY <1>5, <2>1, <2>2, <2>4, SumRemove
  <2>6. SumFunctionOnSet(f, names \ {p}) \in Nat
    <3>1. IsFiniteSet(names \ {p})
      BY <2>1, <2>2, FS_Subset
    <3> QED
      BY <2>4, <3>1, SumNat
  <2>7. SumFunctionOnSet(f, names) < c.codes
    BY <1>a, <1>1, <2>2, <2>3
  <2> QED
    BY <1>5, <2>3, <2>5, <2>6, <2>7 DEF Master!MasterAssumption
<1>7. /\ seq' \in [Master(c)!SeqNames -> 0..c.codes]
      /\ \A q \in Master(c)!SeqNames : seq[q] <= seq'[q] /\ seq'[p] = seq[p] + 1
  BY <1>1, <1>5, <1>6 DEF MasterInv, MasterTypes, Master!MasterAssumption
<1>8. Master(c)!Rows' = Master(c)!Rows
  BY <1>2 DEF Master!Rows
<1>9. \A x : MasterRow(c, x) => MasterRow(c, x)' /\ x.code # row.code
  <2>1. SUFFICES ASSUME NEW x, MasterRow(c, x) PROVE MasterRow(c, x)' /\ x.code # row.code
    OBVIOUS
  <2>2. x.code[1] \in Master(c)!SeqNames /\ x.code[2] \in 1..c.codes /\ x.code[2] <= seq[x.code[1]]
    BY <2>1 DEF MasterRow, Master!Row
  <2>3. x.code[2] <= seq'[x.code[1]]
    <3>1. \A q \in Master(c)!SeqNames : seq[q] \in 0..c.codes /\ seq'[q] \in 0..c.codes
      BY <1>7 DEF MasterInv, MasterTypes
    <3>2. seq[x.code[1]] <= seq'[x.code[1]]
      BY <1>7, <2>2
    <3> QED
      BY <2>2, <3>1, <3>2 DEF Master!MasterAssumption
  <2>4. x.code # row.code
    BY <1>3, <1>5, <2>2
  <2> QED
    BY <2>1, <2>3, <2>4 DEF MasterRow, Master!Row, Master!Prefixes
<1>10. MasterRow(c, row)'
  <2>1. row.code = <<p, seq[p] + 1>> /\ seq[p] + 1 \in 1..c.codes
    BY <1>3, <1>5, <1>6 DEF Master!MasterAssumption
  <2>2. row \in Master(c)!Row
    BY <1>3, <1>5, <2>1 DEF Master!Row
  <2>3. row.kind = kind /\ row.code[1] = p /\ row.code[2] = seq'[p]
    BY <1>3, <1>5, <1>7, <2>1
  <2>4. seq'[p] <= seq'[p]
    BY <1>5, <1>7
  <2>5. Master(c)!Row' = Master(c)!Row /\ Master(c)!Prefixes(kind)' = Master(c)!Prefixes(kind)
    BY DEF Master!Row, Master!Prefixes
  <2> QED
    BY <2>2, <2>3, <2>4, <2>5 DEF MasterRow
<1>11. \A v \in Workers : MasterTxn(c, v)'
  <2>1. MasterTxn(c, w)'
    BY <1>4, <1>10 DEF MasterTxn
  <2>2. ASSUME NEW v \in Workers, v # w PROVE MasterTxn(c, v)'
    <3>1. MasterTxn(c, v) /\ txn'[v] = txn[v]
      BY <1>4, <2>2 DEF MasterInv, MasterTypes
    <3> QED
      BY <1>2, <1>8, <1>9, <3>1 DEF MasterTxn, Master!Row, Master!Patch
  <2> QED
    BY <2>1, <2>2
<1>12. MasterTypes(c)'
  BY <1>2, <1>4, <1>7, <1>8, <1>9, <1>11 DEF MasterInv, MasterTypes
<1>13. MasterCodes(c)'
  <2>1. \A r \in Master(c)!Rows : records[r].code # row.code
    BY <1>9 DEF MasterInv, MasterTypes
  <2>2. \A v \in Workers : txn[v].op = "create" => txn[v].row.code # row.code
    <3>1. \A v \in Workers : txn[v].op = "create" => MasterRow(c, txn[v].row)
      BY DEF MasterInv, MasterTypes, MasterTxn, Master!Idle
    <3> QED
      BY <1>9, <3>1
  <2> QED
    BY <1>2, <1>4, <1>8, <2>1, <2>2 DEF MasterInv, MasterCodes, Master!CodesUnique
<1>14. MasterTrail(c)'
  BY <1>2, <1>8 DEF MasterInv, MasterTrail
<1> QED
  BY <1>12, <1>13, <1>14 DEF MasterInv

\* A request writes a row: the code of the record is its own, the trail ends
\* with the row, and the worker is idle again.
LEMMA MasterWrites ==
    ASSUME NEW CONSTANT c, MasterInv(c), NEW w \in Workers, NEW r \in c.records, NEW row, NEW line,
           MasterRow(c, row), line \in MasterLines(c),
           IF line.action = "deleted" THEN ~row.active ELSE line.after = row,
           records' = [records EXCEPT ![r] = row], trail' = [trail EXCEPT ![r] = Append(@, line)],
           txn' = [txn EXCEPT ![w] = Master(c)!Idle], seq' = seq,
           r \in Master(c)!Rows => row.code = records[r].code /\ row.kind = records[r].kind,
           r \notin Master(c)!Rows => /\ \A q \in Master(c)!Rows : records[q].code # row.code
                                     /\ \A v \in Workers \ {w} : txn[v].op = "create" => txn[v].row.code # row.code
    PROVE  MasterInv(c)'
<1>1. records' = [q \in c.records |-> IF q = r THEN row ELSE records[q]]
  BY DEF MasterInv, MasterTypes
<1>2. txn' = [v \in Workers |-> IF v = w THEN Master(c)!Idle ELSE txn[v]]
  BY DEF MasterInv, MasterTypes
<1>3. row # Master(c)!Absent
  BY DEF MasterRow, Master!Row, Master!Absent
<1>4. Master(c)!Rows' = Master(c)!Rows \cup {r}
  BY <1>1, <1>3 DEF Master!Rows
<1>5. \A x : MasterRow(c, x)' = MasterRow(c, x)
  BY DEF MasterRow, Master!Row, Master!Prefixes
<1>6. \A v \in Workers : MasterTxn(c, v)'
  <2>1. MasterTxn(c, w)'
    BY <1>2 DEF MasterTxn
  <2>2. ASSUME NEW v \in Workers, v # w PROVE MasterTxn(c, v)'
    <3>1. MasterTxn(c, v) /\ txn'[v] = txn[v]
      BY <1>2, <2>2 DEF MasterInv, MasterTypes
    <3>2. \A q \in Master(c)!Rows : /\ q \in Master(c)!Rows'
                                    /\ records'[q].kind = records[q].kind /\ records'[q].code = records[q].code
      BY <1>1, <1>4 DEF Master!Rows
    <3> QED
      BY <1>5, <3>1, <3>2 DEF MasterTxn
  <2> QED
    BY <2>1, <2>2
<1>7. MasterTypes(c)'
  BY <1>1, <1>2, <1>4, <1>5, <1>6 DEF MasterInv, MasterTypes
<1>8. MasterCodes(c)'
  <2>1. Master(c)!CodesUnique'
    BY <1>1, <1>4 DEF MasterInv, MasterCodes, Master!CodesUnique
  <2>2. ASSUME NEW v \in Workers, txn'[v].op = "create"
        PROVE  /\ \A q \in Master(c)!Rows' : records'[q].code # txn'[v].row.code
               /\ \A u \in Workers \ {v} : txn'[u].op = "create" => txn'[u].row.code # txn'[v].row.code
    <3>1. v # w /\ txn'[v] = txn[v]
      BY <1>2, <2>2 DEF Master!Idle
    <3>2. row.code # txn[v].row.code
      BY <2>2, <3>1 DEF MasterInv, MasterCodes
    <3>3. \A u \in Workers : txn'[u].op = "create" => txn'[u] = txn[u]
      BY <1>2 DEF Master!Idle
    <3> QED
      BY <1>1, <1>4, <2>2, <3>1, <3>2, <3>3 DEF MasterInv, MasterCodes
  <2> QED
    BY <2>1, <2>2 DEF MasterCodes
<1>9. MasterTrail(c)'
  <2>1. trail[r] \in Seq(MasterLines(c))
    BY DEF MasterInv, MasterTrail
  <2>2. PICK ls : ls = Append(trail[r], line)
    OBVIOUS
  <2>3. ls \in Seq(MasterLines(c)) /\ ls # <<>> /\ ls[Len(ls)] = line
    <3>1. Len(ls) = Len(trail[r]) + 1 /\ Len(trail[r]) \in Nat /\ ls[Len(trail[r]) + 1] = line
      BY <2>1, <2>2
    <3> QED
      BY <2>1, <2>2, <3>1
  <2>4. trail' = [q \in c.records |-> IF q = r THEN ls ELSE trail[q]]
    BY <2>2 DEF MasterInv, MasterTrail
  <2>5. MasterLines(c)' = MasterLines(c)
    BY DEF MasterLines, Master!Row
  <2>6. trail' \in [c.records -> Seq(MasterLines(c))]
    BY <2>3, <2>4 DEF MasterInv, MasterTrail
  <2>7. ASSUME NEW q \in Master(c)!Rows'
        PROVE  /\ trail'[q] # <<>>
               /\ IF trail'[q][Len(trail'[q])].action = "deleted" THEN ~records'[q].active
                  ELSE trail'[q][Len(trail'[q])].after = records'[q]
    <3>1. CASE q = r
      <4>1. trail'[q] = ls /\ records'[q] = row
        BY <1>1, <2>4, <3>1
      <4> QED
        BY <2>3, <4>1
    <3>2. CASE q # r
      <4>1. q \in Master(c)!Rows /\ q \in c.records
        BY <1>4, <3>2 DEF Master!Rows
      <4>2. trail'[q] = trail[q] /\ records'[q] = records[q]
        BY <1>1, <2>4, <3>2, <4>1
      <4> QED
        BY <4>1, <4>2 DEF MasterInv, MasterTrail
    <3> QED
      BY <3>1, <3>2
  <2> QED
    BY <2>5, <2>6, <2>7 DEF MasterTrail
<1> QED
  BY <1>7, <1>8, <1>9 DEF MasterInv

\* What each change request does to the row, the trail and the worker.
LEMMA MasterCommitCreate ==
    ASSUME NEW CONSTANT c, MasterInv(c), NEW w \in Workers, NEW r \in c.records, Master(c)!CommitCreate(w, r)
    PROVE  MasterInv(c)'
<1>1. /\ txn[w].op = "create" /\ records[r] = Master(c)!Absent /\ UNCHANGED seq
      /\ records' = [records EXCEPT ![r] = txn[w].row]
      /\ trail' = [trail EXCEPT ![r] = Master(c)!RecordCreate(@, txn[w].row)]
      /\ txn' = [txn EXCEPT ![w] = Master(c)!Idle]
  BY DEF Master!CommitCreate
<1>2. MasterRow(c, txn[w].row)
  BY <1>1 DEF MasterInv, MasterTypes, MasterTxn, Master!Idle
<1>3. PICK row : row = txn[w].row
  OBVIOUS
<1>4. PICK line : line = [action |-> "created", before |-> Master(c)!Nothing, after |-> row]
  OBVIOUS
<1>5. line \in MasterLines(c)
  BY <1>2, <1>3, <1>4 DEF MasterLines, MasterRow
<1>6. r \notin Master(c)!Rows
  BY <1>1 DEF Master!Rows
<1>7. /\ \A q \in Master(c)!Rows : records[q].code # row.code
      /\ \A v \in Workers \ {w} : txn[v].op = "create" => txn[v].row.code # row.code
  BY <1>1, <1>3 DEF MasterInv, MasterCodes
<1>8. trail' = [trail EXCEPT ![r] = Append(@, line)]
  BY <1>1, <1>3, <1>4 DEF Master!RecordCreate
<1>9. /\ line.action # "deleted" /\ line.after = row
      /\ records' = [records EXCEPT ![r] = row] /\ MasterRow(c, row)
  BY <1>1, <1>2, <1>3, <1>4
<1> QED
  BY <1>1, <1>5, <1>6, <1>7, <1>8, <1>9, MasterWrites

LEMMA MasterCommitUpdate ==
    ASSUME NEW CONSTANT c, MasterInv(c), NEW w \in Workers, Master(c)!CommitUpdate(w)
    PROVE  MasterInv(c)'
<1>1. PICK r, patch, old, before :
        r = txn[w].id /\ patch = txn[w].patch /\ old = txn[w].row /\ before = txn[w].before
  OBVIOUS
<1>2. PICK row : row = Master(c)!Merge(old, patch)
  OBVIOUS
<1>3. PICK line : line = [action |-> "updated", before |-> before, after |-> row]
  OBVIOUS
<1>4. /\ txn[w].op = "update" /\ UNCHANGED seq
      /\ records' = [records EXCEPT ![r] = row]
      /\ trail' = [trail EXCEPT ![r] = Append(@, line)]
      /\ txn' = [txn EXCEPT ![w] = Master(c)!Idle]
  BY <1>1, <1>2, <1>3 DEF Master!CommitUpdate, Master!RecordUpdated, Master!ReadBack
<1>5. /\ r \in Master(c)!Rows /\ patch \in Master(c)!Patch
      /\ before \in Master(c)!Row /\ MasterRow(c, old)
      /\ old.kind = records[r].kind /\ old.code = records[r].code
  BY <1>1, <1>4 DEF MasterInv, MasterTypes, MasterTxn, Master!Idle
<1>6. /\ row \in Master(c)!Row
      /\ row.kind = old.kind /\ row.code = old.code
  <2>1. PICK n, o, a : /\ n = (IF patch.name = Master(c)!Keep THEN old.name ELSE patch.name)
                      /\ o = (IF patch.note = Master(c)!Keep THEN old.note ELSE patch.note)
                      /\ a = (IF patch.active = Master(c)!Keep THEN old.active ELSE patch.active = "true")
    OBVIOUS
  <2>2. n \in c.names /\ o \in c.names
    BY <1>5, <2>1 DEF Master!Patch, MasterRow, Master!Row
  <2>3. a \in BOOLEAN
    BY <1>5, <2>1 DEF MasterRow, Master!Row
  <2>4. row = [old EXCEPT !.name = n, !.note = o, !.active = a]
    BY <1>2, <2>1 DEF Master!Merge
  <2>5. old \in Master(c)!Row
    BY <1>5 DEF MasterRow
  <2> QED
    BY <2>2, <2>3, <2>4, <2>5 DEF Master!Row
<1>7. MasterRow(c, row)
  BY <1>5, <1>6 DEF MasterRow
<1>8. /\ line \in MasterLines(c) /\ line.action # "deleted" /\ line.after = row
  BY <1>3, <1>5, <1>6 DEF MasterLines
<1>9. r \in c.records
  BY <1>5 DEF Master!Rows
<1> QED
  BY <1>4, <1>5, <1>6, <1>7, <1>8, <1>9, MasterWrites

LEMMA MasterCommitDelete ==
    ASSUME NEW CONSTANT c, MasterInv(c), NEW w \in Workers, Master(c)!CommitDelete(w)
    PROVE  MasterInv(c)'
<1>1. PICK r, before : r = txn[w].id /\ before = txn[w].before
  OBVIOUS
<1>2. txn[w].op = "delete" /\ r \in Master(c)!Rows /\ before \in Master(c)!Row /\ r \in c.records
  <2>1. txn[w].op = "delete"
    BY DEF Master!CommitDelete
  <2>2. MasterTxn(c, w)
    BY DEF MasterInv, MasterTypes
  <2>3. r \in Master(c)!Rows /\ before \in Master(c)!Row
    BY <1>1, <2>1, <2>2 DEF MasterTxn, Master!Idle
  <2> QED
    BY <2>1, <2>3 DEF Master!Rows
<1>3. PICK row : row = [records[r] EXCEPT !.active = FALSE]
  OBVIOUS
<1>4. PICK line : line = [action |-> "deleted", before |-> before, after |-> Master(c)!Nothing]
  OBVIOUS
<1>5. /\ UNCHANGED seq
      /\ records' = [records EXCEPT ![r] = row]
      /\ trail' = [trail EXCEPT ![r] = Append(@, line)]
      /\ txn' = [txn EXCEPT ![w] = Master(c)!Idle]
  BY <1>1, <1>3, <1>4 DEF Master!CommitDelete, Master!RecordDeleted
<1>6. /\ row \in Master(c)!Row /\ ~row.active
      /\ row.kind = records[r].kind /\ row.code = records[r].code
  <2>1. records[r] \in Master(c)!Row
    BY <1>2 DEF MasterInv, MasterTypes, MasterRow
  <2> QED
    BY <1>3, <2>1 DEF Master!Row
<1>7. MasterRow(c, row)
  <2>1. MasterRow(c, records[r])
    BY <1>2 DEF MasterInv, MasterTypes
  <2> QED
    BY <1>6, <2>1 DEF MasterRow
<1>8. line \in MasterLines(c) /\ line.action = "deleted"
  BY <1>2, <1>4 DEF MasterLines
<1> QED
  BY <1>2, <1>5, <1>6, <1>7, <1>8, MasterWrites

\* A change starts with what is read of the record.
LEMMA MasterStart ==
    ASSUME NEW CONSTANT c, MasterInv(c), NEW w \in Workers, NEW r \in c.records, NEW patch \in Master(c)!Patch,
           \/ Master(c)!StartUpdate(w, r, patch)
           \/ Master(c)!UpdateWarehouse(w, r, patch)
    PROVE  MasterInv(c)'
<1>1. PICK op \in {"read", "update"} : txn' = [txn EXCEPT ![w] =
         [op |-> op, id |-> r, patch |-> patch, before |-> records[r], row |-> records[r]]]
  BY DEF Master!StartUpdate, Master!UpdateWarehouse
<1>2. r \in Master(c)!Rows /\ UNCHANGED <<records, seq, trail>>
  BY DEF Master!StartUpdate, Master!UpdateWarehouse
<1>3. PICK y : y = [op |-> op, id |-> r, patch |-> patch, before |-> records[r], row |-> records[r]]
  OBVIOUS
<1>4. txn' = [txn EXCEPT ![w] = y] /\ txn'[w] = y
  BY <1>1, <1>3 DEF MasterInv, MasterTypes
<1>5. Master(c)!Rows' = Master(c)!Rows /\ \A x : MasterRow(c, x)' = MasterRow(c, x)
  BY <1>2 DEF Master!Rows, MasterRow, Master!Row, Master!Prefixes
<1>6. MasterRow(c, records[r]) /\ records[r] \in Master(c)!Row
  BY <1>2 DEF MasterInv, MasterTypes, MasterRow
<1>7. MasterTxn(c, w)'
  BY <1>2, <1>3, <1>4, <1>5, <1>6 DEF MasterTxn, Master!Row, Master!Patch
<1>8. y.op # "create"
  BY <1>3
<1> QED
  BY <1>2, <1>4, <1>7, <1>8, MasterReads

LEMMA MasterReadAgain ==
    ASSUME NEW CONSTANT c, MasterInv(c), NEW w \in Workers, NEW kind, Master(c)!ReadAgain(w, kind)
    PROVE  MasterInv(c)'
<1>1. PICK r, patch, before : r = txn[w].id /\ patch = txn[w].patch /\ before = txn[w].before
  OBVIOUS
<1>2. /\ txn[w].op = "read" /\ UNCHANGED <<records, seq, trail>>
      /\ txn' = [txn EXCEPT ![w].op = "update", ![w].row = records[r]]
  BY <1>1 DEF Master!ReadAgain
<1>3. /\ txn[w] = [op |-> "read", id |-> r, patch |-> patch, before |-> before, row |-> txn[w].row]
      /\ r \in Master(c)!Rows /\ patch \in Master(c)!Patch /\ before \in Master(c)!Row
  <2>1. MasterTxn(c, w)
    BY DEF MasterInv, MasterTypes
  <2>2. /\ txn[w] = [op |-> txn[w].op, id |-> txn[w].id, patch |-> txn[w].patch,
                    before |-> txn[w].before, row |-> txn[w].row]
        /\ txn[w].id \in Master(c)!Rows /\ txn[w].patch \in Master(c)!Patch
        /\ txn[w].before \in Master(c)!Row
    BY <1>2, <2>1 DEF MasterTxn, Master!Idle
  <2> QED
    BY <1>1, <1>2, <2>2
<1>4. PICK y : y = [op |-> "update", id |-> r, patch |-> patch, before |-> before, row |-> records[r]]
  OBVIOUS
<1>5. txn' = [txn EXCEPT ![w] = y] /\ txn'[w] = y
  <2>1. PICK x : x = txn[w]
    OBVIOUS
  <2>2. y = [x EXCEPT !.op = "update", !.row = records[r]]
    <3>1. PICK z : z = txn[w].row
      OBVIOUS
    <3>2. x = [op |-> "read", id |-> r, patch |-> patch, before |-> before, row |-> z]
      BY <1>3, <2>1, <3>1
    <3>3. PICK z2 : z2 = records[r]
      OBVIOUS
    <3>4. y = [op |-> "update", id |-> r, patch |-> patch, before |-> before, row |-> z2]
      BY <1>4, <3>3
    <3>5. PICK m : m = [x EXCEPT !.op = "update"]
      OBVIOUS
    <3>6. m = [op |-> "update", id |-> r, patch |-> patch, before |-> before, row |-> z]
      BY <3>2, <3>5
    <3>7. y = [m EXCEPT !.row = z2]
      BY <3>4, <3>6
    <3>8. y = [x EXCEPT !.op = "update", !.row = z2]
      BY <3>5, <3>7
    <3> QED
      BY <3>3, <3>8
  <2>3. \A v \in Workers : txn'[v] = IF v = w THEN [x EXCEPT !.op = "update", !.row = records[r]] ELSE txn[v]
    BY <1>2, <2>1 DEF MasterInv, MasterTypes
  <2>4. DOMAIN txn' = Workers /\ txn' = [v \in Workers |-> txn'[v]]
    BY <1>2 DEF MasterInv, MasterTypes
  <2> QED
    BY <2>2, <2>3, <2>4 DEF MasterInv, MasterTypes
<1>6. Master(c)!Rows' = Master(c)!Rows /\ \A x : MasterRow(c, x)' = MasterRow(c, x)
  BY <1>2 DEF Master!Rows, MasterRow, Master!Row, Master!Prefixes
<1>7. MasterRow(c, records[r])
  BY <1>3 DEF MasterInv, MasterTypes
<1>8. MasterTxn(c, w)'
  BY <1>2, <1>3, <1>4, <1>5, <1>6, <1>7 DEF MasterTxn, Master!Row, Master!Patch
<1>9. y.op # "create"
  BY <1>4
<1> QED
  BY <1>2, <1>5, <1>8, <1>9, MasterReads

LEMMA MasterStartDelete ==
    ASSUME NEW CONSTANT c, MasterInv(c), NEW w \in Workers, NEW r \in c.records, NEW kind, Master(c)!StartDelete(w, r, kind)
    PROVE  MasterInv(c)'
<1>1. PICK y : y = [op |-> "delete", id |-> r, before |-> records[r]]
  OBVIOUS
<1>2. /\ r \in Master(c)!Rows /\ UNCHANGED <<records, seq, trail>> /\ txn' = [txn EXCEPT ![w] = y]
  BY <1>1 DEF Master!StartDelete
<1>3. txn'[w] = y
  BY <1>2 DEF MasterInv, MasterTypes
<1>4. Master(c)!Rows' = Master(c)!Rows
  BY <1>2 DEF Master!Rows
<1>5. records[r] \in Master(c)!Row
  BY <1>2 DEF MasterInv, MasterTypes, MasterRow
<1>6. MasterTxn(c, w)'
  BY <1>1, <1>2, <1>3, <1>4, <1>5 DEF MasterTxn, Master!Row
<1>7. y.op # "create"
  BY <1>1
<1> QED
  BY <1>2, <1>6, <1>7, MasterReads

LEMMA MasterStep ==
    ASSUME NEW CONSTANT c, Master(c)!MasterAssumption, MasterInv(c),
           Master(c)!Next \/ UNCHANGED <<records, seq, trail, txn>>
    PROVE  MasterInv(c)'
<1>1. ASSUME NEW w \in Workers,
             Master(c)!CreateCustomer(w) \/ Master(c)!CreateSupplier(w) \/ Master(c)!CreateItem(w) \/ Master(c)!CreateWarehouse(w)
      PROVE  MasterInv(c)'
  <2>1. PICK kind \in Master(c)!Kinds : Master(c)!TakeCode(w, kind)
    BY <1>1 DEF Master!CreateCustomer, Master!CreateSupplier, Master!CreateItem, Master!CreateWarehouse, Master!Kinds
  <2> QED
    BY <2>1, MasterTakeCode
<1>2. ASSUME NEW w \in Workers, NEW r \in c.records, NEW p \in Master(c)!Patch,
             Master(c)!UpdateCustomer(w, r, p) \/ Master(c)!UpdateSupplier(w, r, p) \/ Master(c)!UpdateItem(w, r, p)
               \/ Master(c)!UpdateWarehouse(w, r, p)
      PROVE  MasterInv(c)'
  <2>1. Master(c)!StartUpdate(w, r, p) \/ Master(c)!UpdateWarehouse(w, r, p)
    BY <1>2 DEF Master!UpdateCustomer, Master!UpdateSupplier, Master!UpdateItem
  <2> QED
    BY <2>1, MasterStart
<1>3. ASSUME NEW w \in Workers, Master(c)!ReadCustomer(w) \/ Master(c)!ReadSupplier(w) \/ Master(c)!ReadItem(w)
      PROVE  MasterInv(c)'
  <2>1. PICK kind : Master(c)!ReadAgain(w, kind)
    BY <1>3 DEF Master!ReadCustomer, Master!ReadSupplier, Master!ReadItem
  <2> QED
    BY <2>1, MasterReadAgain
<1>4. ASSUME NEW w \in Workers, NEW r \in c.records,
             Master(c)!DeleteCustomer(w, r) \/ Master(c)!DeleteSupplier(w, r) \/ Master(c)!DeleteItem(w, r)
               \/ Master(c)!DeleteWarehouse(w, r)
      PROVE  MasterInv(c)'
  <2>1. PICK kind : Master(c)!StartDelete(w, r, kind)
    BY <1>4 DEF Master!DeleteCustomer, Master!DeleteSupplier, Master!DeleteItem, Master!DeleteWarehouse
  <2> QED
    BY <2>1, MasterStartDelete
<1>5. ASSUME NEW w \in Workers, Master(c)!Rollback(w) PROVE MasterInv(c)'
  <2>1. txn' = [txn EXCEPT ![w] = Master(c)!Idle] /\ UNCHANGED <<records, seq, trail>>
    BY <1>5 DEF Master!Rollback
  <2>2. txn'[w] = Master(c)!Idle
    BY <2>1 DEF MasterInv, MasterTypes
  <2>3. MasterTxn(c, w)'
    BY <2>2 DEF MasterTxn, Master!Idle
  <2>4. Master(c)!Idle.op # "create"
    BY DEF Master!Idle
  <2> QED
    BY <2>1, <2>3, <2>4, MasterReads
<1>6. ASSUME UNCHANGED <<records, seq, trail, txn>> PROVE MasterInv(c)'
  <2>1. Master(c)!Rows' = Master(c)!Rows /\ \A row : MasterRow(c, row)' = MasterRow(c, row)
    BY <1>6 DEF Master!Rows, MasterRow, Master!Row, Master!Prefixes
  <2>2. \A w \in Workers : MasterTxn(c, w)' = MasterTxn(c, w)
    BY <1>6, <2>1 DEF MasterTxn
  <2>3. MasterTypes(c)'
    BY <1>6, <2>1, <2>2 DEF MasterInv, MasterTypes
  <2>4. MasterCodes(c)'
    BY <1>6, <2>1 DEF MasterInv, MasterCodes, Master!CodesUnique
  <2>5. MasterTrail(c)'
    BY <1>6, <2>1 DEF MasterInv, MasterTrail
  <2> QED
    BY <2>3, <2>4, <2>5 DEF MasterInv
<1>7. ASSUME NEW w \in Workers,
             (\E r \in c.records : Master(c)!CommitCreate(w, r)) \/ Master(c)!CommitUpdate(w) \/ Master(c)!CommitDelete(w)
      PROVE  MasterInv(c)'
  BY <1>7, MasterCommitCreate, MasterCommitUpdate, MasterCommitDelete
<1>8. ASSUME Master(c)!Read PROVE MasterInv(c)'
  BY <1>6, <1>8 DEF Master!Read, Master!vars
<1>9. ASSUME NEW w \in Workers,
             \/ \E r \in c.records, p \in Master(c)!Patch :
                  \/ Master(c)!UpdateCustomer(w, r, p) \/ Master(c)!UpdateSupplier(w, r, p)
                  \/ Master(c)!UpdateItem(w, r, p) \/ Master(c)!UpdateWarehouse(w, r, p)
             \/ \E r \in c.records :
                  \/ Master(c)!DeleteCustomer(w, r) \/ Master(c)!DeleteSupplier(w, r)
                  \/ Master(c)!DeleteItem(w, r) \/ Master(c)!DeleteWarehouse(w, r)
      PROVE  MasterInv(c)'
  BY <1>2, <1>4, <1>9
<1>10. ASSUME NEW w \in Workers,
              \/ Master(c)!CreateCustomer(w) \/ Master(c)!CreateSupplier(w) \/ Master(c)!CreateItem(w)
                   \/ Master(c)!CreateWarehouse(w)
              \/ \E r \in c.records : Master(c)!CommitCreate(w, r)
              \/ \E r \in c.records, p \in Master(c)!Patch :
                   \/ Master(c)!UpdateCustomer(w, r, p) \/ Master(c)!UpdateSupplier(w, r, p)
                   \/ Master(c)!UpdateItem(w, r, p) \/ Master(c)!UpdateWarehouse(w, r, p)
              \/ Master(c)!ReadCustomer(w) \/ Master(c)!ReadSupplier(w) \/ Master(c)!ReadItem(w)
              \/ Master(c)!CommitUpdate(w)
              \/ \E r \in c.records :
                   \/ Master(c)!DeleteCustomer(w, r) \/ Master(c)!DeleteSupplier(w, r)
                   \/ Master(c)!DeleteItem(w, r) \/ Master(c)!DeleteWarehouse(w, r)
              \/ Master(c)!CommitDelete(w)
              \/ Master(c)!Rollback(w)
       PROVE  MasterInv(c)'
  <2>1. CASE \/ Master(c)!CreateCustomer(w) \/ Master(c)!CreateSupplier(w) \/ Master(c)!CreateItem(w)
             \/ Master(c)!CreateWarehouse(w)
    BY <1>1, <2>1
  <2>2. CASE Master(c)!ReadCustomer(w) \/ Master(c)!ReadSupplier(w) \/ Master(c)!ReadItem(w)
    BY <1>3, <2>2
  <2>3. CASE Master(c)!Rollback(w)
    BY <1>5, <2>3
  <2>4. CASE (\E r \in c.records : Master(c)!CommitCreate(w, r)) \/ Master(c)!CommitUpdate(w) \/ Master(c)!CommitDelete(w)
    BY <1>7, <2>4
  <2>5. CASE \/ \E r \in c.records, p \in Master(c)!Patch :
                  \/ Master(c)!UpdateCustomer(w, r, p) \/ Master(c)!UpdateSupplier(w, r, p)
                  \/ Master(c)!UpdateItem(w, r, p) \/ Master(c)!UpdateWarehouse(w, r, p)
             \/ \E r \in c.records :
                  \/ Master(c)!DeleteCustomer(w, r) \/ Master(c)!DeleteSupplier(w, r)
                  \/ Master(c)!DeleteItem(w, r) \/ Master(c)!DeleteWarehouse(w, r)
    BY <1>9, <2>5
  <2> QED
    BY <1>10, <2>1, <2>2, <2>3, <2>4, <2>5
<1> QED
  BY <1>6, <1>8, <1>10 DEF Master!Next

\* What the invariant says of the types and of the trails.
LEMMA MasterShown ==
    ASSUME NEW CONSTANT c, MasterInv(c)
    PROVE  Master(c)!TypeOK /\ Master(c)!CodesUnique /\ Master(c)!TrailShowsRow
<1>1. Master(c)!TypeOK
  BY DEF MasterInv, MasterTypes, MasterRow, Master!TypeOK
<1>2. Master(c)!CodesUnique
  BY DEF MasterInv, MasterCodes
<1>3. ASSUME NEW r \in Master(c)!Rows
      PROVE  IF trail[r][Len(trail[r])].action = "deleted" THEN r \notin Master(c)!Lists
             ELSE Master(c)!Get(r) = trail[r][Len(trail[r])].after
  <2>1. Master(c)!Get(r) = records[r]
    BY DEF Master!Get, Master!GetCustomer, Master!GetSupplier, Master!GetItem
  <2>2. r \in Master(c)!Lists => records[r].active
    BY DEF Master!Lists, Master!SearchCustomers, Master!SearchSuppliers, Master!SearchItems,
           Master!ListWarehouses, Master!Active
  <2> QED
    BY <2>1, <2>2 DEF MasterInv, MasterTrail
<1> QED
  BY <1>1, <1>2, <1>3 DEF Master!TrailShowsRow

-----------------------------------------------------------------------------
(* Category: categories, the items in them, and units. *)

CategoryRow(f) == [name: f.names, parent: f.cats \cup {Category(f)!Null}, sort: f.sorts]
CategoryTxn(f, w) ==
    \/ txn[w] = Category(f)!Idle
    \/ txn[w].op = "update" /\ txn[w].id \in f.cats /\ txn[w].body \in Category(f)!Bodies
    \/ txn[w].op = "delete" /\ txn[w].id \in f.cats

CategoryInv(f) ==
    /\ DOMAIN cats = f.cats /\ cats = [c \in f.cats |-> cats[c]] /\ IsFiniteSet(Category(f)!Rows)
    /\ \A c \in Category(f)!Rows :
         cats[c] \in CategoryRow(f) /\ cats[c].parent \in Category(f)!Rows \cup {Category(f)!Null}
    /\ DOMAIN items = f.items /\ items = [i \in f.items |-> items[i]]
    /\ \A i \in f.items : items[i] \in Category(f)!Rows \cup {Category(f)!Null}
    /\ \A x, y \in units : x.item = y.item /\ x.unit = y.unit => x = y
    /\ DOMAIN txn = f.workers /\ txn = [w \in f.workers |-> txn[w]]
    /\ \A w \in f.workers : CategoryTxn(f, w)

LEMMA CategoryInit == ASSUME NEW CONSTANT f, Category(f)!Init PROVE CategoryInv(f)
<1>1. Category(f)!Rows = {} /\ IsFiniteSet({})
  BY FS_EmptySet DEF Category!Init, Category!Rows
<1> QED
  BY <1>1 DEF Category!Init, CategoryInv, CategoryTxn

\* A row is written under a parent that is there.
LEMMA CategoryWrites ==
    ASSUME NEW CONSTANT f, CategoryInv(f), NEW c \in f.cats, NEW row \in CategoryRow(f),
           row.parent \in Category(f)!Rows \cup {Category(f)!Null},
           cats' = [cats EXCEPT ![c] = row], UNCHANGED <<items, units>>,
           DOMAIN txn' = f.workers /\ txn' = [w \in f.workers |-> txn'[w]],
           \A w \in f.workers : CategoryTxn(f, w)'
    PROVE  CategoryInv(f)'
<1>1. cats' = [d \in f.cats |-> IF d = c THEN row ELSE cats[d]]
  BY DEF CategoryInv
<1>2. row # Category(f)!Absent
  BY DEF CategoryRow, Category!Absent
<1>3. Category(f)!Rows' = Category(f)!Rows \cup {c}
  BY <1>1, <1>2 DEF Category!Rows
<1>4. \A d \in Category(f)!Rows' :
        cats'[d] \in CategoryRow(f) /\ cats'[d].parent \in Category(f)!Rows' \cup {Category(f)!Null}
  BY <1>1, <1>3 DEF CategoryInv, Category!Rows
<1>5. \A i \in f.items : items'[i] \in Category(f)!Rows' \cup {Category(f)!Null}
  BY <1>3 DEF CategoryInv
<1>6. IsFiniteSet(Category(f)!Rows')
  BY <1>3, FS_AddElement DEF CategoryInv
<1> QED
  BY <1>1, <1>4, <1>5, <1>6 DEF CategoryInv

LEMMA CategoryCreate ==
    ASSUME NEW CONSTANT f, CategoryInv(f), NEW c \in f.cats, Category(f)!Create(c) PROVE CategoryInv(f)'
<1>1. PICK n \in f.names, p \in Category(f)!Rows \cup {Category(f)!Null}, s \in f.sorts :
        cats' = [cats EXCEPT ![c] = [name |-> n, parent |-> p, sort |-> s]]
  BY DEF Category!Create
<1>2. UNCHANGED <<items, units, txn>>
  BY DEF Category!Create
<1>3. PICK row : row = [name |-> n, parent |-> p, sort |-> s]
  OBVIOUS
<1>4. row \in CategoryRow(f) /\ row.parent = p
  BY <1>3 DEF CategoryRow, Category!Rows
<1>5. cats' = [cats EXCEPT ![c] = row]
  BY <1>1, <1>3
<1>6. /\ DOMAIN txn' = f.workers /\ txn' = [w \in f.workers |-> txn'[w]]
      /\ \A w \in f.workers : CategoryTxn(f, w)'
  BY <1>2 DEF CategoryInv, CategoryTxn
<1> QED
  BY <1>2, <1>4, <1>5, <1>6, CategoryWrites

\* A worker that becomes idle.
LEMMA CategoryIdle ==
    ASSUME NEW CONSTANT f, CategoryInv(f), NEW w \in f.workers, txn' = [txn EXCEPT ![w] = Category(f)!Idle]
    PROVE  /\ DOMAIN txn' = f.workers /\ txn' = [v \in f.workers |-> txn'[v]]
           /\ \A v \in f.workers : CategoryTxn(f, v)'
BY DEF CategoryInv, CategoryTxn

LEMMA CategoryCommitUpdate ==
    ASSUME NEW CONSTANT f, CategoryInv(f), NEW w \in f.workers, Category(f)!CommitUpdate(w)
    PROVE  CategoryInv(f)'
<1>1. PICK c : c = txn[w].id
  OBVIOUS
<1>2. txn[w].op = "update" /\ txn' = [txn EXCEPT ![w] = Category(f)!Idle] /\ UNCHANGED <<items, units>>
  BY DEF Category!CommitUpdate
<1>3. c \in f.cats /\ txn[w].body \in Category(f)!Bodies
  BY <1>1, <1>2 DEF CategoryInv, CategoryTxn, Category!Idle
<1>4. CASE c \notin Category(f)!Rows
  <2>1. cats' = cats
    BY <1>1, <1>4 DEF Category!CommitUpdate
  <2>2. Category(f)!Rows' = Category(f)!Rows
    BY <2>1 DEF Category!Rows
  <2> QED
    BY <1>2, <2>1, <2>2, CategoryIdle DEF CategoryInv
<1>5. CASE c \in Category(f)!Rows
  <2>1. PICK row : row = Category(f)!Assign(w, cats[c])
    OBVIOUS
  <2>2. row.parent \in Category(f)!Rows \cup {Category(f)!Null} /\ cats' = [cats EXCEPT ![c] = row]
    BY <1>1, <1>5, <2>1 DEF Category!CommitUpdate
  <2>3. cats[c] \in CategoryRow(f)
    BY <1>5 DEF CategoryInv
  <2>4. PICK p : p = Category(f)!Parse(txn[w].body)
    OBVIOUS
  <2>5. /\ p.name \in f.names \cup {Category(f)!Keep} /\ p.sort \in f.sorts \cup {Category(f)!Keep}
        /\ p.parent \in f.cats \cup {Category(f)!Null, Category(f)!Keep}
    BY <1>3, <2>4 DEF Category!Parse, Category!Bodies
  <2>6. PICK n, q, s : /\ n = (IF p.name = Category(f)!Keep THEN cats[c].name ELSE p.name)
                       /\ q = (IF p.parent = Category(f)!Keep THEN cats[c].parent ELSE p.parent)
                       /\ s = (IF p.sort = Category(f)!Keep THEN cats[c].sort ELSE p.sort)
    OBVIOUS
  <2>7. n \in f.names /\ q \in f.cats \cup {Category(f)!Null} /\ s \in f.sorts
    BY <2>3, <2>5, <2>6 DEF CategoryRow
  <2>8. row = [cats[c] EXCEPT !.name = n, !.parent = q, !.sort = s]
    BY <2>1, <2>4, <2>6 DEF Category!Assign
  <2>9. row \in CategoryRow(f)
    BY <2>3, <2>7, <2>8 DEF CategoryRow
  <2> QED
    BY <1>2, <1>3, <2>2, <2>9, CategoryWrites, CategoryIdle
<1> QED
  BY <1>4, <1>5

LEMMA CategoryCommitDelete ==
    ASSUME NEW CONSTANT f, CategoryInv(f), NEW w \in f.workers, Category(f)!CommitDelete(w)
    PROVE  CategoryInv(f)'
<1>1. PICK c : c = txn[w].id
  OBVIOUS
<1>2. /\ Category(f)!Children(c) = {} /\ \A i \in f.items : items[i] # c
      /\ cats' = [cats EXCEPT ![c] = Category(f)!Absent]
      /\ txn' = [txn EXCEPT ![w] = Category(f)!Idle] /\ UNCHANGED <<items, units>>
  BY <1>1 DEF Category!CommitDelete
<1>3. cats' = [d \in f.cats |-> IF d = c THEN Category(f)!Absent ELSE cats[d]]
  BY <1>2 DEF CategoryInv
<1>4. Category(f)!Rows' = Category(f)!Rows \ {c}
  BY <1>3 DEF Category!Rows
<1>5. \A d \in Category(f)!Rows' :
        cats'[d] \in CategoryRow(f) /\ cats'[d].parent \in Category(f)!Rows' \cup {Category(f)!Null}
  BY <1>2, <1>3, <1>4 DEF CategoryInv, Category!Rows, Category!Children
<1>6. \A i \in f.items : items'[i] \in Category(f)!Rows' \cup {Category(f)!Null}
  BY <1>2, <1>4 DEF CategoryInv
<1>7. IsFiniteSet(Category(f)!Rows')
  BY <1>4, FS_RemoveElement DEF CategoryInv
<1> QED
  BY <1>2, <1>3, <1>5, <1>6, <1>7, CategoryIdle DEF CategoryInv

LEMMA CategoryStarts ==
    ASSUME NEW CONSTANT f, CategoryInv(f), NEW w \in f.workers, NEW c \in f.cats,
           Category(f)!StartDelete(w, c) \/ \E b \in Category(f)!Bodies : Category(f)!StartUpdate(w, c, b)
    PROVE  CategoryInv(f)'
<1>1. PICK y : /\ txn' = [txn EXCEPT ![w] = y] /\ y.id = c
               /\ y.op = "delete" \/ (y.op = "update" /\ y.body \in Category(f)!Bodies)
  <2>1. CASE Category(f)!StartDelete(w, c)
    <3>1. PICK y : y = [op |-> "delete", id |-> c, before |-> cats[c]]
      OBVIOUS
    <3>2. y.id = c /\ y.op = "delete" /\ txn' = [txn EXCEPT ![w] = y]
      BY <2>1, <3>1 DEF Category!StartDelete
    <3> QED
      BY <3>2
  <2>2. CASE \E b \in Category(f)!Bodies : Category(f)!StartUpdate(w, c, b)
    <3>1. PICK b \in Category(f)!Bodies : Category(f)!StartUpdate(w, c, b)
      BY <2>2
    <3>2. PICK y : y = [op |-> "update", id |-> c, body |-> b, before |-> cats[c]]
      OBVIOUS
    <3>3. y.id = c /\ y.op = "update" /\ y.body \in Category(f)!Bodies /\ txn' = [txn EXCEPT ![w] = y]
      BY <3>1, <3>2 DEF Category!StartUpdate
    <3> QED
      BY <3>3
  <2> QED
    BY <2>1, <2>2
<1>2. UNCHANGED <<cats, items, units>>
  BY DEF Category!StartDelete, Category!StartUpdate
<1>3. Category(f)!Rows' = Category(f)!Rows
  BY <1>2 DEF Category!Rows
<1>4. /\ DOMAIN txn' = f.workers /\ txn' = [v \in f.workers |-> txn'[v]]
      /\ \A v \in f.workers : CategoryTxn(f, v)'
  BY <1>1 DEF CategoryInv, CategoryTxn
<1> QED
  BY <1>2, <1>3, <1>4 DEF CategoryInv

LEMMA CategoryItems ==
    ASSUME NEW CONSTANT f, CategoryInv(f), NEW i \in f.items, Category(f)!PlaceItem(i) \/ Category(f)!CreateUnit(i)
    PROVE  CategoryInv(f)'
<1>1. UNCHANGED <<cats, txn>>
  BY DEF Category!PlaceItem, Category!CreateUnit
<1>2. Category(f)!Rows' = Category(f)!Rows /\ \A w \in f.workers : CategoryTxn(f, w)'
  BY <1>1 DEF Category!Rows, CategoryInv, CategoryTxn
<1>3. CASE Category(f)!PlaceItem(i)
  BY <1>1, <1>2, <1>3 DEF Category!PlaceItem, CategoryInv
<1>4. CASE Category(f)!CreateUnit(i)
  <2>1. PICK u \in f.units, r \in f.rates :
          /\ \A x \in units : x.item = i => x.unit # u
          /\ units' = units \cup {[item |-> i, unit |-> u, rate |-> r]}
    BY <1>4 DEF Category!CreateUnit
  <2>2. \A x, y \in units' : x.item = y.item /\ x.unit = y.unit => x = y
    BY <2>1 DEF CategoryInv
  <2> QED
    BY <1>1, <1>2, <1>4, <2>2 DEF Category!CreateUnit, CategoryInv
<1> QED
  BY <1>3, <1>4

LEMMA CategoryStep ==
    ASSUME NEW CONSTANT f, CategoryInv(f), Category(f)!Next \/ UNCHANGED <<cats, items, units, trail, txn>>
    PROVE  CategoryInv(f)'
<1>1. ASSUME NEW w \in f.workers, Category(f)!Rollback(w) PROVE CategoryInv(f)'
  <2>1. txn' = [txn EXCEPT ![w] = Category(f)!Idle] /\ UNCHANGED <<cats, items, units>>
    BY <1>1 DEF Category!Rollback
  <2>2. Category(f)!Rows' = Category(f)!Rows
    BY <2>1 DEF Category!Rows
  <2> QED
    BY <2>1, <2>2, CategoryIdle DEF CategoryInv
<1>2. ASSUME Category(f)!Read \/ UNCHANGED <<cats, items, units, trail, txn>> PROVE CategoryInv(f)'
  BY <1>2 DEF Category!Read, Category!vars, CategoryInv, CategoryTxn, Category!Rows
<1> QED
  BY <1>1, <1>2, CategoryCreate, CategoryCommitUpdate, CategoryCommitDelete, CategoryStarts, CategoryItems
  DEF Category!Next

LEMMA CategoryTypeOK == ASSUME NEW CONSTANT f, CategoryInv(f) PROVE Category(f)!TypeOK
BY DEF CategoryInv, CategoryRow, Category!TypeOK, Category!ListUnits

-----------------------------------------------------------------------------
(* Forests of categories R: up is the parent of each, d its depth, and 0   *)
(* the parent of the roots.                                                *)

Deep(R, up, d) ==
    /\ R \subseteq Nat \ {0} /\ up \in [R -> R \cup {0}] /\ d \in [R \cup {0} -> Nat \cup {-1}]
    /\ d[0] = -1 /\ \A c \in R : d[c] = d[up[c]] + 1

ChildrenOf(R, up, q) == {c \in R : up[c] = q}

Node(R) == [id : R, depth : Int]
Shows(s, c) == \E k \in DOMAIN s : s[k].id = c
Placed(s, k, up) ==
    \E j \in 1..(k - 1) :
      s[j].id = up[s[k].id] /\ \A m \in (j + 1)..(k - 1) : s[m].depth > s[j].depth

\* s shows the trees of the categories K, which are n deep: each node once,
\* below its parent, and with all its children.
Forest(s, K, n, R, up, d) ==
    /\ s \in Seq(Node(R))
    /\ \A c \in K : d[c] = n
    /\ \A k \in DOMAIN s : s[k].depth = d[s[k].id] /\ s[k].depth >= n
    /\ \A j, k \in DOMAIN s : s[j].id = s[k].id => j = k
    /\ \A c \in R : Shows(s, c) <=> c \in K \/ Shows(s, up[c])
    /\ \A k \in DOMAIN s : s[k].id \in K \/ Placed(s, k, up)

\* A depth is -1 at the least, and one more than that of the parent.
LEMMA DeepTypes ==
    ASSUME NEW R, NEW up, NEW d, Deep(R, up, d)
    PROVE  /\ \A c \in R \cup {0} : d[c] \in Int /\ d[c] >= -1 /\ d[c] + 1 \in Nat
           /\ \A c \in R : c # 0 /\ up[c] \in R \cup {0} /\ d[c] = d[up[c]] + 1
<1>1. \A c \in R \cup {0} : d[c] \in Nat \cup {-1}
  BY DEF Deep
<1>2. \A c \in R \cup {0} : d[c] \in Int /\ d[c] >= -1 /\ d[c] + 1 \in Nat
  BY <1>1
<1> QED
  BY <1>2 DEF Deep

\* The empty list shows no tree.
LEMMA NoForest ==
    ASSUME NEW R, NEW up, NEW d, NEW n
    PROVE  Forest(<<>>, {}, n, R, up, d)
BY DEF Forest, Shows

\* A category above the trees of its children is a tree.
LEMMA ForestPlanted ==
    ASSUME NEW R, NEW up, NEW d, Deep(R, up, d), NEW c \in R, NEW t,
           Forest(t, ChildrenOf(R, up, c), d[c] + 1, R, up, d)
    PROVE  Forest(<<[id |-> c, depth |-> d[c]]>> \o t, {c}, d[c], R, up, d)
<1> DEFINE L == ChildrenOf(R, up, c)
<1>1. PICK x : x = [id |-> c, depth |-> d[c]]
  OBVIOUS
<1>2. d[c] \in Int /\ x \in Node(R) /\ x.id = c /\ x.depth = d[c]
  BY <1>1 DEF Deep, Node
<1>3. PICK s : s = <<x>> \o t
  OBVIOUS
<1>4. t \in Seq(Node(R)) /\ Len(t) \in Nat /\ DOMAIN t = 1..Len(t)
  BY DEF Forest
<1>5. /\ s \in Seq(Node(R)) /\ DOMAIN s = 1..(Len(t) + 1) /\ s[1] = x
      /\ \A k \in DOMAIN t : s[k + 1] = t[k]
      /\ \A k \in DOMAIN s : k # 1 => k - 1 \in DOMAIN t /\ s[k] = t[k - 1]
  <2>1. <<x>> \in Seq(Node(R)) /\ Len(<<x>>) = 1
    BY <1>2
  <2> QED
    BY <1>3, <1>4, <2>1, ConcatProperties
<1>6. \A k \in DOMAIN t : t[k] \in Node(R) /\ t[k].depth = d[t[k].id] /\ t[k].depth >= d[c] + 1
  BY <1>4 DEF Forest
<1>7. \A k \in DOMAIN t : t[k].id \in R /\ t[k].depth \in Int /\ t[k].id # c
  BY <1>2, <1>6 DEF Node
<1>8. \A e : Shows(s, e) <=> e = c \/ Shows(t, e)
  <2>1. ASSUME NEW e, Shows(s, e) PROVE e = c \/ Shows(t, e)
    BY <1>2, <1>5, <2>1 DEF Shows
  <2>2. ASSUME NEW e, Shows(t, e) PROVE Shows(s, e)
    <3>1. PICK k \in DOMAIN t : t[k].id = e
      BY <2>2 DEF Shows
    <3>2. k + 1 \in DOMAIN s /\ s[k + 1].id = e
      BY <1>4, <1>5, <3>1
    <3> QED
      BY <3>2 DEF Shows
  <2>3. Shows(s, c)
    BY <1>2, <1>4, <1>5 DEF Shows
  <2> QED
    BY <2>1, <2>2, <2>3
<1>9. \A k \in DOMAIN s : s[k].depth = d[s[k].id] /\ s[k].depth >= d[c]
  BY <1>2, <1>5, <1>6, <1>7
<1>10. ASSUME NEW j \in DOMAIN s, NEW k \in DOMAIN s, s[j].id = s[k].id PROVE j = k
  BY <1>2, <1>4, <1>5, <1>7, <1>10 DEF Forest
<1>11. \A e \in R : Shows(s, e) <=> e \in {c} \/ Shows(s, up[e])
  BY <1>8 DEF Forest, ChildrenOf
<1>12. ASSUME NEW k \in DOMAIN s, s[k].id # c PROVE Placed(s, k, up)
  <2>1. PICK i \in DOMAIN t : i = k - 1 /\ s[k] = t[i]
    BY <1>2, <1>5, <1>12
  <2>2. i \in 1..Len(t) /\ k = i + 1
    BY <1>4, <1>5, <2>1
  <2>3. CASE t[i].id \in L
    <3>1. s[1].id = up[s[k].id] /\ 1 \in 1..(k - 1)
      BY <1>2, <1>5, <2>1, <2>2, <2>3 DEF ChildrenOf
    <3>2. ASSUME NEW m \in 2..(k - 1) PROVE s[m].depth > s[1].depth
      <4>1. m - 1 \in DOMAIN t /\ s[m] = t[m - 1]
        <5>1. m \in DOMAIN s /\ m # 1
          BY <1>4, <1>5, <2>2
        <5> QED
          BY <1>5, <5>1
      <4> QED
        BY <1>2, <1>5, <1>6, <1>7, <4>1
    <3> QED
      BY <3>1, <3>2 DEF Placed
  <2>4. CASE Placed(t, i, up)
    <3>1. PICK j \in 1..(i - 1) : t[j].id = up[t[i].id] /\ \A m \in (j + 1)..(i - 1) : t[m].depth > t[j].depth
      BY <2>4 DEF Placed
    <3>2. j + 1 \in 1..(k - 1) /\ s[j + 1] = t[j]
      BY <1>4, <1>5, <2>2, <3>1
    <3>3. ASSUME NEW m \in (j + 2)..(k - 1) PROVE s[m].depth > s[j + 1].depth
      <4>1. m - 1 \in (j + 1)..(i - 1) /\ s[m] = t[m - 1]
        <5>1. m - 1 \in (j + 1)..(i - 1) /\ m \in DOMAIN s /\ m # 1
          BY <1>4, <1>5, <2>2, <3>1
        <5> QED
          BY <1>5, <5>1
      <4> QED
        BY <3>1, <3>2, <4>1
    <3> QED
      BY <2>1, <3>1, <3>2, <3>3 DEF Placed
  <2> QED
    BY <2>3, <2>4 DEF Forest
<1> QED
  BY <1>3, <1>1, <1>5, <1>9, <1>10, <1>11, <1>12 DEF Forest

\* Two forests of different trees of a depth share no node.
LEMMA ForestsApart ==
    ASSUME NEW R, NEW up, NEW d, Deep(R, up, d), NEW n \in Int, NEW s, NEW t, NEW K, NEW L,
           Forest(s, K, n, R, up, d), Forest(t, L, n, R, up, d), K \cap L = {}, NEW c
    PROVE  ~ (Shows(s, c) /\ Shows(t, c))
<1> DEFINE Both == {e \in R : Shows(s, e) /\ Shows(t, e)}
<1>1. \A e : Shows(s, e) \/ Shows(t, e) => e \in R /\ d[e] \in Int /\ d[e] >= n
  <2>1. \A k \in DOMAIN s : s[k] \in Node(R) /\ s[k].depth = d[s[k].id] /\ s[k].depth >= n
    BY DEF Forest
  <2>2. \A k \in DOMAIN t : t[k] \in Node(R) /\ t[k].depth = d[t[k].id] /\ t[k].depth >= n
    BY DEF Forest
  <2> QED
    BY <2>1, <2>2 DEF Shows, Node, Deep
<1>2. SUFFICES ASSUME c \in Both PROVE FALSE
  BY <1>1
<1>3. PICK H \in SUBSET Nat : H = {d[e] - n : e \in Both}
  <2>1. {d[e] - n : e \in Both} \subseteq Nat
    BY <1>1
  <2> QED
    BY <2>1
<1>4. PICK h \in H : \A g \in H : h <= g
  <2>1. d[c] - n \in H
    BY <1>2, <1>3
  <2> QED
    BY <2>1, LeastNat
<1>5. PICK e \in Both : h = d[e] - n
  BY <1>3, <1>4
<1>6. e \in K \/ Shows(s, up[e])
  BY <1>5 DEF Forest
<1>7. e \in L \/ Shows(t, up[e])
  BY <1>5 DEF Forest
<1>8. d[e] = d[up[e]] + 1 /\ d[up[e]] \in Int
  BY <1>5, DeepTypes
<1>9. CASE Shows(s, up[e]) /\ Shows(t, up[e])
  <2>1. up[e] \in Both /\ d[up[e]] - n \in H
    BY <1>1, <1>3, <1>9
  <2> QED
    BY <1>1, <1>4, <1>5, <1>8, <2>1
<1>10. e \in K \/ e \in L => d[e] = n
  BY DEF Forest
<1> QED
  BY <1>1, <1>6, <1>7, <1>8, <1>9, <1>10

\* The trees of K and then those of L.
LEMMA ForestsJoined ==
    ASSUME NEW R, NEW up, NEW d, Deep(R, up, d), NEW n \in Int, NEW s, NEW t, NEW K, NEW L,
           Forest(s, K, n, R, up, d), Forest(t, L, n, R, up, d), K \cap L = {}
    PROVE  Forest(s \o t, K \cup L, n, R, up, d)
<1>1. PICK u : u = s \o t
  OBVIOUS
<1>2. /\ s \in Seq(Node(R)) /\ Len(s) \in Nat /\ DOMAIN s = 1..Len(s)
      /\ t \in Seq(Node(R)) /\ Len(t) \in Nat /\ DOMAIN t = 1..Len(t)
  BY DEF Forest
<1>3. /\ u \in Seq(Node(R)) /\ DOMAIN u = 1..(Len(s) + Len(t))
      /\ \A k \in DOMAIN s : k \in DOMAIN u /\ u[k] = s[k]
      /\ \A k \in DOMAIN t : k + Len(s) \in DOMAIN u /\ u[k + Len(s)] = t[k]
  BY <1>1, <1>2, ConcatProperties
<1>4. \A k \in DOMAIN u : k \notin DOMAIN s => k - Len(s) \in DOMAIN t /\ u[k] = t[k - Len(s)]
  <2>1. ASSUME NEW k \in DOMAIN u, k \notin DOMAIN s PROVE k - Len(s) \in DOMAIN t /\ k = (k - Len(s)) + Len(s)
    BY <1>2, <1>3, <2>1
  <2> QED
    BY <1>3, <2>1
<1>5. \A c : Shows(u, c) <=> Shows(s, c) \/ Shows(t, c)
  BY <1>3, <1>4 DEF Shows
<1>6. \A k \in DOMAIN u : u[k].depth = d[u[k].id] /\ u[k].depth >= n
  BY <1>3, <1>4 DEF Forest
<1>7. \A c : ~ (Shows(s, c) /\ Shows(t, c))
  BY ForestsApart
<1>8. ASSUME NEW j \in DOMAIN u, NEW k \in DOMAIN u, u[j].id = u[k].id PROVE j = k
  <2>1. CASE j \in DOMAIN s /\ k \in DOMAIN s
    BY <1>3, <1>8, <2>1 DEF Forest
  <2>2. CASE j \notin DOMAIN s /\ k \notin DOMAIN s
    <3>1. j - Len(s) = k - Len(s)
      BY <1>4, <1>8, <2>2 DEF Forest
    <3> QED
      BY <1>2, <1>3, <3>1
  <2>3. CASE j \in DOMAIN s /\ k \notin DOMAIN s
    <3>1. s[j].id = u[j].id /\ t[k - Len(s)].id = u[j].id /\ k - Len(s) \in DOMAIN t
      BY <1>3, <1>4, <1>8, <2>3
    <3> QED
      BY <1>7, <2>3, <3>1 DEF Shows
  <2>4. CASE k \in DOMAIN s /\ j \notin DOMAIN s
    <3>1. s[k].id = u[k].id /\ t[j - Len(s)].id = u[k].id /\ j - Len(s) \in DOMAIN t
      BY <1>3, <1>4, <1>8, <2>4
    <3> QED
      BY <1>7, <2>4, <3>1 DEF Shows
  <2> QED
    BY <2>1, <2>2, <2>3, <2>4
<1>9. \A c \in R : Shows(u, c) <=> c \in K \cup L \/ Shows(u, up[c])
  BY <1>5 DEF Forest
<1>10. ASSUME NEW k \in DOMAIN u, u[k].id \notin K \cup L PROVE Placed(u, k, up)
  <2>1. CASE k \in DOMAIN s
    <3>1. PICK j \in 1..(k - 1) : s[j].id = up[s[k].id] /\ \A m \in (j + 1)..(k - 1) : s[m].depth > s[j].depth
      BY <1>3, <1>10, <2>1 DEF Forest, Placed
    <3>2. k \in Nat /\ j \in Nat /\ \A m \in j..k : m \in DOMAIN s
      BY <1>2, <2>1, <3>1
    <3>3. u[j].id = up[u[k].id] /\ \A m \in (j + 1)..(k - 1) : u[m].depth > u[j].depth
      BY <1>3, <3>1, <3>2
    <3> QED
      BY <3>1, <3>3 DEF Placed
  <2>2. CASE k \notin DOMAIN s
    <3>1. PICK i \in DOMAIN t : k = i + Len(s) /\ u[k] = t[i] /\ i = k - Len(s)
      BY <1>2, <1>3, <1>4, <2>2
    <3>2. PICK j \in 1..(i - 1) : t[j].id = up[t[i].id] /\ \A m \in (j + 1)..(i - 1) : t[m].depth > t[j].depth
      BY <1>10, <3>1 DEF Forest, Placed
    <3>3. j \in DOMAIN t /\ j + Len(s) \in 1..(k - 1)
      BY <1>2, <3>1, <3>2
    <3>4. ASSUME NEW m \in (j + Len(s) + 1)..(k - 1) PROVE u[m].depth > u[j + Len(s)].depth
      <4>1. PICK e \in (j + 1)..(i - 1) : m = e + Len(s)
        <5>1. m - Len(s) \in (j + 1)..(i - 1) /\ m = (m - Len(s)) + Len(s)
          BY <1>2, <3>1, <3>2
        <5> QED
          BY <5>1
      <4>2. e \in DOMAIN t
        BY <1>2, <3>1, <3>2
      <4> QED
        BY <1>3, <3>2, <3>3, <4>1, <4>2
    <3> QED
      BY <1>3, <3>1, <3>2, <3>3, <3>4 DEF Placed
  <2> QED
    BY <2>1, <2>2
<1>11. \A c \in K \cup L : d[c] = n
  BY DEF Forest
<1> QED
  BY <1>1, <1>3, <1>6, <1>8, <1>9, <1>10, <1>11 DEF Forest

-----------------------------------------------------------------------------
(* What a node lists: its children in order, each with what it lists.      *)

ListedOn(g, kids, h, n, m) ==
    [k \in 0..m |-> IF k = 0 THEN <<>>
                    ELSE g[k - 1] \o <<[id |-> kids[k], depth |-> n]>> \o h[kids[k]][n + 1]]
Lists(kids, h, n) ==
    LET given[k \in 0..Len(kids)] ==
          IF k = 0 THEN <<>>
          ELSE given[k - 1] \o <<[id |-> kids[k], depth |-> n]>> \o h[kids[k]][n + 1]
    IN  given[Len(kids)]

\* The list that grows child by child exists.
LEMMA ListedExists ==
    ASSUME NEW kids, NEW h, NEW n, NEW m \in Nat
    PROVE  \E g : g = ListedOn(g, kids, h, n, m)
<1> DEFINE Part(g, k) == g[k - 1] \o <<[id |-> kids[k], depth |-> n]>> \o h[kids[k]][n + 1]
           Bad == {k \in Nat : ~ \E g : g = ListedOn(g, kids, h, n, k)}
<1>1. SUFFICES ASSUME Bad # {} PROVE FALSE
  OBVIOUS
<1>2. PICK b \in Bad : \A k \in Bad : b <= k
  <2>1. Bad \subseteq Nat
    OBVIOUS
  <2> QED
    BY <1>1, <2>1, LeastNat
<1>3. b # 0
  <2>1. \A g : ListedOn(g, kids, h, n, 0) = [k \in 0..0 |-> <<>>]
    BY DEF ListedOn
  <2> QED
    BY <2>1
<1>4. PICK g : g = ListedOn(g, kids, h, n, b - 1)
  <2>1. b - 1 \in Nat /\ ~ (b <= b - 1)
    BY <1>3
  <2> QED
    BY <1>2, <2>1
<1>5. PICK e : e = [k \in 0..b |-> IF k = b THEN Part(g, b) ELSE g[k]]
  OBVIOUS
<1>6. \A k \in 0..b : e[k] = IF k = 0 THEN <<>> ELSE Part(e, k)
  <2>1. ASSUME NEW k \in 0..b, k # b PROVE g[k] = IF k = 0 THEN <<>> ELSE Part(g, k)
    <3>1. k \in 0..(b - 1)
      BY <1>3, <2>1
    <3> QED
      BY <1>4, <3>1 DEF ListedOn
  <2>2. \A k \in 0..b : k # 0 => k - 1 \in 0..b /\ k - 1 # b
    BY <1>3
  <2>3. \A k \in 0..b : k # 0 => e[k - 1] = g[k - 1]
    BY <1>5, <2>2
  <2>4. \A k \in 0..b : k # 0 => Part(e, k) = Part(g, k)
    BY <2>3
  <2>5. b \in 0..b
    OBVIOUS
  <2> HIDE DEF Part
  <2> QED
    BY <1>3, <1>5, <2>1, <2>4, <2>5
<1>7. e = ListedOn(e, kids, h, n, b)
  BY <1>5, <1>6 DEF ListedOn
<1> QED
  BY <1>2, <1>7

\* What a node lists is the last of them.
LEMMA ListsIs ==
    ASSUME NEW kids, NEW h, NEW n, Len(kids) \in Nat
    PROVE  \E g : g = ListedOn(g, kids, h, n, Len(kids)) /\ Lists(kids, h, n) = g[Len(kids)]
<1>1. PICK g : g = CHOOSE e : e = ListedOn(e, kids, h, n, Len(kids))
  OBVIOUS
<1>2. g = ListedOn(g, kids, h, n, Len(kids))
  BY <1>1, ListedExists
<1>3. Lists(kids, h, n) = g[Len(kids)]
  BY <1>1 DEF Lists, ListedOn
<1> QED
  BY <1>2, <1>3

\* It depends on what its children list.
LEMMA ListsSame ==
    ASSUME NEW kids, NEW g, NEW h, NEW n, Len(kids) \in Nat, \A k \in 1..Len(kids) : g[kids[k]] = h[kids[k]]
    PROVE  Lists(kids, g, n) = Lists(kids, h, n)
<1>1. \A e : ListedOn(e, kids, g, n, Len(kids)) = ListedOn(e, kids, h, n, Len(kids))
  <2>1. ASSUME NEW e PROVE ListedOn(e, kids, g, n, Len(kids)) = ListedOn(e, kids, h, n, Len(kids))
    <3>1. \A k \in 0..Len(kids) : k # 0 => g[kids[k]][n + 1] = h[kids[k]][n + 1]
      OBVIOUS
    <3> QED
      BY <3>1 DEF ListedOn
  <2> QED
    BY <2>1
<1>2. (CHOOSE e : e = ListedOn(e, kids, g, n, Len(kids))) = (CHOOSE e : e = ListedOn(e, kids, h, n, Len(kids)))
  BY <1>1
<1> QED
  BY <1>2 DEF Lists, ListedOn

\* One more tree: a category and the trees of its children.
LEMMA ForestExtended ==
    ASSUME NEW R, NEW up, NEW d, Deep(R, up, d), NEW n \in Int, NEW s, NEW K, NEW c \in R, NEW t,
           Forest(s, K, n, R, up, d), c \notin K, d[c] = n,
           Forest(t, ChildrenOf(R, up, c), n + 1, R, up, d)
    PROVE  Forest(s \o <<[id |-> c, depth |-> n]>> \o t, K \cup {c}, n, R, up, d)
<1>1. PICK x, w : x = [id |-> c, depth |-> n] /\ w = <<x>>
  OBVIOUS
<1>2. Forest(w \o t, {c}, n, R, up, d)
  BY <1>1, ForestPlanted
<1>3. Forest(s \o (w \o t), K \cup {c}, n, R, up, d)
  BY <1>2, ForestsJoined
<1>4. s \in Seq(Node(R)) /\ t \in Seq(Node(R))
  BY DEF Forest
<1>5. x \in Node(R)
  BY <1>1 DEF Node
<1>6. w \in Seq(Node(R))
  BY <1>1, <1>5
<1>7. (s \o w) \o t = s \o (w \o t)
  BY <1>4, <1>6, ConcatAssociative
<1> QED
  BY <1>1, <1>3, <1>7

\* The trees of the children of q, one after the other.
LEMMA ForestListed ==
    ASSUME NEW R, NEW up, NEW d, Deep(R, up, d), NEW q \in R \cup {0}, NEW kids \in Seq(R), NEW h,
           \A i, j \in DOMAIN kids : i # j => kids[i] # kids[j],
           {kids[i] : i \in DOMAIN kids} = ChildrenOf(R, up, q),
           \A c \in ChildrenOf(R, up, q) : Forest(h[c][d[c] + 1], ChildrenOf(R, up, c), d[c] + 1, R, up, d)
    PROVE  Forest(Lists(kids, h, d[q] + 1), ChildrenOf(R, up, q), d[q] + 1, R, up, d)
<1> DEFINE n == d[q] + 1
           m == Len(kids)
           First(i) == {kids[j] : j \in 1..i}
<1>1. n \in Int /\ m \in Nat /\ DOMAIN kids = 1..m
  BY DEF Deep
<1>2. PICK g : g = ListedOn(g, kids, h, n, m) /\ Lists(kids, h, n) = g[m]
  BY <1>1, ListsIs
<1>3. \A k \in 1..m : kids[k] \in ChildrenOf(R, up, q) /\ kids[k] \in R /\ d[kids[k]] = n
  <2>1. \A k \in 1..m : kids[k] \in ChildrenOf(R, up, q)
    BY <1>1
  <2>2. \A c \in ChildrenOf(R, up, q) : c \in R /\ d[c] = n
    BY DeepTypes DEF ChildrenOf
  <2> QED
    BY <2>1, <2>2
<1>4. g[0] = <<>> /\ \A k \in 1..m : g[k] = g[k - 1] \o <<[id |-> kids[k], depth |-> n]>> \o h[kids[k]][n + 1]
  <2> HIDE DEF m, n
  <2>1. \A k \in 0..m : g[k] = IF k = 0 THEN <<>>
                               ELSE g[k - 1] \o <<[id |-> kids[k], depth |-> n]>> \o h[kids[k]][n + 1]
    BY <1>2 DEF ListedOn
  <2>2. 0 \in 0..m /\ \A k \in 1..m : k \in 0..m /\ k # 0
    BY <1>1
  <2> QED
    BY <2>1, <2>2
<1> HIDE DEF m, n
<1> DEFINE Bad == {i \in 0..m : ~ Forest(g[i], First(i), n, R, up, d)}
<1>5. Bad = {}
  <2>1. SUFFICES ASSUME Bad # {} PROVE FALSE
    OBVIOUS
  <2>2. PICK i \in Bad : \A k \in Bad : i <= k
    <3>1. Bad \subseteq Nat
      BY <1>1
    <3> QED
      BY <2>1, <3>1, LeastNat
  <2>3. i # 0
    <3>1. First(0) = {} /\ Forest(<<>>, {}, n, R, up, d)
      BY NoForest
    <3>2. Forest(g[0], First(0), n, R, up, d)
      BY <1>4, <3>1
    <3> QED
      BY <2>2, <3>2
  <2>4. i \in 1..m /\ i - 1 \in 0..m /\ ~ (i <= i - 1)
    BY <1>1, <2>2, <2>3
  <2>5. Forest(g[i - 1], First(i - 1), n, R, up, d)
    BY <2>2, <2>4
  <2>6. First(i) = First(i - 1) \cup {kids[i]} /\ First(i - 1) \cap {kids[i]} = {}
    <3>1. \A j \in 1..i : j \in 1..(i - 1) \/ j = i
      BY <2>4
    <3>2. \A j \in 1..(i - 1) : j \in DOMAIN kids /\ j # i /\ j \in 1..i
      BY <1>1, <2>4
    <3> QED
      BY <1>1, <2>4, <3>1, <3>2
  <2>7. kids[i] \in R /\ d[kids[i]] = n /\ kids[i] \notin First(i - 1)
    BY <1>3, <2>4, <2>6
  <2>8. Forest(h[kids[i]][n + 1], ChildrenOf(R, up, kids[i]), n + 1, R, up, d)
    BY <1>3, <2>4
  <2>9. g[i] = g[i - 1] \o <<[id |-> kids[i], depth |-> n]>> \o h[kids[i]][n + 1]
    BY <1>4, <2>4
  <2> HIDE DEF First
  <2>10. Forest(g[i], First(i), n, R, up, d)
    BY <1>1, <2>5, <2>6, <2>7, <2>8, <2>9, ForestExtended
  <2> QED
    BY <2>2, <2>10
<1>6. First(m) = ChildrenOf(R, up, q) /\ m \in 0..m
  BY <1>1
<1>7. Forest(g[m], First(m), n, R, up, d)
  BY <1>5, <1>6
<1> QED
  BY <1>2, <1>6, <1>7 DEF n

-----------------------------------------------------------------------------
(* Depths.  When every set of categories that holds those below its        *)
(* members and below none is all of R, each has a depth.                   *)

Hangs(R, up) ==
    /\ IsFiniteSet(R) /\ R \subseteq Nat \ {0} /\ up \in [R -> R \cup {0}]
    /\ \A S \in SUBSET R : (\A c \in R : up[c] \in S \cup {0} => c \in S) => S = R

Measured(S, up, d) ==
    /\ d \in [S \cup {0} -> Nat \cup {-1}] /\ d[0] = -1
    /\ \A c \in S : up[c] \in S \cup {0} /\ d[c] = d[up[c]] + 1

\* The largest set of categories that have a depth is all of R.
LEMMA DepthExists ==
    ASSUME NEW R, NEW up, Hangs(R, up)
    PROVE  \E d : Deep(R, up, d)
<1> DEFINE B == {T \in SUBSET R : \E d : Measured(R \ T, up, d)}
<1>1. R \in B
  <2>1. Measured(R \ R, up, [c \in {0} |-> -1])
    BY DEF Measured
  <2> QED
    BY <2>1
<1>2. PICK T \in B : \A U \in B : U \subseteq T => U = T
  <2>1. B \in SUBSET (SUBSET R) /\ B # {} /\ IsFiniteSet(R)
    BY <1>1 DEF Hangs
  <2> HIDE DEF B
  <2> QED
    BY <2>1, MinimalSubset
<1>3. PICK S : S = R \ T
  OBVIOUS
<1>4. PICK d : Measured(S, up, d)
  BY <1>2, <1>3
<1>5. S = R
  <2>1. SUFFICES ASSUME S # R PROVE FALSE
    OBVIOUS
  <2>2. PICK c \in R : up[c] \in S \cup {0} /\ c \notin S
    BY <1>3, <2>1 DEF Hangs
  <2>3. PICK e : e = [x \in (S \cup {c}) \cup {0} |-> IF x = c THEN d[up[c]] + 1 ELSE d[x]]
    OBVIOUS
  <2>4. c # 0 /\ 0 \notin S /\ S \subseteq R
    BY <1>3 DEF Hangs
  <2>5. e[0] = -1 /\ e \in [(S \cup {c}) \cup {0} -> Nat \cup {-1}] /\ \A x \in S \cup {0} : e[x] = d[x]
    BY <1>4, <2>2, <2>3, <2>4 DEF Measured
  <2>6. e[c] = d[up[c]] + 1
    BY <2>3
  <2>7. Measured(S \cup {c}, up, e)
    BY <1>4, <2>2, <2>5, <2>6 DEF Measured
  <2>8. R \ (T \ {c}) = S \cup {c} /\ T \ {c} \in SUBSET R
    BY <1>2, <1>3, <2>2
  <2>9. T \ {c} \in B
    BY <2>7, <2>8
  <2>10. c \in T
    BY <1>3, <2>2
  <2> HIDE DEF B
  <2> QED
    BY <1>2, <2>9, <2>10
<1>6. Deep(R, up, d)
  BY <1>4, <1>5 DEF Measured, Deep, Hangs
<1> QED
  BY <1>6

\* A set of categories has a deepest one.
LEMMA Deepest ==
    ASSUME NEW R, NEW up, NEW d, IsFiniteSet(R), Deep(R, up, d), NEW S \in SUBSET (R \cup {0}), S # {}
    PROVE  \E c \in S : \A e \in S : d[e] <= d[c]
<1> DEFINE Deeper(c) == {e \in S : d[e] > d[c]}
           B == {Deeper(c) : c \in S}
<1>1. IsFiniteSet(S)
  BY FS_AddElement, FS_Subset
<1>2. B \in SUBSET (SUBSET S) /\ B # {}
  <2>1. \A c \in S : Deeper(c) \in SUBSET S
    OBVIOUS
  <2> HIDE DEF Deeper
  <2> QED
    BY <2>1
<1>3. PICK D \in B : \A E \in B : E \subseteq D => E = D
  <2> HIDE DEF B
  <2> QED
    BY <1>1, <1>2, MinimalSubset
<1>4. PICK c \in S : D = Deeper(c)
  OBVIOUS
<1>5. \A e \in S : d[e] \in Int
  BY DeepTypes
<1>6. ASSUME NEW e \in S, d[e] > d[c] PROVE FALSE
  <2>1. Deeper(e) \subseteq Deeper(c) /\ e \in Deeper(c) /\ e \notin Deeper(e)
    BY <1>5, <1>6
  <2>2. Deeper(e) \in B
    OBVIOUS
  <2> HIDE DEF Deeper, B
  <2> QED
    BY <1>3, <1>4, <2>1, <2>2
<1> QED
  BY <1>5, <1>6

-----------------------------------------------------------------------------
(* The tree: every category lists its children, those that hang on a root. *)

\* The children of each of R, in order.
Kids(K, R, up) ==
    \A q \in R \cup {0} :
      /\ K[q] \in Seq(R) /\ {K[q][i] : i \in DOMAIN K[q]} = ChildrenOf(R, up, q)
      /\ \A i, j \in DOMAIN K[q] : i # j => K[q][i] # K[q][j]

BuiltOn(g, K, D) == [q \in D |-> [n \in Nat |-> Lists(K[q], g, n)]]

\* What the nodes list exists: the largest set of nodes that holds the
\* children of its members, and for which it exists, is that of all nodes.
LEMMA BuildExists ==
    ASSUME NEW R, NEW up, NEW d, IsFiniteSet(R), Deep(R, up, d), NEW K, Kids(K, R, up)
    PROVE  \E g : g = BuiltOn(g, K, R \cup {0})
<1> DEFINE A == R \cup {0}
           B == {T \in SUBSET A : /\ \A q \in A \ T : ChildrenOf(R, up, q) \cap T = {}
                                  /\ \E g : g = BuiltOn(g, K, A \ T)}
<1>1. A \in B
  <2>1. \A g : BuiltOn(g, K, A \ A) = [q \in {} |-> [n \in Nat |-> <<>>]]
    BY DEF BuiltOn
  <2> QED
    BY <2>1
<1>2. PICK T \in B : \A U \in B : U \subseteq T => U = T
  <2>1. B \in SUBSET (SUBSET A) /\ B # {} /\ IsFiniteSet(A)
    BY <1>1, FS_AddElement
  <2> HIDE DEF A, B
  <2> QED
    BY <2>1, MinimalSubset
<1>3. PICK g : g = BuiltOn(g, K, A \ T)
  OBVIOUS
<1>4. T = {}
  <2>1. SUFFICES ASSUME T # {} PROVE FALSE
    OBVIOUS
  <2>2. PICK q \in T : \A e \in T : d[e] <= d[q]
    BY <2>1, Deepest
  <2>3. ChildrenOf(R, up, q) \cap T = {}
    <3>1. ASSUME NEW c \in ChildrenOf(R, up, q), c \in T PROVE FALSE
      <4>1. d[c] = d[q] + 1 /\ d[q] \in Int /\ d[c] <= d[q]
        BY <1>2, <2>2, <3>1, DeepTypes DEF ChildrenOf
      <4> QED
        BY <4>1
    <3> QED
      BY <3>1
  <2>4. PICK D : D = A \ (T \ {q})
    OBVIOUS
  <2>5. D = (A \ T) \cup {q} /\ q \in A /\ T \ {q} \in SUBSET A
    BY <1>2, <2>2, <2>4
  <2>6. \A x \in D : ChildrenOf(R, up, x) \cap T = {} /\ ChildrenOf(R, up, x) \subseteq A \ T
    BY <1>2, <2>3, <2>5 DEF ChildrenOf
  <2>7. PICK e : e = [x \in D |-> [n \in Nat |-> Lists(K[x], g, n)]]
    OBVIOUS
  <2>8. \A x \in A \ T : e[x] = g[x]
    BY <1>3, <2>5, <2>7 DEF BuiltOn
  <2>9. ASSUME NEW x \in D, NEW n \in Nat PROVE Lists(K[x], g, n) = Lists(K[x], e, n)
    <3>1. K[x] \in Seq(R) /\ {K[x][i] : i \in DOMAIN K[x]} = ChildrenOf(R, up, x)
      BY <2>4 DEF Kids
    <3>2. Len(K[x]) \in Nat /\ DOMAIN K[x] = 1..Len(K[x])
      BY <3>1
    <3>3. \A i \in 1..Len(K[x]) : g[K[x][i]] = e[K[x][i]]
      BY <2>6, <2>8, <3>1, <3>2
    <3> QED
      BY <3>2, <3>3, ListsSame
  <2>10. e = BuiltOn(e, K, D)
    BY <2>7, <2>9 DEF BuiltOn
  <2>11. T \ {q} \in B
    BY <2>4, <2>5, <2>6, <2>10
  <2> HIDE DEF A, B
  <2> QED
    BY <1>2, <2>2, <2>11
<1> QED
  BY <1>3, <1>4

\* A node lists the trees of its children: a deepest one that does not would
\* have children that do.
LEMMA BuildForest ==
    ASSUME NEW R, NEW up, NEW d, IsFiniteSet(R), Deep(R, up, d), NEW K, Kids(K, R, up),
           NEW g, g = BuiltOn(g, K, R \cup {0}), NEW q \in R \cup {0}
    PROVE  Forest(g[q][d[q] + 1], ChildrenOf(R, up, q), d[q] + 1, R, up, d)
<1> DEFINE Good(x) == Forest(g[x][d[x] + 1], ChildrenOf(R, up, x), d[x] + 1, R, up, d)
           Bad == {x \in R \cup {0} : ~ Good(x)}
<1>1. SUFFICES ASSUME Bad # {} PROVE FALSE
  OBVIOUS
<1>2. PICK x \in Bad : \A e \in Bad : d[e] <= d[x]
  <2>1. Bad \in SUBSET (R \cup {0})
    OBVIOUS
  <2> HIDE DEF Bad
  <2> QED
    BY <1>1, <2>1, Deepest
<1>3. \A c \in ChildrenOf(R, up, x) : c \in R \cup {0} /\ d[c] = d[x] + 1 /\ d[x] \in Int
  BY DeepTypes DEF ChildrenOf
<1>4. \A c \in ChildrenOf(R, up, x) : Good(c)
  BY <1>2, <1>3
<1>5. d[x] + 1 \in Nat
  BY DeepTypes
<1>6. g[x][d[x] + 1] = Lists(K[x], g, d[x] + 1)
  BY <1>5 DEF BuiltOn
<1>7. Forest(Lists(K[x], g, d[x] + 1), ChildrenOf(R, up, x), d[x] + 1, R, up, d)
  <2>1. /\ K[x] \in Seq(R) /\ {K[x][i] : i \in DOMAIN K[x]} = ChildrenOf(R, up, x)
        /\ \A i, j \in DOMAIN K[x] : i # j => K[x][i] # K[x][j]
    BY DEF Kids
  <2> QED
    BY <1>4, <2>1, ForestListed
<1> QED
  BY <1>2, <1>6, <1>7

-----------------------------------------------------------------------------
(* A finite set of ids can be ordered, and an ordering lists all of it.    *)

Precedes(r, c, e) == r[c] < r[e] \/ (r[c] = r[e] /\ c < e)
Sortable(r, S) == S \subseteq Nat /\ r \in [S -> Int]
Ordering(r, S, s) ==
    s \in [1..Cardinality(S) -> S] /\ \A i, j \in DOMAIN s : i < j => Precedes(r, s[i], s[j])

\* An ordering exists: a smallest set without one has a last member, and an
\* ordering of the rest.
LEMMA OrderingExists ==
    ASSUME NEW S, IsFiniteSet(S), NEW r, Sortable(r, S)
    PROVE  \E s : Ordering(r, S, s)
<1> DEFINE B == {T \in SUBSET S : ~ \E s : Ordering(r, T, s)}
<1>1. SUFFICES ASSUME B # {} PROVE FALSE
  OBVIOUS
<1>2. PICK T \in B : \A U \in B : U \subseteq T => U = T
  <2>1. B \in SUBSET (SUBSET S) /\ B # {} /\ IsFiniteSet(S)
    BY <1>1
  <2> HIDE DEF B
  <2> QED
    BY <2>1, MinimalSubset
<1>3. IsFiniteSet(T) /\ Cardinality(T) \in Nat
  BY FS_Subset, FS_CardinalityType
<1>4. T # {}
  <2>1. Ordering(r, {}, <<>>)
    BY FS_EmptySet DEF Ordering
  <2> QED
    BY <1>2, <2>1
<1>5. PICK c \in T : \A e \in T : e # c => Precedes(r, e, c)
  <2> DEFINE After(x) == {e \in T : Precedes(r, x, e)}
             C == {After(x) : x \in T}
  <2>1. C \in SUBSET (SUBSET T) /\ C # {}
    <3>1. \A x \in T : After(x) \in SUBSET T
      OBVIOUS
    <3> HIDE DEF After
    <3> QED
      BY <1>4, <3>1
  <2>2. PICK D \in C : \A E \in C : E \subseteq D => E = D
    <3> HIDE DEF B, C
    <3> QED
      BY <1>3, <2>1, MinimalSubset
  <2>3. PICK c \in T : D = After(c)
    OBVIOUS
  <2>4. \A e \in T : r[e] \in Int /\ e \in Nat
    BY DEF Sortable
  <2>5. ASSUME NEW e \in T, e # c PROVE Precedes(r, e, c)
    <3>1. Precedes(r, c, e) \/ Precedes(r, e, c)
      <4>1. r[e] \in Int /\ r[c] \in Int /\ e \in Nat /\ c \in Nat
        BY <2>4
      <4> QED
        BY <2>5, <4>1 DEF Precedes
    <3>2. SUFFICES ASSUME Precedes(r, c, e) PROVE FALSE
      BY <3>1
    <3>3. ~ Precedes(r, e, e) /\ \A x \in T : Precedes(r, e, x) => Precedes(r, c, x)
      BY <2>4, <3>2 DEF Precedes
    <3>4. After(e) \subseteq After(c) /\ e \in After(c) /\ e \notin After(e)
      BY <3>2, <3>3
    <3>5. After(e) \in C
      OBVIOUS
    <3> HIDE DEF After, C
    <3> QED
      BY <2>2, <2>3, <3>4, <3>5
  <2> QED
    BY <2>5
<1>6. PICK U : U = T \ {c}
  OBVIOUS
<1>7. PICK n \in Nat : n = Cardinality(T)
  BY <1>3
<1>8. Cardinality(U) = n - 1 /\ n - 1 \in Nat
  <2>1. Cardinality(U) = n - 1 /\ IsFiniteSet(U)
    BY <1>3, <1>6, <1>7, FS_RemoveElement
  <2> QED
    BY <2>1, FS_CardinalityType
<1>9. PICK s : Ordering(r, U, s)
  <2>1. U \in SUBSET S /\ U \subseteq T /\ U # T
    BY <1>5, <1>6
  <2>2. U \notin B
    <3> HIDE DEF B
    <3> QED
      BY <1>2, <2>1
  <2> QED
    BY <2>1, <2>2
<1>10. PICK t : t = [i \in 1..n |-> IF i = n THEN c ELSE s[i]]
  OBVIOUS
<1>11. \A i \in 1..n : i # n => i \in 1..(n - 1) /\ s[i] \in U /\ t[i] = s[i]
  BY <1>8, <1>9, <1>10 DEF Ordering
<1>12. t[n] = c
  BY <1>8, <1>10
<1>13. t \in [1..n -> T]
  BY <1>6, <1>10, <1>11
<1>14. ASSUME NEW i \in 1..n, NEW j \in 1..n, i < j PROVE Precedes(r, t[i], t[j])
  <2>1. i # n
    BY <1>14
  <2>2. CASE j = n
    BY <1>5, <1>6, <1>11, <1>12, <2>1, <2>2
  <2>3. CASE j # n
    BY <1>8, <1>9, <1>11, <1>14, <2>1, <2>3 DEF Ordering
  <2> QED
    BY <2>2, <2>3
<1>15. Ordering(r, T, t)
  BY <1>7, <1>13, <1>14 DEF Ordering
<1> QED
  BY <1>2, <1>15

\* It is strict, so it lists as many ids as there are: all of them, once.
LEMMA OrderingAll ==
    ASSUME NEW S, IsFiniteSet(S), NEW r, Sortable(r, S), NEW s, Ordering(r, S, s)
    PROVE  /\ s \in Seq(S) /\ {s[i] : i \in DOMAIN s} = S
           /\ \A i, j \in DOMAIN s : i # j => s[i] # s[j]
<1>1. PICK n \in Nat : n = Cardinality(S)
  BY FS_CardinalityType
<1>2. s \in [1..n -> S] /\ \A i, j \in 1..n : i < j => Precedes(r, s[i], s[j])
  BY <1>1 DEF Ordering
<1>3. s \in Seq(S)
  BY <1>2
<1>4. ASSUME NEW i \in 1..n, NEW j \in 1..n, i # j PROVE s[i] # s[j]
  <2>1. s[i] \in S /\ s[j] \in S
    BY <1>2
  <2>2. \A c \in S : ~ Precedes(r, c, c)
    BY DEF Precedes, Sortable
  <2>3. i < j \/ j < i
    BY <1>4
  <2> QED
    BY <1>2, <2>1, <2>2, <2>3
<1>5. ASSUME NEW c \in S, \A i \in 1..n : s[i] # c PROVE FALSE
  <2>1. s \in [1..n -> S \ {c}]
    BY <1>2, <1>5
  <2>2. IsFiniteSet(S \ {c}) /\ Cardinality(S \ {c}) = n - 1
    BY <1>1, <1>5, FS_RemoveElement
  <2>3. IsFiniteSet(1..n) /\ Cardinality(1..n) = n
    BY FS_Interval
  <2>4. Cardinality(S \ {c}) < Cardinality(1..n)
    BY <2>2, <2>3
  <2>5. \E i, j \in 1..n : i # j /\ s[i] = s[j]
    BY <2>1, <2>2, <2>3, <2>4, FS_PigeonHole
  <2> QED
    BY <1>4, <2>5
<1> QED
  BY <1>2, <1>3, <1>4, <1>5

-----------------------------------------------------------------------------
(* Category: the tree of the rows. *)

Parents(f) == [c \in Category(f)!Rooted |-> cats[c].parent]

\* The ids and the columns of the rows.
LEMMA RowTypes ==
    ASSUME NEW CONSTANT f, Category(f)!CategoryAssumption, CategoryInv(f)
    PROVE  \A c \in Category(f)!Rows :
             c \in Nat /\ c # 0 /\ cats[c].parent \in Category(f)!Rows \cup {0} /\ cats[c].sort \in Int
BY DEF Category!CategoryAssumption, CategoryInv, CategoryRow, Category!Rows, Category!Null

\* The rooted categories hang together: with its parent, each is one of them,
\* and none of them can be left out.
LEMMA RootedHangs ==
    ASSUME NEW CONSTANT f, Category(f)!CategoryAssumption, CategoryInv(f)
    PROVE  /\ Hangs(Category(f)!Rooted, Parents(f)) /\ Category(f)!Rooted \subseteq Category(f)!Rows
           /\ \A c \in Category(f)!Rows : cats[c].parent \in Category(f)!Rooted \cup {0} => c \in Category(f)!Rooted
<1> DEFINE W == Category(f)!Rows
           R == Category(f)!Rooted
           Shut(S) == \A c \in W : cats[c].parent \in S \cup {0} => c \in S
<1>1. R \subseteq W /\ \A c \in W : c \in R <=> \A S \in SUBSET W : Shut(S) => c \in S
  BY DEF Category!Rooted, Category!Closed, Category!Null
<1>2. W \subseteq Nat \ {0} /\ IsFiniteSet(W)
  BY RowTypes DEF CategoryInv
<1> HIDE DEF R, W
<1>3. Shut(R)
  <2>1. ASSUME NEW c \in W, cats[c].parent \in R \cup {0}, NEW S \in SUBSET W, Shut(S) PROVE c \in S
    BY <1>1, <2>1
  <2> QED
    BY <1>1, <2>1
<1>4. ASSUME NEW c \in R PROVE cats[c].parent \in R \cup {0}
  <2>1. PICK P : P = {e \in W : cats[e].parent \in R \cup {0}}
    OBVIOUS
  <2>2. P \subseteq R /\ P \in SUBSET W
    BY <1>3, <2>1
  <2>3. Shut(P)
    BY <2>1, <2>2
  <2>4. c \in P
    BY <1>1, <2>2, <2>3
  <2> QED
    BY <2>1, <2>4
<1>5. ASSUME NEW S \in SUBSET R, \A c \in R : cats[c].parent \in S \cup {0} => c \in S PROVE S = R
  <2>1. S \in SUBSET W
    BY <1>1
  <2>2. Shut(S)
    BY <1>3, <1>5
  <2>3. R \subseteq S
    BY <1>1, <2>1, <2>2
  <2> QED
    BY <2>3
<1>6. IsFiniteSet(R)
  BY <1>1, <1>2, FS_Subset
<1>7. Parents(f) = [c \in R |-> cats[c].parent]
  BY DEF Parents, R
<1>8. Hangs(R, Parents(f))
  BY <1>1, <1>2, <1>4, <1>5, <1>6, <1>7 DEF Hangs
<1> QED
  BY <1>1, <1>3, <1>8 DEF R, W

\* What ORDER BY gives is an ordering.
LEMMA CategoryOrdered ==
    ASSUME NEW CONSTANT f, Category(f)!CategoryAssumption, CategoryInv(f), NEW S \in SUBSET Category(f)!Rows
    PROVE  LET s == Category(f)!Ordered(S) IN
           /\ s \in Seq(S) /\ {s[i] : i \in DOMAIN s} = S
           /\ \A i, j \in DOMAIN s : i # j => s[i] # s[j]
<1>1. PICK r : r = [c \in S |-> cats[c].sort]
  OBVIOUS
<1>2. Sortable(r, S)
  BY <1>1, RowTypes DEF Sortable
<1>3. IsFiniteSet(S)
  BY FS_Subset DEF CategoryInv
<1>4. \A c, e \in S : Category(f)!Before(c, e) <=> Precedes(r, c, e)
  BY <1>1 DEF Category!Before, Precedes
<1>5. PICK Fits : Fits = {s \in [1..Cardinality(S) -> S] :
                            \A i, j \in DOMAIN s : i < j => Category(f)!Before(s[i], s[j])}
  OBVIOUS
<1>6. \A s : s \in Fits <=> Ordering(r, S, s)
  BY <1>4, <1>5 DEF Ordering
<1>7. PICK t : t \in Fits
  BY <1>2, <1>3, <1>6, OrderingExists
<1>8. Category(f)!Ordered(S) \in Fits
  <2>1. \E s \in [1..Cardinality(S) -> S] : \A i, j \in DOMAIN s : i < j => Category(f)!Before(s[i], s[j])
    BY <1>5, <1>7
  <2>2. PICK u : u = CHOOSE s \in [1..Cardinality(S) -> S] :
                      \A i, j \in DOMAIN s : i < j => Category(f)!Before(s[i], s[j])
    OBVIOUS
  <2>3. u \in [1..Cardinality(S) -> S] /\ \A i, j \in DOMAIN u : i < j => Category(f)!Before(u[i], u[j])
    BY <2>1, <2>2
  <2>4. Category(f)!Ordered(S) = u
    <3>1. Category(f)!Cardinality(S) = Cardinality(S)
      BY DEF Category!Cardinality, Cardinality
    <3> QED
      BY <2>2, <3>1 DEF Category!Ordered
  <2> QED
    BY <1>5, <2>3, <2>4
<1>9. Ordering(r, S, Category(f)!Ordered(S))
  BY <1>6, <1>8
<1> QED
  BY <1>2, <1>3, <1>9, OrderingAll

\* The tree is a forest of all that hangs on a root.
LEMMA TreeForest ==
    ASSUME NEW CONSTANT f, Category(f)!CategoryAssumption, CategoryInv(f), NEW d,
           Deep(Category(f)!Rooted, Parents(f), d)
    PROVE  Forest(Category(f)!Tree, ChildrenOf(Category(f)!Rooted, Parents(f), 0), 0,
                  Category(f)!Rooted, Parents(f), d)
<1> DEFINE R == Category(f)!Rooted
           up == Parents(f)
           K == [q \in R \cup {0} |-> Category(f)!Ordered(Category(f)!Children(q))]
<1>1. Hangs(R, up) /\ R \subseteq Category(f)!Rows
      /\ \A c \in Category(f)!Rows : cats[c].parent \in R \cup {0} => c \in R
  BY RootedHangs
<1>2. \A q \in R \cup {0} : Category(f)!Children(q) = ChildrenOf(R, up, q)
  <2>1. \A c \in R : up[c] = cats[c].parent
    BY DEF Parents
  <2> QED
    BY <1>1, <2>1 DEF Category!Children, ChildrenOf
<1>3. ASSUME NEW q \in R \cup {0}
      PROVE  /\ K[q] \in Seq(R) /\ {K[q][i] : i \in DOMAIN K[q]} = ChildrenOf(R, up, q)
             /\ \A i, j \in DOMAIN K[q] : i # j => K[q][i] # K[q][j]
  <2>1. PICK s, S : S = ChildrenOf(R, up, q) /\ s = Category(f)!Ordered(S)
    OBVIOUS
  <2>2. S \in SUBSET Category(f)!Rows /\ S \subseteq R
    BY <1>1, <2>1 DEF ChildrenOf
  <2>3. s \in Seq(S) /\ {s[i] : i \in DOMAIN s} = S /\ \A i, j \in DOMAIN s : i # j => s[i] # s[j]
    BY <2>1, <2>2, CategoryOrdered
  <2>4. s \in Seq(R)
    BY <2>2, <2>3
  <2>5. K[q] = s
    BY <1>2, <2>1
  <2> HIDE DEF K
  <2> QED
    BY <2>1, <2>3, <2>4, <2>5
<1>4. Kids(K, R, up)
  BY <1>3 DEF Kids
<1>5. PICK g : g = CHOOSE e : e = [q \in Category(f)!Rooted \cup {Category(f)!Null} |->
                  [n \in Nat |-> Lists(Category(f)!Ordered(Category(f)!Children(q)), e, n)]]
  OBVIOUS
<1>6. Category(f)!Tree = g[0][0]
  BY <1>5 DEF Category!Tree, Category!BuildTree, Category!Null, Lists
<1>7. \A e : BuiltOn(e, K, R \cup {0}) = [q \in Category(f)!Rooted \cup {Category(f)!Null} |->
                  [n \in Nat |-> Lists(Category(f)!Ordered(Category(f)!Children(q)), e, n)]]
  BY DEF BuiltOn, Category!Null
<1>8. \E e : e = BuiltOn(e, K, R \cup {0})
  <2>1. IsFiniteSet(R)
    BY <1>1 DEF Hangs
  <2> HIDE DEF K, R, up
  <2> QED
    BY <1>4, <2>1, BuildExists DEF R, up
<1>9. g = BuiltOn(g, K, R \cup {0})
  <2> HIDE DEF K, R
  <2> QED
    BY <1>5, <1>7, <1>8
<1>10. Forest(g[0][d[0] + 1], ChildrenOf(R, up, 0), d[0] + 1, R, up, d)
  <2>1. IsFiniteSet(R) /\ Deep(R, up, d) /\ 0 \in R \cup {0}
    BY <1>1 DEF Hangs
  <2> HIDE DEF K, R, up
  <2> QED
    BY <1>4, <1>9, <2>1, BuildForest
<1>11. d[0] + 1 = 0
  BY DEF Deep
<1> QED
  BY <1>6, <1>10, <1>11

\* What the API shows of it.
LEMMA CategoryTree ==
    ASSUME NEW CONSTANT f, Category(f)!CategoryAssumption, CategoryInv(f)
    PROVE  Category(f)!TreeShowsRooted
<1>1. PICK R, up, t : R = Category(f)!Rooted /\ up = Parents(f) /\ t = Category(f)!Tree
  OBVIOUS
<1>2. Hangs(R, up) /\ \A c \in R : up[c] = cats[c].parent
  BY <1>1, RootedHangs DEF Parents
<1>3. PICK d : Deep(R, up, d)
  BY <1>2, DepthExists
<1>4. Forest(t, ChildrenOf(R, up, 0), 0, R, up, d)
  BY <1>1, <1>3, TreeForest
<1>5. PICK ids : ids = [k \in DOMAIN t |-> t[k].id]
  OBVIOUS
<1>6. \A k \in DOMAIN t : t[k] \in Node(R) /\ t[k].id \in R
  <2>1. t \in Seq(Node(R))
    BY <1>4 DEF Forest
  <2>2. \A k \in DOMAIN t : t[k] \in Node(R)
    BY <2>1
  <2> QED
    BY <2>2 DEF Node
<1>7. {ids[k] : k \in DOMAIN ids} = R
  <2>1. PICK P : P = {c \in R : Shows(t, c)}
    OBVIOUS
  <2>2. P \in SUBSET R /\ \A c \in R : up[c] \in P \cup {0} => c \in P
    BY <1>4, <2>1 DEF Forest, ChildrenOf
  <2>3. P = R
    BY <1>2, <2>2 DEF Hangs
  <2>4. \A c \in R : \E k \in DOMAIN t : t[k].id = c
    BY <2>1, <2>3 DEF Shows
  <2> QED
    BY <1>5, <1>6, <2>4
<1>8. \A j, k \in DOMAIN t : ids[j] = ids[k] => j = k
  BY <1>4, <1>5 DEF Forest
<1>9. ASSUME NEW k \in DOMAIN t
      PROVE  LET p == cats[ids[k]].parent IN
             IF p = 0 THEN t[k].depth = 0
             ELSE \E j \in 1..(k - 1) :
                    /\ ids[j] = p /\ t[j].depth = t[k].depth - 1
                    /\ \A n \in (j + 1)..(k - 1) : t[n].depth > t[j].depth
  <2>1. PICK c \in R : c = t[k].id /\ ids[k] = c
    BY <1>5, <1>6
  <2>2. t[k].depth = d[c] /\ d[c] = d[up[c]] + 1 /\ d[up[c]] \in Int /\ up[c] = cats[c].parent
    BY <1>2, <1>3, <1>4, <2>1, DeepTypes DEF Forest
  <2>3. CASE up[c] = 0
    BY <1>3, <2>1, <2>2, <2>3 DEF Deep
  <2>4. CASE up[c] # 0
    <3>1. Placed(t, k, up)
      BY <1>4, <2>1, <2>4 DEF Forest, ChildrenOf
    <3>2. PICK j \in 1..(k - 1) : t[j].id = up[c] /\ \A n \in (j + 1)..(k - 1) : t[n].depth > t[j].depth
      BY <2>1, <3>1 DEF Placed
    <3>3. t \in Seq(Node(R))
      BY <1>4 DEF Forest
    <3>4. j \in DOMAIN t
      BY <3>2, <3>3
    <3>5. ids[j] = up[c] /\ t[j].depth = d[up[c]]
      BY <1>4, <1>5, <3>2, <3>4 DEF Forest
    <3> QED
      BY <2>1, <2>2, <2>4, <3>2, <3>5
  <2> QED
    BY <2>3, <2>4
<1> QED
  BY <1>1, <1>5, <1>7, <1>8, <1>9
  DEF Category!TreeShowsRooted, Category!Range, Category!IsInjective, Category!Null

-----------------------------------------------------------------------------
(* Diff: JSON values, level by level. *)

\* What a list of the values of each depth satisfies.
JsonOf(J, n) ==
    [d \in 0..n |-> {Diff!Null} \cup {Diff!Scalar(x) : x \in Scalars}
       \cup IF d = 0 THEN {} ELSE {Diff!Object(f) : f \in UNION {[K -> J[d - 1]] : K \in SUBSET Keys}}]
JsonLevel(J, d) ==
    {Diff!Null} \cup {Diff!Scalar(x) : x \in Scalars}
      \cup IF d = 0 THEN {} ELSE {Diff!Object(f) : f \in UNION {[K -> J[d - 1]] : K \in SUBSET Keys}}

\* The list exists.
LEMMA JsonExists ==
    ASSUME NEW n \in Nat PROVE \E J : J = JsonOf(J, n)
<1> DEFINE B == {m \in Nat : ~\E J : J = JsonOf(J, m)}
<1>1. SUFFICES ASSUME B # {} PROVE FALSE
  OBVIOUS
<1>2. PICK m \in B : \A k \in B : m <= k
  <2>1. B \in SUBSET Nat
    OBVIOUS
  <2> HIDE DEF B
  <2> QED
    BY <1>1, <2>1, LeastNat
<1>3. m # 0
  <2>1. SUFFICES ASSUME m = 0 PROVE \E J : J = JsonOf(J, 0)
    OBVIOUS
  <2>2. PICK J : J = [d \in 0..0 |-> {Diff!Null} \cup {Diff!Scalar(x) : x \in Scalars}]
    OBVIOUS
  <2>3. J = JsonOf(J, 0)
    BY <2>2 DEF JsonOf
  <2> QED
    BY <2>3
<1>4. m - 1 \in Nat /\ m - 1 \notin B
  BY <1>2, <1>3
<1>5. PICK J : J = JsonOf(J, m - 1)
  BY <1>4
<1>6. \A d \in 0..(m - 1) : J[d] = JsonLevel(J, d)
  BY <1>5 DEF JsonOf, JsonLevel
<1>7. PICK I : I = [d \in 0..m |-> JsonLevel(J, d)]
  OBVIOUS
<1>8. \A d \in 0..m : JsonLevel(J, d) = JsonLevel(I, d)
  <2>1. SUFFICES ASSUME NEW d \in 0..m, d # 0 PROVE JsonLevel(J, d) = JsonLevel(I, d)
    BY DEF JsonLevel
  <2>2. d - 1 \in 0..(m - 1) /\ d - 1 \in 0..m
    BY <2>1
  <2>3. I[d - 1] = J[d - 1]
    BY <1>6, <1>7, <2>2
  <2> QED
    BY <2>3 DEF JsonLevel
<1>9. I = JsonOf(I, m)
  <2>1. I = [d \in 0..m |-> JsonLevel(I, d)]
    BY <1>7, <1>8
  <2> QED
    BY <2>1 DEF JsonOf, JsonLevel
<1> QED
  BY <1>2, <1>9

\* The values are those of the last depth.
LEMMA JsonValues ==
    ASSUME Depth \in Nat
    PROVE  \E J : Diff!Values = J[Depth] /\ \A d \in 0..Depth : J[d] = JsonLevel(J, d)
<1>1. Diff!Values = (CHOOSE J : J = JsonOf(J, Depth))[Depth]
  BY DEF Diff!Values, JsonOf
<1>2. PICK J : J = CHOOSE I : I = JsonOf(I, Depth)
  OBVIOUS
<1>3. J = JsonOf(J, Depth)
  BY <1>2, JsonExists
<1>4. \A d \in 0..Depth : J[d] = JsonLevel(J, d)
  BY <1>3 DEF JsonOf, JsonLevel
<1> QED
  BY <1>1, <1>2, <1>4

\* J gives the values of each depth: those with fields have them one level down.
Leveled(J) ==
    /\ J[Depth] = Diff!Values
    /\ \A d \in 0..Depth :
         /\ J[d] \subseteq Diff!Values /\ Diff!Null \in J[d]
         /\ d # 0 => J[d - 1] \subseteq J[d]
         /\ \A v \in J[d] : Diff!IsObject(v) =>
              d # 0 /\ DOMAIN v.at \subseteq Keys /\ \A k \in DOMAIN v.at : v.at[k] \in J[d - 1]

LEMMA JsonLeveled == ASSUME Depth \in Nat PROVE \E J : Leveled(J)
<1>1. PICK J : Diff!Values = J[Depth] /\ \A d \in 0..Depth : J[d] = JsonLevel(J, d)
  BY JsonValues
<1>2. \A d \in 0..Depth : Diff!Null \in J[d]
  BY <1>1 DEF JsonLevel
<1>3. ASSUME NEW d \in 0..Depth, NEW v \in J[d], Diff!IsObject(v)
      PROVE  d # 0 /\ DOMAIN v.at \subseteq Keys /\ \A k \in DOMAIN v.at : v.at[k] \in J[d - 1]
  <2>1. v \in JsonLevel(J, d)
    BY <1>1
  <2>2. v # Diff!Null /\ \A x \in Scalars : v # Diff!Scalar(x)
    BY <1>3 DEF Diff!IsObject, Diff!Null, Diff!Scalar
  <2>3. d # 0 /\ \E f \in UNION {[K -> J[d - 1]] : K \in SUBSET Keys} : v = Diff!Object(f)
    BY <2>1, <2>2 DEF JsonLevel
  <2>4. PICK K \in SUBSET Keys : \E f \in [K -> J[d - 1]] : v = Diff!Object(f)
    BY <2>3
  <2>5. PICK f \in [K -> J[d - 1]] : v = Diff!Object(f)
    BY <2>4
  <2>6. v.at = f
    BY <2>5 DEF Diff!Object
  <2> QED
    BY <2>3, <2>5, <2>6
<1> DEFINE B == {d \in Nat : d < Depth /\ ~(J[d] \subseteq J[d + 1])}
<1>4. B = {}
  <2>1. SUFFICES ASSUME B # {} PROVE FALSE
    OBVIOUS
  <2>2. PICK d \in B : \A e \in B : d <= e
    <3>1. B \in SUBSET Nat
      OBVIOUS
    <3> HIDE DEF B
    <3> QED
      BY <2>1, <3>1, LeastNat
  <2>3. d \in 0..Depth /\ d + 1 \in 0..Depth /\ (d + 1) - 1 = d
    BY <2>2
  <2>4. J[d] = JsonLevel(J, d) /\ J[d + 1] = JsonLevel(J, d + 1)
    BY <1>1, <2>3
  <2>5. CASE d = 0
    BY <2>2, <2>3, <2>4, <2>5 DEF JsonLevel
  <2>6. CASE d # 0
    <3>1. J[d - 1] \subseteq J[d]
      <4>1. d - 1 \in Nat /\ d - 1 \notin B /\ d - 1 < Depth /\ (d - 1) + 1 = d
        BY <2>2, <2>3, <2>6
      <4> QED
        BY <4>1
    <3>2. ASSUME NEW K \in SUBSET Keys, NEW f \in [K -> J[d - 1]] PROVE f \in [K -> J[d]]
      BY <3>1
    <3>3. UNION {[K -> J[d - 1]] : K \in SUBSET Keys} \subseteq UNION {[K -> J[d]] : K \in SUBSET Keys}
      BY <3>2
    <3>4. JsonLevel(J, d) \subseteq JsonLevel(J, d + 1)
      BY <2>3, <2>6, <3>3 DEF JsonLevel
    <3> QED
      BY <2>2, <2>4, <3>4
  <2> QED
    BY <2>5, <2>6
<1>5. \A d \in 0..Depth : d # 0 => J[d - 1] \subseteq J[d]
  <2>1. SUFFICES ASSUME NEW d \in 0..Depth, d # 0 PROVE J[d - 1] \subseteq J[d]
    OBVIOUS
  <2>2. d - 1 \in Nat /\ d - 1 < Depth /\ (d - 1) + 1 = d
    BY <2>1
  <2> QED
    BY <1>4, <2>2
<1> DEFINE C == {e \in Nat : e <= Depth /\ ~(J[Depth - e] \subseteq J[Depth])}
<1>6. C = {}
  <2>1. SUFFICES ASSUME C # {} PROVE FALSE
    OBVIOUS
  <2>2. PICK e \in C : \A i \in C : e <= i
    <3>1. C \in SUBSET Nat
      OBVIOUS
    <3> HIDE DEF C
    <3> QED
      BY <2>1, <3>1, LeastNat
  <2>3. e # 0
    BY <2>2
  <2>4. e - 1 \in Nat /\ e - 1 \notin C /\ e - 1 <= Depth /\ Depth - (e - 1) \in 0..Depth
        /\ (Depth - (e - 1)) - 1 = Depth - e /\ Depth - (e - 1) # 0
    BY <2>2, <2>3
  <2>5. J[Depth - (e - 1)] \subseteq J[Depth]
    BY <2>4
  <2>6. J[Depth - e] \subseteq J[Depth - (e - 1)]
    BY <1>5, <2>4
  <2> QED
    BY <2>2, <2>5, <2>6
<1>7. \A d \in 0..Depth : J[d] \subseteq Diff!Values
  <2>1. SUFFICES ASSUME NEW d \in 0..Depth PROVE J[d] \subseteq Diff!Values
    OBVIOUS
  <2>2. Depth - d \in Nat /\ Depth - d <= Depth /\ Depth - (Depth - d) = d
    OBVIOUS
  <2> QED
    BY <1>1, <1>6, <2>2
<1> HIDE DEF B, C
<1> QED
  BY <1>1, <1>2, <1>3, <1>5, <1>7 DEF Leveled

\* In a set of values some value has no field in it.
LEMMA JsonMinimal ==
    ASSUME Depth \in Nat, NEW X \in SUBSET Diff!Values, X # {}
    PROVE  \E v \in X : Diff!IsObject(v) => \A k \in DOMAIN v.at : v.at[k] \notin X
<1>1. PICK J : Leveled(J)
  BY JsonLeveled
<1> DEFINE B == {d \in Nat : d <= Depth /\ J[d] \cap X # {}}
<1>2. Depth \in B
  BY <1>1 DEF Leveled
<1>3. PICK d \in B : \A e \in B : d <= e
  <2>1. B \in SUBSET Nat /\ B # {}
    BY <1>2
  <2> HIDE DEF B
  <2> QED
    BY <2>1, LeastNat
<1>4. PICK v \in X : v \in J[d]
  BY <1>3
<1>5. ASSUME Diff!IsObject(v), NEW k \in DOMAIN v.at PROVE v.at[k] \notin X
  <2>1. d \in 0..Depth
    BY <1>3
  <2>2. d # 0 /\ v.at[k] \in J[d - 1]
    BY <1>1, <1>4, <1>5, <2>1 DEF Leveled
  <2>3. d - 1 \in Nat /\ d - 1 <= Depth /\ d - 1 \notin B
    BY <1>3, <2>1, <2>2
  <2> QED
    BY <2>2, <2>3
<1> QED
  BY <1>4, <1>5

\* The fields of a value, those left out included, are values.
LEMMA JsonField ==
    ASSUME Depth \in Nat, NEW v \in Diff!Values
    PROVE  /\ Diff!Null \in Diff!Values /\ ~Diff!IsObject(Diff!Null)
           /\ Diff!IsObject(v) => /\ DOMAIN v.at \subseteq Keys
                                  /\ \A k \in DOMAIN v.at : v.at[k] \in Diff!Values
                                  /\ \A k : Diff!Field(v, k) \in Diff!Values
<1>1. PICK J : Leveled(J)
  BY JsonLeveled
<1>2. Diff!Null \in Diff!Values
  BY <1>1 DEF Leveled
<1>3. ~Diff!IsObject(Diff!Null)
  BY DEF Diff!IsObject, Diff!Null
<1>4. ASSUME Diff!IsObject(v)
      PROVE  DOMAIN v.at \subseteq Keys /\ \A k \in DOMAIN v.at : v.at[k] \in Diff!Values
  <2>1. Depth \in 0..Depth /\ v \in J[Depth]
    BY <1>1 DEF Leveled
  <2>2. /\ Depth # 0 /\ DOMAIN v.at \subseteq Keys
        /\ \A k \in DOMAIN v.at : v.at[k] \in J[Depth - 1]
    BY <1>1, <1>4, <2>1 DEF Leveled
  <2>3. J[Depth - 1] \subseteq Diff!Values
    BY <1>1, <2>2 DEF Leveled
  <2> QED
    BY <2>2, <2>3
<1> QED
  BY <1>2, <1>3, <1>4 DEF Diff!Field

\* The leaves of a value, from those of its fields.
LeavesAt(g, x) ==
    IF Diff!IsObject(x) THEN UNION {Diff!Under(<<k>>, g[x.at[k]]) : k \in DOMAIN x.at}
    ELSE {[field |-> <<>>, value |-> x]}
LeavesOn(g, V) ==
    [x \in V |->
       IF Diff!IsObject(x) THEN UNION {Diff!Under(<<k>>, g[x.at[k]]) : k \in DOMAIN x.at}
       ELSE {[field |-> <<>>, value |-> x]}]

LEMMA LeavesExist ==
    ASSUME Depth \in Nat PROVE \E g : g = LeavesOn(g, Diff!Values)
<1>1. PICK J : Leveled(J)
  BY JsonLeveled
<1> DEFINE B == {m \in Nat : m <= Depth /\ ~\E g : g = LeavesOn(g, J[m])}
<1>2. SUFFICES ASSUME B # {} PROVE FALSE
  <2>1. B = {} => \E g : g = LeavesOn(g, J[Depth])
    OBVIOUS
  <2> HIDE DEF B
  <2> QED
    BY <1>1, <2>1 DEF Leveled
<1>3. PICK m \in B : \A k \in B : m <= k
  <2>1. B \in SUBSET Nat
    OBVIOUS
  <2> HIDE DEF B
  <2> QED
    BY <1>2, <2>1, LeastNat
<1>4. m \in 0..Depth
  BY <1>3
<1>5. CASE m = 0
  <2>1. PICK g : g = [x \in J[0] |-> {[field |-> <<>>, value |-> x]}]
    OBVIOUS
  <2>2. \A x \in J[0] : ~Diff!IsObject(x)
    BY <1>1, <1>4, <1>5 DEF Leveled
  <2>3. g = LeavesOn(g, J[0])
    BY <2>1, <2>2 DEF LeavesOn
  <2> QED
    BY <1>3, <1>5, <2>3
<1>6. CASE m # 0
  <2>1. m - 1 \in Nat /\ m - 1 <= Depth /\ m - 1 \notin B /\ m - 1 \in 0..Depth
    BY <1>3, <1>6
  <2>2. PICK g : g = LeavesOn(g, J[m - 1])
    BY <2>1
  <2>3. \A x \in J[m - 1] : g[x] = LeavesAt(g, x)
    BY <2>2 DEF LeavesOn, LeavesAt
  <2>4. PICK h : h = [x \in J[m] |-> LeavesAt(g, x)]
    OBVIOUS
  <2>5. J[m - 1] \subseteq J[m]
    BY <1>1, <1>4, <1>6 DEF Leveled
  <2>6. \A x \in J[m - 1] : h[x] = g[x]
    BY <2>3, <2>4, <2>5
  <2>7. ASSUME NEW x \in J[m] PROVE LeavesAt(g, x) = LeavesAt(h, x)
    <3>1. Diff!IsObject(x) => \A k \in DOMAIN x.at : x.at[k] \in J[m - 1]
      BY <1>1, <1>4 DEF Leveled
    <3>2. Diff!IsObject(x) => \A k \in DOMAIN x.at : Diff!Under(<<k>>, g[x.at[k]]) = Diff!Under(<<k>>, h[x.at[k]])
      BY <2>6, <3>1
    <3> QED
      BY <3>2 DEF LeavesAt
  <2>8. h = [x \in J[m] |-> LeavesAt(h, x)]
    BY <2>4, <2>7
  <2>9. h = LeavesOn(h, J[m])
    BY <2>8 DEF LeavesOn, LeavesAt
  <2> QED
    BY <1>3, <2>9
<1> QED
  BY <1>5, <1>6

\* What Collect returns, field by field.
LEMMA CollectAt ==
    ASSUME Depth \in Nat
    PROVE  \A v \in Diff!Values :
             Diff!Collect(v) =
               IF Diff!IsObject(v) THEN UNION {Diff!Under(<<k>>, Diff!Collect(v.at[k])) : k \in DOMAIN v.at}
               ELSE {[field |-> <<>>, value |-> v]}
<1>1. \A v : Diff!Collect(v) = (CHOOSE g : g = LeavesOn(g, Diff!Values))[v]
  BY DEF Diff!Collect, LeavesOn
<1>2. PICK g : g = CHOOSE h : h = LeavesOn(h, Diff!Values)
  OBVIOUS
<1>3. g = LeavesOn(g, Diff!Values)
  BY <1>2, LeavesExist
<1>4. \A v : Diff!Collect(v) = g[v]
  BY <1>1, <1>2
<1>5. ASSUME NEW v \in Diff!Values
      PROVE  Diff!Collect(v) =
               IF Diff!IsObject(v) THEN UNION {Diff!Under(<<k>>, Diff!Collect(v.at[k])) : k \in DOMAIN v.at}
               ELSE {[field |-> <<>>, value |-> v]}
  <2>1. g[v] = IF Diff!IsObject(v) THEN UNION {Diff!Under(<<k>>, g[v.at[k]]) : k \in DOMAIN v.at}
               ELSE {[field |-> <<>>, value |-> v]}
    BY <1>3 DEF LeavesOn
  <2>2. CASE Diff!IsObject(v)
    <3>1. Diff!Collect(v) = UNION {Diff!Under(<<k>>, g[v.at[k]]) : k \in DOMAIN v.at}
      BY <1>4, <2>1, <2>2
    <3>2. \A k \in DOMAIN v.at : Diff!Under(<<k>>, g[v.at[k]]) = Diff!Under(<<k>>, Diff!Collect(v.at[k]))
      BY <1>4
    <3>3. {Diff!Under(<<k>>, g[v.at[k]]) : k \in DOMAIN v.at}
            = {Diff!Under(<<k>>, Diff!Collect(v.at[k])) : k \in DOMAIN v.at}
      BY <3>2
    <3> QED
      BY <2>2, <3>1, <3>3
  <2>3. CASE ~Diff!IsObject(v)
    BY <1>4, <2>1, <2>3
  <2> QED
    BY <2>2, <2>3
<1> QED
  BY <1>5

\* The differences of two values, from those of their fields.
DiffsAt(g, x, y) ==
    IF x = y THEN {}
    ELSE IF Diff!IsObject(x) /\ Diff!IsObject(y)
         THEN UNION {Diff!Under(<<k>>, g[Diff!Field(x, k)][Diff!Field(y, k)]) : k \in DOMAIN x.at \cup DOMAIN y.at}
         ELSE {Diff!Change(<<>>, x, y)}
DiffsOn(g, V) ==
    [x \in V |-> [y \in Diff!Values |->
       IF x = y THEN {}
       ELSE IF Diff!IsObject(x) /\ Diff!IsObject(y)
            THEN UNION {Diff!Under(<<k>>, g[Diff!Field(x, k)][Diff!Field(y, k)]) : k \in DOMAIN x.at \cup DOMAIN y.at}
            ELSE {Diff!Change(<<>>, x, y)}]]

LEMMA DiffsExist ==
    ASSUME Depth \in Nat PROVE \E g : g = DiffsOn(g, Diff!Values)
<1>1. PICK J : Leveled(J)
  BY JsonLeveled
<1> DEFINE B == {m \in Nat : m <= Depth /\ ~\E g : g = DiffsOn(g, J[m])}
<1>2. SUFFICES ASSUME B # {} PROVE FALSE
  <2>1. B = {} => \E g : g = DiffsOn(g, J[Depth])
    OBVIOUS
  <2> HIDE DEF B
  <2> QED
    BY <1>1, <2>1 DEF Leveled
<1>3. PICK m \in B : \A k \in B : m <= k
  <2>1. B \in SUBSET Nat
    OBVIOUS
  <2> HIDE DEF B
  <2> QED
    BY <1>2, <2>1, LeastNat
<1>4. m \in 0..Depth
  BY <1>3
<1>5. CASE m = 0
  <2>1. PICK g : g = [x \in J[0] |-> [y \in Diff!Values |-> IF x = y THEN {} ELSE {Diff!Change(<<>>, x, y)}]]
    OBVIOUS
  <2>2. \A x \in J[0] : ~Diff!IsObject(x)
    BY <1>1, <1>4, <1>5 DEF Leveled
  <2>3. g = DiffsOn(g, J[0])
    BY <2>1, <2>2 DEF DiffsOn
  <2> QED
    BY <1>3, <1>5, <2>3
<1>6. CASE m # 0
  <2>1. m - 1 \in Nat /\ m - 1 <= Depth /\ m - 1 \notin B /\ m - 1 \in 0..Depth
    BY <1>3, <1>6
  <2>2. PICK g : g = DiffsOn(g, J[m - 1])
    BY <2>1
  <2>3. \A x \in J[m - 1] : g[x] = [y \in Diff!Values |-> DiffsAt(g, x, y)]
    BY <2>2 DEF DiffsOn, DiffsAt
  <2>4. PICK h : h = [x \in J[m] |-> [y \in Diff!Values |-> DiffsAt(g, x, y)]]
    OBVIOUS
  <2>5. J[m - 1] \subseteq J[m]
    BY <1>1, <1>4, <1>6 DEF Leveled
  <2>6. \A x \in J[m - 1] : h[x] = g[x]
    BY <2>3, <2>4, <2>5
  <2>7. ASSUME NEW x \in J[m], NEW y \in Diff!Values PROVE DiffsAt(g, x, y) = DiffsAt(h, x, y)
    <3>1. Diff!IsObject(x) => \A k : Diff!Field(x, k) \in J[m - 1]
      BY <1>1, <1>4, <2>1 DEF Leveled, Diff!Field
    <3>2. Diff!IsObject(x) => \A k \in DOMAIN x.at \cup DOMAIN y.at :
            Diff!Under(<<k>>, g[Diff!Field(x, k)][Diff!Field(y, k)])
              = Diff!Under(<<k>>, h[Diff!Field(x, k)][Diff!Field(y, k)])
      BY <2>6, <3>1
    <3> QED
      BY <3>2 DEF DiffsAt
  <2>8. h = [x \in J[m] |-> [y \in Diff!Values |-> DiffsAt(h, x, y)]]
    <3>1. \A x \in J[m] : [y \in Diff!Values |-> DiffsAt(g, x, y)] = [y \in Diff!Values |-> DiffsAt(h, x, y)]
      BY <2>7
    <3> QED
      BY <2>4, <3>1
  <2>9. h = DiffsOn(h, J[m])
    BY <2>8 DEF DiffsOn, DiffsAt
  <2> QED
    BY <1>3, <2>9
<1> QED
  BY <1>5, <1>6

\* What DiffValue returns, field by field.
LEMMA DiffValueAt ==
    ASSUME Depth \in Nat
    PROVE  \A x, y \in Diff!Values :
             Diff!DiffValue(x, y) =
               IF x = y THEN {}
               ELSE IF Diff!IsObject(x) /\ Diff!IsObject(y)
                    THEN UNION {Diff!Under(<<k>>, Diff!DiffValue(Diff!Field(x, k), Diff!Field(y, k)))
                                  : k \in DOMAIN x.at \cup DOMAIN y.at}
                    ELSE {Diff!Change(<<>>, x, y)}
<1>1. \A x, y : Diff!DiffValue(x, y) = (CHOOSE g : g = DiffsOn(g, Diff!Values))[x][y]
  BY DEF Diff!DiffValue, DiffsOn
<1>2. PICK g : g = CHOOSE h : h = DiffsOn(h, Diff!Values)
  OBVIOUS
<1>3. g = DiffsOn(g, Diff!Values)
  BY <1>2, DiffsExist
<1>4. \A x, y : Diff!DiffValue(x, y) = g[x][y]
  BY <1>1, <1>2
<1>5. ASSUME NEW x \in Diff!Values, NEW y \in Diff!Values
      PROVE  Diff!DiffValue(x, y) =
               IF x = y THEN {}
               ELSE IF Diff!IsObject(x) /\ Diff!IsObject(y)
                    THEN UNION {Diff!Under(<<k>>, Diff!DiffValue(Diff!Field(x, k), Diff!Field(y, k)))
                                  : k \in DOMAIN x.at \cup DOMAIN y.at}
                    ELSE {Diff!Change(<<>>, x, y)}
  <2>1. g[x] = [z \in Diff!Values |-> DiffsAt(g, x, z)]
    BY <1>3 DEF DiffsOn, DiffsAt
  <2>2. g[x][y] = DiffsAt(g, x, y)
    BY <2>1
  <2>3. CASE x # y /\ Diff!IsObject(x) /\ Diff!IsObject(y)
    <3>1. Diff!DiffValue(x, y) =
            UNION {Diff!Under(<<k>>, g[Diff!Field(x, k)][Diff!Field(y, k)]) : k \in DOMAIN x.at \cup DOMAIN y.at}
      BY <1>4, <2>2, <2>3 DEF DiffsAt
    <3>2. \A k : Diff!Under(<<k>>, g[Diff!Field(x, k)][Diff!Field(y, k)])
                   = Diff!Under(<<k>>, Diff!DiffValue(Diff!Field(x, k), Diff!Field(y, k)))
      BY <1>4
    <3>3. {Diff!Under(<<k>>, g[Diff!Field(x, k)][Diff!Field(y, k)]) : k \in DOMAIN x.at \cup DOMAIN y.at}
            = {Diff!Under(<<k>>, Diff!DiffValue(Diff!Field(x, k), Diff!Field(y, k))) : k \in DOMAIN x.at \cup DOMAIN y.at}
      BY <3>2
    <3> QED
      BY <2>3, <3>1, <3>3
  <2>4. CASE ~(x # y /\ Diff!IsObject(x) /\ Diff!IsObject(y))
    BY <1>4, <2>2, <2>4 DEF DiffsAt
  <2> QED
    BY <2>3, <2>4
<1> QED
  BY <1>5

-----------------------------------------------------------------------------
(* Diff: paths, leaves and changes. *)

\* Leaves and changes with their paths.
Leaves == [field: Seq(Keys), value: {v \in Diff!Values : ~Diff!IsObject(v)}]
Changes == [field: Seq(Keys), before: Diff!Values, after: Diff!Values]

\* A path that begins with another agrees with it up to the end of the other.
LEMMA PrefixMeans ==
    ASSUME NEW S, NEW p \in Seq(S), NEW q \in Seq(S)
    PROVE  Diff!IsPrefix(p, q) <=> Len(p) <= Len(q) /\ \A i \in 1..Len(p) : p[i] = q[i]
<1>1. ASSUME Len(p) <= Len(q)
      PROVE  SubSeq(p, 1, Len(p)) = SubSeq(q, 1, Len(p)) <=> \A i \in 1..Len(p) : p[i] = q[i]
  <2>1. SubSeq(p, 1, Len(p)) = [i \in 1..Len(p) |-> p[i]]
    OBVIOUS
  <2>2. SubSeq(q, 1, Len(p)) = [i \in 1..Len(p) |-> q[i]]
    OBVIOUS
  <2> QED
    BY <2>1, <2>2
<1> QED
  BY <1>1 DEF Diff!IsPrefix

LEMMA PrefixUnder ==
    ASSUME NEW j \in Keys, NEW k \in Keys, NEW p \in Seq(Keys), NEW q \in Seq(Keys)
    PROVE  Diff!IsPrefix(<<j>> \o p, <<k>> \o q) <=> j = k /\ Diff!IsPrefix(p, q)
<1>1. PICK x, y : x = <<j>> \o p /\ y = <<k>> \o q
  OBVIOUS
<1>2. x \in Seq(Keys) /\ y \in Seq(Keys)
  BY <1>1
<1>3. /\ Len(x) = Len(p) + 1 /\ Len(p) \in Nat /\ x[1] = j /\ \A i \in 1..Len(p) : x[i + 1] = p[i]
      /\ Len(y) = Len(q) + 1 /\ Len(q) \in Nat /\ y[1] = k /\ \A i \in 1..Len(q) : y[i + 1] = q[i]
  BY <1>1
<1>4. ASSUME Diff!IsPrefix(x, y) PROVE j = k /\ Diff!IsPrefix(p, q)
  <2>1. Len(x) <= Len(y) /\ \A i \in 1..Len(x) : x[i] = y[i]
    BY <1>2, <1>4, PrefixMeans
  <2>2. j = k /\ Len(p) <= Len(q)
    BY <1>3, <2>1
  <2>3. \A i \in 1..Len(p) : p[i] = q[i]
    <3>1. SUFFICES ASSUME NEW i \in 1..Len(p) PROVE p[i] = q[i]
      OBVIOUS
    <3>2. i + 1 \in 1..Len(x) /\ i \in 1..Len(q)
      BY <1>3, <2>2
    <3> QED
      BY <1>3, <2>1, <3>2
  <2> QED
    BY <2>2, <2>3, PrefixMeans
<1>5. ASSUME j = k, Diff!IsPrefix(p, q) PROVE Diff!IsPrefix(x, y)
  <2>1. Len(p) <= Len(q) /\ \A i \in 1..Len(p) : p[i] = q[i]
    BY <1>5, PrefixMeans
  <2>2. Len(x) <= Len(y)
    BY <1>3, <2>1
  <2>3. ASSUME NEW i \in 1..Len(x) PROVE x[i] = y[i]
    <3>1. CASE i = 1
      BY <1>3, <1>5, <3>1
    <3>2. CASE i # 1
      <4>1. i - 1 \in 1..Len(p) /\ i - 1 \in 1..Len(q) /\ (i - 1) + 1 = i
        BY <1>3, <2>1, <3>2
      <4> QED
        BY <1>3, <2>1, <4>1
    <3> QED
      BY <3>1, <3>2
  <2> QED
    BY <1>2, <2>2, <2>3, PrefixMeans
<1> QED
  BY <1>1, <1>4, <1>5

LEMMA PrefixOfAll ==
    ASSUME NEW p \in Seq(Keys)
    PROVE  Diff!IsPrefix(<<>>, p) /\ Diff!IsPrefix(p, p) /\ <<>> \in Seq(Keys) /\ <<>> \o p = p /\ p \o <<>> = p
<1>1. <<>> \in Seq(Keys) /\ Len(p) \in Nat
  OBVIOUS
<1>2. Diff!IsPrefix(<<>>, p)
  <2>1. Len(<<>>) = 0 /\ Len(<<>>) <= Len(p) /\ 1..Len(<<>>) = {}
    BY <1>1
  <2> QED
    BY <1>1, <2>1, PrefixMeans
<1>3. Diff!IsPrefix(p, p)
  BY <1>1, PrefixMeans
<1> QED
  BY <1>1, <1>2, <1>3

\* What Under makes of leaves and of changes.
LEMMA UnderLeaves ==
    ASSUME NEW path \in Seq(Keys), NEW S \in SUBSET Leaves
    PROVE  /\ Diff!Under(path, S) = {[field |-> path \o x.field, value |-> x.value] : x \in S}
           /\ Diff!Under(path, S) \in SUBSET Leaves
<1>1. ASSUME NEW x \in S
      PROVE  [x EXCEPT !.field = path \o @] = [field |-> path \o x.field, value |-> x.value]
  <2>1. PICK a, b : a = x.field /\ b = x.value
    OBVIOUS
  <2>2. x = [field |-> a, value |-> b]
    BY <2>1 DEF Leaves
  <2>3. PICK z : z = path \o a
    OBVIOUS
  <2>4. [x EXCEPT !.field = z] = [field |-> z, value |-> b]
    BY <2>2
  <2> QED
    BY <2>1, <2>3, <2>4
<1>2. Diff!Under(path, S) = {[field |-> path \o x.field, value |-> x.value] : x \in S}
  <2>1. Diff!Under(path, S) = {[x EXCEPT !.field = path \o @] : x \in S}
    BY DEF Diff!Under
  <2> QED
    BY <1>1, <2>1, Zenon
<1>3. \A x \in S : [field |-> path \o x.field, value |-> x.value] \in Leaves
  BY DEF Leaves
<1> QED
  BY <1>2, <1>3

LEMMA UnderChanges ==
    ASSUME NEW path \in Seq(Keys), NEW S \in SUBSET Changes
    PROVE  /\ Diff!Under(path, S) = {[field |-> path \o x.field, before |-> x.before, after |-> x.after] : x \in S}
           /\ Diff!Under(path, S) \in SUBSET Changes
<1>1. ASSUME NEW x \in S
      PROVE  [x EXCEPT !.field = path \o @] = [field |-> path \o x.field, before |-> x.before, after |-> x.after]
  <2>1. PICK a, b, d : a = x.field /\ b = x.before /\ d = x.after
    OBVIOUS
  <2>2. x = [field |-> a, before |-> b, after |-> d]
    BY <2>1 DEF Changes
  <2>3. PICK z : z = path \o a
    OBVIOUS
  <2>4. [x EXCEPT !.field = z] = [field |-> z, before |-> b, after |-> d]
    BY <2>2
  <2> QED
    BY <2>1, <2>3, <2>4
<1>2. Diff!Under(path, S) = {[field |-> path \o x.field, before |-> x.before, after |-> x.after] : x \in S}
  <2>1. Diff!Under(path, S) = {[x EXCEPT !.field = path \o @] : x \in S}
    BY DEF Diff!Under
  <2>2. ASSUME NEW z
        PROVE  z \in Diff!Under(path, S)
                 <=> \E x \in S : z = [field |-> path \o x.field, before |-> x.before, after |-> x.after]
    <3>1. z \in Diff!Under(path, S) <=> \E x \in S : z = [x EXCEPT !.field = path \o @]
      BY <2>1, Zenon
    <3>2. \A x \in S : [x EXCEPT !.field = path \o @] = [field |-> path \o x.field, before |-> x.before, after |-> x.after]
      BY <1>1, Zenon
    <3> QED
      BY <3>1, <3>2, Zenon
  <2> QED
    BY <2>2, Zenon
<1>3. \A x \in S : [field |-> path \o x.field, before |-> x.before, after |-> x.after] \in Changes
  BY DEF Changes
<1> QED
  BY <1>2, <1>3

LEMMA UnderTwice ==
    ASSUME NEW p \in Seq(Keys), NEW q \in Seq(Keys), NEW S \in SUBSET Leaves
    PROVE  Diff!Under(p, Diff!Under(q, S)) = Diff!Under(p \o q, S)
<1>1. PICK T : T = Diff!Under(q, S)
  OBVIOUS
<1>2. T = {[field |-> q \o x.field, value |-> x.value] : x \in S} /\ T \in SUBSET Leaves
  BY <1>1, UnderLeaves
<1>3. Diff!Under(p, T) = {[field |-> p \o x.field, value |-> x.value] : x \in T}
  BY <1>2, UnderLeaves
<1>4. p \o q \in Seq(Keys)
  OBVIOUS
<1>5. Diff!Under(p \o q, S) = {[field |-> (p \o q) \o x.field, value |-> x.value] : x \in S}
  BY <1>4, UnderLeaves
<1>6. \A x \in S : x.field \in Seq(Keys) /\ (p \o q) \o x.field = p \o (q \o x.field)
  <2>1. SUFFICES ASSUME NEW x \in S PROVE x.field \in Seq(Keys) /\ (p \o q) \o x.field = p \o (q \o x.field)
    OBVIOUS
  <2>2. PICK r \in Seq(Keys) : r = x.field
    BY DEF Leaves
  <2>3. (p \o q) \o r = p \o (q \o r)
    OBVIOUS
  <2> QED
    BY <2>2, <2>3
<1>7. Diff!Under(p, T) = {[field |-> p \o (q \o x.field), value |-> x.value] : x \in S}
  <2>1. \A x \in S : LET y == [field |-> q \o x.field, value |-> x.value]
                   IN y.field = q \o x.field /\ y.value = x.value
    OBVIOUS
  <2>2. \A y \in T : \E x \in S : y.field = q \o x.field /\ y.value = x.value
    BY <1>2, <2>1
  <2>3. \A x \in S : \E y \in T : y.field = q \o x.field /\ y.value = x.value
    BY <1>2, <2>1
  <2>4. ASSUME NEW z PROVE z \in Diff!Under(p, T) <=> \E x \in S : z = [field |-> p \o (q \o x.field), value |-> x.value]
    <3>1. z \in Diff!Under(p, T) <=> \E y \in T : z = [field |-> p \o y.field, value |-> y.value]
      BY <1>3
    <3>2. ASSUME NEW y \in T, z = [field |-> p \o y.field, value |-> y.value]
          PROVE  \E x \in S : z = [field |-> p \o (q \o x.field), value |-> x.value]
      BY <2>2, <3>2
    <3>3. ASSUME NEW x \in S, z = [field |-> p \o (q \o x.field), value |-> x.value]
          PROVE  \E y \in T : z = [field |-> p \o y.field, value |-> y.value]
      BY <2>3, <3>3
    <3> QED
      BY <3>1, <3>2, <3>3
  <2> QED
    BY <2>4
<1> QED
  BY <1>1, <1>5, <1>6, <1>7

LEMMA UnderNothing == ASSUME NEW S \in SUBSET Leaves PROVE Diff!Under(<<>>, S) = S
<1>1. <<>> \in Seq(Keys)
  OBVIOUS
<1>2. Diff!Under(<<>>, S) = {[field |-> <<>> \o x.field, value |-> x.value] : x \in S}
  BY <1>1, UnderLeaves
<1>3. \A x \in S : [field |-> <<>> \o x.field, value |-> x.value] = x
  <2>1. \A x \in S : x.field \in Seq(Keys) /\ x = [field |-> x.field, value |-> x.value]
    BY DEF Leaves
  <2>2. \A x \in S : <<>> \o x.field = x.field
    BY <2>1, PrefixOfAll
  <2> QED
    BY <2>1, <2>2
<1> QED
  BY <1>2, <1>3

\* What Collect returns are leaves.
LEMMA CollectLeaves ==
    ASSUME Depth \in Nat, NEW v \in Diff!Values PROVE Diff!Collect(v) \in SUBSET Leaves
<1> DEFINE X == {x \in Diff!Values : Diff!Collect(x) \notin SUBSET Leaves}
<1>1. SUFFICES ASSUME X # {} PROVE FALSE
  OBVIOUS
<1>2. PICK x \in X : Diff!IsObject(x) => \A k \in DOMAIN x.at : x.at[k] \notin X
  <2>1. X \in SUBSET Diff!Values
    OBVIOUS
  <2> HIDE DEF X
  <2> QED
    BY <1>1, <2>1, JsonMinimal
<1>3. CASE Diff!IsObject(x)
  <2>1. Diff!Collect(x) = UNION {Diff!Under(<<k>>, Diff!Collect(x.at[k])) : k \in DOMAIN x.at}
    BY <1>3, CollectAt
  <2>2. ASSUME NEW k \in DOMAIN x.at PROVE Diff!Under(<<k>>, Diff!Collect(x.at[k])) \in SUBSET Leaves
    <3>1. x.at[k] \in Diff!Values /\ k \in Keys
      BY <1>3, JsonField
    <3>2. Diff!Collect(x.at[k]) \in SUBSET Leaves
      BY <1>2, <1>3, <3>1
    <3>3. <<k>> \in Seq(Keys)
      BY <3>1
    <3> QED
      BY <3>2, <3>3, UnderLeaves
  <2> QED
    BY <2>1, <2>2
<1>4. CASE ~Diff!IsObject(x)
  <2>1. Diff!Collect(x) = {[field |-> <<>>, value |-> x]}
    BY <1>4, CollectAt
  <2>2. [field |-> <<>>, value |-> x] \in Leaves
    BY <1>4 DEF Leaves
  <2> QED
    BY <2>1, <2>2
<1> QED
  BY <1>3, <1>4

\* What DiffValue returns are changes.
LEMMA DiffChanges ==
    ASSUME Depth \in Nat, NEW v \in Diff!Values, NEW w \in Diff!Values
    PROVE  Diff!DiffValue(v, w) \in SUBSET Changes
<1> DEFINE X == {x \in Diff!Values : \E y \in Diff!Values : Diff!DiffValue(x, y) \notin SUBSET Changes}
<1>1. SUFFICES ASSUME X # {} PROVE FALSE
  OBVIOUS
<1>2. PICK x \in X : Diff!IsObject(x) => \A k \in DOMAIN x.at : x.at[k] \notin X
  <2>1. X \in SUBSET Diff!Values
    OBVIOUS
  <2> HIDE DEF X
  <2> QED
    BY <1>1, <2>1, JsonMinimal
<1>3. PICK y \in Diff!Values : Diff!DiffValue(x, y) \notin SUBSET Changes
  OBVIOUS
<1>4. Diff!Change(<<>>, x, y) \in Changes
  BY DEF Diff!Change, Changes
<1>5. x # y
  BY <1>3, DiffValueAt
<1>6. CASE ~(Diff!IsObject(x) /\ Diff!IsObject(y))
  <2>1. Diff!DiffValue(x, y) = {Diff!Change(<<>>, x, y)}
    BY <1>5, <1>6, DiffValueAt
  <2> QED
    BY <1>3, <1>4, <2>1
<1>7. CASE Diff!IsObject(x) /\ Diff!IsObject(y)
  <2>1. Diff!DiffValue(x, y) = UNION {Diff!Under(<<k>>, Diff!DiffValue(Diff!Field(x, k), Diff!Field(y, k)))
                                        : k \in DOMAIN x.at \cup DOMAIN y.at}
    BY <1>5, <1>7, DiffValueAt
  <2>2. ASSUME NEW k \in DOMAIN x.at \cup DOMAIN y.at
        PROVE  Diff!Under(<<k>>, Diff!DiffValue(Diff!Field(x, k), Diff!Field(y, k))) \in SUBSET Changes
    <3>1. Diff!Field(x, k) \in Diff!Values /\ Diff!Field(y, k) \in Diff!Values /\ k \in Keys
      BY <1>7, JsonField
    <3>2. Diff!Field(x, k) \notin X
      <4>1. CASE k \in DOMAIN x.at
        BY <1>2, <1>7, <4>1 DEF Diff!Field
      <4>2. CASE k \notin DOMAIN x.at
        <5>1. Diff!Field(x, k) = Diff!Null /\ ~Diff!IsObject(Diff!Null)
          BY <4>2, JsonField DEF Diff!Field
        <5>2. ASSUME NEW z \in Diff!Values PROVE Diff!DiffValue(Diff!Null, z) \in SUBSET Changes
          <6>1. Diff!DiffValue(Diff!Null, z) = {} \/ Diff!DiffValue(Diff!Null, z) = {Diff!Change(<<>>, Diff!Null, z)}
            BY <3>1, <5>1, DiffValueAt
          <6>2. Diff!Change(<<>>, Diff!Null, z) \in Changes
            BY <3>1, <5>1 DEF Diff!Change, Changes
          <6> QED
            BY <6>1, <6>2
        <5> QED
          BY <5>1, <5>2
      <4> QED
        BY <4>1, <4>2
    <3>3. Diff!DiffValue(Diff!Field(x, k), Diff!Field(y, k)) \in SUBSET Changes
      BY <3>1, <3>2
    <3>4. <<k>> \in Seq(Keys)
      BY <3>1
    <3> QED
      BY <3>3, <3>4, UnderChanges
  <2> QED
    BY <1>3, <2>1, <2>2
<1> QED
  BY <1>6, <1>7

\* What a reader sees of a value, field by field.
LEMMA SeenAt ==
    ASSUME Diff!DiffAssumption, NEW v \in Diff!Values
    PROVE  /\ Diff!Seen(v) = {x \in Diff!Collect(v) : x.value # Diff!Null}
           /\ Diff!Seen(v) \in SUBSET Leaves
           /\ Diff!Seen(Diff!Null) = {}
           /\ ~Diff!IsObject(v) /\ v # Diff!Null => Diff!Seen(v) = {[field |-> <<>>, value |-> v]}
<1>1. Depth \in Nat /\ Missing \notin Diff!Values /\ Diff!Null \in Diff!Values /\ ~Diff!IsObject(Diff!Null)
  BY JsonField DEF Diff!DiffAssumption
<1>2. \A x \in Diff!Values : Diff!Seen(x) = {leaf \in Diff!Collect(x) : leaf.value # Diff!Null}
  BY <1>1 DEF Diff!Seen
<1>3. Diff!Collect(v) \in SUBSET Leaves
  BY <1>1, CollectLeaves
<1>4. Diff!Seen(Diff!Null) = {}
  <2>1. Diff!Collect(Diff!Null) = {[field |-> <<>>, value |-> Diff!Null]}
    BY <1>1, CollectAt
  <2> QED
    BY <1>1, <1>2, <2>1
<1>5. ASSUME ~Diff!IsObject(v), v # Diff!Null PROVE Diff!Seen(v) = {[field |-> <<>>, value |-> v]}
  <2>1. Diff!Collect(v) = {[field |-> <<>>, value |-> v]}
    BY <1>1, <1>5, CollectAt
  <2> QED
    BY <1>2, <1>5, <2>1
<1> QED
  BY <1>2, <1>3, <1>4, <1>5

LEMMA SeenFields ==
    ASSUME Diff!DiffAssumption, NEW v \in Diff!Values, Diff!IsObject(v), NEW U \in SUBSET Keys, DOMAIN v.at \subseteq U
    PROVE  Diff!Seen(v) = UNION {Diff!Under(<<k>>, Diff!Seen(Diff!Field(v, k))) : k \in U}
<1>1. Depth \in Nat
  BY DEF Diff!DiffAssumption
<1>2. Diff!Collect(v) = UNION {Diff!Under(<<k>>, Diff!Collect(v.at[k])) : k \in DOMAIN v.at}
  BY <1>1, CollectAt
<1>3. \A k \in U : Diff!Field(v, k) \in Diff!Values /\ <<k>> \in Seq(Keys)
  BY <1>1, JsonField
<1>4. ASSUME NEW k \in DOMAIN v.at
      PROVE  \A z : z \in Diff!Under(<<k>>, Diff!Seen(v.at[k]))
                      <=> z \in Diff!Under(<<k>>, Diff!Collect(v.at[k])) /\ z.value # Diff!Null
  <2>1. v.at[k] \in Diff!Values /\ <<k>> \in Seq(Keys)
    BY <1>3 DEF Diff!Field
  <2>2. PICK S : S = Diff!Collect(v.at[k])
    OBVIOUS
  <2>3. PICK T : T = Diff!Seen(v.at[k])
    OBVIOUS
  <2>4. S \in SUBSET Leaves /\ T = {x \in S : x.value # Diff!Null}
    BY <1>1, <2>1, <2>2, <2>3, CollectLeaves, SeenAt
  <2>5. /\ Diff!Under(<<k>>, S) = {[field |-> <<k>> \o x.field, value |-> x.value] : x \in S}
        /\ Diff!Under(<<k>>, T) = {[field |-> <<k>> \o x.field, value |-> x.value] : x \in T}
    BY <2>1, <2>4, UnderLeaves
  <2>6. \A z : z \in Diff!Under(<<k>>, T) <=> z \in Diff!Under(<<k>>, S) /\ z.value # Diff!Null
    BY <2>4, <2>5
  <2> QED
    BY <2>2, <2>3, <2>6
<1>5. ASSUME NEW k \in U, k \notin DOMAIN v.at PROVE Diff!Under(<<k>>, Diff!Seen(Diff!Field(v, k))) = {}
  <2>1. Diff!Seen(Diff!Field(v, k)) = {}
    BY <1>5, SeenAt DEF Diff!Field
  <2> QED
    BY <2>1 DEF Diff!Under
<1>6. \A k \in DOMAIN v.at : Diff!Field(v, k) = v.at[k]
  BY DEF Diff!Field
<1>7. ASSUME NEW z
      PROVE  z \in Diff!Seen(v) <=> \E k \in U : z \in Diff!Under(<<k>>, Diff!Seen(Diff!Field(v, k)))
  <2>1. z \in Diff!Seen(v) <=> z \in Diff!Collect(v) /\ z.value # Diff!Null
    BY SeenAt
  <2>2. z \in Diff!Collect(v) <=> \E k \in DOMAIN v.at : z \in Diff!Under(<<k>>, Diff!Collect(v.at[k]))
    BY <1>2
  <2> QED
    BY <1>4, <1>5, <1>6, <2>1, <2>2
<1> QED
  BY <1>7

-----------------------------------------------------------------------------
(* Diff: what a reader makes of the changes. *)

\* What of a value no change is about, and what the changes say is there now.
Unchanged(v, D) == {leaf \in Diff!Seen(v) : ~\E d \in D : Diff!IsPrefix(d.field, leaf.field)}
Changed(D) == UNION {Diff!Under(d.field, Diff!Seen(d.after)) : d \in D}

\* The changes below a key are about what is below that key.
LEMMA UnchangedBelow ==
    ASSUME Diff!DiffAssumption, NEW x \in Diff!Values, NEW y \in Diff!Values, x # y, Diff!IsObject(x), Diff!IsObject(y),
           NEW z
    PROVE  z \in Unchanged(x, Diff!DiffValue(x, y)) <=>
             \E k \in DOMAIN x.at \cup DOMAIN y.at :
               z \in Diff!Under(<<k>>, Unchanged(Diff!Field(x, k), Diff!DiffValue(Diff!Field(x, k), Diff!Field(y, k))))
<1>1. PICK U : U = DOMAIN x.at \cup DOMAIN y.at
  OBVIOUS
<1>2. Depth \in Nat /\ U \in SUBSET Keys
  BY <1>1, JsonField DEF Diff!DiffAssumption
<1>3. \A k \in U : <<k>> \in Seq(Keys) /\ Diff!Field(x, k) \in Diff!Values /\ Diff!Field(y, k) \in Diff!Values
  BY <1>2, JsonField
<1>4. PICK D : D = Diff!DiffValue(x, y)
  OBVIOUS
<1>5. PICK E : E = [k \in U |-> Diff!DiffValue(Diff!Field(x, k), Diff!Field(y, k))]
  OBVIOUS
<1>6. \A k \in U : E[k] \in SUBSET Changes /\ E[k] = Diff!DiffValue(Diff!Field(x, k), Diff!Field(y, k))
  BY <1>2, <1>3, <1>5, DiffChanges
<1>7. D = UNION {Diff!Under(<<k>>, E[k]) : k \in U}
  <2>1. D = UNION {Diff!Under(<<k>>, Diff!DiffValue(Diff!Field(x, k), Diff!Field(y, k))) : k \in DOMAIN x.at \cup DOMAIN y.at}
    BY <1>2, <1>4, DiffValueAt
  <2>2. {Diff!Under(<<k>>, Diff!DiffValue(Diff!Field(x, k), Diff!Field(y, k))) : k \in U} = {Diff!Under(<<k>>, E[k]) : k \in U}
    BY <1>6
  <2> QED
    BY <1>1, <2>1, <2>2
<1>8. PICK S : S = [k \in U |-> Diff!Seen(Diff!Field(x, k))]
  OBVIOUS
<1>9. \A k \in U : S[k] \in SUBSET Leaves /\ S[k] = Diff!Seen(Diff!Field(x, k))
  BY <1>3, <1>8, SeenAt
<1>10. Diff!Seen(x) = UNION {Diff!Under(<<k>>, S[k]) : k \in U}
  <2>1. Diff!Seen(x) = UNION {Diff!Under(<<k>>, Diff!Seen(Diff!Field(x, k))) : k \in U}
    BY <1>1, <1>2, SeenFields
  <2>2. {Diff!Under(<<k>>, Diff!Seen(Diff!Field(x, k))) : k \in U} = {Diff!Under(<<k>>, S[k]) : k \in U}
    BY <1>9
  <2> QED
    BY <2>1, <2>2
<1>11. ASSUME NEW k \in U, NEW leaf \in S[k]
       PROVE  (\E d \in D : Diff!IsPrefix(d.field, <<k>> \o leaf.field))
                <=> \E d \in E[k] : Diff!IsPrefix(d.field, leaf.field)
  <2>1. leaf.field \in Seq(Keys) /\ k \in Keys
    BY <1>2, <1>9 DEF Leaves
  <2>2. \A j \in U : Diff!Under(<<j>>, E[j]) = {[field |-> <<j>> \o c.field, before |-> c.before, after |-> c.after] : c \in E[j]}
    BY <1>3, <1>6, UnderChanges
  <2>3. ASSUME NEW d \in D, Diff!IsPrefix(d.field, <<k>> \o leaf.field)
        PROVE  \E c \in E[k] : Diff!IsPrefix(c.field, leaf.field)
    <3>1. PICK j \in U : d \in Diff!Under(<<j>>, E[j])
      BY <1>7
    <3>2. PICK c \in E[j] : d.field = <<j>> \o c.field
      BY <2>2, <3>1
    <3>3. c.field \in Seq(Keys) /\ j \in Keys
      BY <1>2, <1>6 DEF Changes
    <3>4. j = k /\ Diff!IsPrefix(c.field, leaf.field)
      BY <2>1, <2>3, <3>2, <3>3, PrefixUnder
    <3> QED
      BY <3>4
  <2>4. ASSUME NEW c \in E[k], Diff!IsPrefix(c.field, leaf.field)
        PROVE  \E d \in D : Diff!IsPrefix(d.field, <<k>> \o leaf.field)
    <3>1. c.field \in Seq(Keys)
      BY <1>6 DEF Changes
    <3>2. PICK d : d = [field |-> <<k>> \o c.field, before |-> c.before, after |-> c.after]
      OBVIOUS
    <3>3. d \in D /\ d.field = <<k>> \o c.field
      BY <1>7, <2>2, <3>2
    <3>4. Diff!IsPrefix(<<k>> \o c.field, <<k>> \o leaf.field)
      BY <2>1, <2>4, <3>1, PrefixUnder
    <3> QED
      BY <3>3, <3>4
  <2> QED
    BY <2>3, <2>4
<1>12. ASSUME NEW k \in U
       PROVE  (z \in Diff!Under(<<k>>, S[k]) /\ ~\E d \in D : Diff!IsPrefix(d.field, z.field))
                <=> z \in Diff!Under(<<k>>, {leaf \in S[k] : ~\E d \in E[k] : Diff!IsPrefix(d.field, leaf.field)})
  <2>1. PICK T : T = {leaf \in S[k] : ~\E d \in E[k] : Diff!IsPrefix(d.field, leaf.field)}
    OBVIOUS
  <2>2. T \in SUBSET Leaves
    BY <1>9, <2>1
  <2>3. /\ Diff!Under(<<k>>, S[k]) = {[field |-> <<k>> \o leaf.field, value |-> leaf.value] : leaf \in S[k]}
        /\ Diff!Under(<<k>>, T) = {[field |-> <<k>> \o leaf.field, value |-> leaf.value] : leaf \in T}
    BY <1>3, <1>9, <2>2, UnderLeaves
  <2>4. ASSUME NEW leaf \in S[k], z = [field |-> <<k>> \o leaf.field, value |-> leaf.value]
        PROVE  (~\E d \in D : Diff!IsPrefix(d.field, z.field)) <=> leaf \in T
    BY <1>11, <2>1, <2>4
  <2>5. z \in Diff!Under(<<k>>, T) => z \in Diff!Under(<<k>>, S[k]) /\ ~\E d \in D : Diff!IsPrefix(d.field, z.field)
    <3>1. SUFFICES ASSUME NEW leaf \in T, z = [field |-> <<k>> \o leaf.field, value |-> leaf.value]
                   PROVE  z \in Diff!Under(<<k>>, S[k]) /\ ~\E d \in D : Diff!IsPrefix(d.field, z.field)
      BY <2>3
    <3> QED
      BY <2>1, <2>3, <2>4, <3>1
  <2>6. z \in Diff!Under(<<k>>, S[k]) /\ (~\E d \in D : Diff!IsPrefix(d.field, z.field)) => z \in Diff!Under(<<k>>, T)
    BY <2>3, <2>4
  <2> QED
    BY <2>1, <2>5, <2>6
<1>13. z \in Unchanged(x, D) <=> z \in Diff!Seen(x) /\ ~\E d \in D : Diff!IsPrefix(d.field, z.field)
  BY DEF Unchanged
<1>14. z \in Unchanged(x, D) <=>
         \E k \in U : z \in Diff!Under(<<k>>, {leaf \in S[k] : ~\E d \in E[k] : Diff!IsPrefix(d.field, leaf.field)})
  BY <1>10, <1>12, <1>13
<1>15. \A k \in U : {leaf \in S[k] : ~\E d \in E[k] : Diff!IsPrefix(d.field, leaf.field)} =
                     Unchanged(Diff!Field(x, k), Diff!DiffValue(Diff!Field(x, k), Diff!Field(y, k)))
  BY <1>6, <1>9 DEF Unchanged
<1> QED
  BY <1>1, <1>4, <1>14, <1>15

LEMMA ChangedBelow ==
    ASSUME Diff!DiffAssumption, NEW x \in Diff!Values, NEW y \in Diff!Values, x # y, Diff!IsObject(x), Diff!IsObject(y),
           NEW z
    PROVE  z \in Changed(Diff!DiffValue(x, y)) <=>
             \E k \in DOMAIN x.at \cup DOMAIN y.at :
               z \in Diff!Under(<<k>>, Changed(Diff!DiffValue(Diff!Field(x, k), Diff!Field(y, k))))
<1>1. PICK U : U = DOMAIN x.at \cup DOMAIN y.at
  OBVIOUS
<1>2. Depth \in Nat /\ U \in SUBSET Keys
  BY <1>1, JsonField DEF Diff!DiffAssumption
<1>3. \A k \in U : <<k>> \in Seq(Keys) /\ Diff!Field(x, k) \in Diff!Values /\ Diff!Field(y, k) \in Diff!Values
  BY <1>2, JsonField
<1>4. PICK D : D = Diff!DiffValue(x, y)
  OBVIOUS
<1>5. PICK E : E = [k \in U |-> Diff!DiffValue(Diff!Field(x, k), Diff!Field(y, k))]
  OBVIOUS
<1>6. \A k \in U : E[k] \in SUBSET Changes /\ E[k] = Diff!DiffValue(Diff!Field(x, k), Diff!Field(y, k))
  BY <1>2, <1>3, <1>5, DiffChanges
<1>7. D = UNION {Diff!Under(<<k>>, E[k]) : k \in U}
  <2>1. D = UNION {Diff!Under(<<k>>, Diff!DiffValue(Diff!Field(x, k), Diff!Field(y, k))) : k \in DOMAIN x.at \cup DOMAIN y.at}
    BY <1>2, <1>4, DiffValueAt
  <2>2. {Diff!Under(<<k>>, Diff!DiffValue(Diff!Field(x, k), Diff!Field(y, k))) : k \in U} = {Diff!Under(<<k>>, E[k]) : k \in U}
    BY <1>6
  <2> QED
    BY <1>1, <2>1, <2>2
<1>8. ASSUME NEW k \in U, NEW d \in E[k]
      PROVE  /\ d.field \in Seq(Keys) /\ d.after \in Diff!Values /\ Diff!Seen(d.after) \in SUBSET Leaves
             /\ Diff!Under(<<k>> \o d.field, Diff!Seen(d.after)) = Diff!Under(<<k>>, Diff!Under(d.field, Diff!Seen(d.after)))
             /\ Diff!Under(d.field, Diff!Seen(d.after)) \in SUBSET Leaves
  <2>1. d.field \in Seq(Keys) /\ d.after \in Diff!Values
    BY <1>6 DEF Changes
  <2>2. Diff!Seen(d.after) \in SUBSET Leaves
    BY <2>1, SeenAt
  <2>3. PICK p, S : p = d.field /\ S = Diff!Seen(d.after)
    OBVIOUS
  <2>4. p \in Seq(Keys) /\ S \in SUBSET Leaves /\ <<k>> \in Seq(Keys)
    BY <1>3, <2>1, <2>2, <2>3
  <2>5. Diff!Under(<<k>> \o p, S) = Diff!Under(<<k>>, Diff!Under(p, S))
    BY <2>4, UnderTwice
  <2>6. Diff!Under(p, S) \in SUBSET Leaves
    BY <2>4, UnderLeaves
  <2> QED
    BY <2>1, <2>2, <2>3, <2>5, <2>6
<1>9. \A k \in U : Diff!Under(<<k>>, E[k]) = {[field |-> <<k>> \o d.field, before |-> d.before, after |-> d.after] : d \in E[k]}
  BY <1>3, <1>6, UnderChanges
<1>10. z \in Changed(D) <=> \E k \in U : \E d \in E[k] : z \in Diff!Under(<<k>> \o d.field, Diff!Seen(d.after))
  <2>1. z \in Changed(D) <=> \E c \in D : z \in Diff!Under(c.field, Diff!Seen(c.after))
    BY DEF Changed
  <2>2. ASSUME NEW c \in D, z \in Diff!Under(c.field, Diff!Seen(c.after))
        PROVE  \E k \in U : \E d \in E[k] : z \in Diff!Under(<<k>> \o d.field, Diff!Seen(d.after))
    <3>1. PICK k \in U : c \in Diff!Under(<<k>>, E[k])
      BY <1>7
    <3>2. PICK d \in E[k] : c = [field |-> <<k>> \o d.field, before |-> d.before, after |-> d.after]
      BY <1>9, <3>1
    <3>3. c.field = <<k>> \o d.field /\ c.after = d.after
      BY <3>2
    <3> QED
      BY <2>2, <3>3
  <2>3. ASSUME NEW k \in U, NEW d \in E[k], z \in Diff!Under(<<k>> \o d.field, Diff!Seen(d.after))
        PROVE  \E c \in D : z \in Diff!Under(c.field, Diff!Seen(c.after))
    <3>1. PICK c : c = [field |-> <<k>> \o d.field, before |-> d.before, after |-> d.after]
      OBVIOUS
    <3>2. c \in D /\ c.field = <<k>> \o d.field /\ c.after = d.after
      BY <1>7, <1>9, <3>1
    <3> QED
      BY <2>3, <3>2
  <2> QED
    BY <2>1, <2>2, <2>3
<1>11. ASSUME NEW k \in U
       PROVE  z \in Diff!Under(<<k>>, Changed(E[k]))
                <=> \E d \in E[k] : z \in Diff!Under(<<k>>, Diff!Under(d.field, Diff!Seen(d.after)))
  <2>1. PICK C : C = [d \in E[k] |-> Diff!Under(d.field, Diff!Seen(d.after))]
    OBVIOUS
  <2>2. \A d \in E[k] : C[d] \in SUBSET Leaves
    BY <1>8, <2>1
  <2>3. PICK T : T = UNION {C[d] : d \in E[k]}
    OBVIOUS
  <2>4. T \in SUBSET Leaves
    BY <2>2, <2>3
  <2>5. /\ Diff!Under(<<k>>, T) = {[field |-> <<k>> \o leaf.field, value |-> leaf.value] : leaf \in T}
        /\ \A d \in E[k] : Diff!Under(<<k>>, C[d]) = {[field |-> <<k>> \o leaf.field, value |-> leaf.value] : leaf \in C[d]}
    BY <1>3, <2>2, <2>4, UnderLeaves
  <2>6. z \in Diff!Under(<<k>>, T) <=> \E d \in E[k] : z \in Diff!Under(<<k>>, C[d])
    <3>1. ASSUME NEW leaf \in T, z = [field |-> <<k>> \o leaf.field, value |-> leaf.value]
          PROVE  \E d \in E[k] : z \in Diff!Under(<<k>>, C[d])
      <4>1. PICK d \in E[k] : leaf \in C[d]
        BY <2>3
      <4> QED
        BY <2>5, <3>1, <4>1
    <3>2. ASSUME NEW d \in E[k], NEW leaf \in C[d], z = [field |-> <<k>> \o leaf.field, value |-> leaf.value]
          PROVE  z \in Diff!Under(<<k>>, T)
      <4>1. leaf \in T
        BY <2>3
      <4> QED
        BY <2>5, <3>2, <4>1
    <3>3. z \in Diff!Under(<<k>>, T) => \E leaf \in T : z = [field |-> <<k>> \o leaf.field, value |-> leaf.value]
      BY <2>5
    <3>4. \A d \in E[k] : z \in Diff!Under(<<k>>, C[d]) =>
            \E leaf \in C[d] : z = [field |-> <<k>> \o leaf.field, value |-> leaf.value]
      BY <2>5
    <3> QED
      BY <3>1, <3>2, <3>3, <3>4
  <2>7. T = Changed(E[k])
    BY <2>1, <2>3 DEF Changed
  <2> QED
    BY <2>1, <2>6, <2>7
<1>12. z \in Changed(D) <=> \E k \in U : z \in Diff!Under(<<k>>, Changed(E[k]))
  BY <1>8, <1>10, <1>11
<1> QED
  BY <1>1, <1>4, <1>6, <1>12

\* The changes of a value and what they leave alone make up the value after it.
LEMMA Rebuilt ==
    ASSUME Diff!DiffAssumption, NEW v \in Diff!Values, NEW w \in Diff!Values
    PROVE  Diff!Seen(w) = Unchanged(v, Diff!DiffValue(v, w)) \cup Changed(Diff!DiffValue(v, w))
<1> DEFINE Right(x, y) == Diff!Seen(y) = Unchanged(x, Diff!DiffValue(x, y)) \cup Changed(Diff!DiffValue(x, y))
           X == {x \in Diff!Values : \E y \in Diff!Values : ~Right(x, y)}
<1>1. SUFFICES ASSUME X # {} PROVE FALSE
  OBVIOUS
<1>2. PICK x \in X : Diff!IsObject(x) => \A k \in DOMAIN x.at : x.at[k] \notin X
  <2>1. X \in SUBSET Diff!Values /\ Depth \in Nat
    BY DEF Diff!DiffAssumption
  <2> HIDE DEF X
  <2> QED
    BY <1>1, <2>1, JsonMinimal
<1>3. PICK y \in Diff!Values : ~Right(x, y)
  OBVIOUS
<1>4. Depth \in Nat
  BY DEF Diff!DiffAssumption
\* Whatever is not compared by its fields.
<1>5. ASSUME NEW a \in Diff!Values, NEW b \in Diff!Values, ~(Diff!IsObject(a) /\ Diff!IsObject(b)) \/ a = b
      PROVE  Right(a, b)
  <2>1. CASE a = b
    <3>1. PICK D : D = Diff!DiffValue(a, b)
      OBVIOUS
    <3>2. D = {}
      BY <1>4, <2>1, <3>1, DiffValueAt
    <3>3. Unchanged(a, D) = Diff!Seen(a) /\ Changed(D) = {}
      BY <3>2 DEF Unchanged, Changed
    <3> QED
      BY <2>1, <3>1, <3>3
  <2>2. CASE a # b
    <3>1. PICK D : D = Diff!DiffValue(a, b)
      OBVIOUS
    <3>2. D = {Diff!Change(<<>>, a, b)}
      BY <1>4, <1>5, <2>2, <3>1, DiffValueAt
    <3>3. PICK d : d = Diff!Change(<<>>, a, b)
      OBVIOUS
    <3>4. d.field = <<>> /\ d.after = b
      BY <3>3 DEF Diff!Change
    <3>5. D = {d}
      BY <3>2, <3>3
    <3>6. Unchanged(a, D) = {}
      <4>1. \A leaf \in Diff!Seen(a) : leaf.field \in Seq(Keys)
        BY SeenAt DEF Leaves
      <4>2. \A leaf \in Diff!Seen(a) : Diff!IsPrefix(<<>>, leaf.field)
        BY <4>1, PrefixOfAll
      <4> QED
        BY <3>4, <3>5, <4>2 DEF Unchanged
    <3>7. Changed(D) = Diff!Seen(b)
      <4>1. Changed(D) = Diff!Under(<<>>, Diff!Seen(b))
        BY <3>4, <3>5 DEF Changed
      <4>2. Diff!Seen(b) \in SUBSET Leaves
        BY SeenAt
      <4> QED
        BY <4>1, <4>2, UnderNothing
    <3> QED
      BY <3>1, <3>6, <3>7
  <2> QED
    BY <2>1, <2>2
<1>6. Diff!IsObject(x) /\ Diff!IsObject(y) /\ x # y
  BY <1>3, <1>5
<1>7. PICK U : U = DOMAIN x.at \cup DOMAIN y.at
  OBVIOUS
<1>8. U \in SUBSET Keys
  BY <1>4, <1>6, <1>7, JsonField
<1>9. ASSUME NEW k \in U PROVE Right(Diff!Field(x, k), Diff!Field(y, k))
  <2>1. Diff!Field(x, k) \in Diff!Values /\ Diff!Field(y, k) \in Diff!Values /\ ~Diff!IsObject(Diff!Null)
    BY <1>4, <1>6, JsonField
  <2>2. CASE k \in DOMAIN x.at
    <3>1. Diff!Field(x, k) \notin X
      BY <1>2, <1>6, <2>2 DEF Diff!Field
    <3> QED
      BY <2>1, <3>1
  <2>3. CASE k \notin DOMAIN x.at
    <3>1. Diff!Field(x, k) = Diff!Null
      BY <2>3 DEF Diff!Field
    <3> QED
      BY <1>5, <2>1, <3>1
  <2> QED
    BY <2>2, <2>3
<1>10. ASSUME NEW k \in U
       PROVE  Diff!Under(<<k>>, Diff!Seen(Diff!Field(y, k))) =
                Diff!Under(<<k>>, Unchanged(Diff!Field(x, k), Diff!DiffValue(Diff!Field(x, k), Diff!Field(y, k))))
                  \cup Diff!Under(<<k>>, Changed(Diff!DiffValue(Diff!Field(x, k), Diff!Field(y, k))))
  <2>1. PICK S, T : /\ S = Unchanged(Diff!Field(x, k), Diff!DiffValue(Diff!Field(x, k), Diff!Field(y, k)))
                    /\ T = Changed(Diff!DiffValue(Diff!Field(x, k), Diff!Field(y, k)))
    OBVIOUS
  <2>2. Diff!Seen(Diff!Field(y, k)) = S \cup T
    BY <1>9, <2>1
  <2>3. Diff!Under(<<k>>, S \cup T) = Diff!Under(<<k>>, S) \cup Diff!Under(<<k>>, T)
    BY DEF Diff!Under
  <2> QED
    BY <2>1, <2>2, <2>3
<1>11. Diff!Seen(y) = UNION {Diff!Under(<<k>>, Diff!Seen(Diff!Field(y, k))) : k \in U}
  BY <1>6, <1>7, <1>8, SeenFields
<1>12. ASSUME NEW z
       PROVE  z \in Diff!Seen(y) <=> z \in Unchanged(x, Diff!DiffValue(x, y)) \/ z \in Changed(Diff!DiffValue(x, y))
  <2>1. z \in Diff!Seen(y) <=> \E k \in U : z \in Diff!Under(<<k>>, Diff!Seen(Diff!Field(y, k)))
    BY <1>11
  <2>2. z \in Unchanged(x, Diff!DiffValue(x, y)) <=>
          \E k \in U : z \in Diff!Under(<<k>>, Unchanged(Diff!Field(x, k), Diff!DiffValue(Diff!Field(x, k), Diff!Field(y, k))))
    BY <1>6, <1>7, UnchangedBelow
  <2>3. z \in Changed(Diff!DiffValue(x, y)) <=>
          \E k \in U : z \in Diff!Under(<<k>>, Changed(Diff!DiffValue(Diff!Field(x, k), Diff!Field(y, k))))
    BY <1>6, <1>7, ChangedBelow
  <2> HIDE DEF X, Right
  <2> QED
    BY <1>10, <2>1, <2>2, <2>3
<1>13. Right(x, y)
  BY <1>12
<1> QED
  BY <1>3, <1>13

\* What the values on a path satisfy.
WalkOn(g, v, p, n) ==
    [i \in 0..n |-> IF i = 0 THEN v
                    ELSE IF Diff!IsObject(g[i - 1]) THEN Diff!Field(g[i - 1], p[i]) ELSE Diff!Null]

LEMMA WalkExists == ASSUME NEW v, NEW p, NEW n \in Nat PROVE \E g : g = WalkOn(g, v, p, n)
<1> DEFINE B == {m \in Nat : ~\E g : g = WalkOn(g, v, p, m)}
<1>1. SUFFICES ASSUME B # {} PROVE FALSE
  OBVIOUS
<1>2. PICK m \in B : \A k \in B : m <= k
  <2>1. B \in SUBSET Nat
    OBVIOUS
  <2> HIDE DEF B
  <2> QED
    BY <1>1, <2>1, LeastNat
<1>3. CASE m = 0
  <2>1. PICK g : g = [i \in 0..0 |-> v]
    OBVIOUS
  <2>2. g = WalkOn(g, v, p, 0)
    BY <2>1 DEF WalkOn
  <2> QED
    BY <1>2, <1>3, <2>2
<1>4. CASE m # 0
  <2>1. m - 1 \in Nat /\ m - 1 \notin B
    BY <1>2, <1>4
  <2>2. PICK g : g = WalkOn(g, v, p, m - 1)
    BY <2>1
  <2> DEFINE E(e, i) == IF i = 0 THEN v
                        ELSE IF Diff!IsObject(e[i - 1]) THEN Diff!Field(e[i - 1], p[i]) ELSE Diff!Null
  <2>3. \A i \in 0..(m - 1) : g[i] = E(g, i)
    BY <2>2 DEF WalkOn
  <2>4. PICK h : h = [i \in 0..m |-> E(g, i)]
    OBVIOUS
  <2>5. ASSUME NEW i \in 0..m PROVE E(g, i) = E(h, i)
    <3>1. CASE i = 0
      BY <3>1
    <3>2. CASE i # 0
      <4>1. i - 1 \in 0..(m - 1) /\ i - 1 \in 0..m
        BY <3>2
      <4>2. h[i - 1] = E(g, i - 1) /\ g[i - 1] = E(g, i - 1)
        <5> HIDE DEF E
        <5> QED
          BY <2>3, <2>4, <4>1
      <4>3. h[i - 1] = g[i - 1]
        BY <4>2
      <4> QED
        BY <4>3
    <3> QED
      BY <3>1, <3>2
  <2>6. h = [i \in 0..m |-> E(h, i)]
    <3> HIDE DEF E
    <3> QED
      BY <2>4, <2>5
  <2>7. h = WalkOn(h, v, p, m)
    BY <2>6 DEF WalkOn
  <2> QED
    BY <1>2, <2>7
<1> QED
  BY <1>3, <1>4

\* Get follows the path from the value on.
LEMMA GetWalk ==
    ASSUME NEW v, NEW p \in Seq(Keys)
    PROVE  \E g : Diff!Get(v, p) = g[Len(p)] /\ g = WalkOn(g, v, p, Len(p))
<1>1. Diff!Get(v, p) = (CHOOSE g : g = WalkOn(g, v, p, Len(p)))[Len(p)]
  BY DEF Diff!Get, WalkOn
<1>2. PICK g : g = CHOOSE h : h = WalkOn(h, v, p, Len(p))
  OBVIOUS
<1>3. Len(p) \in Nat
  OBVIOUS
<1>4. g = WalkOn(g, v, p, Len(p))
  BY <1>2, <1>3, WalkExists
<1> QED
  BY <1>1, <1>2, <1>4

LEMMA GetWhole == ASSUME NEW v PROVE Diff!Get(v, <<>>) = v
<1>1. <<>> \in Seq(Keys) /\ Len(<<>>) = 0
  OBVIOUS
<1>2. PICK g : Diff!Get(v, <<>>) = g[0] /\ g = WalkOn(g, v, <<>>, 0)
  BY <1>1, GetWalk
<1> QED
  BY <1>2 DEF WalkOn

LEMMA GetBelow ==
    ASSUME NEW v, Diff!IsObject(v), NEW k \in Keys, NEW p \in Seq(Keys)
    PROVE  Diff!Get(v, <<k>> \o p) = Diff!Get(Diff!Field(v, k), p)
<1>1. PICK q : q = <<k>> \o p
  OBVIOUS
<1>2. PICK n : n = Len(p)
  OBVIOUS
<1>3. /\ q \in Seq(Keys) /\ n \in Nat /\ Len(q) = n + 1 /\ q[1] = k
      /\ \A i \in 1..n : q[i + 1] = p[i]
  BY <1>1, <1>2
<1>4. PICK w : w = Diff!Field(v, k)
  OBVIOUS
<1>5. PICK g : Diff!Get(v, q) = g[n + 1] /\ g = WalkOn(g, v, q, n + 1)
  BY <1>3, GetWalk
<1>6. PICK h : Diff!Get(w, p) = h[n] /\ h = WalkOn(h, w, p, n)
  BY <1>2, GetWalk
<1>7. \A i \in 0..(n + 1) : g[i] = IF i = 0 THEN v
                                   ELSE IF Diff!IsObject(g[i - 1]) THEN Diff!Field(g[i - 1], q[i]) ELSE Diff!Null
  BY <1>5 DEF WalkOn
<1>8. \A i \in 0..n : h[i] = IF i = 0 THEN w
                             ELSE IF Diff!IsObject(h[i - 1]) THEN Diff!Field(h[i - 1], p[i]) ELSE Diff!Null
  BY <1>6 DEF WalkOn
<1> DEFINE B == {i \in Nat : i <= n /\ g[i + 1] # h[i]}
<1>9. B = {}
  <2>1. SUFFICES ASSUME B # {} PROVE FALSE
    OBVIOUS
  <2>2. PICK i \in B : \A j \in B : i <= j
    <3>1. B \in SUBSET Nat
      OBVIOUS
    <3> HIDE DEF B
    <3> QED
      BY <2>1, <3>1, LeastNat
  <2>3. CASE i = 0
    <3>1. g[0] = v /\ g[1] = Diff!Field(v, k)
      <4>1. 0 \in 0..(n + 1) /\ 1 \in 0..(n + 1) /\ 1 - 1 = 0
        BY <1>3
      <4>2. g[0] = v
        BY <1>7, <4>1
      <4>3. g[1] = IF Diff!IsObject(g[0]) THEN Diff!Field(g[0], q[1]) ELSE Diff!Null
        BY <1>7, <4>1
      <4> QED
        BY <1>3, <4>2, <4>3
    <3>2. h[0] = w
      BY <1>3, <1>8
    <3> QED
      BY <1>4, <2>2, <2>3, <3>1, <3>2
  <2>4. CASE i # 0
    <3>1. /\ i - 1 \in Nat /\ i - 1 <= n /\ i - 1 \notin B /\ i \in 1..n /\ i \in 0..n
          /\ i + 1 \in 0..(n + 1) /\ (i + 1) - 1 = i /\ (i - 1) + 1 = i /\ i + 1 # 0
      BY <1>3, <2>2, <2>4
    <3>2. g[i] = h[i - 1]
      BY <3>1
    <3>3. g[i + 1] = IF Diff!IsObject(g[i]) THEN Diff!Field(g[i], q[i + 1]) ELSE Diff!Null
      BY <1>7, <3>1
    <3>4. h[i] = IF Diff!IsObject(h[i - 1]) THEN Diff!Field(h[i - 1], p[i]) ELSE Diff!Null
      BY <1>8, <2>4, <3>1
    <3>5. q[i + 1] = p[i]
      BY <1>3, <3>1
    <3> QED
      BY <2>2, <3>2, <3>3, <3>4, <3>5
  <2> QED
    BY <2>3, <2>4
<1>10. g[n + 1] = h[n]
  BY <1>3, <1>9
<1> QED
  BY <1>1, <1>4, <1>5, <1>6, <1>10

\* The changes of a value do not overlap, and each is one.
Minimal(x, y) ==
    \A c \in Diff!DiffValue(x, y) :
        /\ c.before # c.after
        /\ Diff!Get(x, c.field) = c.before /\ Diff!Get(y, c.field) = c.after
        /\ \A d \in Diff!DiffValue(x, y) \ {c} : ~Diff!IsPrefix(c.field, d.field)

LEMMA DiffMinimal ==
    ASSUME Depth \in Nat, NEW v \in Diff!Values, NEW w \in Diff!Values PROVE Minimal(v, w)
<1> DEFINE X == {x \in Diff!Values : \E y \in Diff!Values : ~Minimal(x, y)}
<1>1. SUFFICES ASSUME X # {} PROVE FALSE
  OBVIOUS
<1>2. PICK x \in X : Diff!IsObject(x) => \A k \in DOMAIN x.at : x.at[k] \notin X
  <2>1. X \in SUBSET Diff!Values
    OBVIOUS
  <2> HIDE DEF X
  <2> QED
    BY <1>1, <2>1, JsonMinimal
<1>3. PICK y \in Diff!Values : ~Minimal(x, y)
  OBVIOUS
<1>4. ASSUME NEW a \in Diff!Values, NEW b \in Diff!Values, ~(Diff!IsObject(a) /\ Diff!IsObject(b)) \/ a = b
      PROVE  Minimal(a, b)
  <2>1. CASE a = b
    <3>1. Diff!DiffValue(a, b) = {}
      BY <2>1, DiffValueAt
    <3> QED
      BY <3>1 DEF Minimal
  <2>2. CASE a # b
    <3>1. Diff!DiffValue(a, b) = {Diff!Change(<<>>, a, b)}
      BY <1>4, <2>2, DiffValueAt
    <3>2. PICK d : d = Diff!Change(<<>>, a, b)
      OBVIOUS
    <3>3. d.field = <<>> /\ d.before = a /\ d.after = b
      BY <3>2 DEF Diff!Change
    <3>4. Diff!DiffValue(a, b) = {d}
      BY <3>1, <3>2
    <3> QED
      BY <2>2, <3>3, <3>4, GetWhole DEF Minimal
  <2> QED
    BY <2>1, <2>2
<1>5. Diff!IsObject(x) /\ Diff!IsObject(y) /\ x # y
  BY <1>3, <1>4
<1>6. PICK U : U = DOMAIN x.at \cup DOMAIN y.at
  OBVIOUS
<1>7. U \in SUBSET Keys
  BY <1>5, <1>6, JsonField
<1>8. \A k \in U : <<k>> \in Seq(Keys) /\ Diff!Field(x, k) \in Diff!Values /\ Diff!Field(y, k) \in Diff!Values
  BY <1>5, <1>7, JsonField
<1>9. ASSUME NEW k \in U PROVE Minimal(Diff!Field(x, k), Diff!Field(y, k))
  <2>1. ~Diff!IsObject(Diff!Null)
    BY JsonField
  <2>2. CASE k \in DOMAIN x.at
    <3>1. Diff!Field(x, k) \notin X
      BY <1>2, <1>5, <2>2 DEF Diff!Field
    <3> QED
      BY <1>8, <3>1
  <2>3. CASE k \notin DOMAIN x.at
    <3>1. Diff!Field(x, k) = Diff!Null
      BY <2>3 DEF Diff!Field
    <3> QED
      BY <1>4, <1>8, <2>1, <3>1
  <2> QED
    BY <2>2, <2>3
<1>10. PICK D : D = Diff!DiffValue(x, y)
  OBVIOUS
<1>11. PICK E : E = [k \in U |-> Diff!DiffValue(Diff!Field(x, k), Diff!Field(y, k))]
  OBVIOUS
<1>12. \A k \in U : E[k] \in SUBSET Changes /\ E[k] = Diff!DiffValue(Diff!Field(x, k), Diff!Field(y, k))
  BY <1>8, <1>11, DiffChanges
<1>13. D = UNION {Diff!Under(<<k>>, E[k]) : k \in U}
  <2>1. D = UNION {Diff!Under(<<k>>, Diff!DiffValue(Diff!Field(x, k), Diff!Field(y, k))) : k \in DOMAIN x.at \cup DOMAIN y.at}
    BY <1>5, <1>10, DiffValueAt
  <2>2. {Diff!Under(<<k>>, Diff!DiffValue(Diff!Field(x, k), Diff!Field(y, k))) : k \in U} = {Diff!Under(<<k>>, E[k]) : k \in U}
    BY <1>12
  <2> QED
    BY <1>6, <2>1, <2>2
<1>14. \A k \in U : Diff!Under(<<k>>, E[k]) = {[field |-> <<k>> \o d.field, before |-> d.before, after |-> d.after] : d \in E[k]}
  BY <1>8, <1>12, UnderChanges
<1>15. ASSUME NEW c \in D
       PROVE  \E k \in U : \E e \in E[k] : c = [field |-> <<k>> \o e.field, before |-> e.before, after |-> e.after]
  <2>1. PICK k \in U : c \in Diff!Under(<<k>>, E[k])
    BY <1>13
  <2> QED
    BY <1>14, <2>1
<1>16. ASSUME NEW c \in D
       PROVE  /\ c.before # c.after /\ Diff!Get(x, c.field) = c.before /\ Diff!Get(y, c.field) = c.after
              /\ \A d \in D \ {c} : ~Diff!IsPrefix(c.field, d.field)
  <2>1. PICK k \in U : \E e \in E[k] : c = [field |-> <<k>> \o e.field, before |-> e.before, after |-> e.after]
    BY <1>15
  <2>2. PICK e \in E[k] : c = [field |-> <<k>> \o e.field, before |-> e.before, after |-> e.after]
    BY <2>1
  <2>3. e.field \in Seq(Keys) /\ k \in Keys
    BY <1>7, <1>12 DEF Changes
  <2>4. c.field = <<k>> \o e.field /\ c.before = e.before /\ c.after = e.after
    BY <2>2
  <2>5. /\ e.before # e.after
        /\ Diff!Get(Diff!Field(x, k), e.field) = e.before /\ Diff!Get(Diff!Field(y, k), e.field) = e.after
        /\ \A f \in E[k] \ {e} : ~Diff!IsPrefix(e.field, f.field)
    BY <1>9, <1>12 DEF Minimal
  <2>6. Diff!Get(x, c.field) = c.before /\ Diff!Get(y, c.field) = c.after
    BY <1>5, <2>3, <2>4, <2>5, GetBelow
  <2>7. ASSUME NEW d \in D \ {c}, Diff!IsPrefix(c.field, d.field) PROVE FALSE
    <3>1. PICK j \in U : \E f \in E[j] : d = [field |-> <<j>> \o f.field, before |-> f.before, after |-> f.after]
      BY <1>15
    <3>2. PICK f \in E[j] : d = [field |-> <<j>> \o f.field, before |-> f.before, after |-> f.after]
      BY <3>1
    <3>3. f.field \in Seq(Keys) /\ j \in Keys /\ d.field = <<j>> \o f.field
      BY <1>7, <1>12, <3>2 DEF Changes
    <3>4. k = j /\ Diff!IsPrefix(e.field, f.field)
      BY <2>3, <2>4, <2>7, <3>3, PrefixUnder
    <3>5. f = e
      BY <2>5, <3>4
    <3> QED
      BY <2>2, <2>7, <3>2, <3>4, <3>5
  <2> QED
    BY <2>4, <2>5, <2>6, <2>7
<1>17. Minimal(x, y)
  BY <1>10, <1>16 DEF Minimal
<1> QED
  BY <1>3, <1>17

\* A creation shows its leaves, a deletion the leaves that are gone.
LEMMA LeafSeen ==
    ASSUME Diff!DiffAssumption, NEW leaf \in Leaves
    PROVE  Diff!Under(leaf.field, Diff!Seen(leaf.value)) = IF leaf.value = Diff!Null THEN {} ELSE {leaf}
<1>1. PICK p, v : p = leaf.field /\ v = leaf.value
  OBVIOUS
<1>2. p \in Seq(Keys) /\ v \in Diff!Values /\ ~Diff!IsObject(v) /\ leaf = [field |-> p, value |-> v]
  BY <1>1 DEF Leaves
<1>3. CASE v = Diff!Null
  <2>1. Diff!Seen(v) = {}
    BY <1>2, <1>3, SeenAt
  <2> QED
    BY <1>1, <1>3, <2>1 DEF Diff!Under
<1>4. CASE v # Diff!Null
  <2>1. PICK S : S = Diff!Seen(v)
    OBVIOUS
  <2>2. S = {[field |-> <<>>, value |-> v]} /\ S \in SUBSET Leaves
    BY <1>2, <1>4, <2>1, SeenAt
  <2>3. Diff!Under(p, S) = {[field |-> p \o x.field, value |-> x.value] : x \in S}
    BY <1>2, <2>2, UnderLeaves
  <2>4. Diff!Under(p, S) = {[field |-> p \o <<>>, value |-> v]}
    <3>1. PICK x : x = [field |-> <<>>, value |-> v]
      OBVIOUS
    <3>2. x.field = <<>> /\ x.value = v /\ S = {x}
      BY <2>2, <3>1
    <3>3. Diff!Under(p, S) = {[field |-> p \o x.field, value |-> x.value]}
      BY <2>3, <3>2
    <3> QED
      BY <3>2, <3>3
  <2>5. p \o <<>> = p
    BY <1>2, PrefixOfAll
  <2> QED
    BY <1>1, <1>2, <1>4, <2>1, <2>4, <2>5
<1> QED
  BY <1>3, <1>4

Sides == Diff!Snapshots \cup {Missing}

\* The differences of two snapshots, one of which may be missing.
LEMMA SidesRebuilt ==
    ASSUME Diff!DiffAssumption, NEW b \in Sides, NEW a \in Sides
    PROVE  Diff!Seen(a) = Unchanged(b, Diff!Diff(b, a)) \cup Changed(Diff!Diff(b, a))
<1>1. Depth \in Nat /\ Missing \notin Diff!Values
  BY DEF Diff!DiffAssumption
<1>2. Diff!Seen(Missing) = {}
  BY DEF Diff!Seen
<1>3. PICK D : D = Diff!Diff(b, a)
  OBVIOUS
<1>4. CASE b = Missing /\ a = Missing
  <2>1. D = {}
    BY <1>3, <1>4 DEF Diff!Diff
  <2> QED
    BY <1>2, <1>3, <1>4, <2>1 DEF Unchanged, Changed
<1>5. CASE b = Missing /\ a # Missing
  <2>1. a \in Diff!Values
    BY <1>5 DEF Sides, Diff!Snapshots
  <2>2. PICK S : S = Diff!Collect(a)
    OBVIOUS
  <2>3. S \in SUBSET Leaves /\ Diff!Seen(a) = {x \in S : x.value # Diff!Null}
    BY <1>1, <2>1, <2>2, CollectLeaves, SeenAt
  <2>4. D = {Diff!Change(c.field, Diff!Null, c.value) : c \in S}
    BY <1>3, <1>5, <2>2 DEF Diff!Diff
  <2>5. Unchanged(b, D) = {}
    BY <1>2, <1>5 DEF Unchanged
  <2>6. ASSUME NEW z PROVE z \in Changed(D) <=> z \in Diff!Seen(a)
    <3>1. \A c \in S : /\ Diff!Change(c.field, Diff!Null, c.value).field = c.field
                       /\ Diff!Change(c.field, Diff!Null, c.value).after = c.value
      BY DEF Diff!Change
    <3>2. z \in Changed(D) <=> \E c \in S : z \in Diff!Under(c.field, Diff!Seen(c.value))
      BY <2>4, <3>1 DEF Changed
    <3>3. \A c \in S : z \in Diff!Under(c.field, Diff!Seen(c.value)) <=> z = c /\ c.value # Diff!Null
      BY <2>3, LeafSeen
    <3> QED
      BY <2>3, <3>2, <3>3
  <2> QED
    BY <1>3, <2>5, <2>6
<1>6. CASE b # Missing /\ a = Missing
  <2>1. b \in Diff!Values
    BY <1>6 DEF Sides, Diff!Snapshots
  <2>2. PICK S : S = Diff!Collect(b)
    OBVIOUS
  <2>3. S \in SUBSET Leaves /\ Diff!Seen(b) = {x \in S : x.value # Diff!Null}
    BY <1>1, <2>1, <2>2, CollectLeaves, SeenAt
  <2>4. D = {Diff!Change(c.field, c.value, Diff!Null) : c \in S}
    BY <1>3, <1>6, <2>2 DEF Diff!Diff
  <2>5. \A c \in S : /\ Diff!Change(c.field, c.value, Diff!Null).field = c.field
                     /\ Diff!Change(c.field, c.value, Diff!Null).after = Diff!Null
    BY DEF Diff!Change
  <2>6. Changed(D) = {}
    <3>1. Diff!Seen(Diff!Null) = {}
      BY <2>1, SeenAt
    <3>2. \A d \in D : d.after = Diff!Null
      BY <2>4, <2>5
    <3>3. \A d \in D : Diff!Under(d.field, Diff!Seen(d.after)) = {}
      BY <3>1, <3>2 DEF Diff!Under
    <3> QED
      BY <3>3 DEF Changed
  <2>7. Unchanged(b, D) = {}
    <3>1. ASSUME NEW c \in S PROVE \E d \in D : Diff!IsPrefix(d.field, c.field)
      <4>1. PICK d : d = Diff!Change(c.field, c.value, Diff!Null)
        OBVIOUS
      <4>2. d \in D /\ d.field = c.field
        BY <2>4, <2>5, <4>1
      <4>3. c.field \in Seq(Keys)
        BY <2>3 DEF Leaves
      <4> QED
        BY <4>2, <4>3, PrefixOfAll
    <3> QED
      BY <2>3, <3>1 DEF Unchanged
  <2> QED
    BY <1>2, <1>3, <1>6, <2>6, <2>7
<1>7. CASE b # Missing /\ a # Missing
  <2>1. a \in Diff!Values /\ b \in Diff!Values
    BY <1>7 DEF Sides, Diff!Snapshots
  <2>2. D = Diff!DiffValue(b, a)
    BY <1>3, <1>7 DEF Diff!Diff
  <2> QED
    BY <1>3, <2>1, <2>2, Rebuilt
<1> QED
  BY <1>4, <1>5, <1>6, <1>7

-----------------------------------------------------------------------------
(* Diff: the history. *)

DiffInv ==
    /\ current \in Sides /\ log \in Seq([before: Sides, after: Sides])
    /\ log = <<>> => current = Missing
    /\ \A n \in DOMAIN log : IF n = 1 THEN log[n].before = Missing /\ log[n].after # Missing
                             ELSE log[n].before # Missing

LEMMA DiffInit == ASSUME Diff!Init PROVE DiffInv
BY DEF Diff!Init, DiffInv, Sides

LEMMA DiffStep ==
    ASSUME Diff!DiffAssumption, DiffInv, Diff!Next \/ UNCHANGED <<current, log>> PROVE DiffInv'
<1>1. CASE Diff!Next
  <2>1. PICK s \in Sides : Diff!Record(s) /\ (IF current = Missing THEN log = <<>> /\ s # Missing ELSE TRUE)
    BY <1>1 DEF Diff!Next, Diff!Create, Diff!Modify, Diff!Delete, Sides, Diff!Snapshots, Diff!DiffAssumption
  <2>2. PICK row : row = [before |-> current, after |-> s]
    OBVIOUS
  <2>3. log' = Append(log, row) /\ current' = s /\ row \in [before: Sides, after: Sides]
    BY <2>1, <2>2 DEF Diff!Record, DiffInv
  <2>4. log \in Seq([before: Sides, after: Sides])
    BY DEF DiffInv
  <2>5. log' \in Seq([before: Sides, after: Sides]) /\ Len(log') = Len(log) + 1 /\ Len(log) \in Nat
    BY <2>3, <2>4
  <2>6. \A n \in DOMAIN log' : n # Len(log) + 1 => n \in DOMAIN log /\ log'[n] = log[n]
    BY <2>3, <2>4, <2>5
  <2>7. log'[Len(log) + 1] = row
    BY <2>3, <2>4
  <2>8. IF Len(log) + 1 = 1 THEN row.before = Missing /\ row.after # Missing ELSE row.before # Missing
    <3>1. CASE log = <<>>
      BY <2>1, <2>2, <3>1 DEF DiffInv
    <3>2. CASE log # <<>>
      BY <2>1, <2>2, <2>5, <3>2 DEF DiffInv
    <3> QED
      BY <3>1, <3>2
  <2>9. log' # <<>>
    BY <2>5
  <2> QED
    BY <2>3, <2>5, <2>6, <2>7, <2>8, <2>9 DEF DiffInv
<1>2. CASE UNCHANGED <<current, log>>
  BY <1>2 DEF DiffInv, Sides, Diff!Snapshots
<1> QED
  BY <1>1, <1>2

\* What the history shows is exact.
LEMMA DiffShown ==
    ASSUME Diff!DiffAssumption, DiffInv PROVE Diff!TypeOK /\ Diff!DiffRebuilds /\ Diff!DiffIsMinimal
<1>1. ASSUME NEW n \in DOMAIN log PROVE log[n].before \in Sides /\ log[n].after \in Sides
  <2>1. PICK S : S = [before: Sides, after: Sides]
    OBVIOUS
  <2>2. log \in Seq(S)
    BY <2>1 DEF DiffInv
  <2>3. log[n] \in S
    BY <2>2
  <2> QED
    BY <2>1, <2>3
<1>2. \A n \in DOMAIN log : /\ Diff!Item(log[n]).diff = Diff!Diff(log[n].before, log[n].after)
                            /\ Diff!Item(log[n]).change_type = Diff!ChangeType(log[n].before, log[n].after)
  BY DEF Diff!Item
<1>3. Diff!TypeOK
  BY <1>2 DEF DiffInv, Diff!TypeOK, Diff!ChangeType, Sides
<1>4. Diff!DiffRebuilds
  <2>1. SUFFICES ASSUME NEW n \in DOMAIN log
                 PROVE  LET diff == Diff!Item(log[n]).diff
                            kept == {leaf \in Diff!Seen(log[n].before) :
                                       ~\E c \in diff : Diff!IsPrefix(c.field, leaf.field)}
                        IN  Diff!Seen(log[n].after) = kept \cup UNION {Diff!Under(c.field, Diff!Seen(c.after)) : c \in diff}
    BY DEF Diff!DiffRebuilds
  <2>2. PICK b, a, D : b = log[n].before /\ a = log[n].after /\ D = Diff!Diff(b, a)
    OBVIOUS
  <2>3. Diff!Seen(a) = Unchanged(b, D) \cup Changed(D)
    BY <1>1, <2>2, SidesRebuilt
  <2> QED
    BY <1>2, <2>2, <2>3 DEF Unchanged, Changed
<1>5. Diff!DiffIsMinimal
  <2>1. SUFFICES ASSUME NEW n \in DOMAIN log, log[n].before # Missing, log[n].after # Missing
                 PROVE  LET diff == Diff!Item(log[n]).diff
                        IN  \A c \in diff :
                               /\ c.before # c.after
                               /\ Diff!Get(log[n].before, c.field) = c.before /\ Diff!Get(log[n].after, c.field) = c.after
                               /\ \A d \in diff \ {c} : ~Diff!IsPrefix(c.field, d.field)
    BY DEF Diff!DiffIsMinimal
  <2>2. PICK b, a : b = log[n].before /\ a = log[n].after
    OBVIOUS
  <2>3. b \in Diff!Values /\ a \in Diff!Values
    BY <1>1, <2>1, <2>2 DEF Sides, Diff!Snapshots
  <2>4. Minimal(b, a)
    BY <2>3, DiffMinimal DEF Diff!DiffAssumption
  <2>5. Diff!Item(log[n]).diff = Diff!DiffValue(b, a)
    BY <1>2, <2>1, <2>2 DEF Diff!Diff
  <2> QED
    BY <2>2, <2>4, <2>5 DEF Minimal
<1> QED
  BY <1>3, <1>4, <1>5

-----------------------------------------------------------------------------
(* The parts together. *)

\* Each part keeps its own invariant while it moves.
RecordsInv ==
    /\ part = "diff" => DiffInv
    /\ part = "codes" => MasterInv(Coding)
    /\ part = "trail" => MasterInv(Tracing)
    /\ part = "tree" => CategoryInv(Rooting)
    /\ part = "patch" => CategoryInv(Patching)
    /\ part = "plain" => AuthInv(Granting)
    /\ part = "joined" => AuthInv(Joining)

LEMMA RecordsStart == ASSUME RecordsInit PROVE RecordsInv
<1>1. CASE part = "diff"
  BY <1>1, DiffInit DEF RecordsInit, RecordsInv
<1>2. CASE part \in {"codes", "trail"}
  BY <1>2, MasterInit, RecordsAssumption DEF RecordsInit, RecordsInv
<1>3. CASE part \in {"tree", "patch"}
  BY <1>3, CategoryInit DEF RecordsInit, RecordsInv
<1>4. CASE part \in {"plain", "joined"}
  BY <1>4, AuthInit DEF RecordsInit, RecordsInv
<1> QED
  BY <1>1, <1>2, <1>3, <1>4 DEF RecordsInv

\* A step of Auth, or none.
LEMMA AuthStep ==
    ASSUME NEW CONSTANT c, Governed(c), AuthInv(c), Auth(c)!Next \/ UNCHANGED <<perms, known, cached, call, result>>
    PROVE  AuthInv(c)'
<1>1. CASE Auth(c)!Next
  <2>1. \/ \E r \in c.roles : Auth(c)!SetRolePermissions(r) \/ Auth(c)!RemoveRole(r)
        \/ Auth(c)!Clear
        \/ \E a \in c.actions : Auth(c)!RegisterAction(a)
        \/ \E t \in Workers : Auth(c)!LookUp(t) \/ Auth(c)!Compile(t) \/ Auth(c)!Decide(t)
    BY <1>1 DEF Auth!Next
  <2> QED
    BY <2>1, AuthChange, AuthDecide
<1> QED
  BY <1>1, AuthDecide

LEMMA RecordsStep == ASSUME RecordsInv, [RecordsNext]_vAll PROVE RecordsInv'
<1>1. part' = part
  BY DEF RecordsNext, vAll
<1>2. ASSUME part = "diff" PROVE DiffInv'
  <2>1. Diff!Next \/ UNCHANGED <<current, log>>
    BY <1>2 DEF RecordsNext, vAll, vDiff
  <2> QED
    BY <1>2, <2>1, DiffStep, RecordsAssumption DEF RecordsInv
<1>3. ASSUME part = "codes" PROVE MasterInv(Coding)'
  <2>1. Master(Coding)!Next \/ UNCHANGED <<records, seq, trail, txn>>
    BY <1>3 DEF RecordsNext, vAll, vMaster
  <2> QED
    BY <1>3, <2>1, MasterStep, RecordsAssumption DEF RecordsInv
<1>4. ASSUME part = "trail" PROVE MasterInv(Tracing)'
  <2>1. Master(Tracing)!Next \/ UNCHANGED <<records, seq, trail, txn>>
    BY <1>4 DEF RecordsNext, vAll, vMaster
  <2> QED
    BY <1>4, <2>1, MasterStep, RecordsAssumption DEF RecordsInv
<1>5. ASSUME part = "patch" PROVE CategoryInv(Patching)'
  <2>1. Category(Patching)!Next \/ UNCHANGED <<cats, items, units, trail, txn>>
    BY <1>5 DEF RecordsNext, vAll, vCategories
  <2> QED
    BY <1>5, <2>1, CategoryStep DEF RecordsInv
<1>6. ASSUME part = "plain" PROVE AuthInv(Granting)'
  <2>1. Auth(Granting)!Next \/ UNCHANGED <<perms, known, cached, call, result>>
    BY <1>6 DEF RecordsNext, vAll, vAuthz
  <2>2. Governed(Granting)
    BY RecordsAssumption DEF Governed
  <2> QED
    BY <1>6, <2>1, <2>2, AuthStep DEF RecordsInv
<1>7. ASSUME part = "joined" PROVE AuthInv(Joining)'
  <2>1. Auth(Joining)!Next \/ UNCHANGED <<perms, known, cached, call, result>>
    BY <1>7 DEF RecordsNext, vAll, vAuthz
  <2>2. Governed(Joining)
    BY RecordsAssumption DEF Governed
  <2> QED
    BY <1>7, <2>1, <2>2, AuthStep DEF RecordsInv
<1>8. ASSUME part = "tree" PROVE CategoryInv(Rooting)'
  <2>1. Category(Rooting)!Next \/ UNCHANGED <<cats, items, units, trail, txn>>
    BY <1>8 DEF RecordsNext, vAll, vCategories
  <2> QED
    BY <1>8, <2>1, CategoryStep DEF RecordsInv
<1> QED
  BY <1>1, <1>2, <1>3, <1>4, <1>5, <1>6, <1>7, <1>8 DEF RecordsInv

\* The inductive invariant of the parts.
THEOREM RecordsInvariant == RecordsSpec => []RecordsInv
BY RecordsStart, RecordsStep, PTL DEF RecordsSpec

\* The differences that the audit view shows are exact, whatever the depth of
\* the snapshots: they turn what a reader saw before into what is there after,
\* do not overlap, and each names a value that changed.
THEOREM DiffExactHolds == RecordsSpec => []DiffExact
<1>1. RecordsInv => DiffExact
  BY DiffShown, RecordsAssumption DEF RecordsInv, DiffExact
<1> QED
  BY <1>1, RecordsInvariant, PTL

\* No two records share a code, the trail of a record ends with what the API
\* shows, and no category is without its parent, for any number of requests
\* in any order.
THEOREM RecordsTracedHolds == RecordsSpec => []RecordsTraced
<1>1. RecordsInv => RecordsTraced
  BY MasterShown, CategoryTypeOK DEF RecordsInv, RecordsTraced
<1> QED
  BY <1>1, RecordsInvariant, PTL

\* The tree that the API returns holds every category that hangs on a root
\* exactly once, below its parent, for any table of categories, the cycles in
\* it included.
THEOREM TreeShowsRootedHolds == RecordsSpec => []TreeShowsRooted
<1>1. RecordsInv => TreeShowsRooted
  BY CategoryTree, RecordsAssumption DEF RecordsInv, TreeShowsRooted
<1> QED
  BY <1>1, RecordsInvariant, PTL

\* What is allowed is what the roles permit now, and with the names of roles
\* and actions apart all of it is: no thread decides by policies compiled
\* before the roles changed.
THEOREM PermitsExactlyHolds == PoliciesApart(Granting) /\ RecordsSpec => []PermitsExactly
<1>1. CASE PoliciesApart(Granting)
  <2>1. RecordsInv => PermitsExactly
    BY <1>1, AuthTypeOK, AuthGrantedAllowed, AuthOnlyGranted DEF RecordsInv, PermitsExactly
  <2> QED
    BY <2>1, RecordsInvariant, PTL
<1> QED
  BY <1>1
=============================================================================
