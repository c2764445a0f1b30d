------------------------------ MODULE SumLemmas -----------------------------
(***************************************************************************)
(* Sums over finite sets, as the ledgers, documents and invoices of this   *)
(* project use them: SumFunctionOnSet(f, S) of the community modules adds  *)
(* up f[x] for the x in S.  It is defined by a recursive function on the   *)
(* subsets of S that takes out a chosen element; the lemmas say that it    *)
(* exists, and that it does not matter which element is chosen.            *)
(*                                                                         *)
(* The induction is over the size of a set: a smallest set for which the   *)
(* claim fails leads to a contradiction.                                   *)
(***************************************************************************)
EXTENDS Integers, Sequences, FiniteSets, Functions, SequenceTheorems, FiniteSetTheorems, WellFoundedInduction, TLAPS

-----------------------------------------------------------------------------
(* Smallest counterexamples. *)

\* Every set of natural numbers that has a member has a least one.
LEMMA LeastNat ==
    ASSUME NEW B \in SUBSET Nat, B # {}
    PROVE  \E n \in B : \A k \in B : n <= k
<1>1. PICK n \in B : \A k \in B : ~(<<k, n>> \in OpToRel(<, Nat))
  BY NatLessThanWellFounded, WFMin
<1>2. \A k \in B : ~(k < n)
  BY <1>1 DEF OpToRel
<1> QED
  BY <1>2

\* Every collection of subsets of a finite set has one of the smallest size.
LEMMA SmallestSubset ==
    ASSUME NEW S, IsFiniteSet(S), NEW B \in SUBSET (SUBSET S), B # {}
    PROVE  \E t \in B : \A u \in B : Cardinality(t) <= Cardinality(u)
<1>1. PICK C : C = {Cardinality(u) : u \in B}
  OBVIOUS
<1>2. \A u \in B : Cardinality(u) \in Nat
  BY FS_Subset, FS_CardinalityType
<1>3. C \in SUBSET Nat /\ C # {}
  BY <1>1, <1>2
<1>4. PICK n \in C : \A k \in C : n <= k
  BY <1>3, LeastNat
<1> QED
  BY <1>1, <1>4

\* Every collection of subsets of a finite set has a minimal one.
LEMMA MinimalSubset ==
    ASSUME NEW S, IsFiniteSet(S), NEW B \in SUBSET (SUBSET S), B # {}
    PROVE  \E t \in B : \A u \in B : u \subseteq t => u = t
<1>1. PICK t \in B : \A u \in B : Cardinality(t) <= Cardinality(u)
  BY SmallestSubset
<1>2. ASSUME NEW u \in B, u \subseteq t, u # t PROVE FALSE
  <2>1. IsFiniteSet(t)
    BY FS_Subset
  <2>2. Cardinality(u) < Cardinality(t) /\ Cardinality(u) \in Nat /\ Cardinality(t) \in Nat
    BY <1>2, <2>1, FS_Subset, FS_CardinalityType
  <2> QED
    BY <1>1, <2>2
<1> QED
  BY <1>1, <1>2

-----------------------------------------------------------------------------
(* The recursive function behind a sum exists and is unique. *)

Chosen(s) == CHOOSE x \in s : TRUE

\* One step of the recursion, with the results of g.
Unrolled(f, S, g) ==
    [s \in SUBSET S |-> IF s = {} THEN 0 ELSE f[Chosen(s)] + g[s \ {Chosen(s)}]]

Upto(S, n) == {s \in SUBSET S : Cardinality(s) <= n}
Solves(f, S, g, n) == \A s \in Upto(S, n) : g[s] = Unrolled(f, S, g)[s]
Unsolved(f, S) == {n \in Nat : ~\E g \in [SUBSET S -> Int] : Solves(f, S, g, n)}

\* The recursion takes an element out and comes to a smaller set.
LEMMA ChosenLess ==
    ASSUME NEW S, IsFiniteSet(S), NEW s \in SUBSET S, s # {}
    PROVE  /\ Chosen(s) \in s /\ IsFiniteSet(s) /\ s \ {Chosen(s)} \in SUBSET S
           /\ Cardinality(s) \in Nat \ {0}
           /\ Cardinality(s \ {Chosen(s)}) = Cardinality(s) - 1
<1>1. Chosen(s) \in s
  BY DEF Chosen
<1>2. IsFiniteSet(s)
  BY FS_Subset
<1>3. Cardinality(s) \in Nat /\ Cardinality(s) # 0
  BY <1>2, FS_EmptySet, FS_CardinalityType
<1>4. Cardinality(s \ {Chosen(s)}) = Cardinality(s) - 1
  BY <1>1, <1>2, FS_RemoveElement
<1> QED
  BY <1>1, <1>2, <1>3, <1>4

\* A function that solves the recursion for the sets of at most n elements
\* exists for every n.
LEMMA Solvable ==
    ASSUME NEW S, IsFiniteSet(S), NEW f, \A x \in S : f[x] \in Int
    PROVE  \A n \in Nat : \E g \in [SUBSET S -> Int] : Solves(f, S, g, n)
<1>1. SUFFICES ASSUME Unsolved(f, S) # {} PROVE FALSE
  BY DEF Unsolved
<1>2. PICK n \in Unsolved(f, S) : \A k \in Unsolved(f, S) : n <= k
  <2>1. Unsolved(f, S) \in SUBSET Nat
    BY DEF Unsolved
  <2> QED
    BY <2>1, <1>1, LeastNat
<1>3. n \in Nat
  BY DEF Unsolved
<1>4. n # 0
  <2>1. SUFFICES ASSUME n = 0 PROVE \E g \in [SUBSET S -> Int] : Solves(f, S, g, 0)
    BY <1>2 DEF Unsolved
  <2> DEFINE zero == [s \in SUBSET S |-> 0]
  <2>2. ASSUME NEW s \in Upto(S, 0) PROVE s = {} /\ s \in SUBSET S
    <3>1. s \in SUBSET S /\ Cardinality(s) <= 0
      BY DEF Upto
    <3>2. s # {} => Cardinality(s) \in Nat \ {0}
      BY <3>1, ChosenLess
    <3> QED
      BY <3>1, <3>2
  <2>3. Solves(f, S, zero, 0)
    <3>1. ASSUME NEW s \in Upto(S, 0) PROVE zero[s] = Unrolled(f, S, zero)[s]
      BY <2>2 DEF Unrolled
    <3> QED
      BY <3>1 DEF Solves
  <2>4. zero \in [SUBSET S -> Int]
    OBVIOUS
  <2> QED
    BY <2>3, <2>4
<1>5. PICK g \in [SUBSET S -> Int] : Solves(f, S, g, n - 1)
  <2>1. n - 1 \in Nat /\ n - 1 \notin Unsolved(f, S)
    BY <1>2, <1>3, <1>4
  <2> QED
    BY <2>1 DEF Unsolved
<1>6. Unrolled(f, S, g) \in [SUBSET S -> Int]
  <2>1. ASSUME NEW s \in SUBSET S, s # {} PROVE f[Chosen(s)] + g[s \ {Chosen(s)}] \in Int
    <3>1. f[Chosen(s)] \in Int
      BY <2>1, ChosenLess
    <3>2. g[s \ {Chosen(s)}] \in Int
      BY <2>1, ChosenLess
    <3> QED
      BY <3>1, <3>2
  <2>2. \A s \in SUBSET S : (IF s = {} THEN 0 ELSE f[Chosen(s)] + g[s \ {Chosen(s)}]) \in Int
    BY <2>1
  <2> QED
    BY <2>2 DEF Unrolled
<1>7. Solves(f, S, Unrolled(f, S, g), n)
  <2>1. SUFFICES ASSUME NEW s \in Upto(S, n), s # {}
                 PROVE  g[s \ {Chosen(s)}] = Unrolled(f, S, g)[s \ {Chosen(s)}]
    BY DEF Solves, Unrolled, Upto
  <2>2. s \ {Chosen(s)} \in Upto(S, n - 1)
    BY <2>1, <1>3, ChosenLess DEF Upto
  <2> QED
    BY <2>2, <1>5 DEF Solves
<1> QED
  BY <1>6, <1>7, <1>2 DEF Unsolved

\* A function that solves it for all subsets exists.
LEMMA SolutionExists ==
    ASSUME NEW S, IsFiniteSet(S), NEW f, \A x \in S : f[x] \in Int
    PROVE  \E g \in [SUBSET S -> Int] : g = Unrolled(f, S, g)
<1>1. Cardinality(S) \in Nat
  BY FS_CardinalityType
<1>2. PICK g \in [SUBSET S -> Int] : Solves(f, S, g, Cardinality(S))
  BY <1>1, Solvable
<1>3. \A s \in SUBSET S : s \in Upto(S, Cardinality(S))
  BY FS_Subset DEF Upto
<1>4. \A s \in SUBSET S : g[s] = Unrolled(f, S, g)[s]
  BY <1>2, <1>3 DEF Solves
<1>5. g = Unrolled(f, S, g)
  BY <1>4 DEF Unrolled
<1> QED
  BY <1>5

\* Solutions for a set and for a subset of it, of functions that agree on the
\* subset, agree there.
LEMMA SolutionsAgree ==
    ASSUME NEW S, IsFiniteSet(S), NEW T \in SUBSET S,
           NEW f, NEW e, \A x \in T : f[x] = e[x],
           NEW g, g = Unrolled(f, S, g), NEW h, h = Unrolled(e, T, h)
    PROVE  g[T] = h[T]
<1> DEFINE B == {s \in SUBSET T : g[s] # h[s]}
<1>1. SUFFICES ASSUME B # {} PROVE FALSE
  OBVIOUS
<1>2. IsFiniteSet(T)
  BY FS_Subset
<1>3. PICK s \in B : \A u \in B : Cardinality(s) <= Cardinality(u)
  <2>1. B \in SUBSET (SUBSET T)
    OBVIOUS
  <2> HIDE DEF B
  <2> QED
    BY <1>1, <1>2, <2>1, SmallestSubset
<1>4. s \in SUBSET S /\ s \in SUBSET T /\ g[s] # h[s]
  OBVIOUS
<1>5. g[s] = Unrolled(f, S, g)[s] /\ h[s] = Unrolled(e, T, h)[s]
  OBVIOUS
<1>6. s # {}
  BY <1>4, <1>5 DEF Unrolled
<1>7. s \ {Chosen(s)} \notin B
  <2> HIDE DEF B
  <2> QED
    BY <1>2, <1>3, <1>4, <1>6, ChosenLess
<1>8. g[s \ {Chosen(s)}] = h[s \ {Chosen(s)}]
  BY <1>7, <1>4
<1>9. f[Chosen(s)] = e[Chosen(s)]
  BY <1>4, <1>6 DEF Chosen
<1> QED
  BY <1>4, <1>5, <1>6, <1>8, <1>9 DEF Unrolled

\* The sum is the value of such a solution.
LEMMA SumSolution ==
    ASSUME NEW S, IsFiniteSet(S), NEW f, \A x \in S : f[x] \in Int
    PROVE  \E g \in [SUBSET S -> Int] : g = Unrolled(f, S, g) /\ g[S] = SumFunctionOnSet(f, S)
<1>1. SumFunctionOnSet(f, S) = (CHOOSE g : g = Unrolled(f, S, g))[S]
  BY DEF SumFunctionOnSet, FoldFunctionOnSet, MapThenFoldSet, Unrolled, Chosen
<1>2. PICK g \in [SUBSET S -> Int] : g = Unrolled(f, S, g)
  BY SolutionExists
<1>3. PICK h : h = (CHOOSE k : k = Unrolled(f, S, k))
  OBVIOUS
<1>4. h = Unrolled(f, S, h)
  BY <1>2, <1>3
<1>5. g[S] = h[S]
  BY <1>2, <1>4, SolutionsAgree
<1> QED
  BY <1>1, <1>2, <1>3, <1>5

-----------------------------------------------------------------------------
(* What proofs about sums cite. *)

\* Functions that agree on a set have the same sum over it.
LEMMA SumCongruent ==
    ASSUME NEW S, IsFiniteSet(S), NEW f, NEW e, \A x \in S : f[x] \in Int /\ e[x] = f[x]
    PROVE  SumFunctionOnSet(f, S) = SumFunctionOnSet(e, S)
<1>1. PICK g \in [SUBSET S -> Int] : g = Unrolled(f, S, g) /\ g[S] = SumFunctionOnSet(f, S)
  BY SumSolution
<1>2. PICK h \in [SUBSET S -> Int] : h = Unrolled(e, S, h) /\ h[S] = SumFunctionOnSet(e, S)
  BY SumSolution
<1> QED
  BY <1>1, <1>2, SolutionsAgree

\* The sum of integers is an integer.
LEMMA SumInt ==
    ASSUME NEW S, IsFiniteSet(S), NEW f, \A x \in S : f[x] \in Int
    PROVE  SumFunctionOnSet(f, S) \in Int
<1>1. PICK g \in [SUBSET S -> Int] : g = Unrolled(f, S, g) /\ g[S] = SumFunctionOnSet(f, S)
  BY SumSolution
<1> QED
  BY <1>1

\* Nothing adds up to zero.
LEMMA SumEmpty ==
    ASSUME NEW f
    PROVE  SumFunctionOnSet(f, {}) = 0
<1>1. IsFiniteSet({})
  BY FS_EmptySet
<1>2. PICK g \in [SUBSET {} -> Int] : g = Unrolled(f, {}, g) /\ g[{}] = SumFunctionOnSet(f, {})
  BY <1>1, SumSolution
<1>3. g[{}] = Unrolled(f, {}, g)[{}]
  BY <1>2
<1> QED
  BY <1>2, <1>3 DEF Unrolled

\* The element that the recursion takes first.
LEMMA SumChosen ==
    ASSUME NEW S, IsFiniteSet(S), S # {}, NEW f, \A x \in S : f[x] \in Int
    PROVE  SumFunctionOnSet(f, S) = f[Chosen(S)] + SumFunctionOnSet(f, S \ {Chosen(S)})
<1>1. PICK g \in [SUBSET S -> Int] : g = Unrolled(f, S, g) /\ g[S] = SumFunctionOnSet(f, S)
  BY SumSolution
<1> DEFINE T == S \ {Chosen(S)}
<1>2. T \in SUBSET S /\ IsFiniteSet(T)
  BY FS_Subset
<1>3. PICK h \in [SUBSET T -> Int] : h = Unrolled(f, T, h) /\ h[T] = SumFunctionOnSet(f, T)
  <2> HIDE DEF T
  <2> QED
    BY <1>2, SumSolution
<1>4. g[T] = h[T]
  <2> HIDE DEF T
  <2> QED
    BY <1>1, <1>2, <1>3, SolutionsAgree
<1>5. g[S] = Unrolled(f, S, g)[S]
  BY <1>1
<1>6. g[S] = f[Chosen(S)] + g[T]
  BY <1>5 DEF Unrolled
<1> QED
  BY <1>1, <1>3, <1>4, <1>6

\* Any element may be taken first.
LEMMA SumRemove ==
    ASSUME NEW S, IsFiniteSet(S), NEW f, \A x \in S : f[x] \in Int, NEW x \in S
    PROVE  SumFunctionOnSet(f, S) = f[x] + SumFunctionOnSet(f, S \ {x})
<1> DEFINE B == {s \in SUBSET S :
                   \E y \in s : SumFunctionOnSet(f, s) # f[y] + SumFunctionOnSet(f, s \ {y})}
<1>1. SUFFICES ASSUME B # {} PROVE FALSE
  OBVIOUS
<1>2. PICK s \in B : \A u \in B : Cardinality(s) <= Cardinality(u)
  <2>1. B \in SUBSET (SUBSET S)
    OBVIOUS
  <2> HIDE DEF B
  <2> QED
    BY <1>1, <2>1, SmallestSubset
<1>3. s \in SUBSET S
  OBVIOUS
<1>4. PICK y \in s : SumFunctionOnSet(f, s) # f[y] + SumFunctionOnSet(f, s \ {y})
  OBVIOUS
<1>5. PICK c \in s : c = Chosen(s)
  BY <1>4 DEF Chosen
<1>6. SumFunctionOnSet(f, s) = f[c] + SumFunctionOnSet(f, s \ {c})
  <2>1. IsFiniteSet(s)
    BY <1>3, FS_Subset
  <2> QED
    BY <2>1, <1>3, <1>5, SumChosen
<1>7. y # c
  BY <1>4, <1>6
<1>8. /\ IsFiniteSet(s) /\ Cardinality(s) \in Nat
      /\ Cardinality(s \ {c}) = Cardinality(s) - 1 /\ Cardinality(s \ {y}) = Cardinality(s) - 1
  BY <1>3, FS_Subset, FS_RemoveElement, FS_CardinalityType
<1>9. s \ {c} \notin B /\ s \ {y} \notin B
  <2> HIDE DEF B
  <2> QED
    BY <1>2, <1>8
<1>10. SumFunctionOnSet(f, s \ {c}) = f[y] + SumFunctionOnSet(f, (s \ {c}) \ {y})
  BY <1>3, <1>7, <1>9
<1>11. SumFunctionOnSet(f, s \ {y}) = f[c] + SumFunctionOnSet(f, (s \ {y}) \ {c})
  BY <1>3, <1>7, <1>9
<1>12. (s \ {y}) \ {c} = (s \ {c}) \ {y}
  OBVIOUS
<1>13. SumFunctionOnSet(f, (s \ {c}) \ {y}) \in Int
  <2>1. IsFiniteSet((s \ {c}) \ {y}) /\ \A z \in (s \ {c}) \ {y} : f[z] \in Int
    BY <1>3, <1>8, FS_Subset
  <2> QED
    BY <2>1, SumInt
<1>14. f[c] \in Int /\ f[y] \in Int
  BY <1>3
<1> QED
  BY <1>4, <1>6, <1>10, <1>11, <1>12, <1>13, <1>14

\* An element more adds its value.
LEMMA SumAdd ==
    ASSUME NEW S, IsFiniteSet(S), NEW f, \A x \in S : f[x] \in Int,
           NEW x, x \notin S, f[x] \in Int
    PROVE  /\ SumFunctionOnSet(f, S \cup {x}) = f[x] + SumFunctionOnSet(f, S)
           /\ IsFiniteSet(S \cup {x})
<1>1. IsFiniteSet(S \cup {x})
  BY FS_AddElement
<1>2. (S \cup {x}) \ {x} = S /\ \A y \in S \cup {x} : f[y] \in Int
  OBVIOUS
<1>3. SumFunctionOnSet(f, S \cup {x}) = f[x] + SumFunctionOnSet(f, (S \cup {x}) \ {x})
  BY <1>1, <1>2, SumRemove
<1> QED
  BY <1>1, <1>2, <1>3

\* The same where the function is another one on the larger set.
LEMMA SumExtended ==
    ASSUME NEW S, NEW x, NEW f, NEW e, IsFiniteSet(S), x \notin S,
           \A y \in S : f[y] \in Int /\ e[y] = f[y], e[x] \in Int
    PROVE  SumFunctionOnSet(e, S \cup {x}) = SumFunctionOnSet(f, S) + e[x]
<1>1. \A y \in S : e[y] \in Int
  OBVIOUS
<1>2. /\ SumFunctionOnSet(e, S \cup {x}) = e[x] + SumFunctionOnSet(e, S)
      /\ IsFiniteSet(S \cup {x})
  BY <1>1, SumAdd
<1>3. SumFunctionOnSet(e, S) = SumFunctionOnSet(f, S) /\ SumFunctionOnSet(f, S) \in Int
  BY SumCongruent, SumInt
<1> QED
  BY <1>2, <1>3

\* The same for one position more.
LEMMA SumNext ==
    ASSUME NEW n \in Nat, NEW f, NEW e, \A k \in 1..n : f[k] \in Int /\ e[k] = f[k], e[n + 1] \in Int
    PROVE  SumFunctionOnSet(e, 1..(n + 1)) = SumFunctionOnSet(f, 1..n) + e[n + 1]
<1> DEFINE D == 1..n
<1>1. PICK m : m = n + 1
  OBVIOUS
<1>2. IsFiniteSet(D) /\ m \notin D /\ e[m] \in Int /\ \A k \in D : f[k] \in Int /\ e[k] = f[k]
  BY <1>1, FS_Interval
<1>3. 1..(n + 1) = D \cup {m}
  BY <1>1
<1> HIDE DEF D
<1>4. SumFunctionOnSet(e, D \cup {m}) = SumFunctionOnSet(f, D) + e[m]
  <2>1. SumFunctionOnSet(e, D) = SumFunctionOnSet(f, D) /\ SumFunctionOnSet(e, D) \in Int
    BY <1>2, SumCongruent, SumInt
  <2>2. SumFunctionOnSet(e, D \cup {m}) = e[m] + SumFunctionOnSet(e, D)
    BY <1>2, SumAdd
  <2> QED
    BY <1>2, <2>1, <2>2
<1>5. SumFunctionOnSet(e, 1..(n + 1)) = SumFunctionOnSet(e, D \cup {m})
  BY <1>3, Zenon
<1> QED
  BY <1>1, <1>4, <1>5 DEF D

\* Where two functions differ at one element only, so do their sums.
LEMMA SumUpdate ==
    ASSUME NEW S, IsFiniteSet(S), NEW f, \A x \in S : f[x] \in Int,
           NEW x \in S, NEW e, e[x] \in Int, \A y \in S \ {x} : e[y] = f[y]
    PROVE  SumFunctionOnSet(e, S) = SumFunctionOnSet(f, S) - f[x] + e[x]
<1>1. IsFiniteSet(S \ {x}) /\ \A y \in S : e[y] \in Int
  BY FS_Subset
<1>2. SumFunctionOnSet(f, S \ {x}) = SumFunctionOnSet(e, S \ {x})
  <2>1. \A y \in S \ {x} : f[y] \in Int /\ e[y] = f[y]
    OBVIOUS
  <2> QED
    BY <1>1, <2>1, SumCongruent
<1>3. SumFunctionOnSet(f, S) = f[x] + SumFunctionOnSet(f, S \ {x})
  BY SumRemove
<1>4. SumFunctionOnSet(e, S) = e[x] + SumFunctionOnSet(e, S \ {x})
  BY <1>1, SumRemove
<1>5. SumFunctionOnSet(f, S \ {x}) \in Int /\ f[x] \in Int
  BY <1>1, SumInt
<1> QED
  BY <1>2, <1>3, <1>4, <1>5

\* A function that is zero everywhere adds up to zero.
LEMMA SumZero ==
    ASSUME NEW S, IsFiniteSet(S), NEW f, \A x \in S : f[x] = 0
    PROVE  SumFunctionOnSet(f, S) = 0
<1> DEFINE B == {s \in SUBSET S : SumFunctionOnSet(f, s) # 0}
<1>1. SUFFICES ASSUME B # {} PROVE FALSE
  OBVIOUS
<1>2. PICK s \in B : \A u \in B : Cardinality(s) <= Cardinality(u)
  <2>1. B \in SUBSET (SUBSET S)
    OBVIOUS
  <2> HIDE DEF B
  <2> QED
    BY <1>1, <2>1, SmallestSubset
<1>3. s \in SUBSET S /\ SumFunctionOnSet(f, s) # 0
  OBVIOUS
<1>4. s # {}
  BY <1>3, SumEmpty
<1>5. s \ {Chosen(s)} \notin B
  <2> HIDE DEF B
  <2> QED
    BY <1>2, <1>3, <1>4, ChosenLess
<1>6. SumFunctionOnSet(f, s \ {Chosen(s)}) = 0 /\ f[Chosen(s)] = 0
  BY <1>3, <1>4, <1>5, ChosenLess
<1>7. SumFunctionOnSet(f, s) = f[Chosen(s)] + SumFunctionOnSet(f, s \ {Chosen(s)})
  <2>1. IsFiniteSet(s) /\ \A x \in s : f[x] \in Int
    BY <1>3, FS_Subset
  <2> QED
    BY <2>1, <1>4, SumChosen
<1> QED
  BY <1>3, <1>6, <1>7

\* A larger function has a larger sum.
LEMMA SumMonotonic ==
    ASSUME NEW S, IsFiniteSet(S), NEW f, NEW e,
           \A x \in S : f[x] \in Int /\ e[x] \in Int /\ f[x] <= e[x]
    PROVE  SumFunctionOnSet(f, S) <= SumFunctionOnSet(e, S)
<1> DEFINE B == {s \in SUBSET S : ~(SumFunctionOnSet(f, s) <= SumFunctionOnSet(e, s))}
<1>1. SUFFICES ASSUME B # {} PROVE FALSE
  OBVIOUS
<1>2. PICK s \in B : \A u \in B : Cardinality(s) <= Cardinality(u)
  <2>1. B \in SUBSET (SUBSET S)
    OBVIOUS
  <2> HIDE DEF B
  <2> QED
    BY <1>1, <2>1, SmallestSubset
<1>3. s \in SUBSET S /\ ~(SumFunctionOnSet(f, s) <= SumFunctionOnSet(e, s))
  OBVIOUS
<1>4. s # {}
  BY <1>3, SumEmpty
<1>5. PICK t : t = s \ {Chosen(s)}
  OBVIOUS
<1>6. IsFiniteSet(s) /\ IsFiniteSet(t) /\ t \in SUBSET S /\ Chosen(s) \in s
  BY <1>3, <1>4, <1>5, ChosenLess, FS_Subset
<1>7. SumFunctionOnSet(f, t) <= SumFunctionOnSet(e, t)
  <2>1. t \notin B
    <3> HIDE DEF B
    <3> QED
      BY <1>2, <1>3, <1>4, <1>5, ChosenLess
  <2> QED
    BY <2>1, <1>6
<1>8. SumFunctionOnSet(f, s) = f[Chosen(s)] + SumFunctionOnSet(f, t)
  BY <1>3, <1>4, <1>5, <1>6, SumChosen
<1>9. SumFunctionOnSet(e, s) = e[Chosen(s)] + SumFunctionOnSet(e, t)
  BY <1>3, <1>4, <1>5, <1>6, SumChosen
<1>10. SumFunctionOnSet(f, t) \in Int /\ SumFunctionOnSet(e, t) \in Int
  <2>1. \A x \in t : f[x] \in Int /\ e[x] \in Int
    BY <1>6
  <2> QED
    BY <2>1, <1>6, SumInt
<1> QED
  BY <1>3, <1>6, <1>7, <1>8, <1>9, <1>10

\* The sum of natural numbers is one.
LEMMA SumNat ==
    ASSUME NEW S, IsFiniteSet(S), NEW f, \A x \in S : f[x] \in Nat
    PROVE  SumFunctionOnSet(f, S) \in Nat
<1> DEFINE zero == [x \in S |-> 0]
<1>1. SumFunctionOnSet(zero, S) = 0
  BY SumZero
<1>2. SumFunctionOnSet(zero, S) <= SumFunctionOnSet(f, S)
  BY SumMonotonic
<1>3. SumFunctionOnSet(f, S) \in Int
  BY SumInt
<1> QED
  BY <1>1, <1>2, <1>3

\* The sum of two functions.
LEMMA SumPlus ==
    ASSUME NEW S, IsFiniteSet(S), NEW f, NEW e, NEW g,
           \A x \in S : f[x] \in Int /\ e[x] \in Int /\ g[x] = f[x] + e[x]
    PROVE  SumFunctionOnSet(g, S) = SumFunctionOnSet(f, S) + SumFunctionOnSet(e, S)
<1> DEFINE B == {s \in SUBSET S :
                   SumFunctionOnSet(g, s) # SumFunctionOnSet(f, s) + SumFunctionOnSet(e, s)}
<1>1. SUFFICES ASSUME B # {} PROVE FALSE
  OBVIOUS
<1>2. PICK s \in B : \A u \in B : Cardinality(s) <= Cardinality(u)
  <2>1. B \in SUBSET (SUBSET S)
    OBVIOUS
  <2> HIDE DEF B
  <2> QED
    BY <1>1, <2>1, SmallestSubset
<1>3. s \in SUBSET S /\ SumFunctionOnSet(g, s) # SumFunctionOnSet(f, s) + SumFunctionOnSet(e, s)
  OBVIOUS
<1>4. s # {}
  <2> SUFFICES ASSUME s = {} PROVE FALSE
    OBVIOUS
  <2> HIDE DEF B
  <2>1. SumFunctionOnSet(f, s) = 0 /\ SumFunctionOnSet(e, s) = 0 /\ SumFunctionOnSet(g, s) = 0
    BY SumEmpty, Zenon
  <2> QED
    BY <1>3, <2>1
<1>5. PICK x \in s : x = Chosen(s)
  BY <1>4 DEF Chosen
<1>6. PICK t : t = s \ {x}
  OBVIOUS
<1>7. IsFiniteSet(s) /\ IsFiniteSet(t) /\ t \in SUBSET S
  BY <1>3, <1>6, FS_Subset
<1>8. SumFunctionOnSet(g, t) = SumFunctionOnSet(f, t) + SumFunctionOnSet(e, t)
  <2>1. t \notin B
    <3> HIDE DEF B
    <3> QED
      BY <1>2, <1>3, <1>4, <1>5, <1>6, ChosenLess
  <2> QED
    BY <2>1, <1>7
<1> HIDE DEF B
<1>9. \A y \in s : f[y] \in Int /\ e[y] \in Int /\ g[y] \in Int /\ g[y] = f[y] + e[y]
  BY <1>3
<1>10. SumFunctionOnSet(f, s) = f[x] + SumFunctionOnSet(f, t)
  BY <1>4, <1>5, <1>6, <1>7, <1>9, SumChosen
<1>11. SumFunctionOnSet(e, s) = e[x] + SumFunctionOnSet(e, t)
  BY <1>4, <1>5, <1>6, <1>7, <1>9, SumChosen
<1>12. SumFunctionOnSet(g, s) = g[x] + SumFunctionOnSet(g, t)
  BY <1>4, <1>5, <1>6, <1>7, <1>9, SumChosen
<1>13. SumFunctionOnSet(f, t) \in Int /\ SumFunctionOnSet(e, t) \in Int
  <2>1. \A y \in t : f[y] \in Int /\ e[y] \in Int
    BY <1>6, <1>9
  <2> QED
    BY <1>7, <2>1, SumInt
<1> QED
  BY <1>3, <1>8, <1>9, <1>10, <1>11, <1>12, <1>13

\* K are the classes of S by the key h, and e what f adds up to in each of them.
Classified(S, M, h, K) == \A m \in M : K[m] \in SUBSET S /\ \A x \in S : x \in K[m] <=> h[x] = m
ClassSums(M, f, K, e) == \A m \in M : e[m] = SumFunctionOnSet(f, K[m])

\* The sums over the classes of a partition add up to the sum of all.
LEMMA SumPartition ==
    ASSUME NEW S, NEW M, NEW f, NEW e, NEW h, NEW K, IsFiniteSet(S), IsFiniteSet(M),
           \A x \in S : f[x] \in Int /\ h[x] \in M, Classified(S, M, h, K), ClassSums(M, f, K, e)
    PROVE  SumFunctionOnSet(e, M) = SumFunctionOnSet(f, S)
<1> DEFINE part(s) == [m \in M |-> SumFunctionOnSet(f, {x \in s : h[x] = m})]
           B == {s \in SUBSET S : SumFunctionOnSet(part(s), M) # SumFunctionOnSet(f, s)}
<1>1. SUFFICES ASSUME B # {} PROVE FALSE
  <2>1. ASSUME NEW m \in M PROVE part(S)[m] \in Int /\ e[m] = part(S)[m]
    <3> DEFINE u == {x \in S : h[x] = m}
    <3>1. K[m] = u /\ part(S)[m] = SumFunctionOnSet(f, u) /\ u \in SUBSET S /\ e[m] = SumFunctionOnSet(f, K[m])
      BY DEF Classified, ClassSums
    <3>2. IsFiniteSet(u) /\ \A x \in u : f[x] \in Int
      BY FS_Subset
    <3> HIDE DEF u, part
    <3>3. SumFunctionOnSet(f, u) \in Int
      BY <3>2, SumInt
    <3> QED
      BY <3>1, <3>3
  <2>2. PICK p : p = part(S)
    OBVIOUS
  <2>3. \A m \in M : p[m] \in Int /\ e[m] = p[m]
    BY <2>1, <2>2
  <2>4. SumFunctionOnSet(p, M) = SumFunctionOnSet(e, M)
    <3> HIDE DEF part, B
    <3> QED
      BY <2>3, SumCongruent
  <2>5. B = {} => SumFunctionOnSet(p, M) = SumFunctionOnSet(f, S)
    BY <2>2
  <2> HIDE DEF part, B
  <2> QED
    BY <2>4, <2>5
<1>2. PICK s \in B : \A u \in B : Cardinality(s) <= Cardinality(u)
  <2>1. B \in SUBSET (SUBSET S)
    OBVIOUS
  <2> HIDE DEF B
  <2> QED
    BY <1>1, <2>1, SmallestSubset
<1>3. s \in SUBSET S /\ SumFunctionOnSet(part(s), M) # SumFunctionOnSet(f, s)
  OBVIOUS
<1>4. s # {}
  <2>1. \A m \in M : part({})[m] = 0
    BY SumEmpty
  <2>2. SumFunctionOnSet(part({}), M) = 0 /\ SumFunctionOnSet(f, {}) = 0
    <3> HIDE DEF part
    <3> QED
      BY <2>1, SumZero, SumEmpty
  <2> QED
    BY <1>3, <2>2
<1>5. PICK x \in s : x = Chosen(s)
  BY <1>4 DEF Chosen
<1>6. PICK t : t = s \ {x}
  OBVIOUS
<1>7. /\ IsFiniteSet(s) /\ IsFiniteSet(t) /\ t \in SUBSET S /\ x \notin t /\ s = t \cup {x}
      /\ h[x] \in M /\ f[x] \in Int
  BY <1>3, <1>6, FS_Subset
<1>8. SumFunctionOnSet(part(t), M) = SumFunctionOnSet(f, t)
  <2>1. t \notin B
    <3> HIDE DEF B
    <3> QED
      BY <1>2, <1>3, <1>4, <1>5, <1>6, ChosenLess
  <2> QED
    BY <2>1, <1>7
<1>9. ASSUME NEW m \in M
      PROVE  /\ part(t)[m] \in Int
             /\ part(s)[m] = IF m = h[x] THEN part(t)[m] + f[x] ELSE part(t)[m]
  <2> DEFINE u == {y \in t : h[y] = m}
  <2>1. IsFiniteSet(u) /\ x \notin u /\ \A y \in u : f[y] \in Int
    BY <1>7, FS_Subset
  <2>2. part(t)[m] = SumFunctionOnSet(f, u)
    OBVIOUS
  <2>3. CASE m = h[x]
    <3>1. {y \in s : h[y] = m} = u \cup {x}
      BY <1>7, <2>3
    <3>2. part(s)[m] = SumFunctionOnSet(f, u \cup {x})
      BY <3>1
    <3> HIDE DEF u, part
    <3>3. SumFunctionOnSet(f, u \cup {x}) = f[x] + SumFunctionOnSet(f, u) /\ SumFunctionOnSet(f, u) \in Int
      BY <1>7, <2>1, SumAdd, SumInt
    <3> QED
      BY <1>7, <2>2, <2>3, <3>2, <3>3
  <2>4. CASE m # h[x]
    <3>1. {y \in s : h[y] = m} = u
      BY <1>7, <2>4
    <3>2. part(s)[m] = SumFunctionOnSet(f, u)
      BY <3>1
    <3> HIDE DEF u, part
    <3>3. SumFunctionOnSet(f, u) \in Int
      BY <2>1, SumInt
    <3> QED
      BY <2>2, <2>4, <3>2, <3>3
  <2> QED
    BY <2>3, <2>4
<1>10. PICK p, q : p = part(t) /\ q = part(s)
  OBVIOUS
<1>11. SumFunctionOnSet(q, M) = SumFunctionOnSet(p, M) - p[h[x]] + q[h[x]]
  <2> HIDE DEF part, B
  <2>1. \A m \in M : p[m] \in Int /\ q[m] = IF m = h[x] THEN p[m] + f[x] ELSE p[m]
    <3> SUFFICES ASSUME NEW m \in M
                 PROVE  p[m] \in Int /\ q[m] = IF m = h[x] THEN p[m] + f[x] ELSE p[m]
      OBVIOUS
    <3> QED
      BY <1>9, <1>10
  <2>2. /\ \A m \in M : p[m] \in Int
        /\ q[h[x]] \in Int /\ \A m \in M \ {h[x]} : q[m] = p[m]
    BY <1>7, <2>1
  <2> QED
    BY <1>7, <2>2, SumUpdate
<1>12. q[h[x]] = p[h[x]] + f[x] /\ p[h[x]] \in Int
  BY <1>7, <1>9, <1>10
<1>13. SumFunctionOnSet(f, s) = f[x] + SumFunctionOnSet(f, t) /\ SumFunctionOnSet(f, t) \in Int
  <2>1. \A y \in t : f[y] \in Int
    BY <1>7
  <2> HIDE DEF part, B
  <2> QED
    BY <1>7, <2>1, SumAdd, SumInt
<1> QED
  BY <1>3, <1>7, <1>8, <1>10, <1>11, <1>12, <1>13

\* The values that f takes at the images of the members of T under m, which
\* keeps them apart, are u times those of g.
Scales(T, m, f, u, g) ==
    /\ \A x \in T : g[x] \in Int /\ f[m[x]] = u * g[x]
    /\ \A x, y \in T : m[x] = m[y] => x = y

\* A common factor can be taken out of a sum, whatever the elements are called.
LEMMA SumScaled ==
    ASSUME NEW T, IsFiniteSet(T), NEW m, NEW f, NEW g, NEW u \in Int, Scales(T, m, f, u, g)
    PROVE  SumFunctionOnSet(f, {m[x] : x \in T}) = u * SumFunctionOnSet(g, T)
<1> DEFINE im(s) == {m[x] : x \in s}
           B == {s \in SUBSET T : ~(IsFiniteSet(im(s))
                                     /\ SumFunctionOnSet(f, im(s)) = u * SumFunctionOnSet(g, s))}
<1>1. SUFFICES ASSUME B # {} PROVE FALSE
  OBVIOUS
<1>2. PICK s \in B : \A t \in B : Cardinality(s) <= Cardinality(t)
  <2>1. B \in SUBSET (SUBSET T)
    OBVIOUS
  <2> HIDE DEF B
  <2> QED
    BY <1>1, <2>1, SmallestSubset
<1>3. s \in SUBSET T /\ ~(IsFiniteSet(im(s)) /\ SumFunctionOnSet(f, im(s)) = u * SumFunctionOnSet(g, s))
  OBVIOUS
<1>4. s # {}
  <2>1. SUFFICES ASSUME s = {} PROVE FALSE
    OBVIOUS
  <2>2. im(s) = {}
    BY <2>1
  <2>3. SumFunctionOnSet(f, im(s)) = 0 /\ SumFunctionOnSet(g, s) = 0
    <3> HIDE DEF im
    <3> QED
      BY <2>1, <2>2, SumEmpty
  <2>4. IsFiniteSet(im(s))
    BY <2>2, FS_EmptySet
  <2> QED
    BY <1>3, <2>3, <2>4
<1>5. PICK x : x = Chosen(s)
  OBVIOUS
<1>6. x \in s /\ s \ {x} \notin B /\ s \ {x} \in SUBSET T /\ IsFiniteSet(s)
  <2>1. /\ x \in s /\ s \ {x} \in SUBSET T /\ IsFiniteSet(s) /\ Cardinality(s) \in Nat
        /\ Cardinality(s \ {x}) = Cardinality(s) - 1
    BY <1>3, <1>4, <1>5, ChosenLess
  <2> HIDE DEF B
  <2> QED
    BY <1>2, <2>1
<1>7. SumFunctionOnSet(f, im(s \ {x})) = u * SumFunctionOnSet(g, s \ {x}) /\ IsFiniteSet(im(s \ {x}))
  BY <1>6
<1>8. SumFunctionOnSet(g, s) = g[x] + SumFunctionOnSet(g, s \ {x}) /\ SumFunctionOnSet(g, s \ {x}) \in Int
  <2>1. \A y \in s : g[y] \in Int
    BY <1>3 DEF Scales
  <2>2. IsFiniteSet(s \ {x}) /\ \A y \in s \ {x} : g[y] \in Int
    BY <1>6, <2>1, FS_Subset
  <2> QED
    BY <1>6, <2>1, <2>2, SumRemove, SumInt
<1>10. im(s) = im(s \ {x}) \cup {m[x]} /\ m[x] \notin im(s \ {x})
  BY <1>3, <1>6 DEF Scales
<1>11. (\A y \in im(s \ {x}) : f[y] \in Int) /\ f[m[x]] \in Int /\ f[m[x]] = u * g[x] /\ g[x] \in Int
  BY <1>3, <1>6 DEF Scales
<1>12. SumFunctionOnSet(f, im(s)) = f[m[x]] + SumFunctionOnSet(f, im(s \ {x})) /\ IsFiniteSet(im(s))
  <2> HIDE DEF im
  <2>1. PICK r, y, q : r = im(s \ {x}) /\ y = m[x] /\ q = im(s)
    OBVIOUS
  <2>2. IsFiniteSet(r) /\ y \notin r /\ f[y] \in Int /\ \A z \in r : f[z] \in Int
    BY <1>7, <1>10, <1>11, <2>1
  <2>3. SumFunctionOnSet(f, r \cup {y}) = f[y] + SumFunctionOnSet(f, r) /\ IsFiniteSet(r \cup {y})
    BY <2>2, SumAdd
  <2>4. q = r \cup {y}
    BY <1>10, <2>1
  <2> QED
    BY <2>1, <2>3, <2>4
<1>13. SumFunctionOnSet(f, im(s)) = u * g[x] + u * SumFunctionOnSet(g, s \ {x})
  BY <1>7, <1>11, <1>12
<1>14. u * (g[x] + SumFunctionOnSet(g, s \ {x})) = u * g[x] + u * SumFunctionOnSet(g, s \ {x})
  BY <1>8, <1>11
<1> QED
  BY <1>3, <1>8, <1>12, <1>13, <1>14

\* The sum over two sets without common elements.
LEMMA SumJoined ==
    ASSUME NEW S, NEW T, IsFiniteSet(S), IsFiniteSet(T), S \cap T = {}, NEW f, \A x \in S \cup T : f[x] \in Int
    PROVE  SumFunctionOnSet(f, S \cup T) = SumFunctionOnSet(f, S) + SumFunctionOnSet(f, T)
<1> DEFINE B == {s \in SUBSET T : SumFunctionOnSet(f, S \cup s)
                                    # SumFunctionOnSet(f, S) + SumFunctionOnSet(f, s)}
<1>1. SUFFICES ASSUME B # {} PROVE FALSE
  OBVIOUS
<1>2. PICK s \in B : \A t \in B : Cardinality(s) <= Cardinality(t)
  <2>1. B \in SUBSET (SUBSET T)
    OBVIOUS
  <2> HIDE DEF B
  <2> QED
    BY <1>1, <2>1, SmallestSubset
<1>3. s \in SUBSET T
      /\ SumFunctionOnSet(f, S \cup s) # SumFunctionOnSet(f, S) + SumFunctionOnSet(f, s)
  OBVIOUS
<1>4. SumFunctionOnSet(f, S) \in Int
  BY SumInt
<1>5. s # {}
  <2>1. SUFFICES ASSUME s = {} PROVE FALSE
    OBVIOUS
  <2>2. S \cup s = S
    BY <2>1
  <2>3. SumFunctionOnSet(f, s) = 0
    BY <2>1, SumEmpty
  <2>4. SumFunctionOnSet(f, S \cup s) = SumFunctionOnSet(f, S)
    BY <2>2, Zenon
  <2> QED
    BY <1>3, <1>4, <2>3, <2>4
<1>6. PICK x : x = Chosen(s)
  OBVIOUS
<1>7. x \in s /\ s \ {x} \notin B /\ s \ {x} \in SUBSET T /\ IsFiniteSet(s)
  <2>1. /\ x \in s /\ s \ {x} \in SUBSET T /\ IsFiniteSet(s) /\ Cardinality(s) \in Nat
        /\ Cardinality(s \ {x}) = Cardinality(s) - 1
    BY <1>3, <1>5, <1>6, ChosenLess
  <2> HIDE DEF B
  <2> QED
    BY <1>2, <2>1
<1>8. SumFunctionOnSet(f, S \cup (s \ {x})) = SumFunctionOnSet(f, S) + SumFunctionOnSet(f, s \ {x})
  BY <1>7
<1>9. SumFunctionOnSet(f, s) = f[x] + SumFunctionOnSet(f, s \ {x}) /\ SumFunctionOnSet(f, s \ {x}) \in Int
  <2>1. IsFiniteSet(s \ {x}) /\ \A y \in s \ {x} : f[y] \in Int
    BY <1>3, <1>7, FS_Subset
  <2>2. \A y \in s : f[y] \in Int
    BY <1>3
  <2> QED
    BY <1>7, <2>1, <2>2, SumRemove, SumInt
<1>10. SumFunctionOnSet(f, S \cup s) = f[x] + SumFunctionOnSet(f, S \cup (s \ {x}))
  <2>1. PICK r : r = S \cup (s \ {x})
    OBVIOUS
  <2>2. IsFiniteSet(r) /\ x \notin r /\ r \cup {x} = S \cup s /\ f[x] \in Int /\ \A y \in r : f[y] \in Int
    <3>1. IsFiniteSet(s \ {x})
      BY <1>7, FS_Subset
    <3>2. IsFiniteSet(r)
      BY <2>1, <3>1, FS_Union
    <3> QED
      BY <1>3, <1>7, <2>1, <3>2
  <2>3. SumFunctionOnSet(f, r \cup {x}) = f[x] + SumFunctionOnSet(f, r)
    BY <2>2, SumAdd
  <2> QED
    BY <2>1, <2>2, <2>3
<1>11. f[x] \in Int
  BY <1>3, <1>7
<1> QED
  BY <1>3, <1>4, <1>8, <1>9, <1>10, <1>11

\* Every member of S with every member of T, and d between them.
Pairs(S, T, d) == {<<<<p[1], d>>, p[2]>> : p \in S \X T}
Multiplies(S, T, d, f, v, g) ==
    \A l \in S, k \in T : v[l] \in Int /\ g[k] \in Int /\ f[<<<<l, d>>, k>>] = v[l] * g[k]

\* Where each pair counts the product of what its members count, all pairs
\* together count the product of the sums.
LEMMA SumPaired ==
    ASSUME NEW S, NEW T, IsFiniteSet(S), IsFiniteSet(T), NEW d, NEW f, NEW v, NEW g,
           (\A l \in S : v[l] \in Int) /\ (\A k \in T : g[k] \in Int),
           Multiplies(S, T, d, f, v, g), NEW P, P = Pairs(S, T, d)
    PROVE  SumFunctionOnSet(f, P) = SumFunctionOnSet(g, T) * SumFunctionOnSet(v, S)
<1> USE DEF Pairs, Multiplies
<1>1. PICK h : h = [x \in P |-> x[1][1]]
  OBVIOUS
<1>2. PICK K : K = [l \in S |-> {x \in P : h[x] = l}]
  OBVIOUS
<1>3. PICK e : e = [l \in S |-> SumFunctionOnSet(f, K[l])]
  OBVIOUS
<1>4. ASSUME NEW x \in P
      PROVE  x[1][1] \in S /\ x[2] \in T /\ x = <<<<x[1][1], d>>, x[2]>>
  OBVIOUS
<1>5. SumFunctionOnSet(g, T) \in Int
  BY SumInt
<1>6. ASSUME NEW l \in S PROVE e[l] = v[l] * SumFunctionOnSet(g, T) /\ e[l] \in Int
  <2>1. PICK m : m = [k \in T |-> <<<<l, d>>, k>>]
    OBVIOUS
  <2>2. K[l] = {m[k] : k \in T}
    <3>1. ASSUME NEW x \in K[l] PROVE x \in {m[k] : k \in T}
      BY <1>1, <1>2, <1>4, <2>1, <3>1
    <3>2. ASSUME NEW k \in T PROVE m[k] \in K[l]
      <4>1. <<l, k>> \in S \X T /\ m[k] = <<<<l, d>>, k>>
        BY <2>1
      <4>2. m[k] \in P
        BY <4>1
      <4> QED
        BY <1>1, <1>2, <4>1, <4>2
    <3> QED
      BY <3>1, <3>2
  <2>3. Scales(T, m, f, v[l], g)
    BY <2>1 DEF Scales
  <2>4. v[l] \in Int
    OBVIOUS
  <2>5. SumFunctionOnSet(f, {m[k] : k \in T}) = v[l] * SumFunctionOnSet(g, T)
    BY <2>3, <2>4, SumScaled
  <2>6. e[l] = SumFunctionOnSet(f, {m[k] : k \in T})
    BY <1>3, <2>2
  <2>7. \A a1, a2 \in Int : a1 * a2 \in Int
    OBVIOUS
  <2> QED
    BY <1>5, <2>4, <2>5, <2>6, <2>7
<1>7. IsFiniteSet(P)
  <2>1. IsFiniteSet(S \X T)
    BY FS_Product
  <2>2. PICK m : m = [p \in S \X T |-> <<<<p[1], d>>, p[2]>>]
    OBVIOUS
  <2>3. m \in Surjection(S \X T, P)
    BY <2>2 DEF Surjection
  <2> QED
    BY <2>1, <2>3, FS_Surjection
<1>8. \A x \in P : f[x] \in Int /\ h[x] \in S
  <2>1. \A a1, a2 \in Int : a1 * a2 \in Int
    OBVIOUS
  <2> QED
    BY <1>1, <1>4, <2>1
<1>9. Classified(P, S, h, K) /\ ClassSums(S, f, K, e)
  BY <1>2, <1>3 DEF Classified, ClassSums
<1>10. SumFunctionOnSet(e, S) = SumFunctionOnSet(f, P)
  BY <1>7, <1>8, <1>9, SumPartition
<1>11. PICK id : id = [l \in S |-> l]
  OBVIOUS
<1>12. Scales(S, id, e, SumFunctionOnSet(g, T), v)
  <2>1. \A a1, a2 \in Int : a1 * a2 = a2 * a1
    OBVIOUS
  <2>2. \A l \in S : v[l] \in Int /\ e[id[l]] = SumFunctionOnSet(g, T) * v[l]
    BY <1>5, <1>6, <1>11, <2>1
  <2> QED
    BY <1>11, <2>2 DEF Scales
<1>13. {id[l] : l \in S} = S
  BY <1>11
<1>14. SumFunctionOnSet(e, {id[l] : l \in S}) = SumFunctionOnSet(g, T) * SumFunctionOnSet(v, S)
  BY <1>5, <1>12, SumScaled
<1> QED
  BY <1>10, <1>13, <1>14

-----------------------------------------------------------------------------
(* Lists of document lines, and the quantities that some of them move. *)

ListsOf(n, S) == UNION {[1..m -> S] : m \in 1..n}
Move(ls, K) == SumFunctionOnSet([j \in K |-> ls[j].quantity], K)

\* A list is a sequence of its lines.
LEMMA ListShape ==
    ASSUME NEW n \in Nat, NEW S, NEW ls \in ListsOf(n, S)
    PROVE  /\ \E m \in 1..n : ls \in [1..m -> S]
           /\ IsFiniteSet(DOMAIN ls) /\ DOMAIN ls \in SUBSET (1..n)
           /\ \A j \in DOMAIN ls : ls[j] \in S
           /\ ls \in Seq(S)
<1>1. PICK m \in 1..n : ls \in [1..m -> S]
  BY DEF ListsOf
<1>2. m \in Nat /\ DOMAIN ls = 1..m /\ IsFiniteSet(1..m)
  BY <1>1, FS_Interval
<1>3. ls \in Seq(S)
  BY <1>1, <1>2, SeqDef
<1> QED
  BY <1>1, <1>2, <1>3

\* Lines move integers.
LEMMA MoveInt ==
    ASSUME NEW ls, IsFiniteSet(DOMAIN ls), \A j \in DOMAIN ls : ls[j].quantity \in Int,
           NEW K \in SUBSET DOMAIN ls
    PROVE  Move(ls, K) \in Int /\ IsFiniteSet(K)
<1> DEFINE f == [j \in K |-> ls[j].quantity]
<1>1. IsFiniteSet(K)
  BY FS_Subset
<1>2. \A j \in K : f[j] \in Int
  OBVIOUS
<1>3. SumFunctionOnSet(f, K) \in Int
  <2> HIDE DEF f
  <2> QED
    BY <1>1, <1>2, SumInt
<1> QED
  BY <1>1, <1>3 DEF Move

\* No lines move nothing.
LEMMA MoveNothing == ASSUME NEW ls PROVE Move(ls, {}) = 0
BY SumEmpty DEF Move

\* A set of positions that is not empty has a last one.
LEMMA LastPosition ==
    ASSUME NEW n \in Nat, NEW K \in SUBSET (1..n), K # {}
    PROVE  \E k \in K : \A j \in K : j <= k
<1>1. {n - k : k \in K} \in SUBSET Nat /\ {n - k : k \in K} # {}
  <2>1. \A k \in K : n - k \in Nat
    <3>1. \A k \in K : k \in 1..n
      OBVIOUS
    <3> QED
      BY <3>1
  <2> QED
    BY <2>1
<1>2. PICK d \in {n - k : k \in K} : \A e \in {n - k : k \in K} : d <= e
  BY <1>1, LeastNat
<1>3. PICK k \in K : d = n - k
  BY <1>2
<1>4. ASSUME NEW j \in K PROVE j <= k
  <2>1. d <= n - j
    BY <1>2
  <2> QED
    BY <1>3, <2>1
<1> QED
  BY <1>4

\* A line more.
LEMMA MoveAppend ==
    ASSUME NEW S, NEW ls \in Seq(S), NEW l \in S, NEW K \in SUBSET DOMAIN ls, \A x \in S : x.quantity \in Int
    PROVE  /\ Move(Append(ls, l), K) = Move(ls, K) /\ Move(ls, K) \in Int
           /\ Move(Append(ls, l), K \cup {Len(ls) + 1}) = Move(ls, K) + l.quantity
<1> DEFINE m == Len(ls) + 1
           f == [j \in K |-> ls[j].quantity]
           g == [j \in K |-> Append(ls, l)[j].quantity]
           e == [j \in K \cup {m} |-> Append(ls, l)[j].quantity]
<1>1. /\ DOMAIN ls = 1..Len(ls) /\ Len(ls) \in Nat /\ \A k \in 1..Len(ls) : ls[k] \in S
      /\ \A k \in 1..Len(ls) : Append(ls, l)[k] = ls[k]
      /\ Append(ls, l)[Len(ls) + 1] = l
  OBVIOUS
<1>2. IsFiniteSet(K) /\ m \notin K
  <2>1. IsFiniteSet(1..Len(ls))
    BY <1>1, FS_Interval
  <2> QED
    BY <1>1, <2>1, FS_Subset
<1>3. \A k \in K : f[k] \in Int /\ g[k] = f[k] /\ e[k] = f[k]
  BY <1>1
<1>4. e[m] = l.quantity /\ l.quantity \in Int
  BY <1>1
<1>5. /\ Move(ls, K) = SumFunctionOnSet(f, K) /\ Move(Append(ls, l), K) = SumFunctionOnSet(g, K)
      /\ Move(Append(ls, l), K \cup {m}) = SumFunctionOnSet(e, K \cup {m})
  BY DEF Move
<1> HIDE DEF f, g, e, m
<1>6. SumFunctionOnSet(f, K) = SumFunctionOnSet(g, K) /\ SumFunctionOnSet(f, K) \in Int
  BY <1>2, <1>3, SumCongruent, SumInt
<1>7. SumFunctionOnSet(e, K \cup {m}) = SumFunctionOnSet(f, K) + e[m]
  <2>1. /\ IsFiniteSet(K) /\ m \notin K /\ e[m] \in Int
        /\ \A k \in K : f[k] \in Int /\ e[k] = f[k]
    BY <1>2, <1>3, <1>4
  <2> QED
    BY <2>1, SumExtended
<1> QED
  BY <1>4, <1>5, <1>6, <1>7 DEF m

\* What moves depends on the quantities only.
LEMMA MoveSame ==
    ASSUME NEW K, IsFiniteSet(K), NEW a, NEW b,
           \A k \in K : a[k].quantity \in Int /\ b[k].quantity = a[k].quantity
    PROVE  Move(b, K) = Move(a, K)
<1> DEFINE f == [k \in K |-> a[k].quantity]
           e == [k \in K |-> b[k].quantity]
<1>1. \A k \in K : f[k] \in Int /\ e[k] = f[k]
  OBVIOUS
<1>2. Move(a, K) = SumFunctionOnSet(f, K) /\ Move(b, K) = SumFunctionOnSet(e, K)
  BY DEF Move
<1> HIDE DEF f, e
<1> QED
  BY <1>1, <1>2, SumCongruent

\* What two lists move, one after the other.
LEMMA MoveJoin ==
    ASSUME NEW S, \A l \in S : l.quantity \in Int, NEW a \in Seq(S), NEW b \in Seq(S),
           NEW K \in SUBSET DOMAIN a, NEW L \in SUBSET DOMAIN b
    PROVE  Move(a \o b, K \cup {Len(a) + j : j \in L}) = Move(a, K) + Move(b, L)
<1> DEFINE up(s) == {Len(a) + j : j \in s}
           B == {s \in SUBSET L : Move(a \o b, K \cup up(s)) # Move(a, K) + Move(b, s)}
<1>1. SUFFICES ASSUME B # {} PROVE FALSE
  OBVIOUS
<1>2. /\ DOMAIN a = 1..Len(a) /\ DOMAIN b = 1..Len(b) /\ Len(a) \in Nat /\ Len(b) \in Nat
      /\ \A k \in 1..Len(a) : (a \o b)[k] = a[k] /\ a[k] \in S
      /\ \A j \in 1..Len(b) : (a \o b)[Len(a) + j] = b[j] /\ b[j] \in S
  OBVIOUS
<1>3. IsFiniteSet(K) /\ IsFiniteSet(L)
  <2>1. IsFiniteSet(1..Len(a)) /\ IsFiniteSet(1..Len(b))
    BY <1>2, FS_Interval
  <2> QED
    BY <1>2, <2>1, FS_Subset
<1>4. PICK s \in B : \A u \in B : Cardinality(s) <= Cardinality(u)
  <2>1. B \in SUBSET (SUBSET L)
    OBVIOUS
  <2> HIDE DEF B
  <2> QED
    BY <1>1, <1>3, <2>1, SmallestSubset
<1>5. s \in SUBSET L /\ Move(a \o b, K \cup up(s)) # Move(a, K) + Move(b, s)
  OBVIOUS
<1>6. s # {}
  <2> SUFFICES ASSUME s = {} PROVE FALSE
    OBVIOUS
  <2>1. K \cup up(s) = K /\ Move(b, s) = 0
    BY MoveNothing
  <2>2. Move(a \o b, K) = Move(a, K) /\ Move(a, K) \in Int
    <3> DEFINE f == [k \in K |-> a[k].quantity]
               e == [k \in K |-> (a \o b)[k].quantity]
    <3>1. \A k \in K : f[k] \in Int /\ e[k] = f[k]
      BY <1>2
    <3>2. Move(a, K) = SumFunctionOnSet(f, K) /\ Move(a \o b, K) = SumFunctionOnSet(e, K)
      BY DEF Move
    <3> HIDE DEF f, e
    <3> QED
      BY <1>3, <3>1, <3>2, SumCongruent, SumInt
  <2> HIDE DEF B, up
  <2>3. Move(a \o b, K \cup up(s)) = Move(a \o b, K)
    BY <2>1, Zenon
  <2> QED
    BY <1>5, <2>1, <2>2, <2>3
<1>7. PICK x \in s : x = Chosen(s)
  BY <1>6 DEF Chosen
<1>8. PICK t : t = s \ {x}
  OBVIOUS
<1>9. IsFiniteSet(s) /\ IsFiniteSet(t) /\ t \in SUBSET L /\ x \notin t /\ s = t \cup {x} /\ x \in 1..Len(b)
  BY <1>2, <1>3, <1>5, <1>8, FS_Subset
<1>10. Move(a \o b, K \cup up(t)) = Move(a, K) + Move(b, t)
  <2>1. t \notin B
    <3> HIDE DEF B
    <3> QED
      BY <1>3, <1>4, <1>5, <1>6, <1>7, <1>8, ChosenLess
  <2> QED
    BY <2>1, <1>9
<1>11. PICK n, U : n = Len(a) + x /\ U = K \cup up(t)
  OBVIOUS
<1>12. K \cup up(s) = U \cup {n} /\ n \notin U /\ IsFiniteSet(U)
  <2>1. K \cup up(s) = U \cup {n} /\ n \notin U
    BY <1>2, <1>9, <1>11
  <2>2. IsFiniteSet(U)
    <3>1. U \in SUBSET (1..(Len(a) + Len(b)))
      BY <1>2, <1>9, <1>11
    <3>2. IsFiniteSet(1..(Len(a) + Len(b)))
      <4>1. 1 \in Int /\ Len(a) + Len(b) \in Int
        BY <1>2
      <4> QED
        BY <4>1, FS_Interval
    <3> QED
      BY <3>1, <3>2, FS_Subset
  <2> QED
    BY <2>1, <2>2
<1>13. Move(a \o b, U \cup {n}) = Move(a \o b, U) + b[x].quantity /\ b[x].quantity \in Int
       /\ Move(a \o b, U) \in Int
  <2> DEFINE f == [k \in U |-> (a \o b)[k].quantity]
             e == [k \in U \cup {n} |-> (a \o b)[k].quantity]
  <2>1. \A k \in U : f[k] \in Int /\ e[k] = f[k]
    BY <1>2, <1>9, <1>11
  <2>2. e[n] = b[x].quantity /\ e[n] \in Int
    BY <1>2, <1>9, <1>11
  <2>3. Move(a \o b, U) = SumFunctionOnSet(f, U) /\ Move(a \o b, U \cup {n}) = SumFunctionOnSet(e, U \cup {n})
    BY DEF Move
  <2> HIDE DEF f, e, B, up
  <2>4. SumFunctionOnSet(e, U \cup {n}) = SumFunctionOnSet(f, U) + e[n]
    <3>1. IsFiniteSet(U) /\ n \notin U /\ e[n] \in Int /\ \A k \in U : f[k] \in Int /\ e[k] = f[k]
      BY <1>12, <2>1, <2>2
    <3> QED
      BY <3>1, SumExtended
  <2>5. SumFunctionOnSet(f, U) \in Int
    BY <1>12, <2>1, SumInt
  <2> QED
    BY <1>12, <2>1, <2>2, <2>3, <2>4, <2>5
<1>14. Move(b, s) = Move(b, t) + b[x].quantity /\ Move(b, t) \in Int
  <2> DEFINE f == [k \in t |-> b[k].quantity]
             e == [k \in t \cup {x} |-> b[k].quantity]
  <2>1. \A k \in t : f[k] \in Int /\ e[k] = f[k]
    BY <1>2, <1>9
  <2>2. e[x] = b[x].quantity /\ e[x] \in Int
    BY <1>2, <1>9
  <2>3. Move(b, t) = SumFunctionOnSet(f, t) /\ Move(b, s) = SumFunctionOnSet(e, t \cup {x})
    BY <1>9 DEF Move
  <2> HIDE DEF f, e, B, up
  <2> QED
    BY <1>9, <2>1, <2>2, <2>3, SumExtended, SumInt
<1>15. Move(a, K) \in Int
  <2>1. \A k \in DOMAIN a : a[k].quantity \in Int
    BY <1>2
  <2>2. IsFiniteSet(DOMAIN a)
    BY <1>2, FS_Interval
  <2> HIDE DEF B, up
  <2> QED
    BY <2>1, <2>2, MoveInt
<1> HIDE DEF B, up
<1>16. /\ Move(a \o b, K \cup up(s)) = Move(a \o b, U \cup {n})
       /\ Move(a \o b, U) = Move(a, K) + Move(b, t)
  BY <1>10, <1>11, <1>12, Zenon
<1> QED
  BY <1>5, <1>13, <1>14, <1>15, <1>16

-----------------------------------------------------------------------------
(* Change records. *)

\* The trail of a row that shows view: a chain that starts with the creation.
Tells(log, view) ==
    /\ log # <<>> /\ log[1].action = "created" /\ log[Len(log)].after = view
    /\ \A k \in 2..Len(log) : log[k].action # "created" /\ log[k].before = log[k - 1].after

\* The creation record alone tells the row it created.
LEMMA TellsFirst ==
    ASSUME NEW E, NEW e \in E, e.action = "created"
    PROVE  Tells(Append(<<>>, e), e.after) /\ Append(<<>>, e) \in Seq(E)
<1>1. Append(<<>>, e) = <<e>>
  OBVIOUS
<1> QED
  BY <1>1 DEF Tells

\* A change record that starts where the trail ended tells the new row.
LEMMA TellsMore ==
    ASSUME NEW E, NEW log \in Seq(E), NEW view, Tells(log, view),
           NEW e \in E, e.action # "created", e.before = view
    PROVE  Tells(Append(log, e), e.after)
<1>1. /\ Len(log) \in Nat \ {0} /\ Len(Append(log, e)) = Len(log) + 1
      /\ \A k \in 1..Len(log) : Append(log, e)[k] = log[k]
      /\ Append(log, e)[Len(log) + 1] = e
  BY DEF Tells
<1>2. ASSUME NEW k \in 2..(Len(log) + 1)
      PROVE  Append(log, e)[k].action # "created" /\ Append(log, e)[k].before = Append(log, e)[k - 1].after
  <2>1. CASE k = Len(log) + 1
    BY <1>1, <2>1 DEF Tells
  <2>2. CASE k # Len(log) + 1
    <3>1. k \in 2..Len(log) /\ k \in 1..Len(log) /\ k - 1 \in 1..Len(log)
      BY <1>1, <2>2
    <3> QED
      BY <1>1, <3>1 DEF Tells
  <2> QED
    BY <2>1, <2>2
<1>3. Append(log, e) # <<>> /\ 1 \in 1..Len(log)
  BY <1>1
<1> QED
  BY <1>1, <1>2, <1>3 DEF Tells
=============================================================================
