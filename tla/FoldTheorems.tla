----------------------------- MODULE FoldTheorems -----------------------------
(***************************************************************************)
(* What the folds of the community modules compute.  They are recursive    *)
(* functions, each of them a CHOOSE, of which nothing is known until a     *)
(* function that solves its equation is shown to exist; RecursionOnSets    *)
(* does that once, by an induction that is itself a fact about sets.       *)
(***************************************************************************)
EXTENDS Functions, FiniteSetTheorems, TLAPS

(* Induction without a predicate: a set of naturals that holds 0 and, with   *)
(* each number, the next one, holds them all.                                *)
LEMMA NatInductionOnSet ==
  ASSUME NEW T \in SUBSET Nat, 0 \in T, \A n \in T : n + 1 \in T
  PROVE  T = Nat
<1> DEFINE R == {p \in Nat \X Nat : p[1] < p[2]}
<1>1. IsWellFoundedOn(R, Nat)
  <2>1. IsWellFoundedOn(OpToRel(<, Nat), Nat)
    BY NatLessThanWellFounded
  <2>2. OpToRel(<, Nat) = R
    BY DEF OpToRel
  <2> QED BY <2>1, <2>2
<1>2. \A m, n \in Nat : m < n => <<m, n>> \in R
  OBVIOUS
<1> HIDE DEF R
<1>3. SUFFICES ASSUME Nat \ T # {} PROVE FALSE
  OBVIOUS
<1>4. PICK n \in Nat \ T : \A m \in Nat \ T : <<m, n>> \notin R
  BY <1>1, <1>3, WFMin
<1>5. n - 1 \in Nat /\ n - 1 < n
  BY <1>4
<1>6. n - 1 \in T
  BY <1>2, <1>4, <1>5
<1>7. (n - 1) + 1 \in T
  BY <1>6
<1> QED BY <1>4, <1>5, <1>7

\* A recursion that takes one element out of a set at a time.
Solves(iter, S, base, ch, step) ==
  \A s \in SUBSET S :
    iter[s] = IF s = {} THEN base ELSE step[<<ch[s], iter[s \ {ch[s]}]>>]

(* Such a recursion has a solution on the subsets of a finite set.           *)
LEMMA RecursionOnSets ==
  ASSUME NEW S, IsFiniteSet(S), NEW R, NEW base \in R,
         NEW ch \in [(SUBSET S) \ {{}} -> S], \A s \in (SUBSET S) \ {{}} : ch[s] \in s,
         NEW step \in [S \X R -> R]
  PROVE  \E iter \in [SUBSET S -> R] : Solves(iter, S, base, ch, step)
<1> DEFINE Body(g, s) == IF s = {} THEN base ELSE step[<<ch[s], g[s \ {ch[s]}]>>]
           Upto(g, n) == \A s \in SUBSET S : Cardinality(s) <= n => g[s] = Body(g, s)
           T == {n \in Nat : \E g \in [SUBSET S -> R] : Upto(g, n)}
<1>1. ASSUME NEW s \in SUBSET S
      PROVE  /\ Cardinality(s) \in Nat /\ (Cardinality(s) = 0 <=> s = {})
             /\ s # {} => /\ s \ {ch[s]} \in SUBSET S
                          /\ Cardinality(s \ {ch[s]}) = Cardinality(s) - 1
  <2>1. IsFiniteSet(s)
    BY FS_Subset
  <2> QED BY <2>1, FS_CardinalityType, FS_EmptySet, FS_RemoveElement
<1>2. ASSUME NEW g \in [SUBSET S -> R], NEW s \in SUBSET S PROVE Body(g, s) \in R
  BY <1>1
<1>3. 0 \in T
  <2>1. [s \in SUBSET S |-> base] \in [SUBSET S -> R]
    OBVIOUS
  <2>2. ASSUME NEW s \in SUBSET S, Cardinality(s) <= 0 PROVE s = {}
    <3>1. Cardinality(s) \in Nat /\ (Cardinality(s) = 0 <=> s = {})
      BY <1>1
    <3> QED BY <2>2, <3>1
  <2>3. Upto([s \in SUBSET S |-> base], 0)
    BY <2>2
  <2> QED BY <2>1, <2>3
<1>4. ASSUME NEW n \in T PROVE n + 1 \in T
  <2>1. PICK g \in [SUBSET S -> R] : Upto(g, n)
    BY <1>4
  <2> DEFINE h == [s \in SUBSET S |-> IF Cardinality(s) <= n THEN g[s] ELSE Body(g, s)]
  <2>2. h \in [SUBSET S -> R]
    BY <1>2
  <2>3. ASSUME NEW s \in SUBSET S, Cardinality(s) <= n + 1 PROVE h[s] = Body(h, s)
    <3>1. h[s] = Body(g, s)
      BY <2>1
    <3>2. CASE s = {}
      BY <3>1, <3>2
    <3>3. CASE s # {}
      <4>1. Cardinality(s \ {ch[s]}) <= n /\ s \ {ch[s]} \in SUBSET S
        BY <1>1, <2>3, <3>3
      <4>2. h[s \ {ch[s]}] = g[s \ {ch[s]}]
        BY <4>1
      <4> QED BY <3>1, <4>2
    <3> QED BY <3>2, <3>3
  <2> HIDE DEF h
  <2>4. Upto(h, n + 1)
    BY <2>3
  <2> HIDE DEF Upto
  <2>5. n + 1 \in Nat
    OBVIOUS
  <2> QED BY <2>2, <2>4, <2>5
<1>5. T = Nat
  <2>1. T \in SUBSET Nat
    OBVIOUS
  <2> HIDE DEF T
  <2> QED BY <1>3, <1>4, <2>1, NatInductionOnSet
<1> HIDE DEF T
<1>6. Cardinality(S) \in T
  BY <1>1, <1>5
<1>7. PICK g \in [SUBSET S -> R] : Upto(g, Cardinality(S))
  BY <1>6 DEF T
<1>8. \A s \in SUBSET S : Cardinality(s) <= Cardinality(S)
  BY FS_Subset
<1> QED BY <1>7, <1>8 DEF Solves

(* What holds of a set when it holds of all that lack one element of it      *)
(* holds of every subset of a finite set.                                    *)
LEMMA SubsetInduction ==
  ASSUME NEW S, IsFiniteSet(S), NEW G \in SUBSET (SUBSET S),
         \A s \in SUBSET S : (\A x \in s : s \ {x} \in G) => s \in G
  PROVE  \A s \in SUBSET S : s \in G
<1> DEFINE T == {n \in Nat : \A s \in SUBSET S : Cardinality(s) = n => s \in G}
<1>1. ASSUME NEW s \in SUBSET S
      PROVE  /\ Cardinality(s) \in Nat /\ (Cardinality(s) = 0 <=> s = {})
             /\ \A x \in s : Cardinality(s \ {x}) = Cardinality(s) - 1
  <2>1. IsFiniteSet(s)
    BY FS_Subset
  <2> QED BY <2>1, FS_CardinalityType, FS_EmptySet, FS_RemoveElement
<1>2. 0 \in T
  BY <1>1
<1>3. ASSUME NEW n \in T PROVE n + 1 \in T
  <2>1. ASSUME NEW s \in SUBSET S, Cardinality(s) = n + 1 PROVE s \in G
    <3>1. \A x \in s : Cardinality(s \ {x}) = n /\ s \ {x} \in SUBSET S
      BY <1>1, <2>1
    <3> QED BY <3>1
  <2> QED BY <2>1
<1>4. T = Nat
  <2>1. T \in SUBSET Nat
    OBVIOUS
  <2> HIDE DEF T
  <2> QED BY <1>2, <1>3, <2>1, NatInductionOnSet
<1> QED BY <1>1, <1>4

-----------------------------------------------------------------------------
(* Sums.  The element that the fold takes first, and the fold itself.        *)
Picked(s) == CHOOSE x \in s : TRUE
SumIter(f, S) ==
  CHOOSE iter : iter = [s \in SUBSET S |-> IF s = {} THEN 0
                                           ELSE f[Picked(s)] + iter[s \ {Picked(s)}]]

(* There is an element to take.                                              *)
LEMMA PickedIn == ASSUME NEW s, s # {} PROVE Picked(s) \in s
BY DEF Picked

(* The recursion in the sum has a solution.                                  *)
LEMMA SumIterSums ==
  ASSUME NEW S, IsFiniteSet(S), NEW f, \A x \in S : f[x] \in Nat
  PROVE  /\ SumIter(f, S) \in [SUBSET S -> Nat]
         /\ \A s \in SUBSET S :
              SumIter(f, S)[s] = IF s = {} THEN 0
                                 ELSE f[Picked(s)] + SumIter(f, S)[s \ {Picked(s)}]
<1> DEFINE ch == [s \in (SUBSET S) \ {{}} |-> Picked(s)]
           step == [p \in S \X Nat |-> f[p[1]] + p[2]]
           Body(iter) == [s \in SUBSET S |-> IF s = {} THEN 0
                                             ELSE f[Picked(s)] + iter[s \ {Picked(s)}]]
<1>1. /\ ch \in [(SUBSET S) \ {{}} -> S]
      /\ \A s \in (SUBSET S) \ {{}} : ch[s] \in s /\ ch[s] = Picked(s)
  BY PickedIn
<1>2. step \in [S \X Nat -> Nat] /\ \A x \in S, n \in Nat : step[<<x, n>>] = f[x] + n
  OBVIOUS
<1> HIDE DEF ch, step
<1>3. PICK iter \in [SUBSET S -> Nat] : Solves(iter, S, 0, ch, step)
  BY <1>1, <1>2, RecursionOnSets
<1>4. ASSUME NEW s \in SUBSET S
      PROVE  iter[s] = IF s = {} THEN 0 ELSE f[Picked(s)] + iter[s \ {Picked(s)}]
  <2>1. CASE s = {}
    BY <1>3, <2>1 DEF Solves
  <2>2. CASE s # {}
    <3>1. iter[s] = step[<<ch[s], iter[s \ {ch[s]}]>>] /\ ch[s] = Picked(s) /\ ch[s] \in S
      BY <1>1, <1>3, <2>2 DEF Solves
    <3>2. iter[s \ {ch[s]}] \in Nat
      BY <1>3
    <3> QED BY <1>2, <2>2, <3>1, <3>2
  <2> QED BY <2>1, <2>2
<1>5. iter = Body(iter)
  BY <1>3, <1>4
<1>6. SumIter(f, S) = Body(SumIter(f, S))
  BY <1>5 DEF SumIter
<1>7. \A s \in SUBSET S :
        SumIter(f, S)[s] = IF s = {} THEN 0
                           ELSE f[Picked(s)] + SumIter(f, S)[s \ {Picked(s)}]
  BY <1>6
<1>8. DOMAIN SumIter(f, S) = SUBSET S
  BY <1>6
<1> DEFINE it == SumIter(f, S)
           G == {s \in SUBSET S : it[s] \in Nat}
<1>13. \A s \in SUBSET S :
        it[s] = IF s = {} THEN 0 ELSE f[Picked(s)] + it[s \ {Picked(s)}]
  BY <1>7
<1> HIDE DEF it
<1>9. \A s \in SUBSET S : (\A x \in s : s \ {x} \in G) => s \in G
  <2> SUFFICES ASSUME NEW s \in SUBSET S, \A x \in s : s \ {x} \in G PROVE s \in G
    OBVIOUS
  <2>1. CASE s = {}
    <3>1. it[s] = 0
      BY <1>13, <2>1
    <3> QED BY <3>1
  <2>2. CASE s # {}
    <3>1. Picked(s) \in s
      BY <2>2, PickedIn
    <3>2. it[s] = f[Picked(s)] + it[s \ {Picked(s)}]
      BY <1>13, <2>2
    <3>3. it[s \ {Picked(s)}] \in Nat /\ f[Picked(s)] \in Nat
      BY <3>1
    <3> QED BY <3>2, <3>3
  <2> QED BY <2>1, <2>2
<1>10. \A s \in SUBSET S : s \in G
  <2>1. G \in SUBSET (SUBSET S)
    OBVIOUS
  <2> HIDE DEF G
  <2> QED BY <1>9, <2>1, SubsetInduction
<1>11. it = [s \in SUBSET S |-> it[s]]
  BY <1>6 DEF it
<1>12. it \in [SUBSET S -> Nat]
  BY <1>10, <1>11
<1> QED BY <1>7, <1>12 DEF it

(* The sum over a set is that recursion at the set.                          *)
LEMMA SumIsIter == ASSUME NEW f, NEW S PROVE SumFunctionOnSet(f, S) = SumIter(f, S)[S]
BY DEF SumFunctionOnSet, FoldFunctionOnSet, MapThenFoldSet, SumIter, Picked

(* Only the values of the elements count.                                    *)
LEMMA SumIterRestricts ==
  ASSUME NEW S, IsFiniteSet(S), NEW U \in SUBSET S, NEW f, NEW g,
         \A x \in S : f[x] \in Nat, \A x \in U : g[x] = f[x]
  PROVE  SumIter(g, U)[U] = SumIter(f, S)[U]
<1> DEFINE a == SumIter(f, S)
           b == SumIter(g, U)
           G == {s \in SUBSET U : b[s] = a[s]}
<1>1. IsFiniteSet(U) /\ \A x \in U : g[x] \in Nat
  BY FS_Subset
<1>2. \A s \in SUBSET S : a[s] = IF s = {} THEN 0 ELSE f[Picked(s)] + a[s \ {Picked(s)}]
  BY SumIterSums
<1>3. \A s \in SUBSET U : b[s] = IF s = {} THEN 0 ELSE g[Picked(s)] + b[s \ {Picked(s)}]
  BY <1>1, SumIterSums
<1> HIDE DEF a, b
<1>4. \A s \in SUBSET U : (\A x \in s : s \ {x} \in G) => s \in G
  <2> SUFFICES ASSUME NEW s \in SUBSET U, \A x \in s : s \ {x} \in G PROVE s \in G
    OBVIOUS
  <2>1. CASE s = {}
    BY <1>2, <1>3, <2>1
  <2>2. CASE s # {}
    <3>1. Picked(s) \in s
      BY <2>2, PickedIn
    <3> QED BY <1>2, <1>3, <2>2, <3>1
  <2> QED BY <2>1, <2>2
<1>5. G \in SUBSET (SUBSET U)
  OBVIOUS
<1> HIDE DEF G
<1>6. U \in G
  BY <1>1, <1>4, <1>5, SubsetInduction
<1> QED BY <1>6 DEF G, a, b

(* A sum of naturals is a natural.                                           *)
LEMMA SumType ==
  ASSUME NEW S, IsFiniteSet(S), NEW f, \A x \in S : f[x] \in Nat
  PROVE  SumFunctionOnSet(f, S) \in Nat
<1>1. SumIter(f, S)[S] \in Nat
  BY SumIterSums
<1> QED BY <1>1, SumIsIter

(* The empty sum.                                                            *)
LEMMA SumEmpty == ASSUME NEW f PROVE SumFunctionOnSet(f, {}) = 0
<1>1. IsFiniteSet({}) /\ \A x \in {} : f[x] \in Nat
  BY FS_EmptySet
<1> QED BY <1>1, SumIterSums, SumIsIter

(* Functions that agree on a set have the same sum over it.                  *)
LEMMA SumSame ==
  ASSUME NEW S, IsFiniteSet(S), NEW f, NEW g,
         \A x \in S : f[x] \in Nat /\ g[x] = f[x]
  PROVE  SumFunctionOnSet(g, S) = SumFunctionOnSet(f, S)
BY SumIterRestricts, SumIsIter

(* Whatever element the fold takes first.                                    *)
LEMMA SumRemove ==
  ASSUME NEW S, IsFiniteSet(S), NEW f, \A x \in S : f[x] \in Nat
  PROVE  \A x \in S : SumFunctionOnSet(f, S) = f[x] + SumFunctionOnSet(f, S \ {x})
<1> DEFINE a == SumIter(f, S)
           G == {s \in SUBSET S : \A x \in s : a[s] = f[x] + a[s \ {x}]}
<1>1. \A s \in SUBSET S : SumFunctionOnSet(f, s) = a[s]
  BY SumIterRestricts, SumIsIter
<1>2. /\ \A s \in SUBSET S : a[s] \in Nat
      /\ \A s \in SUBSET S : a[s] = IF s = {} THEN 0 ELSE f[Picked(s)] + a[s \ {Picked(s)}]
  BY SumIterSums
<1> HIDE DEF a
<1>3. ASSUME NEW s \in SUBSET S, \A x \in s : s \ {x} \in G, NEW x \in s
      PROVE  a[s] = f[x] + a[s \ {x}]
  <2> DEFINE y == Picked(s)
  <2>1. y \in s
    BY PickedIn
  <2>2. a[s] = f[y] + a[s \ {y}]
    BY <1>2, <2>1
  <2> HIDE DEF y
  <2>3. CASE y = x
    BY <2>2, <2>3
  <2>4. CASE y # x
    <3>1. a[s \ {y}] = f[x] + a[(s \ {y}) \ {x}]
      BY <1>3, <2>1, <2>4
    <3>2. a[s \ {x}] = f[y] + a[(s \ {x}) \ {y}]
      BY <1>3, <2>1, <2>4
    <3>3. (s \ {y}) \ {x} = (s \ {x}) \ {y}
      OBVIOUS
    <3>4. f[x] \in Nat /\ f[y] \in Nat /\ a[(s \ {x}) \ {y}] \in Nat
      BY <1>2, <2>1
    <3>5. a[s \ {y}] = f[x] + a[(s \ {x}) \ {y}]
      BY <3>1, <3>3, Zenon
    <3> DEFINE m == a[s \ {y}]
               n == a[(s \ {x}) \ {y}]
               l == a[s \ {x}]
    <3>6. a[s] = f[y] + m /\ m = f[x] + n /\ l = f[y] + n /\ n \in Nat
      BY <2>2, <3>2, <3>4, <3>5
    <3> HIDE DEF l, m, n
    <3>7. a[s] = f[x] + l
      BY <3>4, <3>6
    <3> QED BY <3>7 DEF l
  <2> QED BY <2>3, <2>4
<1>4. \A s \in SUBSET S : (\A x \in s : s \ {x} \in G) => s \in G
  BY <1>3
<1>5. G \in SUBSET (SUBSET S)
  OBVIOUS
<1> HIDE DEF G
<1>6. S \in G
  BY <1>4, <1>5, SubsetInduction
<1>7. \A x \in S : a[S] = f[x] + a[S \ {x}]
  BY <1>6 DEF G
<1> QED BY <1>1, <1>7

(* One element more.                                                         *)
LEMMA SumAdd ==
  ASSUME NEW S, IsFiniteSet(S), NEW x, x \notin S, NEW f, \A y \in S \cup {x} : f[y] \in Nat
  PROVE  SumFunctionOnSet(f, S \cup {x}) = f[x] + SumFunctionOnSet(f, S)
<1>1. IsFiniteSet(S \cup {x})
  BY FS_AddElement
<1>2. (S \cup {x}) \ {x} = S
  OBVIOUS
<1>3. SumFunctionOnSet(f, S \cup {x}) = f[x] + SumFunctionOnSet(f, (S \cup {x}) \ {x})
  BY <1>1, SumRemove
<1> QED BY <1>2, <1>3

(* One element.                                                              *)
LEMMA SumOne == ASSUME NEW x, NEW f, f[x] \in Nat PROVE SumFunctionOnSet(f, {x}) = f[x]
<1>1. IsFiniteSet({}) /\ {} \cup {x} = {x} /\ \A y \in {} \cup {x} : f[y] \in Nat
  BY FS_EmptySet
<1>2. SumFunctionOnSet(f, {} \cup {x}) = f[x] + SumFunctionOnSet(f, {})
  BY <1>1, SumAdd
<1> QED BY <1>1, <1>2, SumEmpty

(* The sum over two sets that share nothing.                                 *)
LEMMA SumUnion ==
  ASSUME NEW S, NEW U, IsFiniteSet(S), IsFiniteSet(U), S \cap U = {}, NEW f,
         \A x \in S \cup U : f[x] \in Nat
  PROVE  SumFunctionOnSet(f, S \cup U) = SumFunctionOnSet(f, S) + SumFunctionOnSet(f, U)
<1> DEFINE G == {u \in SUBSET U :
                   SumFunctionOnSet(f, S \cup u) = SumFunctionOnSet(f, S) + SumFunctionOnSet(f, u)}
<1>1. ASSUME NEW u \in SUBSET U, \A x \in u : u \ {x} \in G PROVE u \in G
  <2>1. IsFiniteSet(u)
    BY FS_Subset
  <2>2. IsFiniteSet(S \cup u)
    BY <2>1, FS_Union
  <2>3. SumFunctionOnSet(f, S) \in Nat
    BY SumType
  <2>4. CASE u = {}
    <3>1. SumFunctionOnSet(f, u) = 0 /\ S \cup u = S
      BY <2>4, SumEmpty
    <3> QED BY <2>3, <3>1
  <2>5. CASE u # {}
    <3>1. PICK x \in u : TRUE
      BY <2>5
    <3>2. (S \cup u) \ {x} = S \cup (u \ {x})
      OBVIOUS
    <3>3. SumFunctionOnSet(f, S \cup u) = f[x] + SumFunctionOnSet(f, (S \cup u) \ {x})
      BY <2>2, SumRemove
    <3>4. SumFunctionOnSet(f, u) = f[x] + SumFunctionOnSet(f, u \ {x})
      BY <2>1, SumRemove
    <3>5. f[x] \in Nat /\ IsFiniteSet(u \ {x})
      BY <2>1, FS_RemoveElement
    <3>6. SumFunctionOnSet(f, u \ {x}) \in Nat
      BY <3>5, SumType
    <3>7. SumFunctionOnSet(f, S \cup (u \ {x}))
          = SumFunctionOnSet(f, S) + SumFunctionOnSet(f, u \ {x})
      BY <1>1
    <3> QED BY <2>3, <3>2, <3>3, <3>4, <3>5, <3>6, <3>7
  <2> QED BY <2>4, <2>5
<1>2. \A u \in SUBSET U : (\A x \in u : u \ {x} \in G) => u \in G
  BY <1>1
<1>3. G \in SUBSET (SUBSET U)
  OBVIOUS
<1>4. U \in G
  <2> HIDE DEF G
  <2> QED BY <1>2, <1>3, SubsetInduction
<1> QED BY <1>4

(* A smaller set has a smaller sum.                                          *)
LEMMA SumSubset ==
  ASSUME NEW S, IsFiniteSet(S), NEW U \in SUBSET S, NEW f, \A x \in S : f[x] \in Nat
  PROVE  SumFunctionOnSet(f, U) <= SumFunctionOnSet(f, S)
<1>1. IsFiniteSet(U) /\ IsFiniteSet(S \ U)
  BY FS_Subset
<1>2. U \cup (S \ U) = S /\ U \cap (S \ U) = {}
  OBVIOUS
<1>3. SumFunctionOnSet(f, S) = SumFunctionOnSet(f, U) + SumFunctionOnSet(f, S \ U)
  <2>1. SumFunctionOnSet(f, U \cup (S \ U))
        = SumFunctionOnSet(f, U) + SumFunctionOnSet(f, S \ U)
    BY <1>1, <1>2, SumUnion
  <2> QED BY <1>2, <2>1, Zenon
<1>4. SumFunctionOnSet(f, U) \in Nat /\ SumFunctionOnSet(f, S \ U) \in Nat
  BY <1>1, SumType
<1> QED BY <1>3, <1>4

(* A sum of zeros.                                                           *)
LEMMA SumZeros ==
  ASSUME NEW S, IsFiniteSet(S), NEW f, \A x \in S : f[x] = 0
  PROVE  SumFunctionOnSet(f, S) = 0
<1> DEFINE G == {s \in SUBSET S : SumFunctionOnSet(f, s) = 0}
<1>1. \A s \in SUBSET S : (\A x \in s : s \ {x} \in G) => s \in G
  <2> SUFFICES ASSUME NEW s \in SUBSET S, \A x \in s : s \ {x} \in G PROVE s \in G
    OBVIOUS
  <2>1. CASE s = {}
    BY <2>1, SumEmpty
  <2>2. CASE s # {}
    <3>1. PICK x \in s : TRUE
      BY <2>2
    <3>2. IsFiniteSet(s) /\ \A y \in s : f[y] \in Nat
      BY FS_Subset
    <3>3. SumFunctionOnSet(f, s) = f[x] + SumFunctionOnSet(f, s \ {x})
      BY <3>1, <3>2, SumRemove
    <3>4. f[x] = 0 /\ SumFunctionOnSet(f, s \ {x}) = 0
      BY <3>1
    <3> QED BY <3>3, <3>4
  <2> QED BY <2>1, <2>2
<1>2. G \in SUBSET (SUBSET S)
  OBVIOUS
<1> HIDE DEF G
<1>3. S \in G
  BY <1>1, <1>2, SubsetInduction
<1> QED BY <1>3 DEF G

(* An interval and the next number.                                          *)
LEMMA OneMore ==
  ASSUME NEW a \in Int, NEW b \in Int, a <= b + 1
  PROVE  a..(b + 1) = (a..b) \cup {b + 1} /\ b + 1 \notin a..b
OBVIOUS

(* Two functions on the integers, one of which is the other moved by one.    *)
LEMMA SumShift ==
  ASSUME NEW m \in Int, NEW n \in Int, m <= n + 1, NEW f, NEW g,
         \A k \in m..n : f[k] \in Nat /\ g[k + 1] = f[k]
  PROVE  SumFunctionOnSet(g, (m + 1)..(n + 1)) = SumFunctionOnSet(f, m..n)
<1> DEFINE Equal(d) ==
             SumFunctionOnSet(g, (m + 1)..(m + d)) = SumFunctionOnSet(f, m..(m + d - 1))
           T == {d \in Nat : m + d <= n + 1 => Equal(d)}
<1>1. 0 \in T
  <2>1. (m + 1)..(m + 0) = {} /\ m..(m + 0 - 1) = {}
    OBVIOUS
  <2>2. Equal(0)
    BY <2>1, SumEmpty
  <2> HIDE DEF Equal
  <2> QED BY <2>2
<1>2. ASSUME NEW d \in T PROVE d + 1 \in T
  <2> SUFFICES ASSUME m + (d + 1) <= n + 1 PROVE Equal(d + 1)
    <3> HIDE DEF Equal
    <3> QED OBVIOUS
  <2>1. d \in Nat /\ m + d <= n + 1 /\ Equal(d)
    <3> HIDE DEF Equal
    <3> QED OBVIOUS
  <2> DEFINE F == m..(m + d - 1)
             G == (m + 1)..(m + d)
  <2>2. /\ m..(m + (d + 1) - 1) = F \cup {m + d} /\ m + d \notin F
        /\ (m + 1)..(m + (d + 1)) = G \cup {m + d + 1} /\ m + d + 1 \notin G
    <3>1. m + d - 1 \in Int /\ m + d \in Int /\ m + 1 \in Int
          /\ (m + d - 1) + 1 = m + d /\ m + (d + 1) - 1 = m + d /\ m + (d + 1) = m + d + 1
          /\ m <= (m + d - 1) + 1 /\ m + 1 <= (m + d) + 1
      BY <2>1
    <3> HIDE DEF Equal, T
    <3>2. m..(m + d) = F \cup {m + d} /\ m + d \notin F
      BY <3>1, OneMore
    <3>3. (m + 1)..(m + d + 1) = G \cup {m + d + 1} /\ m + d + 1 \notin G
      BY <3>1, OneMore
    <3> QED BY <3>1, <3>2, <3>3
  <2>3. IsFiniteSet(F) /\ IsFiniteSet(G)
    BY <2>1, FS_Interval
  <2>4. \A k \in F \cup {m + d} : f[k] \in Nat
    BY <2>1
  <2>5. \A k \in G \cup {m + d + 1} : g[k] \in Nat
    <3> SUFFICES ASSUME NEW k \in G \cup {m + d + 1} PROVE g[k] \in Nat
      OBVIOUS
    <3>1. k - 1 \in m..n /\ (k - 1) + 1 = k
      BY <2>1
    <3> QED BY <3>1
  <2>6. g[m + d + 1] = f[m + d]
    BY <2>1
  <2>7. SumFunctionOnSet(g, G) = SumFunctionOnSet(f, F)
    BY <2>1
  <2> HIDE DEF F, G
  <2>8. SumFunctionOnSet(f, F \cup {m + d}) = f[m + d] + SumFunctionOnSet(f, F)
    BY <2>2, <2>3, <2>4, SumAdd
  <2>9. SumFunctionOnSet(g, G \cup {m + d + 1}) = g[m + d + 1] + SumFunctionOnSet(g, G)
    BY <2>2, <2>3, <2>5, SumAdd
  <2>10. SumFunctionOnSet(g, (m + 1)..(m + (d + 1))) = SumFunctionOnSet(f, m..(m + (d + 1) - 1))
    BY <2>2, <2>6, <2>7, <2>8, <2>9
  <2> QED BY <2>10
<1>3. T = Nat
  <2>1. T \in SUBSET Nat
    OBVIOUS
  <2> HIDE DEF T
  <2> QED BY <1>1, <1>2, <2>1, NatInductionOnSet
<1>4. (n + 1) - m \in Nat /\ m + ((n + 1) - m) = n + 1 /\ m + ((n + 1) - m) - 1 = n
  OBVIOUS
<1>5. Equal((n + 1) - m)
  <2>1. (n + 1) - m \in T
    BY <1>3, <1>4
  <2> HIDE DEF Equal
  <2> QED BY <1>4, <2>1
<1> QED BY <1>4, <1>5

(* Two functions that differ at one element.                                 *)
LEMMA SumChange ==
  ASSUME NEW S, IsFiniteSet(S), NEW f, NEW g, NEW x, x \in S,
         \A y \in S : f[y] \in Nat /\ g[y] \in Nat /\ (y # x => g[y] = f[y])
  PROVE  SumFunctionOnSet(g, S) + f[x] = SumFunctionOnSet(f, S) + g[x]
<1> DEFINE rest == S \ {x}
<1>1. IsFiniteSet(rest) /\ \A y \in rest : f[y] \in Nat /\ g[y] = f[y]
  BY FS_RemoveElement
<1> HIDE DEF rest
<1>2. SumFunctionOnSet(g, rest) = SumFunctionOnSet(f, rest)
      /\ SumFunctionOnSet(f, rest) \in Nat
  BY <1>1, SumSame, SumType
<1>3. /\ SumFunctionOnSet(f, S) = f[x] + SumFunctionOnSet(f, rest)
      /\ SumFunctionOnSet(g, S) = g[x] + SumFunctionOnSet(g, rest)
  BY SumRemove DEF rest
<1> QED BY <1>2, <1>3

(* A function that is nowhere larger.                                        *)
LEMMA SumMonotonic ==
  ASSUME NEW S, IsFiniteSet(S), NEW f, NEW g,
         \A y \in S : f[y] \in Nat /\ g[y] \in Nat /\ g[y] <= f[y]
  PROVE  SumFunctionOnSet(g, S) <= SumFunctionOnSet(f, S)
<1> DEFINE G == {s \in SUBSET S : SumFunctionOnSet(g, s) <= SumFunctionOnSet(f, s)}
<1>1. \A s \in SUBSET S : (\A x \in s : s \ {x} \in G) => s \in G
  <2> SUFFICES ASSUME NEW s \in SUBSET S, \A x \in s : s \ {x} \in G PROVE s \in G
    OBVIOUS
  <2>1. CASE s = {}
    BY <2>1, SumEmpty
  <2>2. CASE s # {}
    <3>1. PICK x \in s : TRUE
      BY <2>2
    <3>2. IsFiniteSet(s) /\ IsFiniteSet(s \ {x})
      BY FS_Subset, FS_RemoveElement
    <3>3. /\ SumFunctionOnSet(f, s) = f[x] + SumFunctionOnSet(f, s \ {x})
          /\ SumFunctionOnSet(g, s) = g[x] + SumFunctionOnSet(g, s \ {x})
      BY <3>1, <3>2, SumRemove
    <3>4. SumFunctionOnSet(f, s \ {x}) \in Nat /\ SumFunctionOnSet(g, s \ {x}) \in Nat
      BY <3>2, SumType
    <3>5. SumFunctionOnSet(g, s \ {x}) <= SumFunctionOnSet(f, s \ {x})
      BY <3>1
    <3> QED BY <3>1, <3>3, <3>4, <3>5
  <2> QED BY <2>1, <2>2
<1>2. G \in SUBSET (SUBSET S)
  OBVIOUS
<1> HIDE DEF G
<1>3. S \in G
  BY <1>1, <1>2, SubsetInduction
<1> QED BY <1>3 DEF G
===============================================================================
