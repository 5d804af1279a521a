---------------------------- MODULE DataTheorems ----------------------------
(***************************************************************************)
(* What the proofs need of the two recursive operators of the models.      *)
(* SumFunctionOnSet, the sum the spend caps are compared with, does not    *)
(* depend on the order of the fold, so that one element more adds its      *)
(* amount; it is monotone in the amounts and in the set, linear in the     *)
(* amounts, and counts when the amounts are 0 and 1.  Without, the filter  *)
(* of queues and batches, keeps elements of the sequence only, none of     *)
(* those it should drop, and none twice.                                   *)
(*                                                                         *)
(* The library's induction theorems take an operator, which the provers    *)
(* cannot instantiate.  Here induction is over a set of numbers instead:   *)
(* NatLessThanWellFounded and WFMin speak of sets only.                    *)
(***************************************************************************)
EXTENDS Integers, FiniteSets, Filters, Functions, FiniteSetTheorems, WellFoundedInduction, TLAPS

\* A set of naturals has a least one.
LEMMA LeastNatural ==
  ASSUME NEW B \in SUBSET Nat, B # {}
  PROVE  \E m \in B : \A k \in B : m <= k
<1>1. PICK m \in B : \A k \in B : ~(<<k, m>> \in OpToRel(<, Nat))
  BY NatLessThanWellFounded, WFMin
<1>2. \A k \in B : ~(k < m)
  BY <1>1 DEF OpToRel
<1> QED BY <1>2

\* Induction, with the property as a set.
LEMMA SetInduction ==
  ASSUME NEW G \in SUBSET Nat, 0 \in G, \A n \in G : n + 1 \in G
  PROVE  G = Nat
<1> DEFINE B == Nat \ G
<1> SUFFICES ASSUME B # {} PROVE FALSE
  OBVIOUS
<1>1. PICK m \in B : \A k \in B : m <= k
  BY LeastNatural
<1>2. m - 1 \in G
  BY <1>1
<1> QED BY <1>1, <1>2

\* The subsets of a finite set can be counted, and lose one with an element.
LEMMA Subsets ==
  ASSUME NEW S, IsFiniteSet(S)
  PROVE  /\ \A T \in SUBSET S : IsFiniteSet(T) /\ Cardinality(T) \in Nat
         /\ \A T \in SUBSET S : Cardinality(T) = 0 <=> T = {}
         /\ \A T \in SUBSET S : \A x \in T :
              T \ {x} \in SUBSET S /\ Cardinality(T \ {x}) = Cardinality(T) - 1
<1>1. \A T \in SUBSET S : IsFiniteSet(T) /\ Cardinality(T) \in Nat
  BY FS_Subset, FS_CardinalityType
<1>2. \A T \in SUBSET S : Cardinality(T) = 0 <=> T = {}
  BY <1>1, FS_EmptySet
<1>3. \A T \in SUBSET S : \A x \in T :
        T \ {x} \in SUBSET S /\ Cardinality(T \ {x}) = Cardinality(T) - 1
  BY <1>1, FS_RemoveElement
<1> QED BY <1>1, <1>2, <1>3

\* The element the fold takes first
Chosen(T) == CHOOSE x \in T : TRUE

\* g is the function the fold over S is defined by
Unfolds(f, S, g) ==
  g = [T \in SUBSET S |-> IF T = {} THEN 0 ELSE f[Chosen(T)] + g[T \ {Chosen(T)}]]

\* A set that is not empty has the element that is taken first.
LEMMA ChosenIn == \A T : T # {} => Chosen(T) \in T
BY DEF Chosen

\* The sum is the value at S of a function that unfolds over S.
LEMMA SumUnfolds ==
  ASSUME NEW f, NEW S
  PROVE  SumFunctionOnSet(f, S) = (CHOOSE g : Unfolds(f, S, g))[S]
BY Zenon DEF SumFunctionOnSet, FoldFunctionOnSet, MapThenFoldSet, Unfolds, Chosen

\* There is such a function: one for the sets of at most n elements, for every n.
LEMMA UnfoldingExists ==
  ASSUME NEW S, IsFiniteSet(S), NEW f, \A x \in S : f[x] \in Int
  PROVE  \E g : Unfolds(f, S, g)
<1> DEFINE Upto(n) == {T \in SUBSET S : Cardinality(T) <= n}
           Step(g, T) == IF T = {} THEN 0 ELSE f[Chosen(T)] + g[T \ {Chosen(T)}]
           Good == {n \in Nat : \E g : g = [T \in Upto(n) |-> Step(g, T)]}
<1>1. \A T \in SUBSET S : IsFiniteSet(T) /\ Cardinality(T) \in Nat
  BY FS_Subset, FS_CardinalityType
<1>2. \A T \in SUBSET S : T # {} =>
        /\ T \ {Chosen(T)} \in SUBSET S
        /\ Cardinality(T \ {Chosen(T)}) = Cardinality(T) - 1
  BY <1>1, FS_RemoveElement, ChosenIn
<1>3. 0 \in Good
  <2> DEFINE g == [T \in Upto(0) |-> 0]
  <2>1. \A T \in Upto(0) : T = {}
    BY <1>1, FS_EmptySet
  <2>2. g = [T \in Upto(0) |-> Step(g, T)]
    BY <2>1
  <2> QED BY <2>2
<1>4. \A n \in Nat : n \in Good => n + 1 \in Good
  <2> SUFFICES ASSUME NEW n \in Nat, n \in Good PROVE n + 1 \in Good
    OBVIOUS
  <2>1. PICK g : g = [T \in Upto(n) |-> Step(g, T)]
    OBVIOUS
  <2> DEFINE h == [T \in Upto(n + 1) |-> Step(g, T)]
  <2>2. \A T \in Upto(n) : h[T] = g[T]
    <3>1. \A T \in Upto(n) : T \in Upto(n + 1)
      BY <1>1
    <3>2. \A T \in Upto(n) : g[T] = Step(g, T)
      BY <2>1, Zenon
    <3> QED BY <3>1, <3>2, Zenon
  <2>3. \A T \in Upto(n + 1) : T # {} => T \ {Chosen(T)} \in Upto(n)
    BY <1>1, <1>2
  <2>4. \A T \in Upto(n + 1) : Step(g, T) = Step(h, T)
    BY <2>2, <2>3
  <2>5. h = [T \in Upto(n + 1) |-> Step(h, T)]
    BY <2>4, Zenon
  <2>6. \E x : x = [T \in Upto(n + 1) |-> Step(x, T)]
    <3> HIDE DEF h, Step, Upto
    <3> QED BY <2>5
  <2>7. n + 1 \in Nat
    OBVIOUS
  <2> QED BY <2>6, <2>7, Zenon
<1>5. Good = Nat
  <2>1. Good \in SUBSET Nat
    OBVIOUS
  <2> HIDE DEF Good
  <2> QED BY <1>3, <1>4, <2>1, SetInduction
<1>6. PICK g : g = [T \in Upto(Cardinality(S)) |-> Step(g, T)]
  BY <1>1, <1>5
<1>7. Upto(Cardinality(S)) = SUBSET S
  BY FS_Subset
<1> QED BY <1>6, <1>7, Zenon DEF Unfolds

\* The order does not matter: any element can be taken first.
LEMMA AnyElement ==
  ASSUME NEW S, IsFiniteSet(S), NEW f, \A x \in S : f[x] \in Int,
         NEW g, Unfolds(f, S, g)
  PROVE  /\ \A T \in SUBSET S : g[T] \in Int
         /\ \A T \in SUBSET S : \A x \in T : g[T] = f[x] + g[T \ {x}]
<1>0. \A T \in SUBSET S : g[T] = IF T = {} THEN 0 ELSE f[Chosen(T)] + g[T \ {Chosen(T)}]
  BY Zenon DEF Unfolds
<1>1. /\ g[{}] = 0
      /\ \A T \in SUBSET S : T # {} => Chosen(T) \in T /\ g[T] = f[Chosen(T)] + g[T \ {Chosen(T)}]
  BY <1>0, ChosenIn
<1>2. \A T \in SUBSET S : IsFiniteSet(T) /\ Cardinality(T) \in Nat
  BY Subsets
<1>3. \A T \in SUBSET S : \A x \in T :
        T \ {x} \in SUBSET S /\ Cardinality(T \ {x}) = Cardinality(T) - 1
  BY Subsets
<1>4. \A T \in SUBSET S : Cardinality(T) = 0 <=> T = {}
  BY Subsets
<1> DEFINE Sized(n) == {T \in SUBSET S : Cardinality(T) = n}
           Typed == {n \in Nat : \A T \in Sized(n) : g[T] \in Int}
           Swaps == {n \in Nat : \A T \in Sized(n) : \A x \in T : g[T] = f[x] + g[T \ {x}]}
<1> HIDE DEF Swaps
<1>5. Typed = Nat
  <2>0. \A T \in Sized(0) : g[T] = 0
    BY <1>0, <1>4
  <2>1. Typed \in SUBSET Nat /\ 0 \in Typed
    BY <2>0
  <2>2. ASSUME NEW n \in Typed PROVE n + 1 \in Typed
    <3>1. ASSUME NEW T \in Sized(n + 1) PROVE g[T] \in Int
      <4>1. T # {} /\ Chosen(T) \in T /\ g[T] = f[Chosen(T)] + g[T \ {Chosen(T)}]
        BY <1>1, <1>4
      <4>2. T \ {Chosen(T)} \in Sized(n)
        BY <1>3, <4>1
      <4> QED BY <4>1, <4>2
    <3> QED BY <3>1
  <2> HIDE DEF Typed
  <2> QED BY <2>1, <2>2, SetInduction
<1>6. \A T \in SUBSET S : g[T] \in Int
  BY <1>2, <1>5
<1> HIDE DEF Typed
<1> USE DEF Swaps
<1>7. Swaps = Nat
  <2>1. Swaps \in SUBSET Nat /\ 0 \in Swaps
    BY <1>4
  <2>2. ASSUME NEW n \in Swaps PROVE n + 1 \in Swaps
    <3> SUFFICES ASSUME NEW T \in Sized(n + 1), NEW x \in T PROVE g[T] = f[x] + g[T \ {x}]
      OBVIOUS
    <3> DEFINE p == Chosen(T)
               U == (T \ {p}) \ {x}
    <3>1. T # {} /\ p \in T /\ g[T] = f[p] + g[T \ {p}]
      BY <1>1, <1>4
    <3>2. T \ {x} \in Sized(n) /\ T \ {p} \in Sized(n) /\ U \in SUBSET S
      BY <1>3, <3>1
    <3>3. CASE x # p
      <4>1. g[T \ {p}] = f[x] + g[U]
        BY <3>2, <3>3
      <4>2. g[T \ {x}] = f[p] + g[(T \ {x}) \ {p}]
        BY <3>1, <3>2, <3>3
      <4>3. g[T \ {x}] = f[p] + g[U]
        <5>1. (T \ {x}) \ {p} = U
          OBVIOUS
        <5> QED BY <4>2, <5>1, Zenon
      <4>4. f[x] \in Int /\ f[p] \in Int /\ g[U] \in Int
        BY <1>6, <3>1, <3>2
      <4> HIDE DEF p, U, Swaps, Sized
      <4> QED BY <3>1, <4>1, <4>2, <4>3, <4>4
    <3> QED BY <3>1, <3>3
  <2> HIDE DEF Swaps
  <2> QED BY <2>1, <2>2, SetInduction
<1> QED BY <1>2, <1>6, <1>7

\* Smaller amounts unfold to smaller sums, also over different sets.
LEMMA UnfoldingMonotone ==
  ASSUME NEW S, IsFiniteSet(S), NEW f, \A x \in S : f[x] \in Int, NEW g, Unfolds(f, S, g),
         NEW R, IsFiniteSet(R), NEW e, \A x \in R : e[x] \in Int, NEW h, Unfolds(e, R, h),
         NEW U, U \subseteq S, U \subseteq R, \A x \in U : f[x] <= e[x]
  PROVE  g[U] <= h[U]
<1>1. /\ \A T \in SUBSET U : g[T] \in Int /\ h[T] \in Int
      /\ \A T \in SUBSET U : \A x \in T : g[T] = f[x] + g[T \ {x}] /\ h[T] = e[x] + h[T \ {x}]
  <2>1. \A T \in SUBSET U : T \in SUBSET S /\ T \in SUBSET R
    OBVIOUS
  <2> QED BY <2>1, AnyElement
<1>2. g[{}] = 0 /\ h[{}] = 0
  <2>1. {} \in SUBSET S /\ {} \in SUBSET R
    OBVIOUS
  <2> QED BY <2>1, Zenon DEF Unfolds
<1>3. IsFiniteSet(U)
  BY FS_Subset
<1>4. /\ \A T \in SUBSET U : Cardinality(T) \in Nat /\ (Cardinality(T) = 0 <=> T = {})
      /\ \A T \in SUBSET U : \A x \in T :
           T \ {x} \in SUBSET U /\ Cardinality(T \ {x}) = Cardinality(T) - 1
  BY <1>3, Subsets
<1> DEFINE Sized(n) == {T \in SUBSET U : Cardinality(T) = n}
           Good == {n \in Nat : \A T \in Sized(n) : g[T] <= h[T]}
<1>5. 0 \in Good
  <2>1. ASSUME NEW T \in Sized(0) PROVE g[T] <= h[T]
    <3>1. T = {}
      BY <1>4
    <3>2. g[T] = 0 /\ h[T] = 0
      BY <1>2, <3>1, Zenon
    <3> QED BY <3>2
  <2> QED BY <2>1
<1>6. \A n \in Good : n + 1 \in Good
  <2> SUFFICES ASSUME NEW n \in Good, NEW T \in Sized(n + 1) PROVE g[T] <= h[T]
    OBVIOUS
  <2>1. PICK x \in T : TRUE
    BY <1>4
  <2>2. T \ {x} \in Sized(n)
    BY <1>4
  <2>3. g[T \ {x}] <= h[T \ {x}]
    BY <2>2
  <2>4. x \in U /\ x \in S /\ x \in R /\ f[x] <= e[x] /\ f[x] \in Int /\ e[x] \in Int
    OBVIOUS
  <2>5. g[T \ {x}] \in Int /\ h[T \ {x}] \in Int
    BY <1>1, <2>2
  <2>6. g[T] = f[x] + g[T \ {x}] /\ h[T] = e[x] + h[T \ {x}]
    BY <1>1
  <2> QED BY <2>3, <2>4, <2>5, <2>6
<1>7. Good = Nat
  <2>1. Good \in SUBSET Nat
    OBVIOUS
  <2> HIDE DEF Good
  <2> QED BY <1>5, <1>6, <2>1, SetInduction
<1> QED BY <1>4, <1>7

\* The sum over a finite set unfolds.
LEMMA SumUnfolding ==
  ASSUME NEW S, IsFiniteSet(S), NEW f, \A x \in S : f[x] \in Int
  PROVE  \E g : Unfolds(f, S, g) /\ SumFunctionOnSet(f, S) = g[S]
<1> DEFINE g == CHOOSE g : Unfolds(f, S, g)
<1>1. Unfolds(f, S, g)
  BY UnfoldingExists, Zenon
<1>2. SumFunctionOnSet(f, S) = g[S]
  BY SumUnfolds
<1> HIDE DEF g
<1> QED BY <1>1, <1>2

-----------------------------------------------------------------------------
(* The facts to cite.                                                      *)

\* Larger amounts have a larger sum.
LEMMA SumMonotone ==
  ASSUME NEW S, IsFiniteSet(S), NEW f, NEW e,
         \A x \in S : f[x] \in Int /\ e[x] \in Int /\ f[x] <= e[x]
  PROVE  SumFunctionOnSet(f, S) <= SumFunctionOnSet(e, S)
<1>1. PICK g : Unfolds(f, S, g) /\ SumFunctionOnSet(f, S) = g[S]
  BY SumUnfolding
<1>2. PICK h : Unfolds(e, S, h) /\ SumFunctionOnSet(e, S) = h[S]
  BY SumUnfolding
<1>3. g[S] <= h[S]
  BY <1>1, <1>2, UnfoldingMonotone
<1> QED BY <1>1, <1>2, <1>3

\* A sum of integers is an integer.
LEMMA SumType ==
  ASSUME NEW S, IsFiniteSet(S), NEW f, \A x \in S : f[x] \in Int
  PROVE  SumFunctionOnSet(f, S) \in Int
<1>1. PICK g : Unfolds(f, S, g) /\ SumFunctionOnSet(f, S) = g[S]
  BY SumUnfolding
<1>2. S \in SUBSET S
  OBVIOUS
<1> QED BY <1>1, <1>2, AnyElement

\* The sum depends on the amounts of its set only.
LEMMA SumSame ==
  ASSUME NEW S, IsFiniteSet(S), NEW f, NEW e,
         \A x \in S : f[x] \in Int /\ e[x] = f[x]
  PROVE  SumFunctionOnSet(e, S) = SumFunctionOnSet(f, S)
<1>1. \A x \in S : f[x] \in Int /\ e[x] \in Int /\ f[x] <= e[x] /\ e[x] <= f[x]
  OBVIOUS
<1>2. SumFunctionOnSet(e, S) \in Int /\ SumFunctionOnSet(f, S) \in Int
  BY <1>1, SumType
<1>3. SumFunctionOnSet(e, S) <= SumFunctionOnSet(f, S) /\ SumFunctionOnSet(f, S) <= SumFunctionOnSet(e, S)
  BY <1>1, SumMonotone
<1> QED BY <1>2, <1>3

\* Nothing adds up to nothing.
LEMMA SumEmpty ==
  ASSUME NEW f PROVE SumFunctionOnSet(f, {}) = 0
<1>1. IsFiniteSet({})
  BY FS_EmptySet
<1>2. PICK g : Unfolds(f, {}, g) /\ SumFunctionOnSet(f, {}) = g[{}]
  BY <1>1, SumUnfolding
<1>3. {} \in SUBSET {}
  OBVIOUS
<1> QED BY <1>2, <1>3, Zenon DEF Unfolds

\* One element more adds its amount.
LEMMA SumRemove ==
  ASSUME NEW S, IsFiniteSet(S), NEW f, \A x \in S : f[x] \in Int, NEW z \in S
  PROVE  SumFunctionOnSet(f, S) = f[z] + SumFunctionOnSet(f, S \ {z})
<1>1. PICK g : Unfolds(f, S, g) /\ SumFunctionOnSet(f, S) = g[S]
  BY SumUnfolding
<1>2. \A T \in SUBSET S : g[T] \in Int
  BY <1>1, AnyElement
<1>3. \A T \in SUBSET S : \A x \in T : g[T] = f[x] + g[T \ {x}]
  <2>1. Unfolds(f, S, g)
    BY <1>1
  <2> SUFFICES ASSUME NEW T \in SUBSET S, NEW x \in T PROVE g[T] = f[x] + g[T \ {x}]
    OBVIOUS
  <2> QED BY <2>1, AnyElement
<1> DEFINE R == S \ {z}
<1>4. /\ IsFiniteSet(R) /\ R \subseteq S /\ S \in SUBSET S /\ R \in SUBSET S /\ R \in SUBSET R
      /\ \A y \in R : f[y] \in Int
  BY FS_RemoveElement
<1>5. g[S] = f[z] + g[R] /\ g[R] \in Int
  BY <1>2, <1>3, <1>4
<1> HIDE DEF R
<1>6. PICK h : Unfolds(f, R, h) /\ SumFunctionOnSet(f, R) = h[R]
  BY <1>4, SumUnfolding
<1>7. h[R] \in Int
  BY <1>4, <1>6, AnyElement
<1>8. \A y \in R : f[y] <= f[y]
  BY <1>4
<1>9. g[R] <= h[R] /\ h[R] <= g[R]
  BY <1>1, <1>4, <1>6, <1>8, UnfoldingMonotone
<1>10. g[R] = h[R]
  BY <1>5, <1>7, <1>9
<1> QED BY <1>1, <1>5, <1>6, <1>10 DEF R

\* More naturals have a larger sum.
LEMMA SumGrows ==
  ASSUME NEW S, IsFiniteSet(S), NEW f, \A x \in S : f[x] \in Nat, NEW T \in SUBSET S
  PROVE  SumFunctionOnSet(f, T) <= SumFunctionOnSet(f, S)
<1> DEFINE Above(n) == {V \in SUBSET S : Cardinality(V) = n /\ T \subseteq V}
           Good == {n \in Nat : \A V \in Above(n) : SumFunctionOnSet(f, T) <= SumFunctionOnSet(f, V)}
<1>1. \A V \in SUBSET S : IsFiniteSet(V) /\ Cardinality(V) \in Nat /\ SumFunctionOnSet(f, V) \in Int
  BY Subsets, SumType
<1>2. \A V \in SUBSET S : \A x \in V :
        /\ V \ {x} \in SUBSET S
        /\ Cardinality(V \ {x}) = Cardinality(V) - 1
        /\ SumFunctionOnSet(f, V) = f[x] + SumFunctionOnSet(f, V \ {x})
  <2>1. \A V \in SUBSET S : \A x \in V : f[x] \in Int
    OBVIOUS
  <2>2. \A V \in SUBSET S : \A x \in V : SumFunctionOnSet(f, V) = f[x] + SumFunctionOnSet(f, V \ {x})
    BY <1>1, <2>1, SumRemove, Zenon
  <2> QED BY <2>2, Subsets
<1>3. \A V \in SUBSET S : V = T => SumFunctionOnSet(f, T) <= SumFunctionOnSet(f, V)
  BY <1>1
<1>4. 0 \in Good
  <2>1. ASSUME NEW V \in Above(0) PROVE SumFunctionOnSet(f, T) <= SumFunctionOnSet(f, V)
    <3>1. V = {}
      BY Subsets
    <3>2. V = T
      BY <3>1
    <3> QED BY <1>3, <3>2, Zenon
  <2> QED BY <2>1
<1>5. \A n \in Good : n + 1 \in Good
  <2> SUFFICES ASSUME NEW n \in Good, NEW V \in Above(n + 1) PROVE SumFunctionOnSet(f, T) <= SumFunctionOnSet(f, V)
    OBVIOUS
  <2>1. CASE V = T
    BY <1>3, <2>1, Zenon
  <2>2. CASE V # T
    <3>1. PICK x \in V : x \notin T
      BY <2>2
    <3>2. V \ {x} \in Above(n)
      <4>1. V \in SUBSET S /\ Cardinality(V) = n + 1 /\ T \subseteq V /\ n \in Nat
        OBVIOUS
      <4>2. V \ {x} \in SUBSET S /\ Cardinality(V \ {x}) = n
        BY <1>2, <4>1
      <4>3. T \subseteq V \ {x}
        BY <3>1, <4>1
      <4> QED BY <4>2, <4>3
    <3>3. SumFunctionOnSet(f, T) <= SumFunctionOnSet(f, V \ {x})
      BY <3>2
    <3>4. /\ SumFunctionOnSet(f, V) = f[x] + SumFunctionOnSet(f, V \ {x})
          /\ f[x] \in Nat /\ SumFunctionOnSet(f, V \ {x}) \in Int /\ SumFunctionOnSet(f, T) \in Int
      BY <1>1, <1>2, <3>2
    <3> QED BY <3>3, <3>4
  <2> QED BY <2>1, <2>2
<1>6. Good = Nat
  <2>1. Good \in SUBSET Nat
    OBVIOUS
  <2> HIDE DEF Good
  <2> QED BY <1>4, <1>5, <2>1, SetInduction
<1>7. S \in Above(Cardinality(S)) /\ Cardinality(S) \in Nat
  BY <1>1
<1> QED BY <1>6, <1>7

\* Elements that add nothing or less make a sum no larger.
LEMMA SumBeyond ==
  ASSUME NEW S, IsFiniteSet(S), NEW f, \A x \in S : f[x] \in Int,
         NEW T \in SUBSET S, \A x \in S \ T : f[x] <= 0
  PROVE  SumFunctionOnSet(f, S) <= SumFunctionOnSet(f, T)
<1> DEFINE Above(n) == {V \in SUBSET S : Cardinality(V) = n /\ T \subseteq V}
           Good == {n \in Nat : \A V \in Above(n) : SumFunctionOnSet(f, V) <= SumFunctionOnSet(f, T)}
<1>1. \A V \in SUBSET S : IsFiniteSet(V) /\ Cardinality(V) \in Nat /\ SumFunctionOnSet(f, V) \in Int
  BY Subsets, SumType
<1>2. \A V \in SUBSET S : \A x \in V :
        /\ V \ {x} \in SUBSET S
        /\ Cardinality(V \ {x}) = Cardinality(V) - 1
        /\ SumFunctionOnSet(f, V) = f[x] + SumFunctionOnSet(f, V \ {x})
  <2>1. \A V \in SUBSET S : \A x \in V : f[x] \in Int
    OBVIOUS
  <2>2. \A V \in SUBSET S : \A x \in V : SumFunctionOnSet(f, V) = f[x] + SumFunctionOnSet(f, V \ {x})
    BY <1>1, <2>1, SumRemove, Zenon
  <2> QED BY <2>2, Subsets
<1>3. \A V \in SUBSET S : V = T => SumFunctionOnSet(f, V) <= SumFunctionOnSet(f, T)
  BY <1>1
<1>4. 0 \in Good
  <2>1. ASSUME NEW V \in Above(0) PROVE SumFunctionOnSet(f, V) <= SumFunctionOnSet(f, T)
    <3>1. V = {}
      BY Subsets
    <3>2. V = T
      BY <3>1
    <3> QED BY <1>3, <3>2, Zenon
  <2> QED BY <2>1
<1>5. \A n \in Good : n + 1 \in Good
  <2> SUFFICES ASSUME NEW n \in Good, NEW V \in Above(n + 1)
               PROVE  SumFunctionOnSet(f, V) <= SumFunctionOnSet(f, T)
    OBVIOUS
  <2>1. CASE V = T
    BY <1>3, <2>1, Zenon
  <2>2. CASE V # T
    <3>1. PICK x \in V : x \notin T
      BY <2>2
    <3>2. V \ {x} \in Above(n)
      <4>1. V \in SUBSET S /\ Cardinality(V) = n + 1 /\ T \subseteq V /\ n \in Nat
        OBVIOUS
      <4>2. V \ {x} \in SUBSET S /\ Cardinality(V \ {x}) = Cardinality(V) - 1
        BY <1>2, <4>1, Zenon
      <4>4. Cardinality(V \ {x}) = n
        BY <4>1, <4>2
      <4>3. T \subseteq V \ {x}
        BY <3>1, <4>1
      <4> QED BY <4>2, <4>3, <4>4
    <3>3. SumFunctionOnSet(f, V \ {x}) <= SumFunctionOnSet(f, T)
      BY <3>2
    <3>4. /\ SumFunctionOnSet(f, V) = f[x] + SumFunctionOnSet(f, V \ {x})
          /\ f[x] \in Int /\ f[x] <= 0
          /\ SumFunctionOnSet(f, V \ {x}) \in Int /\ SumFunctionOnSet(f, T) \in Int
      BY <1>1, <1>2, <3>1, <3>2
    <3> QED BY <3>3, <3>4
  <2> QED BY <2>1, <2>2
<1>6. Good = Nat
  <2>1. Good \in SUBSET Nat
    OBVIOUS
  <2> HIDE DEF Good
  <2> QED BY <1>4, <1>5, <2>1, SetInduction
<1>7. S \in Above(Cardinality(S)) /\ Cardinality(S) \in Nat
  BY <1>1
<1> QED BY <1>6, <1>7

\* Sums of naturals are naturals, a subset's no larger than the set's.
LEMMA SumSubset ==
  ASSUME NEW S, IsFiniteSet(S), NEW f, \A x \in S : f[x] \in Nat, NEW T \in SUBSET S
  PROVE  SumFunctionOnSet(f, T) \in Nat /\ SumFunctionOnSet(f, S) \in Nat /\ SumFunctionOnSet(f, T) <= SumFunctionOnSet(f, S)
<1>1. IsFiniteSet(T) /\ {} \in SUBSET T /\ \A x \in T : f[x] \in Nat
  BY FS_Subset
<1>2. 0 <= SumFunctionOnSet(f, T) /\ SumFunctionOnSet(f, T) <= SumFunctionOnSet(f, S)
  BY <1>1, SumGrows, SumEmpty
<1>3. SumFunctionOnSet(f, T) \in Int /\ SumFunctionOnSet(f, S) \in Int
  BY <1>1, SumType
<1> QED BY <1>2, <1>3

\* Some of the elements, with the amounts they had, add up to no more.
LEMMA SumOfSome ==
  ASSUME NEW S, IsFiniteSet(S), NEW f, \A x \in S : f[x] \in Nat,
         NEW T \in SUBSET S, NEW e, \A x \in T : e[x] = f[x]
  PROVE  SumFunctionOnSet(e, T) \in Nat /\ SumFunctionOnSet(e, T) <= SumFunctionOnSet(f, S)
<1>1. IsFiniteSet(T) /\ \A x \in T : f[x] \in Int /\ e[x] = f[x]
  BY FS_Subset
<1>2. SumFunctionOnSet(e, T) = SumFunctionOnSet(f, T)
  BY <1>1, SumSame
<1>3. /\ SumFunctionOnSet(f, T) \in Nat
      /\ SumFunctionOnSet(f, T) <= SumFunctionOnSet(f, S)
  BY SumSubset
<1> QED BY <1>2, <1>3

\* Some of the elements and one more add up to no more than all and that one.
LEMMA SumOfOneMore ==
  ASSUME NEW S, IsFiniteSet(S), NEW f, \A x \in S : f[x] \in Nat,
         NEW T, NEW z, T \ {z} \in SUBSET S,
         NEW e, \A x \in T \ {z} : e[x] = f[x], e[z] \in Nat
  PROVE  /\ SumFunctionOnSet(e, T) \in Nat
         /\ SumFunctionOnSet(e, T) <= SumFunctionOnSet(f, S) + e[z]
<1> DEFINE R == T \ {z}
<1>1. /\ SumFunctionOnSet(e, R) \in Nat /\ SumFunctionOnSet(f, S) \in Nat
      /\ SumFunctionOnSet(e, R) <= SumFunctionOnSet(f, S)
  <2>1. S \in SUBSET S
    OBVIOUS
  <2> QED BY <2>1, SumOfSome, SumSubset
<1>2. CASE z \in T
  <2>1. IsFiniteSet(R \cup {z}) /\ R \cup {z} = T
    <3>1. IsFiniteSet(R)
      BY FS_Subset
    <3> QED BY <1>2, <3>1, FS_AddElement
  <2>2. IsFiniteSet(T)
    BY <2>1, Zenon
  <2>3. \A x \in T : e[x] \in Int
    OBVIOUS
  <2>4. SumFunctionOnSet(e, T) = e[z] + SumFunctionOnSet(e, R)
    BY <1>2, <2>2, <2>3, SumRemove
  <2> HIDE DEF R
  <2> QED BY <1>1, <2>4
<1>3. CASE z \notin T
  <2>1. T = R
    BY <1>3
  <2>2. SumFunctionOnSet(e, T) = SumFunctionOnSet(e, R)
    BY <2>1, Zenon
  <2> HIDE DEF R
  <2> QED BY <1>1, <2>2
<1> QED BY <1>2, <1>3

\* Every subset of S can lose an element, and its sum loses that element's amount.
LEMMA SumSteps ==
  ASSUME NEW S, IsFiniteSet(S), NEW f, \A x \in S : f[x] \in Int
  PROVE  \A V \in SUBSET S :
           /\ SumFunctionOnSet(f, V) \in Int
           /\ \A x \in V : SumFunctionOnSet(f, V) = f[x] + SumFunctionOnSet(f, V \ {x})
<1>1. \A V \in SUBSET S : IsFiniteSet(V) /\ \A x \in V : f[x] \in Int
  BY Subsets
<1>2. \A V \in SUBSET S : SumFunctionOnSet(f, V) \in Int
  BY <1>1, SumType
<1>3. \A V \in SUBSET S : \A x \in V : SumFunctionOnSet(f, V) = f[x] + SumFunctionOnSet(f, V \ {x})
  BY <1>1, SumRemove, Zenon
<1> QED BY <1>2, <1>3

\* Induction over the subsets of a finite set, with the property as a set of subsets.
LEMMA SubsetInduction ==
  ASSUME NEW S, IsFiniteSet(S), NEW G, {} \in G,
         \A V \in SUBSET S : \A x \in V : V \ {x} \in G => V \in G
  PROVE  S \in G
<1> DEFINE Good == {n \in Nat : \A V \in SUBSET S : Cardinality(V) = n => V \in G}
<1>1. 0 \in Good
  BY Subsets
<1>2. \A n \in Good : n + 1 \in Good
  <2> SUFFICES ASSUME NEW n \in Good, NEW V \in SUBSET S, Cardinality(V) = n + 1
               PROVE  V \in G
    OBVIOUS
  <2>1. n \in Nat /\ Cardinality(V) # 0
    OBVIOUS
  <2>2. PICK x \in V : TRUE
    BY <2>1, Subsets
  <2>3. V \ {x} \in SUBSET S /\ Cardinality(V \ {x}) = n
    BY <2>1, Subsets
  <2> QED BY <2>3
<1>3. Good = Nat
  <2>1. Good \in SUBSET Nat
    OBVIOUS
  <2> HIDE DEF Good
  <2> QED BY <1>1, <1>2, <2>1, SetInduction
<1>4. Cardinality(S) \in Nat /\ S \in SUBSET S
  BY Subsets
<1> QED BY <1>3, <1>4

\* Multiplication distributes over addition.
LEMMA Distributes ==
  ASSUME NEW a \in Int, NEW b \in Int, NEW c \in Int
  PROVE  a * (b + c) = a * b + a * c /\ a * b \in Int /\ a * c \in Int
BY Z3

\* The sum of a linear combination is that combination of the sums.
LEMMA SumLinear ==
  ASSUME NEW S, IsFiniteSet(S), NEW f, NEW g, NEW h, NEW c \in Int, NEW d \in Int,
         \A x \in S : f[x] \in Int /\ g[x] \in Int /\ h[x] = c * f[x] + d * g[x]
  PROVE  SumFunctionOnSet(h, S) = c * SumFunctionOnSet(f, S) + d * SumFunctionOnSet(g, S)
<1> DEFINE G == {V \in SUBSET S : SumFunctionOnSet(h, V)
                                    = c * SumFunctionOnSet(f, V) + d * SumFunctionOnSet(g, V)}
<1>1. \A x \in S : h[x] \in Int
  BY Distributes
<1>2. {} \in G
  BY SumEmpty
<1>3. ASSUME NEW V \in SUBSET S, NEW x \in V, V \ {x} \in G PROVE V \in G
  <2>1. PICK F, H, K : /\ F = SumFunctionOnSet(f, V \ {x})
                       /\ H = SumFunctionOnSet(g, V \ {x})
                       /\ K = SumFunctionOnSet(h, V \ {x})
    OBVIOUS
  <2>2. V \ {x} \in SUBSET S
    OBVIOUS
  <2>3. /\ SumFunctionOnSet(f, V) = f[x] + F /\ F \in Int
        /\ SumFunctionOnSet(g, V) = g[x] + H /\ H \in Int
        /\ SumFunctionOnSet(h, V) = h[x] + K /\ K \in Int
    BY <1>1, <2>1, <2>2, SumSteps
  <2>4. K = c * F + d * H
    BY <1>3, <2>1
  <2>5. /\ c * (f[x] + F) = c * f[x] + c * F /\ c * f[x] \in Int /\ c * F \in Int
        /\ d * (g[x] + H) = d * g[x] + d * H /\ d * g[x] \in Int /\ d * H \in Int
    BY <2>3, Distributes
  <2>6. h[x] + K = c * (f[x] + F) + d * (g[x] + H)
    BY <2>4, <2>5
  <2> QED BY <2>3, <2>6
<1>4. S \in G
  <2> HIDE DEF G
  <2> QED BY <1>2, <1>3, SubsetInduction
<1> QED BY <1>4

\* One amount changes, and the sum by as much.
LEMMA SumChange ==
  ASSUME NEW S, IsFiniteSet(S), NEW f, NEW e, NEW z \in S,
         \A x \in S : f[x] \in Int /\ e[x] \in Int, \A x \in S : x # z => e[x] = f[x]
  PROVE  /\ SumFunctionOnSet(f, S) \in Int
         /\ SumFunctionOnSet(e, S) = SumFunctionOnSet(f, S) - f[z] + e[z]
<1> DEFINE R == S \ {z}
<1>1. IsFiniteSet(R) /\ \A x \in R : f[x] \in Int /\ e[x] = f[x]
  BY FS_RemoveElement
<1>2. SumFunctionOnSet(e, R) = SumFunctionOnSet(f, R)
  BY <1>1, SumSame
<1>3. SumFunctionOnSet(f, R) \in Int
  BY <1>1, SumType
<1>4. SumFunctionOnSet(f, S) = f[z] + SumFunctionOnSet(f, R)
  BY SumRemove
<1>5. SumFunctionOnSet(e, S) = e[z] + SumFunctionOnSet(e, R)
  BY SumRemove
<1> HIDE DEF R
<1> QED BY <1>2, <1>3, <1>4, <1>5

\* The amounts of distinct things add up to those of what they stand for.
LEMMA SumImage ==
  ASSUME NEW T, IsFiniteSet(T), NEW g, NEW h, NEW f,
         \A x \in T : h[x] \in Int /\ f[g[x]] = h[x],
         \A x \in T : \A y \in T : g[x] = g[y] => x = y
  PROVE  SumFunctionOnSet(f, {g[x] : x \in T}) = SumFunctionOnSet(h, T)
<1> DEFINE Of(V) == {g[x] : x \in V}
           G == {V \in SUBSET T : SumFunctionOnSet(f, Of(V)) = SumFunctionOnSet(h, V)}
<1>1. IsFiniteSet(Of(T)) /\ \A p \in Of(T) : f[p] \in Int
  <2>1. [x \in T |-> g[x]] \in Surjection(T, Of(T))
    BY DEF Surjection
  <2> QED BY <2>1, FS_Surjection
<1>2. {} \in G
  <2>1. Of({}) = {}
    OBVIOUS
  <2> QED BY <2>1, SumEmpty
<1>3. ASSUME NEW V \in SUBSET T, NEW x \in V, V \ {x} \in G PROVE V \in G
  <2>1. Of(V) \ {g[x]} = Of(V \ {x}) /\ g[x] \in Of(V) /\ Of(V) \in SUBSET Of(T)
    <3>1. \A p \in Of(V \ {x}) : p \in Of(V) /\ p # g[x]
      OBVIOUS
    <3>2. \A p \in Of(V) : p # g[x] => p \in Of(V \ {x})
      OBVIOUS
    <3>3. g[x] \in Of(V) /\ Of(V) \subseteq Of(T)
      OBVIOUS
    <3> HIDE DEF Of
    <3> QED BY <3>1, <3>2, <3>3
  <2>2. SumFunctionOnSet(f, Of(V \ {x})) = SumFunctionOnSet(h, V \ {x})
    BY <1>3
  <2> HIDE DEF Of
  <2>3. SumFunctionOnSet(f, Of(V)) = f[g[x]] + SumFunctionOnSet(f, Of(V \ {x}))
    <3>1. PICK U, W, p : U = Of(T) /\ W = Of(V) /\ p = g[x]
      OBVIOUS
    <3>2. IsFiniteSet(U) /\ (\A q \in U : f[q] \in Int) /\ W \in SUBSET U /\ p \in W
      BY <1>1, <2>1, <3>1
    <3>3. IsFiniteSet(W) /\ \A q \in W : f[q] \in Int
      BY <3>2, FS_Subset
    <3>4. SumFunctionOnSet(f, W) = f[p] + SumFunctionOnSet(f, W \ {p})
      BY <3>2, <3>3, SumRemove
    <3>5. W \ {p} = Of(V \ {x})
      BY <2>1, <3>1
    <3> QED BY <3>1, <3>4, <3>5, Zenon
  <2>4. SumFunctionOnSet(h, V) = h[x] + SumFunctionOnSet(h, V \ {x})
    BY SumSteps
  <2>5. SumFunctionOnSet(f, Of(V)) = SumFunctionOnSet(h, V)
    BY <2>2, <2>3, <2>4
  <2> QED BY <2>5
<1>4. T \in G
  <2> HIDE DEF G
  <2> QED BY <1>2, <1>3, SubsetInduction
<1>5. SumFunctionOnSet(f, Of(T)) = SumFunctionOnSet(h, T)
  BY <1>4
<1> QED BY <1>5

\* A sum of ones counts.
LEMMA SumCounts ==
  ASSUME NEW S, IsFiniteSet(S), NEW T \in SUBSET S, NEW f,
         \A x \in S : f[x] = IF x \in T THEN 1 ELSE 0
  PROVE  SumFunctionOnSet(f, S) = Cardinality(T)
<1> DEFINE G == {V \in SUBSET S : SumFunctionOnSet(f, V) = Cardinality(V \cap T)}
<1>1. \A x \in S : f[x] \in Int
  OBVIOUS
<1>2. {} \in G
  <2>1. {} \cap T = {} /\ Cardinality({}) = 0
    BY FS_EmptySet
  <2>2. SumFunctionOnSet(f, {}) = Cardinality({} \cap T)
    BY <2>1, SumEmpty
  <2> QED BY <2>2
<1>3. ASSUME NEW V \in SUBSET S, NEW x \in V, V \ {x} \in G PROVE V \in G
  <2>1. SumFunctionOnSet(f, V) = f[x] + SumFunctionOnSet(f, V \ {x})
    BY <1>1, SumSteps
  <2>2. SumFunctionOnSet(f, V \ {x}) = Cardinality((V \ {x}) \cap T)
    BY <1>3
  <2>3. V \cap T \in SUBSET S /\ Cardinality(V \cap T) \in Nat
    BY Subsets
  <2>4. CASE x \in T
    <3>1. (V \ {x}) \cap T = (V \cap T) \ {x} /\ x \in V \cap T
      BY <2>4
    <3>2. Cardinality((V \cap T) \ {x}) = Cardinality(V \cap T) - 1
      BY <2>3, <3>1, Subsets
    <3>3. f[x] = 1
      BY <2>4
    <3>4. Cardinality((V \ {x}) \cap T) = Cardinality(V \cap T) - 1
      BY <3>1, <3>2, Zenon
    <3>5. SumFunctionOnSet(f, V) = Cardinality(V \cap T)
      BY <2>1, <2>2, <2>3, <3>3, <3>4
    <3> QED BY <3>5
  <2>5. CASE x \notin T
    <3>1. (V \ {x}) \cap T = V \cap T
      BY <2>5
    <3>2. f[x] = 0
      BY <2>5
    <3> QED BY <2>1, <2>2, <2>3, <3>1, <3>2
  <2> QED BY <2>4, <2>5
<1>4. S \in G
  <2> HIDE DEF G
  <2> QED BY <1>2, <1>3, SubsetInduction
<1>5. S \cap T = T
  OBVIOUS
<1> QED BY <1>4, <1>5

\* Amounts of at most m add up to at most m times their number.
LEMMA SumAtMost ==
  ASSUME NEW S, IsFiniteSet(S), NEW f, NEW m \in Int, \A x \in S : f[x] \in Int /\ f[x] <= m
  PROVE  SumFunctionOnSet(f, S) <= m * Cardinality(S)
<1> DEFINE ones == [x \in S |-> 1]
           all == [x \in S |-> m]
<1>1. SumFunctionOnSet(ones, S) = Cardinality(S) /\ Cardinality(S) \in Nat
  <2>1. S \in SUBSET S /\ \A x \in S : ones[x] = IF x \in S THEN 1 ELSE 0
    OBVIOUS
  <2> HIDE DEF ones
  <2> QED BY <2>1, SumCounts, FS_CardinalityType
<1>2. SumFunctionOnSet(all, S) = m * SumFunctionOnSet(ones, S) + 0 * SumFunctionOnSet(ones, S)
  <2>1. \A x \in S : ones[x] \in Int /\ all[x] = m * ones[x] + 0 * ones[x]
    OBVIOUS
  <2> HIDE DEF ones, all
  <2> QED BY <2>1, SumLinear
<1>3. SumFunctionOnSet(f, S) <= SumFunctionOnSet(all, S)
  <2>1. \A x \in S : f[x] \in Int /\ all[x] \in Int /\ f[x] <= all[x]
    OBVIOUS
  <2> HIDE DEF all
  <2> QED BY <2>1, SumMonotone
<1> HIDE DEF ones, all
<1>4. SumFunctionOnSet(all, S) = m * Cardinality(S)
  <2>1. m * Cardinality(S) \in Int
    BY <1>1, Distributes
  <2> QED BY <1>1, <1>2, <2>1
<1> QED BY <1>3, <1>4

-----------------------------------------------------------------------------
(* Filtered sequences.                                                     *)

\* The function Without is defined by
Filters(s, S, g) == g = [i \in 0..Len(s) |-> Kept(s, S, g, i)]

\* There is such a function: one for the first n elements, for every n.
LEMMA FilterExists ==
  ASSUME NEW C, NEW s \in Seq(C), NEW S
  PROVE  \E g : Filters(s, S, g)
<1> DEFINE Good == {n \in Nat : \E g : g = [i \in 0..n |-> Kept(s, S, g, i)]}
<1>1. 0 \in Good
  <2> DEFINE g == [i \in 0..0 |-> <<>>]
  <2>1. g = [i \in 0..0 |-> Kept(s, S, g, i)]
    BY DEF Kept
  <2> QED BY <2>1
<1>2. \A n \in Nat : n \in Good => n + 1 \in Good
  <2> SUFFICES ASSUME NEW n \in Nat, n \in Good PROVE n + 1 \in Good
    OBVIOUS
  <2>1. PICK g : g = [i \in 0..n |-> Kept(s, S, g, i)]
    OBVIOUS
  <2> DEFINE h == [i \in 0..(n + 1) |-> Kept(s, S, g, i)]
  <2>2. \A i \in 0..n : i \in 0..(n + 1)
    OBVIOUS
  <2>3. \A i \in 0..n : h[i] = g[i]
    <3>1. \A i \in 0..n : g[i] = Kept(s, S, g, i)
      BY <2>1, Zenon
    <3> QED BY <2>2, <3>1, Zenon
  <2>4. \A i \in 0..(n + 1) : i # 0 => i - 1 \in 0..n
    OBVIOUS
  <2> HIDE DEF h
  <2>5. \A i \in 0..(n + 1) : Kept(s, S, g, i) = Kept(s, S, h, i)
    <3> SUFFICES ASSUME NEW i \in 0..(n + 1) PROVE Kept(s, S, g, i) = Kept(s, S, h, i)
      OBVIOUS
    <3>1. i # 0 => h[i - 1] = g[i - 1]
      BY <2>3, <2>4, Zenon
    <3> QED BY <3>1, Zenon DEF Kept
  <2>6. h = [i \in 0..(n + 1) |-> Kept(s, S, h, i)]
    BY <2>5, Zenon DEF h
  <2>7. n + 1 \in Nat /\ \E x : x = [i \in 0..(n + 1) |-> Kept(s, S, x, i)]
    BY <2>6
  <2> QED BY <2>7, Zenon
<1>3. Good = Nat
  <2>1. Good \in SUBSET Nat
    OBVIOUS
  <2> HIDE DEF Good
  <2> QED BY <1>1, <1>2, <2>1, SetInduction
<1>4. Len(s) \in Good
  BY <1>3
<1> QED BY <1>4, Zenon DEF Filters

\* The equations of the function behind Without.
LEMMA FilterEquations ==
  ASSUME NEW C, NEW s \in Seq(C), NEW S
  PROVE  \E g : /\ Without(s, S) = g[Len(s)]
                /\ \A i \in 0..Len(s) : g[i] = IF i = 0 THEN <<>>
                                               ELSE IF s[i] \in S THEN g[i - 1] ELSE Append(g[i - 1], s[i])
<1> DEFINE g == CHOOSE f : Filters(s, S, f)
<1>1. Filters(s, S, g)
  BY FilterExists, Zenon
<1>2. Without(s, S) = g[Len(s)]
  BY Zenon DEF Without, Filters
<1> HIDE DEF g
<1>3. \A i \in 0..Len(s) : g[i] = IF i = 0 THEN <<>>
                                ELSE IF s[i] \in S THEN g[i - 1] ELSE Append(g[i - 1], s[i])
  BY <1>1, Zenon DEF Filters, Kept
<1> QED BY <1>2, <1>3

\* What Without keeps: elements of the sequence that are not to be dropped, each
\* as often as it was there if that was once.
LEMMA WithoutKeeps ==
  ASSUME NEW C, NEW s \in Seq(C), NEW S
  PROVE  /\ Without(s, S) \in Seq(C)
         /\ \A k \in 1..Len(Without(s, S)) :
              \E i \in 1..Len(s) : Without(s, S)[k] = s[i] /\ s[i] \notin S
         /\ (\A i, j \in 1..Len(s) : s[i] = s[j] => i = j) =>
              \A k, l \in 1..Len(Without(s, S)) : Without(s, S)[k] = Without(s, S)[l] => k = l
<1>0. PICK g : /\ Without(s, S) = g[Len(s)]
               /\ \A i \in 0..Len(s) : g[i] = IF i = 0 THEN <<>>
                                              ELSE IF s[i] \in S THEN g[i - 1] ELSE Append(g[i - 1], s[i])
  BY FilterEquations
<1>2. Without(s, S) = g[Len(s)]
  BY <1>0
<1>3. \A i \in 0..Len(s) : g[i] = IF i = 0 THEN <<>>
                                ELSE IF s[i] \in S THEN g[i - 1] ELSE Append(g[i - 1], s[i])
  BY <1>0
<1> DEFINE Once == \A i, j \in 1..Len(s) : s[i] = s[j] => i = j
           From(w, n) == /\ w \in Seq(C)
                         /\ \A k \in 1..Len(w) : \E i \in 1..n : w[k] = s[i] /\ s[i] \notin S
                         /\ Once => \A k, l \in 1..Len(w) : w[k] = w[l] => k = l
           Good == {n \in Nat : n <= Len(s) => From(g[n], n)}
<1>4. 0 \in Good
  <2>1. g[0] = <<>>
    BY <1>3
  <2>2. <<>> \in Seq(C) /\ 1..Len(<<>>) = {}
    OBVIOUS
  <2>3. From(<<>>, 0)
    BY <2>2
  <2> HIDE DEF From
  <2> QED BY <2>1, <2>3
<1>5. \A n \in Good : n + 1 \in Good
  <2> SUFFICES ASSUME NEW n \in Nat, n + 1 <= Len(s), From(g[n], n) PROVE From(g[n + 1], n + 1)
    <3>1. Len(s) \in Nat
      OBVIOUS
    <3> HIDE DEF From
    <3> QED BY <3>1
  <2> DEFINE w == g[n]
             x == s[n + 1]
  <2>1. g[n + 1] = IF x \in S THEN w ELSE Append(w, x)
    BY <1>3
  <2>2. x \in C /\ w \in Seq(C) /\ Len(w) \in Nat
    OBVIOUS
  <2>3. CASE x \in S
    <3>1. g[n + 1] = w /\ \A i \in 1..n : i \in 1..(n + 1)
      BY <2>1, <2>3
    <3> QED BY <3>1
  <2>4. CASE x \notin S
    <3>1. g[n + 1] = Append(w, x)
      BY <2>1, <2>4
    <3> HIDE DEF w
    <3> DEFINE v == Append(w, x)
    <3>2. /\ v \in Seq(C) /\ Len(v) = Len(w) + 1 /\ v[Len(w) + 1] = x
          /\ \A k \in 1..Len(w) : v[k] = w[k]
      BY <2>2
    <3> HIDE DEF v
    <3>3. \A k \in 1..Len(v) : \E i \in 1..(n + 1) : v[k] = s[i] /\ s[i] \notin S
      <4>1. \A k \in 1..Len(w) : \E i \in 1..n : w[k] = s[i] /\ s[i] \notin S
        BY DEF w
      <4> SUFFICES ASSUME NEW k \in 1..Len(v)
                   PROVE  \E i \in 1..(n + 1) : v[k] = s[i] /\ s[i] \notin S
        OBVIOUS
      <4>2. CASE k \in 1..Len(w)
        <5>1. PICK i \in 1..n : w[k] = s[i] /\ s[i] \notin S
          BY <4>1, <4>2
        <5> QED BY <3>2, <4>2, <5>1
      <4>3. CASE k = Len(w) + 1
        BY <2>4, <3>2, <4>3
      <4> QED BY <2>2, <3>2, <4>2, <4>3
    <3>4. Once => \A k, l \in 1..Len(v) : v[k] = v[l] => k = l
      <4>1. \A k \in 1..Len(w) : \E i \in 1..n : w[k] = s[i]
        BY DEF w
      <4>2. Once => \A k, l \in 1..Len(w) : w[k] = w[l] => k = l
        BY DEF w
      <4>3. ASSUME Once, NEW k \in 1..Len(w) PROVE w[k] # x
        <5>1. PICK i \in 1..n : w[k] = s[i]
          BY <4>1
        <5>2. i \in 1..Len(s) /\ n + 1 \in 1..Len(s) /\ i # n + 1
          OBVIOUS
        <5> QED BY <4>3, <5>1, <5>2
      <4> SUFFICES ASSUME Once, NEW k \in 1..Len(v), NEW l \in 1..Len(v), v[k] = v[l] PROVE k = l
        OBVIOUS
      <4> HIDE DEF Once, x
      <4>4. /\ k \in 1..Len(w) \/ k = Len(w) + 1
            /\ l \in 1..Len(w) \/ l = Len(w) + 1
        BY <2>2, <3>2
      <4>5. CASE k \in 1..Len(w) /\ l \in 1..Len(w)
        BY <3>2, <4>2, <4>5
      <4>6. CASE k \in 1..Len(w) /\ l = Len(w) + 1
        BY <3>2, <4>3, <4>6
      <4>7. CASE k = Len(w) + 1 /\ l \in 1..Len(w)
        BY <3>2, <4>3, <4>7
      <4> QED BY <4>4, <4>5, <4>6, <4>7
    <3> QED BY <3>1, <3>2, <3>3, <3>4 DEF v
  <2> QED BY <2>3, <2>4
<1>6. Good = Nat
  <2>1. Good \in SUBSET Nat
    OBVIOUS
  <2> HIDE DEF Good
  <2> QED BY <1>4, <1>5, <2>1, SetInduction
<1>7. From(g[Len(s)], Len(s))
  <2>1. Len(s) \in Good
    BY <1>6
  <2> QED BY <2>1
<1> QED BY <1>2, <1>7

\* One element more is added at the end or dropped.
LEMMA WithoutAppend ==
  ASSUME NEW C, NEW s \in Seq(C), NEW x \in C, NEW S
  PROVE  Without(Append(s, x), S) = IF x \in S THEN Without(s, S) ELSE Append(Without(s, S), x)
<1> DEFINE t == Append(s, x)
<1>1. /\ t \in Seq(C) /\ Len(s) \in Nat /\ Len(t) = Len(s) + 1 /\ t[Len(s) + 1] = x
      /\ \A i \in 1..Len(s) : t[i] = s[i]
  OBVIOUS
<1> HIDE DEF t
<1>2. PICK g : /\ Without(s, S) = g[Len(s)]
               /\ \A i \in 0..Len(s) : g[i] = IF i = 0 THEN <<>>
                                              ELSE IF s[i] \in S THEN g[i - 1] ELSE Append(g[i - 1], s[i])
  BY FilterEquations
<1>3. PICK h : /\ Without(t, S) = h[Len(t)]
               /\ \A i \in 0..Len(t) : h[i] = IF i = 0 THEN <<>>
                                              ELSE IF t[i] \in S THEN h[i - 1] ELSE Append(h[i - 1], t[i])
  BY <1>1, FilterEquations
<1> DEFINE Good == {n \in Nat : n <= Len(s) => h[n] = g[n]}
<1>4. 0 \in Good
  <2>1. g[0] = <<>> /\ h[0] = <<>>
    BY <1>1, <1>2, <1>3
  <2> QED BY <2>1
<1>5. \A n \in Good : n + 1 \in Good
  <2> SUFFICES ASSUME NEW n \in Nat, n + 1 <= Len(s), h[n] = g[n] PROVE h[n + 1] = g[n + 1]
    BY <1>1
  <2>1. n + 1 \in 1..Len(s) /\ n + 1 \in 0..Len(s) /\ n + 1 \in 0..Len(t) /\ (n + 1) - 1 = n /\ n + 1 # 0
    BY <1>1
  <2>2. g[n + 1] = IF s[n + 1] \in S THEN g[n] ELSE Append(g[n], s[n + 1])
    BY <1>2, <2>1
  <2>3. h[n + 1] = IF t[n + 1] \in S THEN h[n] ELSE Append(h[n], t[n + 1])
    BY <1>3, <2>1
  <2>4. t[n + 1] = s[n + 1]
    BY <1>1, <2>1
  <2> QED BY <2>2, <2>3, <2>4, Zenon
<1>6. Good = Nat
  <2>1. Good \in SUBSET Nat
    OBVIOUS
  <2> HIDE DEF Good
  <2> QED BY <1>4, <1>5, <2>1, SetInduction
<1>7. h[Len(s)] = g[Len(s)]
  <2>1. Len(s) \in Good
    BY <1>1, <1>6
  <2> QED BY <1>1, <2>1
<1>8. h[Len(t)] = IF x \in S THEN h[Len(s)] ELSE Append(h[Len(s)], x)
  <2>1. Len(t) \in 0..Len(t) /\ Len(t) # 0 /\ Len(t) - 1 = Len(s) /\ t[Len(t)] = x
    BY <1>1
  <2> QED BY <1>3, <2>1
<1>9. Without(t, S) = IF x \in S THEN Without(s, S) ELSE Append(Without(s, S), x)
  BY <1>2, <1>3, <1>7, <1>8, Zenon
<1> QED BY <1>9 DEF t

\* Nothing is dropped but what should be.
LEMMA WithoutHas ==
  ASSUME NEW C, NEW s \in Seq(C), NEW S, NEW j \in 1..Len(s), s[j] \notin S
  PROVE  \E k \in 1..Len(Without(s, S)) : Without(s, S)[k] = s[j]
<1>1. PICK g : /\ Without(s, S) = g[Len(s)]
               /\ \A i \in 0..Len(s) : g[i] = IF i = 0 THEN <<>>
                                              ELSE IF s[i] \in S THEN g[i - 1] ELSE Append(g[i - 1], s[i])
  BY FilterEquations
<1> DEFINE Has(w, n) == /\ w \in Seq(C)
                        /\ j <= n => \E k \in 1..Len(w) : w[k] = s[j]
           Good == {n \in Nat : n <= Len(s) => Has(g[n], n)}
<1>2. 0 \in Good
  <2>1. g[0] = <<>> /\ <<>> \in Seq(C) /\ ~(j <= 0)
    BY <1>1
  <2> QED BY <2>1
<1>3. \A n \in Good : n + 1 \in Good
  <2> SUFFICES ASSUME NEW n \in Nat, n + 1 <= Len(s), Has(g[n], n) PROVE Has(g[n + 1], n + 1)
    <3>1. Len(s) \in Nat
      OBVIOUS
    <3> HIDE DEF Has
    <3> QED BY <3>1
  <2> DEFINE w == g[n]
             x == s[n + 1]
  <2>1. g[n + 1] = IF x \in S THEN w ELSE Append(w, x)
    BY <1>1
  <2>2. x \in C /\ w \in Seq(C) /\ Len(w) \in Nat
    OBVIOUS
  <2>3. j <= n => \E k \in 1..Len(w) : w[k] = s[j]
    OBVIOUS
  <2>4. j <= n + 1 /\ ~(j <= n) => j = n + 1
    OBVIOUS
  <2>5. CASE x \in S
    <3>1. g[n + 1] = w /\ j # n + 1
      BY <2>1, <2>5
    <3> HIDE DEF w, x
    <3> QED BY <2>2, <2>3, <2>4, <3>1
  <2>6. CASE x \notin S
    <3> DEFINE v == Append(w, x)
    <3>1. g[n + 1] = v
      BY <2>1, <2>6
    <3> HIDE DEF w
    <3>2. /\ v \in Seq(C) /\ Len(v) = Len(w) + 1 /\ v[Len(w) + 1] = x
          /\ \A k \in 1..Len(w) : v[k] = w[k] /\ k \in 1..Len(v)
      BY <2>2
    <3> HIDE DEF v
    <3>3. j <= n => \E k \in 1..Len(v) : v[k] = s[j]
      BY <2>3, <3>2
    <3>4. j = n + 1 => \E k \in 1..Len(v) : v[k] = s[j]
      <4>1. Len(w) + 1 \in 1..Len(v)
        BY <2>2, <3>2
      <4> QED BY <3>2, <4>1
    <3>5. Has(v, n + 1)
      BY <2>4, <3>2, <3>3, <3>4
    <3> HIDE DEF Has
    <3> QED BY <3>1, <3>5
  <2> QED BY <2>5, <2>6
<1>4. Good = Nat
  <2>1. Good \in SUBSET Nat
    OBVIOUS
  <2> HIDE DEF Good
  <2> QED BY <1>2, <1>3, <2>1, SetInduction
<1>5. Has(g[Len(s)], Len(s))
  <2>1. Len(s) \in Good /\ Len(s) \in Nat
    BY <1>4
  <2> QED BY <2>1
<1> QED BY <1>1, <1>5

-----------------------------------------------------------------------------
(* Multiples, for times in steps of m *)

\* Quotient and remainder.
LEMMA DivMod ==
  ASSUME NEW m \in Nat \ {0}, NEW a \in Nat
  PROVE  a = (a \div m) * m + (a % m) /\ a % m \in 0..(m - 1) /\ a \div m \in Nat
  BY Z3

\* Multiples are a step apart.
LEMMA Multiples ==
  ASSUME NEW m \in Nat \ {0}, NEW q \in Nat, NEW r \in Nat
  PROVE  (q >= r + 1 => q * m >= r * m + m) /\ q * m \in Nat
  BY Z3

\* A multiple beyond a is at or beyond the end of the step a is in.
LEMMA NextMultiple ==
  ASSUME NEW m \in Nat \ {0}, NEW a \in Nat, NEW t \in Nat, t % m = 0, t > a
  PROVE  t >= (a \div m) * m + m
<1> DEFINE q == a \div m
           r == t \div m
<1>1. t = r * m /\ r \in Nat
  BY DivMod
<1>2. a = q * m + (a % m) /\ a % m \in 0..(m - 1) /\ q \in Nat
  BY DivMod
<1> HIDE DEF q, r
<1>3. r >= q + 1
  <2> SUFFICES ASSUME r < q + 1 PROVE FALSE
    BY <1>1, <1>2
  <2>1. CASE q = r
    BY <1>1, <1>2, <2>1, Multiples
  <2>2. CASE q >= r + 1
    <3>1. q * m >= r * m + m /\ r * m \in Nat /\ q * m \in Nat
      BY <1>1, <1>2, <2>2, Multiples
    <3> QED BY <1>1, <1>2, <3>1
  <2> QED BY <1>1, <1>2, <2>1, <2>2
<1>4. r * m >= q * m + m
  BY <1>1, <1>2, <1>3, Multiples
<1> QED BY <1>1, <1>4 DEF q

\* Within less than one step there is one multiple.
LEMMA SameMultiple ==
  ASSUME NEW m \in Nat \ {0}, NEW a \in Nat, NEW b \in Nat,
         a % m = 0, b % m = 0, a <= b, b < a + m
  PROVE  a = b
<1> SUFFICES ASSUME a < b PROVE FALSE
  OBVIOUS
<1>1. b >= (a \div m) * m + m
  BY NextMultiple
<1>2. a = (a \div m) * m /\ (a \div m) * m \in Nat
  BY DivMod, Multiples
<1> QED BY <1>1, <1>2

\* A step after a multiple comes a multiple.
LEMMA MultiplePlus ==
  ASSUME NEW m \in Nat \ {0}, NEW a \in Nat, a % m = 0
  PROVE  (a + m) % m = 0
<1> DEFINE b == a + m
           q == a \div m
           r == b \div m
           s == b % m
<1>1. a = q * m /\ q \in Nat
  BY DivMod
<1>2. b = r * m + s /\ r \in Nat /\ s \in 0..(m - 1)
  BY DivMod, b \in Nat
<1>3. b = (q + 1) * m
  BY <1>1, Z3
<1> HIDE DEF q, r, b, s
<1>4. CASE r >= (q + 1) + 1
  BY <1>1, <1>2, <1>3, <1>4, Multiples
<1>5. CASE q + 1 >= r + 1
  BY <1>1, <1>2, <1>3, <1>5, Multiples
<1>6. CASE r = q + 1
  BY <1>1, <1>2, <1>3, <1>6 DEF s, b
<1> QED BY <1>1, <1>2, <1>4, <1>5, <1>6

\* What a bound on a quotient says of the dividend.
LEMMA QuotientBelow ==
  ASSUME NEW m \in Nat \ {0}, NEW a \in Nat, NEW k \in Nat, a \div m <= k
  PROVE  a < (k + 1) * m
<1> DEFINE q == a \div m
<1>1. a = q * m + (a % m) /\ a % m \in 0..(m - 1) /\ q \in Nat
  BY DivMod
<1>2. q <= k
  OBVIOUS
<1> HIDE DEF q
<1>3. (q + 1) * m = q * m + m /\ (k + 1) * m \in Nat /\ q * m \in Nat
  BY <1>1, Z3
<1>4. CASE q = k
  BY <1>1, <1>3, <1>4
<1>5. CASE k + 1 >= (q + 1) + 1
  BY <1>1, <1>3, <1>5, Multiples
<1> QED BY <1>1, <1>2, <1>4, <1>5

LEMMA QuotientAbove ==
  ASSUME NEW m \in Nat \ {0}, NEW a \in Nat, NEW k \in Nat, k <= a \div m
  PROVE  k * m <= a
<1> DEFINE q == a \div m
<1>1. a = q * m + (a % m) /\ a % m \in 0..(m - 1) /\ q \in Nat
  BY DivMod
<1>2. k <= q
  OBVIOUS
<1> HIDE DEF q
<1>3. k * m \in Nat /\ q * m \in Nat
  BY <1>1, Z3
<1>4. CASE q = k
  BY <1>1, <1>3, <1>4
<1>5. CASE q >= k + 1
  BY <1>1, <1>3, <1>5, Multiples
<1> QED BY <1>1, <1>2, <1>4, <1>5
=============================================================================
