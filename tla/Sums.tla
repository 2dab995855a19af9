-------------------------------- MODULE Sums --------------------------------
(***************************************************************************)
(* What SumFunction and Max compute, for finite sets of any size.  The     *)
(* induction is the least-number principle, taken from the well-founded    *)
(* order of the naturals: among the sets a claim would fail for there is   *)
(* one with the fewest elements.                                           *)
(***************************************************************************)
EXTENDS Integers, FiniteSets, FiniteSetsExt, Functions, TLAPS, FiniteSetTheorems,
        WellFoundedInduction

\* Every set of naturals that is not empty has a least element.
LEMMA LeastNumber ==
  ASSUME NEW T \in SUBSET Nat, T # {}
  PROVE  \E m \in T : \A k \in T : m <= k
<1> DEFINE R == OpToRel(<, Nat)
<1>1. IsWellFoundedOn(R, Nat)
  BY NatLessThanWellFounded
<1> HIDE DEF R
<1>2. \E x \in T : \A y \in T : ~ (<<y, x>> \in R)
  BY <1>1, WFMin
<1>3. \A i, j \in Nat : i < j => <<i, j>> \in R
  BY DEF R, OpToRel
<1>4. PICK x \in T : \A y \in T : ~ (<<y, x>> \in R)
  BY <1>2
<1>5. ASSUME NEW k \in T PROVE x <= k
  <2>1. k \in Nat /\ x \in Nat
    OBVIOUS
  <2>2. ~ (k < x)
    BY <1>3, <1>4, <2>1
  <2> QED BY <2>1, <2>2
<1> QED BY <1>5

-----------------------------------------------------------------------------
(* Sums *)

FirstOf(t) == CHOOSE x \in t : TRUE

IsSum(g, f, D) ==
  g = [t \in D |-> IF t = {} THEN 0 ELSE f[FirstOf(t)] + g[t \ {FirstOf(t)}]]

\* SumFunctionOnSet takes one of the functions that add up, if there is one.
LEMMA SumIsChosen ==
  ASSUME NEW f, NEW S, NEW g, IsSum(g, f, SUBSET S)
  PROVE  \E k : IsSum(k, f, SUBSET S) /\ SumFunctionOnSet(f, S) = k[S]
<1> DEFINE k == CHOOSE h : IsSum(h, f, SUBSET S)
<1>1. IsSum(k, f, SUBSET S)
  BY Zenon
<1>2. SumFunctionOnSet(f, S) = k[S]
  BY DEF SumFunctionOnSet, FoldFunctionOnSet, MapThenFoldSet, IsSum, FirstOf
<1> QED BY <1>1, <1>2

\* A sum of integers over a finite set exists: by the least number of
\* elements for which it would not.
LEMMA SumExists ==
  ASSUME NEW S, IsFiniteSet(S), NEW f, \A x \in S : f[x] \in Int
  PROVE  \E g : IsSum(g, f, SUBSET S)
<1> DEFINE Up(n) == {t \in SUBSET S : Cardinality(t) <= n}
           Bad == {n \in Nat : ~ \E g : IsSum(g, f, Up(n))}
<1>1. \A t \in SUBSET S : IsFiniteSet(t) /\ Cardinality(t) \in Nat
  BY FS_Subset, FS_CardinalityType
<1>2. Bad = {}
  <2> SUFFICES ASSUME NEW m \in Bad, \A k \in Bad : m <= k PROVE FALSE
    <3>1. Bad \in SUBSET Nat
      OBVIOUS
    <3> HIDE DEF Bad
    <3> QED BY <3>1, LeastNumber
  <2>1. m \in Nat /\ ~ \E g : IsSum(g, f, Up(m))
    OBVIOUS
  <2>2. CASE m = 0
    <3> DEFINE g == [t \in Up(0) |-> 0]
    <3>1. \A t \in Up(0) : t = {}
      BY <1>1, FS_EmptySet
    <3>2. IsSum(g, f, Up(0))
      BY <3>1 DEF IsSum
    <3> QED BY <2>1, <2>2, <3>2
  <2>3. CASE m # 0
    <3>1. m - 1 \in Nat /\ m - 1 \notin Bad
      <4>1. m - 1 \in Nat /\ ~ (m <= m - 1)
        BY <2>1, <2>3
      <4> HIDE DEF Bad
      <4> QED BY <4>1
    <3>2. PICK k : IsSum(k, f, Up(m - 1))
      BY <3>1
    <3> DEFINE g == [t \in Up(m) |-> IF t = {} THEN 0 ELSE f[FirstOf(t)] + k[t \ {FirstOf(t)}]]
    <3>3. ASSUME NEW t \in Up(m), t # {}
          PROVE  /\ FirstOf(t) \in t /\ t \ {FirstOf(t)} \in Up(m - 1)
                 /\ t \ {FirstOf(t)} \in Up(m)
      <4>1. FirstOf(t) \in t
        BY <3>3 DEF FirstOf
      <4>2. t \ {FirstOf(t)} \in SUBSET S /\ Cardinality(t \ {FirstOf(t)}) = Cardinality(t) - 1
        BY <1>1, <4>1, FS_RemoveElement
      <4>3. Cardinality(t) \in Nat /\ Cardinality(t) <= m
        BY <1>1
      <4>4. Cardinality(t) - 1 <= m - 1 /\ Cardinality(t) - 1 <= m
        BY <2>1, <4>3
      <4> QED BY <4>1, <4>2, <4>4
    <3>4. ASSUME NEW t \in Up(m - 1) PROVE k[t] = g[t]
      <4>1. t \in Up(m)
        <5>1. Cardinality(t) \in Nat /\ Cardinality(t) <= m - 1
          BY <1>1
        <5>2. Cardinality(t) <= m
          BY <2>1, <5>1
        <5> QED BY <5>2
      <4>2. k[t] = IF t = {} THEN 0 ELSE f[FirstOf(t)] + k[t \ {FirstOf(t)}]
        BY <3>2 DEF IsSum
      <4> QED BY <4>1, <4>2
    <3>5. IsSum(g, f, Up(m))
      <4>1. ASSUME NEW t \in Up(m)
            PROVE  g[t] = IF t = {} THEN 0 ELSE f[FirstOf(t)] + g[t \ {FirstOf(t)}]
        <5>1. CASE t = {}
          BY <5>1
        <5>2. CASE t # {}
          <6>1. g[t] = f[FirstOf(t)] + k[t \ {FirstOf(t)}]
            BY <5>2
          <6>2. k[t \ {FirstOf(t)}] = g[t \ {FirstOf(t)}]
            BY <3>3, <3>4, <5>2
          <6> QED BY <5>2, <6>1, <6>2
        <5> QED BY <5>1, <5>2
      <4>2. g = [t \in Up(m) |-> g[t]]
        OBVIOUS
      <4> HIDE DEF g
      <4> QED BY <4>1, <4>2 DEF IsSum
    <3> QED BY <2>1, <3>5
  <2> QED BY <2>2, <2>3
<1>3. Cardinality(S) \in Nat
  BY <1>1
<1>4. PICK g : IsSum(g, f, Up(Cardinality(S)))
  BY <1>2, <1>3
<1>5. Up(Cardinality(S)) = SUBSET S
  <2>1. \A t \in SUBSET S : Cardinality(t) <= Cardinality(S)
    BY FS_Subset
  <2> QED BY <2>1
<1> QED BY <1>4, <1>5

\* A sum at a set is that of the set's first element and of the others.
Unfolds(g, f, S) ==
  \A t \in SUBSET S :
    /\ t = {} => g[t] = 0
    /\ t # {} => /\ FirstOf(t) \in t /\ t \ {FirstOf(t)} \in SUBSET S
                 /\ g[t] = f[FirstOf(t)] + g[t \ {FirstOf(t)}]

\* What a sum is at a set of each kind.
LEMMA SumAt ==
  ASSUME NEW S, NEW f, NEW g, IsSum(g, f, SUBSET S)
  PROVE  Unfolds(g, f, S)
<1>1. \A t \in SUBSET S : g[t] = IF t = {} THEN 0 ELSE f[FirstOf(t)] + g[t \ {FirstOf(t)}]
  BY DEF IsSum
<1>2. \A t \in SUBSET S : t # {} => FirstOf(t) \in t
  BY DEF FirstOf
<1> QED BY <1>1, <1>2 DEF Unfolds

\* Two sums are the same at the sets whose elements have the same numbers.
Agree(g, f, S, k, e, T) ==
  \A t \in SUBSET S :
    (t \in SUBSET T /\ \A x \in t : f[x] = e[x] /\ f[x] \in Int)
      => g[t] = k[t] /\ g[t] \in Int

\* Sums over a set depend on the numbers of its elements only.
LEMMA SumsAgree ==
  ASSUME NEW S, IsFiniteSet(S), NEW f, NEW g, IsSum(g, f, SUBSET S),
         NEW T, NEW e, NEW k, IsSum(k, e, SUBSET T)
  PROVE  Agree(g, f, S, k, e, T)
<1>0. Unfolds(g, f, S) /\ Unfolds(k, e, T)
  BY SumAt
<1> DEFINE Same(t) == t \in SUBSET T /\ \A x \in t : f[x] = e[x] /\ f[x] \in Int
           Good(t) == g[t] = k[t] /\ g[t] \in Int
           Bad == {n \in Nat : \E t \in SUBSET S : Cardinality(t) = n /\ Same(t) /\ ~ Good(t)}
<1>1. \A t \in SUBSET S : IsFiniteSet(t) /\ Cardinality(t) \in Nat
  BY FS_Subset, FS_CardinalityType
<1>2. Bad = {}
  <2> SUFFICES ASSUME NEW m \in Bad, \A n \in Bad : m <= n PROVE FALSE
    <3>1. Bad \in SUBSET Nat
      OBVIOUS
    <3> HIDE DEF Bad
    <3> QED BY <3>1, LeastNumber
  <2>1. PICK t \in SUBSET S : Cardinality(t) = m /\ Same(t) /\ ~ Good(t)
    OBVIOUS
  <2>2. m \in Nat
    OBVIOUS
  <2>3. t # {}
    <3>1. t = {} => g[t] = 0 /\ k[t] = 0
      BY <1>0, <2>1 DEF Unfolds
    <3> QED BY <2>1, <3>1
  <2> DEFINE x == FirstOf(t)
             u == t \ {x}
  <2>4. /\ x \in t /\ u \in SUBSET S
        /\ g[t] = f[x] + g[u]
    BY <1>0, <2>3 DEF Unfolds
  <2>5. k[t] = e[x] + k[u]
    BY <1>0, <2>1, <2>3 DEF Unfolds
  <2>6. f[x] = e[x] /\ f[x] \in Int
    BY <2>1, <2>4
  <2>7. Cardinality(u) = m - 1 /\ m - 1 \in Nat
    <3>1. Cardinality(u) = m - 1 /\ Cardinality(u) \in Nat
      BY <1>1, <2>1, <2>4, FS_RemoveElement
    <3> QED BY <3>1
  <2>8. Same(u)
    BY <2>1
  <2>9. m - 1 \notin Bad
    <3>1. ~ (m <= m - 1)
      BY <2>2
    <3> HIDE DEF Bad
    <3> QED BY <3>1
  <2>10. Good(u)
    <3> HIDE DEF Same, Good, u
    <3> QED BY <2>4, <2>7, <2>8, <2>9
  <2> HIDE DEF u, x
  <2> QED BY <2>1, <2>4, <2>5, <2>6, <2>10
<1> QED BY <1>1, <1>2 DEF Agree

\* The elements may be added up in any order.
LEMMA SumAnyOrder ==
  ASSUME NEW S, IsFiniteSet(S), NEW f, \A x \in S : f[x] \in Int,
         NEW g, IsSum(g, f, SUBSET S)
  PROVE  \A t \in SUBSET S : \A x \in t : g[t] = f[x] + g[t \ {x}]
<1>0. Unfolds(g, f, S)
  BY SumAt
<1> DEFINE Good(t) == \A x \in t : g[t] = f[x] + g[t \ {x}]
           Bad == {n \in Nat : \E t \in SUBSET S : Cardinality(t) = n /\ ~ Good(t)}
<1>1. \A t \in SUBSET S : IsFiniteSet(t) /\ Cardinality(t) \in Nat
  BY FS_Subset, FS_CardinalityType
<1>2. \A t \in SUBSET S : g[t] \in Int
  <2>1. Agree(g, f, S, g, f, S)
    BY SumsAgree
  <2> QED BY <2>1 DEF Agree
<1>3. Bad = {}
  <2> SUFFICES ASSUME NEW m \in Bad, \A n \in Bad : m <= n PROVE FALSE
    <3>1. Bad \in SUBSET Nat
      OBVIOUS
    <3> HIDE DEF Bad
    <3> QED BY <3>1, LeastNumber
  <2>1. PICK t \in SUBSET S : Cardinality(t) = m /\ ~ Good(t)
    OBVIOUS
  <2>2. PICK x \in t : g[t] # f[x] + g[t \ {x}]
    BY <2>1
  <2> DEFINE y == FirstOf(t)
  <2>3. y \in t /\ t \ {y} \in SUBSET S /\ g[t] = f[y] + g[t \ {y}]
    BY <1>0, <2>2 DEF Unfolds
  <2>4. x # y
    BY <2>2, <2>3
  <2>5. ASSUME NEW z \in t PROVE Good(t \ {z})
    <3>1. t \ {z} \in SUBSET S /\ Cardinality(t \ {z}) = m - 1 /\ m - 1 \in Nat
      <4>1. Cardinality(t \ {z}) = m - 1 /\ Cardinality(t \ {z}) \in Nat
        BY <1>1, <2>1, FS_RemoveElement
      <4> QED BY <4>1
    <3>2. m - 1 \notin Bad
      <4>1. m \in Nat /\ ~ (m <= m - 1)
        OBVIOUS
      <4> HIDE DEF Bad
      <4> QED BY <4>1
    <3> HIDE DEF Good
    <3> QED BY <3>1, <3>2
  <2>6. (t \ {y}) \ {x} = (t \ {x}) \ {y}
    OBVIOUS
  <2> DEFINE w == (t \ {x}) \ {y}
  <2>7. g[t \ {y}] = f[x] + g[w]
    <3>1. x \in t \ {y} /\ Good(t \ {y})
      BY <2>3, <2>4, <2>5
    <3>2. g[t \ {y}] = f[x] + g[(t \ {y}) \ {x}]
      BY <3>1
    <3> QED BY <2>6, <3>2
  <2>8. g[t \ {x}] = f[y] + g[w]
    BY <2>3, <2>4, <2>5
  <2>9. f[x] \in Int /\ f[y] \in Int /\ g[w] \in Int
    BY <1>2, <2>3
  <2> HIDE DEF w, y
  <2> QED BY <2>2, <2>3, <2>7, <2>8, <2>9
<1> QED BY <1>1, <1>3

\* The sum over the empty set.
LEMMA SumEmpty ==
  ASSUME NEW f PROVE SumFunctionOnSet(f, {}) = 0
<1>1. IsFiniteSet({}) /\ \A x \in {} : f[x] \in Int
  BY FS_EmptySet
<1>2. PICK g : IsSum(g, f, SUBSET {})
  BY <1>1, SumExists
<1>3. PICK k : IsSum(k, f, SUBSET {}) /\ SumFunctionOnSet(f, {}) = k[{}]
  BY <1>2, SumIsChosen
<1>4. Unfolds(k, f, {})
  BY <1>3, SumAt
<1> QED BY <1>3, <1>4 DEF Unfolds

\* Sums of the same numbers are the same.
LEMMA SumSame ==
  ASSUME NEW S, IsFiniteSet(S), NEW f, NEW e, \A x \in S : f[x] = e[x] /\ f[x] \in Int
  PROVE  SumFunctionOnSet(f, S) = SumFunctionOnSet(e, S) /\ SumFunctionOnSet(f, S) \in Int
<1>1. PICK g : IsSum(g, f, SUBSET S) /\ SumFunctionOnSet(f, S) = g[S]
  BY SumExists, SumIsChosen
<1>2. PICK k : IsSum(k, e, SUBSET S) /\ SumFunctionOnSet(e, S) = k[S]
  <2>1. \A x \in S : e[x] \in Int
    OBVIOUS
  <2> QED BY <2>1, SumExists, SumIsChosen
<1>3. S \in SUBSET S
  OBVIOUS
<1>4. Agree(g, f, S, k, e, S)
  BY <1>1, <1>2, SumsAgree
<1> QED BY <1>1, <1>2, <1>3, <1>4 DEF Agree

\* The sum over a set with one more element.
LEMMA SumAdd ==
  ASSUME NEW S, IsFiniteSet(S), NEW y, y \notin S, NEW f, \A x \in S \cup {y} : f[x] \in Int
  PROVE  SumFunctionOnSet(f, S \cup {y}) = f[y] + SumFunctionOnSet(f, S)
<1> DEFINE T == S \cup {y}
<1>1. IsFiniteSet(T) /\ T \ {y} = S
  BY FS_AddElement
<1>2. PICK g : IsSum(g, f, SUBSET T) /\ SumFunctionOnSet(f, T) = g[T]
  BY <1>1, SumExists, SumIsChosen
<1>3. PICK k : IsSum(k, f, SUBSET S) /\ SumFunctionOnSet(f, S) = k[S]
  BY SumExists, SumIsChosen
<1>4. k[S] = g[S]
  <2>1. S \in SUBSET S /\ S \in SUBSET T
    OBVIOUS
  <2> HIDE DEF T
  <2>2. Agree(k, f, S, g, f, T)
    BY <1>2, <1>3, SumsAgree
  <2> QED BY <2>1, <2>2 DEF Agree
<1>5. g[T] = f[y] + g[T \ {y}]
  <2>1. y \in T /\ T \in SUBSET T /\ \A x \in T : f[x] \in Int
    OBVIOUS
  <2> HIDE DEF T
  <2> QED BY <1>1, <1>2, <2>1, SumAnyOrder
<1> HIDE DEF T
<1> QED BY <1>1, <1>2, <1>3, <1>4, <1>5 DEF T

\* The sum over a set and without one of its elements.
LEMMA SumWithout ==
  ASSUME NEW S, IsFiniteSet(S), NEW f, \A x \in S : f[x] \in Int, NEW y \in S
  PROVE  /\ SumFunctionOnSet(f, S) = f[y] + SumFunctionOnSet(f, S \ {y})
         /\ SumFunctionOnSet(f, S \ {y}) \in Int
<1> DEFINE T == S \ {y}
<1>1. IsFiniteSet(T) /\ y \notin T /\ T \cup {y} = S
  BY FS_Subset
<1>2. \A x \in T : f[x] = f[x] /\ f[x] \in Int
  OBVIOUS
<1> HIDE DEF T
<1>3. SumFunctionOnSet(f, T) \in Int
  BY <1>1, <1>2, SumSame
<1>4. SumFunctionOnSet(f, T \cup {y}) = f[y] + SumFunctionOnSet(f, T)
  BY <1>1, SumAdd
<1> QED BY <1>1, <1>3, <1>4 DEF T

-----------------------------------------------------------------------------
(* Maxima *)

\* A finite set of naturals that is not empty has a greatest element, and
\* that is its Max.
LEMMA MaxIsGreatest ==
  ASSUME NEW S \in SUBSET Nat, IsFiniteSet(S), S # {}
  PROVE  Max(S) \in S /\ \A x \in S : Max(S) >= x
<1> DEFINE Has(t) == t = {} \/ \E x \in t : \A y \in t : x >= y
           Bad == {n \in Nat : \E t \in SUBSET S : Cardinality(t) = n /\ ~ Has(t)}
<1>1. \A t \in SUBSET S : IsFiniteSet(t) /\ Cardinality(t) \in Nat
  BY FS_Subset, FS_CardinalityType
<1>2. Bad = {}
  <2> SUFFICES ASSUME NEW m \in Bad, \A n \in Bad : m <= n PROVE FALSE
    <3>1. Bad \in SUBSET Nat
      OBVIOUS
    <3> HIDE DEF Bad
    <3> QED BY <3>1, LeastNumber
  <2>1. PICK t \in SUBSET S : Cardinality(t) = m /\ ~ Has(t)
    OBVIOUS
  <2>2. PICK z \in t : TRUE
    BY <2>1
  <2> DEFINE u == t \ {z}
  <2>3. u \in SUBSET S /\ Cardinality(u) = m - 1 /\ m - 1 \in Nat
    <3>1. Cardinality(u) = m - 1 /\ Cardinality(u) \in Nat
      BY <1>1, <2>1, FS_RemoveElement
    <3> QED BY <3>1
  <2>4. m - 1 \notin Bad
    <3>1. m \in Nat /\ ~ (m <= m - 1)
      OBVIOUS
    <3> HIDE DEF Bad
    <3> QED BY <3>1
  <2>5. Has(u)
    <3> HIDE DEF Has, u
    <3> QED BY <2>3, <2>4
  <2>6. \A x \in t : x \in Nat /\ (x = z \/ x \in u)
    OBVIOUS
  <2>7. CASE u = {}
    BY <2>1, <2>2, <2>6, <2>7
  <2>8. CASE \E x \in u : \A y \in u : x >= y
    <3>1. PICK x \in u : \A y \in u : x >= y
      BY <2>8
    <3>2. x \in t /\ x \in Nat /\ z \in Nat
      BY <2>2
    <3>3. CASE x >= z
      <4>1. \A y \in t : x >= y
        BY <2>6, <3>1, <3>3
      <4> QED BY <2>1, <3>2, <4>1
    <3>4. CASE z >= x
      <4>1. \A y \in t : z >= y
        BY <2>6, <3>1, <3>2, <3>4
      <4> QED BY <2>1, <2>2, <4>1
    <3> QED BY <3>2, <3>3, <3>4
  <2> QED BY <2>5, <2>7, <2>8
<1>3. Has(S)
  <2>1. S \in SUBSET S
    OBVIOUS
  <2> HIDE DEF Has
  <2> QED BY <1>1, <1>2, <2>1
<1> QED BY <1>3 DEF Max

-----------------------------------------------------------------------------
(* Sums compared *)

\* Induction over the subsets of a finite set, element by element.
LEMMA EverySubset ==
  ASSUME NEW S, IsFiniteSet(S), NEW G, {} \in G,
         \A t \in SUBSET S : \A x \in S \ t : t \in G => t \cup {x} \in G
  PROVE  S \in G
<1> DEFINE Bad == {n \in Nat : \E t \in SUBSET S : Cardinality(t) = n /\ t \notin G}
<1>1. \A t \in SUBSET S : IsFiniteSet(t) /\ Cardinality(t) \in Nat
  BY FS_Subset, FS_CardinalityType
<1>2. Bad = {}
  <2> SUFFICES ASSUME NEW m \in Bad, \A n \in Bad : m <= n PROVE FALSE
    <3>1. Bad \in SUBSET Nat
      OBVIOUS
    <3> HIDE DEF Bad
    <3> QED BY <3>1, LeastNumber
  <2>1. PICK t \in SUBSET S : Cardinality(t) = m /\ t \notin G
    OBVIOUS
  <2>2. PICK x \in t : TRUE
    BY <2>1
  <2> DEFINE u == t \ {x}
  <2>3. u \in SUBSET S /\ x \in S \ u /\ t = u \cup {x}
    OBVIOUS
  <2>4. Cardinality(u) = m - 1 /\ Cardinality(u) \in Nat
    BY <1>1, <2>1, <2>3, FS_RemoveElement
  <2>5. u \notin G
    BY <2>1, <2>3
  <2> HIDE DEF u
  <2>6. Cardinality(u) \in Bad
    BY <2>3, <2>4, <2>5
  <2>7. m <= Cardinality(u) /\ m \in Nat
    <3>1. m \in Nat
      OBVIOUS
    <3> HIDE DEF Bad
    <3> QED BY <2>6, <3>1
  <2> QED BY <2>4, <2>7
<1> QED BY <1>1, <1>2

\* A sum of which one number is changed.
LEMMA SumChange ==
  ASSUME NEW S, IsFiniteSet(S), NEW f, NEW e, NEW y \in S,
         \A x \in S : f[x] \in Int /\ e[x] \in Int /\ (x # y => f[x] = e[x])
  PROVE  /\ SumFunctionOnSet(e, S) = (SumFunctionOnSet(f, S) - f[y]) + e[y]
         /\ SumFunctionOnSet(f, S) \in Int /\ SumFunctionOnSet(e, S) \in Int
<1> DEFINE T == S \ {y}
<1>1. /\ SumFunctionOnSet(f, S) = f[y] + SumFunctionOnSet(f, T)
      /\ SumFunctionOnSet(f, T) \in Int
  BY SumWithout
<1>2. /\ SumFunctionOnSet(e, S) = e[y] + SumFunctionOnSet(e, T)
      /\ SumFunctionOnSet(e, T) \in Int
  BY SumWithout
<1>3. IsFiniteSet(T) /\ \A x \in T : f[x] = e[x] /\ f[x] \in Int
  BY FS_Subset
<1> HIDE DEF T
<1>4. SumFunctionOnSet(f, T) = SumFunctionOnSet(e, T)
  BY <1>3, SumSame
<1> QED BY <1>1, <1>2, <1>4

\* The sum of sums.
LEMMA SumPlus ==
  ASSUME NEW S, IsFiniteSet(S), NEW f, NEW e, NEW h,
         \A x \in S : f[x] \in Int /\ e[x] \in Int /\ h[x] = f[x] + e[x]
  PROVE  /\ SumFunctionOnSet(h, S) = SumFunctionOnSet(f, S) + SumFunctionOnSet(e, S)
         /\ SumFunctionOnSet(f, S) \in Int /\ SumFunctionOnSet(e, S) \in Int
<1> DEFINE F(t) == SumFunctionOnSet(f, t)
           E(t) == SumFunctionOnSet(e, t)
           H(t) == SumFunctionOnSet(h, t)
           G == {t \in SUBSET S : H(t) = F(t) + E(t) /\ F(t) \in Int /\ E(t) \in Int}
<1>1. {} \in G
  <2>1. F({}) = 0 /\ E({}) = 0 /\ H({}) = 0
    BY SumEmpty
  <2> QED BY <2>1
<1>2. ASSUME NEW t \in SUBSET S, NEW x \in S \ t, t \in G PROVE t \cup {x} \in G
  <2>1. IsFiniteSet(t) /\ x \notin t /\ t \cup {x} \in SUBSET S
    BY FS_Subset
  <2>2. F(t \cup {x}) = f[x] + F(t)
    <3>1. \A z \in t \cup {x} : f[z] \in Int
      OBVIOUS
    <3> QED BY <2>1, <3>1, SumAdd
  <2>3. E(t \cup {x}) = e[x] + E(t)
    <3>1. \A z \in t \cup {x} : e[z] \in Int
      OBVIOUS
    <3> QED BY <2>1, <3>1, SumAdd
  <2>4. H(t \cup {x}) = h[x] + H(t)
    <3>1. \A z \in t \cup {x} : h[z] \in Int
      OBVIOUS
    <3> QED BY <2>1, <3>1, SumAdd
  <2>5. f[x] \in Int /\ e[x] \in Int /\ h[x] = f[x] + e[x]
    OBVIOUS
  <2>6. H(t) = F(t) + E(t) /\ F(t) \in Int /\ E(t) \in Int
    BY <1>2
  <2> HIDE DEF F, E, H
  <2>7. /\ H(t \cup {x}) = F(t \cup {x}) + E(t \cup {x})
        /\ F(t \cup {x}) \in Int /\ E(t \cup {x}) \in Int
    BY <2>2, <2>3, <2>4, <2>5, <2>6
  <2> QED BY <2>1, <2>7
<1> HIDE DEF G
<1>3. S \in G
  BY <1>1, <1>2, EverySubset
<1> QED BY <1>3 DEF G

\* A sum in which only the numbers of U count, each at most b.
LEMMA SumBound ==
  ASSUME NEW S, IsFiniteSet(S), NEW f, NEW U, NEW b \in Nat,
         \A x \in S : /\ f[x] \in Nat
                      /\ x \in U => f[x] <= b
                      /\ x \notin U => f[x] = 0
  PROVE  /\ SumFunctionOnSet(f, S) \in Nat
         /\ SumFunctionOnSet(f, S) <= Cardinality(S \cap U) * b
<1> DEFINE F(t) == SumFunctionOnSet(f, t)
           C(t) == Cardinality(t \cap U)
           G == {t \in SUBSET S : F(t) \in Nat /\ F(t) <= C(t) * b}
<1>1. {} \in G
  <2>1. F({}) = 0 /\ C({}) = 0
    BY SumEmpty, FS_EmptySet
  <2>2. 0 \in Nat /\ 0 <= 0 * b
    OBVIOUS
  <2> HIDE DEF F, C
  <2> QED BY <2>1, <2>2
<1>2. ASSUME NEW t \in SUBSET S, NEW x \in S \ t, t \in G PROVE t \cup {x} \in G
  <2>1. IsFiniteSet(t) /\ x \notin t /\ t \cup {x} \in SUBSET S
    BY FS_Subset
  <2>2. F(t \cup {x}) = f[x] + F(t)
    <3>1. \A z \in t \cup {x} : f[z] \in Int
      OBVIOUS
    <3> QED BY <2>1, <3>1, SumAdd
  <2>3. f[x] \in Nat /\ (x \in U => f[x] <= b) /\ (x \notin U => f[x] = 0)
    OBVIOUS
  <2>4. F(t) \in Nat /\ F(t) <= C(t) * b
    BY <1>2
  <2>5. C(t) \in Nat
    BY <2>1, FS_Intersection, FS_CardinalityType
  <2>6. CASE x \in U
    <3>1. C(t \cup {x}) = C(t) + 1
      <4>1. (t \cup {x}) \cap U = (t \cap U) \cup {x} /\ x \notin t \cap U /\ IsFiniteSet(t \cap U)
        BY <2>1, <2>6, FS_Intersection
      <4> QED BY <4>1, FS_AddElement
    <3> HIDE DEF F, C
    <3>2. (C(t) + 1) * b = C(t) * b + b
      BY <2>5
    <3>3. C(t) * b \in Nat
      BY <2>5
    <3>4. F(t \cup {x}) \in Nat /\ F(t \cup {x}) <= C(t) * b + b
      BY <2>2, <2>3, <2>4, <2>6, <3>3
    <3> QED BY <2>1, <3>1, <3>2, <3>4
  <2>7. CASE x \notin U
    <3>1. (t \cup {x}) \cap U = t \cap U
      BY <2>7
    <3>2. C(t \cup {x}) = C(t)
      BY <3>1
    <3> HIDE DEF F, C
    <3>3. F(t \cup {x}) = F(t)
      BY <2>2, <2>3, <2>4, <2>7
    <3> QED BY <2>1, <2>4, <3>2, <3>3
  <2> QED BY <2>6, <2>7
<1> HIDE DEF G
<1>3. S \in G
  BY <1>1, <1>2, EverySubset
<1> QED BY <1>3 DEF G
=============================================================================
