---------------------------- MODULE SumTheorems ----------------------------
(***************************************************************************)
(* What MapThenSumSet returns when the values that are summed are those of *)
(* a function.  The fold of the community modules is a recursive function  *)
(* that takes its elements in the order CHOOSE gives them; the lemmas say  *)
(* that the order does not matter.  Their inductions are on the number of  *)
(* elements, as arguments about a smallest counterexample.                 *)
(***************************************************************************)
EXTENDS Integers, FiniteSetsExt, FiniteSetTheorems, WellFoundedInduction, TLAPS

Sum(f, S) == MapThenSumSet(LAMBDA x : f[x], S)

First(s) == CHOOSE x \in s : TRUE
Rest(s) == s \ {First(s)}
IsIter(it, f, S) ==
    it = [s \in SUBSET S |-> IF s = {} THEN 0 ELSE f[First(s)] + it[Rest(s)]]

LEMMA SumUnfolds ==
    ASSUME NEW f, NEW S
    PROVE  Sum(f, S) = (CHOOSE it : IsIter(it, f, S))[S]
BY Zenon DEF Sum, MapThenSumSet, MapThenFoldSet, IsIter, First, Rest

LEMMA RestIsSmaller ==
    ASSUME NEW S, IsFiniteSet(S), NEW s \in SUBSET S, s # {}
    PROVE  /\ First(s) \in s /\ Rest(s) \in SUBSET s /\ IsFiniteSet(s) /\ IsFiniteSet(Rest(s))
           /\ Cardinality(s) \in Nat /\ Cardinality(Rest(s)) = Cardinality(s) - 1
<1>1. First(s) \in s
  BY DEF First
<1>2. IsFiniteSet(s)
  BY FS_Subset
<1> QED BY <1>1, <1>2, FS_RemoveElement, FS_CardinalityType DEF Rest

\* Among some subsets of a finite set one has the fewest elements.
LEMMA SmallestExists ==
    ASSUME NEW S, IsFiniteSet(S), NEW Bad, Bad \subseteq SUBSET S, Bad # {}
    PROVE  \E s \in Bad : /\ IsFiniteSet(s)
                          /\ \A t \in Bad : Cardinality(s) <= Cardinality(t)
<1> DEFINE T == {Cardinality(s) : s \in Bad}
<1>1. \A s \in Bad : IsFiniteSet(s) /\ Cardinality(s) \in Nat
  BY FS_Subset, FS_CardinalityType
<1>2. T \subseteq Nat /\ T # {}
  BY <1>1
<1>3. PICK m \in T : \A k \in T : ~ (<<k, m>> \in OpToRel(<, Nat))
  <2> HIDE DEF T
  <2> QED BY <1>2, NatLessThanWellFounded, WFMin
<1>4. \A k \in T : m <= k
  <2> HIDE DEF T
  <2>1. ASSUME NEW k \in T PROVE ~ (k < m)
    BY <1>2, <1>3 DEF OpToRel
  <2> QED BY <1>2, <2>1
<1> QED BY <1>1, <1>4

LEMMA IterIsUnique ==
    ASSUME NEW f, NEW S, IsFiniteSet(S), NEW U, NEW a, NEW b, IsIter(a, f, S), IsIter(b, f, U),
           NEW s \in SUBSET S, s \in SUBSET U
    PROVE  a[s] = b[s]
<1> DEFINE Bad == {t \in SUBSET S : t \in SUBSET U /\ a[t] # b[t]}
<1> SUFFICES ASSUME Bad # {} PROVE FALSE
  OBVIOUS
<1>1. PICK t \in Bad : \A u \in Bad : Cardinality(t) <= Cardinality(u)
  BY SmallestExists
<1>2. t # {}
  BY DEF IsIter
<1>3. Rest(t) \in SUBSET S /\ Rest(t) \in SUBSET U /\ Cardinality(Rest(t)) < Cardinality(t)
  BY <1>2, RestIsSmaller
<1>4. a[Rest(t)] = b[Rest(t)]
  <2>1. Cardinality(t) \in Nat /\ Cardinality(Rest(t)) \in Nat
    BY <1>2, RestIsSmaller, FS_CardinalityType
  <2> QED BY <1>1, <1>3, <2>1
<1>5. a[t] = f[First(t)] + a[Rest(t)] /\ b[t] = f[First(t)] + b[Rest(t)]
  BY <1>2 DEF IsIter
<1> QED BY <1>4, <1>5

LEMMA IterExists ==
    ASSUME NEW f, NEW S, IsFiniteSet(S)
    PROVE  \E it : IsIter(it, f, S)
<1> DEFINE Bad == {s \in SUBSET S : ~ \E it : IsIter(it, f, s)}
<1> SUFFICES ASSUME Bad # {} PROVE FALSE
  OBVIOUS
<1>1. PICK s \in Bad : IsFiniteSet(s) /\ \A u \in Bad : Cardinality(s) <= Cardinality(u)
  BY SmallestExists
<1> DEFINE g == [t \in SUBSET s |-> IF t = {} THEN 0 ELSE f[First(t)] + Sum(f, Rest(t))]
<1>2. ASSUME NEW t \in SUBSET s, t # {}
      PROVE  Sum(f, Rest(t)) = g[Rest(t)]
  <2> DEFINE u == Rest(t)
  <2>1. /\ u \in SUBSET s /\ IsFiniteSet(u) /\ Cardinality(u) \in Nat /\ Cardinality(s) \in Nat
        /\ Cardinality(u) < Cardinality(s)
    <3>1. Cardinality(t) <= Cardinality(s) /\ Cardinality(s) \in Nat
      BY <1>1, FS_Subset, FS_CardinalityType
    <3>2. IsFiniteSet(u) /\ u \in SUBSET t /\ Cardinality(u) = Cardinality(t) - 1
          /\ Cardinality(t) \in Nat /\ Cardinality(u) \in Nat
      BY <1>1, <1>2, RestIsSmaller, FS_CardinalityType
    <3> HIDE DEF u
    <3> QED BY <1>2, <3>1, <3>2
  <2> HIDE DEF u
  <2>2. IsIter(CHOOSE it : IsIter(it, f, u), f, u)
    <3>1. u \notin Bad
      BY <1>1, <2>1
    <3> QED BY <2>1, <3>1
  <2> DEFINE a == CHOOSE it : IsIter(it, f, u)
  <2>3. Sum(f, u) = a[u]
    BY SumUnfolds
  <2> HIDE DEF a
  <2>4. ASSUME u = {} PROVE Sum(f, u) = g[u]
    BY <2>1, <2>2, <2>3, <2>4 DEF IsIter, a
  <2>5. ASSUME u # {} PROVE Sum(f, u) = g[u]
    <3>1. a[u] = f[First(u)] + a[Rest(u)]
      BY <2>2, <2>5 DEF IsIter, a
    <3>2. /\ Rest(u) \in SUBSET u /\ IsFiniteSet(Rest(u)) /\ Cardinality(Rest(u)) < Cardinality(s)
          /\ Rest(u) \in SUBSET S
      <4>1. Rest(u) \in SUBSET u /\ IsFiniteSet(Rest(u)) /\ Cardinality(Rest(u)) = Cardinality(u) - 1
        BY <2>1, <2>5, RestIsSmaller
      <4> QED BY <2>1, <4>1, FS_CardinalityType
    <3> DEFINE b == CHOOSE it : IsIter(it, f, Rest(u))
    <3>3. IsIter(b, f, Rest(u))
      <4>1. Rest(u) \notin Bad
        BY <1>1, <2>1, <3>2, FS_CardinalityType
      <4> QED BY <3>2, <4>1
    <3>4. Sum(f, Rest(u)) = b[Rest(u)]
      BY SumUnfolds
    <3> HIDE DEF b
    <3>5. a[Rest(u)] = b[Rest(u)]
      BY <2>1, <2>2, <3>2, <3>3, IterIsUnique DEF a
    <3>6. g[u] = f[First(u)] + Sum(f, Rest(u))
      BY <2>1, <2>5
    <3> QED BY <2>3, <3>1, <3>4, <3>5, <3>6
  <2> HIDE DEF g
  <2> QED BY <2>4, <2>5 DEF u
<1>3. IsIter(g, f, s)
  BY <1>2 DEF IsIter
<1> QED BY <1>3

\* The sum over no element, and over a set as the fold takes it apart.
LEMMA SumEmpty == ASSUME NEW f PROVE Sum(f, {}) = 0
<1>1. PICK it : IsIter(it, f, {})
  BY IterExists, FS_EmptySet
<1> QED BY <1>1, SumUnfolds DEF IsIter

LEMMA SumFirst ==
    ASSUME NEW f, NEW S, IsFiniteSet(S), S # {}
    PROVE  Sum(f, S) = f[First(S)] + Sum(f, Rest(S))
<1> DEFINE a == CHOOSE it : IsIter(it, f, S)
           b == CHOOSE it : IsIter(it, f, Rest(S))
<1>1. Rest(S) \in SUBSET S /\ IsFiniteSet(Rest(S))
  BY RestIsSmaller
<1>2. IsIter(a, f, S) /\ IsIter(b, f, Rest(S))
  BY <1>1, IterExists
<1>3. Sum(f, S) = a[S] /\ Sum(f, Rest(S)) = b[Rest(S)]
  BY SumUnfolds
<1> HIDE DEF a, b
<1>4. a[S] = f[First(S)] + a[Rest(S)]
  BY <1>2 DEF IsIter
<1>5. a[Rest(S)] = b[Rest(S)]
  BY <1>1, <1>2, IterIsUnique
<1> QED BY <1>3, <1>4, <1>5
LEMMA SumIsNatural ==
    ASSUME NEW f, NEW S, IsFiniteSet(S), \A x \in S : f[x] \in Nat
    PROVE  Sum(f, S) \in Nat
<1> DEFINE Bad == {s \in SUBSET S : Sum(f, s) \notin Nat}
<1> SUFFICES ASSUME Bad # {} PROVE FALSE
  OBVIOUS
<1>1. PICK s \in Bad : IsFiniteSet(s) /\ \A u \in Bad : Cardinality(s) <= Cardinality(u)
  BY SmallestExists
<1>2. s # {}
  BY SumEmpty
<1>3. Sum(f, s) = f[First(s)] + Sum(f, Rest(s))
  BY <1>1, <1>2, SumFirst
<1>4. First(s) \in S /\ Rest(s) \in SUBSET S /\ Rest(s) \notin Bad
  BY <1>1, <1>2, RestIsSmaller, FS_CardinalityType
<1> QED BY <1>3, <1>4

\* Any element may be taken out first.
LEMMA SumTakesOut ==
    ASSUME NEW f, NEW S, IsFiniteSet(S), \A x \in S : f[x] \in Nat, NEW e \in S
    PROVE  Sum(f, S) = f[e] + Sum(f, S \ {e})
<1> DEFINE Bad == {s \in SUBSET S : \E x \in s : Sum(f, s) # f[x] + Sum(f, s \ {x})}
<1> SUFFICES ASSUME Bad # {} PROVE FALSE
  OBVIOUS
<1>1. PICK s \in Bad : IsFiniteSet(s) /\ \A u \in Bad : Cardinality(s) <= Cardinality(u)
  BY SmallestExists
<1>2. PICK x \in s : Sum(f, s) # f[x] + Sum(f, s \ {x})
  OBVIOUS
<1> DEFINE c == First(s)
<1>3. /\ c \in s /\ Rest(s) = s \ {c} /\ Sum(f, s) = f[c] + Sum(f, s \ {c})
      /\ Cardinality(s \ {c}) < Cardinality(s) /\ Cardinality(s \ {x}) < Cardinality(s)
  <2>1. c \in s /\ Rest(s) = s \ {c}
    BY <1>2, RestIsSmaller DEF Rest
  <2>2. Sum(f, s) = f[c] + Sum(f, Rest(s))
    BY <1>1, <1>2, SumFirst
  <2> HIDE DEF c, Bad
  <2>3. /\ Cardinality(s \ {c}) = Cardinality(s) - 1 /\ Cardinality(s \ {x}) = Cardinality(s) - 1
        /\ Cardinality(s) \in Nat
    BY <1>1, <1>2, <2>1, FS_RemoveElement, FS_CardinalityType
  <2> QED BY <2>1, <2>2, <2>3
<1> HIDE DEF c
<1>4. s \in SUBSET S /\ f[c] \in Nat /\ f[x] \in Nat /\ x # c
  BY <1>2, <1>3
<1>5. s \ {c} \notin Bad /\ s \ {x} \notin Bad
  <2>1. /\ IsFiniteSet(s \ {c}) /\ IsFiniteSet(s \ {x}) /\ Cardinality(s) \in Nat
        /\ Cardinality(s \ {c}) \in Nat /\ Cardinality(s \ {x}) \in Nat
    BY <1>1, FS_RemoveElement, FS_CardinalityType
  <2> HIDE DEF Bad
  <2> QED BY <1>1, <1>3, <2>1
<1>6. Sum(f, s \ {c}) = f[x] + Sum(f, (s \ {c}) \ {x})
  BY <1>2, <1>4, <1>5
<1>7. Sum(f, s \ {x}) = f[c] + Sum(f, (s \ {x}) \ {c})
  BY <1>3, <1>4, <1>5
<1>8. (s \ {c}) \ {x} = (s \ {x}) \ {c} /\ IsFiniteSet((s \ {c}) \ {x})
  BY <1>1, FS_RemoveElement
<1>9. Sum(f, (s \ {c}) \ {x}) \in Nat
  BY <1>4, <1>8, SumIsNatural
<1> DEFINE R == Sum(f, (s \ {c}) \ {x})
<1>10. Sum(f, s) = f[c] + (f[x] + R) /\ Sum(f, s \ {x}) = f[c] + R /\ R \in Nat
  BY <1>3, <1>6, <1>7, <1>8, <1>9
<1> HIDE DEF R, Bad
<1> QED BY <1>2, <1>4, <1>10

\* The values outside the set do not count.
LEMMA SumAgrees ==
    ASSUME NEW f, NEW g, NEW S, IsFiniteSet(S), \A x \in S : f[x] = g[x]
    PROVE  Sum(f, S) = Sum(g, S)
<1> DEFINE Bad == {s \in SUBSET S : Sum(f, s) # Sum(g, s)}
<1> SUFFICES ASSUME Bad # {} PROVE FALSE
  OBVIOUS
<1>1. PICK s \in Bad : IsFiniteSet(s) /\ \A u \in Bad : Cardinality(s) <= Cardinality(u)
  BY SmallestExists
<1>2. s # {}
  BY SumEmpty
<1>3. Sum(f, s) = f[First(s)] + Sum(f, Rest(s)) /\ Sum(g, s) = g[First(s)] + Sum(g, Rest(s))
  BY <1>1, <1>2, SumFirst
<1>4. First(s) \in S /\ Rest(s) \in SUBSET S /\ Rest(s) \notin Bad
  BY <1>1, <1>2, RestIsSmaller, FS_CardinalityType
<1> QED BY <1>3, <1>4

LEMMA SumPutsIn ==
    ASSUME NEW f, NEW S, IsFiniteSet(S), NEW e, e \notin S, \A x \in S \cup {e} : f[x] \in Nat
    PROVE  Sum(f, S \cup {e}) = Sum(f, S) + f[e]
<1>1. IsFiniteSet(S \cup {e}) /\ (S \cup {e}) \ {e} = S
  BY FS_AddElement
<1>2. Sum(f, S \cup {e}) = f[e] + Sum(f, S)
  BY <1>1, SumTakesOut
<1> QED BY <1>2, SumIsNatural

\* Disjoint sets are summed one after the other.
LEMMA SumOfUnion ==
    ASSUME NEW f, NEW S, NEW T, IsFiniteSet(S), IsFiniteSet(T), S \cap T = {},
           \A x \in S \cup T : f[x] \in Nat
    PROVE  Sum(f, S \cup T) = Sum(f, S) + Sum(f, T)
<1> DEFINE Bad == {s \in SUBSET T : Sum(f, S \cup s) # Sum(f, S) + Sum(f, s)}
<1> SUFFICES ASSUME Bad # {} PROVE FALSE
  OBVIOUS
<1>1. PICK s \in Bad : IsFiniteSet(s) /\ \A u \in Bad : Cardinality(s) <= Cardinality(u)
  BY SmallestExists
<1>0. Sum(f, S) \in Nat
  BY SumIsNatural
<1>2. s # {}
  BY SumEmpty, <1>0
<1>3. PICK e \in s : TRUE
  BY <1>2
<1> DEFINE r == s \ {e}
<1>4. /\ IsFiniteSet(r) /\ Cardinality(r) < Cardinality(s) /\ r \in SUBSET T /\ e \notin r /\ e \notin S
      /\ s = r \cup {e} /\ S \cup s = (S \cup r) \cup {e} /\ IsFiniteSet(S \cup r)
      /\ Cardinality(r) \in Nat /\ Cardinality(s) \in Nat
  <2>1. /\ IsFiniteSet(r) /\ Cardinality(r) = Cardinality(s) - 1 /\ Cardinality(s) \in Nat
        /\ Cardinality(r) \in Nat
    BY <1>1, <1>3, FS_RemoveElement, FS_CardinalityType
  <2>2. IsFiniteSet(S \cup r)
    BY <2>1, FS_Union
  <2> QED BY <1>1, <1>3, <2>1, <2>2
<1> HIDE DEF r
<1>5. Sum(f, S \cup r) = Sum(f, S) + Sum(f, r)
  <2>1. r \notin Bad
    <3> HIDE DEF Bad
    <3> QED BY <1>1, <1>4
  <2> QED BY <1>4, <2>1
<1>6. Sum(f, S \cup s) = Sum(f, S \cup r) + f[e] /\ Sum(f, s) = Sum(f, r) + f[e]
  <2>1. e \notin S \cup r /\ \A x \in (S \cup r) \cup {e} : f[x] \in Nat
    BY <1>4
  <2> QED BY <1>4, <2>1, SumPutsIn
<1>7. f[e] \in Nat /\ Sum(f, r) \in Nat /\ Sum(f, S) \in Nat
  BY <1>4, <1>0, SumIsNatural
<1> QED BY <1>5, <1>6, <1>7

LEMMA SumGrows ==
    ASSUME NEW f, NEW S, IsFiniteSet(S), NEW T \in SUBSET S, \A x \in S : f[x] \in Nat
    PROVE  Sum(f, T) <= Sum(f, S)
<1>1. IsFiniteSet(T) /\ IsFiniteSet(S \ T) /\ S = T \cup (S \ T) /\ T \cap (S \ T) = {}
  BY FS_Subset
<1>2. Sum(f, S) = Sum(f, T) + Sum(f, S \ T)
  BY <1>1, SumOfUnion
<1>3. Sum(f, T) \in Nat /\ Sum(f, S \ T) \in Nat
  BY <1>1, SumIsNatural
<1> QED BY <1>2, <1>3

\* Two functions that differ at one element.
LEMMA SumOfChange ==
    ASSUME NEW f, NEW g, NEW S, IsFiniteSet(S), NEW e \in S,
           \A x \in S : f[x] \in Nat /\ g[x] \in Nat, \A x \in S \ {e} : f[x] = g[x]
    PROVE  /\ Sum(f, S) = f[e] + Sum(f, S \ {e})
           /\ Sum(g, S) = g[e] + Sum(f, S \ {e})
           /\ Sum(f, S \ {e}) \in Nat
<1>1. IsFiniteSet(S \ {e})
  BY FS_RemoveElement
<1>2. Sum(f, S \ {e}) = Sum(g, S \ {e})
  BY <1>1, SumAgrees
<1>3. Sum(f, S) = f[e] + Sum(f, S \ {e}) /\ Sum(g, S) = g[e] + Sum(g, S \ {e})
  BY SumTakesOut
<1> QED BY <1>1, <1>2, <1>3, SumIsNatural

\* The sum of ones counts.
LEMMA SumOfOnes ==
    ASSUME NEW f, NEW S, IsFiniteSet(S), \A x \in S : f[x] = 1
    PROVE  Sum(f, S) = Cardinality(S)
<1> DEFINE Bad == {s \in SUBSET S : Sum(f, s) # Cardinality(s)}
<1> SUFFICES ASSUME Bad # {} PROVE FALSE
  OBVIOUS
<1>1. PICK s \in Bad : IsFiniteSet(s) /\ \A u \in Bad : Cardinality(s) <= Cardinality(u)
  BY SmallestExists
<1>2. s # {}
  BY SumEmpty, FS_EmptySet
<1>3. Sum(f, s) = f[First(s)] + Sum(f, Rest(s))
  BY <1>1, <1>2, SumFirst
<1>4. /\ First(s) \in S /\ Rest(s) \in SUBSET S /\ Cardinality(Rest(s)) = Cardinality(s) - 1
      /\ Cardinality(s) \in Nat
  BY <1>1, <1>2, RestIsSmaller
<1>5. Sum(f, Rest(s)) = Cardinality(Rest(s))
  <2>1. Rest(s) \notin Bad
    <3> HIDE DEF Bad
    <3> QED BY <1>1, <1>4
  <2> QED BY <1>4, <2>1
<1> QED BY <1>3, <1>4, <1>5

LEMMA CountOfUnion ==
    ASSUME NEW S, NEW T, IsFiniteSet(S), IsFiniteSet(T), S \cap T = {}
    PROVE  /\ Cardinality(S \cup T) = Cardinality(S) + Cardinality(T)
           /\ Cardinality(S) \in Nat /\ Cardinality(T) \in Nat /\ IsFiniteSet(S \cup T)
<1>1. Cardinality(S \cup T) = Cardinality(S) + Cardinality(T) - Cardinality({})
  BY FS_Union
<1> QED BY <1>1, FS_Union, FS_EmptySet, FS_CardinalityType
============================================================================
