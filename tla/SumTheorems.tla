---------------------------- MODULE SumTheorems -----------------------------
(***************************************************************************)
(* What SumFunctionOnSet of the community modules computes.  A sum is a    *)
(* fold over a finite set that takes its elements in an order of CHOOSE's  *)
(* liking; the theorems say that the order does not matter and what a sum  *)
(* of counters over CPUs does when one of them grows.                      *)
(***************************************************************************)
EXTENDS Integers, Functions, FiniteSetTheorems, WellFoundedInduction, TLAPS

\* Induction over the natural numbers, for a property given as a set.
LEMMA SetInduction ==
    ASSUME NEW T \in SUBSET Nat, 0 \in T, \A n \in T : n + 1 \in T
    PROVE  T = Nat
<1> DEFINE R == {ss \in Nat \X Nat : ss[1] < ss[2]}
           U == Nat \ T
<1>1. IsWellFoundedOn(R, Nat)
  BY NatLessThanWellFounded DEF OpToRel
<1>2. SUFFICES ASSUME U # {} PROVE FALSE
  OBVIOUS
<1>3. U \subseteq Nat
  OBVIOUS
<1> HIDE DEF R
<1>4. PICK x \in U : \A y \in U : ~ (<<y, x>> \in R)
  BY <1>1, <1>2, <1>3, WFMin
<1>5. x \in Nat /\ x # 0 /\ x - 1 \in Nat
  BY <1>4
<1>6. <<x - 1, x>> \in R
  BY <1>5 DEF R
<1>7. x - 1 \in T
  BY <1>4, <1>5, <1>6
<1> QED BY <1>4, <1>5, <1>7

\* Induction over the subsets of a finite set, for a property given as a set
\* of subsets.
LEMMA SubsetInduction ==
    ASSUME NEW D, IsFiniteSet(D), NEW P \in SUBSET (SUBSET D), {} \in P,
           \A s \in SUBSET D : s # {} /\ (\A x \in s : s \ {x} \in P) => s \in P
    PROVE  P = SUBSET D
<1> DEFINE T == {n \in Nat : \A s \in SUBSET D : Cardinality(s) = n => s \in P}
<1>1. ASSUME NEW s \in SUBSET D PROVE IsFiniteSet(s) /\ Cardinality(s) \in Nat
  BY FS_Subset, FS_CardinalityType
<1>2. 0 \in T
  <2>1. ASSUME NEW s \in SUBSET D, Cardinality(s) = 0 PROVE s = {}
    BY <1>1, <2>1, FS_EmptySet
  <2> QED BY <2>1
<1>3. ASSUME NEW n \in T PROVE n + 1 \in T
  <2> SUFFICES ASSUME NEW s \in SUBSET D, Cardinality(s) = n + 1 PROVE s \in P
    OBVIOUS
  <2>1. n \in Nat
    OBVIOUS
  <2>2. s # {}
    BY <2>1, FS_EmptySet
  <2>3. ASSUME NEW x \in s PROVE s \ {x} \in P
    <3>1. Cardinality(s \ {x}) = Cardinality(s) - 1
      BY <1>1, FS_RemoveElement
    <3>2. Cardinality(s \ {x}) = n /\ s \ {x} \in SUBSET D
      BY <2>1, <3>1
    <3> QED BY <3>2
  <2> QED BY <2>2, <2>3
<1>4. T = Nat
  <2>1. T \in SUBSET Nat
    OBVIOUS
  <2> HIDE DEF T
  <2> QED BY <1>2, <1>3, <2>1, SetInduction
<1>5. ASSUME NEW s \in SUBSET D PROVE s \in P
  <2>1. Cardinality(s) \in T
    BY <1>1, <1>4
  <2> QED BY <2>1
<1> QED BY <1>5

-----------------------------------------------------------------------------
(* The recursion behind the sum.                                           *)

Some(s) == CHOOSE x \in s : TRUE

Adds(f, D, g) ==
    g = [s \in SUBSET D |-> IF s = {} THEN 0 ELSE f[Some(s)] + g[s \ {Some(s)}]]

\* What a fold with + amounts to.
LEMMA Unfolded ==
    ASSUME NEW f, NEW S
    PROVE  SumFunctionOnSet(f, S) = (CHOOSE g : Adds(f, S, g))[S]
BY DEF SumFunctionOnSet, FoldFunctionOnSet, MapThenFoldSet, Adds, Some

\* CHOOSE finds an element of a set that has one.
LEMMA SomeIn == ASSUME NEW s, s # {} PROVE Some(s) \in s
BY DEF Some

\* A function that adds up sets of up to n elements can be extended to sets of
\* one more, so that there is one for all subsets.
LEMMA AddsExists ==
    ASSUME NEW D, IsFiniteSet(D), NEW f \in [D -> Nat]
    PROVE  \E g \in [SUBSET D -> Nat] : Adds(f, D, g)
<1> DEFINE Right(g, n) == \A s \in SUBSET D : Cardinality(s) =< n =>
                             g[s] = IF s = {} THEN 0 ELSE f[Some(s)] + g[s \ {Some(s)}]
           T == {n \in Nat : \E g \in [SUBSET D -> Nat] : Right(g, n)}
<1>1. ASSUME NEW s \in SUBSET D PROVE IsFiniteSet(s) /\ Cardinality(s) \in Nat
  BY FS_Subset, FS_CardinalityType
<1>2. ASSUME NEW s \in SUBSET D, s # {}
      PROVE  /\ Some(s) \in s /\ f[Some(s)] \in Nat /\ s \ {Some(s)} \in SUBSET D
             /\ Cardinality(s \ {Some(s)}) = Cardinality(s) - 1
  <2>1. Some(s) \in s
    BY <1>2, SomeIn
  <2>2. Cardinality(s \ {Some(s)}) = Cardinality(s) - 1
    BY <1>1, <2>1, FS_RemoveElement
  <2> QED BY <2>1, <2>2
<1>3. 0 \in T
  <2> DEFINE g == [s \in SUBSET D |-> 0]
  <2>1. g \in [SUBSET D -> Nat]
    OBVIOUS
  <2>2. ASSUME NEW s \in SUBSET D, Cardinality(s) =< 0 PROVE s = {} /\ g[s] = 0
    <3>1. Cardinality(s) = 0
      BY <1>1, <2>2
    <3> QED BY <1>1, <3>1, FS_EmptySet
  <2>3. Right(g, 0)
    BY <2>2
  <2> QED BY <2>1, <2>3
<1>4. ASSUME NEW n \in T PROVE n + 1 \in T
  <2>1. PICK g \in [SUBSET D -> Nat] : Right(g, n)
    OBVIOUS
  <2>2. n \in Nat
    OBVIOUS
  <2> DEFINE h == [s \in SUBSET D |-> IF Cardinality(s) =< n THEN g[s]
                                      ELSE f[Some(s)] + g[s \ {Some(s)}]]
  <2>3. ASSUME NEW s \in SUBSET D, ~(Cardinality(s) =< n) PROVE s # {}
    <3>1. SUFFICES ASSUME s = {} PROVE FALSE
      OBVIOUS
    <3>2. Cardinality(s) = 0
      BY <3>1, FS_EmptySet
    <3>3. Cardinality(s) =< n
      BY <2>2, <3>2
    <3> QED BY <2>3, <3>3
  <2>4. h \in [SUBSET D -> Nat]
    <3>1. ASSUME NEW s \in SUBSET D, ~(Cardinality(s) =< n)
          PROVE  f[Some(s)] + g[s \ {Some(s)}] \in Nat
      BY <1>2, <2>3, <3>1
    <3> QED BY <3>1
  <2>5. ASSUME NEW s \in SUBSET D, Cardinality(s) =< n + 1
        PROVE  h[s] = IF s = {} THEN 0 ELSE f[Some(s)] + h[s \ {Some(s)}]
    <3>1. CASE s = {}
      <4>1. Cardinality(s) = 0
        BY <3>1, FS_EmptySet
      <4>2. Cardinality(s) =< n
        BY <2>2, <4>1
      <4>3. h[s] = g[s] /\ g[s] = 0
        BY <2>1, <3>1, <4>2
      <4> QED BY <3>1, <4>3
    <3>2. CASE s # {}
      <4>1. /\ s \ {Some(s)} \in SUBSET D /\ Cardinality(s \ {Some(s)}) = Cardinality(s) - 1
            /\ Cardinality(s) \in Nat
        BY <1>1, <1>2, <3>2
      <4>2. Cardinality(s \ {Some(s)}) =< n
        BY <2>2, <2>5, <4>1
      <4>3. h[s \ {Some(s)}] = g[s \ {Some(s)}]
        BY <4>1, <4>2
      <4>4. h[s] = f[Some(s)] + g[s \ {Some(s)}]
        BY <2>1, <3>2
      <4> QED BY <3>2, <4>3, <4>4
    <3> QED BY <3>1, <3>2
  <2>6. Right(h, n + 1)
    BY <2>5
  <2> HIDE DEF h, Right
  <2> QED BY <2>2, <2>4, <2>6
<1>5. T = Nat
  <2>1. T \in SUBSET Nat
    OBVIOUS
  <2> HIDE DEF T
  <2> QED BY <1>3, <1>4, <2>1, SetInduction
<1>6. Cardinality(D) \in T
  <2> HIDE DEF T
  <2> QED BY <1>5, FS_CardinalityType
<1>7. PICK g \in [SUBSET D -> Nat] : Right(g, Cardinality(D))
  BY <1>6
<1>8. ASSUME NEW s \in SUBSET D
      PROVE  g[s] = IF s = {} THEN 0 ELSE f[Some(s)] + g[s \ {Some(s)}]
  <2>1. Cardinality(s) =< Cardinality(D)
    BY FS_Subset
  <2> QED BY <1>7, <2>1
<1>9. Adds(f, D, g)
  BY <1>8 DEF Adds
<1> QED BY <1>9

\* Two such functions, one of them for a smaller set, agree.
LEMMA AddsUnique ==
    ASSUME NEW D, IsFiniteSet(D), NEW S \in SUBSET D, NEW f, NEW g, NEW h,
           Adds(f, D, g), Adds(f, S, h)
    PROVE  h[S] = g[S]
<1> DEFINE P == {s \in SUBSET S : h[s] = g[s]}
<1>1. ASSUME NEW s \in SUBSET S
      PROVE  /\ g[s] = IF s = {} THEN 0 ELSE f[Some(s)] + g[s \ {Some(s)}]
             /\ h[s] = IF s = {} THEN 0 ELSE f[Some(s)] + h[s \ {Some(s)}]
  BY DEF Adds
<1>2. {} \in P
  BY <1>1
<1>3. ASSUME NEW s \in SUBSET S, s # {}, \A x \in s : s \ {x} \in P
      PROVE  s \in P
  <2>1. Some(s) \in s
    BY <1>3, SomeIn
  <2>2. h[s \ {Some(s)}] = g[s \ {Some(s)}]
    BY <1>3, <2>1
  <2> QED BY <1>1, <1>3, <2>2
<1>4. P \in SUBSET (SUBSET S) /\ IsFiniteSet(S)
  BY FS_Subset
<1>5. P = SUBSET S
  <2> HIDE DEF P
  <2> QED BY <1>2, <1>3, <1>4, SubsetInduction
<1>6. S \in P
  <2> HIDE DEF P
  <2> QED BY <1>5
<1> QED BY <1>6

\* The sums over all subsets of a finite set, as one function.
LEMMA SumIsAdds ==
    ASSUME NEW D, IsFiniteSet(D), NEW f, NEW g, Adds(f, D, g), NEW S \in SUBSET D
    PROVE  SumFunctionOnSet(f, S) = g[S]
<1> DEFINE k == [s \in SUBSET S |-> g[s]]
<1>1. Adds(f, S, k)
  <2>1. ASSUME NEW s \in SUBSET S
        PROVE  k[s] = IF s = {} THEN 0 ELSE f[Some(s)] + k[s \ {Some(s)}]
    <3>1. g[s] = IF s = {} THEN 0 ELSE f[Some(s)] + g[s \ {Some(s)}]
      BY DEF Adds
    <3>2. s \ {Some(s)} \in SUBSET S
      OBVIOUS
    <3> QED BY <3>1, <3>2
  <2>2. k = [s \in SUBSET S |-> IF s = {} THEN 0 ELSE f[Some(s)] + k[s \ {Some(s)}]]
    BY <2>1
  <2> HIDE DEF k
  <2> QED BY <2>2 DEF Adds
<1> DEFINE h == CHOOSE e : Adds(f, S, e)
<1>2. Adds(f, S, h)
  <2> HIDE DEF k
  <2> QED BY <1>1
<1>3. h[S] = g[S]
  <2> HIDE DEF h
  <2> QED BY <1>2, AddsUnique
<1> QED BY <1>3, Unfolded

-----------------------------------------------------------------------------
(* The facts about sums that the other modules use.                        *)

\* A sum of natural numbers is one.
THEOREM SumType ==
    ASSUME NEW D, IsFiniteSet(D), NEW f \in [D -> Nat], NEW S \in SUBSET D
    PROVE  SumFunctionOnSet(f, S) \in Nat
<1>1. PICK g \in [SUBSET D -> Nat] : Adds(f, D, g)
  BY AddsExists
<1>2. SumFunctionOnSet(f, S) = g[S]
  BY <1>1, SumIsAdds
<1> QED BY <1>2

\* The sum over no element.
THEOREM SumEmpty ==
    ASSUME NEW f PROVE SumFunctionOnSet(f, {}) = 0
<1> DEFINE k == [s \in SUBSET {} |-> 0]
<1>1. Adds(f, {}, k)
  <2>1. \A s \in SUBSET {} : s = {}
    OBVIOUS
  <2>2. k = [s \in SUBSET {} |-> IF s = {} THEN 0 ELSE f[Some(s)] + k[s \ {Some(s)}]]
    BY <2>1
  <2> HIDE DEF k
  <2> QED BY <2>2 DEF Adds
<1>2. k[{}] = 0
  OBVIOUS
<1> HIDE DEF k
<1>3. SumFunctionOnSet(f, {}) = k[{}]
  BY <1>1, SumIsAdds, FS_EmptySet
<1> QED BY <1>2, <1>3

\* Any element can be taken out of a sum first: the order of the fold does not
\* matter.
THEOREM SumRemove ==
    ASSUME NEW D, IsFiniteSet(D), NEW f \in [D -> Nat], NEW S \in SUBSET D, NEW x \in S
    PROVE  SumFunctionOnSet(f, S) = f[x] + SumFunctionOnSet(f, S \ {x})
<1>1. PICK g \in [SUBSET D -> Nat] : Adds(f, D, g)
  BY AddsExists
<1> DEFINE P == {s \in SUBSET D : \A y \in s : g[s] = f[y] + g[s \ {y}]}
<1>2. {} \in P
  OBVIOUS
<1>3. ASSUME NEW s \in SUBSET D, s # {}, \A y \in s : s \ {y} \in P
      PROVE  s \in P
  <2> SUFFICES ASSUME NEW y \in s PROVE g[s] = f[y] + g[s \ {y}]
    OBVIOUS
  <2> DEFINE z == Some(s)
  <2>1. z \in s /\ g[s] = f[z] + g[s \ {z}]
    BY <1>1, <1>3, SomeIn DEF Adds
  <2> HIDE DEF z
  <2>2. CASE y = z
    BY <2>1, <2>2
  <2>3. CASE y # z
    <3>1. s \ {z} \in P /\ s \ {y} \in P
      BY <1>3, <2>1
    <3>2. g[s \ {z}] = f[y] + g[(s \ {z}) \ {y}]
      BY <2>3, <3>1
    <3>3. g[s \ {y}] = f[z] + g[(s \ {y}) \ {z}]
      BY <2>1, <2>3, <3>1
    <3>4. (s \ {y}) \ {z} = (s \ {z}) \ {y} /\ (s \ {z}) \ {y} \in SUBSET D
      OBVIOUS
    <3>5. f[y] \in Nat /\ f[z] \in Nat /\ g[(s \ {z}) \ {y}] \in Nat
      BY <2>1, <3>4
    <3>6. /\ g[s] = f[z] + (f[y] + g[(s \ {z}) \ {y}])
          /\ g[s \ {y}] = f[z] + g[(s \ {z}) \ {y}]
      BY <2>1, <3>2, <3>3, <3>4
    <3> HIDE DEF P
    <3> QED BY <3>5, <3>6
  <2> QED BY <2>2, <2>3
<1>4. P \in SUBSET (SUBSET D)
  OBVIOUS
<1>5. P = SUBSET D
  <2> HIDE DEF P
  <2> QED BY <1>2, <1>3, <1>4, SubsetInduction
<1>6. S \in P
  <2> HIDE DEF P
  <2> QED BY <1>5
<1>7. S \ {x} \in SUBSET D
  OBVIOUS
<1>8. SumFunctionOnSet(f, S) = g[S] /\ SumFunctionOnSet(f, S \ {x}) = g[S \ {x}]
  BY <1>1, <1>7, SumIsAdds
<1> QED BY <1>6, <1>8

\* A sum of larger terms is larger.
THEOREM SumMonotone ==
    ASSUME NEW D, IsFiniteSet(D), NEW f \in [D -> Nat], NEW g \in [D -> Nat],
           NEW S \in SUBSET D, \A x \in S : f[x] =< g[x]
    PROVE  SumFunctionOnSet(f, S) =< SumFunctionOnSet(g, S)
<1> DEFINE F(s) == SumFunctionOnSet(f, s)
           G(s) == SumFunctionOnSet(g, s)
           P == {s \in SUBSET S : F(s) =< G(s)}
<1>1. ASSUME NEW s \in SUBSET S PROVE F(s) \in Nat /\ G(s) \in Nat
  BY SumType
<1>2. ASSUME NEW s \in SUBSET S, NEW y \in s
      PROVE  F(s) = f[y] + F(s \ {y}) /\ G(s) = g[y] + G(s \ {y})
  BY SumRemove
<1>3. {} \in P
  BY SumEmpty
<1> HIDE DEF F, G
<1>4. ASSUME NEW s \in SUBSET S, s # {}, \A y \in s : s \ {y} \in P
      PROVE  s \in P
  <2>1. PICK y \in s : TRUE
    BY <1>4
  <2>2. F(s \ {y}) =< G(s \ {y}) /\ s \ {y} \in SUBSET S
    BY <1>4
  <2>3. f[y] =< g[y] /\ f[y] \in Nat /\ g[y] \in Nat
    OBVIOUS
  <2> QED BY <1>1, <1>2, <2>2, <2>3
<1>5. P \in SUBSET (SUBSET S) /\ IsFiniteSet(S)
  BY FS_Subset
<1>6. P = SUBSET S
  <2> HIDE DEF P
  <2> QED BY <1>3, <1>4, <1>5, SubsetInduction
<1>7. S \in P
  <2> HIDE DEF P
  <2> QED BY <1>6
<1> QED BY <1>7 DEF F, G

\* A sum depends on the terms in its set alone.
THEOREM SumSame ==
    ASSUME NEW D, IsFiniteSet(D), NEW f \in [D -> Nat], NEW g \in [D -> Nat],
           NEW S \in SUBSET D, \A x \in S : f[x] = g[x]
    PROVE  SumFunctionOnSet(f, S) = SumFunctionOnSet(g, S)
<1>1. \A x \in S : f[x] =< g[x] /\ g[x] =< f[x]
  OBVIOUS
<1>2. SumFunctionOnSet(f, S) =< SumFunctionOnSet(g, S)
  BY <1>1, SumMonotone
<1>3. SumFunctionOnSet(g, S) =< SumFunctionOnSet(f, S)
  BY <1>1, SumMonotone
<1>4. SumFunctionOnSet(f, S) \in Nat /\ SumFunctionOnSet(g, S) \in Nat
  BY SumType
<1> QED BY <1>2, <1>3, <1>4

\* Sums can be added term by term.
THEOREM SumPlus ==
    ASSUME NEW D, IsFiniteSet(D), NEW f \in [D -> Nat], NEW g \in [D -> Nat],
           NEW h \in [D -> Nat], NEW S \in SUBSET D, \A x \in S : h[x] = f[x] + g[x]
    PROVE  SumFunctionOnSet(h, S) = SumFunctionOnSet(f, S) + SumFunctionOnSet(g, S)
<1> DEFINE F(s) == SumFunctionOnSet(f, s)
           G(s) == SumFunctionOnSet(g, s)
           H(s) == SumFunctionOnSet(h, s)
           P == {s \in SUBSET S : H(s) = F(s) + G(s)}
<1>1. ASSUME NEW s \in SUBSET S PROVE F(s) \in Nat /\ G(s) \in Nat /\ H(s) \in Nat
  BY SumType
<1>2. ASSUME NEW s \in SUBSET S, NEW y \in s
      PROVE  /\ F(s) = f[y] + F(s \ {y}) /\ G(s) = g[y] + G(s \ {y})
             /\ H(s) = h[y] + H(s \ {y})
  BY SumRemove
<1>3. {} \in P
  BY SumEmpty
<1> HIDE DEF F, G, H
<1>4. ASSUME NEW s \in SUBSET S, s # {}, \A y \in s : s \ {y} \in P
      PROVE  s \in P
  <2>1. PICK y \in s : TRUE
    BY <1>4
  <2>2. H(s \ {y}) = F(s \ {y}) + G(s \ {y}) /\ s \ {y} \in SUBSET S
    BY <1>4
  <2>3. h[y] = f[y] + g[y] /\ f[y] \in Nat /\ g[y] \in Nat
    OBVIOUS
  <2>4. F(s \ {y}) \in Nat /\ G(s \ {y}) \in Nat
    BY <1>1, <2>2
  <2>5. H(s) = (f[y] + g[y]) + (F(s \ {y}) + G(s \ {y}))
    BY <1>2, <2>2, <2>3
  <2>6. F(s) = f[y] + F(s \ {y}) /\ G(s) = g[y] + G(s \ {y})
    BY <1>2
  <2>7. H(s) = F(s) + G(s)
    <3> HIDE DEF P
    <3> QED BY <2>3, <2>4, <2>5, <2>6
  <2> QED BY <2>7
<1>5. P \in SUBSET (SUBSET S) /\ IsFiniteSet(S)
  BY FS_Subset
<1>6. P = SUBSET S
  <2> HIDE DEF P
  <2> QED BY <1>3, <1>4, <1>5, SubsetInduction
<1>7. S \in P
  <2> HIDE DEF P
  <2> QED BY <1>6
<1> QED BY <1>7 DEF F, G, H

\* A sum of ones and zeros counts the ones.
THEOREM SumCounts ==
    ASSUME NEW D, IsFiniteSet(D), NEW A \in SUBSET D, NEW f \in [D -> Nat],
           \A x \in D : f[x] = IF x \in A THEN 1 ELSE 0
    PROVE  SumFunctionOnSet(f, D) = Cardinality(A)
<1> DEFINE F(s) == SumFunctionOnSet(f, s)
           P == {s \in SUBSET D : F(s) = Cardinality(s \cap A)}
<1>1. ASSUME NEW s \in SUBSET D PROVE F(s) \in Nat
  BY SumType
<1>2. ASSUME NEW s \in SUBSET D, NEW y \in s PROVE F(s) = f[y] + F(s \ {y})
  BY SumRemove
<1>3. {} \in P
  <2>1. {} \cap A = {}
    OBVIOUS
  <2> QED BY <2>1, SumEmpty, FS_EmptySet
<1> HIDE DEF F
<1>4. ASSUME NEW s \in SUBSET D, s # {}, \A y \in s : s \ {y} \in P
      PROVE  s \in P
  <2>1. PICK y \in s : TRUE
    BY <1>4
  <2>2. F(s \ {y}) = Cardinality((s \ {y}) \cap A)
    BY <1>4
  <2>3. IsFiniteSet(s \cap A) /\ Cardinality(s \cap A) \in Nat
    <3>1. s \cap A \in SUBSET D
      OBVIOUS
    <3> QED BY <3>1, FS_Subset, FS_CardinalityType
  <2>4. (s \ {y}) \cap A = (s \cap A) \ {y}
    OBVIOUS
  <2>5. Cardinality((s \cap A) \ {y}) = IF y \in s \cap A THEN Cardinality(s \cap A) - 1
                                        ELSE Cardinality(s \cap A)
    BY <2>3, FS_RemoveElement
  <2>6. f[y] = IF y \in s \cap A THEN 1 ELSE 0
    OBVIOUS
  <2>7. F(s) = Cardinality(s \cap A)
    <3>1. F(s) = f[y] + Cardinality((s \cap A) \ {y})
      BY <1>2, <2>2, <2>4
    <3> HIDE DEF P
    <3> QED BY <2>3, <2>5, <2>6, <3>1
  <2> QED BY <2>7
<1>5. P \in SUBSET (SUBSET D)
  OBVIOUS
<1>6. P = SUBSET D
  <2> HIDE DEF P
  <2> QED BY <1>3, <1>4, <1>5, SubsetInduction
<1>7. D \in P
  <2> HIDE DEF P
  <2> QED BY <1>6
<1>8. D \cap A = A
  OBVIOUS
<1> QED BY <1>7, <1>8 DEF F

\* The sum of all values of a function.
THEOREM SumOfAll ==
    ASSUME NEW D, NEW f \in [D -> Nat]
    PROVE  SumFunction(f) = SumFunctionOnSet(f, D)
<1>1. DOMAIN f = D
  OBVIOUS
<1> QED BY <1>1 DEF SumFunction
=============================================================================
