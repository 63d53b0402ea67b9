--------------------------- MODULE CountTheorems ----------------------------
(***************************************************************************)
(* What the number of elements of a finite set does when one comes or      *)
(* goes: the step of every proof that a counter of the program agrees with *)
(* what it counts.  Sums over a set are such numbers too: of the pairs of  *)
(* an element and one of the units it adds.  Also that sets of numbers     *)
(* have a least and, if they are bounded, a greatest element.              *)
(***************************************************************************)
EXTENDS Integers, FiniteSets, FiniteSetTheorems, WellFoundedInduction, TLAPS

LEMMA CountOf ==
    ASSUME NEW S, IsFiniteSet(S), NEW A \in SUBSET S
    PROVE  IsFiniteSet(A) /\ Cardinality(A) \in Nat
  BY FS_Subset, FS_CardinalityType

LEMMA CountAdd ==
    ASSUME NEW S, IsFiniteSet(S), NEW A \in SUBSET S, NEW x \in S, x \notin A
    PROVE  Cardinality(A \cup {x}) = Cardinality(A) + 1
  BY CountOf, FS_AddElement

LEMMA CountRemove ==
    ASSUME NEW S, IsFiniteSet(S), NEW A \in SUBSET S, NEW x \in A
    PROVE  Cardinality(A) >= 1 /\ Cardinality(A \ {x}) = Cardinality(A) - 1
<1>1. IsFiniteSet(A) /\ IsFiniteSet(A \ {x}) /\ Cardinality(A \ {x}) \in Nat
  BY CountOf, A \ {x} \in SUBSET S
<1>2. Cardinality((A \ {x}) \cup {x}) = Cardinality(A \ {x}) + 1
  BY <1>1, FS_AddElement
<1>3. Cardinality(A) = Cardinality(A \ {x}) + 1
  BY <1>2, (A \ {x}) \cup {x} = A
<1> QED BY <1>1, <1>3

(* Where membership of a set can change for one element only.              *)
Changed(A, B, before, after) ==
    /\ Cardinality(A) \in Nat /\ Cardinality(B) \in Nat
    /\ (before <=> after) => Cardinality(B) = Cardinality(A)
    /\ ~before /\ after => Cardinality(B) = Cardinality(A) + 1
    /\ before /\ ~after => Cardinality(A) >= 1 /\ Cardinality(B) = Cardinality(A) - 1

LEMMA CountChange ==
    ASSUME NEW S, IsFiniteSet(S), NEW A \in SUBSET S, NEW B \in SUBSET S, NEW s \in S,
           \A t \in S : t # s => (t \in A <=> t \in B)
    PROVE  Changed(A, B, s \in A, s \in B)
<1>1. Cardinality(A) \in Nat /\ Cardinality(B) \in Nat
  BY CountOf
<1>2. CASE s \in A <=> s \in B
  <2>1. A = B
    BY <1>2
  <2> QED BY <1>1, <1>2, <2>1 DEF Changed
<1>3. CASE s \notin A /\ s \in B
  <2>1. B = A \cup {s}
    BY <1>3
  <2> QED BY <1>1, <1>3, <2>1, CountAdd DEF Changed
<1>4. CASE s \in A /\ s \notin B
  <2>1. B = A \ {s}
    BY <1>4
  <2> QED BY <1>1, <1>4, <2>1, CountRemove DEF Changed
<1> QED BY <1>2, <1>3, <1>4

LEMMA LeastOf == ASSUME NEW S, S \subseteq Nat, S # {} PROVE \E i \in S : \A j \in S : i <= j
<1>1. IsWellFoundedOn(OpToRel(<, Nat), Nat)
  BY NatLessThanWellFounded
<1>2. PICK i \in S : \A j \in S : ~(<<j, i>> \in OpToRel(<, Nat))
  BY <1>1, WFMin
<1>3. ASSUME NEW j \in S PROVE i <= j
  <2>1. ~(j < i)
    BY <1>2 DEF OpToRel
  <2> QED BY <2>1
<1> QED BY <1>2, <1>3

LEMMA GreatestOf ==
    ASSUME NEW b \in Nat, NEW S, S \subseteq 0..b, S # {}
    PROVE  \E i \in S : \A j \in S : j <= i
<1>1. PICK T : T = {c \in Nat : \A j \in S : j <= c}
  OBVIOUS
<1>2. T \subseteq Nat /\ b \in T
  BY <1>1
<1>3. PICK c \in T : \A d \in T : c <= d
  BY <1>2, LeastOf
<1>4. c \in S
  <2>1. SUFFICES ASSUME c \notin S PROVE FALSE
    OBVIOUS
  <2>2. \A j \in S : j < c /\ j \in Nat
    BY <1>1, <2>1
  <2>3. c \in Nat /\ c > 0
    <3>1. PICK j : j \in S
      OBVIOUS
    <3> QED BY <1>1, <2>2, <3>1
  <2>4. c - 1 \in T
    BY <1>1, <2>2, <2>3
  <2> QED BY <1>1, <1>3, <2>4
<1> QED BY <1>1, <1>4

(* The rank of an element in a set of numbers: one element has each rank   *)
(* up to the number of elements.                                           *)
Rank(S, i) == Cardinality({j \in S : j <= i})

LEMMA RankIs ==
    ASSUME NEW b \in Nat, NEW S \in SUBSET (1..b)
    PROVE  /\ IsFiniteSet(S) /\ Cardinality(S) \in Nat /\ Cardinality(S) <= b
           /\ \A i \in S : Rank(S, i) \in 1..Cardinality(S)
           /\ \A i, j \in S : i < j => Rank(S, i) < Rank(S, j)
<1>1. IsFiniteSet(1..b) /\ Cardinality(1..b) = b
  BY FS_Interval
<1>2. IsFiniteSet(S) /\ Cardinality(S) \in Nat /\ Cardinality(S) <= b
  BY <1>1, FS_Subset, FS_CardinalityType
<1>3. ASSUME NEW i \in S PROVE Rank(S, i) \in 1..Cardinality(S)
  <2>1. PICK A : A = {j \in S : j <= i}
    OBVIOUS
  <2>2. A \in SUBSET S /\ i \in A
    BY <2>1
  <2>3. Cardinality(A) >= 1 /\ Cardinality(A) \in Nat
    BY <1>2, <2>2, CountOf, CountRemove
  <2>4. Cardinality(A) <= Cardinality(S)
    BY <1>2, <2>2, FS_Subset
  <2> QED BY <1>2, <2>1, <2>3, <2>4 DEF Rank
<1>4. ASSUME NEW i \in S, NEW j \in S, i < j PROVE Rank(S, i) < Rank(S, j)
  <2>1. PICK A : A = {k \in S : k <= i}
    OBVIOUS
  <2>2. PICK B : B = {k \in S : k <= j}
    OBVIOUS
  <2>3. A \in SUBSET (B \ {j}) /\ B \in SUBSET S /\ j \in B
    <3>1. \A k \in S : k \in Nat
      OBVIOUS
    <3>2. ASSUME NEW k \in A PROVE k \in B \ {j}
      <4>1. k \in S /\ k <= i /\ k \in Nat /\ i \in Nat /\ j \in Nat
        BY <2>1, <3>1
      <4> QED BY <1>4, <2>2, <4>1
    <3>3. j <= j
      BY <3>1
    <3> QED BY <2>2, <3>2, <3>3
  <2>4. Cardinality(B \ {j}) = Cardinality(B) - 1 /\ Cardinality(B) \in Nat /\ IsFiniteSet(B \ {j})
    BY <1>2, <2>3, CountOf, CountRemove, B \ {j} \in SUBSET S
  <2>5. Cardinality(A) <= Cardinality(B \ {j}) /\ Cardinality(A) \in Nat
    BY <2>3, <2>4, FS_Subset, FS_CardinalityType
  <2> QED BY <2>1, <2>2, <2>4, <2>5 DEF Rank
<1> QED BY <1>2, <1>3, <1>4

LEMMA RankReached ==
    ASSUME NEW b \in Nat, NEW S \in SUBSET (1..b), NEW n \in 1..Cardinality(S)
    PROVE  \E i \in S : Rank(S, i) = n
<1>1. /\ IsFiniteSet(S) /\ Cardinality(S) \in Nat /\ S \subseteq Nat /\ S \subseteq 0..b
      /\ \A i \in S : Rank(S, i) \in Nat
  <2>1. S \subseteq Nat /\ S \subseteq 0..b
    OBVIOUS
  <2>2. IsFiniteSet(S) /\ Cardinality(S) \in Nat /\ \A i \in S : Rank(S, i) \in 1..Cardinality(S)
    BY RankIs
  <2> QED BY <2>1, <2>2
<1>2. PICK T : T = {i \in S : Rank(S, i) >= n}
  OBVIOUS
<1>3. T # {}
  <2>1. S # {}
    BY <1>1, FS_EmptySet
  <2>2. PICK m \in S : \A j \in S : j <= m
    BY <1>1, <2>1, GreatestOf
  <2>3. {j \in S : j <= m} = S
    BY <2>2
  <2> QED BY <1>1, <1>2, <2>2, <2>3 DEF Rank
<1>4. PICK i \in T : \A j \in T : i <= j
  BY <1>1, <1>2, <1>3, LeastOf
<1>5. PICK L : L = {j \in S : j < i}
  OBVIOUS
<1>6. i \in S /\ i \in Nat /\ L \in SUBSET S /\ i \notin L /\ {j \in S : j <= i} = L \cup {i}
  <2>1. i \in S /\ i \in Nat /\ L \in SUBSET S /\ i \notin L
    BY <1>1, <1>2, <1>5
  <2>2. \A j \in S : j <= i <=> j < i \/ j = i
    BY <1>1, <2>1
  <2> QED BY <1>5, <2>1, <2>2
<1>7. Rank(S, i) = Cardinality(L) + 1 /\ Cardinality(L) \in Nat
  BY <1>1, <1>6, CountAdd, CountOf DEF Rank
<1>8. CASE L = {}
  BY <1>2, <1>6, <1>7, <1>8, FS_EmptySet
<1>9. CASE L # {}
  <2>1. PICK k \in L : \A j \in L : j <= k
    BY <1>1, <1>6, <1>9, GreatestOf
  <2>2. k \in S /\ k < i /\ {j \in S : j <= k} = L
    <3>1. k \in S /\ k < i /\ k \in Nat /\ \A j \in S : j \in L <=> j < i
      BY <1>1, <1>5, <2>1
    <3>2. \A j \in S : j <= k <=> j \in L
      BY <1>1, <1>6, <2>1, <3>1
    <3> QED BY <1>6, <3>1, <3>2
  <2>3. Rank(S, k) = Cardinality(L) /\ k \notin T
    BY <1>1, <1>4, <1>6, <2>2 DEF Rank
  <2>4. Cardinality(L) < n
    BY <1>1, <1>2, <1>7, <2>2, <2>3
  <2> QED BY <1>2, <1>4, <1>6, <1>7, <2>4
<1> QED BY <1>8, <1>9

(* Sets whose elements correspond have as many.                            *)
LEMMA CountByImage ==
    ASSUME NEW S, NEW T, IsFiniteSet(T), NEW f \in [S -> T],
           \A a, b \in S : f[a] = f[b] => a = b, \A t \in T : \E a \in S : f[a] = t
    PROVE  IsFiniteSet(S) /\ Cardinality(S) = Cardinality(T)
<1>1. f \in Injection(S, T)
  BY DEF Injection, IsInjective
<1>2. f \in Surjection(S, T)
  BY DEF Surjection
<1> QED BY <1>1, <1>2, FS_Injection

(* The sum of a function over a finite set, as the number of pairs of an   *)
(* element and a number up to its value.                                   *)
Pairs(h, s) == UNION {{x} \X (1..h[x]) : x \in s}

LEMMA InPairs ==
    ASSUME NEW h, NEW s, NEW p
    PROVE  p \in Pairs(h, s) <=> \E x \in s : \E i \in 1..h[x] : p = <<x, i>>
  BY DEF Pairs

LEMMA PairsOfOne ==
    ASSUME NEW x, NEW n \in Nat
    PROVE  IsFiniteSet({x} \X (1..n)) /\ Cardinality({x} \X (1..n)) = n
<1>1. IsFiniteSet(1..n) /\ Cardinality(1..n) = n
  BY FS_Interval
<1>2. IsFiniteSet({x}) /\ Cardinality({x}) = 1
  BY FS_Singleton
<1> QED BY <1>1, <1>2, FS_Product

\* The number of pairs when one more element is looked at.
LEMMA PairsStep ==
    ASSUME NEW h, NEW s, NEW x \in s, h[x] \in Nat, IsFiniteSet(Pairs(h, s \ {x}))
    PROVE  /\ IsFiniteSet(Pairs(h, s))
           /\ Cardinality(Pairs(h, s)) = h[x] + Cardinality(Pairs(h, s \ {x}))
<1>1. PICK A : A = {x} \X (1..h[x])
  OBVIOUS
<1>2. PICK B : B = Pairs(h, s \ {x})
  OBVIOUS
<1>3. Pairs(h, s) = A \cup B
  <2>1. \A p : p \in A <=> \E i \in 1..h[x] : p = <<x, i>>
    BY <1>1
  <2>2. \A p : p \in B <=> \E y \in s \ {x} : \E i \in 1..h[y] : p = <<y, i>>
    BY <1>2, InPairs
  <2>3. \A p : p \in Pairs(h, s) <=> \E y \in s : \E i \in 1..h[y] : p = <<y, i>>
    BY InPairs
  <2> QED BY <2>1, <2>2, <2>3
<1>4. A \cap B = {}
  <2>1. \A p \in B : \E y \in s \ {x} : \E i \in 1..h[y] : p = <<y, i>>
    BY <1>2, InPairs
  <2> QED BY <1>1, <2>1
<1>5. IsFiniteSet(A) /\ Cardinality(A) = h[x] /\ IsFiniteSet(B)
  BY <1>1, <1>2, PairsOfOne
<1>6. IsFiniteSet(A \cup B) /\ Cardinality(A \cup B) = Cardinality(A) + Cardinality(B) - Cardinality(A \cap B)
  BY <1>5, FS_Union
<1>7. Cardinality(A) \in Nat /\ Cardinality(B) \in Nat /\ Cardinality(A \cap B) = 0
  BY <1>4, <1>5, FS_CardinalityType, FS_EmptySet
<1> QED BY <1>2, <1>3, <1>5, <1>6, <1>7

LEMMA PairsEmpty == ASSUME NEW h PROVE Pairs(h, {}) = {}
  BY DEF Pairs

LEMMA PairsFinite ==
    ASSUME NEW S, IsFiniteSet(S), NEW h \in [S -> Nat], NEW s \in SUBSET S
    PROVE  IsFiniteSet(Pairs(h, s)) /\ Cardinality(Pairs(h, s)) \in Nat
<1>1. PICK Bad : Bad = {n \in Nat : \E u \in SUBSET S : Cardinality(u) = n /\ ~IsFiniteSet(Pairs(h, u))}
  OBVIOUS
<1>2. Bad = {}
  <2>1. SUFFICES ASSUME Bad # {} PROVE FALSE
    OBVIOUS
  <2>2. Bad \subseteq Nat
    BY <1>1
  <2>3. PICK n \in Bad : \A m \in Bad : n <= m
    BY <2>1, <2>2, LeastOf
  <2>4. PICK u \in SUBSET S : Cardinality(u) = n /\ ~IsFiniteSet(Pairs(h, u))
    BY <1>1, <2>3
  <2>5. u # {}
    BY <2>4, PairsEmpty, FS_EmptySet
  <2>6. PICK x : x \in u
    BY <2>5
  <2>7. u \ {x} \in SUBSET S /\ Cardinality(u \ {x}) = n - 1 /\ Cardinality(u \ {x}) \in Nat
    BY <2>4, <2>6, CountRemove, CountOf, u \ {x} \in SUBSET S
  <2>8. n - 1 \notin Bad
    BY <2>2, <2>3
  <2>9. IsFiniteSet(Pairs(h, u \ {x}))
    BY <1>1, <2>7, <2>8
  <2>10. h[x] \in Nat
    BY <2>4, <2>6
  <2> QED BY <2>4, <2>6, <2>9, <2>10, PairsStep
<1>3. Cardinality(s) \in Nat
  BY CountOf
<1> QED BY <1>1, <1>2, <1>3, FS_CardinalityType

\* The recursion that folds the values of h, one chosen element at a time.
Folded(h, S, g) ==
    g = [s \in SUBSET S |-> IF s = {} THEN 0
                            ELSE h[CHOOSE x \in s : TRUE] + g[s \ {CHOOSE x \in s : TRUE}]]

LEMMA FoldedPairs ==
    ASSUME NEW S, IsFiniteSet(S), NEW h \in [S -> Nat]
    PROVE  Folded(h, S, [s \in SUBSET S |-> Cardinality(Pairs(h, s))])
<1>1. PICK g : g = [s \in SUBSET S |-> Cardinality(Pairs(h, s))]
  OBVIOUS
<1>2. ASSUME NEW s \in SUBSET S
      PROVE  g[s] = IF s = {} THEN 0
                    ELSE h[CHOOSE x \in s : TRUE] + g[s \ {CHOOSE x \in s : TRUE}]
  <2>1. CASE s = {}
    <3>1. Cardinality(Pairs(h, s)) = 0
      BY <2>1, PairsEmpty, FS_EmptySet
    <3> QED BY <1>1, <2>1, <3>1
  <2>2. CASE s # {}
    <3>1. PICK c : c = CHOOSE x \in s : TRUE
      OBVIOUS
    <3>2. c \in s /\ h[c] \in Nat /\ s \ {c} \in SUBSET S
      BY <2>2, <3>1
    <3>3. IsFiniteSet(Pairs(h, s \ {c}))
      BY <3>2, PairsFinite
    <3>4. Cardinality(Pairs(h, s)) = h[c] + Cardinality(Pairs(h, s \ {c}))
      BY <3>2, <3>3, PairsStep
    <3>5. g[s] = h[c] + g[s \ {c}]
      BY <1>1, <3>2, <3>4
    <3> QED BY <2>2, <3>1, <3>5
  <2> QED BY <2>1, <2>2
<1>3. g = [s \in SUBSET S |-> g[s]]
  BY <1>1
<1>4. Folded(h, S, g)
  BY <1>2, <1>3 DEF Folded
<1> QED BY <1>1, <1>4

LEMMA FoldedUnique ==
    ASSUME NEW S, IsFiniteSet(S), NEW h \in [S -> Nat], NEW f, NEW g,
           Folded(h, S, f), Folded(h, S, g), NEW s \in SUBSET S
    PROVE  f[s] = g[s]
<1>1. PICK Bad : Bad = {n \in Nat : \E u \in SUBSET S : Cardinality(u) = n /\ f[u] # g[u]}
  OBVIOUS
<1>2. Bad = {}
  <2>1. SUFFICES ASSUME Bad # {} PROVE FALSE
    OBVIOUS
  <2>2. Bad \subseteq Nat
    BY <1>1
  <2>3. PICK n \in Bad : \A m \in Bad : n <= m
    BY <2>1, <2>2, LeastOf
  <2>4. PICK u \in SUBSET S : Cardinality(u) = n /\ f[u] # g[u]
    BY <1>1, <2>3
  <2>5. PICK c : c = CHOOSE x \in u : TRUE
    OBVIOUS
  <2>6. /\ f[u] = IF u = {} THEN 0 ELSE h[c] + f[u \ {c}]
        /\ g[u] = IF u = {} THEN 0 ELSE h[c] + g[u \ {c}]
    BY <2>5 DEF Folded
  <2>7. u # {} /\ f[u \ {c}] # g[u \ {c}]
    BY <2>4, <2>6
  <2>8. c \in u
    BY <2>5, <2>7
  <2>9. u \ {c} \in SUBSET S /\ Cardinality(u \ {c}) = n - 1 /\ Cardinality(u \ {c}) \in Nat
    BY <2>4, <2>8, CountRemove, CountOf, u \ {c} \in SUBSET S
  <2>10. n - 1 \in Bad
    BY <1>1, <2>7, <2>9
  <2> QED BY <2>2, <2>3, <2>10
<1>3. Cardinality(s) \in Nat
  BY CountOf
<1> QED BY <1>1, <1>2, <1>3

LEMMA SumIs ==
    ASSUME NEW S, IsFiniteSet(S), NEW h \in [S -> Nat]
    PROVE  SumFunctionOnSet(h, S) = Cardinality(Pairs(h, S)) /\ SumFunctionOnSet(h, S) \in Nat
<1>1. PICK f : f = CHOOSE g : Folded(h, S, g)
  OBVIOUS
<1>2. SumFunctionOnSet(h, S) = f[S]
  BY <1>1 DEF SumFunctionOnSet, FoldFunctionOnSet, MapThenFoldSet, Folded
<1>3. PICK g : g = [s \in SUBSET S |-> Cardinality(Pairs(h, s))]
  OBVIOUS
<1>4. Folded(h, S, g)
  BY <1>3, FoldedPairs
<1>5. Folded(h, S, f)
  BY <1>1, <1>4
<1>6. f[S] = g[S]
  BY <1>4, <1>5, FoldedUnique
<1> QED BY <1>2, <1>3, <1>6, PairsFinite

LEMMA SumMonotone ==
    ASSUME NEW S, IsFiniteSet(S), NEW f \in [S -> Nat], NEW g \in [S -> Nat],
           \A x \in S : f[x] <= g[x]
    PROVE  SumFunctionOnSet(f, S) <= SumFunctionOnSet(g, S)
<1>1. ASSUME NEW p \in Pairs(f, S) PROVE p \in Pairs(g, S)
  <2>1. PICK x \in S : \E i \in 1..f[x] : p = <<x, i>>
    BY InPairs
  <2>2. \E i \in 1..g[x] : p = <<x, i>>
    BY <2>1
  <2> QED BY <2>2, InPairs
<1>2. Pairs(f, S) \in SUBSET Pairs(g, S)
  BY <1>1
<1>3. IsFiniteSet(Pairs(g, S))
  BY PairsFinite
<1> QED BY <1>2, <1>3, FS_Subset, SumIs

LEMMA SumOneMore ==
    ASSUME NEW S, IsFiniteSet(S), NEW f \in [S -> Nat], NEW x \in S
    PROVE  SumFunctionOnSet([f EXCEPT ![x] = @ + 1], S) = SumFunctionOnSet(f, S) + 1
<1>1. PICK g : g = [f EXCEPT ![x] = @ + 1]
  OBVIOUS
<1>2. g \in [S -> Nat] /\ g[x] = f[x] + 1 /\ f[x] \in Nat /\ \A y \in S : y # x => g[y] = f[y]
  BY <1>1
<1>3. PICK e : e = <<x, f[x] + 1>>
  OBVIOUS
<1>4. e \notin Pairs(f, S)
  <2>1. SUFFICES ASSUME NEW y \in S, NEW i \in 1..f[y], e = <<y, i>> PROVE FALSE
    BY InPairs
  <2> QED BY <1>2, <1>3, <2>1
<1>5. Pairs(g, S) = Pairs(f, S) \cup {e}
  <2>1. ASSUME NEW p \in Pairs(g, S) PROVE p \in Pairs(f, S) \cup {e}
    <3>1. PICK y \in S : \E i \in 1..g[y] : p = <<y, i>>
      BY InPairs
    <3>2. PICK i \in 1..g[y] : p = <<y, i>>
      BY <3>1
    <3>3. p = e \/ i \in 1..f[y]
      BY <1>2, <1>3, <3>2
    <3> QED BY <3>2, <3>3, InPairs
  <2>2. ASSUME NEW p \in Pairs(f, S) PROVE p \in Pairs(g, S)
    <3>1. PICK y \in S : \E i \in 1..f[y] : p = <<y, i>>
      BY InPairs
    <3>2. \E i \in 1..g[y] : p = <<y, i>>
      BY <1>2, <3>1
    <3> QED BY <3>2, InPairs
  <2>3. e \in Pairs(g, S)
    <3>1. f[x] + 1 \in 1..g[x]
      BY <1>2
    <3>2. \E i \in 1..g[x] : e = <<x, i>>
      BY <1>3, <3>1
    <3> QED BY <3>2, InPairs
  <2> QED BY <2>1, <2>2, <2>3
<1>6. Cardinality(Pairs(f, S) \cup {e}) = Cardinality(Pairs(f, S)) + 1
  <2>1. IsFiniteSet(Pairs(f, S))
    BY PairsFinite
  <2> QED BY <1>4, <2>1, FS_AddElement
<1>7. SumFunctionOnSet(g, S) = SumFunctionOnSet(f, S) + 1
  BY <1>2, <1>5, <1>6, SumIs
<1> QED BY <1>1, <1>7

LEMMA SumZero ==
    ASSUME NEW S, IsFiniteSet(S)
    PROVE  SumFunctionOnSet([x \in S |-> 0], S) = 0
<1>1. PICK z : z = [x \in S |-> 0]
  OBVIOUS
<1>2. Pairs(z, S) = {}
  <2>1. SUFFICES ASSUME NEW p \in Pairs(z, S) PROVE FALSE
    OBVIOUS
  <2>2. PICK x \in S : \E i \in 1..z[x] : p = <<x, i>>
    BY InPairs
  <2> QED BY <1>1, <2>2
<1>3. z \in [S -> Nat]
  BY <1>1
<1>4. SumFunctionOnSet(z, S) = 0
  BY <1>2, <1>3, SumIs, FS_EmptySet
<1> QED BY <1>1, <1>4
=============================================================================
