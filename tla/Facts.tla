--------------------------------- MODULE Facts --------------------------------
(***************************************************************************)
(* Facts about numbers, sums and sequences that the proofs rest on.        *)
(***************************************************************************)
EXTENDS SequencesExt, SequenceTheorems, FiniteSetTheorems, WellFoundedInduction,
        TLAPS

-----------------------------------------------------------------------------
(* Numbers *)

(* A set of numbers has a smallest one.  The proofs below use it to find   *)
(* the smallest counterexample of what they prove by induction.            *)
LEMMA SmallestInSet ==
    ASSUME NEW T \in SUBSET Nat, T # {}
    PROVE  \E x \in T : \A y \in T : x <= y
  <1>1. PICK x \in T : \A y \in T : ~(<<y, x>> \in OpToRel(<, Nat))
    BY NatLessThanWellFounded, WFMin
  <1>2. ASSUME NEW y \in T, y < x
        PROVE  <<y, x>> \in OpToRel(<, Nat)
    BY <1>2 DEF OpToRel
  <1>3. \A y \in T : ~(y < x)
    BY <1>1, <1>2, Zenon
  <1> QED
    BY <1>3

(* Division with remainder, and the blocks of length d it makes *)
LEMMA DivisionFacts ==
    ASSUME NEW n \in Nat, NEW d \in Nat \ {0}
    PROVE  /\ n \div d \in Nat
           /\ (n \div d) * d <= n
           /\ n < (n \div d) * d + d
  OBVIOUS

LEMMA ProductNat ==
    ASSUME NEW i \in Nat, NEW d \in Nat
    PROVE  i * d \in Nat
  OBVIOUS

LEMMA ProductNext ==
    ASSUME NEW i \in Nat, NEW d \in Nat
    PROVE  (i + 1) * d = i * d + d /\ (i - 1) * d = i * d - d
  OBVIOUS

LEMMA ProductMonotone ==
    ASSUME NEW i \in Nat, NEW j \in Nat, NEW d \in Nat, i <= j
    PROVE  i * d <= j * d
  OBVIOUS

(* A number is in one block *)
LEMMA OneBlock ==
    ASSUME NEW d \in Nat, NEW k \in Nat, NEW i \in Nat, NEW j \in Nat,
           i * d < k, k <= i * d + d, j * d < k, k <= j * d + d
    PROVE  i = j
  <1>1. (i + 1) * d = i * d + d /\ (j + 1) * d = j * d + d
    BY ProductNext
  <1>2. i < j => (i + 1) * d <= j * d
    BY ProductMonotone
  <1>3. j < i => (j + 1) * d <= i * d
    BY ProductMonotone
  <1> DEFINE a == i * d
             b == j * d
  <1>4. a \in Nat /\ b \in Nat
    BY ProductNat
  <1> QED
    BY <1>1, <1>2, <1>3, <1>4

-----------------------------------------------------------------------------
(* Sums *)

(* The sum of f over a finite set.  The fold of the community modules is a *)
(* function defined by recursion over the subsets, which takes away one    *)
(* chosen element after the other.                                         *)
SumOver(f, S) == MapThenSumSet(LAMBDA x : f[x], S)

Chosen(s) == CHOOSE x \in s : TRUE

IsSum(g, f, S) ==
    g = [s \in SUBSET S |-> IF s = {} THEN 0
                            ELSE f[Chosen(s)] + g[s \ {Chosen(s)}]]

LEMMA SumOverIs ==
    ASSUME NEW f, NEW S
    PROVE  SumOver(f, S) = (CHOOSE g : IsSum(g, f, S))[S]
  BY DEF SumOver, IsSum, Chosen, MapThenSumSet, MapThenFoldSet

(* Taking away the chosen element leaves a smaller set *)
LEMMA Smaller ==
    ASSUME NEW S, IsFiniteSet(S), NEW s \in SUBSET S, s # {}
    PROVE  /\ Chosen(s) \in s
           /\ s \ {Chosen(s)} \in SUBSET S
           /\ Cardinality(s) \in Nat \ {0}
           /\ Cardinality(s \ {Chosen(s)}) = Cardinality(s) - 1
  <1>1. Chosen(s) \in s
    BY DEF Chosen
  <1>2. IsFiniteSet(s)
    BY FS_Subset
  <1> QED
    BY <1>1, <1>2, FS_RemoveElement, FS_CardinalityType, FS_EmptySet

(* The subsets of at most n elements, and a sum for all of them *)
UpTo(S, n) == {s \in SUBSET S : Cardinality(s) <= n}

PartialSum(g, f, S, n) ==
    /\ g \in [UpTo(S, n) -> Int]
    /\ \A s \in UpTo(S, n) :
          g[s] = IF s = {} THEN 0 ELSE f[Chosen(s)] + g[s \ {Chosen(s)}]

LEMMA PartialSums ==
    ASSUME NEW S, IsFiniteSet(S), NEW f, \A x \in S : f[x] \in Int
    PROVE  \A n \in Nat : \E g : PartialSum(g, f, S, n)
  <1> DEFINE T == {n \in Nat : ~ \E g : PartialSum(g, f, S, n)}
  <1> SUFFICES ASSUME T # {}
               PROVE  FALSE
    OBVIOUS
  <1>1. PICK n \in T : \A m \in T : n <= m
    <2>1. T \in SUBSET Nat
      OBVIOUS
    <2> HIDE DEF T
    <2> QED
      BY <2>1, SmallestInSet
  <1>2. n \in Nat /\ ~ \E g : PartialSum(g, f, S, n)
    OBVIOUS
  <1>3. CASE n = 0
    <2> DEFINE g == [s \in UpTo(S, 0) |-> 0]
    <2>1. ASSUME NEW s \in UpTo(S, 0)
          PROVE  s = {}
      <3>1. s \in SUBSET S /\ Cardinality(s) <= 0
        BY DEF UpTo
      <3>2. s # {} => Cardinality(s) \in Nat \ {0}
        BY <3>1, Smaller
      <3> QED
        BY <3>1, <3>2
    <2>2. PartialSum(g, f, S, 0)
      BY <2>1 DEF PartialSum
    <2> QED
      BY <1>2, <1>3, <2>2
  <1>4. CASE n # 0
    <2>1. n - 1 \in Nat /\ ~(n <= n - 1)
      BY <1>2, <1>4
    <2>2. PICK h : PartialSum(h, f, S, n - 1)
      BY <1>1, <2>1
    <2> DEFINE g == [s \in UpTo(S, n) |->
                        IF s = {} THEN 0 ELSE f[Chosen(s)] + h[s \ {Chosen(s)}]]
    <2>3. ASSUME NEW s \in UpTo(S, n), s # {}
          PROVE  /\ Chosen(s) \in S
                 /\ s \ {Chosen(s)} \in UpTo(S, n - 1)
                 /\ s \ {Chosen(s)} \in UpTo(S, n)
      BY <1>2, <2>3, Smaller DEF UpTo
    <2>4. g \in [UpTo(S, n) -> Int]
      BY <2>2, <2>3 DEF PartialSum
    <2>5. \A s \in UpTo(S, n - 1) : s \in UpTo(S, n) /\ g[s] = h[s]
      <3>1. \A s \in UpTo(S, n - 1) : s \in UpTo(S, n)
        <4>1. \A s \in SUBSET S : Cardinality(s) \in Nat
          BY FS_Subset, FS_CardinalityType
        <4> QED
          BY <1>2, <4>1 DEF UpTo
      <3> QED
        BY <2>2, <3>1 DEF PartialSum
    <2>6. PartialSum(g, f, S, n)
      <3> HIDE DEF g
      <3>1. ASSUME NEW s \in UpTo(S, n)
            PROVE  g[s] = IF s = {} THEN 0
                          ELSE f[Chosen(s)] + g[s \ {Chosen(s)}]
        <4>1. g[s] = IF s = {} THEN 0 ELSE f[Chosen(s)] + h[s \ {Chosen(s)}]
          BY DEF g
        <4> QED
          BY <2>3, <2>5, <4>1
      <3> QED
        BY <2>4, <3>1 DEF PartialSum
    <2> QED
      BY <1>2, <2>6
  <1> QED
    BY <1>3, <1>4

LEMMA SumExists ==
    ASSUME NEW S, IsFiniteSet(S), NEW f, \A x \in S : f[x] \in Int
    PROVE  \E g \in [SUBSET S -> Int] : IsSum(g, f, S)
  <1>1. PICK g : PartialSum(g, f, S, Cardinality(S))
    BY FS_CardinalityType, PartialSums
  <1>2. UpTo(S, Cardinality(S)) = SUBSET S
    BY FS_Subset DEF UpTo
  <1>3. g \in [SUBSET S -> Int]
    BY <1>1, <1>2 DEF PartialSum
  <1>4. g = [s \in SUBSET S |-> g[s]]
    BY <1>3
  <1>5. \A s \in SUBSET S :
           g[s] = IF s = {} THEN 0 ELSE f[Chosen(s)] + g[s \ {Chosen(s)}]
    BY <1>1, <1>2 DEF PartialSum
  <1>6. IsSum(g, f, S)
    BY <1>4, <1>5 DEF IsSum
  <1> QED
    BY <1>3, <1>6

(* Two sums agree on the sets they have in common *)
LEMMA SumsAgree ==
    ASSUME NEW S, IsFiniteSet(S), NEW T \in SUBSET S, NEW f, NEW e,
           \A x \in T : f[x] = e[x],
           NEW g, NEW h, IsSum(g, f, S), IsSum(h, e, T)
    PROVE  \A s \in SUBSET T : g[s] = h[s]
  <1> DEFINE B == {n \in Nat : \E s \in SUBSET T : Cardinality(s) = n /\ g[s] # h[s]}
  <1>0. \A s \in SUBSET T : s \in SUBSET S /\ Cardinality(s) \in Nat
    BY FS_Subset, FS_CardinalityType
  <1> SUFFICES ASSUME B # {}
               PROVE  FALSE
    BY <1>0
  <1>1. PICK n \in B : \A m \in B : n <= m
    <2>1. B \in SUBSET Nat
      OBVIOUS
    <2> HIDE DEF B
    <2> QED
      BY <2>1, SmallestInSet
  <1>2. PICK s \in SUBSET T : Cardinality(s) = n /\ g[s] # h[s]
    OBVIOUS
  <1>3. /\ g[s] = IF s = {} THEN 0 ELSE f[Chosen(s)] + g[s \ {Chosen(s)}]
        /\ h[s] = IF s = {} THEN 0 ELSE e[Chosen(s)] + h[s \ {Chosen(s)}]
    BY <1>0 DEF IsSum
  <1>4. s # {}
    BY <1>2, <1>3
  <1>5. /\ Chosen(s) \in T /\ s \ {Chosen(s)} \in SUBSET T
        /\ n \in Nat \ {0} /\ Cardinality(s \ {Chosen(s)}) = n - 1
    BY <1>0, <1>2, <1>4, Smaller
  <1>6. g[s \ {Chosen(s)}] = h[s \ {Chosen(s)}]
    <2>1. n - 1 \in Nat /\ ~(n <= n - 1)
      BY <1>5
    <2>2. n - 1 \notin B
      BY <1>1, <2>1
    <2> QED
      BY <1>5, <2>1, <2>2
  <1> QED
    BY <1>2, <1>3, <1>4, <1>5, <1>6

(* The one sum over a set gives the sums over its subsets *)
LEMMA SumOverSubset ==
    ASSUME NEW S, IsFiniteSet(S), NEW f, \A x \in S : f[x] \in Int,
           NEW g, IsSum(g, f, S), NEW T \in SUBSET S
    PROVE  SumOver(f, T) = g[T]
  <1> DEFINE h == CHOOSE k : IsSum(k, f, T)
  <1>1. IsFiniteSet(T) /\ \A x \in T : f[x] \in Int
    BY FS_Subset
  <1>2. IsSum(h, f, T)
    BY <1>1, SumExists
  <1>3. SumOver(f, T) = h[T]
    BY SumOverIs
  <1> HIDE DEF h
  <1>4. T \in SUBSET T
    OBVIOUS
  <1> QED
    BY <1>2, <1>3, <1>4, SumsAgree

LEMMA SumOverEmpty ==
    ASSUME NEW f
    PROVE  SumOver(f, {}) = 0
  <1>1. IsFiniteSet({}) /\ \A x \in {} : f[x] \in Int
    BY FS_EmptySet
  <1>2. PICK g : IsSum(g, f, {})
    BY <1>1, SumExists
  <1>3. {} \in SUBSET {} /\ g[{}] = 0
    BY <1>2 DEF IsSum
  <1> QED
    BY <1>1, <1>2, <1>3, SumOverSubset

LEMMA SumOverType ==
    ASSUME NEW S, IsFiniteSet(S), NEW f, \A x \in S : f[x] \in Int
    PROVE  SumOver(f, S) \in Int
  <1>1. PICK g \in [SUBSET S -> Int] : IsSum(g, f, S)
    BY SumExists
  <1>2. S \in SUBSET S
    OBVIOUS
  <1>3. SumOver(f, S) = g[S]
    BY <1>1, <1>2, SumOverSubset
  <1> QED
    BY <1>1, <1>2, <1>3

(* Functions with the same values have the same sum *)
LEMMA SumOverSame ==
    ASSUME NEW S, IsFiniteSet(S), NEW f, \A x \in S : f[x] \in Int,
           NEW e, \A x \in S : e[x] = f[x]
    PROVE  SumOver(e, S) = SumOver(f, S)
  <1>1. \A x \in S : e[x] \in Int
    OBVIOUS
  <1>2. PICK g : IsSum(g, f, S)
    BY SumExists
  <1>3. PICK h : IsSum(h, e, S)
    BY <1>1, SumExists
  <1>4. S \in SUBSET S
    OBVIOUS
  <1>5. SumOver(e, S) = h[S]
    BY <1>1, <1>3, <1>4, SumOverSubset
  <1>6. SumOver(f, S) = g[S]
    BY <1>2, <1>4, SumOverSubset
  <1>7. \A s \in SUBSET S : g[s] = h[s]
    BY <1>2, <1>3, <1>4, SumsAgree
  <1> QED
    BY <1>4, <1>5, <1>6, <1>7

(* Any element can be taken out of the sum *)
LEMMA SumOverWithout ==
    ASSUME NEW S, IsFiniteSet(S), NEW f, \A x \in S : f[x] \in Int, NEW y \in S
    PROVE  /\ SumOver(f, S) = f[y] + SumOver(f, S \ {y})
           /\ SumOver(f, S \ {y}) \in Int
  <1>1. PICK g \in [SUBSET S -> Int] : IsSum(g, f, S)
    BY SumExists
  <1> DEFINE B == {n \in Nat : \E s \in SUBSET S : \E x \in s :
                      Cardinality(s) = n /\ g[s] # f[x] + g[s \ {x}]}
  <1>0. \A s \in SUBSET S : IsFiniteSet(s) /\ Cardinality(s) \in Nat
    BY FS_Subset, FS_CardinalityType
  <1>2. B = {}
    <2> SUFFICES ASSUME B # {}
                 PROVE  FALSE
      OBVIOUS
    <2>1. PICK n \in B : \A m \in B : n <= m
      <3>1. B \in SUBSET Nat
        OBVIOUS
      <3> HIDE DEF B
      <3> QED
        BY <3>1, SmallestInSet
    <2>2. PICK s \in SUBSET S :
             Cardinality(s) = n /\ \E x \in s : g[s] # f[x] + g[s \ {x}]
      OBVIOUS
    <2>13. PICK x \in s : g[s] # f[x] + g[s \ {x}]
      BY <2>2
    <2> DEFINE c == Chosen(s)
               r == s \ {c}
               t == s \ {x}
               u == (s \ {c}) \ {x}
    <2>3. /\ c \in s /\ r \in SUBSET S
          /\ Cardinality(s) \in Nat \ {0} /\ Cardinality(r) = n - 1
      BY <2>2, Smaller
    <2>4. g[s] = f[c] + g[r]
      BY <1>1, <2>2 DEF IsSum
    <2>5. x # c
      BY <2>4, <2>13
    <2>6. /\ t \in SUBSET S /\ u \in SUBSET S
          /\ Cardinality(t) = n - 1
          /\ x \in r /\ c \in t /\ u = t \ {c}
      <3>1. Cardinality(t) = n - 1
        BY <1>0, <2>2, FS_RemoveElement
      <3> QED
        BY <2>2, <2>3, <2>5, <3>1
    <2>7. n - 1 \notin B
      <3>1. ~(n <= n - 1)
        BY <2>2, <2>3
      <3> QED
        BY <2>1, <3>1
    <2>8. n - 1 \in Nat
      BY <2>2, <2>3
    <2>9. g[r] = f[x] + g[u]
      BY <2>3, <2>6, <2>7, <2>8
    <2>10. g[t] = f[c] + g[u]
      <3>1. g[t] = f[c] + g[t \ {c}]
        BY <2>6, <2>7, <2>8
      <3> QED
        BY <2>6, <3>1
    <2>11. f[c] \in Int /\ f[x] \in Int /\ g[u] \in Int
      BY <1>1, <2>2, <2>3, <2>6
    <2> HIDE DEF c, r, t, u
    <2>12. g[s] = f[x] + g[t]
      BY <2>4, <2>9, <2>10, <2>11
    <2> QED
      BY <2>12, <2>13 DEF t
  <1>3. g[S] = f[y] + g[S \ {y}]
    BY <1>0, <1>2
  <1> HIDE DEF B
  <1>4. S \in SUBSET S /\ S \ {y} \in SUBSET S
    OBVIOUS
  <1>5. SumOver(f, S) = g[S] /\ SumOver(f, S \ {y}) = g[S \ {y}]
    BY <1>1, <1>4, SumOverSubset
  <1> QED
    BY <1>1, <1>3, <1>4, <1>5

(* One value changes, and the sum by as much *)
LEMMA SumOverChange ==
    ASSUME NEW S, IsFiniteSet(S), NEW f, NEW e, NEW y \in S,
           \A x \in S : f[x] \in Int, e[y] \in Int,
           \A x \in S \ {y} : e[x] = f[x]
    PROVE  SumOver(e, S) = SumOver(f, S) + (e[y] - f[y])
  <1> DEFINE T == S \ {y}
  <1>1. IsFiniteSet(T) /\ \A x \in T : f[x] \in Int /\ e[x] = f[x]
    BY FS_Subset
  <1>2. SumOver(e, T) = SumOver(f, T)
    <2> HIDE DEF T
    <2> QED
      BY <1>1, SumOverSame
  <1>3. SumOver(f, S) = f[y] + SumOver(f, T) /\ SumOver(f, T) \in Int
    BY SumOverWithout
  <1>4. \A x \in S : e[x] \in Int
    OBVIOUS
  <1>5. SumOver(e, S) = e[y] + SumOver(e, T)
    BY <1>4, SumOverWithout
  <1> QED
    BY <1>2, <1>3, <1>5

LEMMA SumOverZero ==
    ASSUME NEW S, IsFiniteSet(S), NEW f, \A x \in S : f[x] = 0
    PROVE  SumOver(f, S) = 0
  <1>0. \A x \in S : f[x] \in Int
    OBVIOUS
  <1>1. PICK g : IsSum(g, f, S)
    BY <1>0, SumExists
  <1> DEFINE B == {n \in Nat : \E s \in SUBSET S : Cardinality(s) = n /\ g[s] # 0}
  <1>2. B = {}
    <2> SUFFICES ASSUME B # {}
                 PROVE  FALSE
      OBVIOUS
    <2>1. PICK n \in B : \A m \in B : n <= m
      <3>1. B \in SUBSET Nat
        OBVIOUS
      <3> HIDE DEF B
      <3> QED
        BY <3>1, SmallestInSet
    <2>2. PICK s \in SUBSET S : Cardinality(s) = n /\ g[s] # 0
      OBVIOUS
    <2>3. s # {}
      BY <1>1, <2>2 DEF IsSum
    <2>4. /\ Chosen(s) \in S /\ s \ {Chosen(s)} \in SUBSET S
          /\ n - 1 \in Nat /\ Cardinality(s \ {Chosen(s)}) = n - 1
          /\ ~(n <= n - 1)
      BY <2>2, <2>3, Smaller
    <2>5. g[s \ {Chosen(s)}] = 0
      BY <2>1, <2>4
    <2>6. g[s] = f[Chosen(s)] + g[s \ {Chosen(s)}]
      BY <1>1, <2>2, <2>3 DEF IsSum
    <2> QED
      BY <2>2, <2>4, <2>5, <2>6
  <1>3. Cardinality(S) \in Nat
    BY FS_CardinalityType
  <1>4. S \in SUBSET S /\ g[S] = 0
    BY <1>2, <1>3
  <1>5. SumOver(f, S) = g[S]
    BY <1>0, <1>1, <1>4, SumOverSubset
  <1> QED
    BY <1>4, <1>5

(* None of the terms of a sum of natural numbers exceeds it *)
LEMMA SumOverNat ==
    ASSUME NEW S, IsFiniteSet(S), NEW f, \A x \in S : f[x] \in Nat
    PROVE  /\ SumOver(f, S) \in Nat
           /\ \A y \in S : f[y] <= SumOver(f, S)
  <1>0. \A x \in S : f[x] \in Int
    OBVIOUS
  <1>1. PICK g \in [SUBSET S -> Int] : IsSum(g, f, S)
    BY <1>0, SumExists
  <1> DEFINE B == {n \in Nat : \E s \in SUBSET S : Cardinality(s) = n /\ g[s] \notin Nat}
  <1>2. B = {}
    <2> SUFFICES ASSUME B # {}
                 PROVE  FALSE
      OBVIOUS
    <2>1. PICK n \in B : \A m \in B : n <= m
      <3>1. B \in SUBSET Nat
        OBVIOUS
      <3> HIDE DEF B
      <3> QED
        BY <3>1, SmallestInSet
    <2>2. PICK s \in SUBSET S : Cardinality(s) = n /\ g[s] \notin Nat
      OBVIOUS
    <2>3. s # {}
      BY <1>1, <2>2 DEF IsSum
    <2>4. /\ Chosen(s) \in S /\ s \ {Chosen(s)} \in SUBSET S
          /\ n - 1 \in Nat /\ Cardinality(s \ {Chosen(s)}) = n - 1
          /\ ~(n <= n - 1)
      BY <2>2, <2>3, Smaller
    <2>5. g[s \ {Chosen(s)}] \in Nat
      BY <2>1, <2>4
    <2>6. g[s] = f[Chosen(s)] + g[s \ {Chosen(s)}]
      BY <1>1, <2>2, <2>3 DEF IsSum
    <2> QED
      BY <2>2, <2>4, <2>5, <2>6
  <1>3. \A T \in SUBSET S : SumOver(f, T) \in Nat
    <2> SUFFICES ASSUME NEW T \in SUBSET S
                 PROVE  SumOver(f, T) \in Nat
      OBVIOUS
    <2>1. Cardinality(T) \in Nat
      BY FS_CardinalityType, FS_Subset
    <2>2. g[T] \in Nat
      BY <1>2, <2>1
    <2> QED
      BY <1>0, <1>1, <2>2, SumOverSubset
  <1>4. ASSUME NEW y \in S
        PROVE  f[y] <= SumOver(f, S)
    <2>1. SumOver(f, S) = f[y] + SumOver(f, S \ {y})
      BY <1>0, SumOverWithout
    <2>2. SumOver(f, S \ {y}) \in Nat /\ f[y] \in Nat
      BY <1>3
    <2> QED
      BY <2>1, <2>2
  <1> QED
    BY <1>3, <1>4

(* Lesser terms have a lesser sum *)
LEMMA SumOverLess ==
    ASSUME NEW S, IsFiniteSet(S), NEW f, NEW h,
           \A x \in S : f[x] \in Int /\ h[x] \in Int /\ f[x] <= h[x]
    PROVE  SumOver(f, S) <= SumOver(h, S)
  <1>1. PICK g \in [SUBSET S -> Int] : IsSum(g, f, S)
    BY SumExists
  <1>2. PICK k \in [SUBSET S -> Int] : IsSum(k, h, S)
    BY SumExists
  <1> DEFINE B == {n \in Nat : \E s \in SUBSET S : Cardinality(s) = n /\ ~(g[s] <= k[s])}
  <1>3. B = {}
    <2> SUFFICES ASSUME B # {}
                 PROVE  FALSE
      OBVIOUS
    <2>1. PICK n \in B : \A m \in B : n <= m
      <3>1. B \in SUBSET Nat
        OBVIOUS
      <3> HIDE DEF B
      <3> QED
        BY <3>1, SmallestInSet
    <2>2. PICK s \in SUBSET S : Cardinality(s) = n /\ ~(g[s] <= k[s])
      OBVIOUS
    <2>3. s # {}
      BY <1>1, <1>2, <2>2 DEF IsSum
    <2>4. /\ Chosen(s) \in S /\ s \ {Chosen(s)} \in SUBSET S
          /\ n - 1 \in Nat /\ Cardinality(s \ {Chosen(s)}) = n - 1
          /\ ~(n <= n - 1)
      BY <2>2, <2>3, Smaller
    <2>5. g[s \ {Chosen(s)}] <= k[s \ {Chosen(s)}]
      BY <2>1, <2>4
    <2>6. /\ g[s] = f[Chosen(s)] + g[s \ {Chosen(s)}]
          /\ k[s] = h[Chosen(s)] + k[s \ {Chosen(s)}]
      BY <1>1, <1>2, <2>2, <2>3 DEF IsSum
    <2>7. /\ g[s \ {Chosen(s)}] \in Int /\ k[s \ {Chosen(s)}] \in Int
          /\ f[Chosen(s)] \in Int /\ h[Chosen(s)] \in Int
          /\ f[Chosen(s)] <= h[Chosen(s)]
      BY <2>4
    <2> QED
      BY <2>2, <2>5, <2>6, <2>7
  <1>4. Cardinality(S) \in Nat /\ S \in SUBSET S
    BY FS_CardinalityType
  <1>5. g[S] <= k[S]
    BY <1>3, <1>4
  <1>6. SumOver(f, S) = g[S] /\ SumOver(h, S) = k[S]
    BY <1>1, <1>2, <1>4, SumOverSubset
  <1> QED
    BY <1>5, <1>6

-----------------------------------------------------------------------------
(* Sequences *)

(* A function on 1 .. n is a sequence of length n *)
LEMMA FunctionIsSeq ==
    ASSUME NEW S, NEW n \in Nat, NEW f \in [1 .. n -> S]
    PROVE  f \in Seq(S) /\ Len(f) = n
  <1>1. f \in Seq(S)
    BY SeqDef
  <1> QED
    BY <1>1, LenProperties

(* A sequence with one more element at its end *)
LEMMA AppendFacts ==
    ASSUME NEW S, NEW s \in Seq(S), NEW x \in S
    PROVE  /\ Append(s, x) \in Seq(S)
           /\ Len(Append(s, x)) = Len(s) + 1
           /\ \A j \in 1 .. Len(s) : Append(s, x)[j] = s[j]
           /\ Append(s, x)[Len(s) + 1] = x
  BY AppendProperties, LenProperties

(* Two sequences, one after the other *)
LEMMA ConcatFacts ==
    ASSUME NEW S, NEW s \in Seq(S), NEW t \in Seq(S)
    PROVE  /\ s \o t \in Seq(S)
           /\ Len(s \o t) = Len(s) + Len(t)
           /\ \A j \in 1 .. Len(s) : (s \o t)[j] = s[j]
           /\ \A j \in 1 .. Len(t) : (s \o t)[Len(s) + j] = t[j]
  <1>1. Len(s) \in Nat /\ Len(t) \in Nat
    BY LenProperties
  <1> QED
    BY <1>1, ConcatProperties

(* A sequence without its i-th element *)
LEMMA RemoveAtFacts ==
    ASSUME NEW S, NEW s \in Seq(S), NEW i \in DOMAIN s
    PROVE  /\ RemoveAt(s, i) \in Seq(S)
           /\ Len(RemoveAt(s, i)) = Len(s) - 1
           /\ \A j \in 1 .. (Len(s) - 1) :
                 RemoveAt(s, i)[j] = s[IF j < i THEN j ELSE j + 1]
  <1> DEFINE a == SubSeq(s, 1, i - 1)
             b == SubSeq(s, i + 1, Len(s))
  <1>1. Len(s) \in Nat /\ i \in 1 .. Len(s)
    BY LenProperties
  <1>2. /\ a \in Seq(S) /\ Len(a) = i - 1
        /\ \A j \in 1 .. (i - 1) : a[j] = s[j]
    BY <1>1, SubSeqProperties
  <1>3. /\ b \in Seq(S) /\ Len(b) = Len(s) - i
        /\ \A j \in 1 .. (Len(s) - i) : b[j] = s[i + j]
    BY <1>1, SubSeqProperties
  <1>4. RemoveAt(s, i) = a \o b
    BY DEF RemoveAt
  <1> HIDE DEF a, b
  <1>5. RemoveAt(s, i) \in Seq(S) /\ Len(RemoveAt(s, i)) = Len(s) - 1
    BY <1>1, <1>2, <1>3, <1>4, ConcatFacts
  <1>6. ASSUME NEW j \in 1 .. (Len(s) - 1)
        PROVE  RemoveAt(s, i)[j] = s[IF j < i THEN j ELSE j + 1]
    <2>1. CASE j < i
      <3>1. j \in 1 .. Len(a) /\ (a \o b)[j] = a[j]
        BY <1>1, <1>2, <1>3, <2>1, ConcatFacts
      <3> QED
        BY <1>1, <1>2, <1>4, <2>1, <3>1
    <2>2. CASE ~(j < i)
      <3>1. PICK k \in 1 .. (Len(s) - i) : j = (i - 1) + k
        <4>1. j - (i - 1) \in 1 .. (Len(s) - i) /\ j = (i - 1) + (j - (i - 1))
          BY <1>1, <2>2
        <4> QED
          BY <4>1
      <3>2. k \in 1 .. Len(b) /\ j = Len(a) + k
        BY <1>2, <1>3, <3>1
      <3>3. (a \o b)[Len(a) + k] = b[k]
        <4>1. \A l \in 1 .. Len(b) : (a \o b)[Len(a) + l] = b[l]
          <5>1. a \in Seq(S) /\ b \in Seq(S)
            BY <1>2, <1>3
          <5> QED
            BY <5>1, ConcatFacts
        <4> QED
          BY <3>2, <4>1
      <3>4. b[k] = s[i + k]
        BY <1>3
      <3>5. i + k = j + 1
        BY <1>1, <3>1
      <3> QED
        BY <1>4, <2>2, <3>2, <3>3, <3>4, <3>5
    <2> QED
      BY <2>1, <2>2
  <1> QED
    BY <1>5, <1>6

-----------------------------------------------------------------------------
(* Sequences without repetition, and what they hold *)

(* What is in a sequence, after one of these operations *)
LEMMA ToSetAppend ==
    ASSUME NEW S, NEW s \in Seq(S), NEW x \in S
    PROVE  ToSet(Append(s, x)) = ToSet(s) \cup {x}
  <1>1. Len(s) \in Nat /\ DOMAIN s = 1 .. Len(s)
    BY LenProperties
  <1>2. DOMAIN Append(s, x) = 1 .. (Len(s) + 1)
    BY AppendFacts, LenProperties
  <1> QED
    BY <1>1, <1>2, AppendFacts DEF ToSet

LEMMA ToSetConcat ==
    ASSUME NEW S, NEW s \in Seq(S), NEW t \in Seq(S)
    PROVE  ToSet(s \o t) = ToSet(s) \cup ToSet(t)
  <1>1. /\ Len(s) \in Nat /\ DOMAIN s = 1 .. Len(s)
        /\ Len(t) \in Nat /\ DOMAIN t = 1 .. Len(t)
    BY LenProperties
  <1>2. s \o t \in Seq(S) /\ Len(s \o t) = Len(s) + Len(t)
    BY ConcatFacts
  <1>3. DOMAIN (s \o t) = 1 .. (Len(s) + Len(t))
    BY <1>2, LenProperties
  <1>4. ToSet(s \o t) \subseteq ToSet(s) \cup ToSet(t)
    <2> SUFFICES ASSUME NEW j \in 1 .. (Len(s) + Len(t))
                 PROVE  (s \o t)[j] \in ToSet(s) \cup ToSet(t)
      BY <1>3 DEF ToSet
    <2>1. CASE j <= Len(s)
      <3>1. j \in 1 .. Len(s)
        BY <1>1, <2>1
      <3> QED
        BY <1>1, <3>1, ConcatFacts DEF ToSet
    <2>2. CASE j > Len(s)
      <3>1. j - Len(s) \in 1 .. Len(t) /\ j = Len(s) + (j - Len(s))
        BY <1>1, <2>2
      <3>2. (s \o t)[j] = t[j - Len(s)]
        BY <3>1, ConcatFacts
      <3> QED
        BY <1>1, <3>1, <3>2 DEF ToSet
    <2> QED
      BY <1>1, <2>1, <2>2
  <1>5. ToSet(s) \subseteq ToSet(s \o t)
    <2> SUFFICES ASSUME NEW j \in 1 .. Len(s)
                 PROVE  s[j] \in ToSet(s \o t)
      BY <1>1 DEF ToSet
    <2> QED
      BY <1>1, <1>3, ConcatFacts DEF ToSet
  <1>6. ToSet(t) \subseteq ToSet(s \o t)
    <2> SUFFICES ASSUME NEW j \in 1 .. Len(t)
                 PROVE  t[j] \in ToSet(s \o t)
      BY <1>1 DEF ToSet
    <2>1. Len(s) + j \in DOMAIN (s \o t)
      BY <1>1, <1>3
    <2>2. (s \o t)[Len(s) + j] = t[j]
      BY ConcatFacts
    <2> QED
      BY <2>1, <2>2 DEF ToSet
  <1> QED
    BY <1>4, <1>5, <1>6

LEMMA InjectiveConcat ==
    ASSUME NEW S, NEW s \in Seq(S), NEW t \in Seq(S),
           IsInjective(s), IsInjective(t), ToSet(s) \cap ToSet(t) = {}
    PROVE  IsInjective(s \o t)
  <1>1. /\ Len(s) \in Nat /\ DOMAIN s = 1 .. Len(s)
        /\ Len(t) \in Nat /\ DOMAIN t = 1 .. Len(t)
    BY LenProperties
  <1>2. s \o t \in Seq(S) /\ Len(s \o t) = Len(s) + Len(t)
    BY ConcatFacts
  <1>3. DOMAIN (s \o t) = 1 .. (Len(s) + Len(t))
    BY <1>2, LenProperties
  <1> DEFINE At(j) == IF j <= Len(s) THEN s[j] ELSE t[j - Len(s)]
  <1>4. ASSUME NEW j \in 1 .. (Len(s) + Len(t))
        PROVE  (s \o t)[j] = At(j)
    <2>1. CASE j <= Len(s)
      <3>1. j \in 1 .. Len(s)
        BY <1>1, <2>1
      <3> QED
        BY <2>1, <3>1, ConcatFacts
    <2>2. CASE ~(j <= Len(s))
      <3>1. j - Len(s) \in 1 .. Len(t) /\ j = Len(s) + (j - Len(s))
        BY <1>1, <2>2
      <3>2. (s \o t)[j] = t[j - Len(s)]
        BY <3>1, ConcatFacts
      <3> QED
        BY <2>2, <3>2
    <2> QED
      BY <2>1, <2>2
  <1> SUFFICES ASSUME NEW j \in 1 .. (Len(s) + Len(t)),
                      NEW k \in 1 .. (Len(s) + Len(t)), At(j) = At(k)
               PROVE  j = k
    BY <1>3, <1>4 DEF IsInjective
  <1>5. \A i \in 1 .. (Len(s) + Len(t)) :
            \/ i \in 1 .. Len(s) /\ At(i) = s[i]
            \/ i - Len(s) \in 1 .. Len(t) /\ At(i) = t[i - Len(s)] /\ ~(i <= Len(s))
    BY <1>1
  <1>6. \A a \in 1 .. Len(s), b \in 1 .. Len(t) : s[a] # t[b]
    BY <1>1 DEF ToSet
  <1>7. \A a, b \in 1 .. Len(s) : s[a] = s[b] => a = b
    BY <1>1 DEF IsInjective
  <1>8. \A a, b \in 1 .. Len(t) : t[a] = t[b] => a = b
    BY <1>1 DEF IsInjective
  <1> HIDE DEF At
  <1>9. CASE j \in 1 .. Len(s) /\ At(j) = s[j]
    BY <1>5, <1>6, <1>7, <1>9
  <1>10. CASE j - Len(s) \in 1 .. Len(t) /\ At(j) = t[j - Len(s)] /\ ~(j <= Len(s))
    <2>1. k - Len(s) \in 1 .. Len(t) /\ At(k) = t[k - Len(s)]
      BY <1>5, <1>6, <1>10
    <2>2. j - Len(s) = k - Len(s)
      BY <1>8, <1>10, <2>1
    <2> QED
      BY <1>1, <2>2
  <1> QED
    BY <1>5, <1>9, <1>10

LEMMA ToSetRemoveAt ==
    ASSUME NEW S, NEW s \in Seq(S), NEW i \in DOMAIN s, IsInjective(s)
    PROVE  /\ ToSet(RemoveAt(s, i)) = ToSet(s) \ {s[i]}
           /\ IsInjective(RemoveAt(s, i))
  <1> DEFINE r == RemoveAt(s, i)
             at(j) == IF j < i THEN j ELSE j + 1
  <1>1. Len(s) \in Nat /\ DOMAIN s = 1 .. Len(s) /\ i \in 1 .. Len(s)
    BY LenProperties
  <1>2. r \in Seq(S) /\ Len(r) = Len(s) - 1
    BY RemoveAtFacts
  <1>3. DOMAIN r = 1 .. (Len(s) - 1)
    BY <1>2, LenProperties
  <1>4. \A j \in DOMAIN r : r[j] = s[at(j)]
    BY <1>3, RemoveAtFacts
  <1>5. \A j \in DOMAIN r : at(j) \in DOMAIN s /\ at(j) # i
    BY <1>1, <1>3
  <1>6. \A j, k \in DOMAIN r : at(j) = at(k) => j = k
    BY <1>1, <1>3
  <1>7. \A n \in DOMAIN s : n # i => \E j \in DOMAIN r : at(j) = n
    <2> SUFFICES ASSUME NEW n \in DOMAIN s, n # i
                 PROVE  \E j \in DOMAIN r : at(j) = n
      OBVIOUS
    <2>1. CASE n < i
      <3>1. n \in DOMAIN r /\ at(n) = n
        BY <1>1, <1>3, <2>1
      <3> QED
        BY <3>1
    <2>2. CASE n > i
      <3>1. n - 1 \in DOMAIN r /\ at(n - 1) = n
        BY <1>1, <1>3, <2>2
      <3> QED
        BY <3>1
    <2> QED
      BY <1>1, <2>1, <2>2
  <1> HIDE DEF r, at
  <1>8. ToSet(r) \subseteq ToSet(s) \ {s[i]}
    BY <1>1, <1>4, <1>5 DEF ToSet, IsInjective
  <1>9. ToSet(s) \ {s[i]} \subseteq ToSet(r)
    BY <1>4, <1>7 DEF ToSet
  <1>10. IsInjective(r)
    BY <1>4, <1>5, <1>6 DEF IsInjective
  <1> QED
    BY <1>8, <1>9, <1>10 DEF r
-----------------------------------------------------------------------------
(* The elements of a sequence that are in a set T: when there is no more   *)
(* than one, moving elements between sequences keeps it so                 *)

Hits(s, T) == {i \in DOMAIN s : s[i] \in T}
NoHit(s, T) == Hits(s, T) = {}
OneHit(s, T) == \E i \in DOMAIN s : Hits(s, T) = {i}

LEMMA EmptyHits ==
    ASSUME NEW T
    PROVE  NoHit(<<>>, T)
  BY DEF NoHit, Hits

LEMMA SingleHits ==
    ASSUME NEW T, NEW x
    PROVE  /\ x \in T => OneHit(<<x>>, T)
           /\ x \notin T => NoHit(<<x>>, T)
  <1>1. DOMAIN <<x>> = {1} /\ <<x>>[1] = x
    OBVIOUS
  <1> QED
    BY <1>1 DEF OneHit, NoHit, Hits

LEMMA ConcatHits ==
    ASSUME NEW S, NEW s \in Seq(S), NEW t \in Seq(S), NEW T
    PROVE  /\ NoHit(s, T) /\ NoHit(t, T) => NoHit(s \o t, T)
           /\ OneHit(s, T) /\ NoHit(t, T) => OneHit(s \o t, T)
           /\ NoHit(s, T) /\ OneHit(t, T) => OneHit(s \o t, T)
  <1>1. /\ Len(s) \in Nat /\ DOMAIN s = 1 .. Len(s)
        /\ Len(t) \in Nat /\ DOMAIN t = 1 .. Len(t)
    BY LenProperties
  <1>2. /\ s \o t \in Seq(S)
        /\ DOMAIN (s \o t) = 1 .. (Len(s) + Len(t))
        /\ \A i \in 1 .. (Len(s) + Len(t)) :
              (s \o t)[i] = IF i <= Len(s) THEN s[i] ELSE t[i - Len(s)]
    BY ConcatProperties, LenProperties
  <1> DEFINE n == Len(s)
             m == Len(t)
             u == s \o t
  <1> HIDE DEF n, m, u
  <1>3. /\ n \in Nat /\ DOMAIN s = 1 .. n
        /\ m \in Nat /\ DOMAIN t = 1 .. m
        /\ DOMAIN u = 1 .. (n + m)
        /\ \A i \in 1 .. (n + m) : u[i] = IF i <= n THEN s[i] ELSE t[i - n]
    BY <1>1, <1>2 DEF n, m, u
  <1>4. \A i \in 1 .. n : i \in 1 .. (n + m) /\ u[i] = s[i]
    BY <1>3
  <1>5. \A i \in 1 .. m : n + i \in 1 .. (n + m) /\ u[n + i] = t[i]
    <2> SUFFICES ASSUME NEW i \in 1 .. m
                 PROVE  n + i \in 1 .. (n + m) /\ u[n + i] = t[i]
      OBVIOUS
    <2>1. n + i \in 1 .. (n + m) /\ ~(n + i <= n) /\ (n + i) - n = i
      BY <1>3
    <2>2. u[n + i] = t[(n + i) - n]
      BY <1>3, <2>1
    <2> QED
      BY <2>1, <2>2
  <1>6. \A i \in 1 .. (n + m) :
           \/ i \in 1 .. n
           \/ i - n \in 1 .. m /\ i = n + (i - n)
    BY <1>3
  <1>7. \A i \in DOMAIN u : u[i] \in T =>
           \/ i \in Hits(s, T)
           \/ i - n \in Hits(t, T) /\ i = n + (i - n)
    BY <1>3, <1>4, <1>5, <1>6 DEF Hits
  <1>8. /\ \A i \in Hits(s, T) : i \in Hits(u, T)
        /\ \A i \in Hits(t, T) : n + i \in Hits(u, T)
    BY <1>3, <1>4, <1>5 DEF Hits
  <1>9. NoHit(s, T) /\ NoHit(t, T) => NoHit(u, T)
    BY <1>7 DEF NoHit, Hits
  <1>10. ASSUME NoHit(t, T), NEW i \in DOMAIN s, Hits(s, T) = {i}
         PROVE  i \in DOMAIN u /\ Hits(u, T) = {i}
    BY <1>7, <1>8, <1>10 DEF NoHit, Hits
  <1>11. ASSUME NoHit(s, T), NEW i \in DOMAIN t, Hits(t, T) = {i}
         PROVE  n + i \in DOMAIN u /\ Hits(u, T) = {n + i}
    <2>1. n + i \in Hits(u, T)
      BY <1>8, <1>11
    <2>2. \A j \in Hits(u, T) : j = n + i
      BY <1>7, <1>11 DEF NoHit, Hits
    <2> QED
      BY <2>1, <2>2 DEF Hits
  <1> QED
    BY <1>9, <1>10, <1>11 DEF OneHit, u

(* An element that is taken away *)
LEMMA RemoveAtHits ==
    ASSUME NEW S, NEW s \in Seq(S), NEW i \in DOMAIN s, NEW T
    PROVE  /\ NoHit(s, T) => NoHit(RemoveAt(s, i), T)
           /\ OneHit(s, T) /\ s[i] \in T => NoHit(RemoveAt(s, i), T)
           /\ OneHit(s, T) /\ s[i] \notin T => OneHit(RemoveAt(s, i), T)
  <1> DEFINE r == RemoveAt(s, i)
             n == Len(s)
             at(j) == IF j < i THEN j ELSE j + 1
  <1>1. n \in Nat /\ DOMAIN s = 1 .. n /\ i \in 1 .. n
    BY LenProperties
  <1>2. /\ r \in Seq(S) /\ Len(r) = n - 1
        /\ \A j \in 1 .. (n - 1) : r[j] = s[at(j)]
    BY RemoveAtFacts
  <1> HIDE DEF r, n
  <1>3. n - 1 \in Nat /\ DOMAIN r = 1 .. (n - 1)
    <2>1. n - 1 \in Nat
      BY <1>1
    <2> QED
      BY <1>2, <2>1, LenProperties
  <1>4. \A j \in 1 .. (n - 1) : at(j) \in (1 .. n) \ {i}
    BY <1>1
  <1>5. \A j \in Hits(r, T) : at(j) \in Hits(s, T) \ {i}
    BY <1>1, <1>2, <1>3, <1>4 DEF Hits
  <1>6. ASSUME NEW k \in Hits(s, T), k # i
        PROVE  \E j \in Hits(r, T) : k = at(j)
    <2>1. k \in 1 .. n /\ s[k] \in T
      BY <1>1, <1>6 DEF Hits
    <2>2. PICK j \in 1 .. (n - 1) : k = at(j)
      <3>1. CASE k < i
        <4>1. k \in 1 .. (n - 1) /\ k = at(k)
          BY <1>1, <2>1, <3>1
        <4> QED
          BY <4>1
      <3>2. CASE k > i
        <4>1. k - 1 \in 1 .. (n - 1) /\ k = at(k - 1)
          BY <1>1, <2>1, <3>2
        <4> QED
          BY <4>1
      <3> QED
        BY <1>1, <1>6, <2>1, <3>1, <3>2
    <2> QED
      BY <1>2, <1>3, <2>1, <2>2 DEF Hits
  <1>7. \A j, k \in Hits(r, T) : at(j) = at(k) => j = k
    BY <1>1, <1>3 DEF Hits
  <1>8. NoHit(s, T) => NoHit(r, T)
    BY <1>5 DEF NoHit
  <1>9. OneHit(s, T) /\ s[i] \in T => NoHit(r, T)
    BY <1>5 DEF NoHit, OneHit, Hits
  <1>10. ASSUME OneHit(s, T), s[i] \notin T
         PROVE  OneHit(r, T)
    <2>1. PICK k \in DOMAIN s : Hits(s, T) = {k}
      BY <1>10 DEF OneHit
    <2>2. k # i /\ k \in Hits(s, T)
      BY <1>10, <2>1 DEF Hits
    <2>3. PICK j \in Hits(r, T) : k = at(j)
      BY <1>6, <2>2
    <2>4. \A l \in Hits(r, T) : l = j
      BY <1>5, <1>7, <2>1, <2>3
    <2>5. j \in DOMAIN r
      BY DEF Hits
    <2> QED
      BY <2>3, <2>4, <2>5 DEF OneHit
  <1> QED
    BY <1>8, <1>9, <1>10 DEF r

(* Sequences with hits at the same places *)
LEMMA SameHits ==
    ASSUME NEW s, NEW t, NEW T, DOMAIN s = DOMAIN t,
           \A i \in DOMAIN s : s[i] \in T <=> t[i] \in T
    PROVE  /\ NoHit(s, T) <=> NoHit(t, T)
           /\ OneHit(s, T) <=> OneHit(t, T)
  <1>1. Hits(s, T) = Hits(t, T)
    BY DEF Hits
  <1> QED
    BY <1>1 DEF NoHit, OneHit

(* FlattenSeq, a step at a time *)
Flattens(g, ss, S, n) ==
    /\ g \in [1 .. n -> Seq(S)]
    /\ \A i \in 1 .. n : g[i] = IF i = 1 THEN ss[i] ELSE g[i - 1] \o ss[i]

LEMMA PartialFlats ==
    ASSUME NEW S, NEW N \in Nat, NEW ss \in [1 .. N -> Seq(S)]
    PROVE  \A n \in 0 .. N : \E g : Flattens(g, ss, S, n)
  <1> DEFINE T == {n \in 0 .. N : ~ \E g : Flattens(g, ss, S, n)}
  <1> SUFFICES ASSUME T # {}
               PROVE  FALSE
    OBVIOUS
  <1>1. PICK n \in T : \A m \in T : n <= m
    <2>1. T \in SUBSET Nat
      OBVIOUS
    <2> HIDE DEF T
    <2> QED
      BY <2>1, SmallestInSet
  <1>2. n \in 0 .. N /\ ~ \E g : Flattens(g, ss, S, n)
    OBVIOUS
  <1>3. n # 0
    <2>1. \A g \in [1 .. 0 -> Seq(S)] : Flattens(g, ss, S, 0)
      BY DEF Flattens
    <2>2. [i \in 1 .. 0 |-> {}] \in [1 .. 0 -> Seq(S)]
      OBVIOUS
    <2> QED
      BY <1>2, <2>1, <2>2
  <1>4. n - 1 \in 0 .. N /\ ~(n <= n - 1)
    BY <1>2, <1>3
  <1>5. PICK h : Flattens(h, ss, S, n - 1)
    BY <1>1, <1>4
  <1> DEFINE last == IF n = 1 THEN ss[n] ELSE h[n - 1] \o ss[n]
             g == [i \in 1 .. n |-> IF i = n THEN last ELSE h[i]]
  <1>6. last \in Seq(S)
    <2>1. ss[n] \in Seq(S)
      BY <1>2, <1>3
    <2>2. CASE n # 1
      <3>1. h[n - 1] \in Seq(S)
        BY <1>2, <1>3, <1>5, <2>2 DEF Flattens
      <3> QED
        BY <2>1, <3>1, ConcatProperties
    <2> QED
      BY <2>1, <2>2
  <1>7. \A i \in 1 .. n : i # n => i \in 1 .. (n - 1)
    BY <1>2
  <1>8. g \in [1 .. n -> Seq(S)]
    <2> HIDE DEF last
    <2> QED
      BY <1>5, <1>6, <1>7 DEF Flattens
  <1>9. ASSUME NEW i \in 1 .. n
        PROVE  g[i] = IF i = 1 THEN ss[i] ELSE g[i - 1] \o ss[i]
    <2>1. i # 1 => i - 1 \in 1 .. n /\ i - 1 # n
      BY <1>2
    <2>2. i # 1 => g[i - 1] = h[i - 1]
      BY <2>1
    <2>3. i # n => h[i] = IF i = 1 THEN ss[i] ELSE h[i - 1] \o ss[i]
      BY <1>5, <1>7 DEF Flattens
    <2> QED
      BY <2>2, <2>3
  <1>10. Flattens(g, ss, S, n)
    <2> HIDE DEF g
    <2> QED
      BY <1>8, <1>9 DEF Flattens
  <1> QED
    BY <1>2, <1>10

LEMMA FlattenSteps ==
    ASSUME NEW S, NEW N \in Nat \ {0}, NEW ss \in [1 .. N -> Seq(S)]
    PROVE  \E g : Flattens(g, ss, S, N) /\ FlattenSeq(ss) = g[N]
  <1> DEFINE Eq(h) == h = [i \in 1 .. N |->
                              IF i = 1 THEN ss[i] ELSE h[i - 1] \o ss[i]]
             f == CHOOSE h : Eq(h)
  <1>1. ss \in Seq(Seq(S)) /\ Len(ss) = N
    BY FunctionIsSeq
  <1>2. FlattenSeq(ss) = f[N]
    BY <1>1 DEF FlattenSeq
  <1>3. Eq(f)
    <2>1. PICK g : Flattens(g, ss, S, N)
      BY PartialFlats
    <2>2. Eq(g)
      BY <2>1 DEF Flattens
    <2> QED
      BY <2>2
  <1>4. /\ DOMAIN f = 1 .. N
        /\ \A i \in 1 .. N : f[i] = IF i = 1 THEN ss[i] ELSE f[i - 1] \o ss[i]
    <2> HIDE DEF f
    <2> QED
      BY <1>3
  <1>5. f = [i \in 1 .. N |-> f[i]]
    <2> HIDE DEF f
    <2> QED
      BY <1>3
  <1> HIDE DEF f
  <1> DEFINE T == {i \in 1 .. N : f[i] \notin Seq(S)}
  <1>6. T = {}
    <2> SUFFICES ASSUME T # {}
                 PROVE  FALSE
      OBVIOUS
    <2>1. PICK n \in T : \A m \in T : n <= m
      <3>1. T \in SUBSET Nat
        OBVIOUS
      <3> HIDE DEF T
      <3> QED
        BY <3>1, SmallestInSet
    <2>2. ss[n] \in Seq(S)
      OBVIOUS
    <2>3. CASE n = 1
      BY <1>4, <2>1, <2>2, <2>3
    <2>4. CASE n # 1
      <3>1. n - 1 \in 1 .. N /\ ~(n <= n - 1)
        BY <2>4
      <3>2. f[n - 1] \in Seq(S)
        BY <2>1, <3>1
      <3>3. f[n] = f[n - 1] \o ss[n]
        BY <1>4, <2>4
      <3>4. f[n - 1] \o ss[n] \in Seq(S)
        BY <2>2, <3>2, ConcatProperties
      <3> QED
        BY <3>3, <3>4
    <2> QED
      BY <2>3, <2>4
  <1>7. f \in [1 .. N -> Seq(S)]
    BY <1>5, <1>6
  <1>8. Flattens(f, ss, S, N)
    BY <1>4, <1>7 DEF Flattens
  <1> QED
    BY <1>2, <1>8

LEMMA FlattenType ==
    ASSUME NEW S, NEW N \in Nat, NEW ss \in [1 .. N -> Seq(S)]
    PROVE  FlattenSeq(ss) \in Seq(S)
  <1>1. CASE N = 0
    <2>1. ss \in Seq(S) /\ Len(ss) = 0
      <3>1. ss \in [1 .. N -> S]
        BY <1>1
      <3> QED
        BY <1>1, <3>1, FunctionIsSeq
    <2> QED
      BY <2>1 DEF FlattenSeq
  <1>2. CASE N # 0
    <2>1. PICK g : Flattens(g, ss, S, N) /\ FlattenSeq(ss) = g[N]
      BY <1>2, FlattenSteps
    <2> QED
      BY <1>2, <2>1 DEF Flattens
  <1> QED
    BY <1>1, <1>2

(* The parts of the sequence do not hit, but for one that hits once *)
LEMMA FlattenHits ==
    ASSUME NEW S, NEW N \in Nat, NEW ss \in [1 .. N -> Seq(S)], NEW T
    PROVE  /\ (\A i \in 1 .. N : NoHit(ss[i], T)) => NoHit(FlattenSeq(ss), T)
           /\ \A k \in 1 .. N :
                 OneHit(ss[k], T) /\ (\A i \in (1 .. N) \ {k} : NoHit(ss[i], T))
                    => OneHit(FlattenSeq(ss), T)
  <1>1. CASE N = 0
    <2>1. Len(ss) = 0 /\ DOMAIN ss = {}
      BY <1>1, FunctionIsSeq
    <2> QED
      BY <1>1, <2>1 DEF FlattenSeq, NoHit, Hits
  <1>2. CASE N # 0
    <2>1. PICK g : Flattens(g, ss, S, N) /\ FlattenSeq(ss) = g[N]
      BY <1>2, FlattenSteps
    <2>2. /\ g \in [1 .. N -> Seq(S)]
          /\ \A i \in 1 .. N : g[i] = IF i = 1 THEN ss[i] ELSE g[i - 1] \o ss[i]
      BY <2>1 DEF Flattens
    <2>3. \A i \in 2 .. N : /\ i - 1 \in 1 .. N /\ i \in 1 .. N /\ i # 1
                            /\ g[i - 1] \in Seq(S) /\ ss[i] \in Seq(S)
                            /\ g[i] = g[i - 1] \o ss[i]
      <3> SUFFICES ASSUME NEW i \in 2 .. N
                   PROVE  /\ i - 1 \in 1 .. N /\ i \in 1 .. N /\ i # 1
                          /\ g[i - 1] \in Seq(S) /\ ss[i] \in Seq(S)
                          /\ g[i] = g[i - 1] \o ss[i]
        OBVIOUS
      <3>1. i - 1 \in 1 .. N /\ i \in 1 .. N /\ i # 1
        OBVIOUS
      <3> QED
        BY <2>2, <3>1
    \* k = 0 stands for none
    <2> DEFINE Fine(i, k) == IF k \in 1 .. i THEN OneHit(g[i], T) ELSE NoHit(g[i], T)
               Given(k) == \A i \in 1 .. N : IF i = k THEN OneHit(ss[i], T)
                                                      ELSE NoHit(ss[i], T)
    <2>4. ASSUME NEW k \in 0 .. N, Given(k)
          PROVE  \A i \in 1 .. N : Fine(i, k)
      <3> DEFINE B == {i \in 1 .. N : ~Fine(i, k)}
      <3> SUFFICES ASSUME B # {}
                   PROVE  FALSE
        OBVIOUS
      <3>1. PICK n \in B : \A m \in B : n <= m
        <4>1. B \in SUBSET Nat
          OBVIOUS
        <4> HIDE DEF B
        <4> QED
          BY <4>1, SmallestInSet
      <3>2. n \in 1 .. N /\ ~Fine(n, k)
        OBVIOUS
      <3>3. CASE n = 1
        <4>1. g[1] = ss[1]
          BY <2>2, <3>2, <3>3
        <4>2. IF 1 = k THEN OneHit(g[1], T) ELSE NoHit(g[1], T)
          BY <2>4, <3>2, <3>3, <4>1
        <4>3. (1 = k) <=> (k \in 1 .. 1)
          OBVIOUS
        <4> QED
          BY <3>2, <3>3, <4>2, <4>3
      <3>4. CASE n # 1
        <4>1. n \in 2 .. N /\ n - 1 \in 1 .. N /\ ~(n <= n - 1)
          BY <3>2, <3>4
        <4>2. Fine(n - 1, k)
          <5>1. n - 1 \notin B
            BY <3>1, <4>1
          <5> QED
            BY <4>1, <5>1
        <4>3. IF n = k THEN OneHit(ss[n], T) ELSE NoHit(ss[n], T)
          BY <2>4, <3>2
        <4>4. g[n - 1] \in Seq(S) /\ ss[n] \in Seq(S) /\ g[n] = g[n - 1] \o ss[n]
          BY <2>3, <4>1
        <4>5. CASE k = n
          <5>1. NoHit(g[n - 1], T) /\ OneHit(ss[n], T) /\ k \in 1 .. n
            BY <4>1, <4>2, <4>3, <4>5
          <5> QED
            BY <3>2, <4>4, <5>1, ConcatHits
        <4>6. CASE k # n /\ k \in 1 .. n
          <5>1. k \in 1 .. (n - 1)
            BY <4>1, <4>6
          <5>2. OneHit(g[n - 1], T) /\ NoHit(ss[n], T)
            BY <4>2, <4>3, <4>6, <5>1
          <5> QED
            BY <3>2, <4>4, <4>6, <5>2, ConcatHits
        <4>7. CASE k # n /\ k \notin 1 .. n
          <5>1. k \notin 1 .. (n - 1)
            BY <4>1, <4>7
          <5>2. NoHit(g[n - 1], T) /\ NoHit(ss[n], T)
            BY <4>2, <4>3, <4>7, <5>1
          <5> QED
            BY <3>2, <4>4, <4>7, <5>2, ConcatHits
        <4> QED
          BY <4>5, <4>6, <4>7
      <3> QED
        BY <3>3, <3>4
    <2>5. ASSUME \A i \in 1 .. N : NoHit(ss[i], T)
          PROVE  NoHit(g[N], T)
      <3>1. Given(0) /\ 0 \in 0 .. N
        BY <2>5
      <3> HIDE DEF Given, Fine
      <3>2. Fine(N, 0)
        BY <1>2, <2>4, <3>1
      <3> QED
        BY <3>2 DEF Fine
    <2>6. ASSUME NEW k \in 1 .. N, OneHit(ss[k], T),
                 \A i \in (1 .. N) \ {k} : NoHit(ss[i], T)
          PROVE  OneHit(g[N], T)
      <3>1. Given(k) /\ k \in 0 .. N
        BY <2>6
      <3> HIDE DEF Given, Fine
      <3>2. N \in 1 .. N
        BY <1>2
      <3>3. Fine(N, k)
        BY <2>4, <3>1, <3>2
      <3> QED
        BY <3>3 DEF Fine
    <2> QED
      BY <2>1, <2>5, <2>6
  <1> QED
    BY <1>1, <1>2

-----------------------------------------------------------------------------
(* How many hits a sequence has *)

HitCount(s, T) == Cardinality(Hits(s, T))

LEMMA HitCountType ==
    ASSUME NEW S, NEW s \in Seq(S), NEW T
    PROVE  /\ IsFiniteSet(Hits(s, T))
           /\ HitCount(s, T) \in Nat
           /\ HitCount(s, T) = 0 <=> NoHit(s, T)
           /\ HitCount(s, T) = 1 <=> OneHit(s, T)
  <1>1. Len(s) \in Nat /\ DOMAIN s = 1 .. Len(s)
    BY LenProperties
  <1>2. IsFiniteSet(DOMAIN s)
    BY <1>1, FS_Interval
  <1>3. IsFiniteSet(Hits(s, T))
    <2>1. Hits(s, T) \in SUBSET DOMAIN s
      BY DEF Hits
    <2> QED
      BY <1>2, <2>1, FS_Subset
  <1>4. OneHit(s, T) <=> \E i : Hits(s, T) = {i}
    BY DEF OneHit, Hits
  <1> QED
    BY <1>3, <1>4, FS_CardinalityType, FS_EmptySet, FS_Singleton DEF HitCount, NoHit

LEMMA HitCountEmpty ==
    ASSUME NEW T
    PROVE  HitCount(<<>>, T) = 0
  BY EmptyHits, FS_EmptySet DEF HitCount, NoHit

LEMMA HitCountSingle ==
    ASSUME NEW T, NEW x
    PROVE  HitCount(<<x>>, T) = IF x \in T THEN 1 ELSE 0
  <1>1. x \in T => OneHit(<<x>>, T)
    BY SingleHits
  <1>2. x \notin T => NoHit(<<x>>, T)
    BY SingleHits
  <1> QED
    BY <1>1, <1>2, FS_EmptySet, FS_Singleton DEF HitCount, NoHit, OneHit

LEMMA HitCountSame ==
    ASSUME NEW s, NEW t, NEW T, DOMAIN s = DOMAIN t,
           \A i \in DOMAIN s : s[i] \in T <=> t[i] \in T
    PROVE  HitCount(s, T) = HitCount(t, T)
  <1>1. Hits(s, T) = Hits(t, T)
    BY DEF Hits
  <1> QED
    BY <1>1 DEF HitCount

LEMMA HitCountConcat ==
    ASSUME NEW S, NEW s \in Seq(S), NEW t \in Seq(S), NEW T
    PROVE  HitCount(s \o t, T) = HitCount(s, T) + HitCount(t, T)
  <1> DEFINE n == Len(s)
             m == Len(t)
             u == s \o t
             H == Hits(t, T)
             K == {i \in (n + 1) .. (n + m) : u[i] \in T}
             f == [i \in H |-> n + i]
  <1>1. /\ n \in Nat /\ DOMAIN s = 1 .. n
        /\ m \in Nat /\ DOMAIN t = 1 .. m
    BY LenProperties
  <1>2. /\ u \in Seq(S) /\ DOMAIN u = 1 .. (n + m)
        /\ \A i \in 1 .. (n + m) : u[i] = IF i <= n THEN s[i] ELSE t[i - n]
    BY ConcatProperties, LenProperties
  <1> HIDE DEF n, m, u
  <1>3. Hits(u, T) = Hits(s, T) \cup K
    <2>1. \A i \in 1 .. n : i \in 1 .. (n + m) /\ u[i] = s[i]
      BY <1>1, <1>2
    <2>2. \A i \in 1 .. (n + m) : i \in 1 .. n \/ i \in (n + 1) .. (n + m)
      BY <1>1
    <2>3. (n + 1) .. (n + m) \subseteq 1 .. (n + m)
      BY <1>1
    <2> QED
      BY <1>1, <1>2, <2>1, <2>2, <2>3 DEF Hits
  <1>4. Hits(s, T) \cap K = {}
    BY <1>1 DEF Hits
  <1>5. \A i \in 1 .. m : n + i \in (n + 1) .. (n + m) /\ u[n + i] = t[i]
    <2> SUFFICES ASSUME NEW i \in 1 .. m
                 PROVE  n + i \in (n + 1) .. (n + m) /\ u[n + i] = t[i]
      OBVIOUS
    <2>1. n + i \in 1 .. (n + m) /\ ~(n + i <= n) /\ (n + i) - n = i
      BY <1>1
    <2>2. u[n + i] = t[(n + i) - n]
      BY <1>2, <2>1
    <2>3. n + i \in (n + 1) .. (n + m)
      BY <1>1
    <2> QED
      BY <2>1, <2>2, <2>3
  <1>6. \A k \in (n + 1) .. (n + m) : k - n \in 1 .. m /\ n + (k - n) = k
    BY <1>1
  <1>7. f \in Bijection(H, K)
    <2>1. H \subseteq 1 .. m
      BY <1>1 DEF Hits
    <2>2. \A i \in H : t[i] \in T
      BY DEF Hits
    <2>3. f \in [H -> K]
      BY <1>5, <2>1, <2>2
    <2>4. \A i, j \in H : f[i] = f[j] => i = j
      BY <1>1, <2>1
    <2>5. \A k \in K : \E i \in H : f[i] = k
      <3> SUFFICES ASSUME NEW k \in K
                   PROVE  k - n \in H /\ f[k - n] = k
        OBVIOUS
      <3>1. k - n \in 1 .. m /\ n + (k - n) = k
        BY <1>6
      <3>2. u[n + (k - n)] = t[k - n]
        BY <1>5, <3>1
      <3>3. k - n \in H
        BY <1>1, <3>1, <3>2 DEF Hits
      <3> QED
        BY <3>1, <3>3
    <2> QED
      BY <2>3, <2>4, <2>5 DEF Bijection, Injection, Surjection, IsInjective
  <1>8. IsFiniteSet(H) /\ IsFiniteSet(Hits(s, T))
    BY HitCountType
  <1>9. IsFiniteSet(K) /\ Cardinality(K) = Cardinality(H)
    <2> HIDE DEF H, K, f
    <2>1. ExistsBijection(H, K)
      BY <1>7 DEF ExistsBijection
    <2> QED
      BY <1>8, <2>1, FS_Bijection
  <1>10. Cardinality(Hits(s, T) \cup K) = Cardinality(Hits(s, T)) + Cardinality(K)
    <2> HIDE DEF K
    <2>1. Cardinality(Hits(s, T) \cap K) = 0
      BY <1>4, FS_EmptySet
    <2>2. /\ Cardinality(Hits(s, T) \cup K) =
                Cardinality(Hits(s, T)) + Cardinality(K) - Cardinality(Hits(s, T) \cap K)
          /\ Cardinality(Hits(s, T)) \in Nat /\ Cardinality(K) \in Nat
      BY <1>8, <1>9, FS_Union, FS_CardinalityType
    <2> QED
      BY <2>1, <2>2
  <1> QED
    BY <1>3, <1>9, <1>10 DEF HitCount, H, u

(* The first element is taken away *)
LEMMA HitCountTail ==
    ASSUME NEW S, NEW s \in Seq(S), s # <<>>, NEW T
    PROVE  /\ Tail(s) \in Seq(S) /\ Head(s) \in S
           /\ HitCount(s, T) = HitCount(Tail(s), T) + HitCount(<<Head(s)>>, T)
  <1> DEFINE t == Tail(s)
             h == <<Head(s)>>
  <1>1. Tail(s) \in Seq(S) /\ Head(s) \in S /\ s = h \o t
    BY HeadTailProperties
  <1>2. h \in Seq(S) /\ t \in Seq(S)
    BY <1>1
  <1> HIDE DEF h, t
  <1>3. HitCount(h \o t, T) = HitCount(h, T) + HitCount(t, T)
    BY <1>2, HitCountConcat
  <1>4. HitCount(h, T) \in Nat /\ HitCount(t, T) \in Nat
    BY <1>2, HitCountType
  <1>5. HitCount(s, T) = HitCount(t, T) + HitCount(h, T)
    BY <1>1, <1>3, <1>4
  <1> QED
    BY <1>1, <1>5 DEF h, t

LEMMA SumFunctionIs ==
    ASSUME NEW f
    PROVE  SumFunction(f) = SumOver(f, DOMAIN f)
  BY DEF SumFunction, SumFunctionOnSet, FoldFunctionOnSet, SumOver, MapThenSumSet,
         MapThenFoldSet
=============================================================================
