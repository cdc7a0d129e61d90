----------------------------- MODULE DataProofs -----------------------------
(*************************************************************************)
(* What is stored and counted: the start of the database, the settings,  *)
(* the records of the backtest page, the trades of a pair, and the       *)
(* curves and claims of a study, for any values of their constants; and  *)
(* before these, induction over numbers and finite sets, sums, and       *)
(* sequences, which the prover's library leaves to be derived.           *)
(*************************************************************************)
EXTENDS Parts, FiniteSetTheorems, SequenceTheorems, WellFoundedInduction, TLAPS

----------------------------------------------------------------------------
(* Numbers, finite sets and sums *)

\* Some number of a set of numbers is the least.
LEMMA Least == ASSUME NEW T, T \subseteq Nat, T # {} PROVE \E m \in T : \A k \in T : m <= k
<1> DEFINE R == {ss \in Nat \X Nat : ss[1] < ss[2]}
<1>1. IsWellFoundedOn(R, Nat)
  BY NatLessThanWellFounded DEF OpToRel
<1>2. \A a, b \in Nat : <<a, b>> \in R <=> a < b
  OBVIOUS
<1> HIDE DEF R
<1>3. \E x \in T : \A y \in T : ~ (<<y, x>> \in R)
  BY <1>1, WFMin
<1>4. \A a, b \in T : a < b \/ b <= a
  OBVIOUS
<1> QED BY <1>2, <1>3, <1>4

LEMMA NumberInduction ==
  ASSUME NEW A, 0 \in A, \A n \in Nat : n \in A => n + 1 \in A PROVE Nat \subseteq A
<1> SUFFICES ASSUME ~(Nat \subseteq A) PROVE FALSE
  OBVIOUS
<1>1. PICK m \in Nat \ A : \A k \in Nat \ A : m <= k
  BY Least
<1>2. m - 1 \in Nat /\ m - 1 \in A
  BY <1>1
<1> QED BY <1>1, <1>2

\* Recursion along a rank: what needs the values of lower rank only has a solution,
LooksDown(D, V, rank, body) ==
  \A d \in D : \A f, g \in [D -> V] :
    (\A e \in D : rank[e] < rank[d] => f[e] = g[e]) => body[d][f] = body[d][g]
Solves(D, body, f) == \A d \in D : f[d] = body[d][f]

LEMMA RankRecursion ==
  ASSUME NEW D, NEW V, NEW v \in V, NEW top \in Nat, NEW rank \in [D -> Nat],
         \A d \in D : rank[d] < top, NEW body \in [D -> [[D -> V] -> V]],
         LooksDown(D, V, rank, body)
  PROVE  \E f \in [D -> V] : Solves(D, body, f)
<1> DEFINE Upto(f, n) == \A d \in D : rank[d] < n => f[d] = body[d][f]
           A == {n \in Nat : \E f \in [D -> V] : Upto(f, n)}
<1>1. 0 \in A
  <2>1. [d \in D |-> v] \in [D -> V] /\ \A d \in D : ~(rank[d] < 0)
    OBVIOUS
  <2> QED BY <2>1
<1>2. ASSUME NEW n \in Nat, n \in A PROVE n + 1 \in A
  <2>1. PICK f \in [D -> V] : Upto(f, n)
    BY <1>2
  <2>2. PICK g \in [D -> V] : \A d \in D : g[d] = IF rank[d] < n THEN f[d] ELSE body[d][f]
    <3>1. [d \in D |-> IF rank[d] < n THEN f[d] ELSE body[d][f]] \in [D -> V]
      OBVIOUS
    <3> QED BY <3>1
  <2>3. ASSUME NEW d \in D, rank[d] < n + 1 PROVE g[d] = body[d][g]
    <3>1. rank[d] <= n /\ rank[d] \in Nat
      BY <2>3
    <3>2. \A e \in D : rank[e] < rank[d] => f[e] = g[e]
      BY <2>2, <3>1
    <3>3. body[d][f] = body[d][g]
      BY <3>2 DEF LooksDown
    <3>4. g[d] = body[d][f]
      BY <2>1, <2>2
    <3> QED BY <3>3, <3>4
  <2>4. Upto(g, n + 1)
    BY <2>3
  <2> HIDE DEF Upto
  <2> QED BY <2>4
<1>3. top \in A
  <2> HIDE DEF A
  <2> QED BY <1>1, <1>2, NumberInduction
<1> QED BY <1>3 DEF Solves

\* and what holds of a point when it does of those of lower rank holds of all.
LEMMA RankInduction ==
  ASSUME NEW D, NEW rank \in [D -> Nat], NEW G \in SUBSET D,
         \A d \in D : (\A e \in D : rank[e] < rank[d] => e \in G) => d \in G
  PROVE  G = D
<1> DEFINE A == {n \in Nat : \A d \in D : rank[d] < n => d \in G}
<1>1. 0 \in A
  BY \A d \in D : ~(rank[d] < 0)
<1>2. ASSUME NEW n \in Nat, n \in A PROVE n + 1 \in A
  <2>1. ASSUME NEW d \in D, rank[d] < n + 1 PROVE d \in G
    <3>1. \A e \in D : rank[e] < rank[d] => e \in G
      BY <1>2, <2>1
    <3> QED BY <3>1
  <2> QED BY <2>1
<1>3. Nat \subseteq A
  <2> HIDE DEF A
  <2> QED BY <1>1, <1>2, NumberInduction
<1>4. ASSUME NEW d \in D PROVE d \in G
  <2>1. rank[d] + 1 \in A /\ rank[d] < rank[d] + 1
    BY <1>3
  <2> QED BY <2>1
<1> QED BY <1>4

\* A value carried through the numbers up to n.
Carries(n, v, step, f) == f[0] = v /\ \A k \in 1..n : f[k] = step[k][f[k - 1]]

LEMMA NumberRecursion ==
  ASSUME NEW n \in Nat, NEW V, NEW v \in V, NEW step \in [1..n -> [V -> V]]
  PROVE  \E f \in [0..n -> V] : Carries(n, v, step, f)
<1> DEFINE D == 0..n
           rank == [k \in D |-> k]
           body == [k \in D |-> [f \in [D -> V] |-> IF k = 0 THEN v ELSE step[k][f[k - 1]]]]
<1>1. rank \in [D -> Nat] /\ \A k \in D : rank[k] < n + 1
  OBVIOUS
<1>2. body \in [D -> [[D -> V] -> V]]
  OBVIOUS
<1>3. ASSUME NEW k \in D, NEW f \in [D -> V], NEW g \in [D -> V], \A e \in D : rank[e] < rank[k] => f[e] = g[e]
      PROVE  body[k][f] = body[k][g]
  <2>1. CASE k = 0
    BY <2>1
  <2>2. CASE k # 0
    <3>1. k - 1 \in D /\ rank[k - 1] < rank[k]
      BY <2>2
    <3>2. f[k - 1] = g[k - 1]
      BY <1>3, <3>1
    <3> QED BY <2>2, <3>2
  <2> QED BY <2>1, <2>2
<1>4. PICK f \in [D -> V] : \A k \in D : f[k] = body[k][f]
  <2> HIDE DEF body, rank
  <2>1. PICK B : B = body
    OBVIOUS
  <2>2. n + 1 \in Nat
    OBVIOUS
  <2>3. B \in [D -> [[D -> V] -> V]]
    BY <1>2, <2>1
  <2> HIDE DEF D
  <2>4. LooksDown(D, V, rank, B)
    BY <1>3, <2>1 DEF LooksDown
  <2>5. \E f \in [D -> V] : Solves(D, B, f)
    BY <1>1, <2>2, <2>3, <2>4, RankRecursion
  <2> QED BY <2>1, <2>5 DEF Solves
<1>5. Carries(n, v, step, f)
  BY <1>4 DEF Carries
<1> QED BY <1>5

LEMMA SetInduction ==
  ASSUME NEW S, IsFiniteSet(S), NEW G,
         \A s \in SUBSET S : (\A x \in s : s \ {x} \in G) => s \in G
  PROVE  SUBSET S \subseteq G
<1> SUFFICES ASSUME ~(SUBSET S \subseteq G) PROVE FALSE
  OBVIOUS
<1> DEFINE T == {n \in Nat : \E s \in SUBSET S : s \notin G /\ Cardinality(s) = n}
<1>1. \A s \in SUBSET S : IsFiniteSet(s) /\ Cardinality(s) \in Nat
  BY FS_Subset, FS_CardinalityType
<1>2. T # {}
  BY <1>1
<1>3. PICK m \in T : \A k \in T : m <= k
  BY <1>2, Least
<1>4. PICK s \in SUBSET S : s \notin G /\ Cardinality(s) = m
  BY <1>3
<1>5. ASSUME NEW x \in s PROVE s \ {x} \in G
  <2>1. Cardinality(s \ {x}) = m - 1
    BY <1>1, <1>4, FS_RemoveElement
  <2>2. s \ {x} \in SUBSET S /\ Cardinality(s \ {x}) \in Nat
    BY <1>1
  <2>3. m \in Nat /\ m - 1 \notin T
    BY <1>3
  <2> QED BY <2>1, <2>2, <2>3
<1> QED BY <1>4, <1>5

LEMMA Greatest ==
  ASSUME NEW T, IsFiniteSet(T), T \subseteq Int, T # {} PROVE \E m \in T : \A k \in T : k <= m
<1> DEFINE Ok(s) == s = {} \/ \E m \in s : \A k \in s : k <= m
           G == {s \in SUBSET T : Ok(s)}
<1>1. ASSUME NEW s \in SUBSET T, \A x \in s : s \ {x} \in G PROVE s \in G
  <2>1. ASSUME NEW x \in s PROVE \E m \in s : \A k \in s : k <= m
    <3>1. CASE s \ {x} = {}
      <4>1. \A k \in s : k = x /\ k <= x
        BY <3>1
      <4> QED BY <4>1
    <3>2. CASE \E m \in s \ {x} : \A k \in s \ {x} : k <= m
      <4>1. PICK m \in s \ {x} : \A k \in s \ {x} : k <= m
        BY <3>2
      <4>2. x \in Int /\ m \in Int /\ m \in s
        OBVIOUS
      <4>3. CASE x <= m
        BY <4>1, <4>2, <4>3
      <4>4. CASE m <= x
        <5>1. \A k \in s : k <= x
          BY <4>1, <4>2, <4>4
        <5> QED BY <5>1
      <4> QED BY <4>2, <4>3, <4>4
    <3>3. Ok(s \ {x})
      BY <1>1
    <3> QED BY <3>1, <3>2, <3>3
  <2> QED BY <2>1
<1>2. SUBSET T \subseteq G
  <2> HIDE DEF G
  <2> QED BY <1>1, SetInduction
<1> QED BY <1>2

\* h goes through the subsets of S, taking one chosen element off after the other.
Takes(S, c) == \A s \in SUBSET S : s # {} => c[s] \in s
IsFold(S, c, base, step, h) ==
  \A s \in SUBSET S : h[s] = IF s = {} THEN base ELSE step[s][h[s \ {c[s]}]]

LEMMA FoldExists ==
  ASSUME NEW S, IsFiniteSet(S), NEW V, NEW base \in V, NEW c, Takes(S, c),
         NEW step \in [SUBSET S -> [V -> V]]
  PROVE  \E h \in [SUBSET S -> V] : IsFold(S, c, base, step, h)
<1> DEFINE Ok(h, s) == h[s] = IF s = {} THEN base ELSE step[s][h[s \ {c[s]}]]
           A == {n \in Nat : \E h \in [SUBSET S -> V] :
                               \A s \in SUBSET S : Cardinality(s) <= n => Ok(h, s)}
<1>1. \A s \in SUBSET S : IsFiniteSet(s) /\ Cardinality(s) \in Nat
  BY FS_Subset, FS_CardinalityType
<1>2. \A s \in SUBSET S : s # {} => c[s] \in s /\ s \ {c[s]} \in SUBSET S /\ Cardinality(s \ {c[s]}) = Cardinality(s) - 1
  BY <1>1, FS_RemoveElement DEF Takes
<1>3. \A s \in SUBSET S : Cardinality(s) <= 0 => s = {}
  BY <1>1, FS_EmptySet
<1>4. 0 \in A
  <2>1. [s \in SUBSET S |-> base] \in [SUBSET S -> V]
    OBVIOUS
  <2> QED BY <1>3, <2>1
<1>5. ASSUME NEW n \in Nat, n \in A PROVE n + 1 \in A
  <2>1. PICK h \in [SUBSET S -> V] : \A s \in SUBSET S : Cardinality(s) <= n => Ok(h, s)
    BY <1>5
  <2> DEFINE g == [s \in SUBSET S |-> IF Cardinality(s) <= n THEN h[s] ELSE step[s][h[s \ {c[s]}]]]
  <2>2. ASSUME NEW s \in SUBSET S PROVE g[s] \in V
    <3>1. CASE Cardinality(s) <= n
      BY <3>1
    <3>2. CASE ~(Cardinality(s) <= n)
      <4>1. s # {}
        <5>1. Cardinality({}) = 0
          BY FS_EmptySet
        <5>2. Cardinality(s) # 0
          BY <1>1, <3>2
        <5> QED BY <5>1, <5>2
      <4>2. h[s \ {c[s]}] \in V
        BY <1>2, <4>1
      <4> QED BY <3>2, <4>2
    <3> QED BY <3>1, <3>2
  <2>3. g \in [SUBSET S -> V]
    BY <2>2
  <2>4. ASSUME NEW s \in SUBSET S, Cardinality(s) <= n + 1 PROVE Ok(g, s)
    <3>1. CASE s = {}
      BY <2>1, <3>1, FS_EmptySet
    <3>2. CASE s # {}
      <4>1. s \ {c[s]} \in SUBSET S /\ Cardinality(s \ {c[s]}) <= n
        BY <1>1, <1>2, <2>4, <3>2
      <4>2. g[s \ {c[s]}] = h[s \ {c[s]}]
        BY <4>1
      <4>3. g[s] = step[s][h[s \ {c[s]}]]
        BY <2>1, <3>2
      <4> QED BY <3>2, <4>2, <4>3
    <3> QED BY <3>1, <3>2, ZenonT(30)
  <2> HIDE DEF g, Ok
  <2> QED BY <2>3, <2>4
<1>6. Cardinality(S) \in A
  BY <1>1, <1>4, <1>5, NumberInduction
<1>7. \A s \in SUBSET S : Cardinality(s) <= Cardinality(S)
  BY FS_Subset
<1> QED BY <1>6, <1>7 DEF IsFold

\* What holds of the base and of every step holds of a fold.
LEMMA FoldStays ==
  ASSUME NEW S, IsFiniteSet(S), NEW V, NEW c, Takes(S, c), NEW h, h[{}] \in V,
         \A s \in SUBSET S : s # {} /\ h[s \ {c[s]}] \in V => h[s] \in V
  PROVE  \A s \in SUBSET S : h[s] \in V
<1> DEFINE G == {s \in SUBSET S : h[s] \in V}
<1>1. \A s \in SUBSET S : (\A x \in s : s \ {x} \in G) => s \in G
  BY DEF Takes
<1>2. SUBSET S \subseteq G
  <2> HIDE DEF G
  <2> QED BY <1>1, SetInduction
<1> QED BY <1>2

----------------------------------------------------------------------------
\* h adds up f over the subsets of S, as the folds of the community modules do.
Picked(s) == CHOOSE x \in s : TRUE
Adds(S, f, h) ==
  h = [s \in SUBSET S |-> IF s = {} THEN 0 ELSE f[Picked(s)] + h[s \ {Picked(s)}]]

LEMMA SumExists ==
  ASSUME NEW S, IsFiniteSet(S), NEW f \in [S -> Int]
  PROVE  \E h \in [SUBSET S -> Int] : Adds(S, f, h)
<1> DEFINE c == [s \in SUBSET S |-> Picked(s)]
           step == [s \in SUBSET S |-> [v \in Int |-> IF s = {} THEN 0 ELSE f[Picked(s)] + v]]
<1>0. \A s \in SUBSET S : s # {} => Picked(s) \in s /\ Picked(s) \in S
  BY DEF Picked
<1>1. Takes(S, c)
  BY <1>0 DEF Takes
<1>2. step \in [SUBSET S -> [Int -> Int]]
  <2>1. \A s \in SUBSET S : \A v \in Int : (IF s = {} THEN 0 ELSE f[Picked(s)] + v) \in Int
    BY <1>0
  <2> QED BY <2>1
<1>c. \A s \in SUBSET S : c[s] = Picked(s)
  OBVIOUS
<1>s. \A s \in SUBSET S : s # {} => \A v \in Int : step[s][v] = f[Picked(s)] + v
  OBVIOUS
<1> HIDE DEF c, step
<1>3. PICK h \in [SUBSET S -> Int] : IsFold(S, c, 0, step, h)
  <2>1. 0 \in Int
    OBVIOUS
  <2> QED BY <1>1, <1>2, <2>1, FoldExists
<1>4. ASSUME NEW s \in SUBSET S
      PROVE  h[s] = IF s = {} THEN 0 ELSE f[Picked(s)] + h[s \ {Picked(s)}]
  <2>1. h[s] = IF s = {} THEN 0 ELSE step[s][h[s \ {c[s]}]]
    BY <1>3 DEF IsFold
  <2>2. CASE s # {}
    <3>1. s \ {Picked(s)} \in SUBSET S /\ h[s \ {Picked(s)}] \in Int
      OBVIOUS
    <3> QED BY <1>c, <1>s, <2>1, <2>2, <3>1
  <2> QED BY <2>1, <2>2
<1> QED BY <1>4 DEF Adds

\* Any element may be the first to be taken off.
LEMMA SumTakes ==
  ASSUME NEW S, IsFiniteSet(S), NEW f \in [S -> Int], NEW h, Adds(S, f, h)
  PROVE  /\ h[{}] = 0
         /\ \A s \in SUBSET S : h[s] \in Int
         /\ \A s \in SUBSET S : \A x \in s : h[s] = f[x] + h[s \ {x}]
<1>1. \A s \in SUBSET S : h[s] = IF s = {} THEN 0 ELSE f[Picked(s)] + h[s \ {Picked(s)}]
  BY Zenon DEF Adds
<1>2. \A s \in SUBSET S : s # {} => Picked(s) \in s /\ s \ {Picked(s)} \in SUBSET S /\ f[Picked(s)] \in Int
  BY DEF Picked
<1>3. h[{}] = 0
  BY <1>1
<1>i. \A s \in SUBSET S : h[s] \in Int
  <2> DEFINE G == {s \in SUBSET S : h[s] \in Int}
  <2>1. ASSUME NEW s \in SUBSET S, \A x \in s : s \ {x} \in G PROVE s \in G
    <3>1. CASE s # {}
      <4>1. Picked(s) \in s /\ f[Picked(s)] \in Int /\ h[s] = f[Picked(s)] + h[s \ {Picked(s)}]
        BY <1>1, <1>2, <3>1
      <4>2. h[s \ {Picked(s)}] \in Int
        BY <2>1, <4>1
      <4>3. h[s] \in Int
        BY <4>1, <4>2
      <4> QED BY <4>3
    <3> QED BY <1>3, <3>1
  <2>2. SUBSET S \subseteq G
    <3> HIDE DEF G
    <3> QED BY <2>1, SetInduction
  <2> QED BY <2>2
<1> DEFINE G == {s \in SUBSET S : \A x \in s : h[s] = f[x] + h[s \ {x}]}
<1>4. ASSUME NEW s \in SUBSET S, \A x \in s : s \ {x} \in G PROVE s \in G
  <2>2. ASSUME NEW x \in s PROVE h[s] = f[x] + h[s \ {x}]
    <3> DEFINE p == Picked(s)
    <3>1. p \in s /\ f[p] \in Int /\ h[s] = f[p] + h[s \ {p}]
      BY <1>1, <1>2, <2>2
    <3>2. ASSUME x # p PROVE h[s] = f[x] + h[s \ {x}]
      <4>1. x \in s \ {p} /\ p \in s \ {x} /\ f[x] \in Int
        BY <3>1, <3>2
      <4>2. s \ {p} \in G /\ s \ {x} \in G
        BY <1>4, <3>1
      <4>3. h[s \ {p}] = f[x] + h[(s \ {p}) \ {x}] /\ h[s \ {x}] = f[p] + h[(s \ {x}) \ {p}]
        BY <4>1, <4>2
      <4>4. (s \ {p}) \ {x} = (s \ {x}) \ {p} /\ (s \ {p}) \ {x} \in SUBSET S
        OBVIOUS
      <4>5. PICK v \in Int : h[(s \ {p}) \ {x}] = v /\ h[(s \ {x}) \ {p}] = v
        BY <1>i, <4>4
      <4>6. h[s] = f[p] + (f[x] + v) /\ h[s \ {x}] = f[p] + v
        BY <3>1, <4>3, <4>5
      <4> HIDE DEF p
      <4> QED BY <3>1, <4>1, <4>5, <4>6
    <3> QED BY <3>1, <3>2
  <2> QED BY <2>2
<1>5. SUBSET S \subseteq G
  <2> HIDE DEF G
  <2> QED BY <1>4, SetInduction
<1> QED BY <1>3, <1>i, <1>5

\* What is added up depends on the values alone.
LEMMA SumAgrees ==
  ASSUME NEW S, IsFiniteSet(S), NEW f \in [S -> Int], NEW h, Adds(S, f, h),
         NEW T, IsFiniteSet(T), NEW g \in [T -> Int], NEW k, Adds(T, g, k),
         NEW U \in SUBSET S, U \subseteq T, \A x \in U : f[x] = g[x]
  PROVE  h[U] = k[U]
<1> DEFINE G == {s \in SUBSET U : h[s] = k[s]}
<1>0. IsFiniteSet(U)
  BY FS_Subset
<1>1. h[{}] = 0 /\ \A s \in SUBSET S : \A x \in s : h[s] = f[x] + h[s \ {x}]
  BY SumTakes
<1>2. k[{}] = 0 /\ \A s \in SUBSET T : \A x \in s : k[s] = g[x] + k[s \ {x}]
  BY SumTakes
<1>3. ASSUME NEW s \in SUBSET U, \A x \in s : s \ {x} \in G PROVE s \in G
  <2>1. ASSUME NEW x \in s PROVE h[s] = k[s]
    <3>1. h[s] = f[x] + h[s \ {x}] /\ k[s] = g[x] + k[s \ {x}]
      BY <1>1, <1>2
    <3>2. h[s \ {x}] = k[s \ {x}] /\ f[x] = g[x]
      BY <1>3
    <3> QED BY <3>1, <3>2
  <2> QED BY <1>1, <1>2, <2>1
<1>4. SUBSET U \subseteq G
  <2> HIDE DEF G
  <2> QED BY <1>0, <1>3, SetInduction
<1> QED BY <1>4

\* The sum of f over its domain.
SumOf(f) == (CHOOSE h : Adds(DOMAIN f, f, h))[DOMAIN f]

LEMMA SumOfAll ==
  ASSUME NEW S, IsFiniteSet(S), NEW f \in [S -> Int], NEW h, Adds(S, f, h)
  PROVE  SumOf(f) = h[S]
<1> DEFINE k == CHOOSE k : Adds(S, f, k)
<1>1. Adds(S, f, k)
  OBVIOUS
<1>2. DOMAIN f = S /\ SumOf(f) = k[S]
  BY DEF SumOf
<1> HIDE DEF k
<1> QED BY <1>1, <1>2, SumAgrees

\* One element off, and one element put in.
LEMMA SumWithout ==
  ASSUME NEW S, IsFiniteSet(S), NEW f \in [S -> Int], NEW x \in S
  PROVE  /\ SumOf(f) \in Int /\ SumOf([y \in S \ {x} |-> f[y]]) \in Int
         /\ SumOf(f) = f[x] + SumOf([y \in S \ {x} |-> f[y]])
<1> DEFINE T == S \ {x}
           g == [y \in T |-> f[y]]
<1>1. PICK h : Adds(S, f, h)
  BY SumExists
<1>2. IsFiniteSet(T) /\ g \in [T -> Int] /\ T \in SUBSET S /\ \A y \in T : g[y] = f[y]
  BY FS_Subset
<1> HIDE DEF g
<1>3. PICK k : Adds(T, g, k)
  BY <1>2, SumExists
<1>4. h[T] = k[T]
  BY <1>1, <1>2, <1>3, SumAgrees
<1>5. SumOf(f) = h[S] /\ SumOf(g) = k[T]
  BY <1>1, <1>2, <1>3, SumOfAll
<1>6. h[S] = f[x] + h[T] /\ h[S] \in Int /\ h[T] \in Int
  <2>1. S \in SUBSET S /\ T \in SUBSET S
    OBVIOUS
  <2>2. (\A s \in SUBSET S : h[s] \in Int) /\ \A s \in SUBSET S : \A y \in s : h[s] = f[y] + h[s \ {y}]
    BY <1>1, SumTakes
  <2> QED BY <2>1, <2>2
<1> QED BY <1>4, <1>5, <1>6 DEF g

LEMMA SumOfNone == ASSUME NEW f, DOMAIN f = {}, f \in [{} -> Int] PROVE SumOf(f) = 0
<1>1. IsFiniteSet({})
  BY FS_EmptySet
<1>2. PICK h : Adds({}, f, h)
  BY <1>1, SumExists
<1> QED BY <1>1, <1>2, SumOfAll, SumTakes

\* Two disjoint parts.
LEMMA SumSplits ==
  ASSUME NEW S, IsFiniteSet(S), NEW f \in [S -> Int], NEW h, Adds(S, f, h),
         NEW a \in SUBSET S, NEW b \in SUBSET S, a \cap b = {}
  PROVE  h[a \cup b] = h[a] + h[b]
<1> DEFINE G == {s \in SUBSET b : h[a \cup s] = h[a] + h[s]}
<1>0. IsFiniteSet(b)
  BY FS_Subset
<1>1. h[{}] = 0 /\ (\A s \in SUBSET S : h[s] \in Int) /\ \A s \in SUBSET S : \A x \in s : h[s] = f[x] + h[s \ {x}]
  BY SumTakes
<1>3. ASSUME NEW s \in SUBSET b, \A x \in s : s \ {x} \in G PROVE s \in G
  <2>1. ASSUME NEW x \in s PROVE h[a \cup s] = h[a] + h[s]
    <3>1. x \in a \cup s /\ (a \cup s) \ {x} = a \cup (s \ {x}) /\ x \in S
      OBVIOUS
    <3>2. h[a \cup s] = f[x] + h[a \cup (s \ {x})]
      <4>1. a \cup s \in SUBSET S
        OBVIOUS
      <4> QED BY <1>1, <3>1, <4>1
    <3>3. h[s] = f[x] + h[s \ {x}]
      BY <1>1
    <3>4. h[a \cup (s \ {x})] = h[a] + h[s \ {x}]
      BY <1>3
    <3>5. h[a] \in Int /\ h[s \ {x}] \in Int /\ f[x] \in Int
      <4>1. a \in SUBSET S /\ s \ {x} \in SUBSET S
        OBVIOUS
      <4> QED BY <1>1, <3>1, <4>1
    <3> QED BY <3>2, <3>3, <3>4, <3>5
  <2>2. CASE s = {}
    <3>1. a \cup s = a /\ h[s] = 0 /\ h[a] \in Int
      BY <1>1, <2>2
    <3>2. h[a \cup s] = h[a]
      BY <3>1, Zenon
    <3>3. h[a \cup s] = h[a] + h[s]
      BY <3>1, <3>2
    <3> QED BY <3>3
  <2> QED BY <2>1, <2>2
<1>4. SUBSET b \subseteq G
  <2> HIDE DEF G
  <2> QED BY <1>0, <1>3, SetInduction
<1> QED BY <1>4

\* The sum over disjoint parts is that of their sums.
LEMMA SumUnites ==
  ASSUME NEW S, IsFiniteSet(S), NEW f \in [S -> Int], NEW h, Adds(S, f, h),
         NEW U, IsFiniteSet(U), NEW P \in [U -> SUBSET S],
         \A u, w \in U : u # w => P[u] \cap P[w] = {},
         NEW g \in [U -> Int], \A u \in U : g[u] = h[P[u]], NEW k, Adds(U, g, k)
  PROVE  k[U] = h[UNION {P[u] : u \in U}]
<1> DEFINE All(t) == UNION {P[u] : u \in t}
           G == {t \in SUBSET U : k[t] = h[All(t)]}
<1>1. h[{}] = 0 /\ \A s \in SUBSET S : h[s] \in Int
  BY SumTakes
<1>2. k[{}] = 0 /\ \A t \in SUBSET U : \A u \in t : k[t] = g[u] + k[t \ {u}]
  BY SumTakes
<1>3. ASSUME NEW t \in SUBSET U, \A u \in t : t \ {u} \in G PROVE t \in G
  <2>1. CASE t = {}
    <3>1. All(t) = {}
      BY <2>1
    <3> QED BY <1>1, <1>2, <2>1, <3>1
  <2>2. ASSUME NEW u \in t PROVE k[t] = h[All(t)]
    <3>1. k[t] = g[u] + k[t \ {u}] /\ g[u] = h[P[u]] /\ k[t \ {u}] = h[All(t \ {u})]
      BY <1>2, <1>3
    <3>2. All(t) = P[u] \cup All(t \ {u})
      OBVIOUS
    <3>3. P[u] \cap All(t \ {u}) = {}
      OBVIOUS
    <3>4. P[u] \in SUBSET S /\ All(t \ {u}) \in SUBSET S
      OBVIOUS
    <3>5. PICK a, b : a = P[u] /\ b = All(t \ {u})
      OBVIOUS
    <3>6. h[a \cup b] = h[a] + h[b]
      <4> HIDE DEF All
      <4>1. a \in SUBSET S /\ b \in SUBSET S /\ a \cap b = {}
        BY <3>3, <3>4, <3>5
      <4> QED BY <4>1, SumSplits
    <3> HIDE DEF All
    <3> QED BY <3>1, <3>2, <3>5, <3>6
  <2> QED BY <2>1, <2>2
<1>4. SUBSET U \subseteq G
  <2> HIDE DEF G
  <2> QED BY <1>3, SetInduction
<1> QED BY <1>4

\* Where every value is at least n, so are the sums that many times.
LEMMA SumAtLeast ==
  ASSUME NEW S, IsFiniteSet(S), NEW f \in [S -> Int], NEW h, Adds(S, f, h),
         NEW a \in SUBSET S, NEW n \in {0, 1}, \A x \in a : f[x] >= n
  PROVE  h[a] \in Int /\ h[a] >= n * Cardinality(a) /\ Cardinality(a) \in Nat
<1> DEFINE G == {s \in SUBSET a : h[s] >= n * Cardinality(s)}
<1>0. IsFiniteSet(a) /\ \A s \in SUBSET a : IsFiniteSet(s) /\ Cardinality(s) \in Nat
  BY FS_Subset, FS_CardinalityType
<1>1. h[{}] = 0 /\ (\A s \in SUBSET S : h[s] \in Int) /\ \A s \in SUBSET S : \A x \in s : h[s] = f[x] + h[s \ {x}]
  BY SumTakes
<1>3. ASSUME NEW s \in SUBSET a, \A x \in s : s \ {x} \in G PROVE s \in G
  <2>1. ASSUME NEW x \in s PROVE h[s] >= n * Cardinality(s)
    <3>1. h[s] = f[x] + h[s \ {x}] /\ h[s \ {x}] >= n * Cardinality(s \ {x})
      BY <1>1, <1>3
    <3>2. Cardinality(s \ {x}) = Cardinality(s) - 1 /\ Cardinality(s) \in Nat
      BY <1>0, FS_RemoveElement
    <3>3. h[s \ {x}] \in Int /\ f[x] \in Int /\ f[x] >= n
      <4>1. s \ {x} \in SUBSET S /\ x \in S /\ x \in a
        OBVIOUS
      <4> QED BY <1>1, <4>1
    <3> QED BY <3>1, <3>2, <3>3
  <2>2. CASE s = {}
    BY <1>1, <2>2, FS_EmptySet
  <2> QED BY <2>1, <2>2
<1>4. SUBSET a \subseteq G
  <2> HIDE DEF G
  <2> QED BY <1>0, <1>3, SetInduction
<1> QED BY <1>0, <1>1, <1>4

\* A sum over one element is its value, and over elements that are worth nothing 0.
LEMMA SumOfOne ==
  ASSUME NEW S, IsFiniteSet(S), NEW f \in [S -> Int], NEW h, Adds(S, f, h), NEW x \in S
  PROVE  h[{x}] = f[x]
<1>1. h[{}] = 0 /\ h[{x}] = f[x] + h[{x} \ {x}] /\ {x} \ {x} = {} /\ f[x] \in Int
  BY SumTakes
<1> QED BY <1>1

LEMMA SumOfZeros ==
  ASSUME NEW S, IsFiniteSet(S), NEW f \in [S -> Int], NEW h, Adds(S, f, h),
         NEW a \in SUBSET S, \A x \in a : f[x] = 0
  PROVE  h[a] = 0
<1> DEFINE G == {s \in SUBSET a : h[s] = 0}
<1>1. h[{}] = 0 /\ (\A s \in SUBSET S : h[s] \in Int) /\ \A s \in SUBSET S : \A x \in s : h[s] = f[x] + h[s \ {x}]
  BY SumTakes
<1>2. ASSUME NEW s \in SUBSET a, \A x \in s : s \ {x} \in G PROVE s \in G
  <2>1. ASSUME NEW x \in s PROVE h[s] = 0
    <3>1. h[s] = f[x] + h[s \ {x}] /\ f[x] = 0 /\ h[s \ {x}] = 0
      BY <1>1, <1>2
    <3> QED BY <3>1
  <2> QED BY <1>1, <2>1
<1>3. IsFiniteSet(a)
  BY FS_Subset
<1>4. SUBSET a \subseteq G
  <2> HIDE DEF G
  <2> QED BY <1>2, <1>3, SetInduction
<1> QED BY <1>4

----------------------------------------------------------------------------
(* Sequences *)

\* A sequence with its first element off, and with one more.
LEMMA TailShifts ==
  ASSUME NEW V, NEW q \in Seq(V), q # <<>>
  PROVE  /\ Head(q) = q[1] /\ Head(q) \in V /\ Tail(q) \in Seq(V) /\ 1 \in DOMAIN q
         /\ \A i \in DOMAIN Tail(q) :
              i \in Nat /\ 1 < i + 1 /\ i + 1 \in DOMAIN q /\ Tail(q)[i] = q[i + 1]
         /\ \A i \in DOMAIN q : i = 1 \/ (i - 1 \in DOMAIN Tail(q) /\ Tail(q)[i - 1] = q[i])
<1> DEFINE n == Len(q)
           r == Tail(q)
<1>1. n \in Nat /\ n > 0 /\ DOMAIN q = 1..n
  BY LenProperties, EmptySeq
<1>2. Head(q) = q[1] /\ Head(q) \in V
  BY HeadTailProperties
<1>3. r \in Seq(V) /\ Len(r) = n - 1 /\ DOMAIN r = 1..Len(r) /\ \A i \in 1..Len(r) : r[i] = q[i + 1]
  BY HeadTailProperties, LenProperties
<1> HIDE DEF n, r
<1>4. DOMAIN r = 1..n - 1 /\ \A i \in 1..n - 1 : r[i] = q[i + 1]
  BY <1>3
<1>5. /\ 1 \in DOMAIN q
      /\ \A i \in DOMAIN r : i \in Nat /\ 1 < i + 1 /\ i + 1 \in DOMAIN q /\ r[i] = q[i + 1]
      /\ \A i \in DOMAIN q : i = 1 \/ (i - 1 \in DOMAIN r /\ r[i - 1] = q[i])
  BY <1>1, <1>4
<1> QED BY <1>2, <1>3, <1>5, Zenon DEF r

LEMMA AppendEnds ==
  ASSUME NEW V, NEW q \in Seq(V), NEW v \in V
  PROVE  /\ Append(q, v) \in Seq(V) /\ Len(q) \in Nat /\ Len(Append(q, v)) = Len(q) + 1
         /\ DOMAIN q = 1..Len(q) /\ DOMAIN Append(q, v) = 1..Len(q) + 1
         /\ Append(q, v)[Len(q) + 1] = v /\ \A i \in DOMAIN q : i \in Nat /\ Append(q, v)[i] = q[i]
         /\ \A i \in DOMAIN Append(q, v) : i \in DOMAIN q \/ i = Len(q) + 1
         /\ \A i, j \in DOMAIN Append(q, v) : i < j => i \in DOMAIN q
<1> DEFINE n == Len(q)
           r == Append(q, v)
<1>1. n \in Nat /\ DOMAIN q = 1..n
  BY LenProperties
<1>2. /\ r \in Seq(V) /\ Len(r) = n + 1 /\ r[n + 1] = v /\ \A i \in 1..n : r[i] = q[i]
  BY AppendProperties
<1>3. DOMAIN r = 1..n + 1
  BY <1>2, LenProperties
<1> HIDE DEF n, r
<1> QED BY <1>1, <1>2, <1>3 DEF n, r

LEMMA ElementsOf == ASSUME NEW V, NEW q \in Seq(V) PROVE \A i \in DOMAIN q : q[i] \in V
OBVIOUS

----------------------------------------------------------------------------
(* The database *)

Profits(rows) == IsFiniteSet(rows) /\ \A r \in rows : r.pnl \in Int

LEMMA PnlAdds ==
  ASSUME NEW rows, Profits(rows)
  PROVE  Maint!Pnl(rows) = SumOf([r \in rows |-> r.pnl])
<1> DEFINE f == [r \in rows |-> r.pnl]
           Sums(h) == h = [s \in SUBSET rows |-> IF s = {} THEN 0 ELSE Picked(s).pnl + h[s \ {Picked(s)}]]
<1>1. f \in [rows -> Int]
  BY DEF Profits
<1>2. \A h : Sums(h) <=> Adds(rows, f, h)
  <2>1. \A s \in SUBSET rows : s # {} => f[Picked(s)] = Picked(s).pnl
    BY DEF Picked
  <2> QED BY <2>1, Zenon DEF Adds
<1>3. Maint!Pnl(rows) = (CHOOSE h : Sums(h))[rows]
  BY DEF Maint!Pnl, Maint!MapThenSumSet, Maint!MapThenFoldSet, Picked
<1>4. (CHOOSE h : Sums(h)) = CHOOSE h : Adds(rows, f, h)
  BY <1>2
<1> QED BY <1>1, <1>3, <1>4 DEF SumOf

\* One row more or less.
LEMMA PnlWithout ==
  ASSUME NEW rows, Profits(rows), NEW r \in rows
  PROVE  /\ Profits(rows \ {r}) /\ Maint!Pnl(rows) \in Int /\ Maint!Pnl(rows \ {r}) \in Int
         /\ Maint!Pnl(rows) = r.pnl + Maint!Pnl(rows \ {r})
<1> DEFINE f == [q \in rows |-> q.pnl]
           T == rows \ {r}
<1>1. IsFiniteSet(rows) /\ f \in [rows -> Int] /\ Profits(T)
  BY FS_Subset DEF Profits
<1>2. [q \in T |-> f[q]] = [q \in T |-> q.pnl] /\ f[r] = r.pnl
  OBVIOUS
<1>3. /\ SumOf(f) \in Int /\ SumOf([q \in T |-> f[q]]) \in Int
      /\ SumOf(f) = f[r] + SumOf([q \in T |-> f[q]])
  <2> HIDE DEF f
  <2> QED BY <1>1, SumWithout
<1>4. Maint!Pnl(rows) = SumOf(f) /\ Maint!Pnl(T) = SumOf([q \in T |-> q.pnl])
  BY <1>1, PnlAdds
<1> HIDE DEF f, T
<1> QED BY <1>1, <1>2, <1>3, <1>4 DEF T

LEMMA PnlWith ==
  ASSUME NEW rows, Profits(rows), NEW r, r \notin rows, r.pnl \in Int
  PROVE  /\ Profits(rows \cup {r}) /\ Maint!Pnl(rows) \in Int
         /\ Maint!Pnl(rows \cup {r}) = Maint!Pnl(rows) + r.pnl
<1> DEFINE T == rows \cup {r}
<1>1. Profits(T) /\ r \in T /\ T \ {r} = rows
  BY FS_AddElement DEF Profits
<1> HIDE DEF T
<1>2. /\ Maint!Pnl(T) \in Int /\ Maint!Pnl(T \ {r}) \in Int
      /\ Maint!Pnl(T) = r.pnl + Maint!Pnl(T \ {r})
  BY <1>1, PnlWithout
<1>3. Maint!Pnl(T \ {r}) = Maint!Pnl(rows)
  BY <1>1
<1>4. Maint!Pnl(rows) \in Int /\ Maint!Pnl(T) = Maint!Pnl(rows) + r.pnl
  BY <1>2, <1>3
<1> QED BY <1>1, <1>4 DEF T

LEMMA PnlOfNone == Maint!Pnl({}) = 0
<1>1. Profits({})
  BY FS_EmptySet DEF Profits
<1>2. Maint!Pnl({}) = SumOf([r \in {} |-> r.pnl])
  BY <1>1, PnlAdds
<1> QED BY <1>2, SumOfNone

\* Rows in two parts.
LEMMA PnlSplits ==
  ASSUME NEW rows, Profits(rows), NEW gone \in SUBSET rows
  PROVE  /\ Maint!Pnl(rows) \in Int /\ Maint!Pnl(gone) \in Int
         /\ Maint!Pnl(rows \ gone) = Maint!Pnl(rows) - Maint!Pnl(gone)
<1> DEFINE Ok(s) == /\ Maint!Pnl(s) \in Int /\ Maint!Pnl(rows) \in Int
                    /\ Maint!Pnl(rows \ s) = Maint!Pnl(rows) - Maint!Pnl(s)
           G == {s \in SUBSET rows : Ok(s)}
<1>1. ASSUME NEW s \in SUBSET rows, \A x \in s : s \ {x} \in G PROVE s \in G
  <2>1. CASE s = {}
    <3>1. rows \ s = rows /\ Maint!Pnl(s) = 0
      BY <2>1, PnlOfNone
    <3>2. Maint!Pnl(rows) \in Int
      <4>1. CASE rows = {}
        <5>1. Maint!Pnl(rows) = Maint!Pnl({})
          BY <4>1
        <5> QED BY <5>1, PnlOfNone
      <4>2. CASE rows # {}
        BY <4>2, PnlWithout
      <4> QED BY <4>1, <4>2
    <3>3. Maint!Pnl(rows \ s) = Maint!Pnl(rows)
      BY <3>1, Zenon
    <3> QED BY <3>1, <3>2, <3>3
  <2>2. CASE s # {}
    <3>1. PICK x \in s : TRUE
      BY <2>2
    <3>2. Ok(s \ {x})
      BY <1>1
    <3>3. Profits(s) /\ Profits(rows \ (s \ {x})) /\ x \in rows \ (s \ {x}) /\ (rows \ (s \ {x})) \ {x} = rows \ s
      BY FS_Subset DEF Profits
    <3>4. Maint!Pnl(s) \in Int /\ Maint!Pnl(s) = x.pnl + Maint!Pnl(s \ {x}) /\ x.pnl \in Int
      BY <3>3, PnlWithout DEF Profits
    <3>5. /\ Maint!Pnl(rows \ s) \in Int
          /\ Maint!Pnl(rows \ (s \ {x})) = x.pnl + Maint!Pnl(rows \ s)
      <4>1. PICK left : left = rows \ (s \ {x}) /\ left \ {x} = rows \ s /\ x \in left
        BY <3>3
      <4>2. Maint!Pnl(left \ {x}) \in Int /\ Maint!Pnl(left) = x.pnl + Maint!Pnl(left \ {x})
        BY <3>3, <4>1, PnlWithout
      <4> QED BY <4>1, <4>2, Zenon
    <3> QED BY <3>2, <3>4, <3>5
  <2> QED BY <2>1, <2>2
<1>2. IsFiniteSet(rows)
  BY DEF Profits
<1>3. SUBSET rows \subseteq G
  <2> HIDE DEF G
  <2> QED BY <1>1, <1>2, SetInduction
<1> QED BY <1>3

\* Rows rewritten one by one, each with its profit.
LEMMA PnlKept ==
  ASSUME NEW rows, Profits(rows), NEW g, \A r \in rows : g[r].pnl = r.pnl,
         \A q, r \in rows : g[q] = g[r] => q = r
  PROVE  /\ Profits({g[r] : r \in rows}) /\ Maint!Pnl({g[r] : r \in rows}) = Maint!Pnl(rows)
<1> DEFINE Img(s) == {g[r] : r \in s}
           Ok(s) == Profits(Img(s)) /\ Maint!Pnl(Img(s)) = Maint!Pnl(s)
           G == {s \in SUBSET rows : Ok(s)}
<1>1. ASSUME NEW s \in SUBSET rows, \A x \in s : s \ {x} \in G PROVE s \in G
  <2>1. CASE s = {}
    <3>1. Img(s) = {} /\ Profits({})
      BY <2>1, FS_EmptySet DEF Profits
    <3>2. Maint!Pnl(Img(s)) = Maint!Pnl(s)
      BY <2>1, <3>1, Zenon
    <3> QED BY <3>1, <3>2
  <2>2. CASE s # {}
    <3>1. PICK x \in s : TRUE
      BY <2>2
    <3>2. Ok(s \ {x})
      BY <1>1
    <3> DEFINE T == Img(s \ {x})
    <3>3. Img(s) = T \cup {g[x]} /\ g[x] \notin T /\ g[x].pnl = x.pnl
      OBVIOUS
    <3>4. Profits(s) /\ x.pnl \in Int
      BY FS_Subset DEF Profits
    <3>5. Maint!Pnl(s \ {x}) \in Int /\ Maint!Pnl(s) = x.pnl + Maint!Pnl(s \ {x})
      BY <3>4, PnlWithout
    <3>6. Profits(T) /\ Maint!Pnl(T) = Maint!Pnl(s \ {x})
      BY <3>2
    <3> HIDE DEF T
    <3>7. Profits(T \cup {g[x]}) /\ Maint!Pnl(T \cup {g[x]}) = Maint!Pnl(T) + g[x].pnl
      BY <3>3, <3>4, <3>6, PnlWith
    <3>8. Maint!Pnl(T \cup {g[x]}) = Maint!Pnl(s)
      BY <3>3, <3>4, <3>5, <3>6, <3>7
    <3>9. PICK img : img = Img(s) /\ img = T \cup {g[x]}
      BY <3>3
    <3>10. Profits(img) /\ Maint!Pnl(img) = Maint!Pnl(s)
      BY <3>7, <3>8, <3>9, Zenon
    <3> QED BY <3>9, <3>10
  <2> QED BY <2>1, <2>2
<1>2. IsFiniteSet(rows)
  BY DEF Profits
<1>3. SUBSET rows \subseteq G
  <2> HIDE DEF G
  <2> QED BY <1>1, <1>2, SetInduction
<1> QED BY <1>3

\* What a step of the start makes of a row: what it must keep, and a row again.
Carried(r, q) ==
  /\ Maint!IsRow(q)
  /\ q.key = r.key /\ q.pnl = r.pnl /\ q.status = r.status
  /\ r.id # 0 => q.id = r.id
  /\ r.closed # 0 => q.closed = r.closed
  /\ r.closed # 0 /\ ~Maint!IsExit(r) => q.action = r.action

\* The part counts with the same cardinality as the library.
LEMMA MaintCardinality ==
  \A S : Maint!Cardinality(S) = Cardinality(S) /\ Maint!IsFiniteSet(S) = IsFiniteSet(S)
BY DEF Maint!Cardinality, Cardinality, Maint!IsFiniteSet, IsFiniteSet

LEMMA MaintRows ==
  ASSUME NEW d, NEW rows
  PROVE  Maint!AreRows(d, rows) <=>
           /\ IsFiniteSet(rows)
           /\ \A r \in rows : Maint!IsRow(r) /\ r.key \in Int /\ r.id \in Nat /\ r.pnl \in Int
           /\ d.canonical => \A r \in rows : r.id # 0
           /\ \A q, r \in rows : q # r /\ q.id = r.id => q.id = 0 /\ q.key # r.key
BY MaintCardinality DEF Maint!AreRows

LEMMA MaintTop ==
  ASSUME NEW d, NEW rows, Maint!AreRows(d, rows)
  PROVE  Maint!Top(rows) \in Nat /\ \A r \in rows : r.id <= Maint!Top(rows)
<1> DEFINE T == {0} \cup Maint!Ids(rows)
<1>1. IsFiniteSet(T) /\ T \subseteq Nat /\ T # {} /\ \A r \in rows : r.id \in T
  <2>1. IsFiniteSet(Maint!Ids(rows))
    <3>1. IsFiniteSet(rows)
      BY MaintRows
    <3>2. [r \in rows |-> r.id] \in Surjection(rows, Maint!Ids(rows))
      BY DEF Maint!Ids, Surjection
    <3> QED BY <3>1, <3>2, FS_Surjection
  <2>2. IsFiniteSet(T)
    BY <2>1, FS_AddElement
  <2> QED BY <2>2, MaintRows DEF Maint!Ids
<1> HIDE DEF T
<1>2. \E m \in T : \A k \in T : k <= m
  <2>1. T \subseteq Int
    BY <1>1
  <2> QED BY <1>1, <2>1, Greatest
<1>3. Maint!Max(T) \in T /\ \A k \in T : Maint!Max(T) >= k
  BY <1>1, <1>2 DEF Maint!Max
<1>4. Maint!Top(rows) = Maint!Max(T)
  BY DEF Maint!Top, T
<1> QED BY <1>1, <1>3, <1>4

\* A rebuild gives every row an id of its own, and changes none that is there.
LEMMA MaintNumbered ==
  ASSUME NEW d, NEW rows, Maint!AreRows(d, rows)
  PROVE  \E g : /\ Maint!Numbered(rows) = {g[r] : r \in rows}
                /\ \A r \in rows : /\ Carried(r, g[r]) /\ g[r].id \in Nat \ {0}
                /\ \A q, r \in rows : g[q].id = g[r].id => q = r
<1> DEFINE bare == {r \in rows : r.id = 0}
           Before(r) == {q \in bare : q.key <= r.key}
           rank(r) == Maint!Cardinality(Before(r))
           g == [r \in rows |-> IF r.id = 0 THEN [r EXCEPT !.id = Maint!Top(rows) + rank(r)] ELSE r]
<1>1. Maint!Numbered(rows) = {g[r] : r \in rows}
  <2>1. Maint!Numbered(rows) = {IF r.id = 0 THEN [r EXCEPT !.id = Maint!Top(rows) + rank(r)] ELSE r : r \in rows}
    BY DEF Maint!Numbered
  <2> HIDE DEF rank
  <2> QED BY <2>1
<1>2. /\ IsFiniteSet(bare) /\ \A r \in rows : Maint!IsRow(r) /\ r.key \in Int /\ r.id \in Nat
      /\ \A q, r \in rows : q # r /\ q.id = r.id => q.id = 0 /\ q.key # r.key
  <2>1. IsFiniteSet(bare)
    BY FS_Subset, MaintRows
  <2>2. \A r \in rows : Maint!IsRow(r) /\ r.key \in Int /\ r.id \in Nat
    BY MaintRows
  <2>3. \A q, r \in rows : q # r /\ q.id = r.id => q.id = 0 /\ q.key # r.key
    BY MaintRows
  <2> QED BY <2>1, <2>2, <2>3
<1>3. ASSUME NEW r \in rows PROVE IsFiniteSet(Before(r)) /\ rank(r) \in Nat
  BY <1>2, FS_Subset, FS_CardinalityType, MaintCardinality
<1>4. ASSUME NEW r \in bare PROVE rank(r) \in Nat \ {0}
  <2>1. r \in Before(r)
    BY <1>2
  <2> QED BY <1>3, <2>1, FS_EmptySet, MaintCardinality
<1>5. ASSUME NEW q \in bare, NEW r \in bare, q.key < r.key PROVE rank(q) < rank(r)
  <2>1. Before(q) \subseteq Before(r) /\ r \in Before(r) /\ r \notin Before(q)
    BY <1>2, <1>5
  <2>2. IsFiniteSet(Before(r))
    BY <1>3
  <2>3. rank(q) <= rank(r) /\ (rank(q) = rank(r) => Before(q) = Before(r))
    <3> HIDE DEF Before
    <3> QED BY <2>1, <2>2, FS_Subset, MaintCardinality
  <2>4. rank(q) \in Nat /\ rank(r) \in Nat
    BY <1>3
  <2> HIDE DEF Before
  <2> QED BY <2>1, <2>3, <2>4
<1>6. ASSUME NEW q \in bare, NEW r \in bare, rank(q) = rank(r) PROVE q = r
  <2>1. rank(q) \in Nat /\ rank(r) \in Nat
    BY <1>3
  <2>2. ~(q.key < r.key) /\ ~(r.key < q.key)
    BY <1>5, <1>6, <2>1
  <2> QED BY <1>2, <2>2
<1>7. Maint!Top(rows) \in Nat /\ \A r \in rows : r.id <= Maint!Top(rows)
  BY MaintTop
<1> HIDE DEF rank
<1>8. ASSUME NEW r \in rows
      PROVE  /\ Carried(r, g[r])
             /\ g[r].id = IF r.id = 0 THEN Maint!Top(rows) + rank(r) ELSE r.id
  <2>1. Maint!IsRow(r)
    BY <1>2
  <2> QED BY <2>1 DEF Carried, Maint!IsRow
<1>9. ASSUME NEW r \in rows PROVE Carried(r, g[r]) /\ g[r].id \in Nat \ {0}
  BY <1>2, <1>4, <1>7, <1>8
<1>10. ASSUME NEW q \in rows, NEW r \in rows, g[q].id = g[r].id PROVE q = r
  <2> HIDE DEF g
  <2>1. CASE q.id = 0 /\ r.id = 0
    BY <1>4, <1>6, <1>7, <1>8, <1>10, <2>1
  <2>2. CASE q.id # 0 /\ r.id # 0
    BY <1>2, <1>8, <1>10, <2>2
  <2>3. CASE q.id = 0 /\ r.id # 0
    BY <1>2, <1>4, <1>7, <1>8, <1>10, <2>3
  <2>4. CASE q.id # 0 /\ r.id = 0
    BY <1>2, <1>4, <1>7, <1>8, <1>10, <2>4
  <2> QED BY <2>1, <2>2, <2>3, <2>4
<1> HIDE DEF g
<1> QED BY <1>1, <1>9, <1>10

\* The two corrections of the times and the names of old exits.
LEMMA MaintBackfilled ==
  ASSUME NEW rows, \A r \in rows : Maint!IsRow(r)
  PROVE  \E g : /\ Maint!Backfilled(rows) = {g[r] : r \in rows}
                /\ \A r \in rows : Carried(r, g[r]) /\ g[r].id = r.id
<1> DEFINE once == Maint!Dated(rows)
           First(r) == IF r.action \in {"close", "reduce"} /\ r.closed = 0 /\ r.group # 0
                       THEN [r EXCEPT !.closed = Maint!Max({ q.opened : q \in Maint!Exits(rows, r.group) })]
                       ELSE r
           Second(r) == IF Maint!IsExit(r) /\ r.closed = 0 THEN [r EXCEPT !.closed = r.opened] ELSE r
           dated == { Second(r) : r \in once }
           Third(r) == IF Maint!IsExit(r) /\ r.group # 0 /\ ~Maint!Entered(dated, r.group)
                       THEN [r EXCEPT !.action = "close"] ELSE r
<1>1. /\ once = { First(r) : r \in rows } /\ dated = { Second(r) : r \in once }
      /\ Maint!Backfilled(rows) = { Third(r) : r \in dated }
  BY DEF Maint!Backfilled, Maint!Dated, Maint!DatedOnce
\* A row that has a time keeps it, and goes through the first two corrections as it is.
<1>2. ASSUME NEW r, Maint!IsRow(r)
      PROVE  /\ Maint!IsRow(First(r)) /\ (r.closed # 0 => First(r) = r)
             /\ First(r).key = r.key /\ First(r).pnl = r.pnl /\ First(r).status = r.status /\ First(r).id = r.id
  BY <1>2 DEF Maint!IsRow
<1>3. ASSUME NEW r, Maint!IsRow(r)
      PROVE  /\ Maint!IsRow(Second(r)) /\ (r.closed # 0 => Second(r) = r)
             /\ Second(r).key = r.key /\ Second(r).pnl = r.pnl /\ Second(r).status = r.status /\ Second(r).id = r.id
  BY <1>3 DEF Maint!IsRow
<1>4. ASSUME NEW r, Maint!IsRow(r)
      PROVE  /\ Maint!IsRow(Third(r)) /\ Third(r).closed = r.closed
             /\ Third(r).key = r.key /\ Third(r).pnl = r.pnl /\ Third(r).status = r.status /\ Third(r).id = r.id
             /\ ~Maint!IsExit(r) => Third(r).action = r.action
  <2> HIDE DEF dated
  <2> QED BY <1>4 DEF Maint!IsRow
<1> HIDE DEF once, dated, First, Second, Third
<1> DEFINE g == [r \in rows |-> Third(Second(First(r)))]
<1>5. ASSUME NEW r \in rows PROVE Carried(r, g[r]) /\ g[r].id = r.id
  <2> DEFINE x == First(r)
             y == Second(x)
             z == Third(y)
  <2>2. Maint!IsRow(r) /\ g[r] = z
    OBVIOUS
  <2>3. /\ Maint!IsRow(x) /\ (r.closed # 0 => x = r)
        /\ x.key = r.key /\ x.pnl = r.pnl /\ x.status = r.status /\ x.id = r.id
    BY <1>2, <2>2
  <2> HIDE DEF x
  <2>4. /\ Maint!IsRow(y) /\ (x.closed # 0 => y = x)
        /\ y.key = x.key /\ y.pnl = x.pnl /\ y.status = x.status /\ y.id = x.id
    BY <1>3, <2>3
  <2> HIDE DEF y
  <2>5. /\ Maint!IsRow(z) /\ z.closed = y.closed /\ (~Maint!IsExit(y) => z.action = y.action)
        /\ z.key = y.key /\ z.pnl = y.pnl /\ z.status = y.status /\ z.id = y.id
    BY <1>4, <2>4
  <2> HIDE DEF z, g
  <2>6. Carried(r, z) /\ z.id = r.id
    BY <2>3, <2>4, <2>5 DEF Carried
  <2> QED BY <2>2, <2>6
<1>6. Maint!Backfilled(rows) = {g[r] : r \in rows}
  <2>1. \A r \in rows : g[r] = Third(Second(First(r)))
    OBVIOUS
  <2>2. dated = {Second(First(r)) : r \in rows}
    BY <1>1
  <2>3. Maint!Backfilled(rows) = {Third(Second(First(r))) : r \in rows}
    BY <1>1, <2>2
  <2> HIDE DEF g
  <2> QED BY <2>1, <2>3
<1> HIDE DEF g
<1> QED BY <1>5, <1>6

\* Rows rewritten by a step of the start: what it keeps of them all.
LEMMA MaintRewritten ==
  ASSUME NEW d, NEW rows, Maint!AreRows(d, rows), NEW e, NEW g,
         \A r \in rows : Carried(r, g[r]) /\ g[r].id \in Nat \ {0},
         \A q, r \in rows : g[q].id = g[r].id => q = r
  PROVE  /\ Maint!AreRows(e, {g[r] : r \in rows})
         /\ Maint!Pnl({g[r] : r \in rows}) = Maint!Pnl(rows)
         /\ \A r \in rows : \E q \in {g[x] : x \in rows} : Carried(r, q)
<1> DEFINE T == {g[r] : r \in rows}
<1>1. IsFiniteSet(rows) /\ \A r \in rows : r.key \in Int /\ r.pnl \in Int
  BY MaintRows
<1>2. Profits(rows) /\ (\A r \in rows : g[r].pnl = r.pnl) /\ \A q, r \in rows : g[q] = g[r] => q = r
  BY <1>1 DEF Profits, Carried
<1>3. Profits(T) /\ Maint!Pnl(T) = Maint!Pnl(rows)
  BY <1>2, PnlKept
<1>4. \A q \in T : Maint!IsRow(q) /\ q.key \in Int /\ q.id \in Nat /\ q.pnl \in Int /\ q.id # 0
  BY <1>1 DEF Carried
<1>5. \A q, r \in T : q # r => q.id # r.id
  OBVIOUS
<1>6. Maint!AreRows(e, T)
  <2> HIDE DEF T
  <2> QED BY <1>3, <1>4, <1>5, MaintRows DEF Profits
<1> QED BY <1>3, <1>6

LEMMA MaintStands ==
  ASSUME Maint!MaintInv, UNCHANGED <<c1, c2, c3, c4, c5, c6, c7, c8, c9>>
  PROVE  Maint!MaintInv'
BY DEF Maint!MaintInv, Maint!AreRows, Maint!Migrated, Maint!AreAmounts, Maint!IdentityKept, Maint!Stored

LEMMA MaintStarts ==
  ASSUME Maint!MaintenanceAssumption, Maint!MaintInit PROVE Maint!MaintInv
<1>1. /\ Maint!IsDb(c1) /\ Maint!AreRows(c1, c2) /\ c3 = Maint!NoBalance /\ c4 = 0 /\ c5 = Maint!NoBalance
      /\ c7 = 100 - Maint!Pnl(c2)
  BY DEF Maint!MaintenanceAssumption, Maint!MaintInit, Maint!Down, Maint!Start
<1>2. Maint!Pnl(c2) \in Int
  <2>1. Profits(c2)
    BY <1>1, MaintRows DEF Profits
  <2> QED BY <2>1, PnlSplits
<1>3. c7 \in Int /\ Maint!Stored = 100
  BY <1>1, <1>2 DEF Maint!Stored, Maint!Start
<1>4. Maint!Migrated
  BY <1>1 DEF Maint!Migrated, Maint!Down, Maint!Running
<1> QED BY <1>1, <1>2, <1>3, <1>4 DEF Maint!MaintInv, Maint!AreAmounts, Maint!IdentityKept

\* A program that is up has the present schema, and each row its id.
LEMMA MaintFresh ==
  ASSUME Maint!MaintInv PROVE Maint!UpMeansFresh /\ Maint!IdentityKept
<1>1. Maint!IdentityKept
  BY DEF Maint!MaintInv
<1>2. ASSUME c4 = Maint!Running
      PROVE  c1 = Maint!Fresh /\ Maint!Cardinality(Maint!Ids(c2) \ {0}) = Maint!Cardinality(c2)
  <2>1. c1 = Maint!Fresh /\ c1.canonical
    BY <1>2 DEF Maint!MaintInv, Maint!Migrated, Maint!Running, Maint!Fresh, Maint!IsDb
  <2>2. /\ IsFiniteSet(c2) /\ \A r \in c2 : r.id # 0
        /\ \A q, r \in c2 : q # r => q.id # r.id
    BY <2>1, MaintRows DEF Maint!MaintInv
  <2>3. Maint!Ids(c2) \ {0} = Maint!Ids(c2)
    BY <2>2 DEF Maint!Ids
  <2> DEFINE f == [r \in c2 |-> r.id]
  <2>4. f \in Surjection(c2, Maint!Ids(c2)) /\ f \in Injection(c2, Maint!Ids(c2))
    BY <2>2 DEF Maint!Ids, Surjection, Injection, IsInjective
  <2>5. Cardinality(Maint!Ids(c2)) = Cardinality(c2)
    BY <2>2, <2>4, FS_Surjection
  <2> QED BY <2>1, <2>3, <2>5, MaintCardinality
<1> QED BY <1>1, <1>2 DEF Maint!UpMeansFresh

LEMMA MaintInductive ==
  ASSUME Maint!MaintInv, Maint!MaintNext PROVE Maint!MaintInv' /\ Maint!StartKeepsTheRows
<1> USE DEF Maint!Running, Maint!Failed, Maint!Down
<1>0. /\ \A r \in c2 : Maint!IsRow(r) /\ Carried(r, r)
      /\ Profits(c2) /\ Maint!Pnl(c2) \in Int
      /\ Maint!AreRows(c1, c2) /\ Maint!Migrated /\ Maint!AreAmounts /\ Maint!Stored - Maint!Pnl(c2) = c7
  <2>1. /\ Maint!AreRows(c1, c2) /\ Maint!Migrated /\ Maint!AreAmounts /\ Maint!Stored - Maint!Pnl(c2) = c7
    BY DEF Maint!MaintInv, Maint!IdentityKept
  <2>2. Profits(c2) /\ \A r \in c2 : Maint!IsRow(r)
    BY <2>1, MaintRows DEF Profits
  <2> QED BY <2>1, <2>2, PnlSplits DEF Carried
<1>1. ASSUME \A r \in c2 : \E q \in c2' : Carried(r, q) PROVE Maint!StartKeepsTheRows
  BY <1>1 DEF Carried, Maint!StartKeepsTheRows
<1>n. Maint!Stored \in Int /\ c7 \in Int
  BY <1>0 DEF Maint!AreAmounts, Maint!Stored, Maint!Start
\* What a start does to the balance: nothing.
<1>2. ASSUME UNCHANGED <<c3, c7>>, c5' \in {c5, Maint!NoBalance}, Maint!AreRows(c1', c2'),
             Maint!Pnl(c2') = Maint!Pnl(c2), Maint!Migrated'
      PROVE  Maint!MaintInv'
  BY <1>0, <1>2 DEF Maint!MaintInv, Maint!IdentityKept, Maint!Stored, Maint!AreAmounts
<1>3. CASE Maint!Script \/ Maint!Stop
  <2>1. /\ c2' = c2 /\ UNCHANGED <<c3, c7>> /\ c5' \in {c5, Maint!NoBalance}
        /\ c1'.canonical = c1.canonical
    BY <1>0, <1>3 DEF Maint!Script, Maint!Stop, Maint!Kept, Maint!Migrated, Maint!IsDb
  <2>2. Maint!Migrated'
    <3>1. CASE Maint!Stop
      BY <1>0, <3>1 DEF Maint!Stop, Maint!Migrated
    <3>2. CASE Maint!Script
      <4>0. Maint!IsDb(c1)
        BY <1>0 DEF Maint!Migrated
      <4>1. \A d, x : Maint!IsDb(d) => Maint!IsDb([d EXCEPT !.indexes = x]) /\ Maint!IsDb([d EXCEPT !.positions = x])
        BY DEF Maint!IsDb
      <4>2. Maint!IsDb(c1') /\ c4' \in {1, -1}
        <5>1. PICK y : c1' = c1 \/ c1' = [c1 EXCEPT !.indexes = Maint!Tables, !.positions = y]
          BY <3>2 DEF Maint!Script
        <5>2. PICK d : d = [c1 EXCEPT !.indexes = Maint!Tables]
          OBVIOUS
        <5>3. Maint!IsDb(d) /\ (c1' = c1 \/ c1' = [d EXCEPT !.positions = y])
          BY <4>0, <4>1, <5>1, <5>2
        <5>4. c4' \in {1, -1}
          BY <3>2 DEF Maint!Script
        <5>5. ASSUME NEW e, Maint!IsDb(e), NEW x, NEW z, z = [e EXCEPT !.positions = x]
              PROVE  Maint!IsDb(z)
          BY <5>5 DEF Maint!IsDb
        <5>6. c1' = [d EXCEPT !.positions = y] => Maint!IsDb(c1')
          BY <5>3, <5>5
        <5>7. Maint!IsDb(c1')
          BY <4>0, <5>3, <5>6
        <5> QED BY <5>4, <5>7
      <4> QED BY <4>2 DEF Maint!Migrated
    <3> QED BY <1>3, <3>1, <3>2
  <2>3. Maint!AreRows(c1', c2') /\ Maint!Pnl(c2') = Maint!Pnl(c2)
    <3>1. Maint!Pnl(c2') = Maint!Pnl(c2)
      BY <2>1
    <3> QED BY <1>0, <2>1, <3>1, MaintRows
  <2> QED BY <1>0, <1>1, <1>2, <2>1, <2>2, <2>3
<1>4. CASE Maint!Step
  <2>1. c4 \in 1..6 /\ c4' = c4 + 1 /\ UNCHANGED <<c3, c5, c7>>
    BY <1>4 DEF Maint!Step, Maint!Kept
  <2>2. Maint!Migrated' /\ (c4 # 1 => c1.canonical) /\ (c4 # 3 => (c1.canonical => c1'.canonical))
    <3>0. Maint!IsDb(c1) /\ (c4 > 1 => c1.canonical)
      BY <1>0 DEF Maint!Migrated
    <3>1. CASE c4 = 1
      <4>1. c1' = Maint!Converged(c1)
        BY <1>4, <3>1 DEF Maint!Step
      <4>2. /\ Maint!IsDb(c1') /\ c1'.canonical /\ c1'.columns = Maint!Added
            /\ c1'.positions = "canonical"
        BY <3>0, <4>1 DEF Maint!Converged, Maint!IsDb
      <4> QED BY <2>1, <3>0, <3>1, <4>2 DEF Maint!Migrated
    <3>2. CASE c4 = 2
      <4>1. c1' = [c1 EXCEPT !.indexes = Maint!Tables]
        BY <1>4, <3>2 DEF Maint!Step, Maint!Indexing, Maint!EveryIndex
      <4>2. /\ Maint!IsDb(c1') /\ c1'.canonical = c1.canonical /\ c1'.columns = c1.columns
            /\ c1'.positions = c1.positions /\ c1'.indexes = Maint!Tables
        BY <3>0, <4>1 DEF Maint!IsDb
      <4> QED BY <1>0, <2>1, <3>0, <3>2, <4>2 DEF Maint!Migrated
    <3>3. CASE c4 = 3
      <4>1. c1' = c1
        BY <1>4, <3>3 DEF Maint!Step
      <4> QED BY <1>0, <2>1, <3>0, <3>3, <4>1 DEF Maint!Migrated
    <3>4. CASE c4 = 4
      <4>1. c1' = [c1 EXCEPT !.dead = FALSE]
        BY <1>4, <3>4 DEF Maint!Step
      <4>2. /\ Maint!IsDb(c1') /\ c1'.canonical = c1.canonical /\ c1'.columns = c1.columns
            /\ c1'.positions = c1.positions /\ c1'.indexes = c1.indexes /\ c1'.dead = FALSE
        BY <3>0, <4>1 DEF Maint!IsDb
      <4> QED BY <1>0, <2>1, <3>0, <3>4, <4>2 DEF Maint!Migrated
    <3>5. CASE c4 = 5
      <4>1. c1' = [c1 EXCEPT !.reconciliation = "canonical"]
        BY <1>4, <3>5 DEF Maint!Step
      <4>2. /\ Maint!IsDb(c1') /\ c1'.canonical = c1.canonical /\ c1'.columns = c1.columns
            /\ c1'.positions = c1.positions /\ c1'.indexes = c1.indexes /\ c1'.dead = c1.dead
            /\ c1'.reconciliation = "canonical"
        BY <3>0, <4>1 DEF Maint!IsDb
      <4> QED BY <1>0, <2>1, <3>0, <3>5, <4>2 DEF Maint!Migrated
    <3>6. CASE c4 = 6
      <4>1. c1' = [c1 EXCEPT !.version = Maint!Version]
        BY <1>4, <3>6 DEF Maint!Step
      <4>2. /\ Maint!IsDb(c1') /\ c1'.canonical = c1.canonical /\ c1'.columns = c1.columns
            /\ c1'.positions = c1.positions /\ c1'.indexes = c1.indexes /\ c1'.dead = c1.dead
            /\ c1'.reconciliation = c1.reconciliation /\ c1'.version = Maint!Version
        BY <3>0, <4>1 DEF Maint!IsDb
      <4> QED BY <1>0, <2>1, <3>0, <3>6, <4>2 DEF Maint!Migrated
    <3> QED BY <2>1, <3>1, <3>2, <3>3, <3>4, <3>5, <3>6
  <2>3. CASE c4 = 1 /\ ~c1.canonical
    <3>1. c2' = Maint!Numbered(c2)
      BY <1>4, <2>3 DEF Maint!Step
    <3>2. PICK g : /\ Maint!Numbered(c2) = {g[r] : r \in c2}
                   /\ \A r \in c2 : Carried(r, g[r]) /\ g[r].id \in Nat \ {0}
                   /\ \A q, r \in c2 : g[q].id = g[r].id => q = r
      BY <1>0, MaintNumbered
    <3>3. PICK rows : rows = c2' /\ rows = {g[r] : r \in c2}
      BY <3>1, <3>2
    <3>4. /\ Maint!AreRows(c1', rows) /\ Maint!Pnl(rows) = Maint!Pnl(c2)
          /\ \A r \in c2 : \E q \in rows : Carried(r, q)
      BY <1>0, <3>2, <3>3, MaintRewritten
    <3> QED BY <1>1, <1>2, <2>1, <2>2, <3>3, <3>4
  <2>4. CASE c4 = 3
    <3>1. c2' = Maint!Backfilled(c2) /\ c1' = c1
      BY <1>4, <2>4 DEF Maint!Step
    <3>2. PICK g : /\ Maint!Backfilled(c2) = {g[r] : r \in c2}
                   /\ \A r \in c2 : Carried(r, g[r]) /\ g[r].id = r.id
      BY <1>0, MaintBackfilled
    <3>3. PICK rows : rows = c2' /\ rows = {g[r] : r \in c2}
      BY <3>1, <3>2
    <3>4. \A q, r \in c2 : r.id \in Nat \ {0} /\ (q.id = r.id => q = r)
      BY <1>0, <2>2, <2>4, MaintRows
    <3>5. /\ Maint!AreRows(c1', rows) /\ Maint!Pnl(rows) = Maint!Pnl(c2)
          /\ \A r \in c2 : \E q \in rows : Carried(r, q)
      <4>1. \A r \in c2 : Carried(r, g[r]) /\ g[r].id \in Nat \ {0}
        BY <3>2, <3>4
      <4>2. \A q, r \in c2 : g[q].id = g[r].id => q = r
        BY <3>2, <3>4
      <4> QED BY <1>0, <3>3, <4>1, <4>2, MaintRewritten
    <3> QED BY <1>1, <1>2, <2>1, <2>2, <3>3, <3>5
  <2>5. CASE c4 # 3 /\ (c4 = 1 => c1.canonical)
    <3>1. c2' = c2
      BY <1>4, <2>5 DEF Maint!Step
    <3>2. c1'.canonical => c1.canonical
      BY <2>2, <2>5
    <3>3. Maint!AreRows(c1', c2) /\ Maint!Pnl(c2') = Maint!Pnl(c2)
      <4>1. Maint!AreRows(c1', c2)
        BY <1>0, <3>2, MaintRows
      <4> QED BY <3>1, <4>1
    <3> QED BY <1>0, <1>1, <1>2, <2>1, <2>2, <3>1, <3>3
  <2> QED BY <2>3, <2>4, <2>5
\* While the program is up.
<1>5. ASSUME c4 = 7, c4' = 7, c1' = c1, Maint!AreRows(c1, c2'), Maint!AreAmounts',
             Maint!Stored' - Maint!Pnl(c2') = c7'
      PROVE  Maint!MaintInv' /\ Maint!StartKeepsTheRows
  BY <1>0, <1>5 DEF Maint!MaintInv, Maint!IdentityKept, Maint!Migrated, Maint!StartKeepsTheRows
<1>6. c4 = 7 => c1.canonical
  BY <1>0 DEF Maint!Migrated
<1>7. CASE Maint!Adjust \/ Maint!Read \/ Maint!Write
  <2>1. c4 = 7 /\ c4' = 7 /\ c1' = c1 /\ c2' = c2
    BY <1>7 DEF Maint!Adjust, Maint!Read, Maint!Write, Maint!Up
  <2>2. CASE Maint!Adjust
    <3>1. PICK d \in {-1, 1} : c3' = <<Maint!Stored + d>> /\ c7' = c7 + d /\ c5' = c5
      BY <2>2 DEF Maint!Adjust
    <3>2. Maint!Stored + d \in Int /\ c7' \in Int /\ Maint!Stored' = Maint!Stored + d
      BY <1>n, <3>1 DEF Maint!Stored, Maint!NoBalance
    <3>3. Maint!AreAmounts'
      BY <1>0, <3>1, <3>2 DEF Maint!AreAmounts
    <3>4. Maint!Stored' - Maint!Pnl(c2') = c7'
      BY <1>0, <1>n, <2>1, <3>1, <3>2
    <3> QED BY <1>0, <1>5, <2>1, <3>3, <3>4
  <2>3. CASE Maint!Read
    <3>1. c3' = c3 /\ c7' = c7 /\ c5' = <<Maint!Stored>>
      BY <2>3 DEF Maint!Read
    <3>3. Maint!AreAmounts' /\ Maint!Stored' = Maint!Stored
      BY <1>0, <1>n, <3>1 DEF Maint!AreAmounts, Maint!Stored
    <3> QED BY <1>0, <1>5, <2>1, <3>1, <3>3
  <2>4. CASE Maint!Write
    <3>1. /\ c5 # Maint!NoBalance /\ c5' = Maint!NoBalance
          /\ \/ c3' = c3 /\ c7' = c7
             \/ Maint!Stored = c5[1] /\ c3' = <<c5[1] + 1>> /\ c7' = c7 + 1
      BY <2>4 DEF Maint!Write, Maint!Lost, Maint!Stale
    <3>2. CASE c3' = c3 /\ c7' = c7
      <4>1. Maint!AreAmounts' /\ Maint!Stored' = Maint!Stored
        BY <1>0, <3>1, <3>2 DEF Maint!AreAmounts, Maint!Stored
      <4> QED BY <1>0, <1>5, <2>1, <3>2, <4>1
    <3>3. CASE Maint!Stored = c5[1] /\ c3' = <<c5[1] + 1>> /\ c7' = c7 + 1
      <4>1. c3' = <<Maint!Stored + 1>> /\ Maint!Stored + 1 \in Int /\ Maint!Stored' = Maint!Stored + 1
        BY <1>n, <3>3 DEF Maint!Stored, Maint!NoBalance
      <4>2. Maint!AreAmounts'
        BY <1>0, <1>n, <3>1, <3>3, <4>1 DEF Maint!AreAmounts
      <4>3. Maint!Stored' - Maint!Pnl(c2') = c7'
        BY <1>0, <1>n, <2>1, <3>3, <4>1
      <4> QED BY <1>0, <1>5, <2>1, <4>2, <4>3
    <3> QED BY <3>1, <3>2, <3>3
  <2> QED BY <1>7, <2>2, <2>3, <2>4
<1>8. CASE Maint!Close
  <2>1. c4 = 7 /\ c4' = 7 /\ c1' = c1 /\ UNCHANGED <<c3, c5>>
    BY <1>8 DEF Maint!Close, Maint!Up
  <2>2. PICK o \in c2, profit \in {-1, 1} :
          /\ c2' = (c2 \ {o}) \cup {[o EXCEPT !.status = "closed", !.closed = MaintSetup.now],
                                    Maint!ExitRow(Maint!Top(c2) + 1, o.group, profit)}
          /\ c7' = c7 - profit
    BY <1>8 DEF Maint!Close
  <2> DEFINE x == [o EXCEPT !.status = "closed", !.closed = MaintSetup.now]
             y == Maint!ExitRow(Maint!Top(c2) + 1, o.group, profit)
             left == c2 \ {o}
  <2>3. /\ IsFiniteSet(c2)
        /\ \A r \in c2 : Maint!IsRow(r) /\ r.key \in Int /\ r.id \in Nat \ {0} /\ r.pnl \in Int
        /\ \A q, r \in c2 : q # r => q.id # r.id
    BY <1>0, <1>6, <2>1, MaintRows
  <2>4. Maint!IsRow(x) /\ x.id = o.id /\ x.pnl = o.pnl /\ x.key = o.key
    <3>1. Maint!IsRow(o)
      BY <1>0
    <3>2. ASSUME NEW r, Maint!IsRow(r), NEW v, NEW z, z = [r EXCEPT !.status = v] \/ z = [r EXCEPT !.closed = v]
          PROVE  Maint!IsRow(z) /\ z.id = r.id /\ z.pnl = r.pnl /\ z.key = r.key
      BY <3>2 DEF Maint!IsRow
    <3>3. PICK z : z = [o EXCEPT !.status = "closed"]
      OBVIOUS
    <3>4. x = [z EXCEPT !.closed = MaintSetup.now]
      BY <3>3
    <3> HIDE DEF x
    <3>5. Maint!IsRow(z) /\ z.id = o.id /\ z.pnl = o.pnl /\ z.key = o.key
      BY <3>1, <3>2, <3>3
    <3>6. Maint!IsRow(x) /\ x.id = z.id /\ x.pnl = z.pnl /\ x.key = z.key
      BY <3>2, <3>4, <3>5
    <3> QED BY <3>5, <3>6
  <2>5. Maint!Top(c2) \in Nat /\ \A r \in c2 : r.id <= Maint!Top(c2)
    BY <1>0, MaintTop
  <2>6. /\ Maint!IsRow(y) /\ y.id = Maint!Top(c2) + 1 /\ y.key = Maint!Top(c2) + 1 /\ y.pnl = profit
    BY DEF Maint!IsRow, Maint!ExitRow
  <2>7. c2' = left \cup {x, y}
    BY <2>2
  <2> HIDE DEF x, y
  <2>8. x \notin left /\ y \notin left \cup {x} /\ y.id # x.id /\ \A r \in left : r.id # x.id /\ r.id # y.id
    <3>1. \A r \in left : r.id # o.id /\ r.id <= Maint!Top(c2) /\ r.id \in Nat
      BY <2>3, <2>5
    <3>2. o.id <= Maint!Top(c2) /\ o.id \in Nat
      BY <2>3, <2>5
    <3> QED BY <2>4, <2>5, <2>6, <3>1, <3>2
  <2>9. /\ Profits(left) /\ Maint!Pnl(left) \in Int
        /\ Maint!Pnl(c2) = o.pnl + Maint!Pnl(left) /\ o.pnl \in Int
    BY <1>0, <2>3, PnlWithout
  <2> HIDE DEF left
  <2>10. /\ Profits(left \cup {x})
         /\ Maint!Pnl(left \cup {x}) = Maint!Pnl(left) + x.pnl
    BY <2>4, <2>8, <2>9, PnlWith
  <2>11. /\ Profits((left \cup {x}) \cup {y})
         /\ Maint!Pnl((left \cup {x}) \cup {y}) = Maint!Pnl(left \cup {x}) + y.pnl
    <3>1. y.pnl \in Int
      BY <2>6
    <3> QED BY <2>8, <2>10, <3>1, PnlWith
  <2>12. PICK rows : rows = c2' /\ rows = (left \cup {x}) \cup {y}
    BY <2>7
  <2>13. Profits(rows) /\ Maint!Pnl(rows) = (Maint!Pnl(left) + x.pnl) + profit
    BY <2>6, <2>10, <2>11, <2>12, Zenon
  <2>14. Maint!AreRows(c1, rows)
    <3>1. \A r \in rows : r \in c2 \/ r = x \/ r = y
      BY <2>12 DEF left
    <3>2. \A r \in rows : Maint!IsRow(r) /\ r.key \in Int /\ r.id \in Nat /\ r.pnl \in Int /\ r.id # 0
      BY <2>3, <2>4, <2>5, <2>6, <3>1
    <3>3. \A q, r \in rows : q # r => q.id # r.id
      <4>1. \A q, r \in left : q # r => q.id # r.id
        BY <2>3 DEF left
      <4> QED BY <2>8, <2>12, <4>1
    <3> QED BY <2>13, <3>2, <3>3, MaintRows DEF Profits
  <2>15. Maint!Stored' = Maint!Stored /\ Maint!AreAmounts'
    BY <1>0, <1>n, <2>1, <2>2 DEF Maint!Stored, Maint!AreAmounts
  <2>16. Maint!Stored' - Maint!Pnl(rows) = c7'
    BY <1>0, <1>n, <2>2, <2>4, <2>9, <2>13, <2>15
  <2> QED BY <1>5, <2>1, <2>12, <2>14, <2>15, <2>16
<1>9. CASE Maint!Cleanup \/ Maint!DeleteRow
  <2>1. PICK gone \in SUBSET c2 :
          /\ c2' = c2 \ gone
          /\ \/ c3' = <<Maint!Stored - Maint!Pnl(gone)>>
             \/ c3' = c3 /\ Maint!Pnl(gone) = 0
    <3>1. CASE Maint!Cleanup
      BY <3>1 DEF Maint!Cleanup, Maint!Charge, Maint!TakenOff, Maint!Expired
    <3>2. CASE Maint!DeleteRow
      <4>1. PICK r \in c2 : r.pnl = 0 /\ c2' = c2 \ {r} /\ c3' = c3
        BY <3>2 DEF Maint!DeleteRow, Maint!Neutral
      <4>2. Profits({r}) /\ r \in {r} /\ {r} \ {r} = {}
        BY <1>0, <4>1, FS_Singleton DEF Profits
      <4>3. Maint!Pnl({r}) = r.pnl + Maint!Pnl({r} \ {r})
        BY <4>2, PnlWithout
      <4>4. Maint!Pnl({r} \ {r}) = 0
        BY <4>2, PnlOfNone
      <4>5. Maint!Pnl({r}) = 0
        BY <4>1, <4>3, <4>4
      <4> QED BY <4>1, <4>5
    <3> QED BY <1>9, <3>1, <3>2
  <2>2. c4 = 7 /\ c4' = 7 /\ c1' = c1 /\ UNCHANGED <<c5, c7>>
    BY <1>9 DEF Maint!Cleanup, Maint!DeleteRow, Maint!Up
  <2>3. Maint!Pnl(gone) \in Int /\ Maint!Pnl(c2 \ gone) = Maint!Pnl(c2) - Maint!Pnl(gone)
    BY <1>0, PnlSplits
  <2>4. Maint!Stored' = Maint!Stored - Maint!Pnl(gone) /\ Maint!AreAmounts'
    <3>1. CASE c3' = <<Maint!Stored - Maint!Pnl(gone)>>
      BY <1>0, <1>n, <2>2, <2>3, <3>1 DEF Maint!Stored, Maint!AreAmounts, Maint!NoBalance
    <3>2. CASE c3' = c3 /\ Maint!Pnl(gone) = 0
      BY <1>0, <1>n, <2>2, <3>2 DEF Maint!Stored, Maint!AreAmounts
    <3> QED BY <2>1, <3>1, <3>2
  <2>5. Maint!AreRows(c1, c2 \ gone)
    <3>1. IsFiniteSet(c2 \ gone)
      BY <1>0, FS_Subset DEF Profits
    <3> QED BY <1>0, <3>1, MaintRows
  <2>6. Maint!Pnl(c2') = Maint!Pnl(c2) - Maint!Pnl(gone)
    BY <2>1, <2>3
  <2> QED BY <1>0, <1>5, <1>n, <2>1, <2>2, <2>3, <2>4, <2>5, <2>6
<1> QED BY <1>3, <1>4, <1>7, <1>8, <1>9 DEF Maint!MaintNext

----------------------------------------------------------------------------
(* The settings *)

Whole(f) == f = [state |-> f.state, values |-> f.values]

\* Whatever is written, the endpoint stays in its own file.
Placed(fs) == fs = [f \in Set!Files |-> fs[f]] /\ Set!OwnKeys(fs) /\ \A f \in Set!Files : Whole(fs[f])

LEMMA SetPlaced ==
  ASSUME Placed(c2), NEW fs, Placed(fs), NEW f \in Set!Files, NEW new,
         \/ new \in Set!Failures(f)
         \/ \E k, v : new = Set!With(f, Set!Only(k, v)) /\ (k = "testnet" => f = "config")
  PROVE  Placed([fs EXCEPT ![f] = new])
<1>1. /\ Whole(Set!Cut) /\ DOMAIN Set!Cut.values = {}
      /\ Whole(Set!Broken) /\ DOMAIN Set!Broken.values = {}
  BY DEF Set!Cut, Set!Broken, Set!There, Set!Nothing, Whole
<1>2. Whole(new) /\ ("testnet" \in DOMAIN new.values => f = "config" /\ new.state = "there")
  <2>1. CASE new \in Set!Failures(f)
    BY <1>1, <2>1 DEF Set!Failures, Placed, Set!OwnKeys
  <2>2. CASE \E k, v : new = Set!With(f, Set!Only(k, v)) /\ (k = "testnet" => f = "config")
    <3>1. PICK k, v : new = Set!With(f, Set!Only(k, v)) /\ (k = "testnet" => f = "config")
      BY <2>2
    <3>2. /\ Whole(new) /\ new.state = "there"
          /\ DOMAIN new.values = DOMAIN c2[f].values \cup {k}
      BY <3>1 DEF Set!With, Set!Only, Set!Rest, Set!AsRead, Set!There, Whole
    <3> QED BY <3>1, <3>2 DEF Placed, Set!OwnKeys
  <2> QED BY <2>1, <2>2
<1> QED BY <1>2 DEF Placed, Set!OwnKeys

\* What the files say is what a start reads.
LEMMA SetLoads ==
  ASSUME NEW fs, Set!OwnKeys(fs), NEW W,
         "testnet" \in DOMAIN fs["config"].values => fs["config"].values["testnet"] \in W
  PROVE  /\ Set!Loaded(fs) = [part \in DOMAIN Set!Default |-> Set!Loaded(fs)[part]]
         /\ Set!Loaded(fs).testnet \in W \cup {"test"}
<1>1. /\ "testnet" \in DOMAIN Set!Default /\ Set!Default["testnet"] = "test"
      /\ Set!Files = {"config", "risk", "secrets"}
  BY DEF Set!Default, Set!Files
<1>2. "testnet" \notin DOMAIN fs["risk"].values /\ "testnet" \notin DOMAIN fs["secrets"].values
  BY <1>1 DEF Set!OwnKeys
<1>3. "testnet" \in DOMAIN Set!Merged(fs) =>
         "testnet" \in DOMAIN fs["config"].values /\ Set!Merged(fs)["testnet"] = fs["config"].values["testnet"]
  BY <1>2 DEF Set!Merged
<1>4. Set!Read(fs, "testnet") \in W \cup {"test"}
  BY <1>1, <1>3 DEF Set!Read
<1>5. Set!Loaded(fs).testnet = Set!Read(fs, "testnet")
  BY <1>1 DEF Set!Loaded
<1> QED BY <1>4, <1>5 DEF Set!Loaded

LEMMA SetStarts ==
  ASSUME Set!SettingsAssumption, Set!SettingsInit PROVE Set!SetInv
<1>1. Set!AreFiles(c2) /\ Set!OwnKeys(c2) /\ c1 = Set!Loaded(c2) /\ c5 = {c1.testnet} /\ c3 = TRUE
  BY DEF Set!SettingsAssumption, Set!SettingsInit
<1>2. "testnet" \in DOMAIN c2["config"].values => c1.testnet = c2["config"].values["testnet"]
  <2>1. /\ "testnet" \in DOMAIN Set!Default
        /\ Set!Files = {"config", "risk", "secrets"}
    BY DEF Set!Default, Set!Files
  <2>2. "testnet" \notin DOMAIN c2["risk"].values /\ "testnet" \notin DOMAIN c2["secrets"].values
    BY <1>1, <2>1 DEF Set!OwnKeys
  <2>3. c1.testnet = Set!Read(c2, "testnet")
    BY <1>1, <2>1 DEF Set!Loaded
  <2>4. ASSUME "testnet" \in DOMAIN c2["config"].values
        PROVE  "testnet" \in DOMAIN Set!Merged(c2) /\ Set!Merged(c2)["testnet"] = c2["config"].values["testnet"]
    BY <2>2, <2>4 DEF Set!Merged
  <2> QED BY <2>3, <2>4 DEF Set!Read
<1>3. c1 = [part \in DOMAIN Set!Default |-> c1[part]]
  BY <1>1 DEF Set!Loaded
<1> QED BY <1>1, <1>2, <1>3 DEF Set!SetInv, Set!SetTypeOK, Set!LiveOnlyAsAsked, Set!AskedOrTest

LEMMA SetAsks ==
  ASSUME Set!SetInv, Set!SettingsNext PROVE Set!SetInv'
<1> DEFINE Told(fs, W) ==
             "testnet" \in DOMAIN fs["config"].values => fs["config"].values["testnet"] \in W \cup {"test"}
           Memory(m, W) == m = [part \in DOMAIN Set!Default |-> m[part]] /\ m.testnet \in W \cup {"test"}
<1>f. Set!Files = {"config", "risk", "secrets"} /\ {"testnet", "key"} \subseteq DOMAIN Set!Default
  BY DEF Set!Files, Set!Default
<1>0. Placed(c2) /\ Told(c2, c5) /\ (c3 => Memory(c1, c5)) /\ c1 = [part \in DOMAIN Set!Default |-> c1[part]]
  BY DEF Set!SetInv, Set!SetTypeOK, Set!AreFiles, Placed, Whole, Set!LiveOnlyAsAsked, Set!AskedOrTest
<1>1. ASSUME Placed(c2'), Told(c2', c5'), c3' => Memory(c1', c5'), c1' = [part \in DOMAIN Set!Default |-> c1'[part]]
      PROVE  Set!SetInv'
  BY <1>1 DEF Set!SetInv, Set!SetTypeOK, Set!AreFiles, Placed, Whole, Set!LiveOnlyAsAsked, Set!AskedOrTest
<1>e. \A s : DOMAIN Set!Cut.values = {} /\ DOMAIN Set!Broken.values = {}
  BY DEF Set!Cut, Set!Broken, Set!There, Set!Nothing
<1>t. \A W : Told([c2 EXCEPT !["config"] = Set!Cut], W) /\ Told([c2 EXCEPT !["config"] = Set!Broken], W)
  BY <1>e, <1>0, <1>f DEF Placed
<1>2. CASE Set!Start
  <2>1. Set!OwnKeys(c2) /\ Told(c2, c5) /\ c1' = Set!Loaded(c2) /\ c2' = c2 /\ c5' = c5
    BY <1>0, <1>2 DEF Set!Start, Placed
  <2>2. /\ c1' = [part \in DOMAIN Set!Default |-> c1'[part]]
        /\ c1'.testnet \in (c5 \cup {"test"}) \cup {"test"}
    BY <2>1, SetLoads
  <2> QED BY <1>0, <1>1, <2>1, <2>2
<1>3. CASE Set!Die
  <2>1. PICK f \in Set!Files, left \in {Set!Cut, Set!Broken} :
          c2' \in {c2, IF Set!Opened(f) THEN [c2 EXCEPT ![f] = left] ELSE c2}
    BY <1>3 DEF Set!Die
  <2>2. Placed(c2') /\ Told(c2', c5)
    <3>1. CASE c2' = c2
      BY <1>0, <3>1
    <3>2. CASE Set!Opened(f) /\ c2' = [c2 EXCEPT ![f] = left]
      <4>1. left \in Set!Failures(f)
        BY <3>2 DEF Set!Failures
      <4>2. Placed(c2')
        BY <1>0, <3>2, <4>1, SetPlaced
      <4>3. Told(c2', c5)
        BY <1>0, <1>e, <1>f, <3>2 DEF Placed
      <4> QED BY <4>2, <4>3
    <3> QED BY <2>1, <3>1, <3>2
  <2>3. c1' = c1 /\ c5' = c5 /\ c3' = FALSE
    BY <1>3 DEF Set!Die
  <2> QED BY <1>0, <1>1, <2>2, <2>3
<1>4. ASSUME NEW route, NEW part, part # "testnet", NEW v, NEW f \in Set!Files, Set!Quiet(route, part, v, f),
             c5' = c5
      PROVE  Set!SetInv'
  <2>1. PICK new : /\ new \in Set!Failures(f) \/ new = Set!With(f, Set!Only(part, v))
                   /\ c2' = [c2 EXCEPT ![f] = new]
    BY <1>4 DEF Set!Quiet
  <2>2. Placed(c2')
    BY <1>0, <1>4, <2>1, SetPlaced
  <2>3. Told(c2', c5)
    <3>1. CASE f # "config"
      BY <1>0, <1>f, <2>1, <3>1 DEF Placed
    <3>2. CASE f = "config" /\ new = Set!With(f, Set!Only(part, v))
      <4>1. /\ DOMAIN new.values = DOMAIN c2[f].values \cup {part}
            /\ \A k \in DOMAIN c2[f].values : k # part => new.values[k] = c2[f].values[k]
        BY <3>2 DEF Set!With, Set!Only, Set!Rest, Set!AsRead, Set!There
      <4> QED BY <1>0, <1>4, <1>f, <2>1, <3>2, <4>1 DEF Placed
    <3>3. CASE f = "config" /\ new \in Set!Failures(f)
      BY <1>0, <1>e, <1>f, <2>1, <3>3 DEF Placed, Set!Failures
    <3> QED BY <2>1, <3>1, <3>2, <3>3
  <2>4. c1' = [c1 EXCEPT ![part] = v] /\ c3' = c3
    BY <1>4 DEF Set!Quiet, Set!Save
  <2>5. c1' = [p \in DOMAIN Set!Default |-> c1'[p]] /\ c1'.testnet = c1.testnet
    BY <1>0, <1>4, <1>f, <2>4
  <2> QED BY <1>0, <1>1, <1>4, <2>2, <2>3, <2>4, <2>5
\* What is saved with the key: an endpoint that was asked for, or what there is.
<1>5. ASSUME NEW route, NEW field, NEW key, NEW used, NEW part, NEW v, part # "key",
             Set!Loud(route, field, key, used, part, v),
             part = "testnet" => v \in c5' \cup {"test"},
             c5 \subseteq c5' \/ (part = "testnet" /\ c4'.told)
      PROVE  Set!SetInv'
  <2> DEFINE secrets == [c2 EXCEPT !["secrets"] = Set!With("secrets", Set!Only("key", key))]
             both == [secrets EXCEPT !["config"] = Set!With("config", Set!Only(part, v))]
  <2>1. Placed(secrets)
    <3>1. Set!With("secrets", Set!Only("key", key)) = Set!With("secrets", Set!Only("key", key)) /\ "key" # "testnet"
      OBVIOUS
    <3> QED BY <1>0, <1>f, <3>1, SetPlaced
  <2>2. Placed(both)
    <3> HIDE DEF secrets
    <3> QED BY <1>0, <1>f, <2>1, SetPlaced
  <2>3. secrets["config"] = c2["config"] /\ both["config"] = Set!With("config", Set!Only(part, v))
    BY <1>0, <1>f DEF Placed
  <2>m. c1' = [c1 EXCEPT !.key = used, ![part] = v]
        => /\ c1' = [p \in DOMAIN Set!Default |-> c1'[p]]
           /\ c1'.testnet = IF part = "testnet" THEN v ELSE c1.testnet
    BY <1>0, <1>f, <1>5
  <2>w. /\ DOMAIN Set!With("config", Set!Only(part, v)).values = DOMAIN c2["config"].values \cup {part}
        /\ Set!With("config", Set!Only(part, v)).values[part] = v
        /\ \A k \in DOMAIN c2["config"].values :
              k # part => Set!With("config", Set!Only(part, v)).values[k] = c2["config"].values[k]
    BY DEF Set!With, Set!Only, Set!Rest, Set!AsRead, Set!There
  <2>4. ASSUME c5 \subseteq c5' \/ part = "testnet"  PROVE Told(both, c5')
    <3>1. CASE part = "testnet"
      BY <1>5, <2>3, <2>w, <3>1
    <3>2. CASE part # "testnet"
      BY <1>0, <2>3, <2>4, <2>w, <3>2
    <3> QED BY <3>1, <3>2
  <2>5. c3 /\ c3' = c3
    BY <1>5 DEF Set!Loud, Set!Save
  <2>6. CASE /\ c4'.told = FALSE /\ c1' = c1
             /\ \E left \in Set!Failures("secrets") : c2' = [c2 EXCEPT !["secrets"] = left]
    <3>0. PICK left \in Set!Failures("secrets") : c2' = [c2 EXCEPT !["secrets"] = left]
      BY <2>6
    <3>1. Placed(c2')
      BY <1>0, <1>f, <3>0, SetPlaced
    <3>2. c2'["config"] = c2["config"]
      BY <1>0, <1>f, <3>0 DEF Placed
    <3>3. c5 \subseteq c5'
      BY <1>5, <2>6
    <3> QED BY <1>0, <1>1, <2>5, <2>6, <3>1, <3>2, <3>3
  <2>7. CASE /\ c4'.told = FALSE /\ c1' = [c1 EXCEPT !.key = used, ![part] = v]
             /\ \E left \in Set!Failures("config") : c2' = [secrets EXCEPT !["config"] = left]
    <3>0. PICK left \in Set!Failures("config") : c2' = [secrets EXCEPT !["config"] = left]
      BY <2>7
    <3>1. Placed(c2')
      <4> HIDE DEF secrets
      <4> QED BY <1>0, <1>f, <2>1, <3>0, SetPlaced
    <3>2. c2'["config"] = left
      BY <1>f, <2>1, <3>0 DEF Placed
    <3>3. c5 \subseteq c5'
      BY <1>5, <2>7
    <3>4. Told(c2', c5')
      BY <1>0, <1>e, <3>2, <3>3 DEF Set!Failures
    <3>5. c1'.testnet \in c5' \cup {"test"}
      BY <1>0, <1>5, <2>m, <2>5, <2>7, <3>3
    <3> QED BY <1>1, <2>m, <2>7, <3>1, <3>4, <3>5
  <2>8. CASE /\ c4'.told = TRUE /\ c1' = [c1 EXCEPT !.key = used, ![part] = v]
             /\ c2' = IF c2["config"].state = "absent" THEN secrets ELSE both
    <3>1. Placed(c2')
      BY <2>1, <2>2, <2>8
    <3>2. Told(c2', c5')
      <4>1. CASE c2["config"].state = "absent"
        BY <1>0, <1>f, <2>3, <2>8, <4>1 DEF Placed, Set!OwnKeys
      <4>2. CASE c2["config"].state # "absent"
        BY <1>5, <2>4, <2>8, <4>2
      <4> QED BY <4>1, <4>2
    <3>5. c1'.testnet \in c5' \cup {"test"}
      <4>1. CASE part = "testnet"
        BY <1>5, <2>m, <2>8, <4>1
      <4>2. CASE part # "testnet"
        BY <1>0, <1>5, <2>m, <2>5, <2>8, <4>2
      <4> QED BY <4>1, <4>2
    <3> QED BY <1>1, <2>m, <2>8, <3>1, <3>2, <3>5
  <2>9. \A told : Set!Save(route, field, {part, "key"}, told) => c4'.told = told
    BY DEF Set!Save
  <2>10. \/ /\ Set!Save(route, field, {part, "key"}, FALSE) /\ c1' = c1
             /\ \E left \in Set!Failures("secrets") : c2' = [c2 EXCEPT !["secrets"] = left]
         \/ /\ Set!Save(route, field, {part, "key"}, FALSE)
             /\ c1' = [c1 EXCEPT !.key = used, ![part] = v]
             /\ \E left \in Set!Failures("config") : c2' = [secrets EXCEPT !["config"] = left]
         \/ /\ Set!Save(route, field, {part, "key"}, TRUE)
             /\ c1' = [c1 EXCEPT !.key = used, ![part] = v]
             /\ c2' = IF c2["config"].state = "absent" THEN secrets ELSE both
    BY <1>5 DEF Set!Loud
  <2> HIDE DEF secrets, both
  <2> QED BY <2>6, <2>7, <2>8, <2>9, <2>10
<1>6. CASE Set!SaveMode \/ Set!SaveNews \/ Set!SaveLimits
  <2>1. "config" \in Set!Files /\ "risk" \in Set!Files
    BY <1>f
  <2> QED BY <1>4, <1>6, <2>1 DEF Set!SaveMode, Set!SaveNews, Set!SaveLimits, Set!Quiet
<1>7. CASE Set!SaveModel
  <2>1. c5' = c5
    BY <1>7 DEF Set!SaveModel
  <2>2. PICK field, v : Set!Loud("deepseek", field, Set!NewKey(field), Set!NewKey(field), "model", v)
    BY <1>7 DEF Set!SaveModel
  <2> QED BY <1>5, <2>1, <2>2
<1>8. CASE Set!SaveEndpoint
  <2>1. PICK wish, v, key :
          /\ Set!Loud("binance", wish, key, c1.key, "testnet", v)
          /\ v = IF wish = SetSetup.empty THEN c1.testnet ELSE wish
          /\ c5' = IF wish = SetSetup.empty THEN c5
                   ELSE IF c4'.told THEN {wish} ELSE c5 \cup {wish}
    BY <1>8 DEF Set!SaveEndpoint, Set!Omitted, Set!LeftOut
  <2>2. c3
    BY <2>1 DEF Set!Loud, Set!Save
  <2>3. v \in c5' \cup {"test"}
    BY <1>0, <2>1, <2>2
  <2>4. c5 \subseteq c5' \/ c4'.told
    BY <2>1
  <2> QED BY <1>5, <2>1, <2>3, <2>4
<1> QED BY <1>2, <1>3, <1>6, <1>7, <1>8 DEF Set!SettingsNext

LEMMA SetStands ==
  ASSUME Set!SetInv, UNCHANGED <<c1, c2, c3, c4, c5, c6, c7, c8>> PROVE Set!SetInv'
BY DEF Set!SetInv, Set!SetTypeOK, Set!LiveOnlyAsAsked, Set!AskedOrTest

\* What a route makes of a file: nothing changes but the keys it is about.
LEMMA SetWith ==
  ASSUME NEW f, NEW k, NEW v
  PROVE  LET new == Set!With(f, Set!Only(k, v))
         IN  /\ Whole(new)
             /\ \A x \in DOMAIN c2[f].values \ {k} :
                  x \in DOMAIN new.values /\ new.values[x] = c2[f].values[x]
BY DEF Set!With, Set!Only, Set!Rest, Set!AsRead, Set!There, Whole

\* What a save leaves of a file.
Spared(fs, own) ==
  /\ fs = [f \in Set!Files |-> fs[f]]
  /\ \A f \in Set!Files :
       /\ Whole(fs[f])
       /\ \/ fs[f] \in {Set!Cut, Set!Broken}
          \/ \A k \in DOMAIN c2[f].values \ own :
               k \in DOMAIN fs[f].values /\ fs[f].values[k] = c2[f].values[k]

LEMMA SetSpared ==
  ASSUME NEW own, NEW fs, Spared(fs, own), NEW f \in Set!Files, NEW new,
         \/ new \in Set!Failures(f)
         \/ \E k \in own : \E v : new = Set!With(f, Set!Only(k, v)), Set!SetTypeOK
  PROVE  Spared([fs EXCEPT ![f] = new], own)
<1>1. Whole(Set!Cut) /\ Whole(Set!Broken)
  BY DEF Set!Cut, Set!Broken, Set!There, Whole
<1>0. Whole(c2[f])
  BY DEF Set!SetTypeOK, Set!AreFiles, Whole
<1>2. Whole(new) /\ \/ new \in {Set!Cut, Set!Broken}
                     \/ \A k \in DOMAIN c2[f].values \ own :
                          k \in DOMAIN new.values /\ new.values[k] = c2[f].values[k]
  <2>1. CASE new \in Set!Failures(f)
    BY <1>0, <1>1, <2>1 DEF Set!Failures
  <2>2. CASE \E k \in own : \E v : new = Set!With(f, Set!Only(k, v))
    BY <2>2, SetWith
  <2> QED BY <2>1, <2>2
<1> QED BY <1>2 DEF Spared

LEMMA SetSaves ==
  ASSUME Set!SetTypeOK, Set!SettingsNext
  PROVE  Set!SetTypeOK' /\ Set!OthersAreKept
<1>0. \A own : Spared(c2, own)
  BY DEF Spared, Whole, Set!SetTypeOK, Set!AreFiles
<1>1. ASSUME Spared(c2', c4'.own) PROVE Set!SetTypeOK' /\ Set!OthersAreKept
  BY <1>1 DEF Spared, Whole, Set!SetTypeOK, Set!AreFiles, Set!OthersAreKept
<1>2. CASE Set!Start
  BY <1>2 DEF Set!Start, Set!SetTypeOK, Set!AreFiles, Set!OthersAreKept
<1>3. CASE Set!Die
  <2>1. Whole(Set!Cut) /\ Whole(Set!Broken)
    BY DEF Set!Cut, Set!Broken, Set!There, Whole
  <2>2. PICK f \in Set!Files, left \in {Set!Cut, Set!Broken} : c2' = c2 \/ c2' = [c2 EXCEPT ![f] = left]
    BY <1>3 DEF Set!Die
  <2>3. Set!SetTypeOK'
    BY <2>1, <2>2 DEF Whole, Set!SetTypeOK, Set!AreFiles
  <2> QED BY <1>3, <2>3 DEF Set!Die, Set!OthersAreKept
<1>4. ASSUME NEW route, NEW part, NEW v, NEW f \in Set!Files, Set!Quiet(route, part, v, f)
      PROVE  Spared(c2', c4'.own)
  <2>1. c4'.own = {part}
    BY <1>4 DEF Set!Quiet, Set!Save
  <2>2. PICK new : /\ new \in Set!Failures(f) \/ new = Set!With(f, Set!Only(part, v))
                   /\ c2' = [c2 EXCEPT ![f] = new]
    BY <1>4 DEF Set!Quiet
  <2> QED BY <1>0, <2>1, <2>2, SetSpared
<1>5. ASSUME NEW route, NEW field, NEW key, NEW used, NEW part, NEW v,
             Set!Loud(route, field, key, used, part, v)
      PROVE  Spared(c2', c4'.own)
  <2> DEFINE own == {part, "key"}
             secrets == [c2 EXCEPT !["secrets"] = Set!With("secrets", Set!Only("key", key))]
             both == [secrets EXCEPT !["config"] = Set!With("config", Set!Only(part, v))]
  <2>1. c4'.own = own
    BY <1>5 DEF Set!Loud, Set!Save
  <2>2. {"secrets", "config"} \subseteq Set!Files
    BY DEF Set!Files
  <2>3. Spared(secrets, own)
    BY <1>0, <2>2, SetSpared
  <2>4. Spared(both, own)
    <3> HIDE DEF secrets
    <3> QED BY <2>2, <2>3, SetSpared
  <2>5. \/ \E left \in Set!Failures("secrets") : c2' = [c2 EXCEPT !["secrets"] = left]
        \/ \E left \in Set!Failures("config") : c2' = [secrets EXCEPT !["config"] = left]
        \/ c2' = secrets \/ c2' = both
    BY <1>5 DEF Set!Loud
  <2> HIDE DEF own, secrets, both
  <2> QED BY <1>0, <2>1, <2>2, <2>3, <2>4, <2>5, SetSpared
<1>6. "config" \in Set!Files /\ "risk" \in Set!Files
  BY DEF Set!Files
<1> QED
  BY <1>1, <1>2, <1>3, <1>4, <1>5, <1>6
  DEF Set!SettingsNext, Set!SaveMode, Set!SaveNews, Set!SaveLimits, Set!SaveModel, Set!SaveEndpoint

----------------------------------------------------------------------------
(* The backtest page *)

TabRecords == [cookie : Nat, polls : Nat, request : Bench!Requests]

\* What one run is given is kept with all the others.
LEMMA BenchOne ==
  ASSUME c1 \in Seq(Bench!RunRecords), NEW r \in Bench!Ids, NEW new \in Bench!RunRecords,
         c1' = [c1 EXCEPT ![r] = new]
  PROVE  /\ c1' \in Seq(Bench!RunRecords) /\ Len(c1') = Len(c1) /\ Bench!Ids' = Bench!Ids
         /\ c1'[r] = new /\ \A q \in Bench!Ids : q # r => c1'[q] = c1[q]
         /\ Bench!Ids = 1 .. Len(c1) /\ Len(c1) \in Nat
         /\ \A q \in Bench!Ids : c1[q] \in Bench!RunRecords
BY DEF Bench!Ids

\* A step of the thread of a run.
LEMMA BenchThread ==
  ASSUME Bench!DeskInv, NEW r \in Bench!Live, NEW new \in Bench!RunRecords,
         c1' = [c1 EXCEPT ![r] = new], UNCHANGED <<c3, c4, c5, c6, c7, c8, c9>>,
         new.listed = c1[r].listed, new.alone = c1[r].alone, new.fee = c1[r].fee,
         c2' \in [spreads : 0 .. Len(c1), feeder : 0 .. Len(c1)],
         new.alone =>
           /\ new.charged \subseteq {[spreads |-> r, feeder |-> r, fee |-> new.fee]}
           /\ new.stage \in {"priced", "trading"} => c2'.spreads = r
           /\ new.stage = "trading" => c2'.feeder = r
  PROVE  Bench!DeskInv'
<1>1. r \in Bench!Ids /\ c1 \in Seq(Bench!RunRecords)
  BY DEF Bench!Live, Bench!DeskInv, Bench!DeskTypeOK
<1>2. /\ c1' \in Seq(Bench!RunRecords) /\ Len(c1') = Len(c1) /\ Bench!Ids' = Bench!Ids
      /\ c1'[r] = new /\ \A q \in Bench!Ids : q # r => c1'[q] = c1[q]
  BY <1>1, BenchOne
<1>3. Bench!DeskTypeOK'
  BY <1>2 DEF Bench!DeskInv, Bench!DeskTypeOK
<1>4. Bench!AsksForARun'
  BY <1>1, <1>2 DEF Bench!DeskInv, Bench!AsksForARun, Bench!Live, Bench!Done, Bench!At, Bench!Run
<1>5. Bench!WritesItsOwn' /\ Bench!FileIsOfItsRecord'
  BY DEF Bench!DeskInv, Bench!WritesItsOwn, Bench!FileIsOfItsRecord, Bench!At, Bench!Run, Bench!Writing
<1>6. Bench!Live' \subseteq Bench!Live /\ \A q \in Bench!Ids : c1'[q].listed = c1[q].listed
  BY <1>2 DEF Bench!Live, Bench!Done
<1>7. Bench!RunningIsListed'
  BY <1>2, <1>6 DEF Bench!DeskInv, Bench!RunningIsListed, Bench!Listed, Bench!Live
<1>8. ASSUME NEW q \in Bench!Ids, c1'[q].alone
      PROVE  /\ c1'[q].charged \subseteq {[spreads |-> q, feeder |-> q, fee |-> c1'[q].fee]}
             /\ q \in Bench!Live' =>
                  /\ Bench!Live' = {q} /\ c3' = c1'[q].fee
                  /\ c1'[q].stage \in {"priced", "trading"} => c2'.spreads = q
                  /\ c1'[q].stage = "trading" => c2'.feeder = q
  <2>1. CASE q # r
    <3>1. c1'[q] = c1[q]
      BY <1>2, <2>1
    <3>2. c1[q].charged \subseteq {[spreads |-> q, feeder |-> q, fee |-> c1[q].fee]}
      BY <1>8, <3>1 DEF Bench!DeskInv, Bench!AloneIsItsOwn
    <3>3. q \notin Bench!Live'
      BY <1>8, <1>6, <2>1, <3>1 DEF Bench!DeskInv, Bench!AloneFindsItsOwn
    <3> QED BY <3>1, <3>2, <3>3
  <2>2. CASE q = r
    <3>1. Bench!Live = {r} /\ c3 = c1[r].fee
      BY <1>2, <1>8, <2>2 DEF Bench!DeskInv, Bench!AloneFindsItsOwn
    <3> QED BY <1>2, <1>6, <1>8, <2>2, <3>1
  <2> QED BY <2>1, <2>2
<1>9. Bench!AloneFindsItsOwn' /\ Bench!AloneIsItsOwn'
  BY <1>2, <1>8 DEF Bench!AloneFindsItsOwn, Bench!AloneIsItsOwn
<1> QED BY <1>3, <1>4, <1>5, <1>7, <1>9 DEF Bench!DeskInv


\* The next step of the thread of a run.
LEMMA BenchRuns ==
  ASSUME Bench!DeskInv, NEW r \in Bench!Ids, Bench!ThreadStep(r) PROVE Bench!DeskInv'
<1>1. /\ c1 \in Seq(Bench!RunRecords) /\ c1[r] \in Bench!RunRecords
      /\ r \in 1 .. Len(c1) /\ Len(c1) \in Nat
  BY DEF Bench!DeskInv, Bench!DeskTypeOK, Bench!Ids
<1>2. c2 \in [spreads : 0 .. Len(c1), feeder : 0 .. Len(c1)] /\ c3 \in BenchSetup.fees \cup {BenchSetup.storedFee}
  BY DEF Bench!DeskInv, Bench!DeskTypeOK
<1>3. r \in Bench!Live
  BY DEF Bench!ThreadStep, Bench!Begin, Bench!Resolve, Bench!Feed, Bench!Charge, Bench!Finish,
         Bench!Fail, Bench!Stage, Bench!Live, Bench!Done
<1>4. c1[r].alone =>
        /\ c1[r].charged \subseteq {[spreads |-> r, feeder |-> r, fee |-> c1[r].fee]}
        /\ c3 = c1[r].fee
        /\ c1[r].stage \in {"priced", "trading"} => c2.spreads = r
        /\ c1[r].stage = "trading" => c2.feeder = r
  BY <1>3 DEF Bench!DeskInv, Bench!AloneIsItsOwn, Bench!AloneFindsItsOwn
<1>5. ASSUME NEW to \in Bench!Stages, c1' = [c1 EXCEPT ![r].stage = to],
             UNCHANGED <<c3, c4, c5, c6, c7, c8, c9>>,
             c2' \in [spreads : 0 .. Len(c1), feeder : 0 .. Len(c1)],
             c1[r].alone => /\ to \in {"priced", "trading"} => c2'.spreads = r
                            /\ to = "trading" => c2'.feeder = r
      PROVE  Bench!DeskInv'
  <2>1. PICK new : new = [c1[r] EXCEPT !.stage = to]
    OBVIOUS
  <2>2. /\ new \in Bench!RunRecords /\ new.listed = c1[r].listed /\ new.alone = c1[r].alone
        /\ new.fee = c1[r].fee /\ new.charged = c1[r].charged /\ new.stage = to
    BY <1>1, <2>1 DEF Bench!RunRecords
  <2>3. c1' = [c1 EXCEPT ![r] = new]
    BY <1>5, <2>1
  <2> QED BY <1>3, <1>4, <1>5, <2>2, <2>3, BenchThread
<1>6. CASE Bench!Begin(r)
  BY <1>2, <1>5, <1>6 DEF Bench!Begin, Bench!Stage, Bench!desk, Bench!Stages
<1>7. CASE Bench!Resolve(r)
  BY <1>1, <1>2, <1>5, <1>7 DEF Bench!Resolve, Bench!Stage, Bench!desk, Bench!Stages
<1>8. CASE Bench!Feed(r)
  BY <1>1, <1>2, <1>4, <1>5, <1>8 DEF Bench!Feed, Bench!Stage, Bench!desk, Bench!Stages
<1>9. CASE Bench!Finish(r)
  BY <1>2, <1>5, <1>9 DEF Bench!Finish, Bench!Stage, Bench!desk, Bench!Stages
<1>10. CASE Bench!Fail(r)
  BY <1>2, <1>5, <1>10 DEF Bench!Fail, Bench!desk, Bench!Stages
<1>11. CASE Bench!Charge(r)
  <2>1. PICK figures : figures = [spreads |-> c2.spreads, feeder |-> c2.feeder, fee |-> c3]
    OBVIOUS
  <2>2. PICK new : new = [c1[r] EXCEPT !.charged = @ \cup {figures}]
    OBVIOUS
  <2>3. figures \in Bench!Figures
    BY <1>1, <1>2, <2>1 DEF Bench!Figures
  <2>4. /\ new \in Bench!RunRecords /\ new.listed = c1[r].listed /\ new.alone = c1[r].alone
        /\ new.fee = c1[r].fee /\ new.charged = c1[r].charged \cup {figures}
        /\ new.stage = c1[r].stage
    BY <1>1, <2>2, <2>3 DEF Bench!RunRecords
  <2>5. c1' = [c1 EXCEPT ![r] = new] /\ UNCHANGED <<c2, c3, c4, c5, c6, c7, c8, c9>> /\ c1[r].stage = "trading"
    BY <1>11, <2>1, <2>2 DEF Bench!Charge, Bench!desk
  <2>6. c1[r].alone => new.charged \subseteq {[spreads |-> r, feeder |-> r, fee |-> c1[r].fee]}
    BY <1>4, <2>1, <2>4, <2>5
  <2> QED BY <1>2, <1>3, <1>4, <2>4, <2>5, <2>6, BenchThread
<1> QED BY <1>6, <1>7, <1>8, <1>9, <1>10, <1>11 DEF Bench!ThreadStep

\* A run is taken off the registry, or none is: what threads go by stays.
LEMMA BenchRest ==
  ASSUME Bench!DeskInv, UNCHANGED <<c2, c3>>, Bench!DeskTypeOK',
         \/ c1' = c1
         \/ \E r \in Bench!Ids : ~ r \in Bench!Live /\ c1' = [c1 EXCEPT ![r].listed = FALSE]
  PROVE  /\ Bench!Ids' = Bench!Ids /\ Len(c1') = Len(c1) /\ \A q \in Bench!Ids : c1'[q].stage = c1[q].stage
         /\ Bench!RunningIsListed' /\ Bench!AloneFindsItsOwn' /\ Bench!AloneIsItsOwn'
<1>1. c1 \in Seq(Bench!RunRecords) /\ \A q \in Bench!Ids : c1[q] \in Bench!RunRecords
  BY DEF Bench!DeskInv, Bench!DeskTypeOK, Bench!Ids
<1>2. /\ Bench!Ids' = Bench!Ids /\ Len(c1') = Len(c1)
      /\ \A q \in Bench!Ids :
           /\ c1'[q].stage = c1[q].stage /\ c1'[q].alone = c1[q].alone
           /\ c1'[q].charged = c1[q].charged /\ c1'[q].fee = c1[q].fee
           /\ c1'[q].listed = c1[q].listed \/ ~ q \in Bench!Live
  <2>1. CASE c1' = c1
    BY <2>1 DEF Bench!Ids
  <2>2. CASE \E r \in Bench!Ids : ~ r \in Bench!Live /\ c1' = [c1 EXCEPT ![r].listed = FALSE]
    <3>1. PICK r \in Bench!Ids : ~ r \in Bench!Live /\ c1' = [c1 EXCEPT ![r].listed = FALSE]
      BY <2>2
    <3>2. PICK new : new = [c1[r] EXCEPT !.listed = FALSE]
      OBVIOUS
    <3>3. /\ new \in Bench!RunRecords /\ new.stage = c1[r].stage /\ new.alone = c1[r].alone
          /\ new.charged = c1[r].charged /\ new.fee = c1[r].fee
      BY <1>1, <3>2 DEF Bench!RunRecords
    <3>4. c1' = [c1 EXCEPT ![r] = new]
      BY <3>1, <3>2
    <3>5. Bench!Ids' = Bench!Ids /\ Len(c1') = Len(c1) /\ c1'[r] = new
          /\ \A q \in Bench!Ids : q # r => c1'[q] = c1[q]
      BY <1>1, <3>3, <3>4, BenchOne
    <3> QED BY <3>1, <3>3, <3>5
  <2> QED BY <2>1, <2>2
<1>3. Bench!Live' = Bench!Live
  BY <1>2 DEF Bench!Live, Bench!Done
<1>4. Bench!RunningIsListed'
  BY <1>2, <1>3 DEF Bench!DeskInv, Bench!RunningIsListed, Bench!Listed, Bench!Live
<1>5. Bench!AloneFindsItsOwn' /\ Bench!AloneIsItsOwn'
  BY <1>2, <1>3 DEF Bench!DeskInv, Bench!AloneFindsItsOwn, Bench!AloneIsItsOwn
<1> QED BY <1>2, <1>4, <1>5

\* One of two numbers, the larger.
LEMMA BenchMax ==
  ASSUME NEW n \in Nat PROVE Bench!Max({n, n + 1}) = n + 1
<1>1. \E m \in {n, n + 1} : \A k \in {n, n + 1} : m >= k
  OBVIOUS
<1> QED BY <1>1 DEF Bench!Max

\* A step of a page: its tab, and what it stores.
LEMMA BenchTab ==
  ASSUME Bench!DeskInv, NEW b \in BenchSetup.browsers, NEW t \in TabRecords,
         c4' = [c4 EXCEPT ![b] = t], UNCHANGED <<c2, c3, c8>>, c9' \in Nat,
         \/ c1' = c1
         \/ \E r \in Bench!Ids : ~ r \in Bench!Live /\ c1' = [c1 EXCEPT ![r].listed = FALSE],
         t.request.at # "idle" => t.request.run \in Bench!Ids,
         t.request.at \in {"insert", "write"} => c1[t.request.run].stage = "finished",
         \/ t.request.at # "write" /\ UNCHANGED <<c5, c6, c7>>
         \/ /\ t.request.at = "write" /\ t.request.id = c7 + 1 /\ c7' = c7 + 1 /\ c6' = c6
            /\ c5' = Bench!With(c5, c7 + 1, t.request.run)
         \/ /\ t.request.at = "idle" /\ UNCHANGED <<c5, c7>> /\ Bench!At(b, "write")
            /\ c6' = Bench!With(c6, Bench!Writing(b), Bench!Run(b))
  PROVE  Bench!DeskInv'
<1>1. /\ c1 \in Seq(Bench!RunRecords) /\ c7 \in Nat /\ DOMAIN c5 \cup DOMAIN c6 \subseteq 1 .. c7
      /\ c5 \in [DOMAIN c5 -> Bench!Ids] /\ c6 \in [DOMAIN c6 -> Bench!Ids]
      /\ c4 \in [BenchSetup.browsers -> TabRecords]
  BY DEF Bench!DeskInv, Bench!DeskTypeOK, TabRecords
<1>2. /\ c4' \in [BenchSetup.browsers -> TabRecords] /\ c4'[b] = t
      /\ \A d \in BenchSetup.browsers : d # b => c4'[d] = c4[d]
  BY <1>1
<1>3. /\ c1' \in Seq(Bench!RunRecords) /\ Len(c1') = Len(c1) /\ Bench!Ids' = Bench!Ids
      /\ \A q \in Bench!Ids : c1'[q].stage = c1[q].stage
  <2>1. CASE c1' = c1
    BY <1>1, <2>1 DEF Bench!Ids
  <2>2. CASE \E r \in Bench!Ids : ~ r \in Bench!Live /\ c1' = [c1 EXCEPT ![r].listed = FALSE]
    <3>1. PICK r \in Bench!Ids : c1' = [c1 EXCEPT ![r].listed = FALSE]
      BY <2>2
    <3>2. PICK new : new = [c1[r] EXCEPT !.listed = FALSE]
      OBVIOUS
    <3>0. c1[r] \in Bench!RunRecords
      BY <1>1 DEF Bench!Ids
    <3>3. new \in Bench!RunRecords /\ new.stage = c1[r].stage
      BY <3>0, <3>2 DEF Bench!RunRecords
    <3>4. c1' = [c1 EXCEPT ![r] = new]
      BY <3>1, <3>2
    <3>5. /\ c1' \in Seq(Bench!RunRecords) /\ Len(c1') = Len(c1) /\ Bench!Ids' = Bench!Ids
          /\ c1'[r] = new /\ \A q \in Bench!Ids : q # r => c1'[q] = c1[q]
      BY <1>1, <3>3, <3>4, BenchOne
    <3> QED BY <3>3, <3>5
  <2> QED BY <2>1, <2>2
\* The stored rows and files
<1>4. /\ c7' \in Nat /\ c7 <= c7' /\ DOMAIN c5' \cup DOMAIN c6' \subseteq 1 .. c7'
      /\ c5' \in [DOMAIN c5' -> Bench!Ids] /\ c6' \in [DOMAIN c6' -> Bench!Ids]
      /\ Bench!WritesItsOwn' /\ Bench!FileIsOfItsRecord'
  <2>1. CASE t.request.at # "write" /\ UNCHANGED <<c5, c6, c7>>
    <3>1. Bench!WritesItsOwn'
      BY <1>2, <2>1 DEF Bench!DeskInv, Bench!WritesItsOwn, Bench!At, Bench!Run, Bench!Writing
    <3>2. Bench!FileIsOfItsRecord'
      BY <2>1 DEF Bench!DeskInv, Bench!FileIsOfItsRecord
    <3> QED BY <1>1, <2>1, <3>1, <3>2
  <2>2. CASE /\ t.request.at = "write" /\ t.request.id = c7 + 1 /\ c7' = c7 + 1 /\ c6' = c6
             /\ c5' = Bench!With(c5, c7 + 1, t.request.run)
    <3>1. /\ DOMAIN c5' = DOMAIN c5 \cup {c7 + 1} /\ c5' \in [DOMAIN c5 \cup {c7 + 1} -> Bench!Ids]
          /\ c5'[c7 + 1] = t.request.run /\ \A i \in DOMAIN c5 : i # c7 + 1 => c5'[i] = c5[i]
      <4>1. t.request.run \in Bench!Ids
        BY <2>2
      <4>2. PICK run : run = t.request.run
        OBVIOUS
      <4>3. /\ DOMAIN Bench!With(c5, c7 + 1, run) = DOMAIN c5 \cup {c7 + 1}
            /\ Bench!With(c5, c7 + 1, run) \in [DOMAIN c5 \cup {c7 + 1} -> Bench!Ids]
            /\ Bench!With(c5, c7 + 1, run)[c7 + 1] = run
            /\ \A i \in DOMAIN c5 : i # c7 + 1 => Bench!With(c5, c7 + 1, run)[i] = c5[i]
        <5>1. c5 \in [DOMAIN c5 -> Bench!Ids] /\ run \in Bench!Ids
          BY <1>1, <4>1, <4>2
        <5> QED BY <5>1 DEF Bench!With
      <4>4. c5' = Bench!With(c5, c7 + 1, run)
        BY <2>2, <4>2
      <4> QED BY <4>2, <4>3, <4>4
    <3>2. c7 + 1 \notin DOMAIN c5 \cup DOMAIN c6 /\ c7 + 1 \notin 1 .. c7
      BY <1>1
    <3>3. \A d \in BenchSetup.browsers : c4[d].request.at = "write" =>
            /\ c4[d].request.id \in 1 .. c7 /\ c4[d].request.id \notin DOMAIN c6
            /\ c4[d].request.id \in DOMAIN c5 => c5[c4[d].request.id] = c4[d].request.run
      BY DEF Bench!DeskInv, Bench!WritesItsOwn, Bench!At, Bench!Run, Bench!Writing
    <3>4. \A d, e \in BenchSetup.browsers :
            c4[d].request.at = "write" /\ c4[e].request.at = "write"
              /\ c4[d].request.id = c4[e].request.id => d = e
      BY DEF Bench!DeskInv, Bench!WritesItsOwn, Bench!At, Bench!Run, Bench!Writing
    <3>5. Bench!WritesItsOwn'
      <4>1. ASSUME NEW d \in BenchSetup.browsers, c4'[d].request.at = "write"
            PROVE  /\ c4'[d].request.id \in 1 .. c7 + 1 /\ c4'[d].request.id \notin DOMAIN c6
                   /\ c4'[d].request.id \in DOMAIN c5' => c5'[c4'[d].request.id] = c4'[d].request.run
        BY <1>1, <1>2, <2>2, <3>1, <3>2, <3>3, <4>1
      <4>2. ASSUME NEW d \in BenchSetup.browsers, NEW e \in BenchSetup.browsers,
                   c4'[d].request.at = "write", c4'[e].request.at = "write",
                   c4'[d].request.id = c4'[e].request.id
            PROVE  d = e
        BY <1>1, <1>2, <2>2, <3>2, <3>3, <3>4, <4>2
      <4> QED BY <2>2, <4>1, <4>2 DEF Bench!WritesItsOwn, Bench!At, Bench!Run, Bench!Writing
    <3>6. Bench!FileIsOfItsRecord'
      BY <2>2, <3>1, <3>2 DEF Bench!DeskInv, Bench!FileIsOfItsRecord
    <3> QED BY <1>1, <2>2, <3>1, <3>5, <3>6
  <2>3. CASE /\ t.request.at = "idle" /\ UNCHANGED <<c5, c7>> /\ Bench!At(b, "write")
             /\ c6' = Bench!With(c6, Bench!Writing(b), Bench!Run(b))
    <3>0. PICK id, run : id = Bench!Writing(b) /\ run = Bench!Run(b)
      OBVIOUS
    <3>1. run \in Bench!Ids
      BY <2>3, <3>0 DEF Bench!DeskInv, Bench!AsksForARun, Bench!At
    <3>2. /\ DOMAIN c6' = DOMAIN c6 \cup {id} /\ c6' \in [DOMAIN c6 \cup {id} -> Bench!Ids]
          /\ c6'[id] = run /\ \A i \in DOMAIN c6 : i # id => c6'[i] = c6[i]
      <4>1. c6' = Bench!With(c6, id, run)
        BY <2>3, <3>0
      <4>2. /\ DOMAIN Bench!With(c6, id, run) = DOMAIN c6 \cup {id}
            /\ Bench!With(c6, id, run) \in [DOMAIN c6 \cup {id} -> Bench!Ids]
            /\ Bench!With(c6, id, run)[id] = run
            /\ \A i \in DOMAIN c6 : i # id => Bench!With(c6, id, run)[i] = c6[i]
        <5>1. c6 \in [DOMAIN c6 -> Bench!Ids] /\ run \in Bench!Ids
          BY <1>1, <3>1
        <5> QED BY <5>1 DEF Bench!With
      <4> QED BY <4>1, <4>2
    <3>3. /\ id \in 1 .. c7 \ DOMAIN c6 /\ (id \in DOMAIN c5 => c5[id] = run)
          /\ \A d \in BenchSetup.browsers : d # b /\ c4[d].request.at = "write" =>
               /\ c4[d].request.id # id
               /\ c4[d].request.id \in 1 .. c7 \ DOMAIN c6
               /\ c4[d].request.id \in DOMAIN c5 => c5[c4[d].request.id] = c4[d].request.run
      BY <2>3, <3>0 DEF Bench!DeskInv, Bench!WritesItsOwn, Bench!At, Bench!Run, Bench!Writing
    <3>4. \A d, e \in BenchSetup.browsers :
            c4[d].request.at = "write" /\ c4[e].request.at = "write"
              /\ c4[d].request.id = c4[e].request.id => d = e
      BY DEF Bench!DeskInv, Bench!WritesItsOwn, Bench!At, Bench!Run, Bench!Writing
    <3>5. Bench!WritesItsOwn'
      BY <1>2, <2>3, <3>2, <3>3, <3>4 DEF Bench!WritesItsOwn, Bench!At, Bench!Run, Bench!Writing
    <3>6. Bench!FileIsOfItsRecord'
      BY <2>3, <3>2, <3>3 DEF Bench!DeskInv, Bench!FileIsOfItsRecord
    <3> QED BY <1>1, <2>3, <3>2, <3>3, <3>5, <3>6
  <2> QED BY <2>1, <2>2, <2>3
<1>5. Bench!DeskTypeOK'
  BY <1>2, <1>3, <1>4 DEF Bench!DeskInv, Bench!DeskTypeOK, TabRecords
<1>6. Bench!RunningIsListed' /\ Bench!AloneFindsItsOwn' /\ Bench!AloneIsItsOwn'
  BY <1>5, BenchRest
<1>7. Bench!AsksForARun'
  BY <1>2, <1>3 DEF Bench!DeskInv, Bench!AsksForARun, Bench!At, Bench!Run
<1> QED BY <1>4, <1>5, <1>6, <1>7 DEF Bench!DeskInv

\* A run more, with everything quiet about it.
LEMMA BenchPost ==
  ASSUME Bench!DeskInv, NEW b \in BenchSetup.browsers, Bench!Post(b) PROVE Bench!DeskInv'
<1>1. /\ c1 \in Seq(Bench!RunRecords) /\ Len(c1) \in Nat /\ Bench!Ids = 1 .. Len(c1)
      /\ \A q \in Bench!Ids : c1[q] \in Bench!RunRecords
      /\ c4 \in [BenchSetup.browsers -> TabRecords]
      /\ c2 \in [spreads : 0 .. Len(c1), feeder : 0 .. Len(c1)]
      /\ c8 \in Int
  BY DEF Bench!DeskInv, Bench!DeskTypeOK, Bench!Ids, TabRecords
<1>a. PICK f \in BenchSetup.fees :
        /\ c1' = Append([r \in Bench!Ids |-> [c1[r] EXCEPT !.listed = @ /\ ~Bench!Outdated(r),
                                                       !.alone = @ /\ Bench!Done(r)]],
                        [stage |-> "queued", listed |-> TRUE, started |-> c8, fee |-> f,
                         charged |-> {}, alone |-> Bench!Live = {}])
        /\ c3' = f
        /\ c4' = [c4 EXCEPT ![b].cookie = Len(c1) + 1, ![b].polls = Len(c1) + 1]
        /\ UNCHANGED <<c2, c5, c6, c7, c8, c9>>
  BY DEF Bench!Post
<1>b. PICK kept : kept = [r \in Bench!Ids |-> [c1[r] EXCEPT !.listed = @ /\ ~Bench!Outdated(r),
                                                         !.alone = @ /\ Bench!Done(r)]]
  OBVIOUS
<1>c. PICK new : new = [stage |-> "queued", listed |-> TRUE, started |-> c8, fee |-> f,
                        charged |-> {}, alone |-> Bench!Live = {}]
  OBVIOUS
<1>d. c1' = Append(kept, new)
  BY <1>a, <1>b, <1>c
<1>2. /\ c1' = Append(kept, new) /\ c3' = f
      /\ c4' = [c4 EXCEPT ![b].cookie = Len(c1) + 1, ![b].polls = Len(c1) + 1]
      /\ UNCHANGED <<c2, c5, c6, c7, c8, c9>>
  BY <1>a, <1>d
<1>3. \A r \in Bench!Ids :
        /\ kept[r] \in Bench!RunRecords /\ kept[r].stage = c1[r].stage /\ kept[r].fee = c1[r].fee
        /\ kept[r].charged = c1[r].charged /\ kept[r].alone = (c1[r].alone /\ Bench!Done(r))
        /\ kept[r].listed = (c1[r].listed /\ ~Bench!Outdated(r))
  <2> SUFFICES ASSUME NEW r \in Bench!Ids PROVE
        /\ kept[r] \in Bench!RunRecords /\ kept[r].stage = c1[r].stage /\ kept[r].fee = c1[r].fee
        /\ kept[r].charged = c1[r].charged /\ kept[r].alone = (c1[r].alone /\ Bench!Done(r))
        /\ kept[r].listed = (c1[r].listed /\ ~Bench!Outdated(r))
    OBVIOUS
  <2>1. PICK old : old = c1[r]
    OBVIOUS
  <2>2. PICK l \in BOOLEAN, a \in BOOLEAN : l = (old.listed /\ ~Bench!Outdated(r)) /\ a = (old.alone /\ Bench!Done(r))
    OBVIOUS
  <2>3. kept[r] = [old EXCEPT !.listed = l, !.alone = a]
    BY <1>b, <2>1, <2>2
  <2>4. old \in Bench!RunRecords
    BY <1>1, <2>1
  <2>5. ASSUME NEW y, y = [old EXCEPT !.listed = l], NEW z, z = [y EXCEPT !.alone = a]
        PROVE  /\ z \in Bench!RunRecords /\ z.stage = old.stage /\ z.fee = old.fee
               /\ z.charged = old.charged /\ z.alone = a /\ z.listed = l
    <3>1. y \in Bench!RunRecords /\ y.stage = old.stage /\ y.fee = old.fee /\ y.charged = old.charged
          /\ y.listed = l
      BY <2>4, <2>5 DEF Bench!RunRecords
    <3> QED BY <2>5, <3>1 DEF Bench!RunRecords
  <2>6. PICK y : y = [old EXCEPT !.listed = l]
    OBVIOUS
  <2>7. PICK z : z = kept[r]
    OBVIOUS
  <2>8. z = [y EXCEPT !.alone = a]
    BY <2>3, <2>6, <2>7
  <2>9. /\ z \in Bench!RunRecords /\ z.stage = old.stage /\ z.fee = old.fee
        /\ z.charged = old.charged /\ z.alone = a /\ z.listed = l
    BY <2>5, <2>6, <2>8
  <2> QED BY <2>1, <2>2, <2>7, <2>9
<1>4. kept \in Seq(Bench!RunRecords) /\ Len(kept) = Len(c1)
  <2>1. kept \in [1 .. Len(c1) -> Bench!RunRecords]
    BY <1>1, <1>3, <1>b
  <2>2. kept \in Seq(Bench!RunRecords)
    BY <1>1, <2>1, SeqDef
  <2>3. Len(kept) \in Nat /\ 1 .. Len(kept) = 1 .. Len(c1)
    BY <2>1, <2>2, LenProperties
  <2>4. \A n, m \in Nat : 1 .. n = 1 .. m => n = m
    <3>1. ASSUME NEW n \in Nat, NEW m \in Nat, 1 .. n = 1 .. m, n < m PROVE FALSE
      <4>1. m \in 1 .. m /\ m \notin 1 .. n
        BY <3>1
      <4> QED BY <3>1, <4>1
    <3>2. ASSUME NEW n \in Nat, NEW m \in Nat PROVE n < m \/ m < n \/ n = m
      OBVIOUS
    <3> QED BY <3>1, <3>2
  <2> QED BY <1>1, <2>2, <2>3, <2>4
<1>5. new \in Bench!RunRecords
  BY <1>1, <1>c DEF Bench!RunRecords, Bench!Stages
<1>6. /\ c1' \in Seq(Bench!RunRecords) /\ Len(c1') = Len(c1) + 1 /\ Bench!Ids' = 1 .. Len(c1) + 1
      /\ c1'[Len(c1) + 1] = new /\ \A r \in Bench!Ids : c1'[r] = kept[r]
  <2>1. c1' = Append(kept, new)
    BY <1>2
  <2>2. /\ Append(kept, new) \in Seq(Bench!RunRecords) /\ Len(Append(kept, new)) = Len(c1) + 1
        /\ DOMAIN Append(kept, new) = 1 .. Len(c1) + 1
        /\ Append(kept, new)[Len(c1) + 1] = new /\ \A r \in Bench!Ids : Append(kept, new)[r] = kept[r]
    BY <1>1, <1>4, <1>5
  <2> QED BY <2>1, <2>2 DEF Bench!Ids
<1>7. PICK t : t = [c4[b] EXCEPT !.cookie = Len(c1) + 1, !.polls = Len(c1) + 1]
  OBVIOUS
<1>8. t \in TabRecords /\ t.request = c4[b].request
  <2>0. PICK old : old = c4[b]
    OBVIOUS
  <2>1. old \in TabRecords /\ Len(c1) + 1 \in Nat
    BY <1>1, <2>0
  <2>2. PICK y, n : y = [old EXCEPT !.cookie = n] /\ n = Len(c1) + 1
    OBVIOUS
  <2>3. y \in TabRecords /\ y.request = old.request
    BY <2>1, <2>2 DEF TabRecords
  <2>4. t = [y EXCEPT !.polls = n]
    BY <1>7, <2>0, <2>2
  <2> QED BY <2>0, <2>1, <2>2, <2>3, <2>4 DEF TabRecords
<1>9. c4' \in [BenchSetup.browsers -> TabRecords] /\ \A d \in BenchSetup.browsers : c4'[d].request = c4[d].request
  <2>1. c4' = [c4 EXCEPT ![b] = t]
    BY <1>2, <1>7
  <2> QED BY <1>1, <1>8, <2>1
<1>10. Bench!DeskTypeOK'
  <2>1. Bench!Ids \subseteq Bench!Ids' /\ 0 .. Len(c1) \subseteq 0 .. Len(c1')
    BY <1>1, <1>6
  <2>2. c2' \in [spreads : 0 .. Len(c1'), feeder : 0 .. Len(c1')]
    BY <1>1, <1>2, <2>1
  <2>3. c5' \in [DOMAIN c5' -> Bench!Ids'] /\ c6' \in [DOMAIN c6' -> Bench!Ids']
    BY <1>2, <2>1 DEF Bench!DeskInv, Bench!DeskTypeOK
  <2> QED BY <1>2, <1>6, <1>9, <2>2, <2>3 DEF Bench!DeskInv, Bench!DeskTypeOK, TabRecords
<1>11. Bench!AsksForARun' /\ Bench!WritesItsOwn' /\ Bench!FileIsOfItsRecord'
  <2>1. Bench!AsksForARun'
    BY <1>1, <1>3, <1>6, <1>9 DEF Bench!DeskInv, Bench!AsksForARun, Bench!At, Bench!Run
  <2>2. Bench!WritesItsOwn' /\ Bench!FileIsOfItsRecord'
    BY <1>2, <1>9 DEF Bench!DeskInv, Bench!WritesItsOwn, Bench!FileIsOfItsRecord, Bench!At, Bench!Run,
       Bench!Writing
  <2> QED BY <2>1, <2>2
<1>12. Bench!Live' = Bench!Live \cup {Len(c1) + 1}
  <2>1. \A r \in Bench!Ids : c1'[r].stage = c1[r].stage
    BY <1>3, <1>6
  <2>2. Bench!Ids' = Bench!Ids \cup {Len(c1) + 1} /\ c1'[Len(c1) + 1].stage = "queued"
    BY <1>1, <1>c, <1>6
  <2> QED BY <2>1, <2>2 DEF Bench!Live, Bench!Done
<1>13. Bench!RunningIsListed'
  <2>1. \A r \in Bench!Live : r \in Bench!Ids /\ c1[r].listed /\ ~Bench!Outdated(r)
    BY DEF Bench!DeskInv, Bench!RunningIsListed, Bench!Listed, Bench!Live, Bench!Outdated
  <2>2. \A r \in Bench!Live : r \in Bench!Ids' /\ c1'[r].listed
    <3>1. \A r \in Bench!Ids : r \in Bench!Ids' /\ c1'[r].listed = kept[r].listed
      BY <1>1, <1>6
    <3>2. \A r \in Bench!Live : kept[r].listed
      BY <1>3, <2>1, Zenon
    <3> QED BY <2>1, <3>1, <3>2, Zenon
  <2>3. Len(c1) + 1 \in Bench!Ids' /\ c1'[Len(c1) + 1].listed
    BY <1>1, <1>c, <1>6
  <2> QED BY <1>12, <2>2, <2>3 DEF Bench!RunningIsListed, Bench!Listed
<1>14. Bench!AloneFindsItsOwn' /\ Bench!AloneIsItsOwn'
  <2>1. \A r \in Bench!Ids : c1'[r].alone => c1[r].alone /\ ~ r \in Bench!Live
    BY <1>3, <1>6 DEF Bench!Live
  <2>2. Bench!AloneFindsItsOwn'
    <3>1. ASSUME NEW r \in Bench!Ids', c1'[r].alone, r \in Bench!Live'
          PROVE  r = Len(c1) + 1 /\ Bench!Live = {} /\ c1'[r] = new
      <4>1. r \notin Bench!Live
        BY <2>1, <3>1 DEF Bench!Live
      <4>2. r = Len(c1) + 1 /\ c1'[r] = new
        BY <1>6, <1>12, <3>1, <4>1
      <4>3. new.alone => Bench!Live = {}
        BY <1>c
      <4>4. new.alone
        BY <3>1, <4>2
      <4> QED BY <4>2, <4>3, <4>4
    <3>2. ASSUME NEW r \in Bench!Ids', c1'[r].alone, r \in Bench!Live'
          PROVE  /\ Bench!Live' = {r} /\ c3' = c1'[r].fee /\ c1'[r].stage = "queued"
      <4>1. new.fee = f /\ new.stage = "queued"
        BY <1>c
      <4> QED BY <1>2, <1>12, <3>1, <3>2, <4>1
    <3> QED BY <3>2 DEF Bench!AloneFindsItsOwn
  <2>3. Bench!AloneIsItsOwn'
    <3>1. ASSUME NEW r \in Bench!Ids', c1'[r].alone
          PROVE  c1'[r].charged \subseteq {[spreads |-> r, feeder |-> r, fee |-> c1'[r].fee]}
      <4>1. CASE r \in Bench!Ids
        <5>1. c1'[r].charged = c1[r].charged /\ c1'[r].fee = c1[r].fee /\ c1[r].alone
          BY <1>3, <1>6, <2>1, <3>1, <4>1
        <5> QED BY <4>1, <5>1 DEF Bench!DeskInv, Bench!AloneIsItsOwn
      <4>2. CASE r = Len(c1) + 1
        BY <1>c, <1>6, <4>2
      <4> QED BY <1>1, <1>6, <4>1, <4>2
    <3> QED BY <3>1 DEF Bench!AloneIsItsOwn
  <2> QED BY <2>2, <2>3
<1> QED BY <1>10, <1>11, <1>13, <1>14 DEF Bench!DeskInv

\* What a page asks next, and stores.
LEMMA BenchTabs ==
  ASSUME Bench!DeskInv, NEW b \in BenchSetup.browsers, Bench!TabStep(b) PROVE Bench!DeskInv'
<1>1. /\ c1 \in Seq(Bench!RunRecords) /\ Len(c1) \in Nat /\ Bench!Ids = 1 .. Len(c1)
      /\ c4[b] \in TabRecords /\ c7 \in Nat /\ c9 \in Nat
  BY DEF Bench!DeskInv, Bench!DeskTypeOK, Bench!Ids, TabRecords
<1>2. PICK old : old = c4[b]
  OBVIOUS
<1>3. /\ old \in TabRecords /\ old.request \in Bench!Requests
      /\ old.request.at # "idle" => old.request.run \in Bench!Ids
      /\ old.request.at \in {"insert", "write"} => c1[old.request.run].stage = "finished"
  BY <1>1, <1>2 DEF Bench!DeskInv, Bench!AsksForARun, Bench!At, Bench!Run, TabRecords
<1>4. Bench!Idle \in Bench!Requests /\ Bench!Idle.at = "idle"
  BY DEF Bench!Idle, Bench!Requests
<1>5. ASSUME NEW r \in Bench!Ids, c1[r].stage = "finished" PROVE ~ r \in Bench!Live
  BY <1>5 DEF Bench!Live, Bench!Done
<1>6. ASSUME NEW t, NEW q \in Bench!Requests, t = [old EXCEPT !.request = q]
      PROVE  t \in TabRecords /\ t.request = q
  BY <1>3, <1>6 DEF TabRecords
<1>7. ASSUME NEW t, t \in TabRecords, NEW n \in Nat
      PROVE  /\ [t EXCEPT !.polls = n] \in TabRecords /\ [t EXCEPT !.polls = n].request = t.request
             /\ [t EXCEPT !.cookie = n] \in TabRecords /\ [t EXCEPT !.cookie = n].request = t.request
  BY <1>7 DEF TabRecords
<1>8. CASE Bench!Post(b)
  BY <1>8, BenchPost
<1>9. CASE Bench!Load(b)
  <2>1. PICK r \in {Bench!Active(b)} \cup Bench!Listed :
          c4' = [c4 EXCEPT ![b].polls = r] /\ UNCHANGED <<c1, c2, c3, c5, c6, c7, c8>>
          /\ c9' = c9 + 1 /\ c4[b].request = Bench!Idle
    BY <1>9 DEF Bench!Load, Bench!thread
  <2>2. r \in Nat
    <3>1. Bench!Listed \subseteq Nat
      BY <1>1 DEF Bench!Listed
    <3>2. Bench!Active(b) \in Nat
      <4>1. PICK running : running = Bench!Listed \cap Bench!Live
        OBVIOUS
      <4>2. running \subseteq Nat
        BY <3>1, <4>1
      <4>3. ASSUME running # {} PROVE Bench!Min(running) \in Nat
        <5>1. \E m \in running : \A k \in running : m <= k
          BY <4>2, <4>3, Least
        <5> QED BY <4>2, <5>1 DEF Bench!Min
      <4> QED BY <1>1, <4>1, <4>2, <4>3 DEF Bench!Active, TabRecords
    <3> QED BY <2>1, <3>1, <3>2
  <2>3. PICK t : t = [old EXCEPT !.polls = r]
    OBVIOUS
  <2>4. t \in TabRecords /\ t.request = Bench!Idle
    BY <1>2, <1>3, <1>7, <2>1, <2>2, <2>3
  <2>5. c4' = [c4 EXCEPT ![b] = t]
    BY <1>2, <2>1, <2>3
  <2>6. c9' \in Nat
    BY <1>1, <2>1
  <2>7. UNCHANGED <<c1, c2, c3, c5, c6, c7, c8>>
    BY <2>1
  <2> QED BY <1>4, <2>4, <2>5, <2>6, <2>7, BenchTab
<1>10. CASE Bench!Poll(b)
  <2>1. /\ c4' = [c4 EXCEPT ![b].request = [at |-> "asked", run |-> c4[b].polls, id |-> 0], ![b].polls = 0]
        /\ UNCHANGED <<c1, c2, c3, c5, c6, c7, c8, c9>> /\ c4[b].polls \in Bench!Ids
    BY <1>10 DEF Bench!Poll, Bench!thread, Bench!Listed
  <2>2. PICK q : q = [at |-> "asked", run |-> old.polls, id |-> 0]
    OBVIOUS
  <2>3. q \in Bench!Requests /\ q.at = "asked" /\ q.run \in Bench!Ids
    BY <1>2, <1>3, <2>1, <2>2 DEF Bench!Requests, TabRecords
  <2>4. PICK y : y = [old EXCEPT !.request = q]
    OBVIOUS
  <2>5. y \in TabRecords /\ y.request = q
    BY <1>6, <2>3, <2>4
  <2>6. PICK t : t = [y EXCEPT !.polls = 0]
    OBVIOUS
  <2>7. t \in TabRecords /\ t.request = q
    BY <1>7, <2>5, <2>6
  <2>8. c4' = [c4 EXCEPT ![b] = t]
    BY <1>2, <2>1, <2>2, <2>4, <2>6
  <2> QED BY <1>1, <2>1, <2>3, <2>7, <2>8, BenchTab
<1>11. CASE Bench!Answer(b)
  <2>1. UNCHANGED <<c1, c2, c3, c5, c6, c7, c8, c9>> /\ old.request.at = "asked"
    BY <1>2, <1>11 DEF Bench!Answer, Bench!thread, Bench!At
  <2>2. CASE Bench!Run(b) \in Bench!Listed /\ c1[Bench!Run(b)].stage = "finished"
    <3>1. PICK q : q = [old.request EXCEPT !.at = "insert", !.id = 0]
      OBVIOUS
    <3>2. q \in Bench!Requests /\ q.at = "insert" /\ q.run = old.request.run
      <4>1. PICK y : y = [old.request EXCEPT !.at = "insert"]
        OBVIOUS
      <4>2. y \in Bench!Requests /\ y.at = "insert" /\ y.run = old.request.run
        BY <1>3, <4>1 DEF Bench!Requests
      <4>3. q = [y EXCEPT !.id = 0]
        BY <3>1, <4>1
      <4> QED BY <4>2, <4>3 DEF Bench!Requests
    <3>3. PICK t : t = [old EXCEPT !.request = q]
      OBVIOUS
    <3>4. t \in TabRecords /\ t.request = q
      BY <1>6, <3>2, <3>3
    <3>5. c4' = [c4 EXCEPT ![b] = t]
      BY <1>2, <1>11, <2>2, <3>1, <3>3 DEF Bench!Answer, Bench!Go
    <3>6. old.request.run \in Bench!Ids /\ c1[old.request.run].stage = "finished"
      BY <1>2, <1>3, <2>1, <2>2 DEF Bench!Run
    <3> QED BY <1>1, <2>1, <3>2, <3>4, <3>5, <3>6, BenchTab
  <2>3. CASE ~ (Bench!Run(b) \in Bench!Listed /\ c1[Bench!Run(b)].stage = "finished")
    <3>1. PICK t : t = [old EXCEPT !.request = Bench!Idle]
      OBVIOUS
    <3>2. t \in TabRecords /\ t.request = Bench!Idle
      BY <1>4, <1>6, <3>1
    <3>3. c4' = [c4 EXCEPT ![b] = t]
      BY <1>2, <1>11, <2>3, <3>1 DEF Bench!Answer
    <3> QED BY <1>1, <1>4, <2>1, <3>2, <3>3, BenchTab
  <2> QED BY <2>2, <2>3
<1>12. CASE Bench!Insert(b)
  <2>1. /\ c5' = Bench!With(c5, c7 + 1, old.request.run) /\ c7' = c7 + 1 /\ old.request.at = "insert"
        /\ UNCHANGED <<c1, c2, c3, c6, c8, c9>>
    BY <1>1, <1>2, <1>12, BenchMax DEF Bench!Insert, Bench!NextId, Bench!At, Bench!Run, Bench!thread
  <2>2. PICK n : n = c7 + 1
    OBVIOUS
  <2>3. PICK q : q = [old.request EXCEPT !.at = "write", !.id = n]
    OBVIOUS
  <2>4. q \in Bench!Requests /\ q.at = "write" /\ q.run = old.request.run /\ q.id = n
    <3>1. PICK y : y = [old.request EXCEPT !.at = "write"]
      OBVIOUS
    <3>2. y \in Bench!Requests /\ y.at = "write" /\ y.run = old.request.run
      BY <1>3, <3>1 DEF Bench!Requests
    <3>3. q = [y EXCEPT !.id = n] /\ n \in Nat
      BY <1>1, <2>2, <2>3, <3>1
    <3> QED BY <3>2, <3>3 DEF Bench!Requests
  <2>5. PICK t : t = [old EXCEPT !.request = q]
    OBVIOUS
  <2>6. t \in TabRecords /\ t.request = q
    BY <1>6, <2>4, <2>5
  <2>7. c4' = [c4 EXCEPT ![b] = t]
    BY <1>2, <1>12, <2>2, <2>3, <2>5 DEF Bench!Insert, Bench!Go, Bench!NextId
  <2>8. old.request.run \in Bench!Ids /\ c1[old.request.run].stage = "finished"
    BY <1>3, <2>1
  <2> QED BY <1>1, <2>1, <2>2, <2>4, <2>6, <2>7, <2>8, BenchTab
\* The run a request was about leaves the registry.
<1>13. ASSUME Bench!Delivered(b), old.request.at \in {"insert", "write"}
       PROVE  /\ \E t \in TabRecords : c4' = [c4 EXCEPT ![b] = t] /\ t.request = Bench!Idle
              /\ \E r \in Bench!Ids : ~ r \in Bench!Live /\ c1' = [c1 EXCEPT ![r].listed = FALSE]
  <2>1. PICK y : y = [old EXCEPT !.request = Bench!Idle]
    OBVIOUS
  <2>2. y \in TabRecords /\ y.request = Bench!Idle
    BY <1>4, <1>6, <2>1
  <2>3. PICK t : t = [y EXCEPT !.cookie = 0]
    OBVIOUS
  <2>4. t \in TabRecords /\ t.request = Bench!Idle
    BY <1>7, <2>2, <2>3
  <2>5. c4' = [c4 EXCEPT ![b] = t] /\ c1' = [c1 EXCEPT ![old.request.run].listed = FALSE]
    BY <1>2, <1>13, <2>1, <2>3 DEF Bench!Delivered, Bench!Run
  <2>6. old.request.run \in Bench!Ids /\ ~ old.request.run \in Bench!Live
    BY <1>3, <1>5, <1>13
  <2> QED BY <2>4, <2>5, <2>6
<1>14. CASE Bench!Write(b)
  <2>1. /\ c6' = Bench!With(c6, Bench!Writing(b), Bench!Run(b)) /\ Bench!At(b, "write")
        /\ UNCHANGED <<c2, c3, c5, c7, c8, c9>> /\ Bench!Delivered(b) /\ old.request.at = "write"
    BY <1>2, <1>14 DEF Bench!Write, Bench!thread, Bench!At, Bench!Writing
  <2>2. PICK t \in TabRecords : c4' = [c4 EXCEPT ![b] = t] /\ t.request = Bench!Idle
    BY <1>13, <2>1
  <2>3. \E r \in Bench!Ids : ~ r \in Bench!Live /\ c1' = [c1 EXCEPT ![r].listed = FALSE]
    BY <1>13, <2>1
  <2> QED BY <1>1, <1>4, <2>1, <2>2, <2>3, BenchTab
<1>15. CASE Bench!LosesIt(b)
  <2>1. /\ UNCHANGED <<c2, c3, c5, c6, c7, c8, c9>> /\ Bench!Delivered(b)
        /\ old.request.at \in {"insert", "write"}
    BY <1>2, <1>15 DEF Bench!LosesIt, Bench!thread, Bench!At
  <2>2. PICK t \in TabRecords : c4' = [c4 EXCEPT ![b] = t] /\ t.request = Bench!Idle
    BY <1>13, <2>1
  <2>3. \E r \in Bench!Ids : ~ r \in Bench!Live /\ c1' = [c1 EXCEPT ![r].listed = FALSE]
    BY <1>13, <2>1
  <2> QED BY <1>1, <1>4, <2>1, <2>2, <2>3, BenchTab
<1> QED BY <1>8, <1>9, <1>10, <1>11, <1>12, <1>14, <1>15 DEF Bench!TabStep

\* A process starts again.
LEMMA BenchRestart == ASSUME Bench!DeskInv, Bench!Restart PROVE Bench!DeskInv'
<1>1. /\ c1 \in Seq(Bench!RunRecords) /\ Len(c1) \in Nat /\ Bench!Ids = 1 .. Len(c1)
      /\ \A q \in Bench!Ids : c1[q] \in Bench!RunRecords
      /\ c4 \in [BenchSetup.browsers -> TabRecords] /\ c9 \in Nat
  BY DEF Bench!DeskInv, Bench!DeskTypeOK, Bench!Ids, TabRecords
<1>2. /\ c1' = [r \in Bench!Ids |-> [c1[r] EXCEPT !.listed = FALSE,
                                         !.stage = IF Bench!Done(r) THEN @ ELSE "dead"]]
      /\ c2' = [spreads |-> 0, feeder |-> 0] /\ c3' = BenchSetup.storedFee
      /\ c4' = [b \in BenchSetup.browsers |-> [Bench!NoTab EXCEPT !.cookie = c4[b].cookie]]
      /\ UNCHANGED <<c5, c6, c7, c8>> /\ c9' = c9 + 1
  BY DEF Bench!Restart
<1>3. ASSUME NEW r \in Bench!Ids
      PROVE  /\ c1'[r] \in Bench!RunRecords /\ c1'[r].fee = c1[r].fee
             /\ c1'[r].charged = c1[r].charged /\ c1'[r].alone = c1[r].alone
             /\ c1'[r].stage \in {"finished", "failed", "dead"}
  <2>1. PICK old : old = c1[r]
    OBVIOUS
  <2>2. PICK to : to = IF Bench!Done(r) THEN old.stage ELSE "dead"
    OBVIOUS
  <2>3. old \in Bench!RunRecords /\ to \in {"finished", "failed", "dead"}
    BY <1>1, <2>1, <2>2 DEF Bench!Done
  <2>4. PICK y : y = [old EXCEPT !.listed = FALSE]
    OBVIOUS
  <2>5. y \in Bench!RunRecords /\ y.fee = old.fee /\ y.charged = old.charged /\ y.alone = old.alone
    BY <2>3, <2>4 DEF Bench!RunRecords
  <2>6. PICK z : z = [y EXCEPT !.stage = to]
    OBVIOUS
  <2>7. z \in Bench!RunRecords /\ z.fee = old.fee /\ z.charged = old.charged /\ z.alone = old.alone
        /\ z.stage = to
    BY <2>3, <2>5, <2>6 DEF Bench!RunRecords, Bench!Stages
  <2>8. c1'[r] = z
    BY <1>2, <2>1, <2>2, <2>4, <2>6
  <2> QED BY <2>1, <2>3, <2>7, <2>8
<1>4. c1' \in Seq(Bench!RunRecords) /\ Bench!Ids' = Bench!Ids
  <2>1. c1' \in [1 .. Len(c1) -> Bench!RunRecords]
    BY <1>1, <1>2, <1>3
  <2>2. c1' \in Seq(Bench!RunRecords)
    BY <1>1, <2>1, SeqDef
  <2> QED BY <1>1, <2>1, <2>2 DEF Bench!Ids
<1>5. Bench!Live' = {}
  BY <1>3, <1>4 DEF Bench!Live, Bench!Done
<1>6. \A b \in BenchSetup.browsers : c4'[b] \in TabRecords /\ c4'[b].request = Bench!Idle
  <2> SUFFICES ASSUME NEW b \in BenchSetup.browsers
               PROVE  c4'[b] \in TabRecords /\ c4'[b].request = Bench!Idle
    OBVIOUS
  <2>1. PICK n : n = c4[b].cookie
    OBVIOUS
  <2>2. n \in Nat
    BY <1>1, <2>1 DEF TabRecords
  <2>3. c4'[b] = [Bench!NoTab EXCEPT !.cookie = n]
    BY <1>2, <2>1
  <2>4. Bench!Idle \in Bench!Requests
    BY DEF Bench!Idle, Bench!Requests
  <2> QED BY <2>2, <2>3, <2>4 DEF Bench!NoTab, TabRecords
<1>7. Bench!DeskTypeOK'
  <2>1. c4' \in [BenchSetup.browsers -> TabRecords]
    BY <1>2, <1>6
  <2>2. Len(c1') \in Nat
    BY <1>4
  <2>3. c2' \in [spreads : 0 .. Len(c1'), feeder : 0 .. Len(c1')]
    <3>1. 0 \in 0 .. Len(c1')
      BY <2>2
    <3>2. c2' = [spreads |-> 0, feeder |-> 0]
      BY <1>2
    <3> QED BY <3>1, <3>2
  <2>4. c5' \in [DOMAIN c5' -> Bench!Ids'] /\ c6' \in [DOMAIN c6' -> Bench!Ids']
    BY <1>2, <1>4 DEF Bench!DeskInv, Bench!DeskTypeOK
  <2>5. c9' \in Nat
    <3>1. c9' = c9 + 1
      BY <1>2
    <3> QED BY <1>1, <3>1
  <2>6. /\ c3' \in BenchSetup.fees \cup {BenchSetup.storedFee}
        /\ c7' \in Nat /\ DOMAIN c5' \cup DOMAIN c6' \subseteq 1 .. c7' /\ c8' \in Int
    BY <1>2 DEF Bench!DeskInv, Bench!DeskTypeOK
  <2> QED BY <1>4, <2>1, <2>3, <2>4, <2>5, <2>6 DEF Bench!DeskTypeOK, TabRecords
<1>8. Bench!AsksForARun' /\ Bench!WritesItsOwn'
  <2>1. \A b \in BenchSetup.browsers : c4'[b].request.at = "idle"
    BY <1>6 DEF Bench!Idle
  <2> QED BY <2>1 DEF Bench!AsksForARun, Bench!WritesItsOwn, Bench!At
<1>9. Bench!FileIsOfItsRecord' /\ Bench!RunningIsListed' /\ Bench!AloneFindsItsOwn'
  BY <1>2, <1>5 DEF Bench!DeskInv, Bench!FileIsOfItsRecord, Bench!RunningIsListed, Bench!AloneFindsItsOwn
<1>10. Bench!AloneIsItsOwn'
  BY <1>3, <1>4 DEF Bench!DeskInv, Bench!AloneIsItsOwn
<1> QED BY <1>7, <1>8, <1>9, <1>10 DEF Bench!DeskInv

\* A row goes, and no file with it.
LEMMA BenchDelete ==
  ASSUME Bench!DeskInv, NEW id, Bench!Delete(id) PROVE Bench!DeskInv'
<1>1. /\ c5' = [i \in DOMAIN c5 \ {id} |-> c5[i]] /\ UNCHANGED <<c1, c2, c3, c4, c6, c7, c8>>
      /\ c9' = c9 + 1
  BY DEF Bench!Delete, Bench!thread
<1>2. /\ Bench!Ids' = Bench!Ids /\ Bench!Live' = Bench!Live /\ Bench!Listed' = Bench!Listed
  BY <1>1 DEF Bench!Ids, Bench!Live, Bench!Done, Bench!Listed
<1>3. /\ DOMAIN c5' \subseteq DOMAIN c5 /\ \A i \in DOMAIN c5' : c5'[i] = c5[i]
      /\ c5' = [i \in DOMAIN c5' |-> c5'[i]]
  BY <1>1
<1>4. Bench!DeskTypeOK'
  BY <1>1, <1>2, <1>3 DEF Bench!DeskInv, Bench!DeskTypeOK
<1>5. Bench!AsksForARun' /\ Bench!AloneFindsItsOwn' /\ Bench!AloneIsItsOwn' /\ Bench!RunningIsListed'
  BY <1>1, <1>2 DEF Bench!DeskInv, Bench!AsksForARun, Bench!AloneFindsItsOwn, Bench!AloneIsItsOwn,
     Bench!RunningIsListed, Bench!At, Bench!Run
<1>6. Bench!WritesItsOwn' /\ Bench!FileIsOfItsRecord'
  BY <1>1, <1>3 DEF Bench!DeskInv, Bench!WritesItsOwn, Bench!FileIsOfItsRecord, Bench!At, Bench!Run,
     Bench!Writing
<1> QED BY <1>4, <1>5, <1>6 DEF Bench!DeskInv

LEMMA BenchStands ==
  ASSUME Bench!DeskInv, UNCHANGED <<c1, c2, c3, c4, c5, c6, c7>>, c8' \in Int, c9' = c9
  PROVE  Bench!DeskInv'
<1>1. /\ Bench!Ids' = Bench!Ids /\ Bench!Live' = Bench!Live /\ Bench!Listed' = Bench!Listed
  BY DEF Bench!Ids, Bench!Live, Bench!Done, Bench!Listed
<1>2. Bench!DeskTypeOK'
  BY <1>1 DEF Bench!DeskInv, Bench!DeskTypeOK
<1>3. Bench!AsksForARun' /\ Bench!AloneFindsItsOwn' /\ Bench!AloneIsItsOwn' /\ Bench!RunningIsListed'
  BY <1>1 DEF Bench!DeskInv, Bench!AsksForARun, Bench!AloneFindsItsOwn, Bench!AloneIsItsOwn,
     Bench!RunningIsListed, Bench!At, Bench!Run
<1>4. Bench!WritesItsOwn' /\ Bench!FileIsOfItsRecord'
  BY DEF Bench!DeskInv, Bench!WritesItsOwn, Bench!FileIsOfItsRecord, Bench!At, Bench!Run, Bench!Writing
<1> QED BY <1>2, <1>3, <1>4 DEF Bench!DeskInv

LEMMA BenchStarts == ASSUME Bench!DeskInit PROVE Bench!DeskInv
<1>1. c1 = <<>> /\ Bench!Ids = {} /\ c1 \in Seq(Bench!RunRecords) /\ Len(c1) = 0
  BY DEF Bench!DeskInit, Bench!Ids
<1>2. \A b \in BenchSetup.browsers : c4[b].request.at = "idle" /\ c4[b] \in TabRecords
  <2>1. Bench!NoTab \in TabRecords /\ Bench!NoTab.request.at = "idle"
    BY DEF Bench!NoTab, Bench!Idle, Bench!Requests, TabRecords
  <2> QED BY <2>1 DEF Bench!DeskInit
<1>3. Bench!DeskTypeOK
  <2>1. c2 \in [spreads : 0 .. Len(c1), feeder : 0 .. Len(c1)]
    BY <1>1 DEF Bench!DeskInit
  <2>2. c4 \in [BenchSetup.browsers -> TabRecords]
    BY <1>2 DEF Bench!DeskInit
  <2> QED BY <1>1, <2>1, <2>2 DEF Bench!DeskInit, Bench!DeskTypeOK, TabRecords
<1>4. Bench!AsksForARun /\ Bench!WritesItsOwn
  BY <1>2 DEF Bench!AsksForARun, Bench!WritesItsOwn, Bench!At
<1>5. /\ Bench!AloneFindsItsOwn /\ Bench!FileIsOfItsRecord /\ Bench!AloneIsItsOwn
      /\ Bench!RunningIsListed
  BY <1>1 DEF Bench!DeskInit, Bench!AloneFindsItsOwn, Bench!FileIsOfItsRecord, Bench!AloneIsItsOwn,
     Bench!RunningIsListed, Bench!Live
<1> QED BY <1>3, <1>4, <1>5 DEF Bench!DeskInv

\* Every step of the page keeps what the page relies on.
LEMMA BenchInductive == ASSUME Bench!DeskInv, Bench!DeskNext PROVE Bench!DeskInv'
<1>1. ASSUME NEW r \in Bench!Ids, Bench!ThreadStep(r) PROVE Bench!DeskInv'
  BY <1>1, BenchRuns
<1>2. ASSUME NEW b \in BenchSetup.browsers, Bench!TabStep(b) PROVE Bench!DeskInv'
  BY <1>2, BenchTabs
<1>3. ASSUME NEW id, Bench!Delete(id) PROVE Bench!DeskInv'
  BY <1>3, BenchDelete
<1>4. CASE Bench!Tick
  <2>1. c8 \in Int
    BY DEF Bench!DeskInv, Bench!DeskTypeOK
  <2> QED BY <1>4, <2>1, BenchStands DEF Bench!Tick
<1>5. CASE Bench!Restart
  BY <1>5, BenchRestart
<1> QED BY <1>1, <1>2, <1>3, <1>4, <1>5 DEF Bench!DeskNext

----------------------------------------------------------------------------
(* Pairs trading *)

LEMMA PairStands ==
  ASSUME Pair!PairsInv, UNCHANGED <<c2, c4, c5, c6>> PROVE Pair!PairsInv'
BY DEF Pair!PairsInv, Pair!PairsTypeOK, Pair!NullMatchesTheTest, Pair!LatchOutlastsTheStop,
       Pair!StandsDownAfterAStop, Pair!ClosesFirst, Pair!StoppedAt, Pair!CalmAt, Pair!LatchedSince,
       Pair!HeldBefore

LEMMA PairStarts == ASSUME Pair!PairsInit PROVE Pair!PairsInv
<1>1. c4 = <<>> /\ c5 = <<>> /\ c6 = FALSE /\ DOMAIN c5 = {}
  BY DEF Pair!PairsInit
<1>2. c2.used = c2.asked
  BY DEF Pair!PairsInit, Pair!NoTest
<1>3. \A V : <<>> \in Seq(V)
  BY EmptySeq
<1> QED BY <1>1, <1>2, <1>3
    DEF Pair!PairsInv, Pair!PairsTypeOK, Pair!NullMatchesTheTest, Pair!LatchOutlastsTheStop,
        Pair!StandsDownAfterAStop, Pair!ClosesFirst

\* A null of another regression is never used.
LEMMA PairLooksUp ==
  ASSUME NEW d, Pair!Lookup(d) PROVE c2'.used = c2'.asked
<1>1. CASE Pair!Cached(d) # {}
  <2>1. (CHOOSE e \in Pair!Cached(d) : TRUE) \in Pair!Cached(d)
    BY <1>1
  <2> QED BY <1>1, <2>1 DEF Pair!Lookup, Pair!Cached, Pair!CacheKey, Pair!Key
<1>2. CASE Pair!Cached(d) = {}
  BY <1>2 DEF Pair!Lookup
<1> QED BY <1>1, <1>2

\* One more bar, and what it makes of the position and the latch: a stop closes and latches,
\* and a latch without a position takes none and stays until the bar is calm.
LEMMA PairTakesBar ==
  ASSUME Pair!PairsAssumption, Pair!PairsInv, NEW z, z \in PairSetup.scores \cup {PairSetup.noScore},
         Pair!Bar(z)
  PROVE  LET p == Pair!Position
             calm == z # PairSetup.noScore /\ Pair!Abs(z) < PairSetup.zEntry
         IN  \E w \in {-1, 0, 1} :
               /\ c4' = Append(c4, z) /\ c5' = Append(c5, w) /\ c6' \in BOOLEAN /\ c2' = c2
               /\ p \in {-1, 0, 1}
               /\ p # 0 /\ w # 0 => w = p
               /\ p # 0 /\ z # PairSetup.noScore /\ Pair!Abs(z) >= PairSetup.zStop => w = 0 /\ c6'
               /\ c6 /\ p = 0 => w = 0 /\ (c6' \/ calm)
<1> DEFINE p == Pair!Position
           a == Pair!Abs(z)
           latch == c6 /\ ~Pair!Unlatched(z)
           calm == z # PairSetup.noScore /\ a < PairSetup.zEntry
<1>0. /\ PairSetup.scores \subseteq Int /\ PairSetup.noScore \notin PairSetup.scores
      /\ PairSetup.zEntry \in Int /\ PairSetup.zExit \in Int /\ PairSetup.zStop \in Int
  BY DEF Pair!PairsAssumption
<1>1. c5 \in Seq({-1, 0, 1}) /\ c6 \in BOOLEAN
  BY DEF Pair!PairsInv, Pair!PairsTypeOK
<1>2. p \in {-1, 0, 1}
  <2>1. c5 # <<>> => Len(c5) \in DOMAIN c5
    BY <1>1, LenProperties, EmptySeq
  <2>2. \A i \in DOMAIN c5 : c5[i] \in {-1, 0, 1}
    BY <1>1, ElementsOf
  <2> QED BY <2>1, <2>2 DEF Pair!Position
<1>3. c4' = Append(c4, z) /\ c2' = c2
  BY DEF Pair!Bar
<1>4. CASE z = PairSetup.noScore
  <2>1. c5' = Append(c5, p) /\ c6' = c6
    BY <1>4 DEF Pair!Bar
  <2> QED BY <1>1, <1>2, <1>3, <1>4, <2>1
<1>5. CASE z # PairSetup.noScore /\ p = 0
  <2>1. z \in Int
    BY <1>0, <1>5
  <2>2. c5' = Append(c5, Pair!Entered(z, latch)) /\ c6' = latch
    BY <1>5 DEF Pair!Bar
  <2>3. Pair!Entered(z, latch) \in {-1, 0, 1} /\ (latch => Pair!Entered(z, latch) = 0)
    BY DEF Pair!Entered
  <2>4. a < PairSetup.zEntry => Pair!Entered(z, latch) = 0
    BY <1>0, <2>1 DEF Pair!Entered, Pair!Abs
  <2>5. c6 => latch \/ a < PairSetup.zEntry
    BY DEF Pair!Unlatched, Pair!Released
  <2> HIDE DEF p, a, latch
  <2>6. c6 => Pair!Entered(z, latch) = 0 /\ (c6' \/ a < PairSetup.zEntry)
    BY <2>2, <2>3, <2>4, <2>5
  <2>7. c6' \in BOOLEAN
    BY <1>1, <2>2 DEF latch
  <2> QED BY <1>2, <1>3, <1>5, <2>2, <2>3, <2>6, <2>7 DEF p, a
<1>6. CASE z # PairSetup.noScore /\ p # 0 /\ a >= PairSetup.zStop
  <2>1. c5' = Append(c5, 0) /\ c6' = TRUE
    BY <1>6 DEF Pair!Bar
  <2> QED BY <1>2, <1>3, <1>6, <2>1
<1>7. CASE z # PairSetup.noScore /\ p # 0 /\ ~(a >= PairSetup.zStop)
  <2>1. PICK w \in {0, p} : c5' = Append(c5, w) /\ c6' = c6
    BY <1>7 DEF Pair!Bar
  <2> QED BY <1>1, <1>2, <1>3, <1>7, <2>1
<1> QED BY <1>4, <1>5, <1>6, <1>7

LEMMA PairGoesOn ==
  ASSUME Pair!PairsAssumption, Pair!PairsInv, NEW z, z \in PairSetup.scores \cup {PairSetup.noScore},
         Pair!Bar(z)
  PROVE  Pair!PairsInv'
<1> DEFINE Z == PairSetup.scores \cup {PairSetup.noScore}
           p == Pair!Position
           calm == z # PairSetup.noScore /\ Pair!Abs(z) < PairSetup.zEntry
<1>1. PICK w \in {-1, 0, 1} :
               /\ c4' = Append(c4, z) /\ c5' = Append(c5, w) /\ c6' \in BOOLEAN /\ c2' = c2
               /\ p \in {-1, 0, 1}
               /\ p # 0 /\ w # 0 => w = p
               /\ p # 0 /\ z # PairSetup.noScore /\ Pair!Abs(z) >= PairSetup.zStop => w = 0 /\ c6'
               /\ c6 /\ p = 0 => w = 0 /\ (c6' \/ calm)
  BY PairTakesBar
<1>n. PICK n \in Nat : Len(c5) = n
  BY LenProperties DEF Pair!PairsInv, Pair!PairsTypeOK
<1>2. c4 \in Seq(Z) /\ c5 \in Seq({-1, 0, 1}) /\ Len(c4) = n
  BY <1>n DEF Pair!PairsInv, Pair!PairsTypeOK
<1>3. /\ c5' \in Seq({-1, 0, 1}) /\ n \in Nat /\ Len(c5') = n + 1
      /\ DOMAIN c5 = 1..n /\ DOMAIN c5' = 1..n + 1
      /\ c5'[n + 1] = w /\ \A i \in 1..n : c5'[i] = c5[i]
  BY <1>1, <1>2, <1>n, AppendEnds
<1>4. c4' \in Seq(Z) /\ Len(c4') = n + 1 /\ c4'[n + 1] = z /\ \A i \in 1..n : c4'[i] = c4[i]
  BY <1>1, <1>2, AppendEnds
<1>5. p = IF n = 0 THEN 0 ELSE c5[n]
  BY <1>2, <1>n, EmptySeq DEF Pair!Position
<1> HIDE DEF Z, p
<1>6. /\ \A t \in 1..n : Pair!HeldBefore(t)' = Pair!HeldBefore(t)
      /\ Pair!HeldBefore(n + 1)' = p
  BY <1>3, <1>5 DEF Pair!HeldBefore
<1>7. /\ \A t \in 1..n : (Pair!StoppedAt(t)' <=> Pair!StoppedAt(t)) /\ (Pair!CalmAt(t)' <=> Pair!CalmAt(t))
      /\ Pair!StoppedAt(n + 1)' <=> p # 0 /\ z # PairSetup.noScore /\ Pair!Abs(z) >= PairSetup.zStop
      /\ Pair!CalmAt(n + 1)' <=> calm
  BY <1>4, <1>6 DEF Pair!StoppedAt, Pair!CalmAt
<1>8. \A t \in 1..n + 1 : t \in 1..n \/ t = n + 1
  BY <1>3
<1>9. \A s \in 1..n : Pair!StoppedAt(s) =>
        \/ c6 /\ \A t \in s..n : c5[t] = 0
        \/ \E u \in (s + 1)..n : Pair!CalmAt(u)
  BY <1>n, <1>3 DEF Pair!PairsInv, Pair!LatchOutlastsTheStop, Pair!LatchedSince
<1>10. \A s \in 1..n : c6 /\ (\A t \in s..n : c5[t] = 0) => c6 /\ p = 0
  BY <1>3, <1>5
<1>11. Pair!PairsTypeOK'
  BY <1>1, <1>3, <1>4 DEF Pair!PairsTypeOK, Z
<1>12. Pair!NullMatchesTheTest'
  BY <1>1 DEF Pair!PairsInv, Pair!NullMatchesTheTest
<1>13. Pair!LatchOutlastsTheStop'
  <2> SUFFICES ASSUME NEW s \in 1..n + 1, Pair!StoppedAt(s)'
      PROVE  \/ c6' /\ \A t \in s..n + 1 : c5'[t] = 0
             \/ \E u \in (s + 1)..n + 1 : Pair!CalmAt(u)'
    BY <1>3 DEF Pair!LatchOutlastsTheStop, Pair!LatchedSince
  <2>1. CASE s = n + 1
    <3>1. \A t \in s..n + 1 : t = n + 1
      BY <1>3, <2>1
    <3> QED BY <1>1, <1>3, <1>7, <2>1, <3>1
  <2>2. CASE s \in 1..n /\ \E u \in (s + 1)..n : Pair!CalmAt(u)
    <3>1. PICK u \in (s + 1)..n : Pair!CalmAt(u)
      BY <2>2
    <3>2. u \in 1..n /\ u \in (s + 1)..n + 1
      BY <1>3, <2>2
    <3> QED BY <1>7, <3>1, <3>2
  <2>3. CASE s \in 1..n /\ c6 /\ \A t \in s..n : c5[t] = 0
    <3>1. w = 0 /\ (c6' \/ calm)
      BY <1>1, <1>10, <2>3
    <3>2. n + 1 \in (s + 1)..n + 1
      BY <1>3, <2>3
    <3>3. \A t \in s..n + 1 : t \in s..n \/ t = n + 1
      BY <1>3, <2>3
    <3>4. \A t \in s..n : t \in 1..n
      BY <1>3, <2>3
    <3>5. \A t \in s..n + 1 : c5'[t] = 0
      BY <1>3, <2>3, <3>1, <3>3, <3>4
    <3> QED BY <1>7, <3>1, <3>2, <3>5
  <2> QED BY <1>7, <1>8, <1>9, <2>1, <2>2, <2>3
<1>14. Pair!StandsDownAfterAStop'
  <2> SUFFICES ASSUME NEW s \in 1..n + 1, NEW t \in 1..n + 1, s < t, Pair!StoppedAt(s)', c5'[t] # 0,
                      Pair!HeldBefore(t)' = 0
      PROVE  \E u \in (s + 1)..(t - 1) : Pair!CalmAt(u)'
    BY <1>3 DEF Pair!StandsDownAfterAStop
  <2>1. s \in 1..n
    BY <1>3
  <2>2. \A u \in (s + 1)..(t - 1) : u \in 1..n
    BY <1>3
  <2>3. Pair!StoppedAt(s)
    BY <1>7, <2>1
  <2>4. CASE t \in 1..n
    <3>1. c5[t] # 0 /\ Pair!HeldBefore(t) = 0
      BY <1>3, <1>6, <2>4
    <3>2. \E u \in (s + 1)..(t - 1) : Pair!CalmAt(u)
      BY <1>3, <2>1, <2>3, <2>4, <3>1 DEF Pair!PairsInv, Pair!StandsDownAfterAStop
    <3> QED BY <1>7, <2>2, <3>2
  <2>5. CASE t = n + 1
    <3>1. p = 0 /\ w # 0
      BY <1>3, <1>6, <2>5
    <3>2. \E u \in (s + 1)..n : Pair!CalmAt(u)
      BY <1>1, <1>9, <1>10, <2>1, <2>3, <3>1
    <3>3. t - 1 = n
      BY <1>3, <2>5
    <3> QED BY <1>7, <2>2, <3>2, <3>3
  <2> QED BY <1>8, <2>4, <2>5
<1>15. Pair!ClosesFirst'
  <2> SUFFICES ASSUME NEW t \in 1..n + 1, Pair!HeldBefore(t)' # 0, c5'[t] # 0
      PROVE  c5'[t] = Pair!HeldBefore(t)'
    BY <1>3 DEF Pair!ClosesFirst
  <2>1. CASE t \in 1..n
    BY <1>3, <1>6, <2>1 DEF Pair!PairsInv, Pair!ClosesFirst
  <2>2. CASE t = n + 1
    BY <1>1, <1>3, <1>6, <2>2
  <2> QED BY <1>8, <2>1, <2>2
<1> QED BY <1>11, <1>12, <1>13, <1>14, <1>15 DEF Pair!PairsInv

LEMMA PairInductive ==
  ASSUME Pair!PairsAssumption, Pair!PairsInv, Pair!PairsNext PROVE Pair!PairsInv'
<1>1. CASE Pair!Fit
  <2>1. PICK d : Pair!Lookup(d)
    BY <1>1 DEF Pair!Fit
  <2>2. c2'.used = c2'.asked
    BY <2>1, PairLooksUp
  <2>3. c4' = c4 /\ c5' = c5 /\ c6' = c6
    BY <1>1 DEF Pair!Fit
  <2> QED BY <2>2, <2>3
      DEF Pair!PairsInv, Pair!PairsTypeOK, Pair!NullMatchesTheTest, Pair!LatchOutlastsTheStop,
          Pair!StandsDownAfterAStop, Pair!ClosesFirst, Pair!StoppedAt, Pair!CalmAt, Pair!LatchedSince,
          Pair!HeldBefore
<1>2. CASE \E z \in PairSetup.scores \cup {PairSetup.noScore} : Pair!Bar(z)
  BY <1>2, PairGoesOn
<1> QED BY <1>1, <1>2 DEF Pair!PairsNext

\* What is charged on some bars is the sum of what is charged on each.
LEMMA PairAddsUp ==
  ASSUME NEW D, IsFiniteSet(D), NEW f \in [D -> Int], \A t \in D : f[t] = Pair!Charge(t),
         NEW h, Adds(D, f, h), NEW S \in SUBSET D
  PROVE  Pair!Charged(S) = h[S]
<1> DEFINE g == [t \in S |-> Pair!Charge(t)]
           Sums(k) == k = [s \in SUBSET S |-> IF s = {} THEN 0 ELSE Pair!Charge(Picked(s)) + k[s \ {Picked(s)}]]
<1>1. IsFiniteSet(S) /\ g \in [S -> Int] /\ \A t \in S : f[t] = g[t]
  <2>1. \A t \in S : Pair!Charge(t) = f[t] /\ f[t] \in Int
    OBVIOUS
  <2> QED BY <2>1, FS_Subset
<1>2. \A k : Sums(k) <=> Adds(S, g, k)
  <2>1. \A s \in SUBSET S : s # {} => g[Picked(s)] = Pair!Charge(Picked(s))
    BY DEF Picked
  <2> QED BY <2>1, Zenon DEF Adds
<1>3. Pair!Charged(S) = (CHOOSE k : Sums(k))[S]
  BY DEF Pair!Charged, Pair!MapThenSumSet, Pair!MapThenFoldSet, Picked
<1>4. (CHOOSE k : Sums(k)) = CHOOSE k : Adds(S, g, k)
  BY <1>2
<1>5. PICK k : Adds(S, g, k)
  BY <1>1, SumExists
<1> HIDE DEF g
<1>6. SumOf(g) = k[S] /\ SumOf(g) = (CHOOSE m : Adds(S, g, m))[S]
  BY <1>1, <1>5, SumOfAll DEF SumOf
<1>7. h[S] = k[S]
  BY <1>1, <1>5, SumAgrees
<1> QED BY <1>3, <1>4, <1>6, <1>7

\* Where a trade ends.
LEMMA PairRun ==
  ASSUME Pair!PairsInv, NEW s \in Pair!Starts
  PROVE  LET e == Pair!RunEnd(s)
             n == Len(c5)
         IN  /\ n \in Nat /\ s \in 1..n /\ e \in s..n /\ Pair!HeldBefore(s) = 0 /\ c5[s] \in {-1, 1}
             /\ \A u \in s..e : c5[u] = c5[s]
             /\ e < n => e + 1 \in 1..n /\ c5[e + 1] = 0
<1>1. c5 \in Seq({-1, 0, 1})
  BY DEF Pair!PairsInv, Pair!PairsTypeOK
<1>n. PICK n \in Nat : Len(c5) = n /\ DOMAIN c5 = 1..n
  BY <1>1, LenProperties
<1>2. \A i \in 1..n : c5[i] \in {-1, 0, 1}
  BY <1>1, <1>n, ElementsOf
<1>3. s \in 1..n /\ c5[s] # 0 /\ c5[s] # Pair!HeldBefore(s)
  BY <1>n DEF Pair!Starts
<1>4. Pair!HeldBefore(s) = 0
  BY <1>3, <1>n DEF Pair!PairsInv, Pair!ClosesFirst
<1> DEFINE T == {t \in s..n : \A u \in s..t : c5[u] = c5[s]}
           e == Pair!RunEnd(s)
<1>5. e = Pair!Max(T)
  BY <1>n DEF Pair!RunEnd
<1>6. s \in T /\ T \subseteq Int /\ T \subseteq s..n
  <2>1. \A u \in s..s : u = s
    BY <1>3
  <2> QED BY <1>3, <2>1
<1>7. IsFiniteSet(T)
  <2>1. IsFiniteSet(s..n)
    BY <1>3, FS_Interval
  <2> QED BY <2>1, FS_Subset
<1> HIDE DEF T
<1>8. e \in T /\ \A k \in T : k <= e
  <2>1. \E m \in T : \A k \in T : k <= m
    BY <1>6, <1>7, Greatest
  <2> QED BY <1>5, <2>1 DEF Pair!Max
<1>9. e \in s..n /\ \A u \in s..e : c5[u] = c5[s]
  BY <1>8 DEF T
<1> HIDE DEF e
<1>10. ASSUME e < n PROVE e + 1 \in 1..n /\ c5[e + 1] = 0
  <2>1. e \in Int /\ s <= e /\ e + 1 \in 1..n /\ e + 1 # 1
    BY <1>3, <1>9, <1>10
  <2>2. c5[e + 1] # c5[s]
    <3> SUFFICES ASSUME c5[e + 1] = c5[s] PROVE FALSE
      OBVIOUS
    <3>1. \A u \in s..(e + 1) : u \in s..e \/ u = e + 1
      BY <1>3, <2>1
    <3>2. e + 1 \in T
      BY <1>3, <1>9, <2>1, <3>1 DEF T
    <3> QED BY <1>8, <2>1, <3>2
  <2>3. Pair!HeldBefore(e + 1) = c5[s]
    <3>1. (e + 1) - 1 = e /\ e \in s..e
      BY <1>3, <2>1
    <3> QED BY <1>9, <2>1, <3>1 DEF Pair!HeldBefore
  <2> QED BY <1>3, <1>n, <2>1, <2>2, <2>3 DEF Pair!PairsInv, Pair!ClosesFirst
<1> QED BY <1>2, <1>3, <1>4, <1>9, <1>10, <1>n DEF e

\* The bars of a trade follow each other: its start, the bars that keep the position, which
\* are charged nothing, and unless the series ends first the bar that closes it.
LEMMA PairTrade ==
  ASSUME Pair!PairsInv, NEW s \in Pair!Starts
  PROVE  LET e == Pair!RunEnd(s)
             x == Pair!Exit(s)
             n == Len(c5)
         IN  /\ x \in s..n /\ x = IF e < n THEN e + 1 ELSE n
             /\ s..x \subseteq 1..n /\ Pair!Max(s..x) = x
             /\ \A t \in (s + 1)..e : Pair!HeldBefore(t) = c5[t] /\ Pair!Charge(t) = 0
             /\ s < n => Pair!Charge(s) = 1
             /\ e < n => Pair!HeldBefore(x) = c5[s] /\ (x < n => Pair!Charge(x) = 1)
<1> DEFINE e == Pair!RunEnd(s)
           x == Pair!Exit(s)
<1>n. PICK n \in Nat : Len(c5) = n
  BY LenProperties DEF Pair!PairsInv, Pair!PairsTypeOK
<1>1. /\ s \in 1..n /\ e \in s..n /\ Pair!HeldBefore(s) = 0 /\ c5[s] \in {-1, 1}
      /\ \A u \in s..e : c5[u] = c5[s]
      /\ e < n => e + 1 \in 1..n /\ c5[e + 1] = 0
  BY <1>n, PairRun
<1>2. x = IF e < n THEN e + 1 ELSE n
  BY <1>n DEF Pair!Exit, Pair!WithClosingBar
<1> HIDE DEF e, x
<1>3. x \in s..n /\ s..x \subseteq 1..n
  BY <1>1, <1>2
<1>4. Pair!Max(s..x) = x
  <2>1. x \in s..x /\ \A k \in s..x : k <= x /\ (k >= x => k = x)
    BY <1>1, <1>3
  <2> QED BY <2>1, <1>3, <1>1 DEF Pair!Max
<1>5. ASSUME NEW t \in (s + 1)..e PROVE Pair!HeldBefore(t) = c5[t] /\ Pair!Charge(t) = 0
  <2>1. t \in s..e /\ t - 1 \in s..e /\ t # 1
    BY <1>1
  <2>2. c5[t] = c5[s] /\ c5[t - 1] = c5[s] /\ c5[s] \in Int
    BY <1>1, <2>1
  <2>3. Pair!HeldBefore(t) = c5[t] /\ c5[t] - c5[t] = 0
    BY <2>1, <2>2 DEF Pair!HeldBefore
  <2> QED BY <2>2, <2>3 DEF Pair!Charge, Pair!Abs
<1>6. s < n => Pair!Charge(s) = 1
  BY <1>1, <1>n DEF Pair!Charge, Pair!Abs
<1>7. ASSUME e < n PROVE Pair!HeldBefore(x) = c5[s] /\ (x < n => Pair!Charge(x) = 1)
  <2>1. x = e + 1 /\ x - 1 = e /\ x # 1 /\ e \in s..e /\ c5[x] = 0
    BY <1>1, <1>2, <1>7
  <2>2. Pair!HeldBefore(x) = c5[s]
    BY <1>1, <2>1 DEF Pair!HeldBefore
  <2>3. x < n => Pair!Charge(x) = Pair!Abs(0 - c5[s])
    BY <1>n, <1>3, <1>1, <2>1, <2>2 DEF Pair!Charge
  <2> QED BY <1>1, <2>2, <2>3 DEF Pair!Abs
<1> QED BY <1>2, <1>3, <1>4, <1>5, <1>6, <1>7, <1>n DEF e, x

\* What a bar outside every trade is charged.
LEMMA PairOutside ==
  ASSUME Pair!PairsInv, NEW t \in DOMAIN c5, Pair!Charge(t) # 0
  PROVE  \E s \in Pair!Starts : t \in s..Pair!Exit(s)
<1>0. c5 \in Seq({-1, 0, 1})
  BY DEF Pair!PairsInv, Pair!PairsTypeOK
<1>n. PICK n \in Nat : Len(c5) = n /\ DOMAIN c5 = 1..n
  BY <1>0, LenProperties
<1>1. t \in 1..n /\ t # n /\ c5[t] # Pair!HeldBefore(t) /\ \A i \in 1..n : c5[i] \in {-1, 0, 1}
  <2>1. \A i \in 1..n : c5[i] \in {-1, 0, 1}
    BY <1>0, <1>n, ElementsOf
  <2>2. t \in 1..n /\ t # n
    BY <1>n DEF Pair!Charge
  <2>3. Pair!Charge(t) = Pair!Abs(c5[t] - Pair!HeldBefore(t))
    BY <1>n, <2>2 DEF Pair!Charge
  <2>4. c5[t] # Pair!HeldBefore(t)
    <3> SUFFICES ASSUME c5[t] = Pair!HeldBefore(t) PROVE FALSE
      OBVIOUS
    <3>1. c5[t] - Pair!HeldBefore(t) = 0
      BY <2>1, <2>2
    <3> QED BY <2>3, <3>1 DEF Pair!Abs
  <2> QED BY <2>1, <2>2, <2>4
<1>2. CASE c5[t] # 0
  <2>1. t \in Pair!Starts
    BY <1>1, <1>2 DEF Pair!Starts
  <2>2. Pair!Exit(t) \in t..n
    BY <1>n, <2>1, PairTrade
  <2> QED BY <1>1, <2>1, <2>2
<1>3. CASE c5[t] = 0
  <2>1. t # 1 /\ t - 1 \in 1..n /\ Pair!HeldBefore(t) = c5[t - 1] /\ c5[t - 1] # 0
    BY <1>1, <1>3 DEF Pair!HeldBefore
  <2> DEFINE T == {s \in 1..(t - 1) : \A u \in s..(t - 1) : c5[u] = c5[t - 1]}
  <2>2. T # {} /\ T \subseteq Nat
    <3>1. \A u \in (t - 1)..(t - 1) : u = t - 1
      BY <2>1
    <3>2. t - 1 \in T
      BY <2>1, <3>1
    <3> QED BY <3>2
  <2>3. PICK s \in T : \A k \in T : s <= k
    <3> HIDE DEF T
    <3> QED BY <2>2, Least
  <2>4. s \in 1..(t - 1) /\ s \in 1..n /\ (\A u \in s..(t - 1) : c5[u] = c5[t - 1]) /\ c5[s] = c5[t - 1]
    <3>1. s \in s..(t - 1)
      BY <2>1
    <3> QED BY <1>1, <2>1, <3>1
  <2>5. Pair!HeldBefore(s) # c5[s]
    <3>1. CASE s = 1
      BY <2>1, <2>4, <3>1 DEF Pair!HeldBefore
    <3>2. CASE s # 1
      <4> SUFFICES ASSUME c5[s - 1] = c5[t - 1] PROVE FALSE
        BY <2>4, <3>2 DEF Pair!HeldBefore
      <4>1. \A u \in (s - 1)..(t - 1) : u = s - 1 \/ u \in s..(t - 1)
        BY <2>1, <2>4
      <4>2. s - 1 \in 1..(t - 1)
        BY <1>1, <2>4, <3>2
      <4>3. s - 1 \in T
        BY <2>4, <4>1, <4>2
      <4> QED BY <2>3, <2>4, <4>3
    <3> QED BY <3>1, <3>2
  <2>6. s \in Pair!Starts
    BY <1>n, <2>1, <2>4, <2>5 DEF Pair!Starts
  <2> DEFINE e == Pair!RunEnd(s)
  <2>7. /\ e \in s..n /\ \A u \in s..e : c5[u] = c5[s]
        /\ e < n => c5[e + 1] = 0
    BY <1>n, <2>6, PairRun
  <2>8. Pair!Exit(s) = IF e < n THEN e + 1 ELSE n
    BY <1>n, <2>6, PairTrade
  <2> HIDE DEF e, T
  <2>9. e = t - 1
    <3>1. ~(e >= t)
      BY <1>1, <1>3, <2>1, <2>4, <2>7
    <3>2. ~(e < t - 1)
      <4> SUFFICES ASSUME e < t - 1 PROVE FALSE
        OBVIOUS
      <4>1. e < n /\ e + 1 \in s..(t - 1)
        BY <1>1, <2>1, <2>4, <2>7
      <4> QED BY <2>1, <2>4, <2>7, <4>1
    <3> QED BY <1>1, <2>1, <2>7, <3>1, <3>2
  <2>10. Pair!Exit(s) = t
    BY <1>1, <2>1, <2>8, <2>9
  <2> QED BY <1>1, <2>4, <2>6, <2>10
<1> QED BY <1>2, <1>3

\* Trades have no bar in common.
LEMMA PairApart ==
  ASSUME Pair!PairsInv, NEW r \in Pair!Starts, NEW s \in Pair!Starts, s < r
  PROVE  (s..Pair!Exit(s)) \cap (r..Pair!Exit(r)) = {}
<1>n. PICK n \in Nat : Len(c5) = n
  BY LenProperties DEF Pair!PairsInv, Pair!PairsTypeOK
<1> DEFINE e == Pair!RunEnd(s)
           x == Pair!Exit(s)
<1>1. /\ s \in 1..n /\ e \in s..n /\ (e < n => c5[e + 1] = 0)
      /\ r \in 1..n /\ c5[r] # 0 /\ c5[r] # Pair!HeldBefore(r)
  BY <1>n, PairRun DEF Pair!Starts
<1>2. /\ x = IF e < n THEN e + 1 ELSE n
      /\ \A t \in (s + 1)..e : Pair!HeldBefore(t) = c5[t]
  BY <1>n, PairTrade
<1> HIDE DEF e, x
<1>3. r \notin (s + 1)..e
  BY <1>1, <1>2
<1>4. ~(e < n /\ r = e + 1)
  BY <1>1
<1>5. x < r /\ x \in Int
  BY <1>1, <1>2, <1>3, <1>4
<1>6. x = Pair!Exit(s)
  BY DEF x
<1>7. \A t : ~(t \in s..x /\ t \in r..Pair!Exit(r))
  <2> SUFFICES ASSUME NEW t, t \in s..x, t \in r..Pair!Exit(r) PROVE FALSE
    OBVIOUS
  <2>1. Pair!Exit(r) \in r..n
    BY <1>n, PairTrade
  <2> QED BY <1>1, <1>5, <2>1
<1> QED BY <1>6, <1>7

\* Every trade that has closed pays one round trip, and the trades what the bars were charged.
LEMMA PairPays == ASSUME Pair!PairsInv PROVE Pair!TradesPayOnce
<1>0. c5 \in Seq({-1, 0, 1})
  BY DEF Pair!PairsInv, Pair!PairsTypeOK
<1>n. PICK n \in Nat : Len(c5) = n /\ DOMAIN c5 = 1..n
  BY <1>0, LenProperties
<1>d. PICK D : D = 1..n
  OBVIOUS
<1> DEFINE f == [t \in D |-> Pair!Charge(t)]
<1>1. IsFiniteSet(D) /\ f \in [D -> Int] /\ \A t \in D : f[t] = Pair!Charge(t)
  <2>1. \A i \in D : c5[i] \in {-1, 0, 1}
    BY <1>0, <1>n, <1>d, ElementsOf
  <2>2. ASSUME NEW t \in D PROVE Pair!Charge(t) \in Int
    <3>1. Pair!HeldBefore(t) \in {-1, 0, 1}
      BY <1>d, <2>1 DEF Pair!HeldBefore
    <3>2. c5[t] - Pair!HeldBefore(t) \in Int
      BY <2>1, <3>1
    <3> QED BY <3>2 DEF Pair!Charge, Pair!Abs
  <2>3. IsFiniteSet(D)
    BY <1>d, FS_Interval
  <2> QED BY <2>2, <2>3
<1> HIDE DEF f
<1>2. PICK h : Adds(D, f, h)
  BY <1>1, SumExists
<1>3. \A S \in SUBSET D : Pair!Charged(S) = h[S]
  BY <1>1, <1>2, PairAddsUp
<1>4. \A s \in Pair!Starts : s \in D /\ s..Pair!Exit(s) \in SUBSET D
  BY <1>n, <1>d, PairTrade DEF Pair!Starts
<1>5. ASSUME NEW bars \in Pair!Trades, Pair!Max(bars) < n PROVE Pair!Charged(bars) = 2
  <2>1. PICK s \in Pair!Starts : bars = s..Pair!Exit(s)
    BY <1>5 DEF Pair!Trades
  <2> DEFINE e == Pair!RunEnd(s)
             x == Pair!Exit(s)
             rest == (s + 1)..e
  <2>2. /\ x \in s..n /\ x = IF e < n THEN e + 1 ELSE n
        /\ \A t \in rest : Pair!Charge(t) = 0
        /\ s < n => Pair!Charge(s) = 1
        /\ e < n => (x < n => Pair!Charge(x) = 1)
        /\ Pair!Max(s..x) = x
    BY <1>n, <2>1, PairTrade
  <2>3. s \in 1..n /\ e \in s..n
    BY <1>n, <2>1, PairRun
  <2> HIDE DEF e, x
  <2>4. x < n /\ e < n /\ x = e + 1 /\ s < x /\ s < n
    BY <1>5, <2>1, <2>2, <2>3 DEF x
  <2>5. bars = ({s} \cup rest) \cup {x}
    <3>1. bars = s..x
      BY <2>1 DEF x
    <3>2. \A t \in s..x : t = s \/ t \in rest \/ t = x
      BY <2>3, <2>4
    <3>3. \A t : t = s \/ t \in rest \/ t = x => t \in s..x
      BY <2>3, <2>4
    <3> HIDE DEF rest
    <3> QED BY <3>1, <3>2, <3>3
  <2>6. rest \in SUBSET D /\ s \in D /\ x \in D /\ s \notin rest /\ x \notin {s} \cup rest
    BY <1>d, <2>3, <2>4
  <2>7. h[{s}] = 1 /\ h[{x}] = 1
    <3>1. f[s] = 1 /\ f[x] = 1
      BY <1>1, <2>2, <2>4, <2>6
    <3>2. h[{s}] = f[s]
      BY <1>1, <1>2, <2>6, SumOfOne
    <3>3. h[{x}] = f[x]
      <4>1. x \in D
        BY <2>6
      <4> QED BY <1>1, <1>2, <4>1, SumOfOne
    <3> QED BY <3>1, <3>2, <3>3
  <2>8. h[rest] = 0
    <3>1. \A t \in rest : f[t] = 0
      BY <1>1, <2>2, <2>6
    <3> HIDE DEF rest
    <3> QED BY <1>1, <1>2, <2>6, <3>1, SumOfZeros
  <2> HIDE DEF rest
  <2>9. h[{s} \cup rest] = h[{s}] + h[rest]
    <3>1. {s} \in SUBSET D /\ {s} \cap rest = {}
      BY <2>6
    <3> QED BY <1>1, <1>2, <2>6, <3>1, SumSplits
  <2>10. h[({s} \cup rest) \cup {x}] = h[{s} \cup rest] + h[{x}]
    <3>1. {s} \cup rest \in SUBSET D /\ {x} \in SUBSET D /\ ({s} \cup rest) \cap {x} = {}
      BY <2>6
    <3> QED BY <1>1, <1>2, <3>1, SumSplits
  <2>11. h[bars] = 2
    BY <2>5, <2>7, <2>8, <2>9, <2>10
  <2>12. bars \in SUBSET D
    BY <1>4, <2>1
  <2> QED BY <1>3, <2>11, <2>12
<1>6. Pair!Charged(DOMAIN c5) = Pair!Charged(UNION Pair!Trades)
  <2> DEFINE U == UNION Pair!Trades
             rest == D \ U
  <2>1. U \in SUBSET D
    BY <1>4 DEF Pair!Trades
  <2>2. \A t \in rest : f[t] = 0
    <3>1. ASSUME NEW t \in rest, Pair!Charge(t) # 0 PROVE FALSE
      <4>1. PICK s \in Pair!Starts : t \in s..Pair!Exit(s)
        BY <1>n, <1>d, <3>1, PairOutside
      <4> QED BY <4>1 DEF Pair!Trades
    <3> QED BY <1>1, <3>1
  <2>3. rest \in SUBSET D /\ U \cap rest = {} /\ U \cup rest = D
    BY <2>1
  <2> HIDE DEF U, rest
  <2>4. h[rest] = 0
    BY <1>1, <1>2, <2>2, <2>3, SumOfZeros
  <2>5. h[U \cup rest] = h[U] + h[rest]
    <3>1. PICK u \in SUBSET D, v \in SUBSET D : u = U /\ v = rest /\ u \cap v = {}
      BY <2>1, <2>3
    <3>2. u \cap v = {}
      BY <3>1
    <3>3. h[u \cup v] = h[u] + h[v]
      BY <1>1, <1>2, <3>2, SumSplits
    <3> QED BY <3>1, <3>3
  <2>6. h[U] \in Int
    <3>1. \A s \in SUBSET D : h[s] \in Int
      BY <1>1, <1>2, SumTakes
    <3> QED BY <2>1, <3>1
  <2>7. h[D] = h[U]
    BY <2>3, <2>4, <2>5, <2>6
  <2>8. Pair!Charged(D) = h[D] /\ Pair!Charged(U) = h[U]
    BY <1>3, <2>1
  <2> QED BY <1>n, <1>d, <2>7, <2>8 DEF U
<1>7. ASSUME NEW a \in Pair!Trades, NEW b \in Pair!Trades, a # b PROVE a \cap b = {}
  <2>1. PICK s \in Pair!Starts : a = s..Pair!Exit(s)
    BY DEF Pair!Trades
  <2>2. PICK r \in Pair!Starts : b = r..Pair!Exit(r)
    BY DEF Pair!Trades
  <2>3. s \in Int /\ r \in Int /\ s # r
    BY <1>d, <1>4, <1>7, <2>1, <2>2
  <2>4. s < r \/ r < s
    BY <2>3
  <2> QED BY <2>1, <2>2, <2>4, PairApart
<1> QED BY <1>5, <1>6, <1>7, <1>n DEF Pair!TradesPayOnce

----------------------------------------------------------------------------
(* The composite study *)

\* What a child made of a bar is what its equities on this bar and the one before say,
\* points or no points on them.
LEMMA ChildIsRecomputed ==
  ASSUME Study!StudyAssumption, Study!StudyTypeOK, NEW c \in StudySetup.children, NEW t \in Study!Bars
  PROVE  Study!ChildReturn(c, t) =
           IF t = 1 THEN Study!Flat ELSE Study!Return(Study!ValueAt(c, t), Study!ValueAt(c, t - 1))
<1> DEFINE T == Study!Times(c)
           Now == Study!Until(c, t)
           Then == Study!Before(c, t)
<1>1. T \subseteq Study!Bars /\ t \in Study!Bars /\ Study!Bars = 1..StudySetup.grid /\ StudySetup.grid \in Nat
  <2>1. c1[c].curve \in StudySetup.curves
    BY DEF Study!StudyTypeOK
  <2>2. \A p \in c1[c].curve : p[1] \in Study!Bars
    BY <2>1 DEF Study!StudyAssumption
  <2> QED BY <2>2 DEF Study!Times, Study!StudyAssumption, Study!Bars
<1>2. Then = {u \in T : u < t} /\ Now = {u \in T : u <= t}
  BY DEF Study!Before, Study!Until
<1>3. Study!ChildReturn(c, t) =
        IF Then = {} THEN Study!Flat
        ELSE Study!Return(Study!ValueAt(c, t), Study!EquityOn(c, Study!Max(Then)))
  BY DEF Study!ChildReturn, Study!Earlier, Study!PreviousAt
<1> HIDE DEF T
<1>4. CASE t = 1
  <2>1. \A u \in T : ~(u < t)
    BY <1>1, <1>4
  <2>2. Then = {}
    BY <1>2, <2>1
  <2> QED BY <1>3, <1>4, <2>2
<1>5. CASE t # 1
  <2>1. Study!Until(c, t - 1) = Then
    <3>1. Study!Until(c, t - 1) = {u \in T : u <= t - 1}
      BY DEF Study!Until, T
    <3>2. \A u \in T : u < t <=> u <= t - 1
      BY <1>1
    <3> QED BY <1>2, <3>1, <3>2
  <2>2. Study!ValueAt(c, t - 1) =
          IF Then = {} THEN Study!EquityOn(c, Study!Min(T)) ELSE Study!EquityOn(c, Study!Max(Then))
    BY <2>1 DEF Study!ValueAt, T
  <2>3. CASE Then # {}
    BY <1>3, <1>5, <2>2, <2>3
  <2>4. CASE Then = {}
    <3>1. Study!ValueAt(c, t) =
            IF Now = {} THEN Study!EquityOn(c, Study!Min(T)) ELSE Study!EquityOn(c, Study!Max(Now))
      BY DEF Study!ValueAt, T
    <3>2. CASE Now # {}
      <4>1. Now = {t} /\ t \in T /\ \A u \in T : t <= u
        <5>2. \A u \in T : ~(u < t)
          BY <1>2, <2>4
        <5>3. \A u \in T : u <= t => u = t
          BY <1>1, <5>2
        <5>1. \A u \in Now : u = t
          BY <1>2, <5>3
        <5> HIDE DEF Now, Then
        <5>4. PICK w \in Now : TRUE
          BY <3>2
        <5>5. w = t
          BY <5>1, <5>4
        <5>6. t \in Now
          BY <5>4, <5>5
        <5>7. Now = {t}
          BY <5>1, <5>6
        <5>8. t \in T
          BY <1>2, <5>6
        <5>9. \A u \in T : t <= u
          BY <1>1, <5>2
        <5> QED BY <5>7, <5>8, <5>9
      <4>2. Study!Max(Now) = t
        <5>1. t <= t
          BY <1>1
        <5> QED BY <4>1, <5>1 DEF Study!Max
      <4>3. Study!Min(T) = t
        <5>1. \A u \in T : u <= t => u = t
          BY <1>1, <4>1
        <5> QED BY <4>1, <5>1 DEF Study!Min
      <4> QED BY <1>3, <1>5, <2>2, <2>4, <3>1, <3>2, <4>2, <4>3 DEF Study!Return
    <3> QED BY <1>3, <1>5, <2>2, <2>4, <3>1, <3>2 DEF Study!Return
  <2> QED BY <2>3, <2>4
<1> QED BY <1>4, <1>5

LEMMA FoldIsRecomputed ==
  ASSUME Study!StudyAssumption, Study!StudyTypeOK, NEW gate, NEW t \in Study!Bars
  PROVE  LET arm == Study!Fold(gate)
         IN  IF t = 1 THEN \A p \in arm.parts[1] : p[2] = Study!Flat
             ELSE arm.parts[t] = Study!Recomputed(arm, t)
<1> DEFINE arm == Study!Fold(gate)
           Out == {d \in StudySetup.children : Study!Deployed(Study!Kept(d, gate), d, t)}
<1>1. arm.gate = gate /\ arm.parts[t] = {<<c, Study!ChildReturn(c, t)>> : c \in Out}
  <2>1. \A d \in StudySetup.children :
          [c \in StudySetup.children |-> Study!Kept(c, gate)][d] = Study!Kept(d, gate)
    OBVIOUS
  <2> QED BY <2>1 DEF Study!Fold
<1>2. Study!Recomputed(arm, t) =
        {<<c, Study!Return(Study!ValueAt(c, t), Study!ValueAt(c, t - 1))>> : c \in Out}
  BY <1>1 DEF Study!Recomputed
<1> HIDE DEF arm
<1>3. \A c \in Out : Study!ChildReturn(c, t) =
           IF t = 1 THEN Study!Flat ELSE Study!Return(Study!ValueAt(c, t), Study!ValueAt(c, t - 1))
  BY ChildIsRecomputed
<1> HIDE DEF Out
<1>4. CASE t = 1
  <2>1. \A p \in arm.parts[t] : p[2] = Study!Flat
    BY <1>1, <1>3, <1>4
  <2> QED BY <1>4, <2>1 DEF arm
<1>5. CASE t # 1
  BY <1>1, <1>2, <1>3, <1>5 DEF arm
<1> QED BY <1>4, <1>5

LEMMA StudyStarts == ASSUME Study!StudyInit PROVE Study!StudyInv
<1>1. Study!StudyTypeOK
  <2>1. \A V : <<>> \in Seq(V)
    BY EmptySeq
  <2> QED BY <2>1 DEF Study!StudyInit, Study!StudyTypeOK
<1>2. Study!CurveIsRecomputable
  BY DEF Study!StudyInit, Study!NoArms, Study!CurveIsRecomputable
<1>3. c5 = <<>> /\ c6 = <<>> /\ DOMAIN c5 = {} /\ DOMAIN c6 = {} /\ Len(c5) = 0 /\ c4.at = "off"
  BY DEF Study!StudyInit
<1> QED BY <1>1, <1>2, <1>3 DEF Study!StudyInv, Study!ClaimedFirst, Study!Claiming

\* The arms that are there, with the market as it was.
LEMMA CurveStands ==
  ASSUME Study!CurveIsRecomputable, c1' = c1, c3' = c3 PROVE Study!CurveIsRecomputable'
<1>1. ASSUME NEW a \in DOMAIN c3, NEW t \in Study!Bars, t # 1
      PROVE  Study!Recomputed(c3[a], t)' = Study!Recomputed(c3[a], t)
  BY <1>1 DEF Study!Recomputed, Study!Deployed, Study!Kept, Study!ValueAt, Study!EquityOn, Study!Until,
     Study!Times, Study!Ended
<1> QED BY <1>1 DEF Study!CurveIsRecomputable

LEMMA CurveOfNone == ASSUME c3' = Study!NoArms PROVE Study!CurveIsRecomputable'
BY DEF Study!CurveIsRecomputable, Study!NoArms

LEMMA StudyInductive ==
  ASSUME Study!StudyAssumption, Study!StudyInv, Study!StudyNext PROVE Study!StudyInv'
<1> DEFINE Ats == {"off", "train", "frozen", "looked", "claimed"}
           Stages == [at : Ats, reuse : BOOLEAN]
           Wrote == [reuse : BOOLEAN, allowed : BOOLEAN]
<1>0. /\ c4 \in Stages /\ c5 \in Seq(BOOLEAN) /\ c6 \in Seq(Wrote)
      /\ c1 \in [StudySetup.children -> [curve : StudySetup.curves, trades : StudySetup.tradeLists]]
  BY DEF Study!StudyInv, Study!StudyTypeOK
<1>n. PICK n \in Nat : Len(c5) = n /\ DOMAIN c5 = 1..n
  BY <1>0, LenProperties
<1>m. PICK m \in Nat : Len(c6) = m /\ DOMAIN c6 = 1..m
  BY <1>0, LenProperties
<1>1. /\ \A i \in 1..n : c5[i] <=> i > 1
      /\ m + Study!Claiming <= n
      /\ c4.at = "claimed" /\ c5[n] => c4.reuse
      /\ \A i \in 1..m : i > 1 => c6[i].reuse /\ c6[i].allowed
      /\ Study!CurveIsRecomputable
  BY <1>n, <1>m DEF Study!StudyInv, Study!ClaimedFirst
<1> DEFINE Same == c1' = c1 /\ c5' = c5 /\ c6' = c6
\* What a step leaves of the rest when it claims and writes nothing.
<1>2. ASSUME Same, c4' \in Stages, Study!CurveIsRecomputable', c4'.at # "claimed" PROVE Study!StudyInv'
  <2>1. Study!StudyTypeOK'
    BY <1>0, <1>2 DEF Study!StudyTypeOK
  <2>2. Study!Claiming' = 0 /\ Study!Claiming >= 0 /\ Study!Claiming \in Nat
    BY <1>2 DEF Study!Claiming
  <2>3. m + 0 <= n
    BY <1>1, <2>2
  <2>4. Study!ClaimedFirst'
    BY <1>n, <1>m, <1>1, <1>2, <2>2, <2>3 DEF Study!ClaimedFirst
  <2> QED BY <1>2, <2>1, <2>4 DEF Study!StudyInv
<1>e. ASSUME Study!End PROVE c4' \in Stages /\ c4'.at = "off" /\ Study!CurveIsRecomputable'
  BY <1>e, CurveOfNone DEF Study!End
<1>3. CASE Study!Start \/ Study!Freeze
  <2>1. Same /\ c3' = c3 /\ c4' \in Stages /\ c4'.at # "claimed"
    BY <1>0, <1>3 DEF Study!Start, Study!Freeze
  <2> QED BY <1>1, <1>2, <2>1, CurveStands
<1>4. CASE Study!Look
  <2>1. Same /\ c4' \in Stages /\ c4'.at # "claimed"
    BY <1>0, <1>4 DEF Study!Look
  <2>2. \A a \in DOMAIN c3' : \E gate : c3'[a] = Study!Fold(gate)
    BY <1>4 DEF Study!Look
  <2>3. ASSUME NEW a \in DOMAIN c3', NEW t \in Study!Bars
        PROVE  IF t = 1 THEN \A p \in c3'[a].parts[1] : p[2] = Study!Flat
               ELSE c3'[a].parts[t] = Study!Recomputed(c3'[a], t)
    BY <2>2, FoldIsRecomputed DEF Study!StudyInv
  <2>4. ASSUME NEW a \in DOMAIN c3', NEW t \in Study!Bars
        PROVE  Study!Recomputed(c3[a], t)' = Study!Recomputed(c3'[a], t)
    BY <2>1 DEF Study!Recomputed, Study!Deployed, Study!Kept, Study!ValueAt, Study!EquityOn, Study!Until,
       Study!Times, Study!Ended
  <2>5. Study!CurveIsRecomputable'
    BY <2>3, <2>4 DEF Study!CurveIsRecomputable
  <2> QED BY <1>2, <2>1, <2>5
<1>5. CASE Study!Claim
  <2>1. CASE Study!Admitted
    <3>1. /\ c1' = c1 /\ c3' = c3 /\ c6' = c6 /\ c5' = Append(c5, n > 0)
          /\ c4' = [c4 EXCEPT !.at = "claimed"] /\ (n = 0 \/ c4.reuse)
      BY <1>5, <1>n, <2>1 DEF Study!Claim, Study!Admitted, Study!MayClaim
    <3>2. c4' \in Stages /\ c4'.at = "claimed" /\ c4'.reuse = c4.reuse
      BY <1>0, <3>1
    <3>3. /\ c5' \in Seq(BOOLEAN) /\ Len(c5') = n + 1 /\ DOMAIN c5' = 1..n + 1
          /\ (c5'[n + 1] <=> n > 0) /\ \A i \in 1..n : c5'[i] = c5[i]
      <4>0. (n > 0) \in BOOLEAN
        OBVIOUS
      <4>1. PICK b \in BOOLEAN : b = (n > 0) /\ c5' = Append(c5, b)
        BY <3>1, <4>0, Zenon
      <4>2. /\ c5' \in Seq(BOOLEAN) /\ Len(c5') = n + 1 /\ DOMAIN c5' = 1..n + 1
            /\ c5'[n + 1] = b /\ \A i \in 1..n : c5'[i] = c5[i]
        BY <1>0, <1>n, <4>1, AppendEnds
      <4> QED BY <4>1, <4>2
    <3>4. \A i \in 1..n + 1 : c5'[i] <=> i > 1
      <4>1. \A i \in 1..n + 1 : i \in 1..n \/ i = n + 1
        OBVIOUS
      <4>2. n + 1 > 1 <=> n > 0
        OBVIOUS
      <4> QED BY <1>1, <3>3, <4>1, <4>2
    <3>5. Study!Claiming = 0 /\ Study!Claiming' = 1
      BY <1>5, <3>2 DEF Study!Claiming, Study!Claim
    <3>6. m + 1 <= n + 1 /\ ~(n > 0) <=> n = 0
      BY <1>1, <3>5
    <3>7. c5'[n + 1] => c4'.reuse
      BY <3>1, <3>2, <3>3, <3>6
    <3>8. Study!StudyTypeOK'
      BY <1>0, <3>1, <3>2, <3>3 DEF Study!StudyTypeOK
    <3>9. Study!ClaimedFirst'
      BY <1>m, <1>1, <3>1, <3>3, <3>4, <3>5, <3>6, <3>7 DEF Study!ClaimedFirst
    <3>10. Study!CurveIsRecomputable'
      BY <1>1, <3>1, CurveStands
    <3> QED BY <3>8, <3>9, <3>10 DEF Study!StudyInv
  <2>2. CASE ~Study!Admitted
    <3>1. Same /\ Study!End
      BY <1>5, <2>2 DEF Study!Claim
    <3>2. c4' \in Stages /\ c4'.at # "claimed" /\ Study!CurveIsRecomputable'
      BY <1>e, <3>1
    <3> QED BY <1>2, <3>1, <3>2
  <2> QED BY <2>1, <2>2
<1>6. CASE Study!Publish
  <2>1. c1' = c1 /\ c5' = c5 /\ c4.at = "claimed" /\ Study!End
        /\ c6' = Append(c6, [reuse |-> c5[n], allowed |-> c4.reuse])
    BY <1>6, <1>n DEF Study!Publish
  <2>2. c4' \in Stages /\ c4'.at = "off" /\ Study!CurveIsRecomputable'
    BY <1>e, <2>1
  <2>3. Study!Claiming = 1 /\ Study!Claiming' = 0
    BY <2>1, <2>2 DEF Study!Claiming
  <2>4. m + 1 <= n /\ n \in 1..n
    BY <1>1, <2>3
  <2>5. c5[n] \in BOOLEAN /\ c4.reuse \in BOOLEAN
    BY <1>0, <1>n, <2>4, ElementsOf
  <2> DEFINE v == [reuse |-> c5[n], allowed |-> c4.reuse]
  <2>6. v \in Wrote
    BY <2>5
  <2>7. /\ c6' \in Seq(Wrote) /\ Len(c6') = m + 1 /\ DOMAIN c6' = 1..m + 1
        /\ c6'[m + 1] = v /\ \A i \in 1..m : c6'[i] = c6[i]
    <3> HIDE DEF v
    <3>1. c6' = Append(c6, v)
      BY <2>1 DEF v
    <3> QED BY <1>0, <1>m, <2>6, <3>1, AppendEnds
  <2>8. m + 1 > 1 => v.reuse /\ v.allowed
    <3>1. m + 1 > 1 => (c5[n] <=> n > 1) /\ n > 1
      BY <1>1, <2>4
    <3> QED BY <1>1, <2>1, <3>1
  <2> HIDE DEF v
  <2>9. \A i \in 1..m + 1 : i > 1 => c6'[i].reuse /\ c6'[i].allowed
    <3>1. \A i \in 1..m + 1 : i \in 1..m \/ i = m + 1
      OBVIOUS
    <3> QED BY <1>1, <2>7, <2>8, <3>1
  <2>10. Study!StudyTypeOK'
    BY <1>0, <2>1, <2>2, <2>7 DEF Study!StudyTypeOK
  <2>11. Study!ClaimedFirst'
    BY <1>n, <1>1, <2>1, <2>2, <2>3, <2>4, <2>7, <2>9 DEF Study!ClaimedFirst
  <2> QED BY <2>2, <2>10, <2>11 DEF Study!StudyInv
<1>7. CASE Study!Die
  <2>1. Same /\ Study!End
    BY <1>7 DEF Study!Die
  <2>2. c4' \in Stages /\ c4'.at # "claimed" /\ Study!CurveIsRecomputable'
    BY <1>e, <2>1
  <2> QED BY <1>2, <2>1, <2>2
<1> QED BY <1>3, <1>4, <1>5, <1>6, <1>7 DEF Study!StudyNext

LEMMA StudyStands ==
  ASSUME Study!StudyInv, UNCHANGED <<c1, c3, c4, c5, c6>> PROVE Study!StudyInv'
<1>1. Study!CurveIsRecomputable'
  BY CurveStands DEF Study!StudyInv
<1> QED BY <1>1 DEF Study!StudyInv, Study!StudyTypeOK, Study!ClaimedFirst, Study!Claiming

\* One artifact at most is of a first look.
LEMMA StudyFirst == ASSUME Study!StudyInv PROVE Study!OneFirstArtifact
<1> DEFINE S == {i \in DOMAIN c6 : ~(c6[i].reuse /\ c6[i].allowed)}
<1>1. DOMAIN c6 = 1..Len(c6) /\ Len(c6) \in Nat
  BY LenProperties DEF Study!StudyInv, Study!StudyTypeOK
<1>2. S \subseteq {1}
  BY <1>1 DEF Study!StudyInv, Study!ClaimedFirst
<1>3. Cardinality(S) <= 1
  <2>1. IsFiniteSet({1}) /\ Cardinality({1}) = 1
    BY FS_Singleton
  <2> QED BY <1>2, <2>1, FS_Subset
<1>4. Study!Cardinality(S) = Cardinality(S)
  BY DEF Study!Cardinality, Study!IsFiniteSet, Cardinality, IsFiniteSet
<1> QED BY <1>3, <1>4 DEF Study!OneFirstArtifact
=============================================================================
