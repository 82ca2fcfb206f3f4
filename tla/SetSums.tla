------------------------------ MODULE SetSums ------------------------------
(***************************************************************************)
(* What MapThenSumSet computes: sums over finite sets lie between as many  *)
(* times a least and a greatest element, and sums of nearly the same are   *)
(* nearly the same.  Its definition takes the elements of a set one by     *)
(* one; Sums(it, S, w) says that `it` has the sum of w over each subset of *)
(* S.                                                                      *)
(***************************************************************************)
EXTENDS FiniteSetsExt, FiniteSetTheorems, WellFoundedInduction, TLAPS

\* A set of naturals has a least one: < is well-founded on them.
LEMMA FirstOf ==
  ASSUME NEW S, S \subseteq Nat, S # {}
  PROVE  \E p \in S : \A q \in S : p <= q
<1>1. PICK p \in S : \A q \in S : ~(<<q, p>> \in OpToRel(<, Nat))
  BY WFMin, NatLessThanWellFounded, Zenon
<1>2. ASSUME NEW q \in S
      PROVE  p <= q
  <2>1. <<q, p>> \notin OpToRel(<, Nat)
    BY <1>1
  <2>2. ~(q < p)
    BY <2>1 DEF OpToRel
  <2>3. QED
    BY <2>2
<1>3. QED
  BY <1>2

AnyOf(s) == CHOOSE x \in s : TRUE

Without(s) == s \ {AnyOf(s)}

\* The function that MapThenSumSet recurs on, over the sets in D.
SumsOver(it, D, w) == it = [s \in D |-> IF s = {} THEN 0 ELSE w[AnyOf(s)] + it[Without(s)]]

Sums(it, S, w) == SumsOver(it, SUBSET S, w)

Upto(S, n) == {s \in SUBSET S : Cardinality(s) <= n}

\* One element less.
LEMMA OneLess ==
  ASSUME NEW S, IsFiniteSet(S), NEW s \in SUBSET S, s # {}
  PROVE  /\ AnyOf(s) \in s /\ Without(s) \in SUBSET S
         /\ Cardinality(s) \in Nat /\ Cardinality(Without(s)) \in Nat
         /\ Cardinality(s) = Cardinality(Without(s)) + 1
<1>1. AnyOf(s) \in s
  BY DEF AnyOf
<1>2. IsFiniteSet(s) /\ Without(s) \subseteq S
  BY FS_Subset DEF Without
<1>3. Cardinality(s) \in Nat
  BY <1>2, FS_CardinalityType
<1>4. IsFiniteSet(Without(s)) /\ Cardinality(Without(s)) = Cardinality(s) - 1
  BY <1>1, <1>2, FS_RemoveElement DEF Without
<1>5. Cardinality(Without(s)) \in Nat
  BY <1>4, FS_CardinalityType
<1>6. QED
  BY <1>1, <1>2, <1>3, <1>4, <1>5

\* The recursion reaches the sets of one element more.
LEMMA OneMore ==
  ASSUME NEW S, IsFiniteSet(S), NEW w, NEW n \in Nat, NEW f, SumsOver(f, Upto(S, n), w)
  PROVE  \E g : SumsOver(g, Upto(S, n + 1), w)
<1> DEFINE g == [s \in Upto(S, n + 1) |-> IF s = {} THEN 0 ELSE w[AnyOf(s)] + f[Without(s)]]
<1>1. ASSUME NEW s \in Upto(S, n + 1), s # {}
      PROVE  g[Without(s)] = f[Without(s)]
  <2> DEFINE t == Without(s)
  <2>1. t \in Upto(S, n) /\ t \in Upto(S, n + 1)
    BY <1>1, OneLess DEF Upto
  <2>2. f[t] = IF t = {} THEN 0 ELSE w[AnyOf(t)] + f[Without(t)]
    BY <2>1 DEF SumsOver
  <2>3. g[t] = IF t = {} THEN 0 ELSE w[AnyOf(t)] + f[Without(t)]
    BY <2>1
  <2>4. QED
    BY <2>2, <2>3
<1> HIDE DEF g
<1>2. ASSUME NEW s \in Upto(S, n + 1)
      PROVE  (IF s = {} THEN 0 ELSE w[AnyOf(s)] + f[Without(s)])
                = (IF s = {} THEN 0 ELSE w[AnyOf(s)] + g[Without(s)])
  BY <1>1
<1>3. g = [s \in Upto(S, n + 1) |-> IF s = {} THEN 0 ELSE w[AnyOf(s)] + g[Without(s)]]
  BY <1>2 DEF g
<1>4. QED
  BY <1>3 DEF SumsOver

LEMMA NoneYet ==
  ASSUME NEW S, IsFiniteSet(S), NEW w
  PROVE  \E f : SumsOver(f, Upto(S, 0), w)
<1> DEFINE f == [s \in Upto(S, 0) |-> 0]
<1>1. ASSUME NEW s \in Upto(S, 0)
      PROVE  s = {}
  <2>1. IsFiniteSet(s) /\ Cardinality(s) \in Nat /\ Cardinality(s) <= 0
    BY FS_Subset, FS_CardinalityType DEF Upto
  <2>2. Cardinality(s) = 0
    BY <2>1
  <2>3. QED
    BY <2>1, <2>2, FS_EmptySet
<1>2. f = [s \in Upto(S, 0) |-> IF s = {} THEN 0 ELSE w[AnyOf(s)] + f[Without(s)]]
  BY <1>1
<1>3. QED
  BY <1>2 DEF SumsOver

\* The sums of any w over the subsets of a finite set exist.
LEMMA SumsExist ==
  ASSUME NEW S, IsFiniteSet(S), NEW w
  PROVE  \E it : Sums(it, S, w)
<1> DEFINE missing == {n \in Nat : ~\E f : SumsOver(f, Upto(S, n), w)}
<1>1. missing = {}
  <2>1. SUFFICES ASSUME missing # {}
                 PROVE  FALSE
    OBVIOUS
  <2>2. PICK n \in missing : \A m \in missing : n <= m
    BY <2>1, FirstOf
  <2>3. n # 0
    BY <2>2, NoneYet
  <2>4. n - 1 \in Nat /\ n - 1 \notin missing /\ (n - 1) + 1 = n
    BY <2>2, <2>3
  <2>5. PICK f : SumsOver(f, Upto(S, n - 1), w)
    BY <2>4
  <2>6. \E g : SumsOver(g, Upto(S, (n - 1) + 1), w)
    BY <2>4, <2>5, OneMore
  <2>7. QED
    BY <2>2, <2>4, <2>6
<1>2. Cardinality(S) \in Nat
  BY FS_CardinalityType
<1>3. PICK f : SumsOver(f, Upto(S, Cardinality(S)), w)
  BY <1>1, <1>2
<1>4. \A s \in SUBSET S : Cardinality(s) <= Cardinality(S)
  BY FS_Subset
<1>5. Upto(S, Cardinality(S)) = SUBSET S
  BY <1>4 DEF Upto
<1>6. QED
  BY <1>3, <1>5 DEF Sums

\* What holds of no element, and of a set if of the set with one less, holds of
\* every subset: P is given by the sets that have it.
LEMMA SubsetsOneByOne ==
  ASSUME NEW S, IsFiniteSet(S), NEW P, {} \in P,
         \A s \in SUBSET S : s # {} /\ Without(s) \in P => s \in P
  PROVE  SUBSET S \subseteq P
<1> DEFINE sizes == {Cardinality(s) : s \in (SUBSET S) \ P}
<1>1. SUFFICES ASSUME (SUBSET S) \ P # {}
               PROVE  FALSE
  OBVIOUS
<1>2. \A s \in SUBSET S : Cardinality(s) \in Nat
  BY FS_Subset, FS_CardinalityType
<1>3. sizes \subseteq Nat /\ sizes # {}
  BY <1>1, <1>2
<1>4. PICK p \in sizes : \A q \in sizes : p <= q
  BY <1>3, FirstOf
<1>5. PICK s \in (SUBSET S) \ P : p = Cardinality(s)
  BY <1>4
<1>6. s # {} /\ Without(s) \in SUBSET S /\ Cardinality(Without(s)) \in Nat
        /\ Cardinality(s) = Cardinality(Without(s)) + 1
  BY <1>5, OneLess
<1>7. Without(s) \notin P
  BY <1>5, <1>6
<1>8. Cardinality(Without(s)) \in sizes
  BY <1>6, <1>7
<1>9. QED
  BY <1>4, <1>5, <1>6, <1>8

LEMMA SumsFrom ==
  ASSUME NEW S, NEW w, NEW it, Sums(it, S, w), NEW s \in SUBSET S
  PROVE  it[s] = IF s = {} THEN 0 ELSE w[AnyOf(s)] + it[Without(s)]
BY DEF Sums, SumsOver

LEMMA OnceMore == \A a, b \in Int : a * (b + 1) = a * b + a /\ a * b \in Int
OBVIOUS

\* Two sums over a set whose elements differ by d at most differ by d for each.
LEMMA SumsApart ==
  ASSUME NEW S, IsFiniteSet(S), NEW w, NEW v, NEW d \in Nat,
         \A i \in S : w[i] \in Int /\ v[i] \in Int /\ -d <= w[i] - v[i] /\ w[i] - v[i] <= d,
         NEW it, Sums(it, S, w), NEW jt, Sums(jt, S, v)
  PROVE  /\ it[S] \in Int /\ jt[S] \in Int
         /\ -(d * Cardinality(S)) <= it[S] - jt[S] /\ it[S] - jt[S] <= d * Cardinality(S)
<1> DEFINE P == {s \in SUBSET S : /\ it[s] \in Int /\ jt[s] \in Int
                                  /\ -(d * Cardinality(s)) <= it[s] - jt[s]
                                  /\ it[s] - jt[s] <= d * Cardinality(s)}
<1>1. {} \in P
  <2>1. Cardinality({}) = 0 /\ it[{}] = 0 /\ jt[{}] = 0
    BY FS_EmptySet, SumsFrom
  <2>2. d * 0 = 0
    OBVIOUS
  <2>3. QED
    BY <2>1, <2>2
<1>2. ASSUME NEW s \in SUBSET S, s # {}, Without(s) \in P
      PROVE  s \in P
  <2> DEFINE t == Without(s)
             k == Cardinality(t)
             x == w[AnyOf(s)]
             y == v[AnyOf(s)]
  <2>1. AnyOf(s) \in S /\ k \in Nat /\ Cardinality(s) = k + 1
    BY <1>2, OneLess
  <2>2. x \in Int /\ y \in Int /\ -d <= x - y /\ x - y <= d
    BY <2>1
  <2>3. it[t] \in Int /\ jt[t] \in Int /\ -(d * k) <= it[t] - jt[t] /\ it[t] - jt[t] <= d * k
    BY <1>2
  <2>4. it[s] = x + it[t] /\ jt[s] = y + jt[t]
    BY <1>2, SumsFrom
  <2> HIDE DEF t, k, x, y
  <2>5. d * (k + 1) = d * k + d /\ d * k \in Int
    BY <2>1, OnceMore
  <2>6. it[s] \in Int /\ jt[s] \in Int /\ it[s] - jt[s] = (x - y) + (it[t] - jt[t])
    <3>1. it[s] \in Int /\ jt[s] \in Int
      BY <2>2, <2>3, <2>4
    <3>2. (x + it[t]) - (y + jt[t]) = (x - y) + (it[t] - jt[t])
      BY <2>2, <2>3
    <3>3. QED
      BY <2>4, <3>1, <3>2
  <2>7. -(d * (k + 1)) <= it[s] - jt[s] /\ it[s] - jt[s] <= d * (k + 1)
    <3> DEFINE m == d * k
               apart == it[t] - jt[t]
               step == x - y
    <3>1. /\ m \in Int /\ apart \in Int /\ step \in Int /\ d \in Int
          /\ -d <= step /\ step <= d /\ -m <= apart /\ apart <= m
      BY <2>2, <2>3, <2>5
    <3> HIDE DEF m, apart, step
    <3>2. -(m + d) <= step + apart /\ step + apart <= m + d
      BY <3>1
    <3>3. QED
      BY <2>5, <2>6, <3>2 DEF m, apart, step
  <2>8. QED
    BY <2>1, <2>6, <2>7
<1> HIDE DEF P
<1>3. SUBSET S \subseteq P
  BY <1>1, <1>2, SubsetsOneByOne
<1>4. S \in P
  BY <1>3
<1>5. QED
  BY <1>4 DEF P

=============================================================================
