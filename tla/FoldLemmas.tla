----------------------------- MODULE FoldLemmas -----------------------------
(***************************************************************************)
(* Induction stated with sets, which the provers can instantiate, and what *)
(* it gives for the folds of the community modules: sums over a finite     *)
(* set, and the folds over a sequence that the amounts are made of.        *)
(***************************************************************************)
EXTENDS FiniteSetsExt, FiniteSetTheorems, TLAPS

-----------------------------------------------------------------------------
(* Induction.                                                              *)

\* A set of naturals that is not empty has a least element.
LEMMA LeastNatural ==
  ASSUME NEW T, T \subseteq Nat, T # {}
  PROVE  \E n \in T : \A m \in T : ~ (m < n)
  <1>1. PICK n \in T : \A m \in T : ~ (<<m, n>> \in OpToRel(<, Nat))
    BY NatLessThanWellFounded, WFMin
  <1>2. ASSUME NEW m \in T, m < n PROVE <<m, n>> \in OpToRel(<, Nat)
    <2>1. m \in Nat /\ n \in Nat
      OBVIOUS
    <2>. QED
      BY <2>1, <1>2, Zenon DEF OpToRel
  <1>. QED
    BY <1>1, <1>2

\* A set that holds 0, and with each natural number the next, holds them all.
LEMMA NaturalsByInduction ==
  ASSUME NEW G, 0 \in G, \A n \in Nat : n \in G => n + 1 \in G
  PROVE  Nat \subseteq G
  <1>. DEFINE missing == Nat \ G
  <1>. SUFFICES ASSUME missing # {} PROVE FALSE
    OBVIOUS
  <1>1. PICK n \in missing : \A m \in missing : ~ (m < n)
    <2>1. missing \subseteq Nat
      OBVIOUS
    <2>. HIDE DEF missing
    <2>. QED
      BY <2>1, LeastNatural
  <1>2. n \in Nat /\ n \notin G /\ n # 0
    OBVIOUS
  <1>3. n - 1 \in Nat /\ (n - 1) + 1 = n /\ n - 1 < n
    BY <1>2
  <1>4. n - 1 \in missing
    BY <1>2, <1>3
  <1>. HIDE DEF missing
  <1>. QED
    BY <1>1, <1>3, <1>4

\* A finite set of naturals that is not empty has a largest element, and it is
\* the one that Max chooses.
LEMMA MaxOfNaturals ==
  ASSUME NEW T, T \subseteq Nat, T # {}, NEW bound \in Nat, \A x \in T : x <= bound
  PROVE  Max(T) \in T /\ \A x \in T : x <= Max(T)
  <1>. DEFINE above == {m \in Nat : \A x \in T : x <= m}
  <1>1. PICK m \in above : \A k \in above : ~ (k < m)
    <2>1. above \subseteq Nat /\ bound \in above
      OBVIOUS
    <2>. HIDE DEF above
    <2>. QED
      BY <2>1, LeastNatural
  <1>2. m \in Nat /\ \A x \in T : x \in Nat /\ x <= m
    OBVIOUS
  <1>3. m \in T
    <2>. SUFFICES ASSUME m \notin T PROVE FALSE
      OBVIOUS
    <2>1. \A x \in T : x <= m - 1 /\ m - 1 \in Nat
      <3>. SUFFICES ASSUME NEW x \in T PROVE x <= m - 1 /\ m - 1 \in Nat
        OBVIOUS
      <3>1. x \in Nat /\ x <= m /\ x # m
        BY <1>2
      <3>. HIDE DEF above
      <3>. QED
        BY <1>2, <3>1
    <2>2. m - 1 \in Nat /\ m - 1 < m
      <3>1. PICK x \in T : TRUE
        OBVIOUS
      <3>. QED
        BY <1>2, <2>1, <3>1
    <2>3. m - 1 \in above
      BY <2>1, <2>2
    <2>. QED
      BY <1>1, <2>2, <2>3
  <1>. HIDE DEF above
  <1>4. \A y \in T : m >= y
    BY <1>2
  <1>. QED
    BY <1>2, <1>3, <1>4 DEF Max

\* Whatever holds of a subset of a finite set as soon as it holds of the
\* smaller ones holds of all.
LEMMA SubsetsByInduction ==
  ASSUME NEW S, IsFiniteSet(S), NEW G,
         \A T \in SUBSET S : (\A U \in SUBSET T : U # T => U \in G) => T \in G
  PROVE  SUBSET S \subseteq G
  <1>. DEFINE missing == (SUBSET S) \ G
  <1>. SUFFICES ASSUME missing # {} PROVE FALSE
    OBVIOUS
  <1>1. IsWellFoundedOn(StrictSubsetOrdering(S), SUBSET S)
    <2>1. FiniteSubsetsOf(S) = SUBSET S
      BY FS_FiniteSubsetsOfFinite
    <2>2. IsWellFoundedOn(StrictSubsetOrdering(S), FiniteSubsetsOf(S))
      BY FS_StrictSubsetOrderingWellFounded
    <2>. QED
      BY <2>1, <2>2
  <1>2. PICK T \in missing : \A U \in missing : ~ (<<U, T>> \in StrictSubsetOrdering(S))
    <2>1. missing \subseteq SUBSET S
      OBVIOUS
    <2>. HIDE DEF missing
    <2>. QED
      BY <1>1, <2>1, WFMin
  <1>3. \A U \in SUBSET T : U # T => U \in G
    BY <1>2 DEF StrictSubsetOrdering
  <1>. QED
    BY <1>2, <1>3

-----------------------------------------------------------------------------
(* Folds.                                                                  *)

\* g folds the numbers F over the subsets of S, from the element that C chooses
\* last: each earlier number counts w times as much.
FoldsOver(g, S, C, w, F) ==
  \A s \in SUBSET S : g[s] = IF s = {} THEN 0 ELSE w * g[s \ {C[s]}] + F[C[s]]

\* A fold over a finite set exists, and its values are natural numbers.
LEMMA FoldExists ==
  ASSUME NEW S, IsFiniteSet(S), NEW w \in Nat, NEW F \in [S -> Nat],
         NEW C, \A s \in SUBSET S : s # {} => C[s] \in s
  PROVE  \E g \in [SUBSET S -> Nat] : FoldsOver(g, S, C, w, F)
  <1>. DEFINE Value(g, s) == IF s = {} THEN 0 ELSE w * g[s \ {C[s]}] + F[C[s]]
              Upto(g, n)  == \A s \in SUBSET S : Cardinality(s) <= n => g[s] = Value(g, s)
              reached     == {n \in Nat : \E g \in [SUBSET S -> Nat] : Upto(g, n)}
  <1>1. \A s \in SUBSET S : IsFiniteSet(s) /\ Cardinality(s) \in Nat
    BY FS_Subset, FS_CardinalityType
  <1>2. ASSUME NEW g \in [SUBSET S -> Nat], NEW s \in SUBSET S PROVE Value(g, s) \in Nat
    <2>1. CASE s = {}
      BY <2>1
    <2>2. CASE s # {}
      <3>1. s \ {C[s]} \in SUBSET S /\ C[s] \in S
        BY <2>2
      <3>2. g[s \ {C[s]}] \in Nat /\ F[C[s]] \in Nat
        BY <3>1
      <3>3. \A x, y \in Nat : w * x + y \in Nat
        OBVIOUS
      <3>. QED
        BY <2>2, <3>2, <3>3
    <2>. QED
      BY <2>1, <2>2
  <1>3. 0 \in reached
    <2>. DEFINE g == [s \in SUBSET S |-> 0]
    <2>1. \A s \in SUBSET S : Cardinality(s) <= 0 => s = {}
      BY <1>1, FS_EmptySet
    <2>2. g \in [SUBSET S -> Nat] /\ Upto(g, 0)
      BY <2>1
    <2>. QED
      BY <2>2
  <1>4. ASSUME NEW n \in Nat, n \in reached PROVE n + 1 \in reached
    <2>1. PICK g \in [SUBSET S -> Nat] : Upto(g, n)
      BY <1>4
    <2>. DEFINE h == [s \in SUBSET S |-> Value(g, s)]
    <2>2. h \in [SUBSET S -> Nat]
      BY <1>2
    <2>3. ASSUME NEW s \in SUBSET S, Cardinality(s) <= n + 1 PROVE h[s] = Value(h, s)
      <3>1. CASE s = {}
        BY <3>1
      <3>2. CASE s # {}
        <4>. DEFINE r == s \ {C[s]}
        <4>1. r \in SUBSET S /\ Cardinality(r) = Cardinality(s) - 1
          BY <1>1, <3>2, FS_RemoveElement
        <4>2. Cardinality(r) <= n
          <5>. HIDE DEF r
          <5>. QED
            BY <1>1, <2>3, <4>1
        <4>3. g[r] = Value(g, r)
          BY <2>1, <4>1, <4>2
        <4>4. h[r] = g[r]
          BY <4>1, <4>3
        <4>5. h[s] = w * g[r] + F[C[s]]
          BY <3>2
        <4>. QED
          BY <3>2, <4>4, <4>5
      <3>. QED
        BY <3>1, <3>2
    <2>4. Upto(h, n + 1)
      BY <2>3
    <2>. HIDE DEF h, Upto
    <2>. QED
      BY <2>2, <2>4
  <1>5. Nat \subseteq reached
    <2>. HIDE DEF reached
    <2>. QED
      BY <1>3, <1>4, NaturalsByInduction
  <1>6. PICK g \in [SUBSET S -> Nat] : Upto(g, Cardinality(S))
    <2>1. Cardinality(S) \in reached
      BY <1>1, <1>5
    <2>. QED
      BY <2>1
  <1>7. \A s \in SUBSET S : Cardinality(s) <= Cardinality(S)
    BY FS_Subset
  <1>8. FoldsOver(g, S, C, w, F)
    BY <1>6, <1>7 DEF FoldsOver
  <1>. QED
    BY <1>8

-----------------------------------------------------------------------------
(* Sums.                                                                   *)

\* The element that a sum takes out of a set first.
Chosen(s) == CHOOSE x \in s : TRUE

\* The sum of F over a set.
SumOf(F, S) == MapThenSumSet(LAMBDA a : F[a], S)

\* g is how a sum of F over S is computed.
Sums(g, S, F) ==
  g = [s \in SUBSET S |-> IF s = {} THEN 0 ELSE F[Chosen(s)] + g[s \ {Chosen(s)}]]

\* The sum of natural numbers over a finite set is the last value of such a
\* computation, all of whose values are natural numbers.
LEMMA SumComputed ==
  ASSUME NEW S, IsFiniteSet(S), NEW F \in [S -> Nat]
  PROVE  \E g \in [SUBSET S -> Nat] :
           Sums(g, S, F) /\ SumOf(F, S) = g[S]
  <1>. DEFINE C    == [s \in SUBSET S |-> Chosen(s)]
              iter == CHOOSE g : Sums(g, S, F)
  <1>1. \A s \in SUBSET S : s # {} => C[s] \in s
    BY DEF Chosen
  <1>2. PICK g \in [SUBSET S -> Nat] : FoldsOver(g, S, C, 1, F)
    <2>. HIDE DEF C
    <2>. QED
      BY <1>1, FoldExists
  <1>3. Sums(g, S, F)
    <2>1. ASSUME NEW s \in SUBSET S
          PROVE  g[s] = IF s = {} THEN 0 ELSE F[Chosen(s)] + g[s \ {Chosen(s)}]
      <3>1. CASE s = {}
        BY <1>2, <3>1 DEF FoldsOver
      <3>2. CASE s # {}
        <4>1. C[s] = Chosen(s) /\ Chosen(s) \in s
          BY <3>2, <1>1
        <4>2. g[s] = 1 * g[s \ {C[s]}] + F[C[s]]
          BY <1>2, <3>2 DEF FoldsOver
        <4>3. g[s \ {C[s]}] \in Nat /\ F[C[s]] \in Nat
          BY <4>1
        <4>. HIDE DEF C
        <4>4. g[s] = F[C[s]] + g[s \ {C[s]}]
          BY <4>2, <4>3
        <4>. QED
          BY <3>2, <4>1, <4>4
      <3>. QED
        BY <3>1, <3>2
    <2>. QED
      BY <2>1 DEF Sums
  <1>4. Sums(iter, S, F)
    BY <1>3
  <1>5. \A s \in SUBSET S : iter[s] = g[s]
    <2>. DEFINE same == {s \in SUBSET S : iter[s] = g[s]}
    <2>1. ASSUME NEW T \in SUBSET S, \A U \in SUBSET T : U # T => U \in same
          PROVE  T \in same
      <3>1. CASE T = {}
        BY <3>1, <1>3, <1>4 DEF Sums
      <3>2. CASE T # {}
        <4>1. Chosen(T) \in T
          BY <3>2 DEF Chosen
        <4>2. T \ {Chosen(T)} \in same
          BY <2>1, <4>1
        <4>3. /\ iter[T] = F[Chosen(T)] + iter[T \ {Chosen(T)}]
              /\ g[T] = F[Chosen(T)] + g[T \ {Chosen(T)}]
          <5>. HIDE DEF iter
          <5>. QED
            BY <3>2, <1>3, <1>4 DEF Sums
        <4>. QED
          BY <4>2, <4>3
      <3>. QED
        BY <3>1, <3>2
    <2>2. SUBSET S \subseteq same
      <3>. HIDE DEF same
      <3>. QED
        BY <2>1, SubsetsByInduction
    <2>. QED
      BY <2>2
  <1>6. SumOf(F, S) = iter[S]
    BY DEF SumOf, MapThenSumSet, MapThenFoldSet, Sums, Chosen
  <1>. HIDE DEF iter
  <1>. QED
    BY <1>3, <1>5, <1>6

\* A sum of natural numbers is one.
LEMMA SumType ==
  ASSUME NEW S, IsFiniteSet(S), NEW F \in [S -> Nat]
  PROVE  SumOf(F, S) \in Nat
  <1>1. PICK g \in [SUBSET S -> Nat] : Sums(g, S, F) /\ SumOf(F, S) = g[S]
    BY SumComputed
  <1>2. S \in SUBSET S
    OBVIOUS
  <1>. QED
    BY <1>1, <1>2

\* A sum of zeros is zero.
LEMMA SumOfZeros ==
  ASSUME NEW S, IsFiniteSet(S), NEW F \in [S -> Nat], \A x \in S : F[x] = 0
  PROVE  SumOf(F, S) = 0
  <1>1. PICK g \in [SUBSET S -> Nat] : Sums(g, S, F) /\ SumOf(F, S) = g[S]
    BY SumComputed
  <1>. DEFINE zero == {s \in SUBSET S : g[s] = 0}
  <1>2. ASSUME NEW T \in SUBSET S, \A U \in SUBSET T : U # T => U \in zero
        PROVE  T \in zero
    <2>1. CASE T = {}
      BY <2>1, <1>1 DEF Sums
    <2>2. CASE T # {}
      <3>1. Chosen(T) \in T
        BY <2>2 DEF Chosen
      <3>2. g[T] = F[Chosen(T)] + g[T \ {Chosen(T)}]
        BY <2>2, <1>1 DEF Sums
      <3>3. F[Chosen(T)] = 0 /\ g[T \ {Chosen(T)}] = 0
        BY <1>2, <3>1
      <3>. QED
        BY <3>2, <3>3
    <2>. QED
      BY <2>1, <2>2
  <1>3. SUBSET S \subseteq zero
    <2>. HIDE DEF zero
    <2>. QED
      BY <1>2, SubsetsByInduction
  <1>. QED
    BY <1>1, <1>3

\* The terms F once the one of x is v.
Written(F, x, v) == [F EXCEPT ![x] = v]

\* Writing one term changes the sum by as much as the term.
LEMMA SumExcept ==
  ASSUME NEW S, IsFiniteSet(S), NEW F \in [S -> Nat], NEW x \in S, NEW v \in Nat
  PROVE  SumOf(Written(F, x, v), S) + F[x] = SumOf(F, S) + v
  <1>. DEFINE H == Written(F, x, v)
  <1>0. \A N \in [S -> Nat] : \E g \in [SUBSET S -> Nat] : Sums(g, S, N) /\ SumOf(N, S) = g[S]
    BY SumComputed
  <1>1. PICK f \in [SUBSET S -> Nat] : Sums(f, S, F) /\ SumOf(F, S) = f[S]
    BY <1>0
  <1>2. H \in [S -> Nat] /\ \A c \in S : H[c] = IF c = x THEN v ELSE F[c]
    BY DEF Written
  <1>3. PICK h \in [SUBSET S -> Nat] : Sums(h, S, H) /\ SumOf(H, S) = h[S]
    BY ONLY <1>0, <1>2
  <1>. DEFINE moved == {s \in SUBSET S :
                          IF x \in s THEN h[s] + F[x] = f[s] + v ELSE h[s] = f[s]}
  <1>4. ASSUME NEW T \in SUBSET S, \A U \in SUBSET T : U # T => U \in moved
        PROVE  T \in moved
    <2>1. CASE T = {}
      BY <2>1, <1>1, <1>3 DEF Sums
    <2>2. CASE T # {}
      <3>. DEFINE c == Chosen(T)
                  r == T \ {c}
      <3>1. c \in T /\ c \in S /\ r \in SUBSET S /\ r \in moved
        BY <2>2, <1>4 DEF Chosen
      <3>2. f[T] = F[c] + f[r] /\ h[T] = H[c] + h[r]
        BY <2>2, <1>1, <1>3 DEF Sums
      <3>3. f[r] \in Nat /\ h[r] \in Nat /\ F[c] \in Nat /\ F[x] \in Nat
        BY <3>1
      <3>4. H[c] = IF c = x THEN v ELSE F[c]
        BY <3>1, <1>2
      <3>5. x \in T <=> x = c \/ x \in r
        BY <3>1
      <3>6. IF x \in r THEN h[r] + F[x] = f[r] + v ELSE h[r] = f[r]
        BY <3>1
      <3>7. x = c => x \notin r
        OBVIOUS
      <3>. HIDE DEF c, r, H
      <3>8. IF x \in T THEN h[T] + F[x] = f[T] + v ELSE h[T] = f[T]
        BY <3>2, <3>3, <3>4, <3>5, <3>6, <3>7
      <3>. QED
        BY <3>8
    <2>. QED
      BY <2>1, <2>2
  <1>5. SUBSET S \subseteq moved
    <2>. HIDE DEF moved
    <2>. QED
      BY <1>4, SubsetsByInduction
  <1>6. S \in moved
    BY <1>5
  <1>. QED
    BY <1>1, <1>3, <1>6

-----------------------------------------------------------------------------
(* The fold of a sequence of numbers, from its first to its last.          *)

\* What FoldLeft makes of F over S when it adds each number to w times the rest.
Folds(g, S, w, F) ==
  g = [s \in SUBSET S |-> IF s = {} THEN 0 ELSE w * g[s \ {Max(s)}] + F[Max(s)]]
Folded(w, F, S) == (CHOOSE g : Folds(g, S, w, F))[S]

\* The values of the fold for the first numbers of F.
Follows(p, w, F, n) == p[0] = 0 /\ \A i \in 1 .. n : p[i] = w * p[i - 1] + F[i]
Horner(p, w, F, n) == p \in [0 .. n -> Nat] /\ Follows(p, w, F, n)

\* The fold is the last of the values that each number adds to w times the one
\* before.
LEMMA FoldedInOrder ==
  ASSUME NEW n \in Nat, NEW w \in Nat, NEW F \in [1 .. n -> Nat]
  PROVE  \E p : Horner(p, w, F, n) /\ Folded(w, F, 1 .. n) = p[n]
  <1>. DEFINE S    == 1 .. n
              C    == [s \in SUBSET S |-> Max(s)]
              iter == CHOOSE g : Folds(g, S, w, F)
              p    == [i \in 0 .. n |-> iter[1 .. i]]
  <1>1. \A s \in SUBSET S : s # {} => C[s] \in s
    <2>. SUFFICES ASSUME NEW s \in SUBSET S, s # {} PROVE Max(s) \in s
      OBVIOUS
    <2>1. s \subseteq Nat /\ \A x \in s : x <= n
      OBVIOUS
    <2>. QED
      BY <2>1, MaxOfNaturals
  <1>2. IsFiniteSet(S)
    BY FS_Interval
  <1>3. PICK g \in [SUBSET S -> Nat] : FoldsOver(g, S, C, w, F)
    <2>1. F \in [S -> Nat]
      OBVIOUS
    <2>. HIDE DEF C, S
    <2>. QED
      BY <1>1, <1>2, <2>1, FoldExists
  <1>4. Folds(g, S, w, F)
    BY <1>3 DEF Folds, FoldsOver
  <1>5. Folds(iter, S, w, F)
    BY <1>4
  <1>. HIDE DEF iter
  <1>6. p[0] = 0
    <2>1. 1 .. 0 = {} /\ {} \in SUBSET S
      OBVIOUS
    <2>2. iter[{}] = 0
      BY <1>5, <2>1 DEF Folds
    <2>. QED
      BY <2>1, <2>2
  <1>7. ASSUME NEW i \in 1 .. n PROVE p[i] = w * p[i - 1] + F[i]
    <2>1. 1 .. i \in SUBSET S /\ i \in 1 .. i /\ i - 1 \in 0 .. n /\ i \in 0 .. n
      OBVIOUS
    <2>2. Max(1 .. i) = i
      <3>1. PICK T : T = 1 .. i
        OBVIOUS
      <3>2. T \subseteq Nat /\ i \in T /\ i \in Nat /\ \A x \in T : x <= i
        BY <3>1
      <3>3. Max(T) \in T /\ \A x \in T : x <= Max(T)
        BY <3>2, MaxOfNaturals
      <3>4. Max(T) <= i /\ i <= Max(T) /\ Max(T) \in Nat
        BY <3>2, <3>3
      <3>. QED
        BY <3>1, <3>2, <3>4
    <2>3. (1 .. i) \ {i} = 1 .. (i - 1)
      OBVIOUS
    <2>4. iter[1 .. i] = w * iter[(1 .. i) \ {Max(1 .. i)}] + F[Max(1 .. i)]
      BY <1>5, <2>1 DEF Folds
    <2>. QED
      BY <2>1, <2>2, <2>3, <2>4
  <1>8. p \in [0 .. n -> Nat]
    <2>. DEFINE typed == {i \in Nat : i <= n => p[i] \in Nat}
    <2>. HIDE DEF p
    <2>1. 0 \in typed
      BY <1>6
    <2>2. ASSUME NEW i \in Nat, i \in typed PROVE i + 1 \in typed
      <3>1. CASE i + 1 <= n
        <4>1. i + 1 \in 1 .. n /\ (i + 1) - 1 = i /\ i <= n
          BY <3>1
        <4>2. p[i + 1] = w * p[i] + F[i + 1] /\ p[i] \in Nat /\ F[i + 1] \in Nat
          BY <1>7, <2>2, <4>1
        <4>3. \A x, y \in Nat : w * x + y \in Nat
          OBVIOUS
        <4>4. p[i + 1] \in Nat
          BY <4>2, <4>3
        <4>. QED
          BY <4>4
      <3>2. CASE ~ (i + 1 <= n)
        BY <3>2
      <3>. QED
        BY <3>1, <3>2
    <2>3. Nat \subseteq typed
      <3>. HIDE DEF typed
      <3>. QED
        BY <2>1, <2>2, NaturalsByInduction
    <2>4. \A i \in 0 .. n : p[i] \in Nat
      BY <2>3
    <2>. QED
      BY <2>4 DEF p
  <1>9. Folded(w, F, 1 .. n) = p[n]
    BY DEF Folded, iter
  <1>. HIDE DEF p
  <1>. QED
    BY <1>6, <1>7, <1>8, <1>9 DEF Horner, Follows

\* There is one such list of values.
LEMMA HornerUnique ==
  ASSUME NEW n \in Nat, NEW w \in Nat, NEW F \in [1 .. n -> Nat],
         NEW p, Horner(p, w, F, n), NEW k \in Nat, k <= n, NEW q, Follows(q, w, F, k)
  PROVE  \A i \in 0 .. k : p[i] = q[i]
  <1>. DEFINE same == {i \in Nat : i <= k => p[i] = q[i]}
  <1>1. 0 \in same
    BY DEF Horner, Follows
  <1>2. ASSUME NEW i \in Nat, i \in same PROVE i + 1 \in same
    <2>1. CASE i + 1 <= k
      <3>1. i + 1 \in 1 .. n /\ i + 1 \in 1 .. k /\ (i + 1) - 1 = i /\ i <= k
        BY <2>1
      <3>2. p[i + 1] = w * p[i] + F[i + 1] /\ q[i + 1] = w * q[i] + F[i + 1]
        BY <3>1 DEF Horner, Follows
      <3>. QED
        BY <1>2, <3>1, <3>2
    <2>2. CASE ~ (i + 1 <= k)
      BY <2>2
    <2>. QED
      BY <2>1, <2>2
  <1>3. Nat \subseteq same
    <2>. HIDE DEF same
    <2>. QED
      BY <1>1, <1>2, NaturalsByInduction
  <1>. QED
    BY <1>3
=============================================================================
