-------------------------- MODULE SimpleBotProofs --------------------------
(***************************************************************************)
(* Whatever users ask of the bot of SimpleBot, and whatever answers come   *)
(* late or not at all: it sends what it is asked for and not more than its *)
(* limit, and tells of payments what has become of them.                   *)
(***************************************************************************)
EXTENDS SimpleBot, FoldLemmas, SequenceTheorems

-----------------------------------------------------------------------------
(* Powers of ten.                                                          *)

\* What tenTo[n] is the number of: a one and n zeros.
Power(n) == [i \in 1 .. n + 1 |-> IF i = 1 THEN 1 ELSE 0]

\* The equation that tenTo is defined by.
PowersOfTen(f) == f = [n \in Nat |-> IF n = 0 THEN 1 ELSE 10 * f[n - 1]]

LEMMA PowersExist == \E f : PowersOfTen(f)
  <1> DEFINE f == [n \in Nat |-> Folded(10, Power(n), 1 .. n + 1)]
  <1>1. ASSUME NEW n \in Nat
        PROVE  \E p : Horner(p, 10, Power(n), n + 1) /\ f[n] = p[n + 1]
    <2>1. Power(n) \in [1 .. n + 1 -> Nat] /\ n + 1 \in Nat
      BY DEF Power
    <2>2. f[n] = Folded(10, Power(n), 1 .. n + 1)
      OBVIOUS
    <2> HIDE DEF f
    <2> QED BY <2>1, <2>2, FoldedInOrder
  <1> HIDE DEF f
  <1>2. f[0] = 1
    <2>1. PICK p : Horner(p, 10, Power(0), 0 + 1) /\ f[0] = p[0 + 1]
      BY <1>1
    <2>2. p[0] = 0 /\ p[1] = 10 * p[0] + Power(0)[1]
      BY <2>1 DEF Horner, Follows
    <2>3. Power(0)[1] = 1
      BY DEF Power
    <2> QED BY <2>1, <2>2, <2>3
  <1>3. ASSUME NEW n \in Nat PROVE f[n + 1] = 10 * f[n]
    <2>1. PICK q : Horner(q, 10, Power(n), n + 1) /\ f[n] = q[n + 1]
      BY <1>1
    <2>2. PICK p : Horner(p, 10, Power(n + 1), (n + 1) + 1) /\ f[n + 1] = p[(n + 1) + 1]
      BY <1>1
    <2>3. Power(n + 1) \in [1 .. (n + 1) + 1 -> Nat]
      BY DEF Power
    <2>4. \A i \in 1 .. n + 1 : Power(n + 1)[i] = Power(n)[i]
      BY DEF Power
    <2>5. Follows(q, 10, Power(n + 1), n + 1)
      BY <2>1, <2>4 DEF Horner, Follows
    <2>6. \A i \in 0 .. n + 1 : p[i] = q[i]
      <3>1. n + 1 \in Nat /\ (n + 1) + 1 \in Nat /\ n + 1 <= (n + 1) + 1
        OBVIOUS
      <3> QED BY <2>2, <2>3, <2>5, <3>1, HornerUnique
    <2>7. /\ p[(n + 1) + 1] = 10 * p[((n + 1) + 1) - 1] + Power(n + 1)[(n + 1) + 1]
          /\ ((n + 1) + 1) - 1 = n + 1 /\ n + 1 \in 0 .. n + 1
      BY <2>2 DEF Horner, Follows
    <2>8. Power(n + 1)[(n + 1) + 1] = 0
      BY DEF Power
    <2>9. q[n + 1] \in Nat
      BY <2>1 DEF Horner, Follows
    <2> QED BY <2>1, <2>2, <2>6, <2>7, <2>8, <2>9
  <1>4. \A n \in Nat : f[n] = IF n = 0 THEN 1 ELSE 10 * f[n - 1]
    <2> SUFFICES ASSUME NEW n \in Nat, n # 0 PROVE f[n] = 10 * f[n - 1]
      BY <1>2
    <2>1. n - 1 \in Nat /\ (n - 1) + 1 = n
      OBVIOUS
    <2> QED BY <1>3, <2>1
  <1>5. f = [n \in Nat |-> f[n]]
    BY DEF f
  <1> QED BY <1>4, <1>5 DEF PowersOfTen

LEMMA PowersFollow ==
  /\ tenTo[0] = 1
  /\ \A n \in Nat : tenTo[n + 1] = 10 * tenTo[n]
  /\ \A n \in Nat : tenTo[n] \in Nat \ {0}
  <1>1. tenTo = CHOOSE f : PowersOfTen(f)
    BY DEF tenTo, PowersOfTen
  <1>2. PowersOfTen(tenTo)
    BY <1>1, PowersExist
  <1>3. \A n \in Nat : tenTo[n] = IF n = 0 THEN 1 ELSE 10 * tenTo[n - 1]
    BY <1>2 DEF PowersOfTen
  <1>4. tenTo[0] = 1
    BY <1>3
  <1>5. ASSUME NEW n \in Nat PROVE tenTo[n + 1] = 10 * tenTo[n]
    <2>1. n + 1 \in Nat /\ n + 1 # 0 /\ (n + 1) - 1 = n
      OBVIOUS
    <2> QED BY <1>3, <2>1
  <1> DEFINE typed == {n \in Nat : tenTo[n] \in Nat \ {0}}
  <1>6. 0 \in typed
    BY <1>4
  <1>7. ASSUME NEW n \in Nat, n \in typed PROVE n + 1 \in typed
    <2>1. tenTo[n + 1] = 10 * tenTo[n] /\ tenTo[n] \in Nat \ {0}
      BY <1>5, <1>7
    <2>2. 10 * tenTo[n] \in Nat \ {0}
      BY <2>1
    <2> QED BY <2>1, <2>2
  <1>8. Nat \subseteq typed
    <2> HIDE DEF typed
    <2> QED BY <1>6, <1>7, NaturalsByInduction
  <1> QED BY <1>4, <1>5, <1>8

\* Ten to a sum of exponents.
LEMMA PowersMultiply ==
  ASSUME NEW a \in Nat, NEW b \in Nat
  PROVE  tenTo[a + b] = tenTo[a] * tenTo[b]
  <1> DEFINE good == {n \in Nat : tenTo[a + n] = tenTo[a] * tenTo[n]}
  <1>1. tenTo[a] \in Nat /\ tenTo[0] = 1 /\ a + 0 = a
    BY PowersFollow
  <1>2. 0 \in good
    BY <1>1
  <1>3. ASSUME NEW n \in Nat, n \in good PROVE n + 1 \in good
    <2>1. tenTo[n + 1] = 10 * tenTo[n] /\ tenTo[n] \in Nat /\ tenTo[a + n] = tenTo[a] * tenTo[n]
      BY <1>3, PowersFollow
    <2>2. a + (n + 1) = (a + n) + 1 /\ a + n \in Nat
      OBVIOUS
    <2>3. tenTo[(a + n) + 1] = 10 * tenTo[a + n]
      BY <2>2, PowersFollow
    <2>4. \A x, y \in Nat : 10 * (x * y) = x * (10 * y)
      OBVIOUS
    <2>5. tenTo[a + (n + 1)] = tenTo[a] * tenTo[n + 1]
      BY <1>1, <2>1, <2>2, <2>3, <2>4
    <2> QED BY <2>5
  <1>4. Nat \subseteq good
    <2> HIDE DEF good
    <2> QED BY <1>2, <1>3, NaturalsByInduction
  <1> QED BY <1>4

-----------------------------------------------------------------------------
(* The numbers that digits stand for.                                      *)

\* The numbers of the first digits of F.
ReadsTo(q, F, n) == Follows(q, 10, F, n)
Reads(p, F, n) == F \in [1 .. n -> Nat] /\ Horner(p, 10, F, n)

\* Each digit adds to ten times the number of those before it.
LEMMA NumberInOrder ==
  ASSUME NEW s \in Seq(Nat)
  PROVE  /\ \E p : Reads(p, s, Len(s)) /\ number(s) = p[Len(s)]
         /\ number(s) \in Nat
  <1>1. Len(s) \in Nat /\ s \in [1 .. Len(s) -> Nat] /\ DOMAIN s = 1 .. Len(s)
    BY LenProperties
  <1>2. number(s) = Folded(10, s, DOMAIN s)
    BY DEF number, FoldLeft, MapThenFoldSet, Folded, Folds
  <1>3. PICK p : Reads(p, s, Len(s)) /\ Folded(10, s, 1 .. Len(s)) = p[Len(s)]
    <2>1. \E p : Horner(p, 10, s, Len(s)) /\ Folded(10, s, 1 .. Len(s)) = p[Len(s)]
      BY <1>1, FoldedInOrder
    <2> QED BY <1>1, <2>1 DEF Reads
  <1>4. p[Len(s)] \in Nat
    <2>1. p \in [0 .. Len(s) -> Nat]
      BY <1>3 DEF Reads, Horner
    <2> QED BY <1>1, <2>1
  <1> QED BY <1>1, <1>2, <1>3, <1>4

\* What the first digits add up to does not depend on those after them.
LEMMA SamePrefix ==
  ASSUME NEW n \in Nat, NEW F, NEW p, Reads(p, F, n),
         NEW k \in Nat, k <= n, NEW r, ReadsTo(r, F, k)
  PROVE  p[k] = r[k]
  <1>1. \A i \in 0 .. k : p[i] = r[i]
    BY HornerUnique DEF Reads, ReadsTo
  <1> QED BY <1>1

\* F has the m digits of G and then the l digits of H.
Joins(F, G, m, H, l) ==
  (\A i \in 1 .. m : F[i] = G[i]) /\ (\A i \in 1 .. l : F[m + i] = H[i])

LEMMA Joined ==
  ASSUME NEW m \in Nat, NEW l \in Nat, NEW n \in Nat, n = m + l,
         NEW F, NEW G, NEW H, Joins(F, G, m, H, l),
         NEW r, Reads(r, G, m), NEW q, Reads(q, H, l), NEW p, Reads(p, F, n)
  PROVE  p[n] = r[m] * tenTo[l] + q[l]
  <1>1. p[m] = r[m]
    <2>1. ReadsTo(r, F, m)
      BY DEF Joins, Reads, ReadsTo, Horner, Follows
    <2>2. m <= n
      OBVIOUS
    <2> QED BY <2>1, <2>2, SamePrefix
  <1>2. PICK x \in Nat : x = r[m]
    BY DEF Reads, Horner
  <1> DEFINE good == {j \in Nat : j <= l => p[m + j] = x * tenTo[j] + q[j]}
  <1>3. 0 \in good
    <2>1. tenTo[0] = 1 /\ q[0] = 0 /\ m + 0 = m
      BY PowersFollow DEF Joins, Reads, ReadsTo, Horner, Follows
    <2>2. p[m + 0] = x * tenTo[0] + q[0]
      BY <1>1, <1>2, <2>1
    <2> QED BY <2>2
  <1>4. ASSUME NEW j \in Nat, j \in good PROVE j + 1 \in good
    <2>1. CASE j + 1 <= l
      <3>1. /\ j <= l /\ j + 1 \in 1 .. l /\ (j + 1) - 1 = j /\ j \in 0 .. l
            /\ m + (j + 1) \in 1 .. n /\ (m + (j + 1)) - 1 = m + j
        BY <2>1
      <3>2. p[m + (j + 1)] = 10 * p[m + j] + H[j + 1]
        BY <3>1 DEF Joins, Reads, ReadsTo, Horner, Follows
      <3>3. q \in [0 .. l -> Nat] /\ q[j + 1] = 10 * q[j] + H[j + 1]
        BY <3>1 DEF Joins, Reads, ReadsTo, Horner, Follows
      <3>4. p[m + j] = x * tenTo[j] + q[j]
        BY <1>4, <3>1
      <3>5. tenTo[j + 1] = 10 * tenTo[j]
        BY PowersFollow
      <3>6. PICK a \in Nat, c \in Nat, d \in Nat : a = tenTo[j] /\ c = q[j] /\ d = H[j + 1]
        <4>1. H[j + 1] \in Nat
          BY <3>1 DEF Reads
        <4> QED BY <3>1, <3>3, <4>1, PowersFollow
      <3>7. 10 * (x * a + c) + d = x * (10 * a) + (10 * c + d)
        <4>1. x \in Nat /\ a \in Nat /\ c \in Nat /\ d \in Nat
          BY <1>2, <3>6
        <4> QED BY ONLY <4>1
      <3>8. p[m + (j + 1)] = x * tenTo[j + 1] + q[j + 1]
        BY <3>2, <3>3, <3>4, <3>5, <3>6, <3>7
      <3> QED BY <3>8
    <2>2. CASE ~ (j + 1 <= l)
      BY <2>2
    <2> QED BY <2>1, <2>2
  <1>5. Nat \subseteq good
    <2> HIDE DEF good
    <2> QED BY <1>3, <1>4, NaturalsByInduction
  <1>6. p[m + l] = x * tenTo[l] + q[l]
    BY <1>5
  <1> QED BY <1>2, <1>6

LEMMA NumberOfConcat ==
  ASSUME NEW s \in Seq(Nat), NEW t \in Seq(Nat)
  PROVE  number(s \o t) = number(s) * tenTo[Len(t)] + number(t)
  <1>1. /\ s \o t \in Seq(Nat) /\ Len(s \o t) = Len(s) + Len(t)
        /\ \A i \in 1 .. Len(s) + Len(t) : (s \o t)[i] = IF i <= Len(s) THEN s[i] ELSE t[i - Len(s)]
    BY ConcatProperties
  <1>2. PICK m \in Nat, l \in Nat, n \in Nat : m = Len(s) /\ l = Len(t) /\ n = m + l
    BY LenProperties
  <1>3. PICK u : u = s \o t
    OBVIOUS
  <1>4. s \in [1 .. m -> Nat] /\ t \in [1 .. l -> Nat] /\ u \in [1 .. n -> Nat]
    BY <1>1, <1>2, <1>3, LenProperties
  <1>5. \A i \in 1 .. m : u[i] = s[i]
    <2>1. \A i \in 1 .. m : i \in 1 .. m + l /\ i <= m
      BY <1>2
    <2> QED BY <1>1, <1>2, <1>3, <2>1
  <1>6. \A i \in 1 .. l : u[m + i] = t[i]
    <2>1. \A i \in 1 .. l : m + i \in 1 .. m + l /\ ~ (m + i <= m) /\ (m + i) - m = i
      BY <1>2
    <2> QED BY <1>1, <1>2, <1>3, <2>1
  <1>7. PICK r : Reads(r, s, m) /\ number(s) = r[m]
    BY <1>2, NumberInOrder
  <1>8. PICK q : Reads(q, t, l) /\ number(t) = q[l]
    BY <1>2, NumberInOrder
  <1>9. PICK p : Reads(p, u, n) /\ number(u) = p[n]
    BY <1>1, <1>2, <1>3, NumberInOrder
  <1>10. p[n] = r[m] * tenTo[l] + q[l]
    <2>1. Joins(u, s, m, t, l)
      BY <1>5, <1>6 DEF Joins
    <2>2. m \in Nat /\ l \in Nat /\ n \in Nat /\ n = m + l
      BY <1>2
    <2>3. Reads(r, s, m) /\ Reads(q, t, l) /\ Reads(p, u, n)
      BY <1>7, <1>8, <1>9
    <2> QED BY ONLY <2>1, <2>2, <2>3, Joined
  <1> QED BY <1>2, <1>3, <1>7, <1>8, <1>9, <1>10

\* Zeros stand for zero.
LEMMA NumberOfZeros ==
  ASSUME NEW s \in Seq(Nat), \A i \in 1 .. Len(s) : s[i] = 0
  PROVE  number(s) = 0
  <1>1. Len(s) \in Nat
    BY LenProperties
  <1>2. PICK p : Reads(p, s, Len(s)) /\ number(s) = p[Len(s)]
    BY NumberInOrder
  <1> DEFINE q == [i \in 0 .. Len(s) |-> 0]
  <1>3. ReadsTo(q, s, Len(s))
    BY <1>1 DEF ReadsTo, Follows
  <1>4. q[Len(s)] = 0 /\ s \in [1 .. Len(s) -> Nat]
    BY <1>1
  <1> HIDE DEF q
  <1>5. \A i \in 0 .. Len(s) : p[i] = q[i]
    <2>1. Len(s) <= Len(s)
      BY <1>1
    <2> QED BY <1>1, <1>2, <1>3, <1>4, <2>1, HornerUnique DEF Reads, ReadsTo
  <1> QED BY <1>1, <1>2, <1>4, <1>5

\* So many digits stand for less than this power of ten.
LEMMA NumberBelow ==
  ASSUME NEW s \in Seq(0 .. 9)
  PROVE  number(s) < tenTo[Len(s)]
  <1>1. Len(s) \in Nat /\ s \in Seq(Nat) /\ \A i \in 1 .. Len(s) : s[i] \in 0 .. 9
    BY LenProperties
  <1>2. PICK p : Reads(p, s, Len(s)) /\ number(s) = p[Len(s)]
    BY <1>1, NumberInOrder
  <1> DEFINE good == {i \in Nat : i <= Len(s) => p[i] < tenTo[i]}
  <1>3. 0 \in good
    <2>1. p[0] < tenTo[0]
      BY <1>2, PowersFollow DEF Reads, ReadsTo, Horner, Follows
    <2> QED BY <2>1
  <1>4. ASSUME NEW i \in Nat, i \in good PROVE i + 1 \in good
    <2>1. CASE i + 1 <= Len(s)
      <3>1. i <= Len(s) /\ i \in 0 .. Len(s) /\ i + 1 \in 1 .. Len(s) /\ (i + 1) - 1 = i
        BY <1>1, <2>1
      <3>2. p[i + 1] = 10 * p[i] + s[i + 1] /\ p[i] \in Nat
        BY <1>2, <3>1 DEF Reads, ReadsTo, Horner, Follows
      <3>3. s[i + 1] \in 0 .. 9 /\ p[i] < tenTo[i]
        BY <1>1, <1>4, <3>1
      <3>4. tenTo[i + 1] = 10 * tenTo[i] /\ tenTo[i] \in Nat
        BY PowersFollow
      <3>5. \A a, b \in Nat, d \in 0 .. 9 : a < b => 10 * a + d < 10 * b
        OBVIOUS
      <3>6. 10 * p[i] + s[i + 1] < 10 * tenTo[i]
        BY <3>2, <3>3, <3>4, <3>5
      <3>7. p[i + 1] < tenTo[i + 1]
        BY <3>2, <3>4, <3>6
      <3> QED BY <3>7
    <2>2. CASE ~ (i + 1 <= Len(s))
      BY <2>2
    <2> QED BY <2>1, <2>2
  <1>5. Nat \subseteq good
    <2> HIDE DEF good
    <2> QED BY <1>3, <1>4, NaturalsByInduction
  <1> QED BY <1>1, <1>2, <1>5

-----------------------------------------------------------------------------
(* Products.                                                               *)

LEMMA ProductType ==
  ASSUME NEW x \in Nat, NEW y \in Nat
  PROVE  x * y \in Nat
  OBVIOUS

LEMMA ProductsOrdered ==
  ASSUME NEW x \in Nat, NEW z \in Nat, NEW y \in Nat
  PROVE  /\ x <= z => x * y <= z * y
         /\ x < z /\ y # 0 => x * y < z * y
  <1>1. ASSUME x <= z PROVE x * y <= z * y
    <2>1. PICK e \in Nat : z = x + e
      BY <1>1
    <2>2. (x + e) * y = x * y + e * y
      OBVIOUS
    <2>3. e * y \in Nat /\ x * y \in Nat
      BY ProductType
    <2> QED BY <2>1, <2>2, <2>3
  <1>2. ASSUME x < z, y # 0 PROVE x * y < z * y
    <2>1. PICK e \in Nat : z = (x + e) + 1
      <3>1. (z - x) - 1 \in Nat /\ z = (x + ((z - x) - 1)) + 1
        BY <1>2
      <3> QED BY <3>1
    <2>2. ((x + e) + 1) * y = (x * y + e * y) + y
      OBVIOUS
    <2>3. e * y \in Nat /\ x * y \in Nat
      BY ProductType
    <2> QED BY <1>2, <2>1, <2>2, <2>3
  <1> QED BY <1>1, <1>2

\* What is left of a number of more digits after its first ones.
LEMMA FloorOfMore ==
  ASSUME NEW n \in Nat, NEW r \in Nat, NEW x \in Nat, NEW y \in Nat, r < x, y # 0
  PROVE  n * (x * y) <= (n * x + r) * y /\ (n * x + r) * y < (n + 1) * (x * y)
  <1>1. PICK k \in Nat : k = r * y
    BY ProductType
  <1>2. PICK p \in Nat : p = x * y
    BY ProductType
  <1>3. PICK h \in Nat : h = n * (x * y)
    BY ProductType, <1>2
  <1>4. (n * x + r) * y = n * (x * y) + r * y
    OBVIOUS
  <1>5. (n + 1) * (x * y) = n * (x * y) + x * y
    OBVIOUS
  <1>6. r * y < x * y
    BY ProductsOrdered
  <1> QED BY <1>1, <1>2, <1>3, <1>4, <1>5, <1>6

LEMMA FloorOfFewer ==
  ASSUME NEW b \in Nat, NEW x \in Nat, NEW y \in Nat, y # 0
  PROVE  (b * x) * y <= b * (x * y) /\ b * (x * y) < (b * x + 1) * y
  <1>1. b * (x * y) = (b * x) * y /\ (b * x + 1) * y = (b * x) * y + y
    OBVIOUS
  <1>2. (b * x) * y \in Nat
    BY ProductType
  <1> QED BY <1>1, <1>2

LEMMA FloorOfSum ==
  ASSUME NEW w \in Nat, NEW n \in Nat, NEW b \in Nat, NEW x \in Nat, NEW y \in Nat,
         n * y <= b * x, b * x < (n + 1) * y
  PROVE  /\ (w * x + n) * y <= (w * y + b) * x
         /\ (w * y + b) * x < (w * x + n + 1) * y
  <1>1. PICK h \in Nat : h = w * (x * y)
    <2>1. w * (x * y) \in Nat
      BY ProductType
    <2> QED BY <2>1
  <1>2. n * y \in Nat /\ b * x \in Nat /\ (n + 1) * y \in Nat
    BY ProductType
  <1>3. (w * x + n) * y = w * (x * y) + n * y
    OBVIOUS
  <1>4. (w * y + b) * x = w * (x * y) + b * x
    OBVIOUS
  <1>5. (w * x + n + 1) * y = w * (x * y) + (n + 1) * y
    OBVIOUS
  <1> QED BY <1>1, <1>2, <1>3, <1>4, <1>5

\* A floor is less than what its number is less than.
LEMMA FloorBelow ==
  ASSUME NEW wei \in Nat, NEW worth \in Nat, NEW scale \in Nat, NEW exact \in Nat,
         wei * scale <= exact, exact < worth * scale
  PROVE  wei < worth
  <1> SUFFICES ASSUME worth <= wei PROVE FALSE
    OBVIOUS
  <1>1. worth * scale <= wei * scale
    BY ProductsOrdered
  <1>2. worth * scale \in Nat /\ wei * scale \in Nat
    BY ProductType
  <1> QED BY <1>1, <1>2

-----------------------------------------------------------------------------
(* Conversion.                                                             *)

Digit == 0 .. 9

LEMMA DigitsAreNumbers == \A s \in Seq(Digit) : s \in Seq(Nat)
  BY DEF Digit

\* Nothing before the point, or after it, stands for zero.
LEMMA NothingIsZero ==
  ASSUME NEW s \in Seq(Digit)
  PROVE  orZero(s) \in Seq(Digit) /\ orZero(s) # <<>> /\ number(orZero(s)) = number(s)
  <1>1. CASE s = <<>>
    <2>1. orZero(s) = <<0>> /\ <<0>> \in Seq(Nat) /\ <<0>> \in Seq(Digit)
      BY <1>1 DEF orZero, Digit
    <2>2. number(<<0>>) = 0
      <3>1. \A i \in 1 .. Len(<<0>>) : <<0>>[i] = 0
        OBVIOUS
      <3> QED BY <2>1, <3>1, NumberOfZeros
    <2>3. number(<<>>) = 0
      <3>1. <<>> \in Seq(Nat) /\ \A i \in 1 .. Len(<<>>) : <<>>[i] = 0
        OBVIOUS
      <3> QED BY <3>1, NumberOfZeros
    <2>4. number(s) = 0
      BY <1>1, <2>3
    <2>5. number(orZero(s)) = 0
      BY <2>1, <2>2
    <2>6. orZero(s) # <<>>
      <3>1. Len(<<0>>) # Len(<<>>)
        OBVIOUS
      <3> QED BY <2>1, <3>1
    <2> QED BY <2>1, <2>4, <2>5, <2>6
  <1>2. CASE s # <<>>
    BY <1>2 DEF orZero
  <1> QED BY <1>1, <1>2

\* The digits that count are the first ones, or all and zeros after them.
LEMMA FittedDigits ==
  ASSUME NEW s \in Seq(Digit), NEW n \in Nat
  PROVE  /\ fitted(s, n) \in Seq(Digit) /\ Len(fitted(s, n)) = n
         /\ \A i \in 1 .. n : fitted(s, n)[i] = IF i <= Len(s) THEN s[i] ELSE 0
         /\ Len(s) \in Nat
  <1>1. Len(s) \in Nat /\ \A i \in 1 .. Len(s) : s[i] \in Digit
    BY LenProperties
  <1>2. \A i \in 1 .. n : (IF i <= Len(s) THEN s[i] ELSE 0) \in Digit
    BY <1>1 DEF Digit
  <1>3. fitted(s, n) \in [1 .. n -> Digit]
    BY <1>2 DEF fitted
  <1>4. fitted(s, n) \in Seq(Digit) /\ Len(fitted(s, n)) = n
    <2>1. fitted(s, n) \in Seq(Digit)
      BY <1>3, IsASeq DEF fitted
    <2>2. DOMAIN fitted(s, n) = 1 .. n
      BY <1>3
    <2> QED BY <2>1, <2>2, LenProperties
  <1>5. \A i \in 1 .. n : fitted(s, n)[i] = IF i <= Len(s) THEN s[i] ELSE 0
    BY DEF fitted
  <1> QED BY <1>1, <1>4, <1>5

\* Two sequences of the same elements are the same.
LEMMA SameSequence ==
  ASSUME NEW s \in Seq(Nat), NEW t \in Seq(Nat), Len(s) = Len(t),
         \A i \in 1 .. Len(s) : s[i] = t[i]
  PROVE  s = t
  BY LenProperties

\* So many wei there are in a fraction, as the digits that count tell.
LEMMA FractionFloor ==
  ASSUME NEW f \in Seq(Digit), NEW n \in Nat
  PROVE  /\ number(fitted(f, n)) \in Nat /\ number(f) \in Nat
         /\ number(fitted(f, n)) * tenTo[Len(f)] <= number(f) * tenTo[n]
         /\ number(f) * tenTo[n] < (number(fitted(f, n)) + 1) * tenTo[Len(f)]
  <1>1. PICK g : g = fitted(f, n)
    OBVIOUS
  <1>2. PICK m \in Nat : m = Len(f)
    BY LenProperties
  <1>3. /\ g \in Seq(Digit) /\ Len(g) = n
        /\ \A i \in 1 .. n : g[i] = IF i <= m THEN f[i] ELSE 0
    BY <1>1, <1>2, FittedDigits
  <1>4. g \in Seq(Nat) /\ f \in Seq(Nat)
    BY <1>3, DigitsAreNumbers
  <1>5. number(g) \in Nat /\ number(f) \in Nat
    BY <1>4, NumberInOrder
  <1>6. tenTo[m] \in Nat \ {0} /\ tenTo[n] \in Nat \ {0}
    BY PowersFollow
  <1>7. CASE m <= n
    <2>1. PICK k \in Nat : n = k + m
      <3>1. n - m \in Nat /\ n = (n - m) + m
        BY <1>7
      <3> QED BY <3>1
    <2>2. PICK z : z = [i \in 1 .. k |-> 0]
      OBVIOUS
    <2>3. z \in Seq(Nat) /\ Len(z) = k /\ \A i \in 1 .. k : z[i] = 0
      <3>1. z \in [1 .. k -> Nat]
        BY <2>2
      <3>2. z \in Seq(Nat)
        BY <3>1
      <3>3. DOMAIN z = 1 .. k
        BY <3>1
      <3> QED BY <2>2, <3>2, <3>3, LenProperties
    <2>4. g = f \o z
      <3>1. /\ f \o z \in Seq(Nat) /\ Len(f \o z) = m + k
            /\ \A i \in 1 .. m + k : (f \o z)[i] = IF i <= m THEN f[i] ELSE z[i - m]
        BY <1>2, <1>4, <2>3, ConcatProperties
      <3>2. \A i \in 1 .. n : i \in 1 .. m + k /\ (i <= m \/ i - m \in 1 .. k)
        BY <2>1
      <3>3. \A i \in 1 .. n : g[i] = (f \o z)[i]
        BY <1>3, <2>3, <3>1, <3>2
      <3>4. Len(g) = n /\ Len(f \o z) = n
        BY <1>3, <2>1, <3>1
      <3> QED BY <1>4, <3>1, <3>3, <3>4, SameSequence
    <2>5. number(g) = number(f) * tenTo[k]
      <3>1. number(z) = 0
        BY <2>3, NumberOfZeros
      <3>2. number(f \o z) = number(f) * tenTo[k] + number(z)
        BY <1>4, <2>3, NumberOfConcat
      <3>3. number(f) * tenTo[k] \in Nat
        BY <1>5, PowersFollow, ProductType
      <3> QED BY <2>4, <3>1, <3>2, <3>3
    <2>6. tenTo[n] = tenTo[k] * tenTo[m]
      BY <2>1, PowersMultiply
    <2>7. tenTo[k] \in Nat
      BY PowersFollow
    <2> QED BY <1>1, <1>2, <1>5, <1>6, <2>5, <2>6, <2>7, FloorOfFewer
  <1>8. CASE ~ (m <= n)
    <2>1. PICK k \in Nat : m = k + n
      <3>1. m - n \in Nat /\ m = (m - n) + n
        BY <1>8
      <3> QED BY <3>1
    <2>2. PICK s : s = [i \in 1 .. k |-> f[n + i]]
      OBVIOUS
    <2>3. s \in Seq(Digit) /\ s \in Seq(Nat) /\ Len(s) = k /\ \A i \in 1 .. k : s[i] = f[n + i]
      <3>1. \A i \in 1 .. k : n + i \in 1 .. m
        BY <2>1
      <3>2. \A i \in 1 .. m : f[i] \in Digit
        BY <1>2
      <3>3. s \in [1 .. k -> Digit]
        BY <2>2, <3>1, <3>2
      <3>4. s \in Seq(Digit) /\ DOMAIN s = 1 .. k
        BY <3>3
      <3>5. Len(s) = k
        BY <3>4, LenProperties
      <3> QED BY <2>2, <3>4, <3>5, DigitsAreNumbers
    <2>4. f = g \o s
      <3>1. /\ g \o s \in Seq(Nat) /\ Len(g \o s) = n + k
            /\ \A i \in 1 .. n + k : (g \o s)[i] = IF i <= n THEN g[i] ELSE s[i - n]
        BY <1>3, <1>4, <2>3, ConcatProperties
      <3>2. \A i \in 1 .. m : /\ i \in 1 .. n + k
                              /\ (i <= n => i \in 1 .. n /\ i <= m)
                              /\ (~ (i <= n) => i - n \in 1 .. k /\ n + (i - n) = i)
        BY <2>1
      <3>3. ASSUME NEW i \in 1 .. m
            PROVE  f[i] = (g \o s)[i]
        <4>1. (g \o s)[i] = IF i <= n THEN g[i] ELSE s[i - n]
          BY <3>1, <3>2
        <4>2. CASE i <= n
          <5>1. g[i] = f[i]
            BY <1>3, <3>2, <4>2
          <5> QED BY <4>1, <4>2, <5>1
        <4>3. CASE ~ (i <= n)
          <5>1. s[i - n] = f[n + (i - n)]
            BY <2>3, <3>2, <4>3
          <5>2. n + (i - n) = i
            BY <3>2, <4>3
          <5> QED BY <4>1, <4>3, <5>1, <5>2
        <4> QED BY <4>2, <4>3
      <3>4. Len(f) = m /\ Len(g \o s) = m
        BY <1>2, <2>1, <3>1
      <3> QED BY <1>4, <3>1, <3>3, <3>4, SameSequence
    <2>5. number(f) = number(g) * tenTo[k] + number(s)
      BY <1>4, <2>3, <2>4, NumberOfConcat
    <2>6. number(s) \in Nat /\ number(s) < tenTo[k]
      BY <2>3, NumberInOrder, NumberBelow DEF Digit
    <2>7. tenTo[m] = tenTo[k] * tenTo[n] /\ tenTo[k] \in Nat
      BY <2>1, PowersMultiply, PowersFollow
    <2> QED BY <1>1, <1>2, <1>5, <1>6, <2>5, <2>6, <2>7, FloorOfMore
  <1> QED BY <1>7, <1>8

\* toWei leaves out the fraction of a wei, and nothing else.
LEMMA ConversionIsFloor ==
  ASSUME NEW a \in Numerals, NEW n \in Nat \ {0}
  PROVE  isFloor(toWei(a, n), a, n) /\ toWei(a, n) \in Nat
  <1>1. PICK w \in Seq(Digit), f \in Seq(Digit) : w = a.whole /\ f = a.fraction
    BY DEF Numerals, Digit
  <1>2. PICK d : d = number(fitted(orZero(f), n))
    OBVIOUS
  <1>3. toWei(a, n) = number(w) * tenTo[n] + d
    <2>1. number(orZero(w)) = number(w)
      BY NothingIsZero
    <2>2. baseLength(n) = n
      BY DEF baseLength
    <2> QED BY <1>1, <1>2, <2>1, <2>2 DEF toWei
  <1>4. w \in Seq(Nat) /\ f \in Seq(Nat) /\ Len(f) \in Nat
    BY DigitsAreNumbers, LenProperties
  <1>5. number(w \o f) = number(w) * tenTo[Len(f)] + number(f)
    BY <1>4, NumberOfConcat
  <1>6. d \in Nat /\ number(w) \in Nat /\ number(f) \in Nat
    BY <1>2, <1>4, NumberInOrder, NothingIsZero, FractionFloor
  <1>7. tenTo[n] \in Nat /\ tenTo[Len(f)] \in Nat \ {0}
    BY <1>4, PowersFollow
  <1>8. d * tenTo[Len(f)] <= number(f) * tenTo[n] /\ number(f) * tenTo[n] < (d + 1) * tenTo[Len(f)]
    <2>1. CASE f # <<>>
      <3>1. orZero(f) = f
        BY <2>1 DEF orZero
      <3> QED BY <1>2, <3>1, FractionFloor
    <2>2. CASE f = <<>>
      <3>1. orZero(f) = <<0>> /\ <<0>> \in Seq(Digit) /\ Len(<<0>>) = 1
        BY <2>2 DEF orZero, Digit
      <3>2. number(f) = 0 /\ number(<<0>>) = 0
        <4>1. \A i \in 1 .. Len(<<0>>) : <<0>>[i] = 0
          OBVIOUS
        <4>2. <<0>> \in Seq(Nat) /\ \A i \in 1 .. Len(<<>>) : <<>>[i] = 0
          OBVIOUS
        <4> QED BY <1>4, <2>2, <4>1, <4>2, NumberOfZeros
      <3>3. number(fitted(<<0>>, n)) = 0
        <4>1. /\ fitted(<<0>>, n) \in Seq(Digit) /\ Len(fitted(<<0>>, n)) = n
              /\ \A i \in 1 .. n : fitted(<<0>>, n)[i] = IF i <= 1 THEN <<0>>[i] ELSE 0
          BY <3>1, FittedDigits
        <4>2. \A i \in 1 .. n : i <= 1 => <<0>>[i] = 0
          OBVIOUS
        <4>3. \A i \in 1 .. n : fitted(<<0>>, n)[i] = 0
          BY <4>1, <4>2
        <4> QED BY <4>1, <4>3, DigitsAreNumbers, NumberOfZeros
      <3>4. Len(f) = 0 /\ tenTo[0] = 1
        BY <2>2, PowersFollow
      <3>5. d = 0
        BY <1>2, <3>1, <3>3
      <3> QED BY <1>7, <3>2, <3>4, <3>5
    <2> QED BY <2>1, <2>2
  <1>9. toWei(a, n) \in Nat
    <2>1. number(w) * tenTo[n] \in Nat
      BY <1>6, <1>7, ProductType
    <2> QED BY <1>3, <1>6, <2>1
  <1>10. PICK x \in Nat, y \in Nat, b \in Nat, v \in Nat :
           x = tenTo[n] /\ y = tenTo[Len(f)] /\ b = number(f) /\ v = number(w)
    BY <1>6, <1>7
  <1>11. /\ (v * x + d) * y <= (v * y + b) * x
         /\ (v * y + b) * x < (v * x + d + 1) * y
    <2>1. d * y <= b * x /\ b * x < (d + 1) * y
      BY <1>8, <1>10
    <2> QED BY <1>6, <2>1, FloorOfSum
  <1>12. /\ toWei(a, n) * y <= number(w \o f) * x
         /\ number(w \o f) * x < (toWei(a, n) + 1) * y
    BY <1>3, <1>5, <1>10, <1>11
  <1> QED BY <1>1, <1>9, <1>10, <1>12 DEF isFloor
-----------------------------------------------------------------------------
(* The inductive invariant.                                                *)

Answers == [id : Ids, call : Calls, ok : BOOLEAN]
Received == [id : Ids, process : 0 .. process, call : Calls]

\* The calls have ids that have been given, and the services run once started.
ClientOK(c) ==
  /\ c = [rpcCalls |-> c.rpcCalls, nextRpcId |-> c.nextRpcId, started |-> c.started,
          loading |-> c.loading, services |-> c.services]
  /\ c.nextRpcId \in Nat
  /\ \A i \in DOMAIN c.rpcCalls : i \in Nat /\ i < c.nextRpcId /\ c.rpcCalls[i] \in Calls
  /\ c.started \in BOOLEAN
  /\ c.loading \subseteq Answers
  /\ c.services = IF c.started THEN 1 ELSE 0

\* A message makes one call at most, and none while it waits for the rates.
Decided == {n \in 1 .. MaxMessages : n <= Len(asked) /\ n \notin fiat.asking}
Bounded == client.nextRpcId <= MaxPings + Cardinality(Decided)

\* Unless hidden by an answer without the rate, the rates are those of the
\* time noted.
FiatOK(f) ==
  /\ f = [cachedAt |-> f.cachedAt, asOf |-> f.asOf, asking |-> f.asking, hidden |-> f.hidden]
  /\ f.cachedAt \in 0 .. now /\ f.asOf \in 0 .. f.cachedAt /\ f.hidden \in BOOLEAN
  /\ ~ f.hidden => f.asOf = f.cachedAt
  /\ f.asking \subseteq 0 .. Len(asked)

TypeInv ==
  /\ ClientOK(client) /\ Bounded /\ FiatOK(fiat)
  /\ process \in Nat /\ now \in 1 .. MaxTime /\ failures \in 0 .. MaxFailures
  /\ requests \cup paid \subseteq Received
  /\ \A q \in paid : q.call.kind = "payment"
  /\ asked \in Seq(Messages) /\ Len(asked) <= MaxMessages
  /\ told \in Seq(SUBSET Replies) /\ Len(told) = Len(asked)

\* A payment was ordered by a message, for what it asks and within the limit.
Justified(o) ==
  /\ o.payment.message \in 1 .. Len(asked)
  /\ isFloor(o.payment.value, asked[o.payment.message].amount, Decimals)
  /\ ~ o.hidden => \E t \in (o.at - AgeLimit) .. o.at : o.payment.value < Worth[t]

\* What there is of message n: the calls that wait, the answers whose session is
\* being loaded, the payments made, and what the user was told.
CallsOf(n) ==
  {i \in DOMAIN client.rpcCalls :
     client.rpcCalls[i].kind = "payment" /\ client.rpcCalls[i].message = n}
AnswersOf(n) == {l \in client.loading : l.call.kind = "payment" /\ l.call.message = n}
PaymentsOf(n) == {q \in paid : q.call.message = n}
Told(n, what) == n \in 1 .. Len(told) /\ what \in told[n]

Waits(n) == n \in fiat.asking \/ n > Len(asked)
Untouched(n) ==
  CallsOf(n) = {} /\ AnswersOf(n) = {} /\ PaymentsOf(n) = {} /\ ~ Told(n, "error") /\ ~ Told(n, "paid")

\* A message is waiting, called for, answered or settled, one after the other.
Accounted(n) ==
  /\ Waits(n) => Untouched(n)
  /\ CallsOf(n) # {} => AnswersOf(n) = {} /\ PaymentsOf(n) = {} /\ ~ Told(n, "error")
  /\ \A i, j \in CallsOf(n) : i = j
  /\ \A l \in AnswersOf(n) : ~ Told(n, "error") /\ (l.ok <=> PaymentsOf(n) # {})
  /\ \A k, l \in AnswersOf(n) : k = l
  /\ Told(n, "paid") => PaymentsOf(n) # {}
  /\ Told(n, "error") => PaymentsOf(n) = {}

\* In the first process a call that the headless client holds is the one that
\* waits under its id.
Accounts ==
  process = 0 =>
    /\ \A q \in requests : q.id \in DOMAIN client.rpcCalls /\ client.rpcCalls[q.id] = q.call
    /\ \A n \in 1 .. MaxMessages : Accounted(n)

IInv == TypeInv /\ (\A o \in ordered : Justified(o)) /\ Accounts

-----------------------------------------------------------------------------
(* Calls and rates.                                                        *)

LEMMA TheCalls ==
  /\ ping \in Calls
  /\ \A n \in 1 .. MaxMessages, v \in Nat : payment(n, v) \in Calls
  /\ \A n, v : /\ payment(n, v).kind = "payment" /\ payment(n, v).message = n
               /\ payment(n, v).value = v
  /\ ping.kind = "ping"
  BY DEF Calls, Payments, ping, payment

\* A call gets the next id.
LEMMA RpcEffect ==
  ASSUME NEW c, ClientOK(c), NEW x \in Calls, NEW d, d = rpc(c, x)
  PROVE  /\ ClientOK(d)
         /\ d.nextRpcId = c.nextRpcId + 1 /\ d.loading = c.loading
         /\ DOMAIN d.rpcCalls = DOMAIN c.rpcCalls \cup {c.nextRpcId}
         /\ d.rpcCalls[c.nextRpcId] = x
         /\ \A i \in DOMAIN c.rpcCalls : i # c.nextRpcId /\ d.rpcCalls[i] = c.rpcCalls[i]
  <1>1. d = [rpcCalls |-> registered(c.rpcCalls, c.nextRpcId, x), nextRpcId |-> c.nextRpcId + 1,
             started |-> c.started, loading |-> c.loading, services |-> c.services]
    BY DEF ClientOK, rpc, idAfter
  <1>2. PICK r : r = registered(c.rpcCalls, c.nextRpcId, x)
    OBVIOUS
  <1>3. DOMAIN r = DOMAIN c.rpcCalls \cup {c.nextRpcId}
    BY <1>2 DEF registered
  <1>4. r[c.nextRpcId] = x
    BY <1>2 DEF registered
  <1>5. \A i \in DOMAIN c.rpcCalls : i # c.nextRpcId /\ r[i] = c.rpcCalls[i]
    BY <1>2 DEF registered, ClientOK
  <1>6. ClientOK(d)
    <2>1. \A i \in DOMAIN r : i \in Nat /\ i < c.nextRpcId + 1 /\ r[i] \in Calls
      BY <1>3, <1>4, <1>5 DEF ClientOK
    <2> QED BY <1>1, <1>2, <2>1 DEF ClientOK
  <1> QED BY <1>1, <1>2, <1>3, <1>4, <1>5, <1>6

\* An answer takes its call away; one to a call that is not known does nothing.
LEMMA AnswerEffect ==
  ASSUME NEW c, ClientOK(c), c.nextRpcId <= MaxPings + MaxMessages, NEW id,
         NEW ok \in BOOLEAN, NEW d, d = onAnswer(c, id, ok)
  PROVE  /\ ClientOK(d) /\ d.nextRpcId = c.nextRpcId
         /\ id \in DOMAIN c.rpcCalls =>
              /\ DOMAIN d.rpcCalls = DOMAIN c.rpcCalls \ {id}
              /\ \A i \in DOMAIN d.rpcCalls : d.rpcCalls[i] = c.rpcCalls[i]
              /\ d.loading = c.loading \cup {[id |-> id, call |-> c.rpcCalls[id], ok |-> ok]}
  <1>1. CASE id \notin DOMAIN c.rpcCalls
    BY <1>1 DEF onAnswer
  <1>2. CASE id \in DOMAIN c.rpcCalls
    <2>1. PICK r, l : r = forgotten(c.rpcCalls, id) /\ l = [id |-> id, call |-> c.rpcCalls[id], ok |-> ok]
      OBVIOUS
    <2>2. d = [rpcCalls |-> r, nextRpcId |-> c.nextRpcId, started |-> c.started,
               loading |-> c.loading \cup {l}, services |-> c.services]
      BY <1>2, <2>1 DEF ClientOK, onAnswer
    <2>3. DOMAIN r = DOMAIN c.rpcCalls \ {id} /\ \A i \in DOMAIN r : r[i] = c.rpcCalls[i]
      BY <2>1 DEF forgotten
    <2>4. l \in Answers
      <3>1. id \in Ids /\ c.rpcCalls[id] \in Calls
        BY <1>2, SimpleBotAssumption DEF ClientOK, Ids
      <3> QED BY <2>1, <3>1 DEF Answers
    <2>5. ClientOK(d)
      BY <2>2, <2>3, <2>4 DEF ClientOK
    <2> QED BY <2>1, <2>2, <2>3, <2>5
  <1> QED BY <1>1, <1>2

\* Neither an answer taken out nor a ping disturbs what else there is.
LEMMA LoadingEffect ==
  ASSUME NEW c, ClientOK(c), NEW l, NEW d, d = [c EXCEPT !.loading = @ \ {l}]
  PROVE  /\ ClientOK(d) /\ d.nextRpcId = c.nextRpcId
         /\ d.rpcCalls = c.rpcCalls /\ d.loading = c.loading \ {l}
  <1>1. d = [rpcCalls |-> c.rpcCalls, nextRpcId |-> c.nextRpcId, started |-> c.started,
             loading |-> c.loading \ {l}, services |-> c.services]
    BY DEF ClientOK
  <1> QED BY <1>1 DEF ClientOK

LEMMA StartEffect ==
  ASSUME NEW c, ClientOK(c), NEW l, NEW d,
         d = [rpcCalls |-> c.rpcCalls, nextRpcId |-> c.nextRpcId, started |-> TRUE,
              loading |-> c.loading \ {l}, services |-> 1]
  PROVE  /\ ClientOK(d) /\ d.nextRpcId = c.nextRpcId
         /\ d.rpcCalls = c.rpcCalls /\ d.loading = c.loading \ {l}
  BY DEF ClientOK

\* Nor does the answer to a ping disturb what else there is.
LEMMA PingEffect ==
  ASSUME NEW c, ClientOK(c), NEW l, NEW ok \in BOOLEAN, NEW d,
         d = onPing([c EXCEPT !.loading = @ \ {l}], ok)
  PROVE  /\ ClientOK(d) /\ d.nextRpcId = c.nextRpcId
         /\ d.rpcCalls = c.rpcCalls /\ d.loading = c.loading \ {l}
  <1>1. CASE ok /\ ~ c.started
    <2>1. c.services = 0
      BY <1>1 DEF ClientOK
    <2>2. PICK e : e = [c EXCEPT !.loading = @ \ {l}]
      OBVIOUS
    <2>3. e = [rpcCalls |-> c.rpcCalls, nextRpcId |-> c.nextRpcId, started |-> c.started,
               loading |-> c.loading \ {l}, services |-> 0]
      BY <2>1, <2>2 DEF ClientOK
    <2>4. starts(e, ok)
      BY <1>1, <2>3 DEF starts
    <2>5. d = [e EXCEPT !.started = TRUE, !.services = 1]
      <3>1. d = [e EXCEPT !.started = TRUE, !.services = @ + 1]
        BY <2>2, <2>4 DEF onPing
      <3>2. e.services + 1 = 1
        BY <2>3
      <3> QED BY <3>1, <3>2
    <2>6. d = [rpcCalls |-> c.rpcCalls, nextRpcId |-> c.nextRpcId, started |-> TRUE,
               loading |-> c.loading \ {l}, services |-> 1]
      BY <2>3, <2>5
    <2> QED BY <2>6, StartEffect
  <1>2. CASE ~ (ok /\ ~ c.started)
    <2>1. d = [c EXCEPT !.loading = @ \ {l}]
      BY <1>2 DEF ClientOK, onPing, starts
    <2> QED BY <2>1, LoadingEffect
  <1> QED BY <1>1, <1>2

LEMMA AskingEffect ==
  ASSUME NEW f, FiatOK(f), NEW n, NEW d, d = getRates(f, n)
  PROVE  /\ d.cachedAt = f.cachedAt /\ d.asOf = f.asOf /\ d.hidden = f.hidden
         /\ d.asking = f.asking \cup {n}
         /\ d = [cachedAt |-> d.cachedAt, asOf |-> d.asOf, asking |-> d.asking, hidden |-> d.hidden]
  <1>1. d = [cachedAt |-> f.cachedAt, asOf |-> f.asOf, asking |-> f.asking \cup {n}, hidden |-> f.hidden]
    BY DEF FiatOK, getRates
  <1> QED BY <1>1

\* The rates that came are those of now.
LEMMA RatesEffect ==
  ASSUME NEW f, FiatOK(f), now \in Nat, NEW n, NEW answer \in RateAnswers,
         NEW d, d = onRates(f, n, answer, now)
  PROVE  /\ FiatOK(d) /\ d.asking = f.asking \ {n}
         /\ answer = "rates" => d.asOf = now
         /\ answer = "lacking" => d.hidden
  <1>1. d = [cachedAt |-> IF answer # "error" THEN now ELSE f.cachedAt,
             asOf |-> IF answer = "rates" THEN now ELSE f.asOf,
             asking |-> f.asking \ {n},
             hidden |-> IF answer = "error" THEN f.hidden ELSE answer # "rates"]
    BY DEF FiatOK, onRates, notesTime
  <1>2. d.asking = f.asking \ {n}
    BY <1>1
  <1>3. d = [cachedAt |-> d.cachedAt, asOf |-> d.asOf, asking |-> d.asking, hidden |-> d.hidden]
    BY <1>1
  <1>4. d.hidden = IF answer = "error" THEN f.hidden ELSE answer # "rates"
    BY <1>1
  <1>5. d.hidden \in BOOLEAN
    <2>1. f.hidden \in BOOLEAN
      BY DEF FiatOK
    <2> QED BY <1>4, <2>1, Zenon
  <1>6. CASE answer = "error"
    <2>1. d.cachedAt = f.cachedAt /\ d.asOf = f.asOf
      BY <1>1, <1>6
    <2>2. ~ f.hidden => f.asOf = f.cachedAt
      BY DEF FiatOK
    <2>3. ~ d.hidden => d.asOf = d.cachedAt
      BY <1>4, <1>6, <2>1, <2>2, Zenon
    <2> QED BY <1>2, <1>3, <1>5, <1>6, <2>1, <2>3 DEF FiatOK
  <1>7. CASE answer \in {"garbled", "lacking"}
    <2>1. d.cachedAt = now /\ d.asOf = f.asOf
      BY <1>1, <1>7
    <2>2. answer # "error" /\ answer # "rates"
      BY <1>7
    <2>3. d.hidden
      BY <1>4, <2>2, Zenon
    <2> QED BY <1>2, <1>3, <1>5, <2>1, <2>2, <2>3 DEF FiatOK
  <1>8. CASE answer = "rates"
    <2>1. d.cachedAt = now /\ d.asOf = now
      BY <1>1, <1>8
    <2> QED BY <1>2, <1>3, <1>5, <1>8, <2>1 DEF FiatOK
  <1> QED BY <1>6, <1>7, <1>8 DEF RateAnswers

-----------------------------------------------------------------------------
(* The number of calls.                                                    *)

LEMMA FewMessages ==
  ASSUME NEW D \in SUBSET (1 .. MaxMessages)
  PROVE  IsFiniteSet(D) /\ Cardinality(D) \in 0 .. MaxMessages
  <1>1. MaxMessages \in Nat /\ 1 \in Int /\ MaxMessages \in Int
    BY SimpleBotAssumption
  <1>2. IsFiniteSet(1 .. MaxMessages) /\ Cardinality(1 .. MaxMessages) = MaxMessages
    BY <1>1, FS_Interval
  <1>3. IsFiniteSet(D) /\ Cardinality(D) <= MaxMessages
    BY <1>2, FS_Subset
  <1> QED BY <1>1, <1>3, FS_CardinalityType

\* Ids are as many as pings and messages allow.
LEMMA IdsAreFew ==
  ASSUME ClientOK(client), Bounded
  PROVE  client.nextRpcId \in 0 .. MaxPings + MaxMessages
  <1>1. Cardinality(Decided) \in 0 .. MaxMessages
    <2>1. Decided \in SUBSET (1 .. MaxMessages)
      BY DEF Decided
    <2> QED BY <2>1, FewMessages
  <1>2. client.nextRpcId \in Nat /\ MaxPings \in Nat /\ MaxMessages \in Nat
    BY SimpleBotAssumption DEF ClientOK
  <1> QED BY <1>1, <1>2 DEF Bounded

LEMMA MoreDecided ==
  ASSUME NEW C \in SUBSET (1 .. MaxMessages), NEW D \in SUBSET (1 .. MaxMessages), C \subseteq D
  PROVE  /\ Cardinality(C) \in Nat /\ Cardinality(D) \in Nat
         /\ Cardinality(C) <= Cardinality(D)
         /\ \A n : n \in D /\ n \notin C => Cardinality(C) + 1 <= Cardinality(D)
  <1>1. /\ IsFiniteSet(C) /\ IsFiniteSet(D)
        /\ Cardinality(C) \in 0 .. MaxMessages /\ Cardinality(D) \in 0 .. MaxMessages
    BY FewMessages
  <1>2. Cardinality(C) \in Nat /\ Cardinality(D) \in Nat
    BY <1>1
  <1>3. Cardinality(C) <= Cardinality(D)
    BY <1>1, FS_Subset
  <1>4. ASSUME NEW n, n \in D, n \notin C
        PROVE  Cardinality(C) + 1 <= Cardinality(D)
    <2>1. Cardinality(C \cup {n}) = Cardinality(C) + 1
      BY <1>1, <1>4, FS_AddElement
    <2>2. C \cup {n} \in SUBSET D
      BY <1>4
    <2>3. Cardinality(C \cup {n}) <= Cardinality(D)
      BY <1>1, <2>2, FS_Subset
    <2> QED BY <2>1, <2>3
  <1> QED BY <1>2, <1>3, <1>4

LEMMA StaysBounded ==
  ASSUME ClientOK(client), Bounded, Decided \subseteq Decided',
         client'.nextRpcId = client.nextRpcId
  PROVE  Bounded'
  <1>1. Decided \in SUBSET (1 .. MaxMessages) /\ Decided' \in SUBSET (1 .. MaxMessages)
    BY DEF Decided
  <1>2. PICK C, D : C = Decided /\ D = Decided'
    OBVIOUS
  <1>3. /\ Cardinality(C) \in Nat /\ Cardinality(D) \in Nat /\ Cardinality(C) <= Cardinality(D)
    BY <1>1, <1>2, MoreDecided
  <1>4. client.nextRpcId \in Nat /\ MaxPings \in Nat
    BY SimpleBotAssumption DEF ClientOK
  <1>5. client.nextRpcId <= MaxPings + Cardinality(C)
    BY <1>2 DEF Bounded
  <1>6. client'.nextRpcId <= MaxPings + Cardinality(D)
    BY <1>3, <1>4, <1>5
  <1> QED BY <1>2, <1>6 DEF Bounded

LEMMA OneMoreDecided ==
  ASSUME ClientOK(client), Bounded, Decided \subseteq Decided', NEW n,
         n \in Decided', n \notin Decided, client'.nextRpcId = client.nextRpcId + 1
  PROVE  Bounded'
  <1>1. Decided \in SUBSET (1 .. MaxMessages) /\ Decided' \in SUBSET (1 .. MaxMessages)
    BY DEF Decided
  <1>2. PICK C, D : C = Decided /\ D = Decided'
    OBVIOUS
  <1>3. /\ Cardinality(C) \in Nat /\ Cardinality(D) \in Nat /\ Cardinality(C) + 1 <= Cardinality(D)
    BY <1>1, <1>2, MoreDecided
  <1>4. client.nextRpcId \in Nat /\ MaxPings \in Nat
    BY SimpleBotAssumption DEF ClientOK
  <1>5. client.nextRpcId <= MaxPings + Cardinality(C)
    BY <1>2 DEF Bounded
  <1>6. client'.nextRpcId <= MaxPings + Cardinality(D)
    BY <1>3, <1>4, <1>5
  <1> QED BY <1>2, <1>6 DEF Bounded

\* While a message waits there is an id for its call.
LEMMA RoomForCall ==
  ASSUME ClientOK(client), Bounded, NEW n, n \in 1 .. MaxMessages, n \notin Decided
  PROVE  client.nextRpcId \in Ids
  <1>1. Decided \in SUBSET (1 .. MaxMessages) /\ 1 .. MaxMessages \in SUBSET (1 .. MaxMessages)
    BY DEF Decided
  <1>2. PICK C : C = Decided
    OBVIOUS
  <1>3. Cardinality(C) \in Nat /\ Cardinality(C) + 1 <= Cardinality(1 .. MaxMessages)
    BY <1>1, <1>2, MoreDecided
  <1>4. Cardinality(1 .. MaxMessages) \in 0 .. MaxMessages
    BY <1>1, FewMessages
  <1>5. client.nextRpcId <= MaxPings + Cardinality(C)
    BY <1>2 DEF Bounded
  <1>6. client.nextRpcId \in Nat /\ MaxPings \in Nat /\ MaxMessages \in Nat
    BY SimpleBotAssumption DEF ClientOK
  <1> QED BY <1>3, <1>4, <1>5, <1>6 DEF Ids

-----------------------------------------------------------------------------
(* The account of a message.                                               *)

\* What does not concern a message leaves its account as it was.
LEMMA Undisturbed ==
  ASSUME NEW n, Accounted(n),
         CallsOf(n)' = CallsOf(n), AnswersOf(n)' = AnswersOf(n), PaymentsOf(n)' = PaymentsOf(n),
         Told(n, "error")' <=> Told(n, "error"), Told(n, "paid")' <=> Told(n, "paid"),
         Waits(n)' => Waits(n)
  PROVE  Accounted(n)'
  BY DEF Accounted, Untouched

\* A call belongs to the message whose payment it is.
LEMMA CallsAfterRpc ==
  ASSUME ClientOK(client), NEW x \in Calls, client' = rpc(client, x), NEW n
  PROVE  CallsOf(n)' = IF x.kind = "payment" /\ x.message = n
                       THEN CallsOf(n) \cup {client.nextRpcId} ELSE CallsOf(n)
  <1>1. PICK d : d = client'
    OBVIOUS
  <1>2. /\ DOMAIN d.rpcCalls = DOMAIN client.rpcCalls \cup {client.nextRpcId}
        /\ d.rpcCalls[client.nextRpcId] = x
        /\ \A i \in DOMAIN client.rpcCalls : i # client.nextRpcId /\ d.rpcCalls[i] = client.rpcCalls[i]
    BY <1>1, RpcEffect
  <1>3. CallsOf(n)' = {i \in DOMAIN d.rpcCalls : d.rpcCalls[i].kind = "payment" /\ d.rpcCalls[i].message = n}
    BY <1>1 DEF CallsOf
  <1> QED BY <1>2, <1>3 DEF CallsOf

LEMMA SameAnswers ==
  ASSUME client'.loading = client.loading, NEW n
  PROVE  AnswersOf(n)' = AnswersOf(n)
  BY DEF AnswersOf

LEMMA SameCalls ==
  ASSUME client'.rpcCalls = client.rpcCalls, NEW n
  PROVE  CallsOf(n)' = CallsOf(n)
  BY DEF CallsOf

LEMMA SamePayments ==
  ASSUME paid' = paid, NEW n
  PROVE  PaymentsOf(n)' = PaymentsOf(n)
  BY DEF PaymentsOf

-----------------------------------------------------------------------------
(* Answering a message.                                                    *)

\* A payment is ordered: the rates are there and the amount is below the limit.
Pays(n, m, t, f) ==
  /\ f.asOf # 0 /\ isLess(m.amount, Worth[f.asOf]) /\ ~ m.amount.negative
  /\ call(payment(n, toWei(m.amount, Decimals)))
  /\ ordered' = ordered \cup {[payment |-> payment(n, toWei(m.amount, Decimals)),
                               at |-> now, hidden |-> f.hidden]}
  /\ told' = t

\* The rates are known, of a time within the age limit unless that is hidden.
Known(f) == f.asOf \in 1 .. MaxTime /\ (~ f.hidden => f.asOf \in (now - AgeLimit) .. now)

\* Or not: the user may be told so.
Replied(n, t) ==
  \/ told' = t
  \/ \E v \in Replies \ {"paid"} : told' = [t EXCEPT ![n] = @ \cup {v}]

Declines(n, t) == UNCHANGED <<client, requests, ordered>> /\ Replied(n, t)

\* Every verdict has its effect.  Whether there are rates is whether a = b.
LEMMA ResumeEffect ==
  ASSUME NEW n, NEW m, NEW t, NEW f, NEW a, NEW b, resume(n, m, t, f, a = b)
  PROVE  (a = b /\ Pays(n, m, t, f)) \/ Declines(n, t)
  <1>1. PICK v : v = verdictOn(m, f, a = b)
    OBVIOUS
  <1>2. CASE v = "pays"
    <2>1. a = b /\ f.asOf # 0 /\ isLess(m.amount, Worth[f.asOf]) /\ ~ m.amount.negative
      BY <1>1, <1>2 DEF verdictOn, verdict, known, isConvertible, refusal
    <2>2. /\ call(payment(n, toWei(m.amount, Decimals)))
          /\ ordered' = ordered \cup {[payment |-> payment(n, toWei(m.amount, Decimals)),
                                       at |-> now, hidden |-> f.hidden]}
          /\ told' = t
      BY <1>1, <1>2, Zenon DEF resume
    <2> QED BY <2>1, <2>2 DEF Pays
  <1>3. CASE v # "pays"
    <2>1. /\ told' = IF v = "nothing" THEN t ELSE [t EXCEPT ![n] = @ \cup {v}]
          /\ UNCHANGED <<client, requests, ordered>>
      BY <1>1, <1>3, Zenon DEF resume
    <2>2. v \in {"nothing", "rate", "sorry", "limit", "error"}
      BY <1>1, <1>3 DEF verdictOn, verdict, refusal
    <2>3. v = "nothing" \/ v \in Replies \ {"paid"}
      BY <2>2 DEF Replies
    <2>4. Replied(n, t)
      BY <2>1, <2>3 DEF Replied
    <2> QED BY <2>1, <2>4 DEF Declines
  <1> QED BY <1>2, <1>3

\* A reply is one of those there are, and never that a payment is made.
LEMMA ReplyEffect ==
  ASSUME NEW t \in Seq(SUBSET Replies), NEW n \in 1 .. Len(t), NEW v \in Replies, NEW u,
         u = [t EXCEPT ![n] = @ \cup {v}]
  PROVE  /\ u \in Seq(SUBSET Replies) /\ Len(u) = Len(t)
         /\ u[n] = t[n] \cup {v}
         /\ \A k \in 1 .. Len(t) : k # n => u[k] = t[k]
  <1>1. Len(t) \in Nat /\ t \in [1 .. Len(t) -> SUBSET Replies]
    BY LenProperties
  <1>2. u \in [1 .. Len(t) -> SUBSET Replies]
    <2>1. t[n] \cup {v} \in SUBSET Replies
      BY <1>1
    <2> QED BY <1>1, <2>1
  <1>3. u \in Seq(SUBSET Replies)
    BY <1>1, <1>2
  <1>4. Len(u) = Len(t)
    BY <1>1, <1>2, <1>3, LenProperties
  <1>5. u[n] = t[n] \cup {v} /\ \A k \in 1 .. Len(t) : k # n => u[k] = t[k]
    BY <1>1
  <1> QED BY <1>3, <1>4, <1>5

LEMMA RepliedEffect ==
  ASSUME NEW t \in Seq(SUBSET Replies), NEW n \in 1 .. Len(t), Replied(n, t)
  PROVE  /\ told' \in Seq(SUBSET Replies) /\ Len(told') = Len(t)
         /\ "paid" \in told'[n] => "paid" \in t[n]
         /\ \A k \in 1 .. Len(t) : k # n => told'[k] = t[k]
  <1>1. CASE told' = t
    BY <1>1
  <1>2. ASSUME NEW v \in Replies \ {"paid"}, told' = [t EXCEPT ![n] = @ \cup {v}]
        PROVE  /\ told' \in Seq(SUBSET Replies) /\ Len(told') = Len(t)
               /\ "paid" \in told'[n] => "paid" \in t[n]
               /\ \A k \in 1 .. Len(t) : k # n => told'[k] = t[k]
    <2>1. PICK u : u = told'
      OBVIOUS
    <2>2. /\ u \in Seq(SUBSET Replies) /\ Len(u) = Len(t)
          /\ u[n] = t[n] \cup {v}
          /\ \A k \in 1 .. Len(t) : k # n => u[k] = t[k]
      BY <1>2, <2>1, ReplyEffect
    <2> QED BY <2>1, <2>2
  <1> QED BY <1>1, <1>2 DEF Replied

\* The turn of message n, the message m: t is what the users were told before it.
Turn(n, m, t) ==
  /\ n \in 1 .. MaxMessages /\ Waits(n)
  /\ m \in Messages
  /\ t \in Seq(SUBSET Replies) /\ n \in 1 .. Len(t) /\ Len(t) = Len(asked)'
  /\ process = 0 => "paid" \notin t[n] /\ "error" \notin t[n]
  /\ \A k : k # n => (k \in 1 .. Len(t) <=> k \in 1 .. Len(told))
  /\ \A k \in 1 .. Len(told) : k # n => t[k] = told[k]
  /\ ~ Waits(n)' /\ \A k \in Nat : k # n => (Waits(k)' <=> Waits(k))
  /\ asked' \in Seq(Messages) /\ asked'[n] = m
  /\ \A k \in 1 .. Len(asked) : k \in 1 .. Len(asked)' /\ asked'[k] = asked[k]
  /\ UNCHANGED <<process, paid, now>>

LEMMA TurnDecides ==
  ASSUME NEW n, NEW m, NEW t, Turn(n, m, t), asked \in Seq(Messages)
  PROVE  Decided \subseteq Decided' /\ n \in Decided' /\ n \notin Decided
  <1>1. \A k \in 1 .. MaxMessages : (k \in Decided <=> ~ Waits(k)) /\ (k \in Decided' <=> ~ Waits(k)')
    <2>1. Len(asked) \in Nat /\ Len(asked)' \in Nat
      BY LenProperties DEF Turn
    <2> QED BY <2>1 DEF Decided, Waits
  <1>2. Decided \subseteq 1 .. MaxMessages
    BY DEF Decided
  <1> QED BY <1>1, <1>2 DEF Turn

LEMMA PaymentIsCall ==
  ASSUME NEW n \in 1 .. MaxMessages, NEW m \in Messages
  PROVE  /\ payment(n, toWei(m.amount, Decimals)) \in Calls
         /\ payment(n, toWei(m.amount, Decimals)).kind = "payment"
         /\ payment(n, toWei(m.amount, Decimals)).message = n
  <1>1. m.amount \in Numerals /\ Decimals \in Nat \ {0}
    BY SimpleBotAssumption
  <1>2. toWei(m.amount, Decimals) \in Nat
    BY <1>1, ConversionIsFloor
  <1> QED BY <1>2, TheCalls

\* Requests match the calls that wait, and go on to when one is added.
Matched == \A q \in requests : q.id \in DOMAIN client.rpcCalls /\ client.rpcCalls[q.id] = q.call

LEMMA CallEffect ==
  ASSUME ClientOK(client), Bounded, process \in Nat, UNCHANGED process, requests \subseteq Received,
         NEW x \in Calls, call(x), client.nextRpcId \in Ids
  PROVE  /\ ClientOK(client)' /\ client'.nextRpcId = client.nextRpcId + 1
         /\ client'.loading = client.loading
         /\ (requests \subseteq Received)'
         /\ Matched => Matched'
  <1>1. PICK d : d = client' /\ d = rpc(client, x)
    BY DEF call
  <1>2. /\ ClientOK(d) /\ d.nextRpcId = client.nextRpcId + 1 /\ d.loading = client.loading
        /\ DOMAIN d.rpcCalls = DOMAIN client.rpcCalls \cup {client.nextRpcId}
        /\ d.rpcCalls[client.nextRpcId] = x
        /\ \A i \in DOMAIN client.rpcCalls : i # client.nextRpcId /\ d.rpcCalls[i] = client.rpcCalls[i]
    BY <1>1, RpcEffect
  <1>3. PICK r : r = [id |-> client.nextRpcId, process |-> process, call |-> x]
    OBVIOUS
  <1>4. requests' \subseteq requests \cup {r}
    BY <1>3 DEF call
  <1>5. r \in Received /\ Received' = Received
    <2>1. process \in 0 .. process
      OBVIOUS
    <2> QED BY <1>3, <2>1 DEF Received
  <1>6. (requests \subseteq Received)'
    BY <1>4, <1>5
  <1>7. ASSUME Matched PROVE Matched'
    <2>1. ASSUME NEW q \in requests'
          PROVE  q.id \in DOMAIN d.rpcCalls /\ d.rpcCalls[q.id] = q.call
      <3>1. CASE q = r
        BY <1>2, <1>3, <3>1
      <3>2. CASE q \in requests
        BY <1>2, <1>7, <3>2 DEF Matched
      <3> QED BY <1>4, <3>1, <3>2
    <2> QED BY <1>1, <2>1 DEF Matched
  <1>8. ClientOK(client)'
    BY <1>1, <1>2 DEF ClientOK
  <1> QED BY <1>1, <1>2, <1>6, <1>7, <1>8

LEMMA ToldInTurn ==
  ASSUME NEW n, NEW m, NEW t, Turn(n, m, t), told \in Seq(SUBSET Replies),
         told' = t \/ Replied(n, t)
  PROVE  /\ told' \in Seq(SUBSET Replies) /\ Len(told)' = Len(asked)'
         /\ process = 0 => ~ Told(n, "paid")' /\ (told' = t => ~ Told(n, "error")')
         /\ \A k : k # n => /\ Told(k, "paid")' <=> Told(k, "paid")
                            /\ Told(k, "error")' <=> Told(k, "error")
  <1>1. Replied(n, t)
    BY DEF Replied
  <1>2. /\ t \in Seq(SUBSET Replies) /\ n \in 1 .. Len(t)
        /\ process = 0 => "paid" \notin t[n] /\ "error" \notin t[n]
    BY DEF Turn
  <1>3. PICK u : u = told'
    OBVIOUS
  <1>4. /\ u \in Seq(SUBSET Replies) /\ Len(u) = Len(t)
        /\ "paid" \in u[n] => "paid" \in t[n]
        /\ \A k \in 1 .. Len(t) : k # n => u[k] = t[k]
    BY <1>1, <1>2, <1>3, RepliedEffect
  <1>5. \A k, w : Told(k, w)' <=> (k \in 1 .. Len(u) /\ w \in u[k])
    BY <1>3 DEF Told
  <1>6. process = 0 => ~ Told(n, "paid")' /\ (u = t => ~ Told(n, "error")')
    BY <1>2, <1>4, <1>5
  <1>7. ASSUME NEW k, k # n, NEW w
        PROVE  Told(k, w)' <=> Told(k, w)
    <2>1. /\ k \in 1 .. Len(t) <=> k \in 1 .. Len(told)
          /\ k \in 1 .. Len(told) => t[k] = told[k]
      BY <1>7 DEF Turn
    <2> QED BY <1>4, <1>5, <1>7, <2>1 DEF Told
  <1>8. Len(told)' = Len(asked)'
    BY <1>3, <1>4 DEF Turn
  <1> QED BY <1>3, <1>4, <1>6, <1>7, <1>8

\* Every other message keeps its account, and message n gets one.
LEMMA TurnKeepsAccounts ==
  ASSUME TypeInv, Accounts, NEW n, NEW m, NEW t, NEW f, Turn(n, m, t),
         Pays(n, m, t, f) \/ Declines(n, t)
  PROVE  Accounts'
  <1>1. ClientOK(client) /\ Bounded /\ process \in Nat /\ requests \subseteq Received /\ told \in Seq(SUBSET Replies)
    BY DEF TypeInv
  <1>2. n \in 1 .. MaxMessages /\ m \in Messages /\ Waits(n) /\ ~ Waits(n)'
        /\ UNCHANGED <<process, paid>>
    BY DEF Turn
  <1>3. SUFFICES ASSUME process = 0
                 PROVE  Matched' /\ \A k \in 1 .. MaxMessages : Accounted(k)'
    BY <1>2 DEF Accounts, Matched
  <1>4. Matched /\ \A k \in 1 .. MaxMessages : Accounted(k)
    BY <1>3 DEF Accounts, Matched
  <1>5. Untouched(n)
    BY <1>2, <1>4 DEF Accounted
  <1>6. /\ ~ Told(n, "paid")'
        /\ told' = t => ~ Told(n, "error")'
        /\ \A k : k # n => /\ Told(k, "paid")' <=> Told(k, "paid")
                           /\ Told(k, "error")' <=> Told(k, "error")
    BY <1>1, <1>3, ToldInTurn DEF Pays, Declines
  <1>7. \A k : PaymentsOf(k)' = PaymentsOf(k)
    BY <1>2, SamePayments
  <1>8. CASE Pays(n, m, t, f)
    <2>1. PICK x : x = payment(n, toWei(m.amount, Decimals))
      OBVIOUS
    <2>2. x \in Calls /\ x.kind = "payment" /\ x.message = n
      BY <1>2, <2>1, PaymentIsCall
    <2>3. call(x) /\ client' = rpc(client, x)
      BY <1>8, <2>1 DEF Pays, call
    <2>4. client.nextRpcId \in Ids
      <3>1. n \notin Decided
        BY TurnDecides DEF TypeInv
      <3> QED BY <1>1, <1>2, <3>1, RoomForCall
    <2>5. client'.loading = client.loading /\ (Matched => Matched')
      BY <1>1, <1>2, <2>2, <2>3, <2>4, CallEffect
    <2>6. \A k : AnswersOf(k)' = AnswersOf(k)
      BY <2>5, SameAnswers
    <2>7. \A k : CallsOf(k)' = IF k = n THEN CallsOf(k) \cup {client.nextRpcId} ELSE CallsOf(k)
      <3>1. ASSUME NEW k
            PROVE  CallsOf(k)' = IF x.kind = "payment" /\ x.message = k
                                 THEN CallsOf(k) \cup {client.nextRpcId} ELSE CallsOf(k)
        BY <1>1, <2>2, <2>3, CallsAfterRpc
      <3> QED BY <2>2, <3>1
    <2>8. Accounted(n)'
      <3>1. CallsOf(n)' = {client.nextRpcId} /\ AnswersOf(n)' = {} /\ PaymentsOf(n)' = {}
        BY <1>5, <1>7, <2>6, <2>7 DEF Untouched
      <3>2. ~ Told(n, "error")' /\ ~ Told(n, "paid")'
        BY <1>6, <1>8 DEF Pays
      <3> QED BY <1>2, <3>1, <3>2 DEF Accounted
    <2>9. ASSUME NEW k \in 1 .. MaxMessages, k # n
          PROVE  Accounted(k)'
      <3>1. CallsOf(k)' = CallsOf(k) /\ AnswersOf(k)' = AnswersOf(k) /\ PaymentsOf(k)' = PaymentsOf(k)
        BY <1>7, <2>6, <2>7, <2>9
      <3>2. Waits(k)' => Waits(k)
        BY <2>9 DEF Turn
      <3> QED BY <1>4, <1>6, <2>9, <3>1, <3>2, Undisturbed
    <2> QED BY <1>4, <2>5, <2>8, <2>9
  <1>9. CASE Declines(n, t)
    <2>1. Matched'
      BY <1>4, <1>9 DEF Declines, Matched
    <2>2. \A k : CallsOf(k)' = CallsOf(k) /\ AnswersOf(k)' = AnswersOf(k)
      BY <1>9, SameCalls, SameAnswers DEF Declines
    <2>3. Accounted(n)'
      <3>1. CallsOf(n)' = {} /\ AnswersOf(n)' = {} /\ PaymentsOf(n)' = {}
        BY <1>5, <1>7, <2>2 DEF Untouched
      <3> QED BY <1>2, <1>6, <3>1 DEF Accounted
    <2>4. ASSUME NEW k \in 1 .. MaxMessages, k # n
          PROVE  Accounted(k)'
      <3>1. CallsOf(k)' = CallsOf(k) /\ AnswersOf(k)' = AnswersOf(k) /\ PaymentsOf(k)' = PaymentsOf(k)
        BY <1>7, <2>2
      <3>2. Waits(k)' => Waits(k)
        BY <2>4 DEF Turn
      <3> QED BY <1>4, <1>6, <2>4, <3>1, <3>2, Undisturbed
    <2> QED BY <2>1, <2>3, <2>4
  <1> QED BY <1>8, <1>9

\* Turn n keeps what the types say of the client, the replies and the requests.
LEMMA TurnKeepsTypes ==
  ASSUME TypeInv, NEW n, NEW m, NEW t, NEW f, Turn(n, m, t),
         Pays(n, m, t, f) \/ Declines(n, t)
  PROVE  /\ ClientOK(client)' /\ Bounded'
         /\ (requests \cup paid \subseteq Received)'
         /\ told' \in Seq(SUBSET Replies) /\ Len(told)' = Len(asked)'
  <1>1. /\ ClientOK(client) /\ Bounded /\ process \in Nat /\ told \in Seq(SUBSET Replies)
        /\ requests \subseteq Received /\ paid \subseteq Received /\ asked \in Seq(Messages)
    BY DEF TypeInv
  <1>2. n \in 1 .. MaxMessages /\ m \in Messages /\ UNCHANGED <<process, paid>>
    BY DEF Turn
  <1>3. Decided \subseteq Decided' /\ n \in Decided' /\ n \notin Decided
    BY <1>1, TurnDecides
  <1>4. told' \in Seq(SUBSET Replies) /\ Len(told)' = Len(asked)'
    BY <1>1, ToldInTurn DEF Pays, Declines
  <1>5. (paid \subseteq Received)'
    BY <1>1, <1>2 DEF Received
  <1>6. CASE Pays(n, m, t, f)
    <2>1. PICK x : x = payment(n, toWei(m.amount, Decimals))
      OBVIOUS
    <2>2. x \in Calls
      BY <1>2, <2>1, PaymentIsCall
    <2>3. call(x)
      BY <1>6, <2>1 DEF Pays
    <2>4. client.nextRpcId \in Ids
      BY <1>1, <1>2, <1>3, RoomForCall
    <2>5. /\ ClientOK(client)' /\ client'.nextRpcId = client.nextRpcId + 1
          /\ (requests \subseteq Received)'
      BY <1>1, <1>2, <2>2, <2>3, <2>4, CallEffect
    <2>6. Bounded'
      BY <1>1, <1>3, <2>5, OneMoreDecided
    <2> QED BY <1>4, <1>5, <2>5, <2>6
  <1>7. CASE Declines(n, t)
    <2>1. UNCHANGED <<client, requests>>
      BY <1>7 DEF Declines
    <2>2. ClientOK(client)'
      BY <1>1, <2>1 DEF ClientOK
    <2>3. Bounded'
      BY <1>1, <1>3, <2>1, StaysBounded
    <2>4. (requests \subseteq Received)'
      BY <1>1, <1>2, <2>1 DEF Received
    <2> QED BY <1>4, <1>5, <2>2, <2>3, <2>4
  <1> QED BY <1>6, <1>7

\* The payment ordered in turn n is what is asked, and below what the rates tell.
LEMMA TurnIsJustified ==
  ASSUME TypeInv, \A o \in ordered : Justified(o),
         NEW n, NEW m, NEW t, NEW f, Turn(n, m, t),
         Pays(n, m, t, f) \/ Declines(n, t),
         Declines(n, t) \/ Known(f)
  PROVE  (\A o \in ordered : Justified(o))'
  <1>1. ASSUME NEW o \in ordered
        PROVE  Justified(o)'
    <2>1. o.payment.message \in 1 .. Len(asked)
      BY DEF Justified
    <2>2. o.payment.message \in 1 .. Len(asked)' /\ asked'[o.payment.message] = asked[o.payment.message]
      BY <2>1 DEF Turn
    <2> QED BY <2>2 DEF Justified
  <1>2. CASE Pays(n, m, t, f) /\ Known(f)
    <2>1. PICK w : w = toWei(m.amount, Decimals)
      OBVIOUS
    <2>2. PICK o : o = [payment |-> payment(n, w), at |-> now, hidden |-> f.hidden]
      OBVIOUS
    <2>3. ordered' = ordered \cup {o}
      BY <1>2, <2>1, <2>2 DEF Pays
    <2>4. o.payment.message = n /\ o.payment.value = w /\ o.at = now /\ o.hidden = f.hidden
      BY <2>2, TheCalls
    <2>5. n \in 1 .. Len(asked)' /\ asked'[n] = m /\ m \in Messages
      BY DEF Turn
    <2>6. m.amount \in Numerals /\ Decimals \in Nat \ {0}
      BY <2>5, SimpleBotAssumption
    <2>7. isFloor(w, m.amount, Decimals) /\ w \in Nat
      BY <2>1, <2>6, ConversionIsFloor
    <2>8. f.asOf \in 1 .. MaxTime /\ Worth[f.asOf] \in Nat
      BY <1>2, SimpleBotAssumption DEF Known
    <2>9. w < Worth[f.asOf]
      <3>1. PICK worth \in Nat : worth = Worth[f.asOf]
        BY <2>8
      <3>2. isLess(m.amount, worth) /\ ~ m.amount.negative
        BY <1>2, <3>1 DEF Pays
      <3>3. PICK scale, exact : /\ scale = tenTo[Len(m.amount.fraction)]
                                /\ exact = number(m.amount.whole \o m.amount.fraction) * tenTo[Decimals]
        OBVIOUS
      <3>4. exact < worth * scale /\ w * scale <= exact
        BY <2>7, <3>2, <3>3 DEF isLess, isFloor
      <3>5. scale \in Nat /\ exact \in Nat
        <4>1. m.amount.whole \in Seq(Digit) /\ m.amount.fraction \in Seq(Digit)
          BY <2>6 DEF Numerals, Digit
        <4>2. m.amount.whole \in Seq(Nat) /\ m.amount.fraction \in Seq(Nat) /\ Len(m.amount.fraction) \in Nat
          BY <4>1, DigitsAreNumbers, LenProperties
        <4>3. m.amount.whole \o m.amount.fraction \in Seq(Nat)
          BY <4>2, ConcatProperties
        <4>4. number(m.amount.whole \o m.amount.fraction) \in Nat
          BY <4>3, NumberInOrder
        <4>5. tenTo[Decimals] \in Nat /\ tenTo[Len(m.amount.fraction)] \in Nat
          BY <2>6, <4>2, PowersFollow
        <4> QED BY <3>3, <4>4, <4>5, ProductType
      <3> QED BY <2>7, <3>1, <3>4, <3>5, FloorBelow
    <2>10. Justified(o)'
      <3>1. ~ o.hidden => \E u \in (o.at - AgeLimit) .. o.at : o.payment.value < Worth[u]
        <4>1. SUFFICES ASSUME ~ f.hidden
                       PROVE  \E u \in (o.at - AgeLimit) .. o.at : o.payment.value < Worth[u]
          BY <2>4
        <4>2. f.asOf \in (now - AgeLimit) .. now
          BY <1>2, <4>1 DEF Known
        <4> QED BY <2>4, <2>9, <4>2
      <3> QED BY <2>4, <2>5, <2>7, <3>1 DEF Justified
    <2> QED BY <1>1, <2>3, <2>10
  <1>3. CASE Declines(n, t)
    BY <1>1, <1>3 DEF Declines
  <1> QED BY <1>2, <1>3

-----------------------------------------------------------------------------
(* The steps.                                                              *)

LEMMA InitEstablishes == Init => IInv
  <1> SUFFICES ASSUME Init PROVE IInv
    OBVIOUS
  <1>1. /\ now = AgeLimit + 1 /\ now \in 1 .. MaxTime /\ now \in Nat
        /\ process = 0 /\ failures = 0 /\ asked = <<>> /\ told = <<>>
        /\ requests = {} /\ paid = {} /\ ordered = {}
        /\ Len(asked) = 0
    BY SimpleBotAssumption DEF Init
  <1>2. client = [rpcCalls |-> <<>>, nextRpcId |-> 0, started |-> FALSE, loading |-> {}, services |-> 0]
    BY DEF Init, NewClient
  <1>3. ClientOK(client)
    BY <1>2 DEF ClientOK
  <1>4. FiatOK(fiat)
    <2>1. fiat = [cachedAt |-> 0, asOf |-> 0, asking |-> {0}, hidden |-> FALSE]
      BY DEF Init, Booted, getRates, NewFiat
    <2> QED BY <1>1, <2>1 DEF FiatOK
  <1>5. Bounded
    <2>1. Decided \in SUBSET (1 .. MaxMessages)
      BY DEF Decided
    <2>2. PICK k \in Nat : k = Cardinality(Decided)
      BY <2>1, FewMessages
    <2>3. client.nextRpcId = 0 /\ MaxPings \in Nat
      BY <1>2, SimpleBotAssumption
    <2> QED BY <2>2, <2>3 DEF Bounded
  <1>6. TypeInv
    BY <1>1, <1>3, <1>4, <1>5, SimpleBotAssumption DEF TypeInv
  <1>7. Accounts
    <2>1. ASSUME NEW n \in 1 .. MaxMessages PROVE Accounted(n)
      <3>1. CallsOf(n) = {} /\ AnswersOf(n) = {}
        BY <1>2 DEF CallsOf, AnswersOf
      <3>2. PaymentsOf(n) = {} /\ ~ Told(n, "error") /\ ~ Told(n, "paid")
        BY <1>1 DEF PaymentsOf, Told
      <3> QED BY <3>1, <3>2 DEF Accounted, Untouched
    <2> QED BY <1>1, <2>1 DEF Accounts
  <1> QED BY <1>1, <1>6, <1>7 DEF IInv

LEMMA TurnKeepsInvariant ==
  ASSUME IInv, NEW n, NEW m, NEW t, NEW f, Turn(n, m, t),
         Pays(n, m, t, f) \/ Declines(n, t),
         Declines(n, t) \/ Known(f),
         FiatOK(fiat)', failures' \in 0 .. MaxFailures, Len(asked)' <= MaxMessages
  PROVE  IInv'
  <1>1. TypeInv /\ (\A o \in ordered : Justified(o)) /\ Accounts
    BY DEF IInv
  <1>2. /\ ClientOK(client)' /\ Bounded'
        /\ (requests \cup paid \subseteq Received)'
        /\ told' \in Seq(SUBSET Replies) /\ Len(told)' = Len(asked)'
    BY <1>1, TurnKeepsTypes
  <1>3. (\A o \in ordered : Justified(o))'
    BY <1>1, TurnIsJustified
  <1>4. Accounts'
    BY <1>1, TurnKeepsAccounts
  <1>5. UNCHANGED <<process, paid, now>> /\ asked' \in Seq(Messages)
    BY DEF Turn
  <1>6. process' \in Nat /\ now' \in 1 .. MaxTime /\ \A q \in paid' : q.call.kind = "payment"
    BY <1>1, <1>5 DEF TypeInv
  <1>7. TypeInv'
    BY <1>2, <1>5, <1>6 DEF TypeInv
  <1> QED BY <1>3, <1>4, <1>7 DEF IInv

\* Nothing happens but that time passes or requests are lost.
LEMMA QuietStep ==
  ASSUME IInv, UNCHANGED <<bot, paid, talk, ordered>>, requests' \subseteq requests,
         failures' \in 0 .. MaxFailures, now' \in now .. MaxTime
  PROVE  IInv'
  <1>1. TypeInv /\ (\A o \in ordered : Justified(o)) /\ Accounts
    BY DEF IInv
  <1>2. UNCHANGED <<client, fiat, process, asked, told, paid, ordered>>
    BY DEF bot, talk
  <1>3. TypeInv'
    <2>1. ClientOK(client)' /\ Bounded'
      BY <1>1, <1>2 DEF TypeInv, ClientOK, Bounded, Decided
    <2>2. now \in Nat /\ now' \in 1 .. MaxTime /\ now <= now'
      BY <1>1 DEF TypeInv
    <2>3. FiatOK(fiat)'
      BY <1>1, <1>2, <2>2 DEF TypeInv, FiatOK
    <2>4. (requests \cup paid \subseteq Received)'
      BY <1>1, <1>2 DEF TypeInv, Received
    <2> QED BY <1>1, <1>2, <2>1, <2>2, <2>3, <2>4 DEF TypeInv
  <1>4. (\A o \in ordered : Justified(o))'
    BY <1>1, <1>2 DEF Justified
  <1>5. Accounts'
    <2>1. ASSUME NEW n, Accounted(n) PROVE Accounted(n)'
      <3>1. CallsOf(n)' = CallsOf(n) /\ AnswersOf(n)' = AnswersOf(n) /\ PaymentsOf(n)' = PaymentsOf(n)
        BY <1>2, SameCalls, SameAnswers, SamePayments
      <3>2. (Told(n, "error")' <=> Told(n, "error")) /\ (Told(n, "paid")' <=> Told(n, "paid"))
        BY <1>2 DEF Told
      <3>3. Waits(n)' => Waits(n)
        BY <1>2 DEF Waits
      <3> QED BY <2>1, <3>1, <3>2, <3>3, Undisturbed
    <2> QED BY <1>1, <1>2, <2>1 DEF Accounts
  <1> QED BY <1>3, <1>4, <1>5 DEF IInv

LEMMA PingStep == IInv /\ Ping => IInv'
  <1> SUFFICES ASSUME IInv, Ping PROVE IInv'
    OBVIOUS
  <1>1. TypeInv /\ (\A o \in ordered : Justified(o)) /\ Accounts
    BY DEF IInv
  <1>2. /\ client.nextRpcId < MaxPings /\ call(ping)
        /\ UNCHANGED <<fiat, process, ready, paid, asked, told, now, failures, ordered>>
    BY DEF Ping, talk
  <1>3. ClientOK(client) /\ Bounded /\ process \in Nat /\ requests \subseteq Received
    BY <1>1 DEF TypeInv
  <1>4. client.nextRpcId \in Ids
    BY <1>2, <1>3, SimpleBotAssumption DEF ClientOK, Ids
  <1>5. ping \in Calls /\ ping.kind = "ping"
    BY TheCalls
  <1>6. /\ ClientOK(client)' /\ client'.nextRpcId = client.nextRpcId + 1
        /\ client'.loading = client.loading
        /\ (requests \subseteq Received)'
        /\ Matched => Matched'
    BY <1>2, <1>3, <1>4, <1>5, CallEffect
  <1>7. TypeInv'
    <2>1. Bounded'
      <3>1. Decided' \in SUBSET (1 .. MaxMessages)
        BY DEF Decided
      <3>2. PICK k \in Nat : k = Cardinality(Decided')
        BY <3>1, FewMessages
      <3>3. client'.nextRpcId <= MaxPings + k
        BY <1>2, <1>3, <1>6, SimpleBotAssumption DEF ClientOK
      <3> QED BY <3>2, <3>3 DEF Bounded
    <2>2. FiatOK(fiat)'
      BY <1>1, <1>2 DEF TypeInv, FiatOK
    <2>3. (paid \subseteq Received)'
      BY <1>1, <1>2 DEF TypeInv, Received
    <2> QED BY <1>1, <1>2, <1>6, <2>1, <2>2, <2>3 DEF TypeInv
  <1>8. (\A o \in ordered : Justified(o))'
    BY <1>1, <1>2 DEF Justified
  <1>9. Accounts'
    <2>1. ASSUME NEW n, Accounted(n) PROVE Accounted(n)'
      <3>1. CallsOf(n)' = CallsOf(n)
        <4>1. client' = rpc(client, ping)
          BY <1>2 DEF call
        <4> QED BY <1>3, <1>5, <4>1, CallsAfterRpc
      <3>2. AnswersOf(n)' = AnswersOf(n) /\ PaymentsOf(n)' = PaymentsOf(n)
        BY <1>2, <1>6, SameAnswers, SamePayments
      <3>3. (Told(n, "error")' <=> Told(n, "error")) /\ (Told(n, "paid")' <=> Told(n, "paid"))
        BY <1>2 DEF Told
      <3>4. Waits(n)' => Waits(n)
        BY <1>2 DEF Waits
      <3> QED BY <2>1, <3>1, <3>2, <3>3, <3>4, Undisturbed
    <2> QED BY <1>1, <1>2, <1>6, <2>1 DEF Accounts, Matched
  <1> QED BY <1>7, <1>8, <1>9 DEF IInv

\* A new process knows of no call, and the accounts are those of the first one.
LEMMA BotRestartsStep == IInv /\ BotRestarts => IInv'
  <1> SUFFICES ASSUME IInv, BotRestarts PROVE IInv'
    OBVIOUS
  <1>1. TypeInv /\ \A o \in ordered : Justified(o)
    BY DEF IInv
  <1>2. /\ process' = process + 1 /\ failures' \in 0 .. MaxFailures
        /\ client' = [rpcCalls |-> <<>>, nextRpcId |-> 0, started |-> FALSE, loading |-> {}, services |-> 0]
        /\ fiat' = [cachedAt |-> 0, asOf |-> 0, asking |-> {0}, hidden |-> FALSE]
        /\ UNCHANGED <<requests, paid, asked, told, now, ordered>>
    <2>1. failures' \in 0 .. MaxFailures
      BY <1>1, SimpleBotAssumption DEF BotRestarts, Failure, TypeInv
    <2> QED BY <2>1 DEF BotRestarts, talk, NewClient, Booted, getRates, NewFiat
  <1>3. TypeInv'
    <2>1. ClientOK(client)'
      BY <1>2 DEF ClientOK
    <2>2. Bounded'
      <3>1. Decided' \in SUBSET (1 .. MaxMessages)
        BY DEF Decided
      <3>2. PICK k \in Nat : k = Cardinality(Decided')
        BY <3>1, FewMessages
      <3>3. client'.nextRpcId = 0 /\ MaxPings \in Nat
        BY <1>2, SimpleBotAssumption
      <3> QED BY <3>2, <3>3 DEF Bounded
    <2>3. FiatOK(fiat)'
      <3>1. asked \in Seq(Messages) /\ Len(asked) \in Nat /\ now' \in Nat
        BY <1>1, <1>2, LenProperties DEF TypeInv
      <3> QED BY <1>2, <3>1 DEF FiatOK
    <2>4. (requests \cup paid \subseteq Received)'
      <3>1. \A q \in Received : q \in Received'
        BY <1>1, <1>2 DEF Received, TypeInv
      <3> QED BY <1>1, <1>2, <3>1 DEF TypeInv
    <2> QED BY <1>1, <1>2, <2>1, <2>2, <2>3, <2>4 DEF TypeInv
  <1>4. (\A o \in ordered : Justified(o))'
    BY <1>1, <1>2 DEF Justified
  <1>5. Accounts'
    BY <1>1, <1>2 DEF Accounts, TypeInv
  <1> QED BY <1>3, <1>4, <1>5 DEF IInv

LEMMA FailureIsCounted ==
  ASSUME failures \in 0 .. MaxFailures, UNCHANGED failures \/ Failure
  PROVE  failures' \in 0 .. MaxFailures
  BY SimpleBotAssumption DEF Failure

\* A message is waiting for the rates that come, or nobody is.
LEMMA RatesStep ==
  ASSUME IInv, NEW n \in fiat.asking, NEW answer \in RateAnswers, RatesCome(n, answer)
  PROVE  IInv'
  <1>1. TypeInv /\ (\A o \in ordered : Justified(o)) /\ Accounts
    BY DEF IInv
  <1>2. /\ fiat' = onRates(fiat, n, answer, now)
        /\ UNCHANGED <<process, ready, paid, asked, now>>
        /\ failures' \in 0 .. MaxFailures
    <2>1. UNCHANGED failures \/ Failure
      BY DEF RatesCome
    <2> QED BY <1>1, <2>1, FailureIsCounted DEF RatesCome, TypeInv
  <1>3. PICK f : f = onRates(fiat, n, answer, now)
    OBVIOUS
  <1>4. FiatOK(fiat) /\ now \in Nat /\ asked \in Seq(Messages) /\ Len(asked) \in Nat
        /\ n \in 0 .. Len(asked) /\ Len(asked) <= MaxMessages
    BY <1>1, LenProperties DEF TypeInv, FiatOK
  <1>5. /\ FiatOK(f) /\ f.asking = fiat.asking \ {n}
        /\ answer = "rates" => f.asOf = now
        /\ answer = "lacking" => f.hidden
    BY <1>3, <1>4, RatesEffect
  <1>6. FiatOK(fiat)'
    BY <1>2, <1>3, <1>5 DEF FiatOK
  <1>7. \A k : k # n => (Waits(k)' <=> Waits(k))
    BY <1>2, <1>3, <1>5 DEF Waits
  <1>8. CASE n = 0
    <2>1. UNCHANGED <<client, requests, ordered, told>>
      BY <1>8 DEF RatesCome
    <2>2. TypeInv'
      <3>1. ClientOK(client)'
        BY <1>1, <2>1 DEF TypeInv, ClientOK
      <3>2. Bounded'
        <4>1. Decided \subseteq Decided'
          BY <1>2, <1>3, <1>5 DEF Decided
        <4> QED BY <1>1, <2>1, <4>1, StaysBounded DEF TypeInv
      <3>3. (requests \cup paid \subseteq Received)'
        BY <1>1, <1>2, <2>1 DEF TypeInv, Received
      <3> QED BY <1>1, <1>2, <1>6, <2>1, <3>1, <3>2, <3>3 DEF TypeInv
    <2>3. (\A o \in ordered : Justified(o))'
      BY <1>1, <1>2, <2>1 DEF Justified
    <2>4. Accounts'
      <3>1. ASSUME NEW k \in 1 .. MaxMessages, Accounted(k) PROVE Accounted(k)'
        <4>1. CallsOf(k)' = CallsOf(k) /\ AnswersOf(k)' = AnswersOf(k) /\ PaymentsOf(k)' = PaymentsOf(k)
          BY <1>2, <2>1, SameCalls, SameAnswers, SamePayments
        <4>2. (Told(k, "error")' <=> Told(k, "error")) /\ (Told(k, "paid")' <=> Told(k, "paid"))
          BY <2>1 DEF Told
        <4>3. Waits(k)' => Waits(k)
          BY <1>7, <1>8
        <4> QED BY <3>1, <4>1, <4>2, <4>3, Undisturbed
      <3> QED BY <1>1, <1>2, <2>1, <3>1 DEF Accounts
    <2> QED BY <2>2, <2>3, <2>4 DEF IInv
  <1>9. CASE n # 0
    <2>1. n \in 1 .. MaxMessages /\ n \in 1 .. Len(asked)
      BY <1>4, <1>9, SimpleBotAssumption
    <2>2. PICK m : m = asked[n]
      OBVIOUS
    <2>3. m \in Messages
      BY <1>4, <2>1, <2>2
    <2>4. PICK t : t = told /\ resume(n, m, t, f, yielded(answer) = "helpers")
      BY <1>3, <1>9, <2>2 DEF RatesCome
    <2>5. (yielded(answer) = "helpers" /\ Pays(n, m, t, f)) \/ Declines(n, t)
      BY <2>4, ResumeEffect
    <2>6. Turn(n, m, t)
      <3>1. Waits(n) /\ ~ Waits(n)'
        BY <1>2, <1>3, <1>4, <1>5, <2>1 DEF Waits
      <3>2. told \in Seq(SUBSET Replies) /\ Len(told) = Len(asked) /\ Len(told) = Len(asked)'
        BY <1>1, <1>2 DEF TypeInv
      <3>3. process = 0 => "paid" \notin told[n] /\ "error" \notin told[n]
        BY <1>1, <2>1, <3>1, <3>2 DEF Accounts, Accounted, Untouched, Told
      <3> QED BY <1>2, <1>4, <1>7, <2>1, <2>2, <2>3, <2>4, <3>1, <3>2, <3>3 DEF Turn
    <2>7. ASSUME Pays(n, m, t, f), yielded(answer) = "helpers"
          PROVE  Known(f)
      <3>1. answer \in {"rates", "lacking"}
        BY <2>7 DEF yielded
      <3>2. f.asOf # 0 /\ f.asOf \in 0 .. f.cachedAt /\ f.cachedAt \in 0 .. now /\ now \in 0 .. MaxTime
        BY <1>1, <1>5, <2>7 DEF Pays, FiatOK, TypeInv
      <3>3. f.asOf \in 1 .. MaxTime
        BY <3>2, SimpleBotAssumption
      <3>4. CASE answer = "rates"
        BY <1>5, <3>2, <3>3, <3>4, SimpleBotAssumption DEF Known
      <3>5. CASE answer = "lacking"
        BY <1>5, <3>3, <3>5 DEF Known
      <3> QED BY <3>1, <3>4, <3>5
    <2>8. Len(asked)' <= MaxMessages
      BY <1>2, <1>4
    <2>9. failures' \in 0 .. MaxFailures
      BY <1>2
    <2>10. Pays(n, m, t, f) \/ Declines(n, t)
      BY <2>5
    <2>11. Declines(n, t) \/ Known(f)
      BY <2>5, <2>7
    <2> QED BY <1>6, <2>6, <2>8, <2>9, <2>10, <2>11, TurnKeepsInvariant
  <1> QED BY <1>8, <1>9

\* Message n comes, the message m, to which the reply is r, if that is known.
Comes(n, m, r, t) ==
  /\ n = Len(asked) + 1 /\ n <= MaxMessages
  /\ asked' = Append(asked, m) /\ t = Append(told, r)

\* It has a place in both histories.
Placed(n, m, r, t) ==
  /\ n \in 1 .. MaxMessages /\ Waits(n)
  /\ asked' \in Seq(Messages) /\ Len(asked)' = n /\ asked'[n] = m
  /\ \A k \in 1 .. Len(asked) : k \in 1 .. Len(asked)' /\ asked'[k] = asked[k]
  /\ t \in Seq(SUBSET Replies) /\ Len(t) = n /\ t[n] = r
  /\ \A k : k # n => (k \in 1 .. Len(t) <=> k \in 1 .. Len(told))
  /\ \A k \in 1 .. Len(told) : k # n /\ t[k] = told[k]

LEMMA MessageEffect ==
  ASSUME TypeInv, NEW n, NEW m \in Messages, NEW r \in SUBSET Replies, NEW t, Comes(n, m, r, t)
  PROVE  Placed(n, m, r, t)
  <1> USE DEF Comes
  <1>1. /\ asked \in Seq(Messages) /\ told \in Seq(SUBSET Replies) /\ Len(told) = Len(asked)
        /\ Len(asked) \in Nat
    BY LenProperties DEF TypeInv
  <1>2. PICK a : a = asked'
    OBVIOUS
  <1>3. /\ a \in Seq(Messages) /\ Len(a) = n /\ a[n] = m
        /\ \A k \in 1 .. Len(asked) : a[k] = asked[k]
    BY <1>1, <1>2, AppendProperties
  <1>4. /\ t \in Seq(SUBSET Replies) /\ Len(t) = n /\ t[n] = r
        /\ \A k \in 1 .. Len(told) : t[k] = told[k]
    BY <1>1, AppendProperties
  <1>5. n \in 1 .. MaxMessages /\ Waits(n)
    BY <1>1, SimpleBotAssumption DEF Waits
  <1>6. /\ \A k : k # n => (k \in 1 .. Len(t) <=> k \in 1 .. Len(told))
        /\ \A k \in 1 .. Len(told) : k # n /\ k \in 1 .. n
    BY <1>1, <1>4
  <1> QED BY <1>1, <1>2, <1>3, <1>4, <1>5, <1>6 DEF Placed

\* If it does not ask for rates its turn comes at once.
LEMMA TurnOfMessage ==
  ASSUME TypeInv, NEW n, NEW m \in Messages, NEW r \in SUBSET (Replies \ {"paid", "error"}),
         NEW t, Comes(n, m, r, t), UNCHANGED <<fiat, process, paid, now>>
  PROVE  Turn(n, m, t)
  <1>1. Placed(n, m, r, t)
    <2>1. r \in SUBSET Replies
      OBVIOUS
    <2> QED BY <2>1, MessageEffect
  <1>2. "paid" \notin t[n] /\ "error" \notin t[n] /\ n \in 1 .. Len(t)
    BY <1>1 DEF Placed
  <1>3. \A k \in fiat.asking : k \in Nat /\ k < n
    BY LenProperties DEF TypeInv, FiatOK, Comes
  <1>4. ~ Waits(n)'
    BY <1>1, <1>3 DEF Waits, Placed
  <1>5. \A k \in Nat : k # n => (Waits(k)' <=> Waits(k))
    <2>1. ASSUME NEW k \in Nat, k # n PROVE k > n <=> k > Len(asked)
      BY <2>1, LenProperties DEF TypeInv, Comes
    <2> QED BY <1>1, <2>1 DEF Waits, Placed
  <1> QED BY <1>1, <1>2, <1>4, <1>5 DEF Turn, Placed

\* A message that waits for the rates is the only one that is new.
LEMMA WaitStep ==
  ASSUME IInv, NEW n, NEW m \in Messages, NEW t, Comes(n, m, {}, t), fiat' = getRates(fiat, n),
         told' = t, UNCHANGED <<client, requests, ordered, process, paid, now, failures>>
  PROVE  IInv'
  <1>1. TypeInv /\ (\A o \in ordered : Justified(o)) /\ Accounts
    BY DEF IInv
  <1>2. Placed(n, m, {}, t)
    BY <1>1, MessageEffect
  <1>3. PICK f : f = getRates(fiat, n)
    OBVIOUS
  <1>4. FiatOK(fiat) /\ Len(asked) \in Nat /\ n = Len(asked) + 1 /\ n <= MaxMessages
    BY <1>1, LenProperties DEF TypeInv, Comes
  <1>5. /\ f.cachedAt = fiat.cachedAt /\ f.asOf = fiat.asOf /\ f.hidden = fiat.hidden
        /\ f.asking = fiat.asking \cup {n}
        /\ f = [cachedAt |-> f.cachedAt, asOf |-> f.asOf, asking |-> f.asking, hidden |-> f.hidden]
    BY <1>3, <1>4, AskingEffect
  <1>6. Len(asked)' = n /\ asked' \in Seq(Messages)
    BY <1>2 DEF Placed
  <1>7. FiatOK(fiat)'
    <2>1. f.cachedAt \in 0 .. now' /\ f.asOf \in 0 .. f.cachedAt /\ f.hidden \in BOOLEAN
      BY <1>4, <1>5 DEF FiatOK
    <2>2. ~ f.hidden => f.asOf = f.cachedAt
      <3>1. ~ fiat.hidden => fiat.asOf = fiat.cachedAt
        BY <1>4 DEF FiatOK
      <3> QED BY <1>5, <3>1
    <2>3. f.asking \subseteq 0 .. Len(asked)'
      BY <1>4, <1>5, <1>6 DEF FiatOK
    <2>4. fiat' = f
      BY <1>3
    <2> QED BY <1>5, <2>1, <2>2, <2>3, <2>4 DEF FiatOK
  <1>8. \A k \in Nat : Waits(k)' <=> Waits(k)
    BY <1>3, <1>4, <1>5, <1>6 DEF Waits
  <1>9. TypeInv'
    <2>1. ClientOK(client)'
      BY <1>1 DEF TypeInv, ClientOK
    <2>2. Bounded'
      <3>1. Decided \subseteq Decided'
        BY <1>3, <1>4, <1>5, <1>6 DEF Decided
      <3> QED BY <1>1, <3>1, StaysBounded DEF TypeInv
    <2>3. (requests \cup paid \subseteq Received)'
      BY <1>1 DEF TypeInv, Received
    <2>4. told' \in Seq(SUBSET Replies) /\ Len(told)' = Len(asked)'
      BY <1>2, <1>6 DEF Placed
    <2> QED BY <1>1, <1>4, <1>6, <1>7, <2>1, <2>2, <2>3, <2>4 DEF TypeInv
  <1>10. (\A o \in ordered : Justified(o))'
    BY <1>1, <1>2 DEF Justified, Placed
  <1>11. Accounts'
    <2>1. ASSUME NEW k \in 1 .. MaxMessages, Accounted(k) PROVE Accounted(k)'
      <3>1. CallsOf(k)' = CallsOf(k) /\ AnswersOf(k)' = AnswersOf(k) /\ PaymentsOf(k)' = PaymentsOf(k)
        BY SameCalls, SameAnswers, SamePayments
      <3>2. Waits(k)' => Waits(k)
        BY <1>8
      <3>3. CASE k # n
        <4>1. \A w : Told(k, w)' <=> Told(k, w)
          BY <1>2, <3>3 DEF Told, Placed
        <4> QED BY <2>1, <3>1, <3>2, <4>1, Undisturbed
      <3>4. CASE k = n
        <4>1. Untouched(k)
          BY <1>2, <2>1, <3>4 DEF Accounted, Placed
        <4>2. \A w : ~ Told(k, w)'
          BY <1>2, <3>4 DEF Told, Placed
        <4> QED BY <2>1, <3>1, <3>2, <4>1, <4>2, Undisturbed DEF Untouched
      <3> QED BY <3>3, <3>4
    <2> QED BY <1>1, <2>1 DEF Accounts
  <1> QED BY <1>9, <1>10, <1>11 DEF IInv

LEMMA HearStep ==
  ASSUME IInv, NEW m \in Messages, Hear(m)
  PROVE  IInv'
  <1>1. TypeInv
    BY DEF IInv
  <1>2. PICK n : n = Len(asked) + 1
    OBVIOUS
  <1>3. /\ n <= MaxMessages /\ asked' = Append(asked, m)
        /\ UNCHANGED <<process, ready, paid, now, failures>>
    BY <1>2 DEF Hear
  <1>4. failures' \in 0 .. MaxFailures
    BY <1>1, <1>3 DEF TypeInv
  <1>5. ASSUME NEW t, Turn(n, m, t), UNCHANGED fiat,
               Pays(n, m, t, fiat) \/ Declines(n, t), Declines(n, t) \/ Known(fiat)
        PROVE  IInv'
    <2>1. PICK f : f = fiat
      OBVIOUS
    <2>2. /\ Pays(n, m, t, f) \/ Declines(n, t)
          /\ Declines(n, t) \/ Known(f)
      BY <1>5, <2>1
    <2>3. Len(asked)' <= MaxMessages
      BY <1>1, <1>2, <1>3, AppendProperties DEF TypeInv
    <2>4. FiatOK(fiat)'
      <3>1. FiatOK(fiat) /\ Len(asked) \in Nat /\ Len(asked)' = Len(asked) + 1
        BY <1>1, <1>3, AppendProperties, LenProperties DEF TypeInv
      <3> QED BY <1>3, <1>5, <3>1 DEF FiatOK
    <2> QED BY <1>4, <1>5, <2>2, <2>3, <2>4, TurnKeepsInvariant
  <1>6. CASE ~ needsRates(m)
    <2>1. told' = Append(told, replyTo(m)) /\ UNCHANGED <<client, fiat, requests, ordered>>
      BY <1>6, Zenon DEF Hear
    <2>2. PICK r : r = replyTo(m)
      OBVIOUS
    <2>3. r \in SUBSET (Replies \ {"paid", "error"})
      BY <2>2 DEF replyTo, Replies
    <2>4. PICK t : t = Append(told, r)
      OBVIOUS
    <2>5. Comes(n, m, r, t)
      BY <1>2, <1>3, <2>4 DEF Comes
    <2>6. Turn(n, m, t)
      BY <1>1, <1>3, <2>1, <2>3, <2>5, TurnOfMessage
    <2>7. Declines(n, t)
      BY <2>1, <2>2, <2>4 DEF Declines, Replied
    <2> QED BY <1>5, <2>1, <2>6, <2>7
  <1>7. CASE needsRates(m) /\ isFresh(fiat, now, AgeLimit)
    <2>1. PICK t : t = Append(told, {})
      OBVIOUS
    <2>2. resume(n, m, t, fiat, TRUE) /\ UNCHANGED fiat
      BY <1>2, <1>7, <2>1, Zenon DEF Hear
    <2>3. PICK f : f = fiat
      OBVIOUS
    <2>4. Pays(n, m, t, f) \/ Declines(n, t)
      <3>1. (0 = 0) = TRUE
        BY Zenon
      <3>2. resume(n, m, t, f, 0 = 0)
        BY <2>2, <2>3, <3>1, Zenon
      <3> QED BY <3>2, ResumeEffect
    <2>5. Comes(n, m, {}, t)
      BY <1>2, <1>3, <2>1 DEF Comes
    <2>6. Turn(n, m, t)
      BY <1>1, <1>3, <2>2, <2>5, TurnOfMessage
    <2>7. Pays(n, m, t, f) => Known(f)
      <3>1. SUFFICES ASSUME f.asOf # 0 PROVE Known(f)
        BY DEF Pays
      <3>2. /\ f.cachedAt \in 0 .. now /\ f.asOf \in 0 .. f.cachedAt
            /\ ~ f.hidden => f.asOf = f.cachedAt
            /\ now \in 1 .. MaxTime
        BY <1>1, <2>3 DEF TypeInv, FiatOK
      <3>3. now - f.cachedAt <= AgeLimit
        BY <1>7, <2>3 DEF isFresh
      <3>4. AgeLimit \in Nat /\ MaxTime \in Nat
        BY SimpleBotAssumption
      <3>5. f.asOf \in 1 .. MaxTime
        BY <3>1, <3>2, <3>4
      <3>6. f.cachedAt \in (now - AgeLimit) .. now
        BY <3>2, <3>3, <3>4
      <3> QED BY <3>2, <3>5, <3>6 DEF Known
    <2> QED BY <1>5, <2>2, <2>3, <2>4, <2>6, <2>7
  <1>8. CASE needsRates(m) /\ ~ isFresh(fiat, now, AgeLimit)
    <2>1. /\ fiat' = getRates(fiat, n) /\ told' = Append(told, {})
          /\ UNCHANGED <<client, requests, ordered>>
      BY <1>2, <1>8, Zenon DEF Hear
    <2>2. PICK t : t = Append(told, {})
      OBVIOUS
    <2>3. Comes(n, m, {}, t)
      BY <1>2, <1>3, <2>2 DEF Comes
    <2> QED BY <1>3, <2>1, <2>2, <2>3, WaitStep
  <1> QED BY <1>6, <1>7, <1>8

\* What the headless client has done with a request of the first process, its
\* answer tells.
LEMMA AnswerIsAccounted ==
  ASSUME IInv, process = 0, NEW q \in requests, NEW ok \in BOOLEAN,
         requests' = requests \ {q}, client' = onAnswer(client, q.id, ok),
         paid' = IF ok /\ q.call.kind = "payment" THEN paid \cup {q} ELSE paid,
         UNCHANGED <<fiat, process, asked, told>>
  PROVE  Matched' /\ \A n \in 1 .. MaxMessages : Accounted(n)'
  <1>1. TypeInv /\ Matched /\ \A n \in 1 .. MaxMessages : Accounted(n)
    BY DEF IInv, Accounts, Matched
  <1>2. ClientOK(client) /\ client.nextRpcId <= MaxPings + MaxMessages
    BY <1>1, IdsAreFew DEF TypeInv
  <1>3. PICK d, l : d = client' /\ l = [id |-> q.id, call |-> q.call, ok |-> ok]
    OBVIOUS
  <1>4. q.id \in DOMAIN client.rpcCalls /\ client.rpcCalls[q.id] = q.call
    BY <1>1 DEF Matched
  <1>5. /\ DOMAIN d.rpcCalls = DOMAIN client.rpcCalls \ {q.id}
        /\ \A i \in DOMAIN d.rpcCalls : d.rpcCalls[i] = client.rpcCalls[i]
        /\ d.loading = client.loading \cup {l}
    BY <1>2, <1>3, <1>4, AnswerEffect
  <1>6. Matched'
    <2>1. ASSUME NEW r \in requests, r # q
          PROVE  r.id # q.id
      <3>1. SUFFICES ASSUME r.id = q.id PROVE r = q
        BY <2>1
      <3>2. r.call = q.call
        BY <1>1, <3>1 DEF Matched
      <3>3. r \in Received /\ q \in Received
        BY <1>1 DEF TypeInv
      <3>4. /\ r = [id |-> r.id, process |-> r.process, call |-> r.call]
            /\ q = [id |-> q.id, process |-> q.process, call |-> q.call]
            /\ r.process = 0 /\ q.process = 0
        BY <3>3 DEF Received
      <3> QED BY <3>1, <3>2, <3>4
    <2>2. ASSUME NEW r \in requests, r # q
          PROVE  r.id \in DOMAIN d.rpcCalls /\ d.rpcCalls[r.id] = r.call
      BY <1>1, <1>5, <2>1, <2>2 DEF Matched
    <2> QED BY <1>3, <2>2 DEF Matched
  <1>7. ASSUME NEW n PROVE (Told(n, "error")' <=> Told(n, "error")) /\ (Told(n, "paid")' <=> Told(n, "paid"))
    BY DEF Told
  <1>8. ASSUME NEW n PROVE Waits(n)' <=> Waits(n)
    BY DEF Waits
  <1>9. ASSUME NEW n PROVE
          /\ CallsOf(n)' = CallsOf(n) \ {q.id}
          /\ AnswersOf(n)' = IF q.call.kind = "payment" /\ q.call.message = n
                             THEN AnswersOf(n) \cup {l} ELSE AnswersOf(n)
          /\ PaymentsOf(n)' = IF ok /\ q.call.kind = "payment" /\ q.call.message = n
                              THEN PaymentsOf(n) \cup {q} ELSE PaymentsOf(n)
    <2>1. CallsOf(n)' = {i \in DOMAIN d.rpcCalls : d.rpcCalls[i].kind = "payment" /\ d.rpcCalls[i].message = n}
      BY <1>3 DEF CallsOf
    <2>2. CallsOf(n)' = CallsOf(n) \ {q.id}
      BY <1>5, <2>1 DEF CallsOf
    <2>3. AnswersOf(n)' = {k \in d.loading : k.call.kind = "payment" /\ k.call.message = n}
      BY <1>3 DEF AnswersOf
    <2>4. l.call = q.call
      BY <1>3
    <2>5. AnswersOf(n)' = IF q.call.kind = "payment" /\ q.call.message = n
                          THEN AnswersOf(n) \cup {l} ELSE AnswersOf(n)
      BY <1>5, <2>3, <2>4 DEF AnswersOf
    <2>6. PaymentsOf(n)' = IF ok /\ q.call.kind = "payment" /\ q.call.message = n
                           THEN PaymentsOf(n) \cup {q} ELSE PaymentsOf(n)
      BY DEF PaymentsOf
    <2> QED BY <2>2, <2>5, <2>6
  <1>10. ASSUME NEW n \in 1 .. MaxMessages
         PROVE  Accounted(n)'
    <2>1. CASE q.call.kind = "payment" /\ q.call.message = n
      <3>1. q.id \in CallsOf(n)
        BY <1>4, <2>1 DEF CallsOf
      <3>2. /\ AnswersOf(n) = {} /\ PaymentsOf(n) = {} /\ ~ Told(n, "error") /\ ~ Told(n, "paid")
            /\ ~ Waits(n) /\ CallsOf(n) = {q.id}
        BY <1>1, <3>1 DEF Accounted, Untouched
      <3>3. CallsOf(n)' = {} /\ AnswersOf(n)' = {l}
        BY <1>9, <2>1, <3>2
      <3>4. PaymentsOf(n)' = IF ok THEN {q} ELSE {}
        BY <1>9, <2>1, <3>2
      <3>5. l.ok = ok
        BY <1>3
      <3>6. ~ Waits(n)' /\ ~ Told(n, "error")' /\ ~ Told(n, "paid")'
        BY <1>7, <1>8, <3>2
      <3>7. l.ok <=> PaymentsOf(n)' # {}
        BY <3>4, <3>5
      <3> QED BY <3>3, <3>6, <3>7 DEF Accounted
    <2>2. CASE ~ (q.call.kind = "payment" /\ q.call.message = n)
      <3>1. q.id \notin CallsOf(n)
        BY <1>4, <2>2 DEF CallsOf
      <3>2. CallsOf(n)' = CallsOf(n) /\ AnswersOf(n)' = AnswersOf(n) /\ PaymentsOf(n)' = PaymentsOf(n)
        BY <1>9, <2>2, <3>1
      <3> QED BY <1>1, <1>7, <1>8, <3>2, Undisturbed
    <2> QED BY <2>1, <2>2
  <1> QED BY <1>6, <1>10

LEMMA ExecuteStep ==
  ASSUME IInv, NEW q \in requests, NEW ok \in BOOLEAN, Execute(q, ok)
  PROVE  IInv'
  <1>1. TypeInv /\ (\A o \in ordered : Justified(o)) /\ Accounts
    BY DEF IInv
  <1>2. /\ requests' = requests \ {q} /\ client' = onAnswer(client, q.id, ok)
        /\ paid' = IF ok /\ q.call.kind = "payment" THEN paid \cup {q} ELSE paid
        /\ UNCHANGED <<fiat, process, asked, told, now, ordered>>
        /\ UNCHANGED failures \/ Failure
    BY DEF Execute, talk
  <1>3. ClientOK(client) /\ client.nextRpcId <= MaxPings + MaxMessages
    BY <1>1, IdsAreFew DEF TypeInv
  <1>4. ClientOK(client)' /\ client'.nextRpcId = client.nextRpcId
    <2>1. PICK d : d = client'
      OBVIOUS
    <2>2. ClientOK(d) /\ d.nextRpcId = client.nextRpcId
      BY <1>2, <1>3, <2>1, AnswerEffect
    <2> QED BY <2>1, <2>2 DEF ClientOK
  <1>5. TypeInv'
    <2>1. Bounded'
      <3>1. Decided \subseteq Decided'
        BY <1>2 DEF Decided
      <3> QED BY <1>1, <1>4, <3>1, StaysBounded DEF TypeInv
    <2>2. FiatOK(fiat)'
      BY <1>1, <1>2 DEF TypeInv, FiatOK
    <2>3. (requests \cup paid \subseteq Received)'
      BY <1>1, <1>2 DEF TypeInv, Received
    <2>4. \A r \in paid' : r.call.kind = "payment"
      BY <1>1, <1>2 DEF TypeInv
    <2>5. failures' \in 0 .. MaxFailures
      BY <1>1, <1>2, FailureIsCounted DEF TypeInv
    <2> QED BY <1>1, <1>2, <1>4, <2>1, <2>2, <2>3, <2>4, <2>5 DEF TypeInv
  <1>6. (\A o \in ordered : Justified(o))'
    BY <1>1, <1>2 DEF Justified
  <1>7. Accounts'
    <2>1. CASE process = 0
      <3>1. Matched' /\ \A n \in 1 .. MaxMessages : Accounted(n)'
        BY <1>2, <2>1, AnswerIsAccounted
      <3> QED BY <3>1 DEF Accounts, Matched
    <2>2. CASE process # 0
      BY <1>2, <2>2 DEF Accounts
    <2> QED BY <2>1, <2>2
  <1> QED BY <1>5, <1>6, <1>7 DEF IInv

\* The user is told of the answer to a payment: its account is settled.
LEMMA SettledAccounts ==
  ASSUME IInv, process = 0, NEW l \in client.loading, l.call.kind = "payment",
         client'.rpcCalls = client.rpcCalls, client'.loading = client.loading \ {l},
         told' = [told EXCEPT ![l.call.message] = @ \cup {IF l.ok THEN "paid" ELSE "error"}],
         UNCHANGED <<fiat, process, asked, paid>>
  PROVE  \A n \in 1 .. MaxMessages : Accounted(n)'
  <1>1. TypeInv /\ \A n \in 1 .. MaxMessages : Accounted(n)
    BY DEF IInv, Accounts
  <1>2. PICK k, v : k = l.call.message /\ v = IF l.ok THEN "paid" ELSE "error"
    OBVIOUS
  <1>3. k \in 1 .. MaxMessages /\ l.ok \in BOOLEAN
    BY <1>1, <1>2 DEF TypeInv, ClientOK, Answers, Calls, Payments, ping
  <1>4. l \in AnswersOf(k) /\ Accounted(k)
    BY <1>1, <1>2, <1>3 DEF AnswersOf
  <1>5. /\ CallsOf(k) = {} /\ AnswersOf(k) = {l} /\ ~ Told(k, "error")
        /\ l.ok <=> PaymentsOf(k) # {}
        /\ ~ Waits(k)
    BY <1>4 DEF Accounted, Untouched
  <1>6. k \in 1 .. Len(told)
    BY <1>1, <1>3, <1>5, LenProperties DEF TypeInv, Waits
  <1>7. v \in Replies
    BY <1>2 DEF Replies
  <1>8. PICK u : u = told'
    OBVIOUS
  <1>9. /\ u \in Seq(SUBSET Replies) /\ Len(u) = Len(told)
        /\ u[k] = told[k] \cup {v}
        /\ \A j \in 1 .. Len(told) : j # k => u[j] = told[j]
    <2>1. told \in Seq(SUBSET Replies) /\ u = [told EXCEPT ![k] = @ \cup {v}]
      BY <1>1, <1>2, <1>8 DEF TypeInv
    <2> QED BY <1>6, <1>7, <2>1, ReplyEffect
  <1>10. \A j, w : Told(j, w)' <=> j \in 1 .. Len(u) /\ w \in u[j]
    BY <1>8 DEF Told
  <1>11. ASSUME NEW n PROVE Waits(n)' <=> Waits(n)
    BY DEF Waits
  <1>12. ASSUME NEW n PROVE CallsOf(n)' = CallsOf(n) /\ PaymentsOf(n)' = PaymentsOf(n)
                            /\ AnswersOf(n)' = AnswersOf(n) \ {l}
    <2>1. AnswersOf(n)' = AnswersOf(n) \ {l}
      BY DEF AnswersOf
    <2> QED BY <2>1, SameCalls, SamePayments
  <1>13. ASSUME NEW n \in 1 .. MaxMessages
         PROVE  Accounted(n)'
    <2>1. CASE n = k
      <3>1. CallsOf(n)' = {} /\ AnswersOf(n)' = {} /\ ~ Waits(n)'
        BY <1>5, <1>11, <1>12, <2>1
      <3>2. Told(n, "paid")' => PaymentsOf(n)' # {}
        <4>1. CASE l.ok
          BY <1>5, <1>12, <2>1, <4>1
        <4>2. CASE ~ l.ok
          <5>1. v = "error"
            BY <1>2, <4>2
          <5>2. Told(n, "paid")' => Told(n, "paid")
            BY <1>6, <1>9, <1>10, <2>1, <5>1 DEF Told
          <5> QED BY <1>4, <1>12, <2>1, <5>2 DEF Accounted
        <4> QED BY <4>1, <4>2
      <3>3. Told(n, "error")' => PaymentsOf(n)' = {}
        <4>1. CASE ~ l.ok
          BY <1>5, <1>12, <2>1, <4>1
        <4>2. CASE l.ok
          <5>1. v = "paid"
            BY <1>2, <4>2
          <5>2. Told(n, "error")' => Told(n, "error")
            BY <1>6, <1>9, <1>10, <2>1, <5>1 DEF Told
          <5> QED BY <1>5, <2>1, <5>2
        <4> QED BY <4>1, <4>2
      <3> QED BY <3>1, <3>2, <3>3 DEF Accounted
    <2>2. CASE n # k
      <3>1. l \notin AnswersOf(n)
        BY <1>2, <2>2 DEF AnswersOf
      <3>2. CallsOf(n)' = CallsOf(n) /\ AnswersOf(n)' = AnswersOf(n) /\ PaymentsOf(n)' = PaymentsOf(n)
        BY <1>12, <3>1
      <3>3. \A w : Told(n, w)' <=> Told(n, w)
        BY <1>9, <1>10, <2>2 DEF Told
      <3> QED BY <1>1, <1>11, <3>2, <3>3, Undisturbed
    <2> QED BY <2>1, <2>2
  <1> QED BY <1>13

\* The answer to a ping concerns no message.
LEMMA StartedAccounts ==
  ASSUME IInv, process = 0, NEW l \in client.loading, l.call.kind # "payment",
         client'.rpcCalls = client.rpcCalls, client'.loading = client.loading \ {l},
         UNCHANGED <<fiat, process, asked, paid, told>>
  PROVE  \A n \in 1 .. MaxMessages : Accounted(n)'
  <1>1. \A n \in 1 .. MaxMessages : Accounted(n)
    BY DEF IInv, Accounts
  <1>2. ASSUME NEW n PROVE
          /\ CallsOf(n)' = CallsOf(n) /\ PaymentsOf(n)' = PaymentsOf(n) /\ AnswersOf(n)' = AnswersOf(n)
          /\ Waits(n)' <=> Waits(n)
          /\ (Told(n, "error")' <=> Told(n, "error")) /\ (Told(n, "paid")' <=> Told(n, "paid"))
    <2>1. AnswersOf(n)' = AnswersOf(n)
      BY DEF AnswersOf
    <2>2. Waits(n)' <=> Waits(n)
      BY DEF Waits
    <2>3. (Told(n, "error")' <=> Told(n, "error")) /\ (Told(n, "paid")' <=> Told(n, "paid"))
      BY DEF Told
    <2> QED BY <2>1, <2>2, <2>3, SameCalls, SamePayments
  <1> QED BY <1>1, <1>2, Undisturbed

\* What else the invariant says does not depend on which answers are loading.
LEMMA CallBackKeeps ==
  ASSUME IInv, UNCHANGED <<fiat, process, requests, paid, asked, now, failures, ordered>>,
         ClientOK(client)', client'.nextRpcId = client.nextRpcId, client'.rpcCalls = client.rpcCalls,
         told' \in Seq(SUBSET Replies), Len(told)' = Len(asked),
         process = 0 => \A n \in 1 .. MaxMessages : Accounted(n)'
  PROVE  IInv'
  <1>1. TypeInv /\ (\A o \in ordered : Justified(o)) /\ Accounts
    BY DEF IInv
  <1>2. TypeInv'
    <2>1. Bounded'
      <3>1. Decided \subseteq Decided'
        BY DEF Decided
      <3> QED BY <1>1, <3>1, StaysBounded DEF TypeInv
    <2>2. FiatOK(fiat)'
      BY <1>1 DEF TypeInv, FiatOK
    <2>3. (requests \cup paid \subseteq Received)'
      BY <1>1 DEF TypeInv, Received
    <2> QED BY <1>1, <2>1, <2>2, <2>3 DEF TypeInv
  <1>3. (\A o \in ordered : Justified(o))'
    BY <1>1 DEF Justified
  <1>4. Accounts'
    BY <1>1 DEF Accounts
  <1> QED BY <1>2, <1>3, <1>4 DEF IInv

LEMMA CallBackStep ==
  ASSUME IInv, NEW l \in client.loading, CallBack(l)
  PROVE  IInv'
  <1>1. TypeInv /\ (\A o \in ordered : Justified(o)) /\ Accounts
    BY DEF IInv
  <1>2. UNCHANGED <<fiat, process, ready, requests, paid, asked, now, failures, ordered>>
    BY DEF CallBack, headless
  <1>3. ClientOK(client)
    BY <1>1 DEF TypeInv
  <1>4. l.ok \in BOOLEAN /\ l.call \in Calls
    BY <1>3 DEF ClientOK, Answers
  <1>5. CASE l.call.kind = "ping"
    <2>1. client' = onPing([client EXCEPT !.loading = @ \ {l}], l.ok) /\ UNCHANGED told
      BY <1>5 DEF CallBack
    <2>2. PICK d : d = client'
      OBVIOUS
    <2>3. /\ ClientOK(d) /\ d.nextRpcId = client.nextRpcId
          /\ d.rpcCalls = client.rpcCalls /\ d.loading = client.loading \ {l}
      BY <1>3, <1>4, <2>1, <2>2, PingEffect
    <2>4. /\ ClientOK(client)' /\ client'.nextRpcId = client.nextRpcId
          /\ client'.rpcCalls = client.rpcCalls /\ client'.loading = client.loading \ {l}
      BY <2>2, <2>3 DEF ClientOK
    <2>5. process = 0 => \A n \in 1 .. MaxMessages : Accounted(n)'
      BY <1>2, <1>5, <2>1, <2>4, StartedAccounts
    <2>6. told' \in Seq(SUBSET Replies) /\ Len(told)' = Len(asked)
      BY <1>1, <2>1 DEF TypeInv
    <2> QED BY <1>2, <2>4, <2>5, <2>6, CallBackKeeps
  <1>6. CASE l.call.kind # "ping"
    <2>1. /\ client' = [client EXCEPT !.loading = @ \ {l}]
          /\ told' = [told EXCEPT ![l.call.message] = @ \cup {IF l.ok THEN "paid" ELSE "error"}]
      BY <1>6 DEF CallBack
    <2>2. PICK d : d = client'
      OBVIOUS
    <2>3. /\ ClientOK(d) /\ d.nextRpcId = client.nextRpcId
          /\ d.rpcCalls = client.rpcCalls /\ d.loading = client.loading \ {l}
      BY <1>3, <2>1, <2>2, LoadingEffect
    <2>4. /\ ClientOK(client)' /\ client'.nextRpcId = client.nextRpcId
          /\ client'.rpcCalls = client.rpcCalls /\ client'.loading = client.loading \ {l}
      BY <2>2, <2>3 DEF ClientOK
    <2>5. l.call.kind = "payment"
      BY <1>4, <1>6 DEF Calls, Payments, ping
    <2>6. process = 0 => \A n \in 1 .. MaxMessages : Accounted(n)'
      BY <1>2, <2>1, <2>4, <2>5, SettledAccounts
    <2>7. told' \in Seq(SUBSET Replies) /\ Len(told)' = Len(asked)
      <3>1. told \in Seq(SUBSET Replies) /\ Len(told) = Len(asked)
        BY <1>1 DEF TypeInv
      <3>2. CASE l.call.message \in 1 .. Len(told)
        <4>1. PICK u, v : u = told' /\ v = IF l.ok THEN "paid" ELSE "error"
          OBVIOUS
        <4>2. v \in Replies /\ u = [told EXCEPT ![l.call.message] = @ \cup {v}]
          BY <2>1, <4>1 DEF Replies
        <4>3. u \in Seq(SUBSET Replies) /\ Len(u) = Len(told)
          BY <3>1, <3>2, <4>2, ReplyEffect
        <4> QED BY <3>1, <4>1, <4>3
      <3>3. CASE l.call.message \notin 1 .. Len(told)
        <4>1. told' = told
          BY <2>1, <3>1, <3>3, LenProperties
        <4> QED BY <3>1, <4>1
      <3> QED BY <3>2, <3>3
    <2> QED BY <1>2, <2>4, <2>6, <2>7, CallBackKeeps
  <1> QED BY <1>5, <1>6

LEMMA TickStep == IInv /\ Tick => IInv'
  <1> SUFFICES ASSUME IInv, Tick PROVE IInv'
    OBVIOUS
  <1>1. now \in 1 .. MaxTime /\ failures \in 0 .. MaxFailures
    BY DEF IInv, TypeInv
  <1>2. now' \in now .. MaxTime /\ failures' \in 0 .. MaxFailures
    BY <1>1, SimpleBotAssumption DEF Tick
  <1>3. UNCHANGED <<bot, paid, talk, ordered>> /\ requests' \subseteq requests
    BY DEF Tick, headless
  <1> QED BY <1>2, <1>3, QuietStep

LEMMA HeadlessStep == IInv /\ (HeadlessReady \/ HeadlessRestarts) => IInv'
  <1> SUFFICES ASSUME IInv, HeadlessReady \/ HeadlessRestarts PROVE IInv'
    OBVIOUS
  <1>1. now \in 1 .. MaxTime /\ failures \in 0 .. MaxFailures
    BY DEF IInv, TypeInv
  <1>2. failures' \in 0 .. MaxFailures
    BY <1>1, FailureIsCounted DEF HeadlessReady, HeadlessRestarts
  <1>3. /\ UNCHANGED <<bot, paid, talk, ordered>> /\ requests' \subseteq requests
        /\ now' \in now .. MaxTime
    BY <1>1 DEF HeadlessReady, HeadlessRestarts
  <1> QED BY <1>2, <1>3, QuietStep

LEMMA StutteringStep == IInv /\ UNCHANGED vars => IInv'
  <1> SUFFICES ASSUME IInv, UNCHANGED vars PROVE IInv'
    OBVIOUS
  <1>1. /\ UNCHANGED <<bot, paid, talk, ordered>> /\ requests' \subseteq requests
        /\ now' = now /\ failures' = failures
    BY DEF vars, headless
  <1>2. now' \in now .. MaxTime /\ failures' \in 0 .. MaxFailures
    BY <1>1 DEF IInv, TypeInv
  <1> QED BY <1>1, <1>2, QuietStep

LEMMA NextKeeps == IInv /\ [Next]_vars => IInv'
  <1> SUFFICES ASSUME IInv, [Next]_vars PROVE IInv'
    OBVIOUS
  <1>1. CASE Ping
    BY <1>1, PingStep
  <1>2. CASE Rates
    BY <1>2, RatesStep DEF Rates
  <1>3. CASE Executes
    BY <1>3, ExecuteStep DEF Executes
  <1>4. CASE Callback
    BY <1>4, CallBackStep DEF Callback
  <1>5. CASE \E m \in Messages : Hear(m)
    BY <1>5, HearStep
  <1>6. CASE Tick
    BY <1>6, TickStep
  <1>7. CASE HeadlessReady \/ HeadlessRestarts
    BY <1>7, HeadlessStep
  <1>8. CASE BotRestarts
    BY <1>8, BotRestartsStep
  <1>9. CASE UNCHANGED vars
    BY <1>9, StutteringStep
  <1> QED BY <1>1, <1>2, <1>3, <1>4, <1>5, <1>6, <1>7, <1>8, <1>9 DEF Next

-----------------------------------------------------------------------------
(* The theorems.                                                           *)

LEMMA InvariantHolds == Spec => []IInv
  BY InitEstablishes, NextKeeps, PTL DEF Spec

LEMMA InvariantTypes == IInv => TypeOK
  <1> SUFFICES ASSUME IInv PROVE TypeOK
    OBVIOUS
  <1>1. TypeInv
    BY DEF IInv
  <1>2. client.nextRpcId \in 0 .. (MaxPings + MaxMessages)
    BY <1>1, IdsAreFew DEF TypeInv
  <1>3. /\ DOMAIN client.rpcCalls \subseteq 0 .. (client.nextRpcId - 1)
        /\ \A i \in DOMAIN client.rpcCalls : client.rpcCalls[i] \in Calls
        /\ client.started \in BOOLEAN
        /\ \A l \in client.loading : l \in [id : Ids, call : Calls, ok : BOOLEAN]
    BY <1>1 DEF TypeInv, ClientOK, Answers
  <1>4. /\ fiat.cachedAt <= now /\ fiat.asOf <= fiat.cachedAt
        /\ fiat.asking \subseteq 0 .. Len(asked)
    BY <1>1 DEF TypeInv, FiatOK
  <1>5. \A q \in requests \cup paid : q \in [id : Ids, process : 0 .. process, call : Calls]
    BY <1>1 DEF TypeInv, Received
  <1>6. /\ now \in 1 .. MaxTime /\ failures \in 0 .. MaxFailures
        /\ told \in Seq(SUBSET Replies) /\ Len(told) = Len(asked)
    BY <1>1 DEF TypeInv
  <1> QED BY <1>2, <1>3, <1>4, <1>5, <1>6 DEF TypeOK

\* The ids given do not exceed what pings and messages account for, the waiting
\* calls have ids that were given, and the rates are not of the future: the calls
\* of Client.js and Session.js and the rates of Fiat.js as simple_bot.js uses them.
THEOREM TypeCorrect == Spec => []TypeOK
  BY InvariantHolds, InvariantTypes, PTL

\* What the headless client is told to send is the amount that unit.js makes of
\* what the user asked for: its value without the fraction of a wei, however many
\* digits it has.
THEOREM SendsWhatIsAsked == Spec => []SentIsAsked
  <1>1. IInv => SentIsAsked
    BY DEF IInv, Justified, SentIsAsked
  <1> QED BY <1>1, InvariantHolds, PTL

\* What simple_bot.js pays is below what 100 USD were worth at a moment within the
\* age limit of Fiat.js, unless an answer without the dollar has hidden their age.
THEOREM PaysBelowLimit == Spec => []PaysWithinLimit
  <1>1. IInv => PaysWithinLimit
    BY DEF IInv, Justified, PaysWithinLimit
  <1> QED BY <1>1, InvariantHolds, PTL

\* In the first process nobody is told of a payment that is not made, nor of the
\* failure of one that is: an answer reaches the callback of its own call, for
\* ids are not given twice and every message calls once at most.
THEOREM TellsOnlyOfPayments == Spec => []ToldOnlyIfPaid
  <1>1. IInv => ToldOnlyIfPaid
    <2> SUFFICES ASSUME IInv, process = 0, NEW n \in DOMAIN told
                 PROVE  /\ "paid" \in told[n] => \E q \in paid : q.call.message = n
                        /\ "error" \in told[n] => ~ \E q \in paid : q.call.message = n
      BY DEF ToldOnlyIfPaid
    <2>1. n \in 1 .. Len(told) /\ n \in 1 .. MaxMessages
      BY LenProperties, SimpleBotAssumption DEF IInv, TypeInv
    <2>2. Accounted(n)
      BY <2>1 DEF IInv, Accounts
    <2> QED BY <2>1, <2>2 DEF Accounted, Told, PaymentsOf
  <1> QED BY <1>1, InvariantHolds, PTL

\* The services of a process of simple_bot.js are configured once it is started,
\* and not again, whatever pings are answered late.
THEOREM ServicesStart == Spec => []ServicesStartOnce
  <1>1. IInv => ServicesStartOnce
    BY DEF IInv, TypeInv, ClientOK, ServicesStartOnce
  <1> QED BY <1>1, InvariantHolds, PTL
=============================================================================
