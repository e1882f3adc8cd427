------------------------------- MODULE Numbers ------------------------------
(***************************************************************************)
(* What the other proofs need to know about natural numbers: induction,    *)
(* largest and smallest numbers, powers of two, quotients and remainders,  *)
(* and that recursive functions on them exist.                             *)
(***************************************************************************)
EXTENDS Integers, FiniteSetsExt, FiniteSetTheorems, WellFoundedInduction, TLAPS

-----------------------------------------------------------------------------
(***************************************************************************)
(* Induction.  The library's theorem takes a predicate for a parameter,    *)
(* which the provers cannot instantiate; this one takes a set of numbers.  *)
(***************************************************************************)
LEMMA Least ==
  ASSUME NEW S, S \subseteq Nat, S # {}
  PROVE  \E n \in S : \A m \in S : n <= m
<1> DEFINE R == OpToRel(<, Nat)
<1>1. IsWellFoundedOn(R, Nat)
  BY NatLessThanWellFounded
<1> HIDE DEF R
<1>2. PICK n \in S : \A m \in S : <<m, n>> \notin R
  BY <1>1, WFMin
<1>3. \A m \in S : ~(m < n)
  BY <1>2 DEF OpToRel, R
<1> QED
  BY <1>3

LEMMA Induction ==
  ASSUME NEW S, S \subseteq Nat, 0 \in S, \A n \in S : n + 1 \in S
  PROVE  S = Nat
<1> SUFFICES ASSUME Nat \ S # {} PROVE FALSE
  OBVIOUS
<1>1. PICK n \in Nat \ S : \A m \in Nat \ S : n <= m
  <2>1. Nat \ S \subseteq Nat
    OBVIOUS
  <2> QED
    BY <2>1, Least
<1>2. n - 1 \in S
  BY <1>1
<1> QED
  BY <1>1, <1>2

-----------------------------------------------------------------------------
(***************************************************************************)
(* The largest and the smallest number of a set.                           *)
(***************************************************************************)
LEMMA MaxIs ==
  ASSUME NEW S, S \subseteq Int, NEW v \in S, \A w \in S : w <= v
  PROVE  Max(S) = v
<1>1. \A w \in S : v >= w
  OBVIOUS
<1>2. \A u \in S : (\A w \in S : u >= w) => u = v
  OBVIOUS
<1> QED
  BY <1>1, <1>2 DEF Max

LEMMA MinIs ==
  ASSUME NEW S, S \subseteq Int, NEW v \in S, \A w \in S : v <= w
  PROVE  Min(S) = v
<1>1. \A u \in S : (\A w \in S : u <= w) => u = v
  OBVIOUS
<1> QED
  BY <1>1 DEF Min

\* A bounded set of numbers has a largest one.
LEMMA Largest ==
  ASSUME NEW S, S \subseteq Nat, S # {}, NEW b \in Nat, \A x \in S : x <= b
  PROVE  Max(S) \in S /\ \A x \in S : x <= Max(S)
<1> DEFINE T == {b - x : x \in S}
<1>1. T \subseteq Nat /\ T # {}
  <2>1. \A x \in S : b - x \in Nat
    OBVIOUS
  <2>2. PICK x \in S : TRUE
    OBVIOUS
  <2>3. b - x \in T
    OBVIOUS
  <2> QED
    BY <2>1, <2>3
<1>2. PICK t \in T : \A u \in T : t <= u
  BY <1>1, Least
<1>3. PICK x \in S : t = b - x
  BY <1>2
<1>4. ASSUME NEW y \in S PROVE y <= x
  <2>1. b - y \in T /\ b - x <= b - y
    BY <1>2, <1>3
  <2> QED
    BY <2>1
<1>5. S \subseteq Int
  OBVIOUS
<1>6. Max(S) = x
  BY <1>4, <1>5, MaxIs
<1> QED
  BY <1>3, <1>4, <1>6

\* The smaller and the larger of two numbers.
LEMMA Smaller ==
  ASSUME NEW a \in Int, NEW b \in Int
  PROVE  Min({a, b}) = IF a <= b THEN a ELSE b
<1>1. {a, b} \subseteq Int /\ a \in {a, b} /\ b \in {a, b}
  OBVIOUS
<1>2. CASE a <= b
  <2>1. \A w \in {a, b} : a <= w
    BY <1>2
  <2> QED
    BY <1>1, <1>2, <2>1, MinIs
<1>3. CASE ~(a <= b)
  <2>1. \A w \in {a, b} : b <= w
    BY <1>3
  <2> QED
    BY <1>1, <1>3, <2>1, MinIs
<1> QED
  BY <1>2, <1>3

LEMMA Larger ==
  ASSUME NEW a \in Int, NEW b \in Int
  PROVE  Max({a, b}) = IF a <= b THEN b ELSE a
<1>1. {a, b} \subseteq Int /\ a \in {a, b} /\ b \in {a, b}
  OBVIOUS
<1>2. CASE a <= b
  <2>1. \A w \in {a, b} : w <= b
    BY <1>2
  <2> QED
    BY <1>1, <1>2, <2>1, MaxIs
<1>3. CASE ~(a <= b)
  <2>1. \A w \in {a, b} : w <= a
    BY <1>3
  <2> QED
    BY <1>1, <1>3, <2>1, MaxIs
<1> QED
  BY <1>2, <1>3

-----------------------------------------------------------------------------
(***************************************************************************)
(* Powers of two.  2^n counts the sets of numbers up to n, which is how    *)
(* the library knows of it.                                                *)
(***************************************************************************)
Upto(n) == 1..n

LEMMA PowerCounts ==
  ASSUME NEW n \in Nat
  PROVE  /\ IsFiniteSet(SUBSET Upto(n))
         /\ Cardinality(SUBSET Upto(n)) = 2^n
         /\ 2^n \in Nat
<1>1. IsFiniteSet(Upto(n)) /\ Cardinality(Upto(n)) = n
  <2>1. 1 <= n \/ n = 0
    OBVIOUS
  <2>2. Cardinality(1..n) = IF 1 > n THEN 0 ELSE n - 1 + 1
    BY FS_Interval
  <2> QED
    BY <2>1, <2>2, FS_Interval DEF Upto
<1>2. PICK c : c = Cardinality(Upto(n))
  OBVIOUS
<1>3. IsFiniteSet(SUBSET Upto(n)) /\ Cardinality(SUBSET Upto(n)) = 2^c
  BY <1>1, <1>2, FS_SUBSET
<1>4. c = n
  BY <1>1, <1>2
<1>5. Cardinality(SUBSET Upto(n)) \in Nat
  BY <1>3, FS_CardinalityType
<1> QED
  BY <1>3, <1>4, <1>5

LEMMA PowerZero == 2^0 = 1
<1>1. Upto(0) = {}
  BY DEF Upto
<1>2. SUBSET Upto(0) = {{}}
  BY <1>1
<1>3. Cardinality({{}}) = 1
  BY FS_Singleton
<1>4. Cardinality(SUBSET Upto(0)) = 2^0
  BY PowerCounts
<1> QED
  BY <1>2, <1>3, <1>4

LEMMA PowerDoubles ==
  ASSUME NEW n \in Nat
  PROVE  2^(n + 1) = 2 * 2^n
<1> DEFINE A == SUBSET Upto(n)
           f == [s \in A |-> s \cup {n + 1}]
           B == {s \cup {n + 1} : s \in A}
<1>1. SUBSET Upto(n + 1) = A \cup B
  <2>1. Upto(n + 1) = Upto(n) \cup {n + 1}
    BY DEF Upto
  <2>2. ASSUME NEW s \in SUBSET (Upto(n) \cup {n + 1}), s \notin A
        PROVE  s \in B
    <3>1. s \ {n + 1} \in A /\ s = (s \ {n + 1}) \cup {n + 1}
      BY <2>2
    <3> QED
      BY <3>1
  <2> QED
    BY <2>1, <2>2
<1>2. A \cap B = {}
  BY DEF Upto
<1>3. f \in Bijection(A, B)
  <2>1. \A s \in A : s = f[s] \ {n + 1}
    BY DEF Upto
  <2>2. f \in [A -> B] /\ \A b \in B : \E s \in A : f[s] = b
    OBVIOUS
  <2> QED
    BY <2>1, <2>2 DEF Bijection, Injection, Surjection, IsInjective
<1>4. IsFiniteSet(A) /\ Cardinality(A) = 2^n /\ 2^n \in Nat
  BY PowerCounts
<1> HIDE DEF A, B, f
<1>5. IsFiniteSet(B) /\ Cardinality(B) = 2^n
  BY <1>3, <1>4, FS_Bijection DEF ExistsBijection
<1>6. Cardinality(A \cup B) = Cardinality(A) + Cardinality(B) - Cardinality({})
  BY <1>2, <1>4, <1>5, FS_Union
<1>7. Cardinality({}) = 0
  BY FS_EmptySet
<1>8. n + 1 \in Nat
  OBVIOUS
<1>9. PICK m : m = n + 1
  OBVIOUS
<1>10. Cardinality(SUBSET Upto(m)) = 2^m
  BY <1>8, <1>9, PowerCounts
<1>11. Cardinality(A \cup B) = 2^m
  BY <1>1, <1>9, <1>10
<1>12. 2^m = 2 * 2^n
  BY <1>4, <1>5, <1>6, <1>7, <1>11
<1> QED
  BY <1>9, <1>12

LEMMA PowerPositive ==
  ASSUME NEW n \in Nat
  PROVE  2^n \in Nat /\ 2^n >= 1
<1> DEFINE S == {k \in Nat : 2^k >= 1}
<1>1. 0 \in S
  BY PowerZero
<1>2. ASSUME NEW k \in S PROVE k + 1 \in S
  <2>1. PICK p \in Nat : p = 2^k /\ p >= 1
    BY <1>2, PowerCounts
  <2>2. PICK j \in Nat : j = k + 1
    BY <1>2
  <2>3. 2^(k + 1) = 2 * p
    BY <1>2, <2>1, PowerDoubles
  <2>4. 2^j >= 1
    BY <2>1, <2>2, <2>3
  <2> QED
    BY <2>2, <2>4
<1> HIDE DEF S
<1>3. S = Nat
  <2>1. S \subseteq Nat
    BY DEF S
  <2> QED
    BY <1>1, <1>2, <2>1, Induction
<1> QED
  BY <1>3, PowerCounts DEF S

LEMMA PowerAdds ==
  ASSUME NEW a \in Nat, NEW b \in Nat
  PROVE  2^(a + b) = 2^a * 2^b
<1> DEFINE S == {k \in Nat : 2^(a + k) = 2^a * 2^k}
<1>1. PICK p \in Nat : p = 2^a
  BY PowerPositive
<1>2. 0 \in S
  <2>1. a + 0 = a /\ p * 1 = p
    BY <1>1
  <2> QED
    BY <1>1, <2>1, PowerZero
<1>3. ASSUME NEW k \in S PROVE k + 1 \in S
  <2>1. PICK q \in Nat : q = 2^k
    BY <1>3, PowerPositive
  <2>2. PICK j \in Nat : j = a + k
    BY <1>3
  <2>3. 2^(j + 1) = 2 * (p * q)
    <3>1. 2^j = p * q
      BY <1>1, <1>3, <2>1, <2>2
    <3> QED
      BY <3>1, <2>2, PowerDoubles
  <2>4. 2^(k + 1) = 2 * q
    BY <1>3, <2>1, PowerDoubles
  <2>5. 2 * (p * q) = p * (2 * q)
    BY SMT
  <2>6. j + 1 = a + (k + 1)
    BY <1>3, <2>2
  <2> QED
    BY <1>1, <1>3, <2>3, <2>4, <2>5, <2>6
<1> HIDE DEF S
<1>4. S = Nat
  <2>1. S \subseteq Nat
    BY DEF S
  <2> QED
    BY <1>2, <1>3, <2>1, Induction
<1> QED
  BY <1>4 DEF S

LEMMA PowerGrows ==
  ASSUME NEW a \in Nat, NEW b \in Nat, a <= b
  PROVE  2^a <= 2^b
<1>1. PICK c \in Nat : b = a + c
  <2>1. b - a \in Nat /\ b = a + (b - a)
    OBVIOUS
  <2> QED
    BY <2>1
<1>2. PICK p \in Nat, q \in Nat : p = 2^a /\ q = 2^c /\ q >= 1
  BY PowerPositive
<1>3. 2^b = p * q
  BY <1>1, <1>2, PowerAdds
<1>4. p <= p * q
  BY <1>2, SMT
<1> QED
  BY <1>2, <1>3, <1>4

\* There is a power of two above every number.
LEMMA PowerExceeds ==
  ASSUME NEW n \in Nat
  PROVE  n < 2^n
<1> DEFINE S == {k \in Nat : k < 2^k}
<1>1. 0 \in S
  BY PowerZero
<1>2. ASSUME NEW k \in S PROVE k + 1 \in S
  <2>1. PICK q \in Nat : q = 2^k /\ k < q
    BY <1>2, PowerPositive
  <2>2. PICK j \in Nat : j = k + 1 /\ j < 2 * q
    BY <1>2, <2>1
  <2>3. 2^(k + 1) = 2 * q
    BY <1>2, <2>1, PowerDoubles
  <2> QED
    BY <2>2, <2>3
<1> HIDE DEF S
<1>3. S = Nat
  <2>1. S \subseteq Nat
    BY DEF S
  <2> QED
    BY <1>1, <1>2, <2>1, Induction
<1> QED
  BY <1>3 DEF S

\* The least power of two that is not less than n.
LEMMA LeastPower ==
  ASSUME NEW n \in Nat
  PROVE  \E k \in 0..n : 2^k >= n /\ (k = 0 \/ 2^(k - 1) < n)
<1> DEFINE S == {k \in Nat : n <= 2^k}
<1>1. n \in S
  <2>1. n < 2^n /\ 2^n \in Nat
    BY PowerExceeds, PowerPositive
  <2> QED
    BY <2>1
<1>2. PICK k \in S : \A m \in S : k <= m
  <2>1. S \subseteq Nat /\ S # {}
    BY <1>1
  <2> HIDE DEF S
  <2> QED
    BY <2>1, Least
<1>3. k \in 0..n
  BY <1>1, <1>2
<1>4. k = 0 \/ 2^(k - 1) < n
  <2> SUFFICES ASSUME k # 0 PROVE 2^(k - 1) < n
    OBVIOUS
  <2>1. PICK j \in Nat : j = k - 1
    BY <1>2
  <2>2. j \notin S
    BY <1>2, <2>1
  <2>3. PICK p \in Nat : p = 2^j
    BY PowerPositive
  <2>4. p < n
    BY <2>2, <2>3
  <2> QED
    BY <2>1, <2>3, <2>4
<1>5. 2^k >= n
  <2>1. PICK p \in Nat : p = 2^k /\ n <= p
    BY <1>2, PowerPositive
  <2> QED
    BY <2>1
<1> QED
  BY <1>3, <1>4, <1>5

-----------------------------------------------------------------------------
(***************************************************************************)
(* Quotients and remainders.                                               *)
(***************************************************************************)

\* A number is its quotient and its remainder.
LEMMA DivMod ==
  ASSUME NEW a \in Nat, NEW n \in Nat \ {0}
  PROVE  a \div n \in Nat /\ a % n \in 0..(n - 1) /\ a = (a \div n) * n + (a % n)
  BY SMT

\* There is no other way to split it.
LEMMA Unique ==
  ASSUME NEW q \in Nat, NEW n \in Nat \ {0}, NEW r \in 0..(n - 1)
  PROVE  (q * n + r) \div n = q /\ (q * n + r) % n = r
  BY SMTT(30)

\* Low bits of low bits.
LEMMA ModTwice ==
  ASSUME NEW a \in Nat, NEW s \in Nat \ {0}, NEW t \in Nat \ {0}
  PROVE  (a % (s * t)) % s = a % s
<1> DEFINE m == s * t
           q == a \div m
           r == a % m
           u == r \div s
           v == r % s
<1>1. m \in Nat \ {0}
  BY SMT
<1>2. m = s * t
  OBVIOUS
<1> HIDE DEF m
<1>3. q \in Nat /\ r \in Nat /\ a = q * m + r
  BY <1>1, DivMod
<1> HIDE DEF q, r
<1>4. u \in Nat /\ v \in 0..(s - 1) /\ r = u * s + v
  BY <1>3, DivMod
<1> HIDE DEF u, v
<1>5. a = (q * t + u) * s + v /\ q * t + u \in Nat
  BY <1>2, <1>3, <1>4
<1>6. a % s = v
  BY <1>4, <1>5, Unique
<1> QED BY <1>6 DEF r, v, m

\* High bits and low bits put together.
LEMMA Together ==
  ASSUME NEW m \in Nat \ {0}, NEW n \in Nat \ {0}, NEW h \in 0..(m - 1), NEW l \in 0..(n - 1)
  PROVE  m * n \in Nat \ {0} /\ h * n + l \in 0..(m * n - 1)
<1>1. h * n <= (m - 1) * n
  BY SMT
<1>2. (m - 1) * n = m * n - n
  BY SMT
<1> QED BY <1>1, <1>2, SMT

\* What is less than n is its own remainder.
LEMMA Small ==
  ASSUME NEW n \in Nat \ {0}, NEW a \in 0..(n - 1)
  PROVE  a % n = a /\ a \div n = 0
<1>1. a = 0 * n + a
  BY SMT
<1> QED BY <1>1, Unique

\* Equal multiples.
LEMMA Cancel ==
  ASSUME NEW a \in Nat, NEW b \in Nat, NEW n \in Nat \ {0}, a * n = b * n
  PROVE  a = b
<1>1. (a * n) \div n = a /\ (b * n) \div n = b
  <2>1. 0 \in 0..(n - 1) /\ a * n = a * n + 0 /\ b * n = b * n + 0
    BY SMT
  <2> QED BY <2>1, Unique
<1> QED BY <1>1

\* The quotient by a divisor of n is less than the number of quotients.
LEMMA QuotientFits ==
  ASSUME NEW s \in Nat \ {0}, NEW t \in Nat \ {0}, NEW a \in 0..(s * t - 1)
  PROVE  a \div t \in 0..(s - 1)
<1> DEFINE q == a \div t
<1>1. q \in Nat /\ a % t \in 0..(t - 1) /\ a = q * t + (a % t)
  BY DivMod
<1> HIDE DEF q
<1>2. q * t < s * t
  BY <1>1, SMT
<1>3. q < s
  BY <1>1, <1>2, SMT
<1> QED BY <1>1, <1>3 DEF q

\* A factor may be taken modulo before or after.
LEMMA ModProduct ==
  ASSUME NEW a \in Nat, NEW b \in Nat, NEW m \in Nat \ {0}
  PROVE  ((a % m) * b) % m = (a * b) % m
<1>1. PICK q \in Nat, r \in 0..(m - 1) : a = q * m + r /\ r = a % m
  BY DivMod
<1>2. r * b \in Nat
  BY <1>1, SMT
<1>3. PICK p \in Nat, u \in 0..(m - 1) : r * b = p * m + u /\ u = (r * b) % m
  BY <1>2, DivMod
<1>4. a * b = (q * b + p) * m + u /\ q * b + p \in Nat
  <2>1. (q * m + r) * b = (q * m) * b + r * b
    BY <1>1, SMT
  <2>2. (q * m) * b = (q * b) * m
    BY <1>1, SMT
  <2>3. PICK c \in Nat : c = q * b
    BY <1>1, SMT
  <2>4. (c + p) * m = c * m + p * m
    BY <1>3, <2>3, SMT
  <2>5. PICK x \in Nat, y \in Nat : x = c * m /\ y = p * m
    BY <1>3, <2>3, SMT
  <2>6. a * b = x + (y + u)
    BY <1>1, <1>3, <2>1, <2>2, <2>3, <2>5
  <2>7. (c + p) * m + u = x + (y + u)
    BY <1>3, <2>4, <2>5
  <2> QED BY <1>3, <2>3, <2>6, <2>7
<1>5. (a * b) % m = u
  BY <1>4, Unique
<1> QED BY <1>1, <1>3, <1>5

-----------------------------------------------------------------------------
\* Induction up to n, and down from n.
LEMMA Upward ==
  ASSUME NEW n \in Nat, NEW S, 0 \in S, \A i \in 0..(n - 1) : i \in S => i + 1 \in S
  PROVE  \A i \in 0..n : i \in S
<1> DEFINE K == {k \in Nat : k <= n => k \in S}
<1>1. 0 \in K
  OBVIOUS
<1>2. ASSUME NEW k \in K PROVE k + 1 \in K
  <2>1. k + 1 <= n => k \in 0..(n - 1) /\ k <= n
    BY <1>2
  <2> QED BY <1>2, <2>1
<1> HIDE DEF K
<1>3. K = Nat
  <2>1. K \subseteq Nat
    BY DEF K
  <2> QED BY <1>1, <1>2, <2>1, Induction
<1>4. ASSUME NEW i \in 0..n PROVE i \in S
  <2>1. i \in K /\ i <= n
    BY <1>3
  <2> QED BY <2>1 DEF K
<1> QED BY <1>4

LEMMA Downward ==
  ASSUME NEW n \in Nat, NEW S, n \in S, \A i \in 1..(n - 1) : i + 1 \in S => i \in S
  PROVE  \A i \in 1..n : i \in S
<1> DEFINE K == {k \in Nat : k <= n - 1 => n - k \in S}
<1>1. 0 \in K
  OBVIOUS
<1>2. ASSUME NEW k \in K PROVE k + 1 \in K
  <2>1. ASSUME k + 1 <= n - 1 PROVE n - (k + 1) \in S
    <3>1. k <= n - 1 /\ n - (k + 1) \in 1..(n - 1) /\ (n - (k + 1)) + 1 = n - k
      BY <1>2, <2>1
    <3>2. n - k \in S
      BY <1>2, <3>1
    <3> QED BY <3>1, <3>2
  <2> QED BY <1>2, <2>1
<1> HIDE DEF K
<1>3. K = Nat
  <2>1. K \subseteq Nat
    BY DEF K
  <2> QED BY <1>1, <1>2, <2>1, Induction
<1>4. ASSUME NEW i \in 1..n PROVE i \in S
  <2>1. n - i \in Nat /\ n - i <= n - 1 /\ n - (n - i) = i
    OBVIOUS
  <2>2. n - i \in K
    BY <1>3, <2>1
  <2> QED BY <2>1, <2>2 DEF K
<1> QED BY <1>4

-----------------------------------------------------------------------------
(***************************************************************************)
(* Recursive functions exist, and stay within a set that their steps do    *)
(* not leave.                                                              *)
(***************************************************************************)
Recurs(F, n, b, g) == F[0] = b /\ \A i \in 1..n : F[i] = g[i][F[i - 1]]

LEMMA Recursion ==
  ASSUME NEW n \in Nat, NEW S, NEW b \in S, NEW g \in [1..n -> [S -> S]]
  PROVE  \E F \in [0..n -> S] : Recurs(F, n, b, g)
<1> DEFINE K == {k \in Nat : k <= n => \E F \in [0..k -> S] : Recurs(F, k, b, g)}
<1>1. 0 \in K
  <2> DEFINE F == [i \in 0..0 |-> b]
  <2>1. F \in [0..0 -> S] /\ Recurs(F, 0, b, g)
    BY DEF Recurs
  <2> QED BY <2>1
<1>2. ASSUME NEW k \in K PROVE k + 1 \in K
  <2> SUFFICES ASSUME k + 1 <= n
               PROVE  \E F \in [0..(k + 1) -> S] : Recurs(F, k + 1, b, g)
    BY <1>2
  <2>1. PICK F \in [0..k -> S] : Recurs(F, k, b, g)
    BY <1>2
  <2>2. k + 1 \in 1..n /\ k \in 0..k /\ k \in Nat
    BY <1>2
  <2> DEFINE last == g[k + 1][F[k]]
             G == [i \in 0..(k + 1) |-> IF i = k + 1 THEN last ELSE F[i]]
  <2>3. last \in S
    BY <2>2
  <2>4. G \in [0..(k + 1) -> S]
    BY <2>2, <2>3
  <2>5. G[0] = b
    <3>1. 0 \in 0..(k + 1) /\ 0 # k + 1
      BY <2>2
    <3> QED BY <2>1, <3>1 DEF Recurs
  <2>6. ASSUME NEW i \in 1..(k + 1) PROVE G[i] = g[i][G[i - 1]]
    <3>1. CASE i = k + 1
      <4>1. k \in 0..(k + 1) /\ k # k + 1 /\ i \in 0..(k + 1) /\ i - 1 = k
        BY <2>2, <3>1
      <4>2. G[i - 1] = F[k] /\ G[i] = last
        BY <3>1, <4>1
      <4> QED BY <3>1, <4>2
    <3>2. CASE i # k + 1
      <4>1. i \in 1..k /\ i \in 0..(k + 1) /\ i - 1 \in 0..(k + 1) /\ i - 1 # k + 1
        BY <2>2, <3>2
      <4>2. G[i] = F[i] /\ G[i - 1] = F[i - 1]
        BY <3>2, <4>1
      <4> QED BY <2>1, <4>1, <4>2 DEF Recurs
    <3> QED BY <3>1, <3>2
  <2> HIDE DEF G
  <2> QED BY <2>4, <2>5, <2>6 DEF Recurs
<1> HIDE DEF K
<1>3. K = Nat
  <2>1. K \subseteq Nat
    BY DEF K
  <2> QED BY <1>1, <1>2, <2>1, Induction
<1> QED BY <1>3 DEF K
=============================================================================
