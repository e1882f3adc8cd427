-------------------------- MODULE SharedTermsProofs -------------------------
(***************************************************************************)
(* Theorems of SharedTerms: what terms that outlive an encoding do to the  *)
(* encodings after it, for every program.                                  *)
(***************************************************************************)
EXTENDS SharedTerms, SequenceTheorems, Numbers

-----------------------------------------------------------------------------
(***************************************************************************)
(* FlattenSeq, one sequence after the other.                               *)
(***************************************************************************)
Flattens(F, n, s) == F = [i \in 1..n |-> IF i = 1 THEN s[i] ELSE F[i - 1] \o s[i]]

LEMMA FlattensExist ==
  ASSUME NEW n \in Nat, NEW s
  PROVE  \E F : Flattens(F, n, s)
<1> DEFINE S == {k \in Nat : \E F : Flattens(F, k, s)}
<1>1. 0 \in S
  <2> DEFINE F == [i \in 1..0 |-> s[i]]
  <2>1. Flattens(F, 0, s)
    BY DEF Flattens
  <2> QED BY <2>1
<1>2. ASSUME NEW k \in S PROVE k + 1 \in S
  <2>1. PICK F : Flattens(F, k, s)
    BY <1>2
  <2> DEFINE last == IF k = 0 THEN s[1] ELSE F[k] \o s[k + 1]
             G == [i \in 1..(k + 1) |-> IF i = k + 1 THEN last ELSE F[i]]
  <2>2. ASSUME NEW i \in 1..(k + 1)
        PROVE  G[i] = IF i = 1 THEN s[i] ELSE G[i - 1] \o s[i]
    <3>1. CASE i = k + 1 /\ k = 0
      BY <3>1
    <3>2. CASE i = k + 1 /\ k # 0
      <4>1. i # 1 /\ i - 1 = k /\ k \in 1..(k + 1) /\ k # k + 1
        BY <3>2
      <4>2. G[i - 1] = F[k] /\ G[i] = F[k] \o s[i]
        BY <3>2, <4>1
      <4> QED BY <4>1, <4>2
    <3>3. CASE i # k + 1
      <4>1. i \in 1..k /\ G[i] = F[i]
        BY <3>3
      <4>2. i # 1 => i - 1 \in 1..k /\ i - 1 \in 1..(k + 1) /\ i - 1 # k + 1
        BY <4>1
      <4>3. i # 1 => G[i - 1] = F[i - 1]
        BY <4>2
      <4>4. F[i] = IF i = 1 THEN s[i] ELSE F[i - 1] \o s[i]
        BY <2>1, <4>1 DEF Flattens
      <4> QED BY <4>1, <4>3, <4>4
    <3> QED BY <3>1, <3>2, <3>3
  <2>3. G = [i \in 1..(k + 1) |-> G[i]]
    OBVIOUS
  <2> HIDE DEF G
  <2>4. Flattens(G, k + 1, s)
    BY <2>2, <2>3 DEF Flattens
  <2> QED BY <1>2, <2>4
<1> HIDE DEF S
<1>3. S = Nat
  <2>1. S \subseteq Nat
    BY DEF S
  <2> QED BY <1>1, <1>2, <2>1, Induction
<1> QED BY <1>3 DEF S

Agree(s, t, k) == \A i \in 1..k : s[i] = t[i]

LEMMA FlattensAgree ==
  ASSUME NEW n \in Nat, NEW m \in Nat, NEW s, NEW t, NEW F, NEW G,
         Flattens(F, n, s), Flattens(G, m, t),
         NEW k \in Nat, k <= n, k <= m, Agree(s, t, k)
  PROVE  Agree(F, G, k)
<1>0. \A i \in 1..k : s[i] = t[i]
  BY DEF Agree
<1> DEFINE S == {j \in Nat : \A i \in 1..j : i <= k => F[i] = G[i]}
<1>1. 0 \in S
  OBVIOUS
<1>2. ASSUME NEW j \in S PROVE j + 1 \in S
  <2>1. ASSUME NEW i \in 1..(j + 1), i <= k PROVE F[i] = G[i]
    <3>1. i \in 1..n /\ i \in 1..m /\ i \in 1..k
      BY <2>1
    <3>2. /\ F[i] = IF i = 1 THEN s[i] ELSE F[i - 1] \o s[i]
          /\ G[i] = IF i = 1 THEN t[i] ELSE G[i - 1] \o t[i]
      BY <3>1 DEF Flattens
    <3>3. i # 1 => i - 1 \in 1..j /\ i - 1 <= k
      BY <1>2, <3>1
    <3>4. i # 1 => F[i - 1] = G[i - 1]
      BY <1>2, <3>3
    <3> QED BY <1>0, <3>1, <3>2, <3>4
  <2> QED BY <1>2, <2>1
<1> HIDE DEF S
<1>3. S = Nat
  <2>1. S \subseteq Nat
    BY DEF S
  <2> QED BY <1>1, <1>2, <2>1, Induction
<1>4. k \in S
  BY <1>3
<1> QED BY <1>4 DEF Agree, S

FirstOf(s, k) == [i \in 1..k |-> s[i]]

LEMMA FlattenIs ==
  ASSUME NEW T, NEW n \in Nat \ {0}, NEW s \in [1..n -> Seq(T)], NEW F, Flattens(F, n, s)
  PROVE  FlattenSeq(s) = F[n]
<1>1. Len(s) = n /\ Len(s) # 0
  OBVIOUS
<1> DEFINE G == CHOOSE g : g = [i \in 1..Len(s) |-> IF i = 1 THEN s[i] ELSE g[i - 1] \o s[i]]
<1>2. Flattens(G, n, s)
  BY <1>1 DEF Flattens
<1>3. FlattenSeq(s) = G[n]
  BY <1>1 DEF FlattenSeq
<1> HIDE DEF G
<1>4. Agree(G, F, n)
  <2>1. n \in Nat /\ n <= n /\ Agree(s, s, n)
    BY DEF Agree
  <2> QED BY <1>2, <2>1, FlattensAgree
<1> QED BY <1>3, <1>4 DEF Agree

\* FlattenSeq of the first k sequences.
LEMMA FlattenStep ==
  ASSUME NEW T, NEW n \in Nat, NEW s \in [1..n -> Seq(T)]
  PROVE  /\ FlattenSeq(FirstOf(s, 0)) = <<>>
         /\ \A k \in 0..n : FlattenSeq(FirstOf(s, k)) \in Seq(T)
         /\ \A k \in 1..n : FlattenSeq(FirstOf(s, k)) = FlattenSeq(FirstOf(s, k - 1)) \o s[k]
<1>1. FlattenSeq(FirstOf(s, 0)) = <<>>
  BY DEF FlattenSeq, FirstOf
<1>2. PICK F : Flattens(F, n, s)
  BY FlattensExist
<1>3. ASSUME NEW k \in 1..n PROVE FlattenSeq(FirstOf(s, k)) = F[k]
  <2>1. k \in Nat \ {0} /\ FirstOf(s, k) \in [1..k -> Seq(T)]
    BY DEF FirstOf
  <2>2. PICK t : t = FirstOf(s, k)
    OBVIOUS
  <2>3. PICK G : Flattens(G, k, t)
    BY <2>1, FlattensExist
  <2>4. FlattenSeq(t) = G[k]
    BY <2>1, <2>2, <2>3, FlattenIs
  <2>5. Agree(t, s, k)
    BY <2>2 DEF Agree, FirstOf
  <2>6. Agree(G, F, k)
    <3>1. k \in Nat /\ k <= k /\ k <= n
      OBVIOUS
    <3> QED BY <1>2, <2>3, <2>5, <3>1, FlattensAgree
  <2> QED BY <2>1, <2>2, <2>4, <2>6 DEF Agree
<1>4. ASSUME NEW k \in 1..n, F[k] \in Seq(T)
      PROVE  k # n => F[k + 1] = F[k] \o s[k + 1] /\ F[k + 1] \in Seq(T)
  <2> SUFFICES ASSUME k # n PROVE F[k + 1] = F[k] \o s[k + 1] /\ F[k + 1] \in Seq(T)
    OBVIOUS
  <2>1. k + 1 \in 1..n /\ k + 1 # 1 /\ (k + 1) - 1 = k
    OBVIOUS
  <2>2. F[k + 1] = F[k] \o s[k + 1]
    BY <1>2, <2>1 DEF Flattens
  <2>3. s[k + 1] \in Seq(T)
    BY <2>1
  <2> QED BY <1>4, <2>2, <2>3, ConcatProperties
<1>5. n # 0 => F[1] = s[1] /\ F[1] \in Seq(T)
  BY <1>2 DEF Flattens
<1>6. \A k \in 1..n : F[k] \in Seq(T)
  <2> DEFINE S == {j \in Nat : j + 1 \in 1..n => F[j + 1] \in Seq(T)}
  <2>1. 0 \in S
    BY <1>5
  <2>2. ASSUME NEW j \in S PROVE j + 1 \in S
    <3> SUFFICES ASSUME (j + 1) + 1 \in 1..n PROVE F[(j + 1) + 1] \in Seq(T)
      BY <2>2
    <3>1. j + 1 \in 1..n /\ j + 1 # n
      BY <2>2
    <3> QED BY <1>4, <2>2, <3>1
  <2> HIDE DEF S
  <2>3. S = Nat
    <3>1. S \subseteq Nat
      BY DEF S
    <3> QED BY <2>1, <2>2, <3>1, Induction
  <2>4. ASSUME NEW k \in 1..n PROVE F[k] \in Seq(T)
    <3>1. k - 1 \in S /\ (k - 1) + 1 = k
      BY <2>3
    <3> QED BY <3>1 DEF S
  <2> QED BY <2>4
<1>7. ASSUME NEW k \in 0..n PROVE FlattenSeq(FirstOf(s, k)) \in Seq(T)
  <2>1. CASE k = 0
    BY <1>1, <2>1, EmptySeq
  <2>2. CASE k # 0
    BY <1>3, <1>6, <2>2
  <2> QED BY <2>1, <2>2
<1>8. ASSUME NEW k \in 1..n
      PROVE  FlattenSeq(FirstOf(s, k)) = FlattenSeq(FirstOf(s, k - 1)) \o s[k]
  <2>1. CASE k = 1
    <3>1. <<>> \o s[1] = s[1]
      BY <2>1, ConcatEmptySeq
    <3>2. k - 1 = 0
      BY <2>1
    <3> QED BY <1>1, <1>3, <1>5, <2>1, <3>1, <3>2
  <2>2. CASE k # 1
    <3>1. PICK j \in 1..n : j = k - 1 /\ j # n /\ j + 1 = k
      BY <2>2
    <3>2. F[k] = F[j] \o s[k]
      BY <1>4, <1>6, <3>1
    <3> QED BY <1>3, <3>1, <3>2
  <2> QED BY <2>1, <2>2
<1> QED BY <1>1, <1>7, <1>8

\* What is in the first k sequences stays where it is.
LEMMA FlattenKeeps ==
  ASSUME NEW T, NEW n \in Nat, NEW s \in [1..n -> Seq(T)], NEW k \in 0..n, NEW m \in k..n
  PROVE  /\ Len(FlattenSeq(FirstOf(s, k))) <= Len(FlattenSeq(FirstOf(s, m)))
         /\ \A i \in 1..Len(FlattenSeq(FirstOf(s, k))) :
              FlattenSeq(FirstOf(s, m))[i] = FlattenSeq(FirstOf(s, k))[i]
<1> DEFINE P(j) == FlattenSeq(FirstOf(s, j))
           Keeps(j) == Len(P(k)) <= Len(P(j)) /\ \A i \in 1..Len(P(k)) : P(j)[i] = P(k)[i]
           S == {d \in Nat : k + d <= n => Keeps(k + d)}
<1>1. \A j \in 0..n : P(j) \in Seq(T)
  BY FlattenStep
<1>2. \A j \in 1..n : P(j) = P(j - 1) \o s[j]
  BY FlattenStep
<1> HIDE DEF P
<1>3. 0 \in S
  <2>1. Len(P(k)) \in Nat /\ k + 0 = k
    BY <1>1
  <2> QED BY <2>1
<1>4. ASSUME NEW d \in S PROVE d + 1 \in S
  <2> SUFFICES ASSUME k + (d + 1) <= n PROVE Keeps(k + (d + 1))
    BY <1>4
  <2>1. PICK j \in 1..n : j = k + (d + 1) /\ j - 1 = k + d /\ j - 1 \in 0..n
    BY <1>4
  <2>2. Keeps(j - 1)
    BY <1>4, <2>1
  <2>3. P(j) = P(j - 1) \o s[j] /\ P(j - 1) \in Seq(T) /\ s[j] \in Seq(T) /\ P(k) \in Seq(T)
    BY <1>1, <1>2, <2>1
  <2>4. /\ Len(P(j)) = Len(P(j - 1)) + Len(s[j])
        /\ \A i \in 1..(Len(P(j - 1)) + Len(s[j])) :
             P(j)[i] = IF i <= Len(P(j - 1)) THEN P(j - 1)[i] ELSE s[j][i - Len(P(j - 1))]
    BY <2>3, ConcatProperties
  <2>5. PICK a \in Nat, b \in Nat, c \in Nat :
          a = Len(P(k)) /\ b = Len(P(j - 1)) /\ c = Len(s[j])
    BY <2>3
  <2>6. a <= b /\ Len(P(j)) = b + c
    BY <2>2, <2>4, <2>5
  <2>7. ASSUME NEW i \in 1..a PROVE P(j)[i] = P(k)[i]
    <3>1. i \in 1..(b + c) /\ i <= b
      BY <2>6
    <3>2. P(j)[i] = P(j - 1)[i]
      BY <2>4, <2>5, <3>1
    <3> QED BY <2>2, <2>5, <3>2
  <2>8. Keeps(j)
    BY <2>5, <2>6, <2>7
  <2> QED BY <2>1, <2>8
<1> HIDE DEF S, Keeps
<1>5. S = Nat
  <2>1. S \subseteq Nat
    BY DEF S
  <2> QED BY <1>3, <1>4, <2>1, Induction
<1>6. m - k \in S /\ k + (m - k) = m /\ m <= n
  BY <1>5
<1>7. Keeps(m)
  BY <1>6 DEF S
<1> QED BY <1>7 DEF Keeps, P
-----------------------------------------------------------------------------
(***************************************************************************)
(* The values of a function.                                               *)
(***************************************************************************)
Results(f) == [i \in DOMAIN f.ops |-> f.ops[i].results]

LEMMA ResultsAreSequences ==
  ASSUME NEW f, IsFunction(f)
  PROVE  /\ Len(f.ops) \in Nat /\ DOMAIN f.ops = 1..Len(f.ops)
         /\ f.args \in Seq(Type) /\ Len(f.args) \in Nat
         /\ Results(f) \in [1..Len(f.ops) -> Seq(Type)]
         /\ \A k \in 0..Len(f.ops) :
              FirstOf(Results(f), k) = [i \in 1..k |-> f.ops[i].results]
<1>1. f.ops \in Seq(Range(f.ops)) /\ f.args \in Seq(Type)
  BY DEF IsFunction
<1>2. Len(f.ops) \in Nat /\ DOMAIN f.ops = 1..Len(f.ops) /\ Len(f.args) \in Nat
  BY <1>1, LenProperties
<1>3. \A i \in DOMAIN f.ops : f.ops[i].results \in Seq(Type)
  BY DEF IsFunction
<1>4. Results(f) \in [1..Len(f.ops) -> Seq(Type)]
  BY <1>2, <1>3 DEF Results
<1>5. ASSUME NEW k \in 0..Len(f.ops)
      PROVE  FirstOf(Results(f), k) = [i \in 1..k |-> f.ops[i].results]
  <2>1. \A i \in 1..k : i \in DOMAIN f.ops
    BY <1>2
  <2> QED BY <2>1 DEF FirstOf, Results
<1> QED BY <1>1, <1>2, <1>4, <1>5

LEMMA ValuesInOrder ==
  ASSUME NEW f, IsFunction(f)
  PROVE  /\ Values(f) \in Seq(Type)
         /\ NumValues(f, 1) = Len(f.args)
         /\ \A i \in 1..Len(f.args) : Values(f)[i] = f.args[i]
         /\ \A k \in 1..(Len(f.ops) + 1) : NumValues(f, k) \in 0..Len(Values(f))
         /\ \A k \in 1..Len(f.ops) :
              /\ NumValues(f, k + 1) = NumValues(f, k) + Len(f.ops[k].results)
              /\ HasResult(f.ops[k]) =>
                   Values(f)[NumValues(f, k) + 1] = f.ops[k].results[1]
<1> DEFINE n == Len(f.ops)
           s == Results(f)
           P(k) == FlattenSeq(FirstOf(s, k))
<1>1. n \in Nat /\ DOMAIN f.ops = 1..n /\ s \in [1..n -> Seq(Type)]
  BY ResultsAreSequences
<1>2. f.args \in Seq(Type) /\ Len(f.args) \in Nat
  BY ResultsAreSequences
<1>3. \A k \in 1..(n + 1) : NumValues(f, k) = Len(f.args) + Len(P(k - 1))
  <2> SUFFICES ASSUME NEW k \in 1..(n + 1) PROVE NumValues(f, k) = Len(f.args) + Len(P(k - 1))
    OBVIOUS
  <2>1. k - 1 \in 0..n
    BY <1>1
  <2>2. FirstOf(s, k - 1) = [i \in 1..(k - 1) |-> f.ops[i].results]
    BY <2>1, ResultsAreSequences
  <2> QED BY <2>2 DEF NumValues
<1>4. Values(f) = f.args \o P(n)
  <2>1. n \in 0..n
    BY <1>1
  <2>2. FirstOf(s, n) = [i \in 1..n |-> f.ops[i].results]
    BY <2>1, ResultsAreSequences
  <2> QED BY <1>1, <2>2 DEF Values
<1>5. \A k \in 1..n : s[k] = f.ops[k].results
  BY <1>1 DEF Results
<1> HIDE DEF n, s
<1>6. /\ P(0) = <<>>
      /\ \A k \in 0..n : P(k) \in Seq(Type)
      /\ \A k \in 1..n : P(k) = P(k - 1) \o s[k]
  BY <1>1, FlattenStep
<1>7. \A k \in 0..n : /\ Len(P(k)) <= Len(P(n))
                      /\ \A i \in 1..Len(P(k)) : P(n)[i] = P(k)[i]
  <2> SUFFICES ASSUME NEW k \in 0..n
               PROVE  /\ Len(P(k)) <= Len(P(n))
                      /\ \A i \in 1..Len(P(k)) : P(n)[i] = P(k)[i]
    OBVIOUS
  <2>1. n \in k..n
    BY <1>1
  <2> QED BY <1>1, <2>1, FlattenKeeps
<1> HIDE DEF P
<1>8. PICK a \in Nat, l \in Nat : a = Len(f.args) /\ l = Len(P(n))
  <2>1. n \in 0..n
    BY <1>1
  <2> QED BY <1>2, <1>6, <2>1, LenProperties
<1>9. /\ Values(f) \in Seq(Type) /\ Len(Values(f)) = a + l
      /\ \A i \in 1..(a + l) : Values(f)[i] = IF i <= a THEN f.args[i] ELSE P(n)[i - a]
  <2>1. n \in 0..n
    BY <1>1
  <2>2. P(n) \in Seq(Type)
    BY <1>6, <2>1
  <2> QED BY <1>2, <1>4, <1>8, <2>2, ConcatProperties
<1>10. NumValues(f, 1) = a
  <2>1. 1 \in 1..(n + 1) /\ 1 - 1 = 0 /\ Len(<<>>) = 0
    BY <1>1
  <2>2. NumValues(f, 1) = Len(f.args) + Len(P(1 - 1))
    BY <1>3, <2>1, Zenon
  <2>3. P(1 - 1) = <<>>
    BY <1>6, <2>1, Zenon
  <2> QED BY <1>8, <2>1, <2>2, <2>3
<1>11. \A i \in 1..a : Values(f)[i] = f.args[i]
  BY <1>8, <1>9
<1>12. ASSUME NEW k \in 1..(n + 1) PROVE NumValues(f, k) \in 0..Len(Values(f))
  <2>1. k - 1 \in 0..n
    BY <1>1
  <2>2. PICK m \in Nat : m = Len(P(k - 1))
    BY <1>6, <2>1, LenProperties
  <2>3. m <= l
    BY <1>7, <1>8, <2>1, <2>2
  <2>4. NumValues(f, k) = a + m
    BY <1>3, <1>8, <2>2
  <2> QED BY <1>8, <1>9, <2>3, <2>4
<1>13. ASSUME NEW k \in 1..n
       PROVE  /\ NumValues(f, k + 1) = NumValues(f, k) + Len(f.ops[k].results)
              /\ HasResult(f.ops[k]) => Values(f)[NumValues(f, k) + 1] = f.ops[k].results[1]
  <2>1. k - 1 \in 0..n /\ k \in 0..n /\ k \in 1..(n + 1) /\ k + 1 \in 1..(n + 1) /\ (k + 1) - 1 = k
    BY <1>1
  <2>2. P(k) = P(k - 1) \o s[k] /\ P(k - 1) \in Seq(Type) /\ s[k] \in Seq(Type)
    BY <1>1, <1>6, <2>1
  <2>3. PICK m \in Nat, r \in Nat : m = Len(P(k - 1)) /\ r = Len(s[k])
    BY <2>2, LenProperties
  <2>4. /\ Len(P(k)) = m + r
        /\ \A i \in 1..(m + r) : P(k)[i] = IF i <= m THEN P(k - 1)[i] ELSE s[k][i - m]
    <3>1. PICK u, v : u = P(k - 1) /\ v = s[k]
      OBVIOUS
    <3>2. u \in Seq(Type) /\ v \in Seq(Type) /\ P(k) = u \o v /\ Len(u) = m /\ Len(v) = r
      BY <2>2, <2>3, <3>1
    <3>3. /\ Len(u \o v) = m + r
          /\ \A i \in 1..(m + r) : (u \o v)[i] = IF i <= m THEN u[i] ELSE v[i - m]
      BY <3>2, ConcatProperties
    <3> QED BY <3>1, <3>2, <3>3
  <2>5. NumValues(f, k) = a + m /\ NumValues(f, k + 1) = a + (m + r)
    <3>1. NumValues(f, k) = a + m
      BY <1>3, <1>8, <2>1, <2>3
    <3>2. NumValues(f, k + 1) = Len(f.args) + Len(P((k + 1) - 1))
      BY <1>3, <2>1
    <3> QED BY <1>8, <2>1, <2>4, <3>1, <3>2
  <2>6. ASSUME r = 1 PROVE Values(f)[a + m + 1] = s[k][1]
    <3>1. P(k)[m + 1] = s[k][1]
      <4>1. m + 1 \in 1..(m + r) /\ ~(m + 1 <= m) /\ (m + 1) - m = 1
        BY <2>6
      <4> QED BY <2>4, <4>1
    <3>2. P(n)[m + 1] = P(k)[m + 1] /\ m + 1 <= l
      <4>1. Len(P(k)) <= l /\ \A i \in 1..Len(P(k)) : P(n)[i] = P(k)[i]
        BY <1>7, <1>8, <2>1
      <4>2. m + 1 \in 1..Len(P(k)) /\ Len(P(k)) = m + 1
        BY <2>4, <2>6
      <4> QED BY <4>1, <4>2
    <3>3. a + m + 1 \in 1..(a + l) /\ ~(a + m + 1 <= a) /\ (a + m + 1) - a = m + 1
      BY <3>2
    <3>4. Values(f)[a + m + 1] = P(n)[m + 1]
      BY <1>9, <3>3
    <3> QED BY <3>1, <3>2, <3>4
  <2>7. s[k] = f.ops[k].results
    BY <1>5
  <2>8. NumValues(f, k + 1) = NumValues(f, k) + Len(f.ops[k].results)
    <3>1. Len(f.ops[k].results) = r
      BY <2>3, <2>7
    <3> QED BY <2>5, <3>1
  <2>9. HasResult(f.ops[k]) => Values(f)[NumValues(f, k) + 1] = f.ops[k].results[1]
    BY <2>3, <2>5, <2>6, <2>7 DEF HasResult
  <2> QED BY <2>8, <2>9
<1> QED BY <1>8, <1>9, <1>10, <1>11, <1>12, <1>13 DEF n
LEMMA OperandsAreValues ==
  ASSUME NEW f, IsFunction(f), NEW k \in 1..Len(f.ops)
  PROVE  /\ f.ops[k].operands \in Seq(1..NumValues(f, k))
         /\ f.ops[k].operands \in Seq(1..Len(Values(f)))
         /\ OperandTypes(f, f.ops[k]) \in Seq(Type)
         /\ Len(OperandTypes(f, f.ops[k])) = Len(f.ops[k].operands)
         /\ \A j \in 1..Len(f.ops[k].operands) :
              /\ f.ops[k].operands[j] \in 1..NumValues(f, k)
              /\ OperandTypes(f, f.ops[k])[j] = Values(f)[f.ops[k].operands[j]]
<1> DEFINE os == f.ops[k].operands
           types == OperandTypes(f, f.ops[k])
<1>1. k \in DOMAIN f.ops /\ k \in 1..(Len(f.ops) + 1)
  BY ResultsAreSequences
<1>2. os \in Seq(1..NumValues(f, k))
  BY <1>1 DEF IsFunction
<1>3. PICK m \in Nat, n \in Nat, v \in Seq(Type) :
        m = NumValues(f, k) /\ v = Values(f) /\ n = Len(v) /\ m <= n
  BY <1>1, ValuesInOrder, LenProperties
<1>4. types = [j \in DOMAIN os |-> v[os[j]]]
  BY <1>3 DEF OperandTypes
<1> HIDE DEF os, types
<1>5. PICK l \in Nat : l = Len(os) /\ DOMAIN os = 1..l
  BY <1>2, LenProperties
<1>6. \A j \in 1..l : os[j] \in 1..m /\ os[j] \in 1..n
  <2>1. \A j \in 1..l : os[j] \in 1..m
    BY <1>2, <1>3, <1>5, ElementOfSeq
  <2> QED BY <1>3, <2>1
<1>7. os \in Seq(1..n)
  BY <1>2, <1>3, <1>6
<1>8. \A j \in 1..l : v[os[j]] \in Type
  BY <1>3, <1>6, ElementOfSeq
<1>9. types \in [1..l -> Type] /\ \A j \in 1..l : types[j] = v[os[j]]
  BY <1>4, <1>5, <1>8
<1>10. types \in Seq(Type) /\ Len(types) = l
  BY <1>9
<1> QED BY <1>2, <1>3, <1>5, <1>6, <1>7, <1>9, <1>10 DEF os, types

-----------------------------------------------------------------------------
(***************************************************************************)
(* What analysis counts are numbers.                                       *)
(***************************************************************************)
LEMMA CountedAreTypes ==
  ASSUME NEW f, IsFunction(f)
  PROVE  CountedInBlock(f) \in Seq(Type)
<1>1. Len(f.ops) \in Nat /\ DOMAIN f.ops = 1..Len(f.ops)
  BY ResultsAreSequences
<1>2. ASSUME NEW i \in 1..Len(f.ops) PROVE Counted(f, f.ops[i]) \in Seq(Type)
  <2>1. PICK r, o : r = f.ops[i].results /\ o = OperandTypes(f, f.ops[i])
    OBVIOUS
  <2>2. r \in Seq(Type) /\ o \in Seq(Type) /\ <<>> \in Seq(Type)
    BY <1>1, <2>1, ResultsAreSequences, OperandsAreValues, EmptySeq DEF IsFunction
  <2>3. PICK a \in Seq(Type), b \in Seq(Type) :
          /\ a = IF f.ops[i].kind \in {"const", "move"} THEN <<>> ELSE r
          /\ b = IF f.ops[i].kind \in {"reduction", "generic", "reducingGeneric"}
                 THEN o ELSE <<>>
    BY <2>2
  <2>4. Counted(f, f.ops[i]) = a \o b
    BY <2>1, <2>3 DEF Counted
  <2>5. a \o b \in Seq(Type)
    BY ConcatProperties
  <2> QED BY <2>4, <2>5
<1>3. PICK s : s = [i \in 1..Len(f.ops) |-> Counted(f, f.ops[i])]
  OBVIOUS
<1>4. s \in [1..Len(f.ops) -> Seq(Type)]
  BY <1>2, <1>3
<1>5. FirstOf(s, Len(f.ops)) = s /\ Len(f.ops) \in 0..Len(f.ops)
  BY <1>1, <1>3 DEF FirstOf
<1>6. FlattenSeq(s) \in Seq(Type)
  BY <1>1, <1>4, <1>5, FlattenStep
<1> QED BY <1>1, <1>3, <1>6 DEF CountedInBlock

LEMMA PositionsAreFinite ==
  ASSUME NEW T, NEW s \in Seq(T), NEW P \in SUBSET DOMAIN s
  PROVE  IsFiniteSet(P) /\ Cardinality(P) \in Nat
<1>1. DOMAIN s = 1..Len(s) /\ Len(s) \in Nat
  BY LenProperties
<1>2. IsFiniteSet(DOMAIN s)
  BY <1>1, FS_Interval
<1> QED BY <1>2, FS_Subset, FS_CardinalityType

LEMMA OccurrencesAreNumbers ==
  ASSUME NEW types \in Seq(Type), NEW elem
  PROVE  Occurrences(types, elem) \in Nat
<1>1. {i \in DOMAIN types : types[i].elem = elem} \in SUBSET DOMAIN types
  OBVIOUS
<1> QED BY <1>1, PositionsAreFinite DEF Occurrences

Sums(F, n, m) == F = [i \in 0..n |-> IF i = 0 THEN 0 ELSE F[i - 1] + m[i]]

LEMMA SumsExist ==
  ASSUME NEW n \in Nat, NEW m
  PROVE  \E F : Sums(F, n, m)
<1> DEFINE S == {k \in Nat : \E F : Sums(F, k, m)}
<1>1. 0 \in S
  <2> DEFINE F == [i \in 0..0 |-> 0]
  <2>1. Sums(F, 0, m)
    BY DEF Sums
  <2> QED BY <2>1
<1>2. ASSUME NEW k \in S PROVE k + 1 \in S
  <2>1. PICK F : Sums(F, k, m)
    BY <1>2
  <2> DEFINE G == [i \in 0..(k + 1) |-> IF i = k + 1 THEN F[k] + m[k + 1] ELSE F[i]]
  <2>2. ASSUME NEW i \in 0..(k + 1)
        PROVE  G[i] = IF i = 0 THEN 0 ELSE G[i - 1] + m[i]
    <3>1. CASE i = k + 1
      <4>1. i # 0 /\ i - 1 = k /\ k \in 0..(k + 1) /\ k # k + 1
        BY <3>1
      <4>2. G[i - 1] = F[k] /\ G[i] = F[k] + m[i]
        BY <3>1, <4>1
      <4> QED BY <4>1, <4>2
    <3>2. CASE i # k + 1
      <4>1. i \in 0..k /\ G[i] = F[i]
        BY <3>2
      <4>2. i # 0 => i - 1 \in 0..k /\ i - 1 \in 0..(k + 1) /\ i - 1 # k + 1
        BY <4>1
      <4>3. i # 0 => G[i - 1] = F[i - 1]
        BY <4>2
      <4>4. F[i] = IF i = 0 THEN 0 ELSE F[i - 1] + m[i]
        BY <2>1, <4>1 DEF Sums
      <4> QED BY <4>1, <4>3, <4>4
    <3> QED BY <3>1, <3>2
  <2>3. G = [i \in 0..(k + 1) |-> G[i]]
    OBVIOUS
  <2> HIDE DEF G
  <2>4. Sums(G, k + 1, m)
    BY <2>2, <2>3 DEF Sums
  <2> QED BY <1>2, <2>4
<1> HIDE DEF S
<1>3. S = Nat
  <2>1. S \subseteq Nat
    BY DEF S
  <2> QED BY <1>1, <1>2, <2>1, Induction
<1> QED BY <1>3 DEF S

LEMMA SumsAreNumbers ==
  ASSUME NEW n \in Nat, NEW m \in [1..n -> Nat], NEW F, Sums(F, n, m)
  PROVE  \A i \in 0..n : F[i] \in Nat
<1> DEFINE S == {j \in Nat : j <= n => F[j] \in Nat}
<1>1. 0 \in S
  BY DEF Sums
<1>2. ASSUME NEW j \in S PROVE j + 1 \in S
  <2>1. ASSUME j + 1 <= n PROVE F[j + 1] \in Nat
    <3>1. j + 1 \in 0..n /\ j + 1 # 0 /\ (j + 1) - 1 = j /\ j + 1 \in 1..n /\ j <= n
      BY <1>2, <2>1
    <3>2. F[j + 1] = F[j] + m[j + 1]
      BY <3>1 DEF Sums
    <3>3. F[j] \in Nat /\ m[j + 1] \in Nat
      BY <1>2, <3>1
    <3> QED BY <3>2, <3>3
  <2> QED BY <1>2, <2>1
<1> HIDE DEF S
<1>3. S = Nat
  <2>1. S \subseteq Nat
    BY DEF S
  <2> QED BY <1>1, <1>2, <2>1, Induction
<1> QED BY <1>3 DEF S

LEMMA ElemsCountIsNumber ==
  ASSUME NEW f, IsFunction(f), NEW elem
  PROVE  ElemsCount(f, elem) \in Nat
<1> DEFINE types == f.args \o CountedInBlock(f)
           n == Len(types)
           m == [i \in 1..n |->
                   IF types[i].elem = elem /\ types[i].shape # "scalar" /\ types[i].cnt > 0
                   THEN types[i].cnt - 1 ELSE 0]
           Is(g) == g = [i \in 0..n |->
                           IF i = 0 THEN 0
                           ELSE g[i - 1] +
                             IF types[i].elem = elem /\ types[i].shape # "scalar" /\ types[i].cnt > 0
                             THEN types[i].cnt - 1 ELSE 0]
           sum == CHOOSE g : Is(g)
<1>1. types \in Seq(Type) /\ n \in Nat
  <2>1. f.args \in Seq(Type) /\ CountedInBlock(f) \in Seq(Type)
    BY CountedAreTypes, ResultsAreSequences
  <2> QED BY <2>1, ConcatProperties, LenProperties
<1>2. ElemsCount(f, elem) = sum[n]
  BY DEF ElemsCount
<1> HIDE DEF types, n
<1>3. m \in [1..n -> Nat]
  <2>1. ASSUME NEW i \in 1..n PROVE types[i].cnt \in Nat
    <3>1. types[i] \in Type
      BY <1>1, ElementOfSeq DEF n
    <3> QED BY <3>1 DEF Type
  <2> QED BY <2>1
<1>4. ASSUME NEW g PROVE Sums(g, n, m) <=> Is(g)
  <2>1. \A i \in 0..n : i # 0 => i \in 1..n
    BY <1>1
  <2> QED BY <2>1 DEF Sums
<1> HIDE DEF m, Is
<1>5. Sums(sum, n, m)
  BY <1>1, <1>4, SumsExist
<1>6. sum[n] \in Nat
  BY <1>1, <1>3, <1>5, SumsAreNumbers
<1> QED BY <1>2, <1>6

LEMMA NonConstsCountIsNumber ==
  ASSUME NEW src, NEW tgt, IsFunction(src), IsFunction(tgt), NEW elem
  PROVE  NonConstsCount(src, tgt, elem) \in Nat
<1>1. PICK a \in Nat, b \in Nat, c \in Nat, d \in Nat, e \in Nat :
        /\ a = ArgCount(src, elem) /\ b = VarCount(src, elem) /\ c = VarCount(tgt, elem)
        /\ d = ElemsCount(src, elem) /\ e = ElemsCount(tgt, elem)
  BY CountedAreTypes, ResultsAreSequences, OccurrencesAreNumbers, ElemsCountIsNumber
     DEF ArgCount, VarCount
<1> QED BY <1>1 DEF NonConstsCount
-----------------------------------------------------------------------------
(***************************************************************************)
(* Widths.  The instance of FpConstants has operators of its own; they are *)
(* those of the other modules.                                             *)
(***************************************************************************)
Log(n) == CHOOSE k \in 0..n : 2^k >= n /\ (k = 0 \/ 2^(k - 1) < n)

LEMMA LogIsNumber ==
  ASSUME NEW n \in Nat
  PROVE  Log(n) \in Nat
<1>1. PICK j : j = Log(n)
  OBVIOUS
<1>2. j \in 0..n
  BY <1>1, LeastPower, Zenon DEF Log
<1> QED BY <1>1, <1>2

LEMMA Operators ==
  ASSUME NEW a, NEW b, NEW p, NEW S
  PROVE  /\ Sizes(a, b, p)!Cardinality(S) = Cardinality(S)
         /\ Sizes(a, b, p)!Min(S) = Min(S) /\ Sizes(a, b, p)!Max(S) = Max(S)
         /\ Sizes(a, b, p)!log2_ceil(S) = Log(S)
<1>1. Sizes(a, b, p)!Cardinality(S) = Cardinality(S)
  BY Zenon DEF Sizes!Cardinality, Cardinality
<1>2. Sizes(a, b, p)!Min(S) = Min(S)
  BY Zenon DEF Sizes!Min, Min
<1>3. Sizes(a, b, p)!Max(S) = Max(S)
  BY Zenon DEF Sizes!Max, Max
<1>4. Sizes(a, b, p)!log2_ceil(S) = Log(S)
  BY Zenon DEF Sizes!log2_ceil, Log
<1> QED BY <1>1, <1>2, <1>3, <1>4

LEMMA SizesAreNumbers ==
  ASSUME NEW a \in Nat, NEW b \in Nat, NEW p
  PROVE  /\ Sizes(a, b, p)!FloatBits \in Nat /\ Sizes(a, b, p)!DoubleBits \in Nat
         /\ Sizes(a, b, p)!PrecBits \in Nat /\ Sizes(a, b, p)!LimitBits32 \in Nat
<1>1. PICK floats, doubles, inexact, beyond :
        /\ floats = Sizes(a, b, p)!FloatConsts /\ doubles = Sizes(a, b, p)!DoubleConsts
        /\ inexact = Sizes(a, b, p)!Inexact /\ beyond = Sizes(a, b, p)!Beyond
  OBVIOUS
<1>2. floats = {0, 4, 6} /\ doubles = {0, 4, 9}
  BY <1>1 DEF Sizes!FloatConsts, Sizes!DoubleConsts
<1>3. inexact \subseteq doubles /\ beyond \subseteq doubles
  BY <1>1 DEF Sizes!Inexact, Sizes!Beyond
<1>4. \A S \in SUBSET {0, 4, 6, 9} : IsFiniteSet(S) /\ Cardinality(S) \in Nat /\ Cardinality(S) <= 4
  <2>1. IsFiniteSet({0, 4, 6, 9}) /\ Cardinality({0, 4, 6, 9}) <= 4
    <3>1. IsFiniteSet({9}) /\ Cardinality({9}) = 1
      BY FS_Singleton
    <3>2. IsFiniteSet({6, 9}) /\ Cardinality({6, 9}) = 2
      <4>1. {6, 9} = {9} \cup {6} /\ 6 \notin {9}
        OBVIOUS
      <4> QED BY <3>1, <4>1, FS_AddElement
    <3>3. IsFiniteSet({4, 6, 9}) /\ Cardinality({4, 6, 9}) = 3
      <4>1. {4, 6, 9} = {6, 9} \cup {4} /\ 4 \notin {6, 9}
        OBVIOUS
      <4> QED BY <3>2, <4>1, FS_AddElement
    <3>4. {0, 4, 6, 9} = {4, 6, 9} \cup {0} /\ 0 \notin {4, 6, 9}
      OBVIOUS
    <3> QED BY <3>3, <3>4, FS_AddElement
  <2>2. ASSUME NEW S \in SUBSET {0, 4, 6, 9}
        PROVE  IsFiniteSet(S) /\ Cardinality(S) \in Nat /\ Cardinality(S) <= 4
    <3>1. IsFiniteSet(S) /\ Cardinality(S) <= Cardinality({0, 4, 6, 9})
      BY <2>1, FS_Subset
    <3>2. Cardinality(S) \in Nat /\ Cardinality({0, 4, 6, 9}) \in Nat
      BY <2>1, <3>1, FS_CardinalityType
    <3> QED BY <2>1, <3>1, <3>2
  <2> QED BY <2>2
<1>5. PICK cf \in Nat, cd \in Nat, cb \in Nat :
        cf = Cardinality(floats) /\ cd = Cardinality(doubles) /\ cb = Cardinality(beyond)
  <2>1. /\ floats \in SUBSET {0, 4, 6, 9} /\ doubles \in SUBSET {0, 4, 6, 9}
        /\ beyond \in SUBSET {0, 4, 6, 9}
    BY <1>2, <1>3
  <2> QED BY <1>4, <2>1
<1>6. PICK most \in Nat : most = Sizes(a, b, p)!MaxInexact
  <2> DEFINE Cut(v) == {c \in inexact : Sizes(a, b, p)!Floor(c) = v}
             Count(v) == Sizes(a, b, p)!Cardinality(Cut(v))
             Counts == {0} \cup {Count(v) : v \in Sizes(a, b, p)!Floats}
  <2>1. ASSUME NEW v PROVE Count(v) \in Nat /\ Count(v) <= 4
    <3>1. Cut(v) \in SUBSET {0, 4, 6, 9}
      BY <1>2, <1>3
    <3>2. Count(v) = Cardinality(Cut(v))
      BY Operators
    <3> QED BY <1>4, <3>1, <3>2
  <2>2. Sizes(a, b, p)!MaxInexact = Sizes(a, b, p)!Max(Counts)
    BY <1>1, Zenon DEF Sizes!MaxInexact
  <2>3. Sizes(a, b, p)!MaxInexact = Max(Counts)
    BY <2>2, Operators
  <2> HIDE DEF Count
  <2>4. Counts \subseteq Nat /\ Counts # {} /\ \A x \in Counts : x <= 4
    BY <2>1
  <2> HIDE DEF Counts
  <2>5. Max(Counts) \in Counts
    BY <2>4, Largest
  <2> QED BY <2>3, <2>4, <2>5
<1>7. PICK l \in Nat, m \in Nat, n \in Nat, q \in Nat, r \in Nat :
        /\ l = Log(a + cf + 2) /\ m = Log(b + cd + 2) /\ n = Log(b) /\ q = Log(most)
        /\ r = Log(cb)
  <2>1. a + cf + 2 \in Nat /\ b + cd + 2 \in Nat
    OBVIOUS
  <2> QED BY <2>1, LogIsNumber
<1>8. PICK f \in Nat : f = Sizes(a, b, p)!FloatBits
  <2>1. Sizes(a, b, p)!FloatBits = Min({31, l})
    BY <1>1, <1>5, <1>7, Operators DEF Sizes!FloatBits
  <2>2. Min({31, l}) \in Nat
    BY Smaller
  <2> QED BY <2>1, <2>2
<1>9. Sizes(a, b, p)!DoubleBits \in Nat
  <2>1. Sizes(a, b, p)!DoubleBits = Max({m, f})
    BY <1>1, <1>5, <1>7, <1>8, Operators DEF Sizes!DoubleBits
  <2>2. Max({m, f}) \in Nat
    BY Larger
  <2> QED BY <2>1, <2>2
<1>10. PICK mp \in Nat : mp = Sizes(a, b, p)!MinPrecBits
  <2>1. PICK S : S = {1, q, n}
    OBVIOUS
  <2>2. Sizes(a, b, p)!MinPrecBits = Max(S)
    BY <1>6, <1>7, <2>1, Operators DEF Sizes!MinPrecBits
  <2>3. S \subseteq Nat /\ S # {} /\ 1 + q + n \in Nat /\ \A x \in S : x <= 1 + q + n
    BY <2>1
  <2>4. Max(S) \in S
    BY <2>3, Largest
  <2> QED BY <2>2, <2>3, <2>4
<1>11. PICK pb \in Nat : pb = Sizes(a, b, p)!PrecBits /\ pb <= 29
  <2>1. Sizes(a, b, p)!PrecBits = Min({mp, 29})
    BY <1>10, Operators DEF Sizes!PrecBits
  <2>2. Min({mp, 29}) \in Nat /\ Min({mp, 29}) <= 29
    BY Smaller
  <2> QED BY <2>1, <2>2
<1>12. PICK ml \in Nat : ml = Sizes(a, b, p)!MinLimitBits
  <2>1. PICK e : e = Max({r, n})
    OBVIOUS
  <2>2. e \in Nat
    BY <2>1, Larger
  <2>3. Sizes(a, b, p)!MinLimitBits = IF e > f + mp THEN e - f - mp + 1 ELSE 1
    BY <1>1, <1>5, <1>7, <1>8, <1>10, <2>1, Operators DEF Sizes!MinLimitBits
  <2>4. (IF e > f + mp THEN e - f - mp + 1 ELSE 1) \in Nat
    BY <2>2
  <2> QED BY <2>3, <2>4
<1>13. Sizes(a, b, p)!LimitBits32 \in Nat
  <2>1. Sizes(a, b, p)!LimitBits32 = Min({ml, 32 - pb})
    BY <1>11, <1>12, Operators DEF Sizes!LimitBits32
  <2>2. 32 - pb \in Nat
    BY <1>11
  <2>3. Min({ml, 32 - pb}) \in Nat
    BY <2>2, Smaller
  <2> QED BY <2>1, <2>3
<1> QED BY <1>8, <1>9, <1>11, <1>13

LEMMA WidthsAreNumbers ==
  ASSUME NEW pair, IsFunction(pair.src), IsFunction(pair.tgt), NEW p, NEW elem
  PROVE  WidthIn(pair, p, elem) \in Nat
<1>1. PICK a \in Nat, b \in Nat : /\ a = NonConstsCount(pair.src, pair.tgt, "f32")
                                  /\ b = NonConstsCount(pair.src, pair.tgt, "f64")
  BY NonConstsCountIsNumber
<1>2. PICK f \in Nat, d \in Nat, l \in Nat, m \in Nat :
        /\ f = Sizes(a, b, p)!FloatBits /\ d = Sizes(a, b, p)!DoubleBits
        /\ l = Sizes(a, b, p)!LimitBits32 /\ m = Sizes(a, b, p)!PrecBits
  BY SizesAreNumbers
<1>3. WidthIn(pair, p, elem) =
        CASE elem = "f32" -> 1 + f
          [] elem = "f64" /\ ~p -> 1 + d
          [] elem = "f64" /\ p -> 1 + l + f + m
          [] OTHER -> 32
  BY <1>1, <1>2 DEF WidthIn
<1>4. CASE elem = "f32"
  BY <1>3, <1>4
<1>5. CASE elem = "f64"
  BY <1>3, <1>5
<1>6. CASE elem # "f32" /\ elem # "f64"
  BY <1>3, <1>6
<1> QED BY <1>4, <1>5, <1>6

\* The abstraction of casts matters to f64 only.
LEMMA WidthStays ==
  ASSUME NEW pair, NEW p, NEW q, NEW elem, elem # "f64"
  PROVE  WidthIn(pair, p, elem) = WidthIn(pair, q, elem)
<1>1. PICK a, b : /\ a = NonConstsCount(pair.src, pair.tgt, "f32")
                  /\ b = NonConstsCount(pair.src, pair.tgt, "f64")
  OBVIOUS
<1>2. CASE elem = "f32"
  <2>1. /\ WidthIn(pair, p, elem) = 1 + Sizes(a, b, p)!FloatBits
        /\ WidthIn(pair, q, elem) = 1 + Sizes(a, b, q)!FloatBits
    BY <1>1, <1>2 DEF WidthIn
  <2>2. Sizes(a, b, p)!FloatBits = Sizes(a, b, q)!FloatBits
    <3>1. PICK c : c = Cardinality({0, 4, 6})
      OBVIOUS
    <3>2. ASSUME NEW r PROVE Sizes(a, b, r)!FloatBits = Min({31, Log(a + c + 2)})
      <4>1. PICK floats : floats = Sizes(a, b, r)!FloatConsts
        OBVIOUS
      <4>2. floats = {0, 4, 6}
        BY <4>1 DEF Sizes!FloatConsts
      <4>3. Sizes(a, b, r)!Cardinality(floats) = c
        BY <3>1, <4>2, Operators
      <4>4. Sizes(a, b, r)!log2_ceil(a + c + 2) = Log(a + c + 2)
        BY Operators
      <4>5. Sizes(a, b, r)!FloatBits =
              Sizes(a, b, r)!Min({31, Sizes(a, b, r)!log2_ceil(a + Sizes(a, b, r)!Cardinality(floats) + 2)})
        BY <4>1, Zenon DEF Sizes!FloatBits
      <4>6. Sizes(a, b, r)!FloatBits = Sizes(a, b, r)!Min({31, Log(a + c + 2)})
        BY <4>3, <4>4, <4>5
      <4> QED BY <4>6, Operators
    <3> QED BY <3>2
  <2> QED BY <2>1, <2>2
<1>3. CASE elem # "f32"
  BY <1>3 DEF WidthIn
<1> QED BY <1>2, <1>3
-----------------------------------------------------------------------------
(***************************************************************************)
(* Blocks: every variable and every new block is a value that analysis     *)
(* counted.                                                                *)
(***************************************************************************)
MemRefResults(f, elem) ==
  {i \in DOMAIN f.ops : \E type \in Range(f.ops[i].results) : IsMemRef(type, elem)}

GlobalsOf(f, elem) == {g \in UsedGlobals(f) : g.elem = elem}

LEMMA BlocksAreCounted ==
  ASSUME NEW f, IsFunction(f), NEW elem
  PROVE  /\ MemRefArgs(f, elem) \in Nat /\ MemRefVars(f, elem) \in Nat
         /\ IsFiniteSet(GlobalsOf(f, elem))
         /\ Cardinality(GlobalsOf(f, elem)) <= MemRefVars(f, elem)
         /\ Cardinality({i \in DOMAIN f.ops : /\ f.ops[i].kind = "alloc"
                                              /\ f.ops[i].results[1].elem = elem})
              <= MemRefVars(f, elem)
<1> DEFINE P == MemRefResults(f, elem)
           Q == {i \in DOMAIN f.ops : /\ f.ops[i].kind = "getGlobal"
                                      /\ f.ops[i].name.elem = elem}
           A == {i \in DOMAIN f.ops : /\ f.ops[i].kind = "alloc"
                                      /\ f.ops[i].results[1].elem = elem}
           G == GlobalsOf(f, elem)
<1>1. f.ops \in Seq(Range(f.ops)) /\ f.args \in Seq(Type)
  BY DEF IsFunction
<1>2. IsFiniteSet(P) /\ Cardinality(P) \in Nat /\ Cardinality(P) = MemRefVars(f, elem)
  <2>1. P \in SUBSET DOMAIN f.ops
    BY DEF MemRefResults
  <2>2. Cardinality(P) = MemRefVars(f, elem)
    BY DEF MemRefResults, MemRefVars
  <2> QED BY <1>1, <2>1, <2>2, PositionsAreFinite
<1>3. MemRefArgs(f, elem) \in Nat
  <2>1. {i \in DOMAIN f.args : IsMemRef(f.args[i], elem)} \in SUBSET DOMAIN f.args
    OBVIOUS
  <2> QED BY <1>1, <2>1, PositionsAreFinite DEF MemRefArgs
<1>4. ASSUME NEW i \in DOMAIN f.ops, f.ops[i].kind \in {"alloc", "getGlobal"},
             f.ops[i].results[1].elem = elem
      PROVE  i \in P
  <2>1. PICK r : r = f.ops[i].results
    OBVIOUS
  <2>2. r \in Seq(Type) /\ Len(r) = 1 /\ r[1].shape = "memref"
    BY <1>4, <2>1 DEF IsFunction, HasResult
  <2>3. 1 \in DOMAIN r
    BY <2>2
  <2>4. r[1] \in Range(r) /\ IsMemRef(r[1], elem)
    BY <1>4, <2>1, <2>2, <2>3 DEF Range, IsMemRef
  <2> QED BY <2>1, <2>4 DEF MemRefResults
<1>5. A \in SUBSET P
  BY <1>4
<1>6. Q \in SUBSET P
  <2>1. ASSUME NEW i \in Q PROVE f.ops[i].results[1].elem = elem
    BY DEF IsFunction
  <2> QED BY <1>4, <2>1
<1> HIDE DEF P
<1>7. Cardinality(A) <= Cardinality(P)
  BY <1>2, <1>5, FS_Subset
<1>8. IsFiniteSet(Q) /\ Cardinality(Q) \in Nat /\ Cardinality(Q) <= Cardinality(P)
  BY <1>2, <1>6, FS_Subset, FS_CardinalityType
<1>9. IsFiniteSet(G) /\ Cardinality(G) <= Cardinality(Q)
  <2> DEFINE h == [i \in Q |-> f.ops[i].name]
  <2>1. ASSUME NEW i \in Q PROVE f.ops[i].name \in G
    BY DEF GlobalsOf, UsedGlobals, Range
  <2>2. ASSUME NEW g \in G PROVE \E i \in Q : f.ops[i].name = g
    BY DEF GlobalsOf, UsedGlobals, Range
  <2> HIDE DEF G, Q
  <2>3. h \in Surjection(Q, G)
    BY <2>1, <2>2 DEF Surjection
  <2> QED BY <1>8, <2>3, FS_Surjection
<1>10. Cardinality(G) \in Nat
  BY <1>9, FS_CardinalityType
<1>11. Cardinality(G) <= Cardinality(P)
  BY <1>2, <1>8, <1>9, <1>10
<1> QED BY <1>2, <1>3, <1>7, <1>9, <1>11 DEF P

LEMMA BlocksSufficeFor ==
  ASSUME NEW src, NEW tgt, IsFunction(src), IsFunction(tgt), NEW elem, NEW f \in {src, tgt}
  PROVE  /\ Cardinality({g \in Globals(src, tgt) : g.elem = elem})
              <= NumBlocksPerType(src, tgt, elem)
         /\ Cardinality({i \in DOMAIN f.ops : /\ f.ops[i].kind = "alloc"
                                              /\ f.ops[i].results[1].elem = elem})
              <= NumBlocksPerType(src, tgt, elem)
<1>1. PICK a \in Nat, s \in Nat, t \in Nat :
        a = MemRefArgs(src, elem) /\ s = MemRefVars(src, elem) /\ t = MemRefVars(tgt, elem)
  BY BlocksAreCounted
<1>2. NumBlocksPerType(src, tgt, elem) = a + s + t
  BY <1>1 DEF NumBlocksPerType
<1>3. PICK S, T : /\ S = GlobalsOf(src, elem) /\ T = GlobalsOf(tgt, elem)
                  /\ IsFiniteSet(S) /\ IsFiniteSet(T)
                  /\ Cardinality(S) <= s /\ Cardinality(T) <= t
  BY <1>1, BlocksAreCounted
<1>4. {g \in Globals(src, tgt) : g.elem = elem} = S \cup T
  BY <1>3 DEF Globals, GlobalsOf
<1>5. Cardinality(S \cup T) <= s + t
  <2>1. IsFiniteSet(S \cap T)
    BY <1>3, FS_Subset
  <2>2. PICK k \in Nat, l \in Nat, m \in Nat :
          k = Cardinality(S) /\ l = Cardinality(T) /\ m = Cardinality(S \cap T)
    BY <1>3, <2>1, FS_CardinalityType
  <2>3. Cardinality(S \cup T) = k + l - m
    BY <1>3, <2>2, FS_Union
  <2> QED BY <1>3, <2>2, <2>3
<1>6. IsFiniteSet(S \cup T) /\ Cardinality(S \cup T) \in Nat
  BY <1>3, FS_Union, FS_CardinalityType
<1>7. PICK A : A = {i \in DOMAIN f.ops : /\ f.ops[i].kind = "alloc"
                                         /\ f.ops[i].results[1].elem = elem}
  OBVIOUS
<1>8. IsFiniteSet(A) /\ Cardinality(A) \in Nat
  <2>1. f.ops \in Seq(Range(f.ops)) /\ A \in SUBSET DOMAIN f.ops
    BY <1>7 DEF IsFunction
  <2> QED BY <2>1, PositionsAreFinite
<1>9. Cardinality(A) <= s \/ Cardinality(A) <= t
  BY <1>1, <1>7, BlocksAreCounted
<1>10. Cardinality(S \cup T) <= NumBlocksPerType(src, tgt, elem)
  BY <1>2, <1>5, <1>6
<1>11. Cardinality(A) <= NumBlocksPerType(src, tgt, elem)
  BY <1>2, <1>8, <1>9
<1> QED BY <1>4, <1>7, <1>10, <1>11
-----------------------------------------------------------------------------
(***************************************************************************)
(* Types.  While a function is encoded, source and target have the same    *)
(* arguments, and every value encoded so far has a width.                  *)
(***************************************************************************)
Running == phase \in {"src", "tgt", "alwaysub"}

RunTyped ==
  /\ prog \in [Fns -> Programs] /\ fn \in 1..(NumFns + 1)
  /\ phase \in {"analyze", "src", "tgt", "alwaysub", "aborted"}
  /\ regs \in Seq(Nat) /\ precise \in BOOLEAN /\ castSeen \in BOOLEAN
  /\ Running => /\ fn \in Fns /\ Src.args = Tgt.args
                /\ pos \in 1..(Len(Encoded.ops) + 1)
                /\ Len(regs) = NumValues(Encoded, pos)

MapsTyped ==
  /\ \A name \in DOMAIN calleeMap : calleeMap[name].result \in Nat
  /\ \A name \in DOMAIN attrs : attrs[name] \in Nat

LEMMA FunctionsAre ==
  ASSUME RunTyped, fn \in Fns
  PROVE  /\ IsPair(prog[fn]) /\ IsFunction(Src) /\ IsFunction(Tgt) /\ IsFunction(Encoded)
         /\ Encoded \in {Src, Tgt}
         /\ \A p, elem : WidthIn(prog[fn], p, elem) \in Nat
         /\ \A elem : Width(elem) \in Nat
<1>1. prog[fn] \in Programs
  BY DEF RunTyped
<1>2. IsPair(prog[fn])
  BY <1>1, SharedTermsOK
<1>3. IsFunction(Src) /\ IsFunction(Tgt)
  BY <1>2 DEF IsPair, Src, Tgt
<1>4. IsFunction(Encoded) /\ Encoded \in {Src, Tgt}
  BY <1>3 DEF Encoded
<1>5. \A p, elem : WidthIn(prog[fn], p, elem) \in Nat
  BY <1>3, WidthsAreNumbers DEF Src, Tgt
<1> QED BY <1>2, <1>3, <1>4, <1>5 DEF Width

LEMMA OpIs ==
  ASSUME RunTyped, NEW kinds, Encoding(kinds)
  PROVE  /\ Running /\ fn \in Fns /\ pos \in 1..Len(Encoded.ops) /\ Op.kind \in kinds
         /\ Op = Encoded.ops[pos] /\ Op \in Range(Encoded.ops) /\ IsFunction(Encoded)
         /\ Op.results \in Seq(Type) /\ Len(Op.results) \in {0, 1}
         /\ Op.kind \in {"bigConst", "move"} => Len(Op.results) = 1
         /\ Op.operands \in Seq(1..Len(regs)) /\ Len(regs) = NumValues(Encoded, pos)
         /\ NumValues(Encoded, pos + 1) = Len(regs) + Len(Op.results)
<1>1. Running /\ fn \in Fns /\ Op.kind \in kinds /\ pos <= Len(Encoded.ops)
  BY DEF Encoding, Running, RunTyped
<1>2. IsFunction(Encoded)
  BY <1>1, FunctionsAre
<1>3. Len(Encoded.ops) \in Nat /\ DOMAIN Encoded.ops = 1..Len(Encoded.ops)
  BY <1>2, ResultsAreSequences
<1>4. pos \in 1..Len(Encoded.ops) /\ Len(regs) = NumValues(Encoded, pos)
  BY <1>1, <1>3 DEF RunTyped
<1>5. Op = Encoded.ops[pos] /\ Op \in Range(Encoded.ops)
  BY <1>3, <1>4 DEF Op, Range
<1>6. /\ Op.results \in Seq(Type) /\ Len(Op.results) <= 1
      /\ Op.kind \in {"bigConst", "move"} => Len(Op.results) = 1
  BY <1>2, <1>3, <1>4, <1>5 DEF IsFunction, HasResult
<1>7. Len(Op.results) \in {0, 1}
  <2>1. PICK r : r = Op.results
    OBVIOUS
  <2>2. PICK l \in Nat : l = Len(r)
    BY <1>6, <2>1, LenProperties
  <2>3. l <= 1
    BY <1>6, <2>1, <2>2
  <2>4. l \in {0, 1}
    BY <2>3
  <2> QED BY <2>1, <2>2, <2>4
<1>8. Op.operands \in Seq(1..Len(regs))
  BY <1>2, <1>4, <1>5, OperandsAreValues
<1>9. NumValues(Encoded, pos + 1) = Len(regs) + Len(Op.results)
  BY <1>2, <1>4, <1>5, ValuesInOrder
<1> QED BY <1>1, <1>2, <1>4, <1>5, <1>6, <1>7, <1>8, <1>9

LEMMA AddResultIsTyped ==
  ASSUME RunTyped, NEW kinds, Encoding(kinds), NEW widths \in Seq(Nat),
         Len(widths) = Len(Op.results), AddResult(widths)
  PROVE  RunTyped'
<1>1. /\ regs' = regs \o widths /\ pos' = pos + 1 /\ castSeen' \in BOOLEAN
      /\ UNCHANGED <<prog, fn, phase, precise>>
  BY DEF AddResult, RunTyped
<1>2. regs \in Seq(Nat)
  BY DEF RunTyped
<1>3. regs' \in Seq(Nat) /\ Len(regs') = Len(regs) + Len(widths)
  BY <1>1, <1>2, ConcatProperties
<1>4. Encoded' = Encoded /\ Src' = Src /\ Tgt' = Tgt /\ Running' = Running
  BY <1>1 DEF Encoded, Src, Tgt, Running
<1>5. pos \in 1..Len(Encoded.ops) /\ NumValues(Encoded, pos + 1) = Len(regs) + Len(Op.results)
      /\ Len(Encoded.ops) \in Nat
  BY OpIs, ResultsAreSequences
<1>6. pos' \in 1..(Len(Encoded'.ops) + 1) /\ Len(regs') = NumValues(Encoded', pos')
  BY <1>1, <1>3, <1>4, <1>5
<1>7. Running => fn' \in Fns /\ Src'.args = Tgt'.args
  BY <1>1, <1>4 DEF RunTyped
<1> QED BY <1>1, <1>3, <1>4, <1>6, <1>7 DEF RunTyped

\* The arguments come first.
LEMMA StartIsTyped ==
  ASSUME RunTyped, fn \in Fns, Src.args = Tgt.args,
         NEW new \in {"src", "tgt", "alwaysub"}, NEW p \in BOOLEAN,
         StartEncoding(new, p), UNCHANGED <<prog, fn, castSeen>>
  PROVE  RunTyped'
<1>1. /\ phase' = new /\ precise' = p /\ pos' = 1
      /\ regs' = [i \in DOMAIN Src.args |-> WidthIn(prog[fn], p, Src.args[i].elem)]
  BY DEF StartEncoding
<1>2. Src' = Src /\ Tgt' = Tgt /\ Encoded' \in {Src, Tgt}
  BY DEF Src, Tgt, Encoded
<1>3. IsFunction(Src) /\ IsFunction(Tgt) /\ \A elem : WidthIn(prog[fn], p, elem) \in Nat
  BY FunctionsAre
<1>4. PICK n \in Nat : DOMAIN Src.args = 1..n /\ Len(Src.args) = n /\ Len(Tgt.args) = n
  <2>1. Src.args = Tgt.args
    OBVIOUS
  <2>2. Len(Src.args) \in Nat /\ DOMAIN Src.args = 1..Len(Src.args)
    BY <1>3, ResultsAreSequences
  <2> QED BY <2>1, <2>2
<1>5. regs' \in [1..n -> Nat]
  BY <1>1, <1>3, <1>4
<1>6. regs' \in Seq(Nat) /\ Len(regs') = n
  BY <1>5
<1>7. NumValues(Encoded', 1) = n
  BY <1>2, <1>3, <1>4, ValuesInOrder
<1>8. pos' \in 1..(Len(Encoded'.ops) + 1)
  <2>1. Len(Encoded'.ops) \in Nat
    BY <1>2, <1>3, ResultsAreSequences
  <2> QED BY <1>1, <2>1
<1> QED BY <1>1, <1>2, <1>6, <1>7, <1>8 DEF RunTyped, Running

LEMMA NextFunctionIsTyped ==
  ASSUME RunTyped, fn \in Fns, NextFunction, precise' \in BOOLEAN, UNCHANGED <<prog, castSeen>>
  PROVE  RunTyped'
<1>1. fn' = fn + 1 /\ phase' = "analyze" /\ regs' = <<>>
  BY DEF NextFunction
<1>2. fn' \in 1..(NumFns + 1)
  BY <1>1, SharedTermsOK DEF Fns
<1> QED BY <1>1, <1>2, EmptySeq DEF RunTyped, Running

LEMMA AbortIsTyped ==
  ASSUME RunTyped, Abort
  PROVE  RunTyped'
  BY DEF RunTyped, Abort, Running
LEMMA CurrentIs ==
  ASSUME RunTyped, fn \in Fns, NEW types \in Seq(Type)
  PROVE  Current(types) \in Seq(Nat) /\ Len(Current(types)) = Len(types)
<1>1. \A elem : Width(elem) \in Nat
  BY FunctionsAre
<1>2. PICK n \in Nat : DOMAIN types = 1..n /\ Len(types) = n
  BY LenProperties
<1>3. Current(types) \in [1..n -> Nat]
  BY <1>1, <1>2 DEF Current
<1> QED BY <1>2, <1>3

LEMMA CallAddsOne ==
  ASSUME RunTyped, MapsTyped, EncodeCall
  PROVE  /\ calleeMap' = With(calleeMap, Op.name, Declare(Op)) /\ attrs' = attrs
         /\ Len(Op.results) = 1 /\ calleeMap'[Op.name].result \in Nat
         /\ \/ AddResult(<<calleeMap'[Op.name].result>>) \/ Abort
<1>1. Encoding({"call"}) /\ ~CallThrows /\ attrs' = attrs
  BY DEF EncodeCall
<1>2. calleeMap' = With(calleeMap, Op.name, Declare(Op))
  BY DEF EncodeCall
<1>3. Len(Op.results) = 1
  BY <1>1 DEF CallThrows
<1>4. \/ AddResult(<<calleeMap'[Op.name].result>>) \/ Abort
  BY Zenon DEF EncodeCall
<1>5. Declare(Op).result \in Nat
  <2>1. fn \in Fns
    BY <1>1, OpIs
  <2>2. Declare(Op).result = Width(Op.results[1].elem)
    BY DEF Declare
  <2> QED BY <2>1, <2>2, FunctionsAre
<1>6. calleeMap'[Op.name].result \in Nat
  <2>1. calleeMap'[Op.name] = IF Op.name \in DOMAIN calleeMap THEN calleeMap[Op.name] ELSE Declare(Op)
    BY <1>2 DEF With
  <2> QED BY <1>5, <2>1 DEF MapsTyped
<1> QED BY <1>1, <1>2, <1>3, <1>4, <1>6

LEMMA OneNumber ==
  ASSUME NEW n \in Nat
  PROVE  <<n>> \in Seq(Nat) /\ Len(<<n>>) = 1
  OBVIOUS

LEMMA RunStaysTyped ==
  ASSUME RunTyped, MapsTyped, [Next]_vars
  PROVE  RunTyped'
<1>1. CASE RejectFunction
  BY <1>1, NextFunctionIsTyped DEF RejectFunction, Unsupported, RunTyped
<1>2. CASE RejectSignature
  <2>1. /\ fn \in Fns /\ NextFunction /\ UNCHANGED <<prog, castSeen>>
        /\ precise' = precise \/ precise' = FALSE
    BY <1>2 DEF RejectSignature
  <2>2. precise' \in BOOLEAN
    BY <2>1 DEF RunTyped
  <2> QED BY <2>1, <2>2, NextFunctionIsTyped
<1>3. CASE StartFunction
  BY <1>3, StartIsTyped DEF StartFunction
<1>4. CASE StartTarget \/ NextRound \/ StartAlwaysUB
  <2>1. AtEnd
    BY <1>4 DEF StartTarget, NextRound, StartAlwaysUB
  <2>2. fn \in Fns /\ Src.args = Tgt.args
    BY <2>1 DEF AtEnd, Running, RunTyped
  <2>3. precise \in BOOLEAN /\ (precise \/ castSeen) \in BOOLEAN
    BY DEF RunTyped
  <2>4. CASE StartTarget
    BY <2>2, <2>3, <2>4, StartIsTyped DEF StartTarget
  <2>5. CASE NextRound
    <3>1. PICK p \in BOOLEAN : p = (precise \/ castSeen)
      BY <2>3
    <3>2. StartEncoding("src", p) /\ UNCHANGED <<prog, fn, castSeen>>
      BY <2>5, <3>1 DEF NextRound
    <3> QED BY <2>2, <3>2, StartIsTyped
  <2>6. CASE StartAlwaysUB
    BY <2>2, <2>6, StartIsTyped DEF StartAlwaysUB
  <2> QED BY <1>4, <2>4, <2>5, <2>6
<1>5. CASE FinishFunction
  <2>1. NextFunction /\ UNCHANGED <<prog, precise, castSeen>> /\ AtEnd
    BY <1>5 DEF FinishFunction
  <2>2. fn \in Fns /\ precise' \in BOOLEAN
    BY <2>1 DEF AtEnd, Running, RunTyped
  <2> QED BY <2>1, <2>2, NextFunctionIsTyped
<1>6. CASE CallUnsupported
  <2>1. NextFunction /\ UNCHANGED <<prog, precise, castSeen>> /\ Encoding({"call"})
    BY <1>6 DEF CallUnsupported, Unsupported
  <2>2. fn \in Fns /\ precise' \in BOOLEAN
    BY <2>1, OpIs DEF RunTyped
  <2> QED BY <2>1, <2>2, NextFunctionIsTyped
<1>7. CASE EncodeCall
  <2>1. CASE Abort
    BY <2>1, AbortIsTyped
  <2>2. CASE AddResult(<<calleeMap'[Op.name].result>>)
    <3>1. PICK n \in Nat : n = calleeMap'[Op.name].result
      BY <1>7, CallAddsOne
    <3>2. Encoding({"call"}) /\ AddResult(<<n>>) /\ Len(<<n>>) = Len(Op.results)
      BY <1>7, <2>2, <3>1, CallAddsOne, OneNumber DEF EncodeCall
    <3> QED BY <3>2, OneNumber, AddResultIsTyped
  <2> QED BY <1>7, <2>1, <2>2, CallAddsOne
<1>8. CASE EncodeBigConst
  <2>1. PICK n : n = attrs'[Op.name]
    OBVIOUS
  <2>2. Encoding({"bigConst"}) /\ AddResult(<<n>>)
        /\ attrs' = With(attrs, Op.name, Width(Op.results[1].elem))
    BY <1>8, <2>1 DEF EncodeBigConst
  <2>3. Len(Op.results) = 1 /\ fn \in Fns
    BY <2>2, OpIs
  <2>4. n = IF Op.name \in DOMAIN attrs THEN attrs[Op.name] ELSE Width(Op.results[1].elem)
    BY <2>1, <2>2 DEF With
  <2>5. n \in Nat
    BY <2>3, <2>4, FunctionsAre DEF MapsTyped
  <2> QED BY <2>2, <2>3, <2>5, OneNumber, AddResultIsTyped
<1>9. CASE EncodeMove
  <2>1. Encoding({"move"}) /\ AddResult(<<regs[Op.operands[1]]>>)
    BY <1>9 DEF EncodeMove
  <2>2. Len(Op.results) = 1 /\ Op.operands \in Seq(1..Len(regs)) /\ Len(Op.operands) >= 1
    <3>1. pos \in DOMAIN Encoded.ops /\ Op = Encoded.ops[pos] /\ Op.kind = "move"
      BY <2>1, OpIs, ResultsAreSequences
    <3>2. Len(Op.operands) >= 1
      BY <2>1, <3>1, OpIs DEF IsFunction
    <3> QED BY <2>1, <3>1, <3>2, OpIs
  <2>3. PICK o : o = Op.operands
    OBVIOUS
  <2>4. o[1] \in 1..Len(regs)
    BY <2>2, <2>3, ElementOfSeq
  <2>5. PICK n \in Nat : n = regs[o[1]]
    BY <2>4, ElementOfSeq DEF RunTyped
  <2> QED BY <2>1, <2>2, <2>3, <2>5, OneNumber, AddResultIsTyped
<1>10. CASE EncodeOther
  <2>1. Encoding(Kind \ {"call", "bigConst", "move"})
    BY <1>10 DEF EncodeOther
  <2>2. CASE Abort
    BY <2>2, AbortIsTyped
  <2>3. CASE AddResult(Current(Op.results))
    <3>1. Op.results \in Seq(Type) /\ fn \in Fns
      BY <2>1, OpIs
    <3>2. Current(Op.results) \in Seq(Nat) /\ Len(Current(Op.results)) = Len(Op.results)
      BY <3>1, CurrentIs
    <3> QED BY <2>1, <2>3, <3>2, AddResultIsTyped
  <2> QED BY <1>10, <2>2, <2>3, Zenon DEF EncodeOther
<1>11. CASE UNCHANGED vars
  BY <1>11 DEF vars, RunTyped, Running, Src, Tgt, Encoded
<1> QED
  BY <1>1, <1>2, <1>3, <1>4, <1>5, <1>6, <1>7, <1>8, <1>9, <1>10, <1>11 DEF Next

LEMMA MapsStayTyped ==
  ASSUME RunTyped, MapsTyped, [Next]_vars
  PROVE  MapsTyped'
<1>1. CASE calleeMap' = calleeMap /\ (attrs' = attrs \/ attrs' = <<>>)
  BY <1>1 DEF MapsTyped
<1>2. CASE EncodeCall
  <2>1. /\ calleeMap' = With(calleeMap, Op.name, Declare(Op)) /\ attrs' = attrs
        /\ calleeMap'[Op.name].result \in Nat
    BY <1>2, CallAddsOne
  <2>2. ASSUME NEW name \in DOMAIN calleeMap' PROVE calleeMap'[name].result \in Nat
    <3>1. CASE name \in DOMAIN calleeMap
      <4>1. calleeMap'[name] = calleeMap[name]
        BY <2>1, <3>1 DEF With
      <4> QED BY <3>1, <4>1 DEF MapsTyped
    <3>2. CASE name \notin DOMAIN calleeMap
      <4>1. name = Op.name
        BY <2>1, <3>2 DEF With
      <4> QED BY <2>1, <4>1
    <3> QED BY <3>1, <3>2
  <2> QED BY <2>1, <2>2 DEF MapsTyped
<1>3. CASE EncodeBigConst
  <2>1. /\ attrs' = With(attrs, Op.name, Width(Op.results[1].elem)) /\ calleeMap' = calleeMap
        /\ Encoding({"bigConst"})
    BY <1>3 DEF EncodeBigConst
  <2>2. Width(Op.results[1].elem) \in Nat
    BY <2>1, OpIs, FunctionsAre
  <2> QED BY <2>1, <2>2 DEF MapsTyped, With
<1>4. CASE RejectFunction \/ RejectSignature \/ StartFunction \/ StartTarget \/ NextRound
           \/ StartAlwaysUB \/ FinishFunction
  <2>1. calleeMap' = calleeMap /\ (attrs' = attrs \/ attrs' = <<>>)
    BY <1>4 DEF RejectFunction, RejectSignature, Unsupported, StartFunction, StartTarget,
                NextRound, StartAlwaysUB, FinishFunction
  <2> QED BY <1>1, <2>1
<1>5. CASE CallUnsupported \/ EncodeMove \/ EncodeOther \/ UNCHANGED vars
  BY <1>1, <1>5 DEF CallUnsupported, Unsupported, EncodeMove, EncodeOther, vars
<1> QED
  BY <1>2, <1>3, <1>4, <1>5 DEF Next

LEMMA StartsTyped ==
  ASSUME Init
  PROVE  RunTyped /\ MapsTyped
<1>1. 1 \in 1..(NumFns + 1)
  BY SharedTermsOK
<1>2. /\ prog \in [Fns -> Programs] /\ fn = 1 /\ phase = "analyze" /\ regs = <<>>
      /\ precise = FALSE /\ castSeen = FALSE /\ calleeMap = <<>> /\ attrs = <<>>
  BY DEF Init
<1>3. MapsTyped
  <2>1. DOMAIN calleeMap = {} /\ DOMAIN attrs = {}
    BY <1>2
  <2> QED BY <2>1 DEF MapsTyped
<1>4. <<>> \in Seq(Nat)
  BY EmptySeq
<1> QED BY <1>1, <1>2, <1>3, <1>4 DEF RunTyped, Running

LEMMA TypedIsEnough ==
  ASSUME RunTyped, MapsTyped
  PROVE  TypeOK
  BY DEF RunTyped, MapsTyped, TypeOK, Running

\* Every value of a function has a width before the next operation is encoded,
\* however encodings of this and other functions came before it (RegFile::add,
\* encodeBlock).
THEOREM TypesAreOK == Spec => []TypeOK
<1>1. Init => RunTyped /\ MapsTyped
  BY StartsTyped
<1>2. (RunTyped /\ MapsTyped) /\ [Next]_vars => (RunTyped /\ MapsTyped)'
  BY RunStaysTyped, MapsStayTyped
<1>3. RunTyped /\ MapsTyped => TypeOK
  BY TypedIsEnough
<1> QED BY <1>1, <1>2, <1>3, PTL DEF Spec

\* The blocks of an encoding suffice for every variable it names and for every
\* block it creates, if source and target disagree about both (numBlocksPerType,
\* Memory::addLocalBlock).
THEOREM BlocksAlwaysSuffice == Spec => []BlocksSuffice
<1>1. Init => RunTyped /\ MapsTyped
  BY StartsTyped
<1>2. (RunTyped /\ MapsTyped) /\ [Next]_vars => (RunTyped /\ MapsTyped)'
  BY RunStaysTyped, MapsStayTyped
<1>3. RunTyped => BlocksSuffice
  <2> SUFFICES ASSUME RunTyped, Running, NEW elem \in Elem
               PROVE  /\ Cardinality({g \in Globals(Src, Tgt) : g.elem = elem})
                           <= NumBlocksPerType(Src, Tgt, elem)
                      /\ Cardinality({i \in DOMAIN Encoded.ops :
                                        /\ Encoded.ops[i].kind = "alloc"
                                        /\ Encoded.ops[i].results[1].elem = elem})
                           <= NumBlocksPerType(Src, Tgt, elem)
    BY DEF BlocksSuffice, Running
  <2>1. fn \in Fns
    BY DEF RunTyped
  <2>2. IsFunction(Src) /\ IsFunction(Tgt) /\ Encoded \in {Src, Tgt}
    BY <2>1, FunctionsAre
  <2> QED BY <2>2, BlocksSufficeFor
<1> QED BY <1>1, <1>2, <1>3, PTL DEF Spec
-----------------------------------------------------------------------------
(***************************************************************************)
(* Terms fit.  Declarations come from calls of this function and of those  *)
(* before it; what a function declares has the widths that it has in all   *)
(* encodings of the function, as long as no f64 is concerned.              *)
(***************************************************************************)
SignatureOf(f, op) ==
  [name |-> op.name, domain |-> OperandTypes(f, op), range |-> op.results]

DeclarationOf(s) ==
  [sorts |-> DomainSorts(s.domain, Current(s.domain)), result |-> Width(s.range[1].elem)]

\* What FloatsFitWithinFunction asks of the functions.
Separate ==
  /\ SameSignatures(prog[fn]) /\ SharesFloatsOnly(prog[fn])
  /\ \A f \in 1..(fn - 1) : Callees(prog[f]) \cap Callees(prog[fn]) = {}

CalleesAreCalled ==
  \A name \in DOMAIN calleeMap :
    \E f \in Fns : /\ f <= fn /\ (phase = "analyze" => f < fn)
                   /\ name \in Callees(prog[f])

DeclarationsFit ==
  \A s \in Signatures(prog[fn]) :
    s.name \in DOMAIN calleeMap =>
      Len(s.range) = 1 /\ calleeMap[s.name] = DeclarationOf(s)

AttrsFit ==
  \A op \in BigConsts(prog[fn]) :
    op.name \in DOMAIN attrs => attrs[op.name] = Width(op.results[1].elem)

RegsFit == \A i \in DOMAIN regs : regs[i] = Width(Values(Encoded)[i].elem)

AllFit ==
  fn \in Fns /\ Separate =>
    /\ phase # "aborted"
    /\ Running => DeclarationsFit /\ AttrsFit /\ RegsFit

LEMMA CallIsKnown ==
  ASSUME RunTyped, Encoding({"call"})
  PROVE  /\ SignatureOf(Encoded, Op) \in Signatures(prog[fn])
         /\ Op.name \in Callees(prog[fn])
<1>1. fn \in Fns /\ Op \in Range(Encoded.ops) /\ Op.kind = "call"
  BY OpIs
<1>2. Encoded \in {prog[fn].src, prog[fn].tgt}
  BY <1>1, FunctionsAre DEF Src, Tgt
<1>3. SignatureOf(Encoded, Op) \in Signatures(prog[fn])
  BY <1>1, <1>2 DEF Signatures, SignatureOf
<1>4. SignatureOf(Encoded, Op).name = Op.name
  BY DEF SignatureOf
<1> QED BY <1>3, <1>4 DEF Callees

LEMMA SignaturesAre ==
  ASSUME RunTyped, fn \in Fns, NEW s \in Signatures(prog[fn])
  PROVE  s.domain \in Seq(Type) /\ s.range \in Seq(Type) /\ s.name \in Callees(prog[fn])
<1>1. PICK f \in {prog[fn].src, prog[fn].tgt} :
        s \in {SignatureOf(f, op) : op \in {o \in Range(f.ops) : o.kind = "call"}}
  BY DEF Signatures, SignatureOf
<1>2. IsFunction(f)
  BY <1>1, FunctionsAre DEF Src, Tgt
<1>3. PICK op \in Range(f.ops) : s = SignatureOf(f, op)
  BY <1>1
<1>4. PICK k \in DOMAIN f.ops : op = f.ops[k]
  BY <1>3 DEF Range
<1>5. k \in 1..Len(f.ops)
  BY <1>2, <1>4, ResultsAreSequences
<1>6. OperandTypes(f, op) \in Seq(Type) /\ op.results \in Seq(Type)
  BY <1>2, <1>4, <1>5, OperandsAreValues DEF IsFunction
<1> QED BY <1>3, <1>6 DEF SignatureOf, Callees

LEMMA CalleesStay ==
  ASSUME RunTyped, CalleesAreCalled, [Next]_vars
  PROVE  CalleesAreCalled'
<1>1. CASE fn \in Fns /\ NextFunction /\ UNCHANGED <<prog, calleeMap>>
  <2>1. fn' = fn + 1
    BY <1>1 DEF NextFunction
  <2>2. ASSUME NEW f \in Fns, f <= fn PROVE f <= fn' /\ f < fn'
    BY <1>1, <2>1, <2>2, SharedTermsOK DEF Fns
  <2> QED BY <1>1, <2>2 DEF CalleesAreCalled
<1>2. CASE fn \in Fns /\ phase' # "analyze" /\ UNCHANGED <<prog, fn, calleeMap>>
  BY <1>2 DEF CalleesAreCalled
<1>3. CASE EncodeCall
  <2>1. /\ calleeMap' = With(calleeMap, Op.name, Declare(Op)) /\ Encoding({"call"})
        /\ AddResult(<<calleeMap'[Op.name].result>>) \/ Abort
    BY <1>3, CallAddsOne DEF EncodeCall
  <2>2. UNCHANGED <<prog, fn>> /\ phase' # "analyze" /\ fn \in Fns
    BY <2>1, OpIs DEF AddResult, Abort, Running
  <2>3. Op.name \in Callees(prog[fn])
    BY <2>1, CallIsKnown
  <2>4. ASSUME NEW name \in DOMAIN calleeMap'
        PROVE  \E f \in Fns : f <= fn /\ name \in Callees(prog[f])
    <3>1. CASE name \in DOMAIN calleeMap
      BY <3>1 DEF CalleesAreCalled
    <3>2. CASE name \notin DOMAIN calleeMap
      <4>1. name = Op.name
        BY <2>1, <3>2 DEF With
      <4>2. fn <= fn
        BY <2>2, SharedTermsOK DEF Fns
      <4> QED BY <2>2, <2>3, <4>1, <4>2
    <3> QED BY <3>1, <3>2
  <2> QED BY <2>2, <2>4 DEF CalleesAreCalled
<1>4. CASE RejectFunction \/ RejectSignature
  BY <1>1, <1>4 DEF RejectFunction, RejectSignature, Unsupported
<1>5. CASE FinishFunction
  <2>1. fn \in Fns
    BY <1>5 DEF FinishFunction, AtEnd, RunTyped, Running
  <2> QED BY <1>1, <1>5, <2>1 DEF FinishFunction
<1>6. CASE CallUnsupported
  <2>1. fn \in Fns
    BY <1>6, OpIs DEF CallUnsupported
  <2> QED BY <1>1, <1>6, <2>1 DEF CallUnsupported, Unsupported
<1>7. CASE StartFunction
  BY <1>2, <1>7 DEF StartFunction, StartEncoding
<1>8. CASE StartTarget \/ NextRound \/ StartAlwaysUB
  <2>1. AtEnd /\ phase' # "analyze" /\ UNCHANGED <<prog, fn, calleeMap>>
    BY <1>8 DEF StartTarget, NextRound, StartAlwaysUB, StartEncoding
  <2>2. fn \in Fns
    BY <2>1 DEF AtEnd, RunTyped, Running
  <2> QED BY <1>2, <2>1, <2>2
<1>9. CASE EncodeBigConst \/ EncodeMove \/ EncodeOther
  <2>1. Encoding(Kind) /\ UNCHANGED <<prog, fn, calleeMap>>
    BY <1>9 DEF EncodeBigConst, EncodeMove, EncodeOther, Encoding, AddResult, Abort, Kind
  <2>2. phase' # "analyze"
    BY <1>9, <2>1 DEF EncodeBigConst, EncodeMove, EncodeOther, Encoding, AddResult, Abort
  <2>3. fn \in Fns
    BY <2>1, OpIs
  <2> QED BY <1>2, <2>1, <2>2, <2>3
<1>10. CASE UNCHANGED vars
  BY <1>10 DEF vars, CalleesAreCalled
<1> QED
  BY <1>3, <1>4, <1>5, <1>6, <1>7, <1>8, <1>9, <1>10 DEF Next
\* Widths and what is compared with them, in the next encoding of a function.
LEMMA StartFits ==
  ASSUME RunTyped, fn \in Fns, Src.args = Tgt.args, NEW new, NEW p,
         StartEncoding(new, p), UNCHANGED <<prog, fn>>
  PROVE  RegsFit'
<1>1. /\ phase' = new /\ precise' = p
      /\ regs' = [i \in DOMAIN Src.args |-> WidthIn(prog[fn], p, Src.args[i].elem)]
  BY DEF StartEncoding
<1>2. Encoded' \in {Src, Tgt}
  BY DEF Src, Tgt, Encoded
<1>3. IsFunction(Src) /\ IsFunction(Tgt)
  BY FunctionsAre
<1>4. PICK n \in Nat : DOMAIN Src.args = 1..n /\ Len(Src.args) = n /\ Len(Tgt.args) = n
  BY <1>3, ResultsAreSequences
<1>5. \A i \in 1..n : Values(Encoded')[i] = Src.args[i]
  BY <1>2, <1>3, <1>4, ValuesInOrder
<1>6. ASSUME NEW i \in DOMAIN regs' PROVE regs'[i] = WidthIn(prog[fn], p, Values(Encoded')[i].elem)
  BY <1>1, <1>4, <1>5
<1> QED BY <1>1, <1>6 DEF RegsFit, Width

LEMMA RestartFits ==
  ASSUME RunTyped, fn \in Fns, SharesFloatsOnly(prog[fn]), DeclarationsFit, AttrsFit,
         UNCHANGED <<prog, fn, calleeMap, attrs>>
  PROVE  DeclarationsFit' /\ AttrsFit'
<1>1. ASSUME NEW elem, elem # "f64" PROVE Width(elem)' = Width(elem)
  <2>1. WidthIn(prog[fn], precise', elem) = WidthIn(prog[fn], precise, elem)
    BY <1>1, WidthStays
  <2> QED BY <2>1 DEF Width
<1>2. ASSUME NEW s \in Signatures(prog[fn]), s.name \in DOMAIN calleeMap
      PROVE  Len(s.range) = 1 /\ calleeMap[s.name] = DeclarationOf(s)'
  <2>1. Len(s.range) = 1 /\ calleeMap[s.name] = DeclarationOf(s)
    BY <1>2 DEF DeclarationsFit
  <2>2. PICK d \in Seq(Type), r \in Seq(Type) : d = s.domain /\ r = s.range
    BY SignaturesAre
  <2>3. \A type \in Range(d \o r) : type.elem # "f64"
    BY <2>2 DEF SharesFloatsOnly
  <2>4. PICK n \in Nat : n = Len(d) /\ DOMAIN d = 1..n /\ Len(r) = 1
    BY <2>1, <2>2, LenProperties
  <2>5. /\ d \o r \in Seq(Type) /\ Len(d \o r) = n + 1
        /\ \A i \in 1..(n + 1) : (d \o r)[i] = IF i <= n THEN d[i] ELSE r[i - n]
    <3>1. /\ d \o r \in Seq(Type) /\ Len(d \o r) = Len(d) + Len(r)
          /\ \A i \in 1..(Len(d) + Len(r)) :
               (d \o r)[i] = IF i <= Len(d) THEN d[i] ELSE r[i - Len(d)]
      BY <2>2, ConcatProperties
    <3>2. Len(d) = n /\ Len(r) = 1
      BY <2>4
    <3> QED BY <3>1, <3>2
  <2>6. \A i \in 1..(n + 1) : (d \o r)[i].elem # "f64"
    <3>1. DOMAIN (d \o r) = 1..(n + 1)
      BY <2>5, LenProperties
    <3> QED BY <2>3, <3>1 DEF Range
  <2>7. \A i \in 1..n : d[i].elem # "f64"
    <3>1. \A i \in 1..n : i \in 1..(n + 1) /\ (d \o r)[i] = d[i]
      BY <2>5
    <3> QED BY <2>6, <3>1
  <2>8. r[1].elem # "f64"
    <3>1. n + 1 \in 1..(n + 1) /\ ~(n + 1 <= n) /\ (n + 1) - n = 1
      OBVIOUS
    <3>2. (d \o r)[n + 1] = r[1]
      BY <2>5, <3>1
    <3> QED BY <2>6, <3>1, <3>2
  <2>9. Current(d)' = Current(d)
    <3>1. \A i \in 1..n : Width(d[i].elem)' = Width(d[i].elem)
      BY <1>1, <2>7
    <3> QED BY <2>4, <3>1 DEF Current
  <2>10. Width(r[1].elem)' = Width(r[1].elem)
    BY <1>1, <2>8
  <2>11. DeclarationOf(s)' = DeclarationOf(s)
    BY <2>2, <2>9, <2>10 DEF DeclarationOf
  <2> QED BY <2>1, <2>11
<1>3. DeclarationsFit'
  BY <1>2 DEF DeclarationsFit
<1>4. ASSUME NEW op \in BigConsts(prog[fn]), op.name \in DOMAIN attrs
      PROVE  attrs[op.name] = Width(op.results[1].elem)'
  <2>1. op.results[1].elem # "f64"
    BY DEF BigConsts, SharesFloatsOnly
  <2>2. attrs[op.name] = Width(op.results[1].elem)
    BY <1>4 DEF AttrsFit
  <2>3. Width(op.results[1].elem)' = Width(op.results[1].elem)
    BY <1>1, <2>1
  <2> QED BY <2>2, <2>3
<1>5. AttrsFit'
  BY <1>4 DEF AttrsFit
<1> QED BY <1>3, <1>5

Joins(r, s, t, n, l) ==
  /\ r \in Seq(Nat) /\ DOMAIN r = 1..(n + l)
  /\ \A i \in 1..(n + l) : r[i] = IF i <= n THEN s[i] ELSE t[i - n]

LEMMA Appended ==
  ASSUME NEW s \in Seq(Nat), NEW t \in Seq(Nat), NEW r, r = s \o t,
         NEW n \in Nat, n = Len(s), NEW l \in Nat, l = Len(t)
  PROVE  Joins(r, s, t, n, l)
<1>1. /\ s \o t \in Seq(Nat) /\ Len(s \o t) = Len(s) + Len(t)
      /\ \A i \in 1..(Len(s) + Len(t)) :
           (s \o t)[i] = IF i <= Len(s) THEN s[i] ELSE t[i - Len(s)]
  BY ConcatProperties
<1>2. r \in Seq(Nat) /\ Len(r) = n + l
  BY <1>1
<1>3. DOMAIN r = 1..(n + l)
  BY <1>2, LenProperties
<1> QED BY <1>1, <1>2, <1>3 DEF Joins

\* In the same encoding.
LEMMA AddFits ==
  ASSUME RunTyped, RegsFit, NEW kinds, Encoding(kinds), NEW widths \in Seq(Nat),
         Len(widths) = Len(Op.results),
         Len(widths) = 1 => widths[1] = Width(Op.results[1].elem),
         AddResult(widths)
  PROVE  RegsFit'
<1>1. regs' = regs \o widths /\ UNCHANGED <<prog, fn, phase, precise>>
  BY DEF AddResult
<1>2. Encoded' = Encoded
  BY <1>1 DEF Encoded, Src, Tgt
<1>3. PICK n \in Nat : n = Len(regs) /\ regs \in Seq(Nat) /\ DOMAIN regs = 1..n
  BY LenProperties DEF RunTyped
<1>4. PICK l \in {0, 1} : l = Len(widths)
  BY OpIs
<1>5. /\ regs' \in Seq(Nat) /\ DOMAIN regs' = 1..(n + l)
      /\ \A i \in 1..(n + l) : regs'[i] = IF i <= n THEN regs[i] ELSE widths[i - n]
  <2>1. PICK s, r : /\ s \in Seq(Nat) /\ s = regs /\ r = regs' /\ r = s \o widths
                    /\ n = Len(s) /\ l = Len(widths)
    BY <1>1, <1>3, <1>4
  <2>2. l \in Nat
    BY <1>4
  <2>3. Joins(r, s, widths, n, l)
    BY <2>1, <2>2, Appended
  <2> QED BY <2>1, <2>3 DEF Joins
<1>6. DOMAIN regs' = 1..(n + l)
  BY <1>5
<1>7. ASSUME NEW i \in 1..(n + l) PROVE regs'[i] = Width(Values(Encoded)[i].elem)
  <2>1. CASE i <= n
    <3>1. i \in DOMAIN regs /\ regs'[i] = regs[i]
      BY <1>3, <1>5, <2>1
    <3> QED BY <3>1 DEF RegsFit
  <2>2. CASE ~(i <= n)
    <3>1. i = n + 1 /\ i - n = 1 /\ l = 1
      <4>1. l = 0 \/ l = 1
        BY <1>4
      <4>2. CASE l = 0
        BY <2>2, <4>2
      <4>3. CASE l = 1
        BY <2>2, <4>3
      <4> QED BY <4>1, <4>2, <4>3
    <3>2. regs'[i] = Width(Op.results[1].elem)
      BY <1>4, <1>5, <2>2, <3>1
    <3>3. Values(Encoded)[n + 1] = Op.results[1]
      <4>1. /\ pos \in 1..Len(Encoded.ops) /\ Op = Encoded.ops[pos] /\ IsFunction(Encoded)
            /\ Len(Op.results) = 1 /\ NumValues(Encoded, pos) = n
        BY <1>3, <1>4, <3>1, OpIs
      <4> QED BY <4>1, ValuesInOrder DEF HasResult
    <3> QED BY <3>1, <3>2, <3>3
  <2> QED BY <2>1, <2>2
<1> QED BY <1>1, <1>2, <1>6, <1>7 DEF RegsFit, Width

LEMMA OperandsFit ==
  ASSUME RunTyped, RegsFit, NEW kinds, Encoding(kinds)
  PROVE  /\ Widths = Current(OperandTypes(Encoded, Op))
         /\ \A j \in 1..Len(Op.operands) :
              regs[Op.operands[j]] = Width(Values(Encoded)[Op.operands[j]].elem)
<1>1. /\ pos \in 1..Len(Encoded.ops) /\ Op = Encoded.ops[pos] /\ IsFunction(Encoded)
      /\ Op.operands \in Seq(1..Len(regs))
  BY OpIs
<1>2. PICK o, t : o = Op.operands /\ t = OperandTypes(Encoded, Op)
  OBVIOUS
<1>3. PICK n \in Nat : n = Len(o) /\ DOMAIN o = 1..n
  BY <1>1, <1>2, LenProperties
<1>4. t \in Seq(Type) /\ Len(t) = n /\ \A j \in 1..n : t[j] = Values(Encoded)[o[j]]
  <2>1. /\ OperandTypes(Encoded, Op) \in Seq(Type)
        /\ Len(OperandTypes(Encoded, Op)) = Len(Op.operands)
        /\ \A j \in 1..Len(Op.operands) :
             OperandTypes(Encoded, Op)[j] = Values(Encoded)[Op.operands[j]]
    <3>1. PICK f, k : f = Encoded /\ k = pos
      OBVIOUS
    <3>2. IsFunction(f) /\ k \in 1..Len(f.ops) /\ Op = f.ops[k]
      BY <1>1, <3>1
    <3>3. /\ OperandTypes(f, f.ops[k]) \in Seq(Type)
          /\ Len(OperandTypes(f, f.ops[k])) = Len(f.ops[k].operands)
          /\ \A j \in 1..Len(f.ops[k].operands) :
               OperandTypes(f, f.ops[k])[j] = Values(f)[f.ops[k].operands[j]]
      BY <3>2, OperandsAreValues
    <3> QED BY <3>1, <3>2, <3>3, Zenon
  <2> QED BY <1>2, <1>3, <2>1
<1>5. DOMAIN t = 1..n
  BY <1>4, LenProperties
<1>6. ASSUME NEW j \in 1..n
      PROVE  regs[o[j]] = Width(Values(Encoded)[o[j]].elem) /\ regs[o[j]] = Width(t[j].elem)
  <2>1. o[j] \in 1..Len(regs)
    BY <1>1, <1>2, <1>3, ElementOfSeq
  <2>2. o[j] \in DOMAIN regs
    BY <2>1, LenProperties DEF RunTyped
  <2> QED BY <1>4, <2>2 DEF RegsFit
<1>7. Widths = Current(t)
  BY <1>2, <1>3, <1>5, <1>6 DEF Widths, Current
<1> QED BY <1>2, <1>3, <1>6, <1>7

\* The maps of terms, in the same encoding.
LEMMA SameWidths ==
  ASSUME UNCHANGED <<prog, fn, precise>>
  PROVE  /\ \A elem : Width(elem)' = Width(elem)
         /\ \A s : DeclarationOf(s)' = DeclarationOf(s)
<1>1. \A elem : Width(elem)' = Width(elem)
  BY DEF Width
<1>2. \A types : Current(types)' = Current(types)
  BY <1>1 DEF Current
<1> QED BY <1>1, <1>2 DEF DeclarationOf
LEMMA CallFits ==
  ASSUME RunTyped, MapsTyped, Separate, DeclarationsFit, RegsFit, AttrsFit, EncodeCall
  PROVE  phase' = phase /\ DeclarationsFit' /\ AttrsFit' /\ RegsFit'
<1>1. Encoding({"call"}) /\ fn \in Fns
  BY OpIs DEF EncodeCall
<1>2. /\ calleeMap' = With(calleeMap, Op.name, Declare(Op)) /\ attrs' = attrs
      /\ Len(Op.results) = 1 /\ calleeMap'[Op.name].result \in Nat
  BY CallAddsOne
<1>3. PICK sig \in Signatures(prog[fn]) : sig = SignatureOf(Encoded, Op)
  BY <1>1, CallIsKnown
<1>4. /\ sig.name = Op.name /\ sig.domain = OperandTypes(Encoded, Op) /\ sig.range = Op.results
  BY <1>3 DEF SignatureOf
<1>5. calleeMap'[Op.name] = DeclarationOf(sig)
  <2>1. CASE Op.name \in DOMAIN calleeMap
    <3>1. calleeMap'[Op.name] = calleeMap[Op.name]
      BY <1>2, <2>1 DEF With
    <3> QED BY <1>4, <2>1, <3>1 DEF DeclarationsFit
  <2>2. CASE Op.name \notin DOMAIN calleeMap
    <3>1. calleeMap'[Op.name] = Declare(Op)
      BY <1>2, <2>2 DEF With
    <3> QED BY <1>4, <3>1 DEF Declare, DeclarationOf
  <2> QED BY <2>1, <2>2
<1>6. DomainSorts(OperandTypes(Encoded, Op), Widths) = calleeMap'[Op.name].sorts
  <2>1. Widths = Current(OperandTypes(Encoded, Op))
    BY <1>1, OperandsFit
  <2> QED BY <1>4, <1>5, <2>1 DEF DeclarationOf
<1>7. PICK n \in Nat : n = calleeMap'[Op.name].result /\ n = Width(Op.results[1].elem)
  BY <1>2, <1>4, <1>5 DEF DeclarationOf
<1>8. AddResult(<<n>>)
  BY <1>6, <1>7, Zenon DEF EncodeCall
<1>9. UNCHANGED <<prog, fn, phase, precise>>
  BY <1>8 DEF AddResult
<1>10. RegsFit'
  <2>1. <<n>> \in Seq(Nat) /\ Len(<<n>>) = 1 /\ <<n>>[1] = n
    BY OneNumber
  <2> QED BY <1>1, <1>2, <1>7, <1>8, <2>1, AddFits
<1>11. ASSUME NEW s \in Signatures(prog[fn]), s.name \in DOMAIN calleeMap'
       PROVE  Len(s.range) = 1 /\ calleeMap'[s.name] = DeclarationOf(s)
  <2>1. CASE s.name \in DOMAIN calleeMap
    <3>1. calleeMap'[s.name] = calleeMap[s.name]
      BY <1>2, <2>1 DEF With
    <3> QED BY <2>1, <3>1 DEF DeclarationsFit
  <2>2. CASE s.name \notin DOMAIN calleeMap
    <3>1. s.name = Op.name
      BY <1>2, <1>11, <2>2 DEF With
    <3>2. s = sig
      BY <1>4, <3>1 DEF Separate, SameSignatures
    <3> QED BY <1>2, <1>4, <1>5, <3>1, <3>2
  <2> QED BY <2>1, <2>2
<1>12. DeclarationsFit'
  <2>1. \A s : DeclarationOf(s)' = DeclarationOf(s)
    BY <1>9, SameWidths
  <2> QED BY <1>9, <1>11, <2>1 DEF DeclarationsFit
<1>13. AttrsFit'
  <2>1. \A elem : Width(elem)' = Width(elem)
    BY <1>9, SameWidths
  <2> QED BY <1>2, <1>9, <2>1 DEF AttrsFit
<1> QED BY <1>9, <1>10, <1>12, <1>13

LEMMA BigConstFits ==
  ASSUME RunTyped, MapsTyped, DeclarationsFit, RegsFit, AttrsFit, EncodeBigConst
  PROVE  phase' = phase /\ DeclarationsFit' /\ AttrsFit' /\ RegsFit'
<1>1. /\ Encoding({"bigConst"}) /\ AddResult(<<attrs'[Op.name]>>) /\ calleeMap' = calleeMap
      /\ attrs' = With(attrs, Op.name, Width(Op.results[1].elem))
  BY DEF EncodeBigConst
<1>2. fn \in Fns /\ Len(Op.results) = 1 /\ Op \in BigConsts(prog[fn])
  <2>1. fn \in Fns /\ Op \in Range(Encoded.ops) /\ Op.kind = "bigConst" /\ Len(Op.results) = 1
    BY <1>1, OpIs
  <2>2. Encoded \in {prog[fn].src, prog[fn].tgt}
    BY <2>1, FunctionsAre DEF Src, Tgt
  <2> QED BY <2>1, <2>2 DEF BigConsts
<1>3. \A op \in BigConsts(prog[fn]) : op.name = Op.name => op.results = Op.results
  BY <1>2, FunctionsAre DEF IsPair
<1>4. PICK w \in Nat : w = Width(Op.results[1].elem)
  BY <1>2, FunctionsAre
<1>5. UNCHANGED <<prog, fn, phase, precise>>
  BY <1>1 DEF AddResult
<1>6. \A elem : Width(elem)' = Width(elem)
  BY <1>5, SameWidths
<1>7. attrs'[Op.name] = w
  <2>1. CASE Op.name \in DOMAIN attrs
    <3>1. attrs'[Op.name] = attrs[Op.name]
      BY <1>1, <2>1 DEF With
    <3> QED BY <1>2, <1>4, <2>1, <3>1 DEF AttrsFit
  <2>2. CASE Op.name \notin DOMAIN attrs
    BY <1>1, <1>4, <2>2 DEF With
  <2> QED BY <2>1, <2>2
<1>8. RegsFit'
  <2>1. <<w>> \in Seq(Nat) /\ Len(<<w>>) = 1 /\ <<w>>[1] = w
    BY OneNumber
  <2> QED BY <1>1, <1>2, <1>4, <1>7, <2>1, AddFits
<1>9. ASSUME NEW op \in BigConsts(prog[fn]), op.name \in DOMAIN attrs'
      PROVE  attrs'[op.name] = Width(op.results[1].elem)
  <2>1. CASE op.name \in DOMAIN attrs
    <3>1. attrs'[op.name] = attrs[op.name]
      BY <1>1, <2>1 DEF With
    <3> QED BY <2>1, <3>1 DEF AttrsFit
  <2>2. CASE op.name \notin DOMAIN attrs
    <3>1. op.name = Op.name
      BY <1>1, <1>9, <2>2 DEF With
    <3> QED BY <1>3, <1>4, <1>7, <3>1
  <2> QED BY <2>1, <2>2
<1>10. AttrsFit'
  BY <1>5, <1>6, <1>9 DEF AttrsFit
<1>11. DeclarationsFit'
  <2>1. \A s : DeclarationOf(s)' = DeclarationOf(s)
    BY <1>5, SameWidths
  <2> QED BY <1>1, <1>5, <2>1 DEF DeclarationsFit
<1> QED BY <1>5, <1>8, <1>10, <1>11

LEMMA MapsFitStill ==
  ASSUME DeclarationsFit, AttrsFit, UNCHANGED <<prog, fn, precise, calleeMap, attrs>>
  PROVE  DeclarationsFit' /\ AttrsFit'
<1>1. \A elem : Width(elem)' = Width(elem)
  BY SameWidths
<1>2. \A s : DeclarationOf(s)' = DeclarationOf(s)
  BY SameWidths
<1> QED BY <1>1, <1>2 DEF DeclarationsFit, AttrsFit

LEMMA MoveFits ==
  ASSUME RunTyped, DeclarationsFit, RegsFit, AttrsFit, EncodeMove
  PROVE  phase' = phase /\ DeclarationsFit' /\ AttrsFit' /\ RegsFit'
<1>1. Encoding({"move"}) /\ AddResult(<<regs[Op.operands[1]]>>) /\ UNCHANGED <<calleeMap, attrs>>
  BY DEF EncodeMove
<1>2. UNCHANGED <<prog, fn, phase, precise>>
  BY <1>1 DEF AddResult
<1>3. /\ pos \in DOMAIN Encoded.ops /\ Op = Encoded.ops[pos] /\ Op.kind = "move"
      /\ IsFunction(Encoded) /\ Op.operands \in Seq(1..Len(regs)) /\ Len(Op.results) = 1
  <2>1. /\ pos \in 1..Len(Encoded.ops) /\ Op = Encoded.ops[pos] /\ Op.kind \in {"move"}
        /\ IsFunction(Encoded) /\ Op.operands \in Seq(1..Len(regs))
        /\ Op.kind \in {"bigConst", "move"} => Len(Op.results) = 1
    BY <1>1, OpIs
  <2>2. DOMAIN Encoded.ops = 1..Len(Encoded.ops)
    BY <2>1, ResultsAreSequences
  <2> QED BY <2>1, <2>2
<1>4. Len(Op.operands) >= 1 /\ Op.results[1].elem = Values(Encoded)[Op.operands[1]].elem
  BY <1>3 DEF IsFunction
<1>5. PICK o : o = Op.operands
  OBVIOUS
<1>6. 1 \in 1..Len(o) /\ o[1] \in 1..Len(regs)
  <2>1. Len(o) \in Nat /\ Len(o) >= 1
    BY <1>3, <1>4, <1>5, LenProperties
  <2> QED BY <1>3, <1>5, <2>1, ElementOfSeq
<1>7. PICK n \in Nat : n = regs[o[1]]
  BY <1>6, ElementOfSeq DEF RunTyped
<1>8. n = Width(Op.results[1].elem)
  BY <1>1, <1>4, <1>5, <1>6, <1>7, OperandsFit
<1>9. RegsFit'
  <2>1. <<n>> \in Seq(Nat) /\ Len(<<n>>) = 1 /\ <<n>>[1] = n
    BY OneNumber
  <2>2. AddResult(<<n>>)
    BY <1>1, <1>5, <1>7
  <2> QED BY <1>1, <1>3, <1>8, <2>1, <2>2, AddFits
<1> QED BY <1>1, <1>2, <1>9, MapsFitStill

LEMMA OtherFits ==
  ASSUME RunTyped, DeclarationsFit, RegsFit, AttrsFit, EncodeOther
  PROVE  phase' = phase /\ DeclarationsFit' /\ AttrsFit' /\ RegsFit'
<1>1. Encoding(Kind \ {"call", "bigConst", "move"}) /\ UNCHANGED <<calleeMap, attrs>>
  BY DEF EncodeOther
<1>2. Widths = Current(OperandTypes(Encoded, Op))
  BY <1>1, OperandsFit
<1>3. AddResult(Current(Op.results))
  BY <1>2, Zenon DEF EncodeOther
<1>4. UNCHANGED <<prog, fn, phase, precise>>
  BY <1>3 DEF AddResult
<1>5. PICK r \in Seq(Type), w \in Seq(Nat) :
        r = Op.results /\ w = Current(Op.results) /\ Len(w) = Len(r) /\ w = Current(r)
  BY <1>1, OpIs, CurrentIs
<1>6. Len(w) = 1 => w[1] = Width(r[1].elem)
  <2>1. Len(r) = 1 => 1 \in DOMAIN r
    BY <1>5, LenProperties
  <2> QED BY <1>5, <2>1 DEF Current
<1>7. RegsFit'
  BY <1>1, <1>3, <1>5, <1>6, AddFits
<1> QED BY <1>1, <1>4, <1>7, MapsFitStill

LEMMA FitsStay ==
  ASSUME RunTyped, MapsTyped, CalleesAreCalled, AllFit, [Next]_vars
  PROVE  AllFit'
<1>1. CASE phase' = "analyze"
  BY <1>1 DEF AllFit, Running
<1>2. CASE RejectFunction \/ RejectSignature \/ FinishFunction \/ CallUnsupported
  BY <1>1, <1>2 DEF RejectFunction, RejectSignature, FinishFunction, CallUnsupported,
                    Unsupported, NextFunction
<1>3. CASE StartFunction
  <2>1. /\ phase = "analyze" /\ fn \in Fns /\ Src.args = Tgt.args /\ attrs' = <<>>
        /\ UNCHANGED <<prog, fn, calleeMap>> /\ StartEncoding("src", FALSE)
    BY <1>3 DEF StartFunction
  <2>2. phase' = "src" /\ Separate' = Separate
    BY <2>1 DEF StartEncoding, Separate
  <2>3. RegsFit'
    BY <2>1, StartFits
  <2>4. ASSUME Separate PROVE DeclarationsFit' /\ AttrsFit'
    <3>1. ASSUME NEW s \in Signatures(prog[fn]), s.name \in DOMAIN calleeMap PROVE FALSE
      <4>1. PICK f \in Fns : f < fn /\ s.name \in Callees(prog[f])
        BY <2>1, <3>1 DEF CalleesAreCalled
      <4>2. f \in 1..(fn - 1)
        BY <2>1, <4>1, SharedTermsOK DEF Fns
      <4>3. s.name \in Callees(prog[fn])
        BY DEF Callees
      <4> QED BY <2>4, <4>1, <4>2, <4>3 DEF Separate
    <3>2. DeclarationsFit'
      BY <2>1, <3>1 DEF DeclarationsFit
    <3>3. AttrsFit'
      <4>1. DOMAIN attrs' = {}
        BY <2>1
      <4> QED BY <4>1 DEF AttrsFit
    <3> QED BY <3>2, <3>3
  <2> QED BY <2>2, <2>3, <2>4 DEF AllFit
<1>4. CASE StartTarget \/ NextRound \/ StartAlwaysUB
  <2>1. /\ AtEnd /\ UNCHANGED <<prog, fn, calleeMap, attrs>>
        /\ \E new \in {"src", "tgt", "alwaysub"} : \E p : StartEncoding(new, p)
    BY <1>4 DEF StartTarget, NextRound, StartAlwaysUB
  <2>2. PICK new \in {"src", "tgt", "alwaysub"} : \E p : StartEncoding(new, p)
    BY <2>1
  <2>3. PICK p : StartEncoding(new, p)
    BY <2>2
  <2>4. Running /\ fn \in Fns /\ Src.args = Tgt.args
    BY <2>1 DEF AtEnd, Running, RunTyped
  <2>5. phase' = new /\ Separate' = Separate
    BY <2>1, <2>3 DEF StartEncoding, Separate
  <2>6. RegsFit'
    BY <2>1, <2>3, <2>4, StartFits
  <2>7. ASSUME Separate PROVE DeclarationsFit' /\ AttrsFit'
    <3>1. DeclarationsFit /\ AttrsFit /\ SharesFloatsOnly(prog[fn])
      BY <2>4, <2>7 DEF AllFit, Separate
    <3> QED BY <2>1, <2>4, <3>1, RestartFits
  <2> QED BY <2>5, <2>6, <2>7 DEF AllFit
<1>5. CASE EncodeCall \/ EncodeBigConst \/ EncodeMove \/ EncodeOther
  <2>1. PICK kinds : Encoding(kinds)
    BY <1>5 DEF EncodeCall, EncodeBigConst, EncodeMove, EncodeOther
  <2>2. Running /\ fn \in Fns
    BY <2>1, OpIs
  <2>3. UNCHANGED <<prog, fn>>
    BY <1>5, CallAddsOne DEF EncodeCall, EncodeBigConst, EncodeMove, EncodeOther, AddResult, Abort
  <2>4. Separate' = Separate
    BY <2>3 DEF Separate
  <2>5. ASSUME Separate
        PROVE  phase' = phase /\ DeclarationsFit' /\ AttrsFit' /\ RegsFit'
    <3>1. DeclarationsFit /\ AttrsFit /\ RegsFit
      BY <2>2, <2>5 DEF AllFit
    <3> QED BY <1>5, <2>5, <3>1, CallFits, BigConstFits, MoveFits, OtherFits
  <2> QED BY <2>2, <2>4, <2>5 DEF AllFit, Running
<1>6. CASE UNCHANGED vars
  BY <1>6 DEF vars, AllFit, Separate, Running, DeclarationsFit, DeclarationOf, Current, Width,
              AttrsFit, RegsFit, Encoded, Src, Tgt
<1> QED
  BY <1>2, <1>3, <1>4, <1>5, <1>6 DEF Next

\* Terms that outlive an encoding fit in all later ones of the function, unless
\* they have 64 bits: no call and no large constant brings a term of a width that
\* is not that of its type, and Z3 throws nothing (DeclaredFunction::apply,
\* Tensor::fromElemsAttr).
THEOREM FloatsFit == Spec => []FloatsFitWithinFunction
<1> DEFINE Inv == RunTyped /\ MapsTyped /\ CalleesAreCalled /\ AllFit
<1>1. Init => Inv
  <2> SUFFICES ASSUME Init PROVE CalleesAreCalled /\ AllFit
    BY StartsTyped
  <2>1. DOMAIN calleeMap = {} /\ phase = "analyze"
    BY DEF Init
  <2> QED BY <2>1 DEF CalleesAreCalled, AllFit, Running
<1>2. Inv /\ [Next]_vars => Inv'
  BY RunStaysTyped, MapsStayTyped, CalleesStay, FitsStay
<1>3. Inv => FloatsFitWithinFunction
  <2> SUFFICES ASSUME Inv, fn \in Fns, Separate PROVE TermsFit
    BY DEF FloatsFitWithinFunction, Separate
  <2>1. phase # "aborted" /\ (Running => RegsFit)
    BY DEF AllFit
  <2>2. phase # "analyze" => Running
    BY <2>1 DEF RunTyped, Running
  <2> QED BY <2>1, <2>2 DEF TermsFit, RegsFit
<1> HIDE DEF Inv
<1> QED BY <1>1, <1>2, <1>3, PTL DEF Spec
=============================================================================
