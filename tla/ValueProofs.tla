---------------------------- MODULE ValueProofs ----------------------------
(***************************************************************************)
(* What expressions and tensors are worth, whatever their widths, ranks    *)
(* and sizes: the shortcuts of Expr keep the value of an expression, and   *)
(* linear indices lead to the elements that indices in bounds name.        *)
(***************************************************************************)
EXTENDS BitVectors, Registers, ConstantTensors, Numbers, SequenceTheorems

-----------------------------------------------------------------------------
(* Terms. *)

IsBV(e) == e.n \in Nat \ {0} /\ e.val \in 0..(e.n - 1)
IsBool(e) == e.n = 0 /\ e.val \in {0, 1}

\* A term whose value is what its operator makes of its operands, as far as
\* the shortcuts look into terms.
HasMeaning(e) ==
  /\ e.op = "bv" => IsBV(e)
  /\ e.op = "concat" => /\ IsBV(High(e)) /\ IsBV(Low(e))
                        /\ e.n = High(e).n * Low(e).n
                        /\ e.val = High(e).val * Low(e).n + Low(e).val
  /\ e.op = "zero_extend" => IsBV(e.args[1]) /\ e.val = e.args[1].val
  /\ e.op \in {"bvurem", "bvudiv", "bvmul"} =>
       /\ IsBV(e.args[1]) /\ IsBV(e.args[2])
       /\ e.n = e.args[1].n /\ e.n = e.args[2].n
  /\ e.op = "bvurem" => e.val = URemValue(e.args[1].val, e.args[2].val)
  /\ e.op = "bvudiv" => e.val = UDivValue(e.args[1].val, e.args[2].val, e.n)
  /\ e.op = "bvmul" => e.val = (e.args[1].val * e.args[2].val) % e.n
  /\ e.op = "=" => e.val = Truth(e.args[1].val = e.args[2].val)

\* Terms with all their parts and the numerals of their widths.
AreTerms(T) ==
  /\ \A e \in T : /\ IsBV(e) \/ IsBool(e)
                  /\ HasMeaning(e)
                  /\ IsConcat(e) => High(e) \in T /\ Low(e) \in T
                  /\ e.op \in {"bvurem", "bvudiv", "bvmul"} =>
                       e.args[1] \in T /\ e.args[2] \in T
  /\ \A e \in T : \A v \in 0..(e.n - 1) : MkBV(v, e.n) \in T
  /\ Unequal[1] \in T /\ Unequal[2] \in T

\* A numeral is within its width.
LEMMA Numerals ==
  ASSUME NEW v \in Int, NEW n \in Nat \ {0}
  PROVE  /\ MkBV(v, n).n = n /\ MkBV(v, n).val = v % n /\ IsUInt(MkBV(v, n))
         /\ IsBV(MkBV(v, n))
<1>1. v % n \in 0..(n - 1)
  BY SMT
<1> QED BY <1>1 DEF MkBV, BV, IsUInt, IsBV

\* Bits put together are those of both.
LEMMA ConcatKeeps ==
  ASSUME NEW h, NEW l, IsBV(h), IsBV(l)
  PROVE  /\ IsBV(ConcatBits(h, l))
         /\ ConcatBits(h, l).n = h.n * l.n
         /\ ConcatBits(h, l).val = h.val * l.n + l.val
<1>1. h.n * l.n \in Nat \ {0} /\ h.val * l.n + l.val \in 0..(h.n * l.n - 1)
  BY Together DEF IsBV
<1> QED BY <1>1 DEF ConcatBits, BV, IsBV

\* Extraction takes the bits it is asked for, also from numerals, from one part
\* of a concatenation and from what was extended (Expr::extract).
THEOREM ExtractKeeps ==
  ASSUME NEW e, IsBV(e), HasMeaning(e), NEW size \in Nat \ {0}, NEW at \in Nat \ {0}
  PROVE  /\ Extract(e, size, at).n = size
         /\ Extract(e, size, at).val = (e.val \div at) % size
<1> DEFINE x == e.val \div at
<1>1. x \in Nat
  BY DivMod DEF IsBV
<1>2. CASE IsUInt(e)
  <2>1. size * at \in Nat \ {0}
    BY SMT
  <2>2. x % (size * at) \in Int
    BY <1>1, <2>1, DivMod
  <2>3. (x % (size * at)) % size = x % size
    BY <1>1, ModTwice
  <2> QED BY <1>2, <2>2, <2>3, Numerals DEF Extract
<1>3. CASE ~IsUInt(e) /\ IsConcat(e) /\ at = 1 /\ size = Low(e).n
  <2>1. x = e.val
    BY <1>3 DEF IsBV
  <2> DEFINE h == High(e)
             l == Low(e)
  <2>2. /\ h.val \in Nat /\ l.n \in Nat \ {0} /\ l.val \in 0..(l.n - 1)
        /\ e.val = h.val * l.n + l.val
    BY <1>3 DEF IsConcat, HasMeaning, IsBV
  <2> HIDE DEF h, l
  <2>3. (h.val * l.n + l.val) % l.n = l.val
    BY <2>2, Unique
  <2> QED BY <1>3, <2>1, <2>2, <2>3 DEF Extract, h, l
<1>4. CASE /\ ~IsUInt(e) /\ IsConcat(e) /\ ~(at = 1 /\ size = Low(e).n)
           /\ at = Low(e).n /\ size * at = e.n
  <2> DEFINE h == High(e)
             l == Low(e)
  <2>1. /\ h.n \in Nat \ {0} /\ l.n \in Nat \ {0} /\ h.val \in 0..(h.n - 1) /\ l.val \in 0..(l.n - 1)
        /\ e.n = h.n * l.n /\ e.val = h.val * l.n + l.val
    BY <1>4 DEF IsConcat, HasMeaning, IsBV
  <2>2. size * l.n = h.n * l.n
    BY <1>4, <2>1
  <2> HIDE DEF h, l
  <2>3. size = h.n
    BY <2>1, <2>2, Cancel
  <2>4. (h.val * l.n + l.val) \div l.n = h.val
    <3>1. h.val \in Nat /\ l.n \in Nat \ {0} /\ l.val \in 0..(l.n - 1)
      BY <2>1
    <3> QED BY <3>1, Unique
  <2>5. h.val % h.n = h.val
    BY <2>1, Small
  <2> QED BY <1>4, <2>1, <2>3, <2>4, <2>5 DEF Extract, h, l
<1>5. CASE /\ ~IsUInt(e) /\ ~IsConcat(e) /\ e.op = "zero_extend" /\ at = 1 /\ size = e.args[1].n
  <2>1. x = e.args[1].val
    BY <1>5 DEF HasMeaning, IsBV
  <2>2. e.args[1].val % size = e.args[1].val
    BY <1>5, Small DEF HasMeaning, IsBV
  <2> QED BY <1>5, <2>1, <2>2 DEF Extract
<1>6. CASE /\ ~IsUInt(e) /\ ~(IsConcat(e) /\ at = 1 /\ size = Low(e).n)
           /\ ~(IsConcat(e) /\ at = Low(e).n /\ size * at = e.n)
           /\ ~(e.op = "zero_extend" /\ at = 1 /\ size = e.args[1].n)
  <2>1. Extract(e, size, at) = BV("extract", size, <<e, Number(at)>>, x % size)
    BY <1>6, Zenon DEF Extract
  <2> QED BY <2>1 DEF BV
<1> QED BY <1>2, <1>3, <1>4, <1>5, <1>6 DEF IsConcat
-----------------------------------------------------------------------------
(* Division. *)

\* A remainder by a numeral, be it one, a power of two or another, is the one
\* that bvurem stands for (Expr::urem).
THEOREM URemKeeps ==
  ASSUME NEW e, IsBV(e), HasMeaning(e), NEW d, IsBV(d), e.n = d.n
  PROVE  /\ URemExpr(e, d).n = e.n
         /\ URemExpr(e, d).val = URemValue(e.val, d.val)
<1>1. CASE IsUInt(d) /\ d.val = 1
  <2>1. d.n \in Nat \ {0} /\ 0 \in Int /\ 0 \in 0..(d.n - 1) /\ e.val \in Nat
    BY DEF IsBV
  <2>2. e.val % 1 = 0 /\ 0 % d.n = 0
    BY <2>1, Small
  <2>3. MkBV(0, d.n).n = d.n /\ MkBV(0, d.n).val = 0
    BY <2>1, <2>2, Numerals
  <2>4. URemValue(e.val, d.val) = 0
    BY <1>1, <2>2 DEF URemValue
  <2> QED BY <1>1, <2>3, <2>4 DEF URemExpr
<1>2. CASE IsUInt(d) /\ d.val # 1 /\ d.val > 0 /\ e.n % d.val = 0
  <2> DEFINE k == e.n \div d.val
             h == MkBV(0, k)
             l == Extract(e, d.val, 1)
  <2>1. d.val \in Nat \ {0} /\ e.n \in Nat \ {0} /\ e.val \in Nat
    BY <1>2 DEF IsBV
  <2>2. k \in Nat /\ e.n = k * d.val
    <3>1. e.n \in Nat /\ d.val \in Nat \ {0}
      BY <2>1
    <3>2. k \in Nat /\ e.n = k * d.val + (e.n % d.val)
      BY <3>1, DivMod
    <3> HIDE DEF k
    <3> QED BY <1>2, <3>1, <3>2
  <2> HIDE DEF k
  <2>3. k \in Nat \ {0}
    BY <2>1, <2>2
  <2>4. l.n = d.val /\ l.val = (e.val \div 1) % d.val
    BY <2>1, ExtractKeeps
  <2>5. e.val \div 1 = e.val
    BY <2>1
  <2>6. e.val % d.val \in 0..(d.val - 1)
    BY <2>1, DivMod
  <2>7. IsBV(l)
    BY <2>1, <2>4, <2>5, <2>6 DEF IsBV
  <2>8. IsBV(h) /\ h.n = k /\ h.val = 0
    <3>1. 0 % k = 0
      BY <2>3, Small
    <3> QED BY <2>3, <3>1, Numerals
  <2> HIDE DEF h, l
  <2>9. /\ ConcatBits(h, l).n = k * d.val
        /\ ConcatBits(h, l).val = 0 * d.val + (e.val % d.val)
    BY <2>4, <2>5, <2>7, <2>8, ConcatKeeps
  <2>10. URemExpr(e, d) = ConcatBits(h, l)
    BY <1>2 DEF URemExpr, h, l, k
  <2>11. 0 * d.val + (e.val % d.val) = e.val % d.val
    BY <2>1, <2>6
  <2> QED BY <2>1, <2>2, <2>9, <2>10, <2>11 DEF URemValue
<1>3. CASE ~(IsUInt(d) /\ d.val = 1) /\ ~(IsUInt(d) /\ d.val > 0 /\ e.n % d.val = 0)
  <2>1. CASE IsUInt(e) /\ IsUInt(d) /\ d.val # 0
    <3> DEFINE r == e.val % d.val
    <3>0. e.val \in Nat /\ d.val \in Nat \ {0} /\ d.val \in 0..(d.n - 1) /\ d.n \in Nat \ {0}
      BY <2>1 DEF IsBV
    <3>1. r \in 0..(d.val - 1)
      BY <3>0, DivMod
    <3>2. URemExpr(e, d) = MkBV(r, d.n)
      BY <1>3, <2>1, Zenon DEF URemExpr
    <3> HIDE DEF r
    <3>3. r \in Int /\ r \in 0..(d.n - 1)
      BY <3>0, <3>1
    <3>4. r % d.n = r
      BY <3>0, <3>3, Small
    <3>5. MkBV(r, d.n).n = d.n /\ MkBV(r, d.n).val = r
      BY <3>0, <3>3, <3>4, Numerals
    <3>6. URemValue(e.val, d.val) = r
      BY <2>1 DEF URemValue, r
    <3> QED BY <3>2, <3>5, <3>6
  <2>2. CASE ~(IsUInt(e) /\ IsUInt(d) /\ d.val # 0)
    <3>1. URemExpr(e, d) = BV("bvurem", e.n, <<e, d>>, URemValue(e.val, d.val))
      BY <1>3, <2>2, Zenon DEF URemExpr
    <3> QED BY <3>1 DEF BV
  <2> QED BY <2>1, <2>2
<1> QED BY <1>1, <1>2, <1>3 DEF IsBV

\* A quotient is the one that bvudiv stands for (Expr::udiv).
THEOREM UDivKeeps ==
  ASSUME NEW e, IsBV(e), HasMeaning(e), NEW d, IsBV(d), e.n = d.n
  PROVE  /\ UDivExpr(e, d).n = e.n
         /\ UDivExpr(e, d).val = UDivValue(e.val, d.val, e.n)
<1>1. CASE IsUInt(d) /\ d.val = 1
  BY <1>1 DEF UDivExpr, UDivValue, IsBV
<1>2. CASE IsUInt(d) /\ d.val # 1 /\ d.val > 0 /\ e.n % d.val = 0
  <2> DEFINE k == e.n \div d.val
             q == e.val \div d.val
             h == MkBV(0, d.val)
             l == Extract(e, k, d.val)
  <2>1. d.val \in Nat \ {0} /\ e.n \in Nat \ {0} /\ e.val \in 0..(e.n - 1)
    BY <1>2 DEF IsBV
  <2>2. k \in Nat /\ e.n = k * d.val
    <3>1. e.n \in Nat /\ d.val \in Nat \ {0}
      BY <2>1
    <3>2. k \in Nat /\ e.n = k * d.val + (e.n % d.val)
      BY <3>1, DivMod
    <3> HIDE DEF k
    <3> QED BY <1>2, <3>1, <3>2
  <2>3. UDivExpr(e, d) = ConcatBits(h, l)
    BY <1>2 DEF UDivExpr
  <2> HIDE DEF k
  <2>4. k \in Nat \ {0}
    BY <2>1, <2>2
  <2>5. q \in 0..(k - 1)
    <3>1. d.val \in Nat \ {0} /\ e.val \in 0..(k * d.val - 1)
      BY <2>1, <2>2
    <3> QED BY <2>4, <3>1, QuotientFits
  <2> HIDE DEF q
  <2>6. q % k = q
    BY <2>4, <2>5, Small
  <2>7. l.n = k /\ l.val = q
    BY <2>1, <2>4, <2>6, ExtractKeeps DEF q
  <2>8. IsBV(l)
    BY <2>4, <2>5, <2>7 DEF IsBV
  <2>9. IsBV(h) /\ h.n = d.val /\ h.val = 0
    <3>1. 0 \in Int /\ 0 \in 0..(d.val - 1) /\ d.val \in Nat \ {0}
      BY <2>1
    <3>2. 0 % d.val = 0
      BY <3>1, Small
    <3> QED BY <3>1, <3>2, Numerals
  <2> HIDE DEF h, l
  <2>10. ConcatBits(h, l).n = d.val * k /\ ConcatBits(h, l).val = 0 * k + q
    BY <2>7, <2>8, <2>9, ConcatKeeps
  <2>11. d.val * k = e.n /\ 0 * k + q = q
    BY <2>1, <2>2, <2>4, <2>5
  <2>12. UDivValue(e.val, d.val, e.n) = q
    BY <1>2 DEF UDivValue, q
  <2> QED BY <2>3, <2>10, <2>11, <2>12
<1>3. CASE ~(IsUInt(d) /\ d.val = 1) /\ ~(IsUInt(d) /\ d.val > 0 /\ e.n % d.val = 0)
  <2>1. CASE IsUInt(e) /\ IsUInt(d) /\ d.val # 0
    <3> DEFINE q == e.val \div d.val
    <3>1. e.val \in 0..(e.n - 1) /\ e.n \in Nat \ {0} /\ d.val \in Nat \ {0}
      BY <2>1 DEF IsBV
    <3>2. q \in Nat /\ q <= e.val
      BY <3>1, SMT
    <3>3. UDivExpr(e, d) = MkBV(q, d.n)
      BY <1>3, <2>1, Zenon DEF UDivExpr
    <3>4. UDivValue(e.val, d.val, e.n) = q
      BY <2>1 DEF UDivValue
    <3> HIDE DEF q
    <3>5. q \in Int /\ q \in 0..(e.n - 1)
      BY <3>1, <3>2
    <3>6. q % e.n = q
      BY <3>1, <3>5, Small
    <3>7. MkBV(q, d.n).n = d.n /\ MkBV(q, d.n).val = q
      BY <3>1, <3>5, <3>6, Numerals
    <3> QED BY <3>3, <3>4, <3>7
  <2>2. CASE ~(IsUInt(e) /\ IsUInt(d) /\ d.val # 0)
    <3>1. UDivExpr(e, d) = BV("bvudiv", e.n, <<e, d>>, UDivValue(e.val, d.val, e.n))
      BY <1>3, <2>2, Zenon DEF UDivExpr
    <3> QED BY <3>1 DEF BV
  <2> QED BY <2>1, <2>2
<1> QED BY <1>1, <1>2, <1>3 DEF IsBV

-----------------------------------------------------------------------------
(* Comparisons. *)

\* Numbers with equal high bits are ordered by their low bits.
LEMMA LowBitsDecide ==
  ASSUME NEW h \in Nat, NEW k \in Nat, NEW n \in Nat \ {0}, NEW a \in 0..(n - 1), NEW b \in 0..(n - 1)
  PROVE  /\ h * n + a < h * n + b <=> a < b
         /\ h * n + a = k * n + b <=> h = k /\ a = b
<1>1. h * n + a < h * n + b <=> a < b
  <2>1. h * n \in Nat
    BY SMT
  <2> QED BY <2>1, SMT
<1>2. (h * n + a) \div n = h /\ (k * n + b) \div n = k
  BY Unique
<1>3. (h * n + a) % n = a /\ (k * n + b) % n = b
  BY Unique
<1> QED BY <1>1, <1>2, <1>3

\* What a concatenation is made of.
LEMMA PartsOf ==
  ASSUME NEW T, AreTerms(T), NEW e \in T, IsConcat(e)
  PROVE  /\ High(e) \in T /\ Low(e) \in T /\ IsBV(High(e)) /\ IsBV(Low(e))
         /\ High(e).n \in Nat \ {0} /\ High(e).val \in Nat
         /\ Low(e).n \in Nat \ {0} /\ Low(e).val \in 0..(Low(e).n - 1)
         /\ e.n = High(e).n * Low(e).n /\ e.val = High(e).val * Low(e).n + Low(e).val
<1>1. HasMeaning(e) /\ High(e) \in T /\ Low(e) \in T
  BY DEF AreTerms
<1>2. /\ IsBV(High(e)) /\ IsBV(Low(e)) /\ e.n = High(e).n * Low(e).n
      /\ e.val = High(e).val * Low(e).n + Low(e).val
  BY <1>1 DEF HasMeaning, IsConcat
<1> QED BY <1>1, <1>2 DEF IsBV

\* A concatenation against a numeral with the same high bits.
LEMMA ConcatAgainstNumeral ==
  ASSUME NEW T, AreTerms(T), NEW e \in T, IsConcat(e), NEW v \in Nat, v \div Low(e).n = High(e).val,
         NEW k, k = MkBV(v - High(e).val * Low(e).n, Low(e).n)
  PROVE  /\ k \in T /\ IsBV(k) /\ k.n = Low(e).n
         /\ e.val < v <=> Low(e).val < k.val
         /\ v < e.val <=> k.val < Low(e).val
         /\ e.val = v <=> Low(e).val = k.val
<1> DEFINE h == High(e).val
           n == Low(e).n
           l == Low(e).val
           r == v - h * n
<1>1. h \in Nat /\ n \in Nat \ {0} /\ l \in 0..(n - 1) /\ e.val = h * n + l
  BY PartsOf
<1>2. v \div n = h /\ k = MkBV(r, n)
  OBVIOUS
<1> HIDE DEF h, n, l
<1>3. r \in 0..(n - 1) /\ v = h * n + r /\ k.n = n /\ k.val = r /\ IsUInt(k) /\ IsBV(k)
  <2> DEFINE q == v \div n
             low == v % n
             m == h * n
  <2>1. low \in 0..(n - 1) /\ v = q * n + low
    BY ONLY v \in Nat, <1>1, DivMod
  <2>2. m \in Nat
    BY ONLY <1>1, SMT
  <2>3. q = h /\ r = v - m /\ k = MkBV(r, n)
    BY <1>2
  <2> HIDE DEF q, low, r
  <2>4. v = m + low
    BY <2>1, <2>3, Zenon
  <2> HIDE DEF m
  <2>5. low = r
    BY ONLY <1>1, <2>1, <2>2, <2>3, <2>4, v \in Nat, SMT
  <2>6. r % n = r /\ r \in Int
    BY ONLY <1>1, <2>1, <2>5, Small, SMT
  <2>7. r \in 0..(n - 1) /\ v = h * n + r
    BY <2>1, <2>4, <2>5, Zenon DEF m
  <2>8. MkBV(r, n).n = n /\ MkBV(r, n).val = r /\ IsUInt(MkBV(r, n)) /\ IsBV(MkBV(r, n))
    BY ONLY <1>1, <2>6, Numerals
  <2> QED
    BY <2>3, <2>7, <2>8
<1> HIDE DEF r
<1>4. k \in T
  <2>1. Low(e) \in T /\ r \in 0..(Low(e).n - 1) /\ k = MkBV(r, Low(e).n)
    BY <1>2, <1>3, PartsOf DEF n
  <2> QED
    BY <2>1 DEF AreTerms
<1>5. /\ h * n + l < h * n + r <=> l < r
      /\ h * n + r < h * n + l <=> r < l
      /\ h * n + l = h * n + r <=> l = r
  BY <1>1, <1>3, LowBitsDecide
<1> QED BY <1>1, <1>3, <1>4, <1>5 DEF l, n

\* Each narrowing of a comparison keeps its answer and is one between terms of
\* one width (Expr::ult).
LEMMA NarrowUltKeeps ==
  ASSUME NEW T, AreTerms(T), NEW a \in T, NEW b \in T, IsBV(a), IsBV(b), a.n = b.n,
         NEW p, p = NarrowUlt(a, b)
  PROVE  /\ p[1] \in T /\ p[2] \in T /\ IsBV(p[1]) /\ IsBV(p[2]) /\ p[1].n = p[2].n
         /\ p[1].val < p[2].val <=> a.val < b.val
<1> DEFINE done == (IsUInt(a) /\ IsUInt(b)) \/ IsRemainderBelow(a, b)
           both == IsConcat(a) /\ IsConcat(b) /\ High(a) = High(b)
           left == /\ IsConcat(a) /\ IsUInt(High(a)) /\ IsUInt(b)
                   /\ b.val \div Low(a).n = High(a).val
           right == /\ IsConcat(b) /\ IsUInt(a) /\ IsUInt(High(b))
                    /\ a.val \div Low(b).n = High(b).val
<1>1. CASE p = <<a, b>>
  BY <1>1
<1>2. CASE ~done /\ both
  <2> DEFINE h == High(a).val
             n == Low(a).n
             x == Low(a).val
             y == Low(b).val
  <2>1. Low(a).n = Low(b).n
    <3>1. /\ High(a).n \in Nat \ {0} /\ Low(a).n \in Nat /\ Low(b).n \in Nat
          /\ High(a).n * Low(a).n = High(a).n * Low(b).n
      BY <1>2, PartsOf
    <3>2. Low(a).n * High(a).n = Low(b).n * High(a).n
      BY <3>1
    <3> QED BY <3>1, <3>2, Cancel
  <2>2. /\ h \in Nat /\ n \in Nat \ {0} /\ x \in 0..(n - 1) /\ y \in 0..(n - 1)
        /\ a.val = h * n + x /\ b.val = h * n + y
    BY <1>2, <2>1, PartsOf
  <2>3. Low(a) \in T /\ Low(b) \in T /\ IsBV(Low(a)) /\ IsBV(Low(b))
    BY <1>2, PartsOf
  <2>4. p = <<Low(a), Low(b)>>
    BY <1>2, Zenon DEF NarrowUlt
  <2> HIDE DEF h, n
  <2>5. h * n + x < h * n + y <=> x < y
    <3> HIDE DEF x, y
    <3> QED BY <2>2, LowBitsDecide
  <2> QED BY <2>1, <2>2, <2>3, <2>4, <2>5
<1>3. CASE ~done /\ ~both /\ left
  <2> DEFINE k == MkBV(b.val - High(a).val * Low(a).n, Low(a).n)
  <2>1. b.val \in Nat
    BY DEF IsBV
  <2>2. k \in T /\ IsBV(k) /\ k.n = Low(a).n /\ (a.val < b.val <=> Low(a).val < k.val)
    BY <1>3, <2>1, ConcatAgainstNumeral
  <2>3. p = <<Low(a), k>>
    BY <1>3, Zenon DEF NarrowUlt
  <2>4. Low(a) \in T /\ IsBV(Low(a))
    BY <1>3, PartsOf
  <2> HIDE DEF k
  <2> QED BY <2>2, <2>3, <2>4
<1>4. CASE ~done /\ ~both /\ ~left /\ right
  <2> DEFINE k == MkBV(a.val - High(b).val * Low(b).n, Low(b).n)
  <2>1. a.val \in Nat
    BY DEF IsBV
  <2>2. k \in T /\ IsBV(k) /\ k.n = Low(b).n /\ (a.val < b.val <=> k.val < Low(b).val)
    BY <1>4, <2>1, ConcatAgainstNumeral
  <2>3. p = <<k, Low(b)>>
    BY <1>4, Zenon DEF NarrowUlt
  <2>4. Low(b) \in T /\ IsBV(Low(b))
    BY <1>4, PartsOf
  <2> HIDE DEF k
  <2> QED BY <2>2, <2>3, <2>4
<1>5. CASE done \/ (~both /\ ~left /\ ~right)
  <2>1. p = <<a, b>>
    BY <1>5, Zenon DEF NarrowUlt
  <2> QED BY <1>1, <2>1
<1> QED BY <1>2, <1>3, <1>4, <1>5

\* What is left is compared as numbers, unless it is the remainder of a
\* division by the numeral zero, which the rule for remainders takes for less
\* than anything (Expr::ult).
LEMMA UltExprKeeps ==
  ASSUME NEW a, NEW b, IsBV(a), IsBV(b), HasMeaning(a),
         IsRemainderBelow(a, b) => a.args[2].val # 0
  PROVE  UltExpr(a, b).val = Truth(a.val < b.val)
<1>1. CASE ~(IsUInt(a) /\ IsUInt(b)) /\ IsRemainderBelow(a, b)
  <2> DEFINE x == a.args[1].val
             d == a.args[2].val
  <2>1. x \in Nat /\ d \in Nat \ {0} /\ d <= b.val /\ b.val \in Nat
    BY <1>1 DEF IsRemainderBelow, HasMeaning, IsBV
  <2>2. a.val = URemValue(x, d)
    BY <1>1 DEF IsRemainderBelow, HasMeaning
  <2> HIDE DEF x, d
  <2>3. a.val = x % d
    BY <2>1, <2>2 DEF URemValue
  <2>4. x % d \in 0..(d - 1)
    BY <2>1, DivMod
  <2>5. a.val < b.val
    BY <2>1, <2>3, <2>4
  <2>6. UltExpr(a, b) = Bool(TRUE)
    BY <1>1, Zenon DEF UltExpr
  <2> QED BY <2>5, <2>6 DEF Bool, BV, Truth
<1>2. CASE (IsUInt(a) /\ IsUInt(b)) \/ ~IsRemainderBelow(a, b)
  BY <1>2 DEF UltExpr, Bool, BV, Truth
<1> QED BY <1>1, <1>2

\* Equality of concatenations is that of the parts that differ, and false where
\* numerals do (Expr::operator==).
LEMMA NarrowEqKeeps ==
  ASSUME NEW T, AreTerms(T), NEW a \in T, NEW b \in T, a.n = b.n, IsBV(a), IsBV(b),
         NEW p, p = NarrowEq(a, b)
  PROVE  /\ p[1] \in T /\ p[2] \in T /\ IsBV(p[1]) /\ IsBV(p[2]) /\ p[1].n = p[2].n
         /\ p[1].val = p[2].val <=> a.val = b.val
<1> DEFINE done == a = b \/ (IsUInt(a) /\ IsUInt(b)) \/ ~IsConcat(a)
           both == IsConcat(b) /\ Low(a).n = Low(b).n
           lows == both /\ IsUInt(Low(a)) /\ IsUInt(Low(b))
           highs == both /\ IsUInt(High(a)) /\ IsUInt(High(b))
           left == IsUInt(High(a)) /\ IsUInt(b)
           h == High(a).val
           k == High(b).val
           x == Low(a).val
           y == Low(b).val
           n == Low(a).n
<1>1. CASE p = <<a, b>>
  BY <1>1
<1>2. CASE p = Unequal /\ a.val # b.val
  <2>1. /\ 0 % 2 = 0 /\ 1 % 2 = 1 /\ 0 \in Int /\ 1 \in Int /\ 2 \in Nat \ {0}
    BY SMT
  <2>2. /\ IsBV(MkBV(0, 2)) /\ IsUInt(MkBV(0, 2)) /\ MkBV(0, 2).n = 2 /\ MkBV(0, 2).val = 0
        /\ IsBV(MkBV(1, 2)) /\ IsUInt(MkBV(1, 2)) /\ MkBV(1, 2).n = 2 /\ MkBV(1, 2).val = 1
    BY <2>1, Numerals
  <2>3. MkBV(0, 2) \in T /\ MkBV(1, 2) \in T
    BY DEF AreTerms, Unequal
  <2> QED BY <1>2, <2>2, <2>3 DEF Unequal
<1>3. ASSUME ~done, both
      PROVE  /\ a.val = b.val <=> h = k /\ x = y
             /\ High(a) \in T /\ High(b) \in T /\ IsBV(High(a)) /\ IsBV(High(b))
             /\ Low(a) \in T /\ Low(b) \in T /\ IsBV(Low(a)) /\ IsBV(Low(b))
             /\ High(a).n = High(b).n
  <2>1. /\ h \in Nat /\ k \in Nat /\ n \in Nat \ {0} /\ x \in 0..(n - 1) /\ y \in 0..(n - 1)
        /\ a.val = h * n + x /\ b.val = k * n + y
    BY <1>3, PartsOf
  <2>2. /\ High(a).n \in Nat /\ High(b).n \in Nat
        /\ High(a).n * n = High(b).n * n
    BY <1>3, PartsOf
  <2>3. /\ High(a) \in T /\ High(b) \in T /\ IsBV(High(a)) /\ IsBV(High(b))
        /\ Low(a) \in T /\ Low(b) \in T /\ IsBV(Low(a)) /\ IsBV(Low(b))
    BY <1>3, PartsOf
  <2> HIDE DEF h, k, n, x, y
  <2>4. h * n + x = k * n + y <=> h = k /\ x = y
    BY <2>1, LowBitsDecide
  <2>5. High(a).n = High(b).n
    BY <2>1, <2>2, Cancel
  <2> QED BY <2>1, <2>3, <2>4, <2>5
<1>4. CASE ~done /\ lows
  <2>1. p = IF x # y THEN Unequal ELSE <<High(a), High(b)>>
    BY <1>4, Zenon DEF NarrowEq
  <2> QED BY <1>2, <1>3, <1>4, <2>1
<1>5. CASE ~done /\ ~lows /\ highs
  <2>1. p = IF h # k THEN Unequal ELSE <<Low(a), Low(b)>>
    BY <1>5, Zenon DEF NarrowEq
  <2> QED BY <1>2, <1>3, <1>5, <2>1
<1>6. CASE ~done /\ ~lows /\ ~highs /\ left
  <2> DEFINE r == MkBV(b.val - h * n, n)
  <2>1. b.val \in Nat /\ IsConcat(a)
    BY <1>6 DEF IsBV
  <2>2. p = IF b.val \div n # h THEN Unequal ELSE <<Low(a), r>>
    BY <1>6, Zenon DEF NarrowEq
  <2>3. CASE b.val \div n = h
    <3>1. r \in T /\ IsBV(r) /\ r.n = n /\ (a.val = b.val <=> x = r.val)
      BY <2>1, <2>3, ConcatAgainstNumeral
    <3>2. Low(a) \in T /\ IsBV(Low(a))
      BY <2>1, PartsOf
    <3> HIDE DEF r
    <3> QED BY <2>2, <2>3, <3>1, <3>2
  <2>4. CASE b.val \div n # h
    <3>1. h \in Nat /\ n \in Nat \ {0} /\ x \in 0..(n - 1) /\ a.val = h * n + x
      BY <2>1, PartsOf
    <3> HIDE DEF h, n, x
    <3>2. (h * n + x) \div n = h
      BY <3>1, Unique
    <3> QED BY <1>2, <2>2, <2>4, <3>1, <3>2
  <2> QED BY <2>3, <2>4
<1>7. CASE done \/ (~lows /\ ~highs /\ ~left)
  <2>1. p = <<a, b>>
    BY <1>7, Zenon DEF NarrowEq
  <2> QED BY <1>1, <2>1
<1> QED BY <1>4, <1>5, <1>6, <1>7

\* What is left is compared as terms, as numerals or not at all.
LEMMA EqExprKeeps ==
  ASSUME NEW a, NEW b
  PROVE  EqExpr(a, b).val = Truth(a.val = b.val)
  BY DEF EqExpr, Bool, BV, Truth

-----------------------------------------------------------------------------
(* Comparisons narrow their operands round by round. *)

\* One round of Expr::operator== or of Expr::ult.
Narrow(eq, p) == IF eq THEN NarrowEq(p[1], p[2]) ELSE NarrowUlt(p[1], p[2])

Rounds(p, n, eq, a, b) ==
  p = [i \in 0..n |-> IF i = 0 THEN <<a, b>> ELSE Narrow(eq, p[i - 1])]

LEMMA RoundsExist ==
  ASSUME NEW n \in Nat, NEW eq, NEW a, NEW b
  PROVE  \E p : Rounds(p, n, eq, a, b)
<1> DEFINE S == {k \in Nat : \E p : Rounds(p, k, eq, a, b)}
<1>1. 0 \in S
  <2> DEFINE p == [i \in 0..0 |-> <<a, b>>]
  <2>1. Rounds(p, 0, eq, a, b)
    BY DEF Rounds
  <2> QED BY <2>1
<1>2. ASSUME NEW k \in S PROVE k + 1 \in S
  <2>1. PICK p : Rounds(p, k, eq, a, b)
    BY <1>2
  <2> DEFINE new == [i \in 0..(k + 1) |-> IF i = k + 1 THEN Narrow(eq, p[k]) ELSE p[i]]
  <2>2. ASSUME NEW i \in 0..(k + 1)
        PROVE  new[i] = IF i = 0 THEN <<a, b>> ELSE Narrow(eq, new[i - 1])
    <3>1. CASE i = 0
      BY <2>1, <3>1 DEF Rounds
    <3>2. CASE i # 0 /\ i # k + 1
      <4>1. i \in 0..k /\ i - 1 \in 0..k /\ i - 1 # k + 1 /\ i - 1 \in 0..(k + 1)
        BY <3>2
      <4>2. new[i] = p[i] /\ new[i - 1] = p[i - 1]
        BY <3>2, <4>1
      <4>3. p[i] = Narrow(eq, p[i - 1])
        BY <2>1, <3>2, <4>1 DEF Rounds
      <4> QED BY <3>2, <4>2, <4>3
    <3>3. CASE i = k + 1
      <4>1. i - 1 = k /\ k \in 0..(k + 1) /\ k # k + 1 /\ i # 0
        BY <3>3
      <4>2. new[i - 1] = p[k] /\ new[i] = Narrow(eq, p[k])
        BY <3>3, <4>1
      <4> QED BY <4>1, <4>2
    <3> QED BY <3>1, <3>2, <3>3
  <2>3. new = [i \in 0..(k + 1) |-> new[i]]
    OBVIOUS
  <2> HIDE DEF new
  <2>4. Rounds(new, k + 1, eq, a, b)
    BY <2>2, <2>3 DEF Rounds
  <2> QED BY <2>4
<1> HIDE DEF S
<1>3. S = Nat
  <2>1. S \subseteq Nat
    BY DEF S
  <2> QED BY <1>1, <1>2, <2>1, Induction
<1> QED BY <1>3 DEF S

\* Two bit vectors of one width, compared.
Alike(T, p, eq, a, b) ==
  /\ p[1] \in T /\ p[2] \in T /\ IsBV(p[1]) /\ IsBV(p[2]) /\ p[1].n = p[2].n
  /\ IF eq THEN p[1].val = p[2].val <=> a.val = b.val
           ELSE p[1].val < p[2].val <=> a.val < b.val

\* No round changes the answer.
LEMMA RoundsKeep ==
  ASSUME NEW T, AreTerms(T), NEW a \in T, NEW b \in T, IsBV(a), IsBV(b), a.n = b.n,
         NEW eq \in BOOLEAN, NEW n \in Nat, NEW p, Rounds(p, n, eq, a, b)
  PROVE  Alike(T, p[n], eq, a, b)
<1> DEFINE S == {k \in Nat : k <= n => Alike(T, p[k], eq, a, b)}
<1>1. \A i \in 0..n : p[i] = IF i = 0 THEN <<a, b>> ELSE Narrow(eq, p[i - 1])
  BY DEF Rounds
<1>2. 0 \in S
  <2>1. p[0] = <<a, b>>
    BY <1>1
  <2> QED BY <2>1 DEF Alike
<1>3. ASSUME NEW k \in S PROVE k + 1 \in S
  <2> SUFFICES ASSUME k + 1 <= n PROVE Alike(T, p[k + 1], eq, a, b)
    BY <1>3
  <2> DEFINE q == p[k]
             r == p[k + 1]
  <2>1. k \in Nat /\ k + 1 \in 0..n /\ k + 1 # 0 /\ k + 1 - 1 = k /\ k <= n
    BY <1>3
  <2>2. r = Narrow(eq, q)
    BY <1>1, <2>1
  <2>3. Alike(T, q, eq, a, b)
    BY <1>3, <2>1
  <2> HIDE DEF q, r, S
  <2>4. CASE eq
    <3>1. r = NarrowEq(q[1], q[2])
      BY <2>2, <2>4 DEF Narrow
    <3>2. Alike(T, r, TRUE, q[1], q[2])
      BY <2>3, <3>1, NarrowEqKeeps DEF Alike
    <3> QED BY <2>3, <2>4, <3>2 DEF Alike, r
  <2>5. CASE ~eq
    <3>1. r = NarrowUlt(q[1], q[2])
      BY <2>2, <2>5 DEF Narrow
    <3>2. Alike(T, r, FALSE, q[1], q[2])
      BY <2>3, <3>1, NarrowUltKeeps DEF Alike
    <3> QED BY <2>3, <2>5, <3>2 DEF Alike, r
  <2> QED BY <2>4, <2>5
<1> HIDE DEF S
<1>4. S = Nat
  <2>1. S \subseteq Nat
    BY DEF S
  <2> QED BY <1>2, <1>3, <2>1, Induction
<1> QED BY <1>4 DEF S

\* An unsigned comparison is that of the values, however its operands are
\* built, unless there is a division by the numeral zero among them: a
\* remainder by zero is taken for less than anything (Expr::ult).
THEOREM UltKeeps ==
  ASSUME NEW T, AreTerms(T), NEW a \in T, NEW b \in T, IsBV(a), IsBV(b), a.n = b.n,
         \A e \in T : e.op = "bvurem" /\ IsUInt(e.args[2]) => e.args[2].val # 0
  PROVE  Ult(a, b).val = Truth(a.val < b.val)
<1> DEFINE q == UltRounds(a, b)
<1>1. a.n \in Nat
  BY DEF IsBV
<1>2. q = CHOOSE p : Rounds(p, a.n, FALSE, a, b)
  BY DEF UltRounds, Rounds, Narrow
<1> HIDE DEF q
<1>3. Rounds(q, a.n, FALSE, a, b)
  BY <1>1, <1>2, RoundsExist
<1> DEFINE p == q[a.n]
<1>4. Alike(T, p, FALSE, a, b)
  BY <1>1, <1>3, RoundsKeep
<1>5. Ult(a, b) = UltExpr(p[1], p[2])
  BY DEF Ult, q
<1> HIDE DEF p
<1>6. HasMeaning(p[1]) /\ (IsRemainderBelow(p[1], p[2]) => p[1].args[2].val # 0)
  BY <1>4 DEF Alike, AreTerms, IsRemainderBelow
<1>7. UltExpr(p[1], p[2]).val = Truth(p[1].val < p[2].val)
  BY <1>4, <1>6, UltExprKeeps DEF Alike
<1> QED BY <1>4, <1>5, <1>7 DEF Alike, Truth

\* An equation is that of the values, however its operands are built
\* (Expr::operator==).
THEOREM EqKeeps ==
  ASSUME NEW T, AreTerms(T), NEW a \in T, NEW b \in T, IsBV(a), IsBV(b), a.n = b.n
  PROVE  Eq(a, b).val = Truth(a.val = b.val)
<1> DEFINE q == EqRounds(a, b)
<1>1. a.n \in Nat
  BY DEF IsBV
<1>2. q = CHOOSE p : Rounds(p, a.n, TRUE, a, b)
  BY DEF EqRounds, Rounds, Narrow
<1> HIDE DEF q
<1>3. Rounds(q, a.n, TRUE, a, b)
  BY <1>1, <1>2, RoundsExist
<1> DEFINE p == q[a.n]
<1>4. Alike(T, p, TRUE, a, b)
  BY <1>1, <1>3, RoundsKeep
<1>5. Eq(a, b) = EqExpr(p[1], p[2])
  BY DEF Eq, q
<1> HIDE DEF p
<1>6. EqExpr(p[1], p[2]).val = Truth(p[1].val = p[2].val)
  BY EqExprKeeps
<1> QED BY <1>4, <1>5, <1>6 DEF Alike, Truth

\* Zero is at most anything (Expr::ule).
THEOREM UleKeeps ==
  ASSUME NEW a, NEW b, IsBV(a), IsBV(b)
  PROVE  Ule(a, b).val = Truth(a.val <= b.val)
<1>1. a.val \in Nat /\ b.val \in Nat
  BY DEF IsBV
<1> QED BY <1>1 DEF Ule, Bool, BV, Truth

\* Signed comparisons are right unless two numerals narrower than the machine
\* word are compared of which one is negative and the other is not: numerals
\* are read without their sign (Expr::slt, Expr::sle, isInt).
THEOREM SignedComparisonsKeep ==
  ASSUME NEW a, NEW b, IsBV(a), IsBV(b), a.n = b.n,
         IsInt(a) /\ IsInt(b) => (2 * a.val < a.n <=> 2 * b.val < b.n)
  PROVE  /\ Slt(a, b).val = Truth(Signed(a.val, a.n) < Signed(b.val, b.n))
         /\ Sle(a, b).val = Truth(Signed(a.val, a.n) <= Signed(b.val, b.n))
<1>1. a.val \in Nat /\ b.val \in Nat /\ a.n \in Nat
  BY DEF IsBV
<1>2. CASE IsInt(a) /\ IsInt(b)
  <2>1. /\ a.val < b.val <=> Signed(a.val, a.n) < Signed(b.val, b.n)
        /\ a.val <= b.val <=> Signed(a.val, a.n) <= Signed(b.val, b.n)
    BY <1>1, <1>2 DEF Signed
  <2> QED BY <1>2, <2>1 DEF Slt, Sle, Bool, BV, Truth
<1>3. CASE ~(IsInt(a) /\ IsInt(b))
  <2>1. /\ Slt(a, b) = BV("bvslt", 0, <<a, b>>, Truth(Signed(a.val, a.n) < Signed(b.val, b.n)))
        /\ Sle(a, b) = BV("bvsle", 0, <<a, b>>, Truth(Signed(a.val, a.n) <= Signed(b.val, b.n)))
    BY <1>3, Zenon DEF Slt, Sle
  <2> QED BY <2>1 DEF BV
<1> QED BY <1>2, <1>3

\* At the width of the machine word only numerals that are not negative are read.
COROLLARY WordComparisonsKeep ==
  ASSUME NEW a, NEW b, IsBV(a), IsBV(b), a.n = Word, b.n = Word
  PROVE  Slt(a, b).val = Truth(Signed(a.val, a.n) < Signed(b.val, b.n))
<1>1. IsInt(a) /\ IsInt(b) => (2 * a.val < a.n <=> 2 * b.val < b.n)
  BY DEF IsInt
<1> QED
  BY <1>1, SignedComparisonsKeep

\* A choice by a condition, between operands that are alike under an equation
\* or that are conditions themselves (Expr::mkIte).
THEOREM IteKeeps ==
  ASSUME NEW c, NEW t, NEW e, IsBool(c), HasMeaning(c),
         IsTrue(t) \/ IsFalse(e) => IsBool(t) /\ IsBool(e)
  PROVE  Ite(c, t, e).val = IF c.val = 1 THEN t.val ELSE e.val
<1>1. c.val \in {0, 1}
  BY DEF IsBool
<1>2. CASE IsTrue(c) \/ IsFalse(c)
  BY <1>2 DEF Ite, IsTrue, IsFalse
<1>3. CASE ~IsTrue(c) /\ ~IsFalse(c) /\ IsTrue(t)
  <2>1. Ite(c, t, e) = Or(c, e)
    BY <1>3, Zenon DEF Ite
  <2>2. t.val = 1 /\ e.val \in {0, 1}
    BY <1>3 DEF IsTrue, IsBool
  <2>3. Or(c, e).val = IF c.val = 1 THEN 1 ELSE e.val
    BY <1>1, <1>3, <2>2 DEF Or, IsTrue, IsFalse, BV
  <2> QED BY <2>1, <2>2, <2>3
<1>4. CASE ~IsTrue(c) /\ ~IsFalse(c) /\ ~IsTrue(t) /\ IsFalse(e)
  <2>1. Ite(c, t, e) = And(c, t)
    BY <1>4, Zenon DEF Ite
  <2>2. e.val = 0 /\ t.val \in {0, 1}
    BY <1>4 DEF IsFalse, IsBool
  <2>3. And(c, t).val = c.val * t.val
    BY <1>1, <1>4, <2>2 DEF And, IsTrue, IsFalse, BV
  <2> QED BY <1>1, <2>1, <2>2, <2>3
<1>5. CASE /\ ~IsTrue(c) /\ ~IsFalse(c) /\ ~IsTrue(t) /\ ~IsFalse(e)
           /\ c.op = "=" /\ {c.args[1], c.args[2]} = {t, e}
  <2>1. Ite(c, t, e) = e
    BY <1>5, Zenon DEF Ite
  <2>2. c.val = Truth(c.args[1].val = c.args[2].val)
    BY <1>5 DEF HasMeaning
  <2>3. c.val = 1 => t.val = e.val
    BY <1>5, <2>2 DEF Truth
  <2> QED BY <2>1, <2>3
<1>6. CASE /\ ~IsTrue(c) /\ ~IsFalse(c) /\ ~IsTrue(t) /\ ~IsFalse(e)
           /\ ~(c.op = "=" /\ {c.args[1], c.args[2]} = {t, e})
  <2>1. Ite(c, t, e) = BV("ite", t.n, <<c, t, e>>, IF c.val = 1 THEN t.val ELSE e.val)
    BY <1>6, Zenon DEF Ite
  <2> QED BY <2>1 DEF BV
<1> QED BY <1>2, <1>3, <1>4, <1>5, <1>6

\* Differences and products of numerals, and with zero and one (operator-,
\* operator*).
THEOREM DifferencesAndProductsKeep ==
  ASSUME NEW a, NEW b, IsBV(a), IsBV(b), a.n = b.n
  PROVE  /\ Minus(a, b).val = (a.val - b.val) % a.n
         /\ Times(a, b).val = (a.val * b.val) % a.n
<1>1. a.n \in Nat \ {0} /\ a.val \in 0..(a.n - 1) /\ b.val \in 0..(a.n - 1)
  BY DEF IsBV
<1>2. a.val % a.n = a.val /\ b.val % a.n = b.val /\ 0 % a.n = 0
  BY <1>1, Small
<1>3. Minus(a, b).val = (a.val - b.val) % a.n
  BY <1>1, <1>2 DEF Minus, MkBV, BV
<1>4. Times(a, b).val = (a.val * b.val) % a.n
  <2>1. CASE IsUInt(a) /\ IsUInt(b)
    BY <2>1 DEF Times, MkBV, BV
  <2>2. CASE ~(IsUInt(a) /\ IsUInt(b)) /\ ((IsUInt(b) /\ b.val = 1) \/ (IsUInt(a) /\ a.val = 0))
    <3>1. Times(a, b) = a
      BY <2>2, Zenon DEF Times
    <3>2. a.val * b.val = a.val
      BY <1>1, <2>2
    <3> QED BY <1>2, <3>1, <3>2
  <2>3. CASE /\ ~(IsUInt(a) /\ IsUInt(b)) /\ ~((IsUInt(b) /\ b.val = 1) \/ (IsUInt(a) /\ a.val = 0))
             /\ (IsUInt(b) /\ b.val = 0) \/ (IsUInt(a) /\ a.val = 1)
    <3>1. Times(a, b) = b
      BY <2>3, Zenon DEF Times
    <3>2. a.val * b.val = b.val
      BY <1>1, <2>3
    <3> QED BY <1>2, <3>1, <3>2
  <2>4. CASE /\ ~(IsUInt(a) /\ IsUInt(b)) /\ ~((IsUInt(b) /\ b.val = 1) \/ (IsUInt(a) /\ a.val = 0))
             /\ ~((IsUInt(b) /\ b.val = 0) \/ (IsUInt(a) /\ a.val = 1))
    <3>1. Times(a, b) = BV("bvmul", a.n, <<a, b>>, (a.val * b.val) % a.n)
      BY <2>4, Zenon DEF Times
    <3> QED BY <3>1 DEF BV
  <2> QED BY <2>1, <2>2, <2>3, <2>4
<1> QED BY <1>3, <1>4

\* What is known not to equal zero is not zero.
LEMMA KnownNotZero ==
  ASSUME NEW T, AreTerms(T), NEW d \in T, IsBV(d), IsTrue(Not(Eq(d, MkBV(0, d.n))))
  PROVE  d.val # 0
<1> DEFINE zero == MkBV(0, d.n)
<1>1. d.n \in Nat \ {0} /\ 0 \in 0..(d.n - 1) /\ 0 \in Int
  BY DEF IsBV
<1>2. zero \in T
  BY <1>1 DEF AreTerms
<1>3. zero.n = d.n /\ zero.val = 0 /\ IsBV(zero)
  BY <1>1, Small, Numerals
<1> DEFINE c == Eq(d, zero)
<1>4. IsTrue(Not(c))
  OBVIOUS
<1> HIDE DEF zero
<1>5. c.val = Truth(d.val = 0)
  BY <1>2, <1>3, EqKeeps
<1> HIDE DEF c
<1>6. c.val = 0
  <2>1. ~IsTrue(Bool(FALSE)) /\ ~IsTrue(BV("not", 0, <<c>>, 1 - c.val))
    BY DEF Bool, BV, Truth, IsTrue
  <2>2. IsFalse(c)
    BY <1>4, <2>1, Zenon DEF Not
  <2> QED BY <2>2 DEF IsFalse
<1> QED BY <1>5, <1>6 DEF Truth

\* A sum, of (a / b) * b and a % b in particular, which is a where b is known
\* not to be zero (operator+).
THEOREM SumsKeep ==
  ASSUME NEW T, AreTerms(T), NEW a \in T, NEW b \in T, IsBV(a), IsBV(b), a.n = b.n
  PROVE  Plus(a, b).val = (a.val + b.val) % a.n
<1> DEFINE n == a.n
           numerals == IsUInt(a) /\ IsUInt(b)
           zeroA == IsUInt(a) /\ a.val = 0
           zeroB == IsUInt(b) /\ b.val = 0
           again == IsDivisionAgain(a, b)
<1>1. n \in Nat \ {0} /\ a.val \in 0..(n - 1) /\ b.val \in 0..(n - 1)
  BY DEF IsBV
<1>0. HasMeaning(a) /\ HasMeaning(b)
  BY DEF AreTerms
<1>2. a.val % n = a.val /\ b.val % n = b.val
  BY <1>1, Small
<1>3. CASE numerals
  BY <1>3 DEF Plus, MkBV, BV
<1>4. CASE ~numerals /\ zeroA
  <2>1. Plus(a, b) = b
    BY <1>4, Zenon DEF Plus
  <2> QED BY <1>1, <1>2, <1>4, <2>1
<1>5. CASE ~numerals /\ ~zeroA /\ zeroB
  <2>1. Plus(a, b) = a
    BY <1>5, Zenon DEF Plus
  <2> QED BY <1>1, <1>2, <1>5, <2>1
<1>6. CASE ~numerals /\ ~zeroA /\ ~zeroB /\ again
  <2> DEFINE x == b.args[1]
             d == b.args[2]
             i == IF a.args[1].op = "bvudiv" THEN 1 ELSE 2
             q == a.args[i]
  <2>1. Plus(a, b) = x
    BY <1>6, Zenon DEF Plus, Dividend
  <2>2. /\ a.op = "bvmul" /\ b.op = "bvurem" /\ q.op = "bvudiv"
        /\ a.args[3 - i] = q.args[2] /\ b.args = q.args
    BY <1>6 DEF IsDivisionAgain
  <2>3. IsBV(x) /\ IsBV(d) /\ x.n = n /\ d.n = n /\ b.val = URemValue(x.val, d.val)
    BY <1>0, <2>2 DEF HasMeaning
  <2>4. i \in {1, 2} /\ q \in T /\ d \in T /\ HasMeaning(q)
    BY <1>0, <2>2 DEF AreTerms
  <2>5. q.val = UDivValue(x.val, d.val, q.n)
    BY <2>2, <2>4 DEF HasMeaning
  <2>6. a.val = (q.val * d.val) % n
    <3>1. a.val = (a.args[1].val * a.args[2].val) % n /\ IsBV(a.args[1]) /\ IsBV(a.args[2])
      BY <1>0, <2>2 DEF HasMeaning
    <3>2. {a.args[1].val, a.args[2].val} \subseteq Nat
      BY <3>1 DEF IsBV
    <3>3. a.args[3 - i] = d
      BY <2>2
    <3> QED BY <3>1, <3>2, <3>3
  <2>7. d.val # 0
    <3>1. IsTrue(Not(Eq(d, MkBV(0, d.n))))
      BY <1>6, <2>2 DEF IsDivisionAgain
    <3> HIDE DEF d
    <3> QED BY <2>3, <2>4, <3>1, KnownNotZero
  <2> HIDE DEF x, d, i, q
  <2>8. x.val \in 0..(n - 1) /\ d.val \in Nat \ {0}
    BY <2>3, <2>7 DEF IsBV
  <2>9. q.val = x.val \div d.val /\ b.val = x.val % d.val
    BY <2>3, <2>5, <2>7 DEF UDivValue, URemValue
  <2>10. /\ x.val \div d.val \in Nat /\ x.val % d.val \in Nat
         /\ x.val = (x.val \div d.val) * d.val + (x.val % d.val)
    <3>1. PICK v \in Nat, w \in Nat \ {0} : v = x.val /\ w = d.val
      BY <1>1, <2>8
    <3>2. v \div w \in Nat /\ v % w \in Nat /\ v = (v \div w) * w + (v % w)
      <4>1. v \div w \in Nat /\ v % w \in 0..(w - 1) /\ v = (v \div w) * w + (v % w)
        BY DivMod
      <4>2. v % w \in Nat
        BY <4>1
      <4> QED BY <4>1, <4>2, Zenon
    <3> QED BY <3>1, <3>2
  <2>11. q.val * d.val \in 0..(n - 1)
    <3>1. q.val \in Nat /\ b.val \in Nat /\ x.val = q.val * d.val + b.val
      BY <2>9, <2>10
    <3>2. q.val * d.val \in Nat
      BY <2>8, <3>1
    <3> QED BY <1>1, <2>8, <3>1, <3>2
  <2>12. a.val = q.val * d.val
    BY <1>1, <2>6, <2>11, Small
  <2>13. a.val + b.val = x.val /\ x.val % n = x.val
    BY <1>1, <2>8, <2>9, <2>10, <2>12, Small
  <2> QED BY <2>1, <2>13
<1>7. CASE ~numerals /\ ~zeroA /\ ~zeroB /\ ~again
  <2>1. Plus(a, b) = BV("bvadd", n, <<a, b>>, (a.val + b.val) % n)
    BY <1>7, Zenon DEF Plus
  <2> QED BY <2>1 DEF BV
<1> QED BY <1>3, <1>4, <1>5, <1>6, <1>7

-----------------------------------------------------------------------------
(***************************************************************************)
(* Shapes.  d has the sizes of n dimensions; P[i] is how many elements the *)
(* first i of them have.                                                   *)
(***************************************************************************)
Products(P, d, n) ==
  /\ P \in [0..n -> Nat]
  /\ P[0] = 1
  /\ \A i \in 1..n : P[i] = P[i - 1] * d[i]

LEMMA VolumeIs ==
  ASSUME NEW n \in Nat, NEW d \in [1..n -> Nat]
  PROVE  \E P : Products(P, d, n) /\ Volume(d) = P[n]
<1> DEFINE Is(f) == f = [i \in 0..Len(d) |-> IF i = 0 THEN 1 ELSE f[i - 1] * d[i]]
           P == CHOOSE f : Is(f)
           g == [i \in 1..n |-> [s \in Nat |-> s * d[i]]]
<1>1. Len(d) = n
  OBVIOUS
<1>2. g \in [1..n -> [Nat -> Nat]]
  BY SMT
<1>3. PICK F \in [0..n -> Nat] : Recurs(F, n, 1, g)
  BY <1>2, Recursion
<1>4. F[0] = 1 /\ \A i \in 1..n : F[i] = F[i - 1] * d[i]
  <2>1. ASSUME NEW i \in 1..n PROVE F[i] = F[i - 1] * d[i]
    <3>1. F[i] = g[i][F[i - 1]]
      BY <1>3 DEF Recurs
    <3>2. i - 1 \in 0..n
      OBVIOUS
    <3>3. F[i - 1] \in Nat
      BY <1>3, <3>2
    <3> QED BY <3>1, <3>3
  <2> QED BY <1>3, <2>1 DEF Recurs
<1>5. F = [i \in 0..n |-> IF i = 0 THEN 1 ELSE F[i - 1] * d[i]]
  <2>1. \A i \in 0..n : i # 0 => i \in 1..n
    OBVIOUS
  <2> QED BY <1>4, <2>1
<1>6. Is(P)
  BY <1>1, <1>5
<1>7. Volume(d) = P[n]
  BY <1>1 DEF Volume
<1> HIDE DEF P
<1>8. P[0] = 1 /\ \A i \in 1..n : P[i] = P[i - 1] * d[i]
  BY <1>1, <1>6
<1>9. P \in [0..n -> Nat]
  <2> DEFINE K == {k \in Nat : k <= n => P[k] \in Nat}
  <2>1. 0 \in K
    BY <1>8
  <2>2. ASSUME NEW k \in K PROVE k + 1 \in K
    <3>1. ASSUME k + 1 <= n PROVE P[k + 1] \in Nat
      <4>1. k + 1 \in 1..n /\ k <= n /\ (k + 1) - 1 = k
        BY <2>2, <3>1
      <4>2. P[k + 1] = P[k] * d[k + 1] /\ P[k] \in Nat /\ d[k + 1] \in Nat
        BY <1>8, <2>2, <4>1
      <4> QED BY <4>2
    <3> QED BY <2>2, <3>1
  <2> HIDE DEF K
  <2>3. K = Nat
    <3>1. K \subseteq Nat
      BY DEF K
    <3> QED BY <2>1, <2>2, <3>1, Induction
  <2>4. ASSUME NEW k \in 0..n PROVE P[k] \in Nat
    <3>1. k \in K /\ k <= n
      BY <2>3
    <3> QED BY <3>1 DEF K
  <2>5. P = [i \in 0..n |-> P[i]]
    BY <1>1, <1>6
  <2> QED BY <2>4, <2>5
<1> QED BY <1>7, <1>8, <1>9 DEF Products

\* get1DSize computes modulo the machine word.
LEMMA SizeIs ==
  ASSUME NEW n \in Nat, NEW d \in [1..n -> Nat], NEW P, Products(P, d, n), P[n] < Modulus
  PROVE  Get1DSize(d) = P[n]
<1> DEFINE W == [i \in 0..n |-> IF i = 0 THEN 1 ELSE P[i] % Modulus]
           Is(f) == f = [i \in 0..Len(d) |-> IF i = 0 THEN 1 ELSE Wrap(f[i - 1] * d[i])]
           V == CHOOSE f : Is(f)
<1>1. Len(d) = n
  OBVIOUS
<1>2. Modulus \in Nat \ {0} /\ P \in [0..n -> Nat] /\ P[0] = 1
  BY ModulusOK DEF Products
<1>3. ASSUME NEW i \in 1..n PROVE W[i] = Wrap(W[i - 1] * d[i])
  <2>1. i - 1 \in 0..n /\ i \in 0..n /\ i # 0 /\ P[i] = P[i - 1] * d[i]
    BY DEF Products
  <2>2. PICK a \in Nat, b \in Nat : a = P[i - 1] /\ b = d[i]
    BY <1>2, <2>1
  <2>3. W[i] = (a * b) % Modulus
    BY <2>1, <2>2
  <2>4. (W[i - 1] * b) % Modulus = (a * b) % Modulus
    <3>1. CASE i = 1
      BY <1>2, <2>1, <2>2, <3>1
    <3>2. CASE i # 1
      <4>1. PICK w : w = W[i - 1] /\ w = a % Modulus
        BY <2>1, <2>2, <3>2
      <4>2. ((a % Modulus) * b) % Modulus = (a * b) % Modulus
        <5>1. Modulus \in Nat \ {0}
          BY <1>2
        <5> QED BY <5>1, ModProduct, Zenon
      <4> QED BY <4>1, <4>2
    <3> QED BY <3>1, <3>2
  <2> QED BY <2>2, <2>3, <2>4 DEF Wrap
<1>4. Is(W)
  <2>1. \A i \in 0..n : i # 0 => i \in 1..n
    OBVIOUS
  <2>2. W[0] = 1
    OBVIOUS
  <2>3. W = [i \in 0..n |-> W[i]]
    OBVIOUS
  <2> HIDE DEF W
  <2> QED BY <1>1, <1>3, <2>1, <2>2, <2>3
<1>5. Is(V)
  BY <1>4
<1>6. Get1DSize(d) = V[n]
  BY <1>1 DEF Get1DSize
<1> HIDE DEF V
<1>7. V[0] = 1 /\ \A i \in 1..n : V[i] = Wrap(V[i - 1] * d[i])
  BY <1>1, <1>5
<1>8. W[0] = 1 /\ W[n] = P[n]
  <2>1. CASE n = 0
    BY <1>2, <2>1
  <2>2. CASE n # 0
    <3>1. P[n] \in 0..(Modulus - 1) /\ n \in 0..n
      BY <1>2
    <3>2. P[n] % Modulus = P[n]
      BY <1>2, <3>1, Small
    <3> QED BY <2>2, <3>1, <3>2
  <2> QED BY <2>1, <2>2
<1> HIDE DEF W
<1>9. V[n] = W[n]
  <2> DEFINE K == {k \in Nat : k <= n => V[k] = W[k]}
  <2>1. 0 \in K
    BY <1>7, <1>8
  <2>2. ASSUME NEW k \in K PROVE k + 1 \in K
    <3>1. ASSUME k + 1 <= n PROVE V[k + 1] = W[k + 1]
      <4>1. k + 1 \in 1..n /\ k <= n /\ (k + 1) - 1 = k
        BY <2>2, <3>1
      <4> QED BY <1>3, <1>7, <2>2, <4>1
    <3> QED BY <2>2, <3>1
  <2> HIDE DEF K
  <2>3. K = Nat
    <3>1. K \subseteq Nat
      BY DEF K
    <3> QED BY <2>1, <2>2, <3>1, Induction
  <2>4. n \in K
    BY <2>3
  <2> QED BY <2>4 DEF K
<1> QED BY <1>6, <1>8, <1>9

-----------------------------------------------------------------------------
(***************************************************************************)
(* Indices.  V[i] is the linear index that the first i of x make.          *)
(***************************************************************************)
Inside(x, d, n) == x \in [1..n -> Nat] /\ \A i \in 1..n : x[i] < d[i]

LinearIn(V, x, d, n) ==
  V \in [0..n -> Nat] /\ V[0] = 0 /\ \A i \in 1..n : V[i] = V[i - 1] * d[i] + x[i]

LEMMA LinearExists ==
  ASSUME NEW n \in Nat, NEW d \in [1..n -> Nat], NEW x \in [1..n -> Nat]
  PROVE  \E V : LinearIn(V, x, d, n)
<1> DEFINE g == [i \in 1..n |-> [s \in Nat |-> s * d[i] + x[i]]]
<1>1. g \in [1..n -> [Nat -> Nat]]
  <2>1. ASSUME NEW i \in 1..n, NEW s \in Nat PROVE s * d[i] + x[i] \in Nat
    <3>1. PICK a \in Nat, b \in Nat : a = d[i] /\ b = x[i]
      OBVIOUS
    <3>2. s * a \in Nat
      BY SMT
    <3> QED BY <3>1, <3>2
  <2> QED BY <2>1
<1>2. PICK V \in [0..n -> Nat] : Recurs(V, n, 0, g)
  BY <1>1, Recursion
<1>3. ASSUME NEW i \in 1..n PROVE V[i] = V[i - 1] * d[i] + x[i]
  <2>1. V[i] = g[i][V[i - 1]]
    BY <1>2 DEF Recurs
  <2>2. i - 1 \in 0..n
    OBVIOUS
  <2>3. V[i - 1] \in Nat
    BY <1>2, <2>2
  <2> QED BY <2>1, <2>3
<1> QED BY <1>2, <1>3 DEF Recurs, LinearIn

LEMMA LinearBelow ==
  ASSUME NEW n \in Nat, NEW d \in [1..n -> Nat], NEW x, Inside(x, d, n),
         NEW P, Products(P, d, n), NEW V, LinearIn(V, x, d, n)
  PROVE  \A i \in 0..n : V[i] < P[i]
<1> DEFINE S == {i \in 0..n : V[i] < P[i]}
<1>1. 0 \in S
  BY DEF Products, LinearIn
<1>2. ASSUME NEW i \in 0..(n - 1), i \in S PROVE i + 1 \in S
  <2>1. i \in 0..n /\ i + 1 \in 0..n /\ i + 1 \in 1..n /\ (i + 1) - 1 = i
    OBVIOUS
  <2>2. PICK v \in Nat, p \in Nat, s \in Nat, r \in Nat :
          v = V[i] /\ p = P[i] /\ s = d[i + 1] /\ r = x[i + 1]
    BY <2>1 DEF Products, LinearIn, Inside
  <2>3. P[i + 1] = p * s /\ V[i + 1] = v * s + r
    BY <2>1, <2>2 DEF Products, LinearIn
  <2>4. r < s /\ v < p
    BY <1>2, <2>1, <2>2 DEF Inside
  <2>5. p \in Nat \ {0} /\ s \in Nat \ {0} /\ v \in 0..(p - 1) /\ r \in 0..(s - 1)
    BY <2>4
  <2>6. p * s \in Nat \ {0} /\ v * s + r \in 0..(p * s - 1)
    BY <2>5, Together
  <2> QED BY <2>1, <2>3, <2>6
<1> HIDE DEF S
<1>3. \A i \in 0..n : i \in S
  BY <1>1, <1>2, Upward
<1> QED BY <1>3 DEF S

LEMMA ProductsGrow ==
  ASSUME NEW n \in Nat, NEW d \in [1..n -> Nat], NEW P, Products(P, d, n), P[n] # 0
  PROVE  /\ \A i \in 0..n : P[i] \in Nat \ {0} /\ P[i] <= P[n]
         /\ \A i \in 1..n : d[i] \in Nat \ {0}
<1> DEFINE S == {i \in 0..n : P[i] \in Nat \ {0} /\ P[i] <= P[n]}
<1>1. n \in S
  BY DEF Products
<1>2. ASSUME NEW i \in 1..n, i \in S
      PROVE  i - 1 \in S /\ d[i] \in Nat \ {0}
  <2>1. i \in 0..n /\ i - 1 \in 0..n /\ n \in 0..n
    OBVIOUS
  <2>2. PICK p \in Nat, q \in Nat, s \in Nat, m \in Nat :
          p = P[i - 1] /\ q = P[i] /\ s = d[i] /\ m = P[n] /\ q = p * s
    BY <2>1 DEF Products
  <2>3. q # 0 /\ q <= m
    BY <1>2, <2>2
  <2>4. p # 0 /\ s # 0
    BY <2>2, <2>3, SMT
  <2>5. p <= p * s
    BY <2>2, <2>4, SMT
  <2>6. p <= m
    BY <2>2, <2>3, <2>5
  <2> QED BY <2>1, <2>2, <2>4, <2>6
<1> HIDE DEF S
<1>3. \A i \in 1..(n - 1) : i + 1 \in S => i \in S
  <2>1. ASSUME NEW i \in 1..(n - 1), i + 1 \in S PROVE i \in S
    <3>1. i + 1 \in 1..n /\ (i + 1) - 1 = i
      OBVIOUS
    <3> QED BY <1>2, <2>1, <3>1
  <2> QED BY <2>1
<1>4. \A i \in 1..n : i \in S
  BY <1>1, <1>3, Downward
<1>5. 0 \in S
  <2>1. CASE n = 0
    BY <1>1, <2>1
  <2>2. CASE n # 0
    <3>1. 1 \in 1..n /\ 1 - 1 = 0
      BY <2>2
    <3> QED BY <1>2, <1>4, <3>1
  <2> QED BY <2>1, <2>2
<1>6. ASSUME NEW i \in 0..n PROVE i \in S
  <2>1. i = 0 \/ i \in 1..n
    OBVIOUS
  <2> QED BY <1>4, <1>5, <2>1
<1> QED BY <1>2, <1>4, <1>6 DEF S

\* While indices are in bounds, nothing wraps.
LEMMA To1DIs ==
  ASSUME NEW n \in Nat \ {0}, NEW d \in [1..n -> Nat], NEW x, Inside(x, d, n),
         NEW P, Products(P, d, n), P[n] <= Modulus, NEW V, LinearIn(V, x, d, n)
  PROVE  To1DIdx(x, d) = V[n] /\ V[n] \in 0..(P[n] - 1)
<1> DEFINE U == [i \in 1..n |-> V[i]]
           Is(f) == f = [i \in 1..Len(x) |->
                           IF i = 1 THEN x[1] ELSE Wrap(f[i - 1] * d[i] + x[i])]
           W == CHOOSE f : Is(f)
<1>1. Len(x) = n /\ x # <<>> /\ x \in [1..n -> Nat] /\ n \in 0..n
  <2>1. x \in [1..n -> Nat] /\ n \in 0..n
    BY DEF Inside
  <2>2. x \in Seq(Nat) /\ Len(x) = n
    BY <2>1
  <2>3. x # <<>>
    BY <2>2, EmptySeq
  <2> QED BY <2>1, <2>2, <2>3
<1>2. V[n] \in 0..(P[n] - 1) /\ P[n] # 0 /\ P[n] \in Nat
  <2>1. V[n] \in Nat /\ P[n] \in Nat
    BY <1>1 DEF LinearIn, Products
  <2>2. \A i \in 0..n : V[i] < P[i]
    BY LinearBelow
  <2>3. V[n] < P[n]
    BY <1>1, <2>2
  <2> QED BY <2>1, <2>3
<1>3. ASSUME NEW i \in 1..n
      PROVE  /\ V[i] \in Nat /\ Wrap(V[i]) = V[i]
             /\ V[i] = V[i - 1] * d[i] + x[i]
  <2>1. i \in 0..n
    OBVIOUS
  <2>2. V[i] < P[i] /\ P[i] <= P[n] /\ P[i] \in Nat /\ V[i] \in Nat
    BY <1>2, <2>1, LinearBelow, ProductsGrow DEF LinearIn
  <2>3. V[i] \in 0..(Modulus - 1) /\ Modulus \in Nat \ {0}
    BY <1>2, <2>2, ModulusOK
  <2>4. V[i] % Modulus = V[i]
    BY <2>3, Small
  <2> QED BY <2>2, <2>4 DEF Wrap, LinearIn
<1>4. ASSUME NEW i \in 1..n
      PROVE  U[i] = IF i = 1 THEN x[1] ELSE Wrap(U[i - 1] * d[i] + x[i])
  <2>1. CASE i = 1
    <3>1. V[1] = V[0] * d[1] + x[1] /\ V[0] = 0 /\ d[1] \in Nat /\ x[1] \in Nat
      BY <1>1, <1>3, <2>1 DEF LinearIn
    <3>2. V[1] = x[1]
      BY <3>1
    <3> QED BY <2>1, <3>2
  <2>2. CASE i # 1
    <3>1. i - 1 \in 1..n
      BY <2>2
    <3>2. U[i - 1] = V[i - 1] /\ U[i] = V[i]
      BY <3>1
    <3> QED BY <1>3, <2>2, <3>2
  <2> QED BY <2>1, <2>2
<1>5. Is(U)
  <2>1. U = [i \in 1..n |-> U[i]]
    OBVIOUS
  <2> HIDE DEF U
  <2> QED BY <1>1, <1>4, <2>1
<1>6. Is(W)
  BY <1>5
<1>7. To1DIdx(x, d) = W[n]
  BY <1>1 DEF To1DIdx
<1> HIDE DEF W
<1>8. \A i \in 1..n : W[i] = IF i = 1 THEN x[1] ELSE Wrap(W[i - 1] * d[i] + x[i])
  BY <1>1, <1>6
<1>9. \A i \in 1..n : U[i] = V[i]
  OBVIOUS
<1> HIDE DEF U
<1> DEFINE S == {i \in 0..n : i = 0 \/ W[i] = U[i]}
<1>10. 0 \in S
  OBVIOUS
<1>11. ASSUME NEW i \in 0..(n - 1), i \in S PROVE i + 1 \in S
  <2>1. i + 1 \in 1..n /\ (i + 1) - 1 = i /\ (i # 0 => i + 1 # 1)
    OBVIOUS
  <2>2. W[i + 1] = U[i + 1]
    <3>1. CASE i = 0
      BY <1>4, <1>8, <2>1, <3>1
    <3>2. CASE i # 0
      <4>1. W[i] = U[i]
        BY <1>11, <3>2
      <4> QED BY <1>4, <1>8, <2>1, <3>2, <4>1
    <3> QED BY <3>1, <3>2
  <2> QED BY <2>1, <2>2
<1> HIDE DEF S
<1>12. n \in S
  BY <1>1, <1>10, <1>11, Upward
<1>13. W[n] = V[n]
  BY <1>9, <1>12 DEF S
<1> QED BY <1>2, <1>7, <1>13

RestOf(R, c, d, n) ==
  /\ R \in [1..n -> Nat] /\ R[n] = c
  /\ \A i \in 1..(n - 1) : R[i] = UDiv(R[i + 1], d[i + 1])

\* What from1DIdx has left of a linear index after each dimension.
LEMMA From1DIs ==
  ASSUME NEW n \in Nat \ {0}, NEW d \in [1..n -> Nat], NEW c \in Nat
  PROVE  \E R : /\ RestOf(R, c, d, n)
                /\ From1DIdx(c, d) = [i \in 1..n |-> IF i = 1 THEN R[1] ELSE URem(R[i], d[i])]
<1> DEFINE g == [k \in 1..(n - 1) |-> [s \in Nat |-> UDiv(s, d[n - k + 1])]]
           Is(f) == f = [i \in 1..Len(d) |-> IF i = Len(d) THEN c ELSE UDiv(f[i + 1], d[i + 1])]
           R == CHOOSE f : Is(f)
<1>1. Len(d) = n /\ n - 1 \in Nat
  OBVIOUS
<1>2. \A a \in Nat, b \in Nat : UDiv(a, b) \in Nat
  <2>1. Modulus - 1 \in Nat
    BY ModulusOK
  <2>2. ASSUME NEW a \in Nat, NEW b \in Nat, b # 0 PROVE a \div b \in Nat
    BY <2>2, DivMod
  <2> QED BY <2>1, <2>2 DEF UDiv
<1>3. g \in [1..(n - 1) -> [Nat -> Nat]]
  <2>1. ASSUME NEW k \in 1..(n - 1), NEW s \in Nat PROVE UDiv(s, d[n - k + 1]) \in Nat
    <3>1. n - k + 1 \in 1..n
      OBVIOUS
    <3> QED BY <1>2, <3>1
  <2> QED BY <2>1
<1>4. PICK F \in [0..(n - 1) -> Nat] : Recurs(F, n - 1, c, g)
  BY <1>1, <1>3, Recursion
<1> DEFINE H == [i \in 1..n |-> F[n - i]]
<1>5. ASSUME NEW i \in 1..n PROVE H[i] = IF i = n THEN c ELSE UDiv(H[i + 1], d[i + 1])
  <2>1. CASE i = n
    BY <1>4, <2>1 DEF Recurs
  <2>2. CASE i # n
    <3>1. /\ i + 1 \in 1..n /\ n - i \in 1..(n - 1) /\ (n - i) - 1 = n - (i + 1)
          /\ n - (n - i) + 1 = i + 1 /\ n - (i + 1) \in 0..(n - 1)
      BY <2>2
    <3>2. F[n - i] = g[n - i][F[n - (i + 1)]] /\ F[n - (i + 1)] \in Nat
      BY <1>4, <3>1 DEF Recurs
    <3>3. F[n - i] = UDiv(F[n - (i + 1)], d[i + 1])
      BY <3>1, <3>2
    <3> QED BY <2>2, <3>1, <3>3
  <2> QED BY <2>1, <2>2
<1>6. Is(H)
  <2>1. H = [i \in 1..n |-> H[i]]
    OBVIOUS
  <2> HIDE DEF H
  <2> QED BY <1>1, <1>5, <2>1
<1>7. Is(R)
  BY <1>6
<1>8. From1DIdx(c, d) = [i \in 1..n |-> IF i = 1 THEN R[1] ELSE URem(R[i], d[i])]
  BY <1>1 DEF From1DIdx
<1> HIDE DEF R
<1>9. /\ R = [i \in 1..n |-> R[i]] /\ R[n] = c
      /\ \A i \in 1..(n - 1) : R[i] = UDiv(R[i + 1], d[i + 1])
  <2>1. R = [i \in 1..n |-> IF i = n THEN c ELSE UDiv(R[i + 1], d[i + 1])]
    BY <1>1, <1>7
  <2>2. ASSUME NEW i \in 1..(n - 1) PROVE i \in 1..n /\ i # n
    OBVIOUS
  <2> QED BY <2>1, <2>2
<1> DEFINE S == {i \in 1..n : R[i] \in Nat}
<1>10. n \in S
  BY <1>9
<1>11. ASSUME NEW i \in 1..(n - 1), i + 1 \in S PROVE i \in S
  <2>1. i \in 1..n /\ i + 1 \in 1..n
    OBVIOUS
  <2>2. R[i] = UDiv(R[i + 1], d[i + 1]) /\ R[i + 1] \in Nat /\ d[i + 1] \in Nat
    BY <1>9, <1>11, <2>1
  <2>3. R[i] \in Nat
    BY <1>2, <2>2
  <2> QED BY <2>1, <2>3
<1> HIDE DEF S
<1>12. \A i \in 1..n : i \in S
  BY <1>10, <1>11, Downward
<1>13. R \in [1..n -> Nat]
  BY <1>9, <1>12 DEF S
<1> QED BY <1>8, <1>9, <1>13 DEF RestOf

\* From the linear index of indices in bounds come these indices.
LEMMA BackToIndices ==
  ASSUME NEW n \in Nat \ {0}, NEW d \in [1..n -> Nat], NEW x, Inside(x, d, n),
         NEW V, LinearIn(V, x, d, n)
  PROVE  From1DIdx(V[n], d) = x
<1>1. V \in [0..n -> Nat] /\ x \in [1..n -> Nat] /\ V[n] \in Nat
  <2>1. n \in 0..n
    OBVIOUS
  <2> QED BY <2>1 DEF LinearIn, Inside
<1>2. PICK R : /\ RestOf(R, V[n], d, n)
               /\ From1DIdx(V[n], d) = [i \in 1..n |-> IF i = 1 THEN R[1] ELSE URem(R[i], d[i])]
  BY <1>1, From1DIs
<1>3. ASSUME NEW i \in 1..n
      PROVE  /\ V[i] = V[i - 1] * d[i] + x[i] /\ V[i - 1] \in Nat
             /\ d[i] \in Nat \ {0} /\ x[i] \in 0..(d[i] - 1)
  <2>1. V[i] = V[i - 1] * d[i] + x[i] /\ x[i] < d[i]
    BY DEF LinearIn, Inside
  <2>2. i - 1 \in 0..n /\ d[i] \in Nat /\ x[i] \in Nat
    BY <1>1
  <2>3. V[i - 1] \in Nat
    BY <1>1, <2>2
  <2> QED BY <2>1, <2>2, <2>3
<1>4. ASSUME NEW i \in 1..n PROVE UDiv(V[i], d[i]) = V[i - 1] /\ URem(V[i], d[i]) = x[i]
  <2>1. PICK v \in Nat, s \in Nat \ {0}, r \in Nat :
          v = V[i - 1] /\ s = d[i] /\ r = x[i] /\ V[i] = v * s + r /\ r \in 0..(s - 1)
    BY <1>3
  <2>2. (v * s + r) \div s = v /\ (v * s + r) % s = r
    <3>1. v \in Nat /\ s \in Nat \ {0} /\ r \in 0..(s - 1)
      BY <2>1
    <3> QED BY <3>1, Unique, Zenon
  <2>3. s # 0
    BY <2>1
  <2>4. UDiv(v * s + r, s) = v /\ URem(v * s + r, s) = r
    BY <2>2, <2>3, Zenon DEF UDiv, URem
  <2> QED BY <2>1, <2>4, Zenon
<1> DEFINE S == {i \in 1..n : R[i] = V[i]}
<1>5. n \in S
  BY <1>2 DEF RestOf
<1>6. ASSUME NEW i \in 1..(n - 1), i + 1 \in S PROVE i \in S
  <2>1. i \in 1..n /\ i + 1 \in 1..n /\ (i + 1) - 1 = i
    OBVIOUS
  <2>2. R[i + 1] = V[i + 1] /\ R[i] = UDiv(R[i + 1], d[i + 1])
    BY <1>2, <1>6 DEF RestOf
  <2> QED BY <1>4, <2>1, <2>2
<1> HIDE DEF S
<1>7. \A i \in 1..n : i \in S
  BY <1>5, <1>6, Downward
<1>8. \A i \in 1..n : R[i] = V[i]
  BY <1>7 DEF S
<1>9. V[1] = x[1]
  <2>1. V[1] = V[0] * d[1] + x[1] /\ V[0] = 0 /\ d[1] \in Nat /\ x[1] \in Nat
    BY <1>1 DEF LinearIn
  <2> QED BY <2>1
<1>10. ASSUME NEW i \in 1..n PROVE (IF i = 1 THEN R[1] ELSE URem(R[i], d[i])) = x[i]
  BY <1>4, <1>8, <1>9
<1> QED BY <1>1, <1>2, <1>10

\* A linear index below the number of elements makes indices in bounds, and is
\* the linear index of these.
LEMMA CellsAreInside ==
  ASSUME NEW n \in Nat \ {0}, NEW d \in [1..n -> Nat], NEW P, Products(P, d, n),
         NEW c \in 0..(P[n] - 1)
  PROVE  Inside(From1DIdx(c, d), d, n) /\ \E V : LinearIn(V, From1DIdx(c, d), d, n) /\ V[n] = c
<1>1. PICK R : /\ RestOf(R, c, d, n)
               /\ From1DIdx(c, d) = [i \in 1..n |-> IF i = 1 THEN R[1] ELSE URem(R[i], d[i])]
  <2>1. n \in 0..n
    OBVIOUS
  <2>2. P[n] \in Nat
    BY <2>1 DEF Products
  <2>3. c \in Nat
    BY <2>2
  <2> QED BY <2>3, From1DIs
<1> DEFINE x == [i \in 1..n |-> IF i = 1 THEN R[1] ELSE URem(R[i], d[i])]
           V == [i \in 0..n |-> IF i = 0 THEN 0 ELSE R[i]]
           S == {i \in 1..n : R[i] < P[i]}
<1>2. /\ R \in [1..n -> Nat] /\ R[n] = c
      /\ \A i \in 1..(n - 1) : R[i] = UDiv(R[i + 1], d[i + 1])
  BY <1>1 DEF RestOf
<1>3. P[n] \in Nat \ {0}
  BY DEF Products
<1>4. /\ \A i \in 0..n : P[i] \in Nat \ {0}
      /\ \A i \in 1..n : d[i] \in Nat \ {0}
  BY <1>3, ProductsGrow
<1>5. n \in S
  BY <1>2, <1>3
<1>6. ASSUME NEW i \in 1..(n - 1), i + 1 \in S PROVE i \in S
  <2>1. i \in 1..n /\ i \in 0..n /\ i + 1 \in 1..n /\ (i + 1) - 1 = i
    OBVIOUS
  <2>2. PICK p \in Nat \ {0}, s \in Nat \ {0}, r \in Nat :
          p = P[i] /\ s = d[i + 1] /\ r = R[i + 1] /\ R[i] = r \div s /\ P[i + 1] = p * s
    BY <1>2, <1>4, <2>1 DEF Products, UDiv
  <2>3. r \in 0..(p * s - 1)
    <3>1. r < p * s
      BY <1>6, <2>2
    <3>2. p * s \in Nat
      BY SMT
    <3> QED BY <3>1, <3>2
  <2>4. r \div s \in 0..(p - 1)
    BY <2>3, QuotientFits
  <2> QED BY <2>1, <2>2, <2>4
<1> HIDE DEF S
<1>7. \A i \in 1..n : i \in S
  BY <1>5, <1>6, Downward
<1>8. R[1] < d[1]
  <2>1. R[1] < P[1]
    BY <1>7 DEF S
  <2>2. P[1] = P[0] * d[1] /\ P[0] = 1 /\ d[1] \in Nat
    BY DEF Products
  <2> QED BY <2>1, <2>2
<1>9. ASSUME NEW i \in 1..n
      PROVE  /\ x[i] \in Nat /\ x[i] < d[i]
             /\ V[i] = V[i - 1] * d[i] + x[i]
  <2>1. CASE i = 1
    <3>1. x[i] = R[1] /\ V[i] = R[1] /\ V[i - 1] = 0 /\ d[i] \in Nat /\ R[1] \in Nat
      BY <1>2, <2>1
    <3> QED BY <1>8, <2>1, <3>1
  <2>2. CASE i # 1
    <3>1. i \in 0..n /\ i # 0 /\ i - 1 \in 0..n /\ i - 1 # 0 /\ i - 1 \in 1..(n - 1) /\ (i - 1) + 1 = i
      BY <2>2
    <3>2. PICK s \in Nat \ {0}, r \in Nat : s = d[i] /\ r = R[i]
      BY <1>2, <1>4
    <3>3. x[i] = r % s /\ V[i] = r /\ V[i - 1] = r \div s
      BY <1>2, <2>2, <3>1, <3>2 DEF UDiv, URem
    <3>4. r \div s \in Nat /\ r % s \in 0..(s - 1) /\ r = (r \div s) * s + (r % s)
      BY DivMod
    <3>5. PICK u \in Nat, w \in 0..(s - 1) : u = r \div s /\ w = r % s /\ r = u * s + w
      BY <3>4
    <3>6. x[i] = w /\ V[i] = u * s + w /\ V[i - 1] = u
      BY <3>3, <3>5
    <3>7. w \in Nat /\ w < s
      BY <3>5
    <3> QED BY <3>2, <3>6, <3>7
  <2> QED BY <2>1, <2>2
<1>10. V \in [0..n -> Nat] /\ V[0] = 0 /\ V[n] = c
  BY <1>2
<1>11. x = From1DIdx(c, d) /\ x = [i \in 1..n |-> x[i]]
  BY <1>1
<1> HIDE DEF x, V
<1>12. Inside(x, d, n)
  BY <1>9, <1>11 DEF Inside
<1>13. LinearIn(V, x, d, n)
  BY <1>9, <1>10 DEF LinearIn
<1> QED BY <1>10, <1>11, <1>12, <1>13

-----------------------------------------------------------------------------
(***************************************************************************)
(* Lex, the order in which the meaning of programs counts elements: L[i]   *)
(* are the indices of the first i dimensions in that order.                *)
(***************************************************************************)
NextLex(outer, size) ==
  [k \in 1..(Len(outer) * size) |-> Append(outer[1 + (k - 1) \div size], (k - 1) % size)]

Lexicographic(L, d, n) ==
  /\ L \in [0..n -> Seq(Seq(Nat))]
  /\ L[0] = << <<>> >>
  /\ \A i \in 1..n : L[i] = NextLex(L[i - 1], d[i])

LEMMA NextLexIs ==
  ASSUME NEW s \in Seq(Seq(Nat)), NEW m \in Nat
  PROVE  NextLex(s, m) \in Seq(Seq(Nat)) /\ Len(NextLex(s, m)) = Len(s) * m
<1>1. PICK n \in Nat : n = Len(s)
  BY LenProperties
<1>2. n * m \in Nat
  BY SMT
<1>3. ASSUME NEW k \in 1..(n * m)
      PROVE  Append(s[1 + (k - 1) \div m], (k - 1) % m) \in Seq(Nat)
  <2>1. n # 0 /\ m # 0 /\ k - 1 \in 0..(n * m - 1) /\ k - 1 \in Nat
    BY <1>2, <1>3, SMT
  <2>2. (k - 1) \div m \in 0..(n - 1)
    BY <2>1, QuotientFits
  <2>3. 1 + (k - 1) \div m \in 1..n
    <3>1. PICK q \in 0..(n - 1) : q = (k - 1) \div m
      BY <2>2
    <3> QED BY <3>1
  <2>4. s[1 + (k - 1) \div m] \in Seq(Nat)
    BY <1>1, <2>3, ElementOfSeq
  <2>5. (k - 1) % m \in Nat
    BY <2>1, DivMod
  <2> QED BY <2>4, <2>5, AppendProperties
<1>4. NextLex(s, m) \in [1..(n * m) -> Seq(Nat)]
  BY <1>1, <1>3 DEF NextLex
<1> QED BY <1>1, <1>2, <1>4, SeqDef, LenProperties

LEMMA LexIs ==
  ASSUME NEW n \in Nat, NEW d \in [1..n -> Nat]
  PROVE  \E L : Lexicographic(L, d, n) /\ Lex(d) = L[n]
<1> DEFINE Is(f) == f = [i \in 0..Len(d) |->
                           IF i = 0 THEN << <<>> >>
                           ELSE [k \in 1..(Len(f[i - 1]) * d[i]) |->
                                   Append(f[i - 1][1 + (k - 1) \div d[i]], (k - 1) % d[i])]]
           L == CHOOSE f : Is(f)
           S == Seq(Seq(Nat))
           g == [i \in 1..n |-> [s \in S |-> NextLex(s, d[i])]]
<1>1. Len(d) = n
  OBVIOUS
<1>2. g \in [1..n -> [S -> S]]
  <2>1. ASSUME NEW i \in 1..n, NEW s \in S PROVE NextLex(s, d[i]) \in S
    BY NextLexIs
  <2> QED BY <2>1
<1>3. << <<>> >> \in S
  OBVIOUS
<1>4. PICK F \in [0..n -> S] : Recurs(F, n, << <<>> >>, g)
  BY <1>2, <1>3, Recursion
<1>5. ASSUME NEW i \in 1..n PROVE F[i] = NextLex(F[i - 1], d[i])
  <2>1. F[i] = g[i][F[i - 1]]
    <3> HIDE DEF g
    <3> QED BY <1>4 DEF Recurs
  <2>2. i - 1 \in 0..n
    OBVIOUS
  <2>3. F[i - 1] \in S
    BY <1>4, <2>2
  <2> QED BY <2>1, <2>3
<1>6. Is(F)
  <2>1. \A i \in 0..n : i # 0 => i \in 1..n
    OBVIOUS
  <2> QED BY <1>1, <1>4, <1>5, <2>1 DEF Recurs, NextLex
<1>7. Is(L)
  BY <1>6
<1>8. Lex(d) = L[n]
  BY <1>1 DEF Lex
<1> HIDE DEF L
<1>9. L[0] = << <<>> >> /\ \A i \in 1..n : L[i] = NextLex(L[i - 1], d[i])
  <2>1. L[0] = << <<>> >>
    <3>1. 0 \in 0..n
      OBVIOUS
    <3> QED BY <1>1, <1>7, <3>1
  <2>2. ASSUME NEW i \in 1..n PROVE L[i] = NextLex(L[i - 1], d[i])
    <3>1. i \in 0..n /\ i # 0
      OBVIOUS
    <3> QED BY <1>1, <1>7, <3>1 DEF NextLex
  <2> QED BY <2>1, <2>2
<1> DEFINE K == {i \in 0..n : L[i] \in S}
<1>10. 0 \in K
  <2>1. 0 \in 0..n
    OBVIOUS
  <2> QED BY <1>3, <1>9, <2>1
<1>11. ASSUME NEW i \in 0..(n - 1), i \in K PROVE i + 1 \in K
  <2>1. i + 1 \in 1..n /\ i + 1 \in 0..n /\ (i + 1) - 1 = i
    OBVIOUS
  <2>2. L[i] \in S /\ d[i + 1] \in Nat /\ L[i + 1] = NextLex(L[i], d[i + 1])
    BY <1>9, <1>11, <2>1
  <2> QED BY <2>1, <2>2, NextLexIs
<1> HIDE DEF K
<1>12. \A i \in 0..n : i \in K
  BY <1>10, <1>11, Upward
<1>13. L \in [0..n -> S]
  <2>1. L = [i \in 0..n |-> L[i]]
    BY <1>1, <1>7
  <2> QED BY <1>12, <2>1 DEF K
<1> QED BY <1>8, <1>9, <1>13 DEF Lexicographic

LEMMA AppendIs ==
  ASSUME NEW i \in Nat, NEW y \in [1..i -> Nat], NEW r \in Nat
  PROVE  /\ Append(y, r) \in [1..(i + 1) -> Nat]
         /\ Append(y, r)[i + 1] = r
         /\ \A h \in 1..i : Append(y, r)[h] = y[h]
<1>1. y \in Seq(Nat) /\ Len(y) = i
  OBVIOUS
<1>2. Append(y, r) \in Seq(Nat) /\ Len(Append(y, r)) = i + 1
  BY <1>1, AppendProperties
<1>3. Append(y, r)[i + 1] = r
  BY <1>1, AppendProperties
<1>4. \A h \in 1..i : Append(y, r)[h] = y[h]
  BY <1>1, AppendProperties
<1>5. Append(y, r) \in [1..(i + 1) -> Nat]
  BY <1>2, LenProperties
<1> QED BY <1>3, <1>4, <1>5

\* The k-th indices are in bounds, and k - 1 is their linear index.
LEMMA LexCounts ==
  ASSUME NEW n \in Nat, NEW d \in [1..n -> Nat], NEW P, Products(P, d, n),
         NEW L, Lexicographic(L, d, n)
  PROVE  /\ Len(L[n]) = P[n]
         /\ \A k \in 1..P[n] : Inside(L[n][k], d, n) /\ \E V : LinearIn(V, L[n][k], d, n) /\ V[n] = k - 1
<1> DEFINE Right(i, k) == Inside(L[i][k], d, i) /\ \E V : LinearIn(V, L[i][k], d, i) /\ V[i] = k - 1
           S == {i \in 0..n : Len(L[i]) = P[i] /\ \A k \in 1..P[i] : Right(i, k)}
<1>1. 0 \in S
  <2>1. 0 \in 0..n /\ L[0] = << <<>> >> /\ P[0] = 1 /\ Len(L[0]) = 1 /\ L[0][1] = <<>>
    BY DEF Lexicographic, Products
  <2>2. Inside(<<>>, d, 0)
    BY DEF Inside
  <2> DEFINE V == [i \in 0..0 |-> 0]
  <2>3. LinearIn(V, <<>>, d, 0) /\ V[0] = 0
    BY DEF LinearIn
  <2> HIDE DEF V
  <2>4. Right(0, 1)
    BY <2>1, <2>2, <2>3
  <2>5. \A k \in 1..P[0] : k = 1
    BY <2>1
  <2> QED BY <2>1, <2>4, <2>5
<1>2. ASSUME NEW i \in 0..(n - 1), i \in S PROVE i + 1 \in S
  <2>1. /\ i \in 0..n /\ i + 1 \in 0..n /\ i + 1 \in 1..n /\ (i + 1) - 1 = i /\ i \in Nat
    OBVIOUS
  <2>2. PICK p \in Nat, m \in Nat : p = P[i] /\ m = d[i + 1] /\ P[i + 1] = p * m
    BY <2>1 DEF Products
  <2>3. PICK s \in Seq(Seq(Nat)) : s = L[i] /\ L[i + 1] = NextLex(s, m) /\ Len(s) = p
    BY <1>2, <2>1, <2>2 DEF Lexicographic
  <2>4. Len(L[i + 1]) = P[i + 1]
    BY <2>2, <2>3, NextLexIs
  <2>5. ASSUME NEW k \in 1..(p * m) PROVE Right(i + 1, k)
    <3>1. p * m \in Nat
      BY SMT
    <3>2. p \in Nat \ {0} /\ m \in Nat \ {0} /\ k - 1 \in 0..(p * m - 1) /\ k - 1 \in Nat
      BY <2>5, <3>1, SMT
    <3>3. PICK q \in Nat, r \in Nat :
            /\ q = (k - 1) \div m /\ r = (k - 1) % m
            /\ q \in 0..(p - 1) /\ r \in 0..(m - 1) /\ k - 1 = q * m + r
      <4>1. (k - 1) \div m \in 0..(p - 1)
        BY <3>2, QuotientFits
      <4>2. (k - 1) \div m \in Nat /\ (k - 1) % m \in 0..(m - 1)
            /\ k - 1 = ((k - 1) \div m) * m + ((k - 1) % m)
        BY <3>2, DivMod
      <4>3. (k - 1) % m \in Nat
        BY <3>2, <4>2
      <4> QED BY <4>1, <4>2, <4>3
    <3>4. PICK j \in 1..p : j = 1 + q /\ j - 1 = q
      <4>1. q \in 0..(p - 1)
        BY <3>3
      <4>2. 1 + q \in 1..p /\ (1 + q) - 1 = q
        BY <4>1
      <4> QED BY <4>2
    <3>5. Right(i, j)
      BY <1>2, <2>2, <3>4
    <3>6. PICK y, V : y = s[j] /\ Inside(y, d, i) /\ LinearIn(V, y, d, i) /\ V[i] = q
      BY <2>3, <3>4, <3>5
    <3> DEFINE x == Append(y, r)
               W == [h \in 0..(i + 1) |-> IF h = i + 1 THEN q * m + r ELSE V[h]]
    <3>7. L[i + 1][k] = x
      <4>1. k \in 1..(Len(s) * m)
        BY <2>3
      <4> QED BY <2>3, <3>3, <3>4, <3>6, <4>1 DEF NextLex
    <3>8. y \in [1..i -> Nat] /\ (\A h \in 1..i : y[h] < d[h])
      BY <3>6 DEF Inside
    <3>9. x \in [1..(i + 1) -> Nat] /\ x[i + 1] = r /\ \A h \in 1..i : x[h] = y[h]
      <4>1. i \in Nat /\ y \in [1..i -> Nat] /\ r \in Nat
        BY <2>1, <3>8
      <4>2. Append(y, r) \in [1..(i + 1) -> Nat] /\ Append(y, r)[i + 1] = r
        BY <4>1, AppendIs
      <4>3. \A h \in 1..i : Append(y, r)[h] = y[h]
        BY <4>1, AppendIs
      <4> QED BY <4>2, <4>3, Zenon
    <3> HIDE DEF x
    <3>10. Inside(x, d, i + 1)
      <4>1. r < m
        BY <3>2, <3>3
      <4>2. \A h \in 1..(i + 1) : h = i + 1 \/ h \in 1..i
        BY <2>1
      <4> QED BY <2>2, <3>8, <3>9, <4>1, <4>2 DEF Inside
    <3>11. W \in [0..(i + 1) -> Nat]
      <4>1. q * m + r \in Nat
        <5>1. PICK e : e = k - 1 /\ e \in Nat /\ e = q * m + r
          BY <3>2, <3>3
        <5> QED BY <5>1
      <4>2. \A h \in 0..(i + 1) : h = i + 1 \/ h \in 0..i
        BY <2>1
      <4>3. V \in [0..i -> Nat]
        BY <3>6 DEF LinearIn
      <4> QED BY <4>1, <4>2, <4>3
    <3>12. W[0] = 0 /\ W[i + 1] = q * m + r
      <4>1. 0 \in 0..(i + 1) /\ 0 # i + 1 /\ i + 1 \in 0..(i + 1)
        BY <2>1
      <4> QED BY <3>6, <4>1 DEF LinearIn
    <3>13. ASSUME NEW h \in 1..(i + 1) PROVE W[h] = W[h - 1] * d[h] + x[h]
      <4>1. CASE h = i + 1
        <5>1. i \in 0..(i + 1) /\ i # i + 1 /\ h - 1 = i
          BY <2>1, <4>1
        <5>2. W[h - 1] = q
          BY <3>6, <5>1
        <5> QED BY <2>2, <3>9, <3>12, <4>1, <5>2
      <4>2. CASE h # i + 1
        <5>1. h \in 1..i /\ h \in 0..(i + 1) /\ h - 1 \in 0..(i + 1) /\ h - 1 # i + 1
          BY <2>1, <4>2
        <5>2. W[h] = V[h] /\ W[h - 1] = V[h - 1] /\ x[h] = y[h]
          BY <3>9, <4>2, <5>1
        <5> QED BY <3>6, <5>1, <5>2 DEF LinearIn
      <4> QED BY <4>1, <4>2
    <3> HIDE DEF W
    <3>14. LinearIn(W, x, d, i + 1)
      BY <3>11, <3>12, <3>13 DEF LinearIn
    <3> QED BY <3>3, <3>7, <3>10, <3>12, <3>14
  <2> QED BY <2>1, <2>2, <2>4, <2>5
<1> HIDE DEF S
<1>3. n \in S
  <2>1. n \in 0..n
    OBVIOUS
  <2> QED BY <1>1, <1>2, <2>1, Upward
<1> QED BY <1>3 DEF S

-----------------------------------------------------------------------------
LEMMA ShapeOf ==
  ASSUME NEW d, FitsMachine(d)
  PROVE  Len(d) \in Nat /\ d \in [1..Len(d) -> Nat] /\ d \in Seq(Nat) /\ Volume(d) < Modulus
<1>1. d \in Seq(Cells) /\ Volume(d) < Modulus
  BY DEF FitsMachine
<1>2. Cells \subseteq Nat
  BY ModulusOK DEF Cells
<1>3. Len(d) \in Nat /\ d \in [1..Len(d) -> Cells]
  BY <1>1, LenProperties
<1>4. d \in [1..Len(d) -> Nat]
  BY <1>2, <1>3
<1>5. d \in Seq(Nat)
  BY <1>3, <1>4, SeqDef
<1> QED BY <1>1, <1>3, <1>4, <1>5

\* A scalar has one element, without indices.
LEMMA WithoutDimensions ==
  ASSUME NEW d \in [1..0 -> Nat]
  PROVE  /\ d = <<>>
         /\ \A x : Inside(x, d, 0) <=> x = <<>>
         /\ To1DIdx(<<>>, d) = 0 /\ \A c : From1DIdx(c, d) = <<>>
         /\ Lex(d) = << <<>> >>
<1>1. \A x : x \in [1..0 -> Nat] <=> x = <<>>
  <2>1. ASSUME NEW x \in [1..0 -> Nat] PROVE x = <<>>
    <3>1. x \in Seq(Nat) /\ Len(x) = 0
      OBVIOUS
    <3> QED BY <3>1, EmptySeq
  <2>2. <<>> \in [1..0 -> Nat]
    OBVIOUS
  <2> QED BY <2>1, <2>2
<1>2. d = <<>> /\ Len(d) = 0
  BY <1>1
<1>3. To1DIdx(<<>>, d) = 0
  BY DEF To1DIdx
<1>4. ASSUME NEW c PROVE From1DIdx(c, d) = <<>>
  <2>1. DOMAIN From1DIdx(c, d) = 1..0 /\ From1DIdx(c, d) = [i \in 1..0 |-> From1DIdx(c, d)[i]]
    BY <1>2 DEF From1DIdx
  <2> QED BY <2>1
<1>5. Lex(d) = << <<>> >>
  <2>1. PICK L : Lexicographic(L, d, 0) /\ Lex(d) = L[0]
    BY LexIs
  <2> QED BY <2>1 DEF Lexicographic
<1> QED BY <1>1, <1>2, <1>3, <1>4, <1>5 DEF Inside

\* Cells below the size of a tensor are where indices in bounds lead, one to
\* one: from1DIdx undoes to1DIdx and the other way round, and get1DSize is the
\* number of elements, although all three compute modulo the machine word.
THEOREM CellsAreIndices ==
  ASSUME NEW d, FitsMachine(d)
  PROVE  /\ Get1DSize(d) = Volume(d) /\ Get1DSize(d) \in 0..(Modulus - 1)
         /\ \A x : Inside(x, d, Len(d)) =>
              To1DIdx(x, d) \in 0..(Get1DSize(d) - 1) /\ From1DIdx(To1DIdx(x, d), d) = x
         /\ \A c \in 0..(Get1DSize(d) - 1) :
              Inside(From1DIdx(c, d), d, Len(d)) /\ To1DIdx(From1DIdx(c, d), d) = c
<1>1. PICK n \in Nat : n = Len(d)
  BY ShapeOf
<1>2. d \in [1..n -> Nat]
  BY <1>1, ShapeOf
<1>3. PICK P : Products(P, d, n) /\ Volume(d) = P[n]
  BY <1>2, VolumeIs
<1>4. P[n] \in Nat /\ P[n] < Modulus /\ Modulus \in Nat
  <2>1. n \in 0..n
    OBVIOUS
  <2> QED BY <1>3, <2>1, ShapeOf, ModulusOK DEF Products
<1>5. Get1DSize(d) = P[n]
  BY <1>2, <1>3, <1>4, SizeIs
<1>6. ASSUME NEW x, Inside(x, d, n)
      PROVE  To1DIdx(x, d) \in 0..(P[n] - 1) /\ From1DIdx(To1DIdx(x, d), d) = x
  <2>1. CASE n = 0
    <3>1. P[n] = 1
      BY <1>3, <2>1 DEF Products
    <3>2. d \in [1..0 -> Nat] /\ Inside(x, d, 0)
      BY <1>2, <1>6, <2>1
    <3>3. x = <<>> /\ To1DIdx(<<>>, d) = 0 /\ From1DIdx(0, d) = <<>>
      BY <3>2, WithoutDimensions
    <3> QED BY <3>1, <3>3
  <2>2. CASE n # 0
    <3>1. PICK V : LinearIn(V, x, d, n)
      BY <1>2, <1>6, LinearExists DEF Inside
    <3>2. To1DIdx(x, d) = V[n] /\ V[n] \in 0..(P[n] - 1)
      BY <1>2, <1>3, <1>4, <1>6, <2>2, <3>1, To1DIs
    <3>3. From1DIdx(V[n], d) = x
      BY <1>2, <1>6, <2>2, <3>1, BackToIndices
    <3> QED BY <3>2, <3>3
  <2> QED BY <2>1, <2>2
<1>7. ASSUME NEW c \in 0..(P[n] - 1)
      PROVE  Inside(From1DIdx(c, d), d, n) /\ To1DIdx(From1DIdx(c, d), d) = c
  <2>1. CASE n = 0
    <3>1. P[n] = 1
      BY <1>3, <2>1 DEF Products
    <3>2. c = 0 /\ d \in [1..0 -> Nat]
      BY <1>2, <2>1, <3>1
    <3>3. From1DIdx(c, d) = <<>> /\ Inside(<<>>, d, 0) /\ To1DIdx(<<>>, d) = 0
      BY <3>2, WithoutDimensions
    <3> QED BY <2>1, <3>2, <3>3
  <2>2. CASE n # 0
    <3>1. PICK x : x = From1DIdx(c, d)
      OBVIOUS
    <3>2. PICK V : LinearIn(V, x, d, n) /\ V[n] = c /\ Inside(x, d, n)
      BY <1>2, <1>3, <2>2, <3>1, CellsAreInside
    <3>3. To1DIdx(x, d) = V[n]
      BY <1>2, <1>3, <1>4, <2>2, <3>2, To1DIs
    <3> QED BY <3>1, <3>2, <3>3
  <2> QED BY <2>1, <2>2
<1> QED BY <1>1, <1>3, <1>4, <1>5, <1>6, <1>7

\* The linear index of the code is the place of indices in lexicographic order,
\* and the indices of that order are those in bounds: to1DIdx and from1DIdx
\* agree with what programs mean.
THEOREM LexIsRowMajor ==
  ASSUME NEW d, FitsMachine(d)
  PROVE  /\ Len(Lex(d)) = Get1DSize(d) /\ DOMAIN Lex(d) = 1..Get1DSize(d)
         /\ \A c \in 0..(Get1DSize(d) - 1) : Lex(d)[c + 1] = From1DIdx(c, d)
         /\ \A x : x \in Box(d) <=> Inside(x, d, Len(d))
         /\ \A x \in Box(d) : Linear(x, d) = To1DIdx(x, d)
<1>1. PICK n \in Nat : n = Len(d)
  BY ShapeOf
<1>2. d \in [1..n -> Nat]
  BY <1>1, ShapeOf
<1>3. PICK P : Products(P, d, n) /\ Volume(d) = P[n]
  BY <1>2, VolumeIs
<1>4. PICK L : Lexicographic(L, d, n) /\ Lex(d) = L[n]
  BY <1>2, LexIs
<1>5. PICK size \in Nat : size = P[n] /\ size = Get1DSize(d)
  <2>1. Get1DSize(d) = Volume(d) /\ Get1DSize(d) \in 0..(Modulus - 1)
    BY CellsAreIndices
  <2>2. Get1DSize(d) \in Nat
    BY <2>1
  <2> QED BY <1>3, <2>1, <2>2
<1>6. Len(Lex(d)) = size /\ DOMAIN Lex(d) = 1..size
  <2>1. Len(L[n]) = P[n]
    BY <1>2, <1>3, <1>4, LexCounts
  <2>2. n \in 0..n
    OBVIOUS
  <2>3. Lex(d) \in Seq(Seq(Nat))
    BY <1>4, <2>2 DEF Lexicographic
  <2> QED BY <1>4, <1>5, <2>1, <2>3, LenProperties
<1>7. ASSUME NEW c \in 0..(size - 1)
      PROVE  Lex(d)[c + 1] = From1DIdx(c, d) /\ c + 1 \in 1..size
  <2>1. c + 1 \in 1..size /\ (c + 1) - 1 = c
    OBVIOUS
  <2>2. PICK x, V : x = Lex(d)[c + 1] /\ Inside(x, d, n) /\ LinearIn(V, x, d, n) /\ V[n] = c
    <3>1. c + 1 \in 1..P[n]
      BY <1>5, <2>1
    <3>2. Inside(L[n][c + 1], d, n) /\ \E V : LinearIn(V, L[n][c + 1], d, n) /\ V[n] = (c + 1) - 1
      BY <1>2, <1>3, <1>4, <3>1, LexCounts
    <3> QED BY <1>4, <2>1, <3>2
  <2>3. From1DIdx(V[n], d) = x
    <3>1. CASE n = 0
      <4>1. d \in [1..0 -> Nat] /\ Inside(x, d, 0)
        BY <1>2, <2>2, <3>1
      <4>2. x = <<>> /\ From1DIdx(V[n], d) = <<>>
        BY <4>1, WithoutDimensions
      <4> QED BY <4>2
    <3>2. CASE n # 0
      BY <1>2, <2>2, <3>2, BackToIndices
    <3> QED BY <3>1, <3>2
  <2> QED BY <2>1, <2>2, <2>3
<1>8. /\ \A x : Inside(x, d, n) =>
           To1DIdx(x, d) \in 0..(size - 1) /\ From1DIdx(To1DIdx(x, d), d) = x
      /\ \A c \in 0..(size - 1) :
           Inside(From1DIdx(c, d), d, n) /\ To1DIdx(From1DIdx(c, d), d) = c
  BY <1>1, <1>5, CellsAreIndices
<1>9. ASSUME NEW i \in 1..size
      PROVE  i - 1 \in 0..(size - 1) /\ Lex(d)[i] = From1DIdx(i - 1, d)
  <2>1. i - 1 \in 0..(size - 1) /\ (i - 1) + 1 = i
    OBVIOUS
  <2>2. Lex(d)[(i - 1) + 1] = From1DIdx(i - 1, d)
    BY <1>7, <2>1
  <2> QED BY <2>1, <2>2
<1>10. ASSUME NEW x PROVE x \in Box(d) <=> Inside(x, d, n)
  <2>1. ASSUME x \in Box(d) PROVE Inside(x, d, n)
    <3>1. PICK i \in 1..size : x = Lex(d)[i]
      BY <1>6, <2>1 DEF Box, ToSet
    <3> QED BY <1>8, <1>9, <3>1
  <2>2. ASSUME Inside(x, d, n) PROVE x \in Box(d)
    <3>1. PICK c \in 0..(size - 1) : From1DIdx(c, d) = x
      BY <1>8, <2>2
    <3>2. Lex(d)[c + 1] = x /\ c + 1 \in 1..size
      BY <1>7, <3>1
    <3> QED BY <1>6, <3>2 DEF Box, ToSet
  <2> QED BY <2>1, <2>2
<1>11. ASSUME NEW x \in Box(d) PROVE Linear(x, d) = To1DIdx(x, d)
  <2>1. PICK c \in 0..(size - 1) : c = To1DIdx(x, d) /\ From1DIdx(c, d) = x
    BY <1>8, <1>10
  <2>2. c + 1 \in DOMAIN Lex(d) /\ Lex(d)[c + 1] = x
    BY <1>6, <1>7, <2>1
  <2>3. ASSUME NEW i \in DOMAIN Lex(d), Lex(d)[i] = x PROVE i = c + 1
    <3>1. i \in 1..size
      BY <1>6
    <3>2. i - 1 \in 0..(size - 1) /\ From1DIdx(i - 1, d) = x
      BY <1>9, <2>3, <3>1
    <3>3. i - 1 = c
      BY <1>8, <2>1, <3>2
    <3> QED BY <3>1, <3>3
  <2> DEFINE at == CHOOSE i \in DOMAIN Lex(d) : Lex(d)[i] = x
  <2>4. at = c + 1
    BY <2>2, <2>3
  <2>5. Linear(x, d) = at - 1
    BY DEF Linear
  <2> HIDE DEF at
  <2> QED BY <2>1, <2>4, <2>5
<1> QED BY <1>1, <1>5, <1>6, <1>7, <1>10, <1>11

-----------------------------------------------------------------------------
(* What indices in bounds read. *)

LEMMA InBox ==
  ASSUME NEW d, FitsMachine(d), NEW x \in Box(d)
  PROVE  /\ To1DIdx(x, d) \in 0..(Get1DSize(d) - 1) /\ To1DIdx(x, d) \in Cells
         /\ From1DIdx(To1DIdx(x, d), d) = x
<1>1. Inside(x, d, Len(d))
  BY LexIsRowMajor
<1>2. To1DIdx(x, d) \in 0..(Get1DSize(d) - 1) /\ From1DIdx(To1DIdx(x, d), d) = x
  BY <1>1, CellsAreIndices
<1>3. Get1DSize(d) \in 0..(Modulus - 1)
  BY CellsAreIndices
<1>4. To1DIdx(x, d) \in Cells
  BY <1>2, <1>3, ModulusOK DEF Cells
<1> QED BY <1>2, <1>4

LEMMA OfBox ==
  ASSUME NEW d, FitsMachine(d), NEW c \in Cells, c < Get1DSize(d)
  PROVE  From1DIdx(c, d) \in Box(d) /\ To1DIdx(From1DIdx(c, d), d) = c
<1>1. PICK size \in Nat : size = Get1DSize(d)
  <2>1. Get1DSize(d) \in 0..(Modulus - 1)
    BY CellsAreIndices
  <2> QED BY <2>1
<1>2. c \in 0..(Get1DSize(d) - 1)
  BY <1>1, ModulusOK DEF Cells
<1>3. Inside(From1DIdx(c, d), d, Len(d)) /\ To1DIdx(From1DIdx(c, d), d) = c
  BY <1>2, CellsAreIndices
<1> QED BY <1>3, LexIsRowMajor

\* Refinement of two tensors, one by one.
LEMMA Elementwise ==
  ASSUME NEW tgt, NEW src, FitsMachine(src.dims)
  PROVE  Refines(tgt, src) <=>
           /\ tgt.dims = src.dims
           /\ \A idx \in InitializedAt(src) :
                idx \in InitializedAt(tgt) /\ Denoted(Get(tgt, idx)) = Denoted(Get(src, idx))
<1> DEFINE Elem(idx) == idx \in InitializedAt(tgt) /\ Denoted(Get(tgt, idx)) = Denoted(Get(src, idx))
           Cell(c) == src.init[c] => tgt.init[c] /\ Denoted(tgt.arr[c]) = Denoted(src.arr[c])
<1>1. ASSUME Refines(tgt, src), NEW idx \in InitializedAt(src)
      PROVE  Elem(idx)
  <2>1. PICK c : c = To1DIdx(idx, src.dims)
    OBVIOUS
  <2>2. idx \in Box(src.dims) /\ src.init[c] /\ tgt.dims = src.dims
    BY <1>1, <2>1 DEF InitializedAt, IsInitialized, Refines, TensorRefines
  <2>3. c \in Cells /\ c < Get1DSize(src.dims)
    <3>1. c \in 0..(Get1DSize(src.dims) - 1) /\ c \in Cells
      BY <2>1, <2>2, InBox
    <3>2. Get1DSize(src.dims) \in 0..(Modulus - 1)
      BY CellsAreIndices
    <3> QED BY <3>1, <3>2
  <2>4. tgt.init[c] /\ Denoted(tgt.arr[c]) = Denoted(src.arr[c])
    BY <1>1, <2>2, <2>3 DEF Refines, TensorRefines, Size
  <2> QED BY <2>1, <2>2, <2>4 DEF InitializedAt, IsInitialized, Get
<1>2. ASSUME tgt.dims = src.dims, \A idx \in InitializedAt(src) : Elem(idx),
             NEW c \in Cells, c < Get1DSize(src.dims)
      PROVE  Cell(c)
  <2>1. PICK idx \in Box(src.dims) : To1DIdx(idx, src.dims) = c
    BY <1>2, OfBox
  <2>2. ASSUME src.init[c] PROVE tgt.init[c] /\ Denoted(tgt.arr[c]) = Denoted(src.arr[c])
    <3>1. idx \in InitializedAt(src)
      BY <2>1, <2>2 DEF InitializedAt, IsInitialized
    <3>2. Elem(idx)
      BY <1>2, <3>1
    <3> QED BY <1>2, <2>1, <3>2 DEF InitializedAt, IsInitialized, Get
  <2> QED BY <2>2
<1>3. Refines(tgt, src) => tgt.dims = src.dims
  BY DEF Refines, TensorRefines
<1>4. (tgt.dims = src.dims /\ \A c \in Cells : c < Get1DSize(src.dims) => Cell(c)) => Refines(tgt, src)
  BY DEF Refines, TensorRefines, Size
<1> HIDE DEF Elem, Cell
<1>5. (\A idx \in InitializedAt(src) : Elem(idx)) /\ tgt.dims = src.dims => Refines(tgt, src)
  BY <1>2, <1>4
<1>6. Refines(tgt, src) <=> tgt.dims = src.dims /\ \A idx \in InitializedAt(src) : Elem(idx)
  BY <1>1, <1>3, <1>5
<1> QED BY <1>6 DEF Elem

\* Whatever operations the registers come from, as long as machine indices can
\* count their elements: refinement compares exactly the elements that the
\* source has and initializes (Tensor::refines, ::refines).
THEOREM RefinementIsElementwise == RegistersFit => RefinesIsElementwise
<1> SUFFICES ASSUME RegistersFit PROVE RefinesIsElementwise
  OBVIOUS
<1>1. ASSUME NEW i \in DOMAIN regs, NEW j \in DOMAIN regs
      PROVE  Refines(regs[i].t, regs[j].t) <=>
               /\ regs[i].t.dims = regs[j].t.dims
               /\ \A idx \in InitializedAt(regs[j].t) :
                    /\ idx \in InitializedAt(regs[i].t)
                    /\ Denoted(Get(regs[i].t, idx)) = Denoted(Get(regs[j].t, idx))
  <2>1. FitsMachine(regs[j].t.dims)
    BY DEF RegistersFit
  <2> QED BY <2>1, Elementwise
<1> QED BY <1>1 DEF RefinesIsElementwise

\* A tensor after an insertion has the value where it was inserted, and
\* elsewhere what it had (Tensor::insert).
THEOREM InsertChangesOneElement ==
  ASSUME NEW t, FitsMachine(t.dims), NEW value, NEW at \in Box(t.dims), NEW idx \in Box(t.dims)
  PROVE  LET u == Insert(t, value, at)
         IN  /\ u.dims = t.dims
             /\ Get(u, idx) = IF idx = at THEN value ELSE Get(t, idx)
             /\ IsInitialized(u, idx) <=> idx = at \/ IsInitialized(t, idx)
<1>1. PICK c, k : c = To1DIdx(idx, t.dims) /\ k = To1DIdx(at, t.dims)
  OBVIOUS
<1>2. c \in Cells /\ From1DIdx(c, t.dims) = idx /\ From1DIdx(k, t.dims) = at
  BY <1>1, InBox
<1>3. c = k <=> idx = at
  BY <1>1, <1>2
<1> QED BY <1>1, <1>2, <1>3 DEF Insert, Tensor, Get, IsInitialized

IsTensor(t) == t = Tensor(t.dims, t.arr, t.init)

\* A reshaped tensor has the same elements in the same order (Tensor::reshape).
THEOREM ReshapeKeepsOrder ==
  ASSUME NEW t, IsTensor(t), FitsMachine(t.dims), NEW newdims, FitsMachine(newdims),
         Volume(newdims) = Volume(t.dims), NEW idx \in Box(newdims)
  PROVE  LET org == Lex(t.dims)[Linear(idx, newdims) + 1]
         IN  org \in Box(t.dims) /\ Get(Reshape(t, newdims), idx) = Get(t, org)
<1>1. PICK c : c = To1DIdx(idx, newdims)
  OBVIOUS
<1>2. c \in 0..(Get1DSize(newdims) - 1) /\ c \in Cells /\ Linear(idx, newdims) = c
  BY <1>1, InBox, LexIsRowMajor
<1>3. Get1DSize(newdims) = Get1DSize(t.dims) /\ Get1DSize(newdims) \in 0..(Modulus - 1)
  BY CellsAreIndices
<1>4. PICK x : x = From1DIdx(c, t.dims)
  OBVIOUS
<1>5. c < Get1DSize(t.dims)
  BY <1>2, <1>3
<1>6. Lex(t.dims)[c + 1] = x
  BY <1>2, <1>3, <1>4, LexIsRowMajor
<1>7. x \in Box(t.dims) /\ To1DIdx(x, t.dims) = c
  BY <1>2, <1>4, <1>5, OfBox
<1>8. Get(Reshape(t, newdims), idx) = t.arr[c]
  <2>1. PICK dims, arr, init : t = [dims |-> dims, arr |-> arr, init |-> init]
    BY DEF IsTensor, Tensor
  <2> QED BY <1>1, <2>1 DEF Reshape, Get
<1> QED BY <1>2, <1>6, <1>7, <1>8 DEF Get

\* A constant has the elements of its attribute, in row major order
\* (Tensor(elems, dims)).
THEOREM ConstantsAreRowMajor ==
  ASSUME NEW dims, FitsMachine(dims), NEW elems, Len(elems) = Volume(dims), NEW idx \in Box(dims)
  PROVE  Get(FromElems(elems, dims), idx) = elems[Linear(idx, dims) + 1]
<1>1. PICK c : c = To1DIdx(idx, dims)
  OBVIOUS
<1>2. c \in 0..(Get1DSize(dims) - 1) /\ c \in Cells /\ Linear(idx, dims) = c
  BY <1>1, InBox, LexIsRowMajor
<1>3. Get1DSize(dims) = Len(elems) /\ Get1DSize(dims) \in 0..(Modulus - 1)
  BY CellsAreIndices
<1>4. c < Len(elems)
  BY <1>2, <1>3
<1> QED BY <1>1, <1>2, <1>4 DEF FromElems, Tensor, Get

\* A sum takes every element of a tensor once, in order, and nothing from
\* behind the last (Tensor::sum).
THEOREM SumsTakeEveryElement ==
  ASSUME NEW t, FitsMachine(t.dims), NEW init
  PROVE  Sum(t, init) =
           App("sum", init \o [i \in 1..Len(Lex(t.dims)) |-> Get(t, Lex(t.dims)[i])])
<1>1. PICK size \in Nat : size = Get1DSize(t.dims) /\ size = Len(Lex(t.dims)) /\ size < Modulus
  <2>1. Get1DSize(t.dims) \in 0..(Modulus - 1) /\ Len(Lex(t.dims)) = Get1DSize(t.dims)
    BY CellsAreIndices, LexIsRowMajor
  <2> QED BY <2>1, ModulusOK
<1>2. ASSUME NEW i \in 1..size PROVE t.arr[i - 1] = Get(t, Lex(t.dims)[i])
  <2>1. i - 1 \in 0..(size - 1) /\ i - 1 < size /\ (i - 1) + 1 = i
    OBVIOUS
  <2>2. i - 1 \in Cells
    BY <1>1, <2>1, ModulusOK DEF Cells
  <2>3. Lex(t.dims)[(i - 1) + 1] = From1DIdx(i - 1, t.dims)
    BY <1>1, <2>1, LexIsRowMajor
  <2>4. To1DIdx(From1DIdx(i - 1, t.dims), t.dims) = i - 1
    BY <1>1, <2>1, <2>2, OfBox
  <2> QED BY <2>1, <2>3, <2>4 DEF Get
<1>3. [i \in 1..size |-> t.arr[i - 1]] = [i \in 1..size |-> Get(t, Lex(t.dims)[i])]
  BY <1>2
<1> QED BY <1>1, <1>3 DEF Sum, SumOf, Elems, Size

-----------------------------------------------------------------------------
(***************************************************************************)
(* Operations that move elements: for indices in bounds the result has an  *)
(* element of an operand, whose indices are in its bounds, too, and no     *)
(* arithmetic wraps.                                                       *)
(***************************************************************************)
LEMMA BoxIs ==
  ASSUME NEW d, FitsMachine(d), NEW n, n = Len(d)
  PROVE  /\ n \in Nat /\ d \in [1..n -> Nat] /\ d \in [1..n -> Cells]
         /\ \A i \in 1..n : d[i] \in Nat /\ d[i] < Modulus
         /\ \A x : x \in Box(d) <=> Inside(x, d, n)
<1>1. n \in Nat /\ d \in [1..n -> Nat] /\ \A x : x \in Box(d) <=> Inside(x, d, n)
  BY ShapeOf, LexIsRowMajor
<1>2. d \in [1..n -> Cells]
  BY LenProperties DEF FitsMachine
<1>3. \A i \in 1..n : d[i] \in Nat /\ d[i] < Modulus
  BY <1>2, ModulusOK DEF Cells
<1> QED BY <1>1, <1>2, <1>3

\* Numbers below the modulus do not wrap.
LEMMA NoWrap ==
  ASSUME NEW v \in Nat, v < Modulus
  PROVE  Wrap(v) = v
<1>1. v \in 0..(Modulus - 1) /\ Modulus \in Nat \ {0}
  BY ModulusOK
<1> QED BY <1>1, Small DEF Wrap

\* Tensor::reverse counts one axis from its end.
THEOREM ReverseTakesFromTheEnd ==
  ASSUME NEW t, FitsMachine(t.dims), NEW axis \in 1..Len(t.dims), NEW idx \in Box(t.dims)
  PROVE  LET org == [idx EXCEPT ![axis] = t.dims[axis] - 1 - idx[axis]]
             u == ReverseAxis(t, axis)
         IN  u.dims = t.dims /\ org \in Box(t.dims) /\ Get(u, idx) = Get(t, org)
<1>1. PICK n, d : n = Len(d) /\ d = t.dims
  OBVIOUS
<1>2. /\ n \in Nat /\ d \in [1..n -> Nat] /\ Inside(idx, d, n) /\ axis \in 1..n
      /\ d[axis] \in Nat /\ d[axis] < Modulus
      /\ \A x : x \in Box(d) <=> Inside(x, d, n)
  BY <1>1, BoxIs
<1>3. idx \in [1..n -> Nat] /\ \A i \in 1..n : idx[i] < d[i]
  BY <1>2 DEF Inside
<1>4. d # <<>> /\ Shape(d) = d
  <2>1. n # 0
    BY <1>2
  <2>2. d # <<>>
    BY <1>1, <2>1, EmptySeq
  <2> QED BY <2>2 DEF Shape
<1> DEFINE org == [idx EXCEPT ![axis] = d[axis] - 1 - idx[axis]]
<1>5. PICK v \in Nat : v = d[axis] - 1 - idx[axis] /\ v = d[axis] - idx[axis] - 1 /\ v < d[axis] /\ v < Modulus
  <2>1. PICK a \in Nat, b \in Nat : a = d[axis] /\ b = idx[axis] /\ b < a /\ a < Modulus
    BY <1>2, <1>3
  <2>2. a - 1 - b \in Nat /\ a - 1 - b = a - b - 1 /\ a - 1 - b < a
    BY <2>1
  <2>3. a - 1 - b < Modulus
    BY <2>1, <2>2, ModulusOK
  <2> QED BY <2>1, <2>2, <2>3
<1>6. Wrap(d[axis] - idx[axis] - 1) = v
  BY <1>5, NoWrap
<1>7. org \in Box(d)
  <2>1. org \in [1..n -> Nat] /\ \A i \in 1..n : org[i] < d[i]
    BY <1>2, <1>3, <1>5
  <2> QED BY <1>2, <2>1 DEF Inside
<1>8. PICK c \in Cells : c = To1DIdx(idx, d) /\ From1DIdx(c, d) = idx
  BY <1>1, InBox
<1>9. ReverseAxis(t, axis).dims = d
  BY <1>1, <1>4 DEF ReverseAxis, MkInitializedLambda, MkLambda, Tensor
<1>10. ReverseAxis(t, axis).arr[c] = Get(t, [idx EXCEPT ![axis] = Wrap(d[axis] - idx[axis] - 1)])
  BY <1>1, <1>4, <1>8 DEF ReverseAxis, MkInitializedLambda, MkLambda, Tensor
<1>11. [idx EXCEPT ![axis] = Wrap(d[axis] - idx[axis] - 1)] = org
  BY <1>5, <1>6
<1> HIDE DEF org
<1>12. Get(ReverseAxis(t, axis), idx) = Get(t, org)
  BY <1>8, <1>9, <1>10, <1>11 DEF Get
<1> QED BY <1>1, <1>7, <1>9, <1>12 DEF org

\* Tensor::concat puts the second tensor behind the first along one axis.
THEOREM ConcatTakesBothInTurn ==
  ASSUME NEW t, FitsMachine(t.dims), NEW t2, FitsMachine(t2.dims),
         NEW axis \in 1..Len(t.dims),
         Len(t2.dims) = Len(t.dims),
         \A i \in 1..Len(t.dims) : i # axis => t2.dims[i] = t.dims[i],
         NEW dims, dims = [t.dims EXCEPT ![axis] = t.dims[axis] + t2.dims[axis]],
         FitsMachine(dims), NEW idx \in Box(dims)
  PROVE  LET u == Concat(t, t2, axis)
             org == [idx EXCEPT ![axis] = idx[axis] - t.dims[axis]]
         IN  /\ u.dims = dims
             /\ idx[axis] < t.dims[axis] => idx \in Box(t.dims) /\ Get(u, idx) = Get(t, idx)
             /\ idx[axis] >= t.dims[axis] => org \in Box(t2.dims) /\ Get(u, idx) = Get(t2, org)
<1>1. PICK n, d, d2 : n = Len(d) /\ d = t.dims /\ d2 = t2.dims /\ n = Len(d2)
  OBVIOUS
<1>2. /\ n \in Nat /\ d \in [1..n -> Nat] /\ axis \in 1..n
      /\ \A x : x \in Box(d) <=> Inside(x, d, n)
  BY <1>1, BoxIs
<1>3. d2 \in [1..n -> Nat] /\ \A x : x \in Box(d2) <=> Inside(x, d2, n)
  BY <1>1, BoxIs
<1>4. PICK a \in Nat, b \in Nat : a = d[axis] /\ b = d2[axis]
  BY <1>2, <1>3
<1>5. dims \in [1..n -> Nat] /\ dims[axis] = a + b /\ \A i \in 1..n : i # axis => dims[i] = d[i]
  BY <1>1, <1>2, <1>4
<1>6. Len(dims) = n
  BY <1>2, <1>5
<1>7. Inside(idx, dims, n) /\ a + b < Modulus
  BY <1>2, <1>5, <1>6, BoxIs
<1>8. idx \in [1..n -> Nat] /\ \A i \in 1..n : idx[i] < dims[i]
  BY <1>7 DEF Inside
<1>9. [t.dims EXCEPT ![axis] = Wrap(@ + t2.dims[axis])] = dims
  <2>1. Wrap(a + b) = a + b
    BY <1>7, NoWrap
  <2> QED BY <1>1, <1>4, <2>1
<1>10. dims # <<>> /\ Shape(dims) = dims
  <2>1. n # 0
    BY <1>2
  <2>2. dims # <<>>
    BY <1>6, <2>1, EmptySeq
  <2> QED BY <2>2 DEF Shape
<1>11. PICK c \in Cells : c = To1DIdx(idx, dims) /\ From1DIdx(c, dims) = idx
  BY InBox
<1>12. PICK u : u = Concat(t, t2, axis)
  OBVIOUS
<1>13. /\ u.dims = dims
       /\ u.arr[c] = IF idx[axis] < t.dims[axis] THEN Get(t, idx)
                     ELSE Get(t2, [idx EXCEPT ![axis] = Wrap(@ - t.dims[axis])])
  BY <1>9, <1>10, <1>11, <1>12 DEF Concat, MkInitializedLambda, MkLambda, Tensor
<1>14. Get(u, idx) = u.arr[c]
  BY <1>11, <1>13 DEF Get
<1>15. PICK j \in Nat : j = idx[axis] /\ j < a + b
  BY <1>2, <1>5, <1>8
<1>16. ASSUME j < a PROVE idx \in Box(d) /\ Get(u, idx) = Get(t, idx)
  <2>1. \A i \in 1..n : idx[i] < d[i]
    BY <1>4, <1>5, <1>8, <1>15, <1>16
  <2>2. Inside(idx, d, n)
    BY <1>8, <2>1 DEF Inside
  <2> QED BY <1>1, <1>2, <1>4, <1>13, <1>14, <1>15, <1>16, <2>2
<1> DEFINE org == [idx EXCEPT ![axis] = j - a]
<1>17. ASSUME j >= a PROVE org \in Box(d2) /\ Get(u, idx) = Get(t2, org)
  <2>1. j - a \in Nat /\ j - a < b /\ j - a < Modulus /\ ~(j < a)
    BY <1>7, <1>15, <1>17, ModulusOK
  <2>2. Wrap(j - a) = j - a
    BY <2>1, NoWrap
  <2>3. [idx EXCEPT ![axis] = Wrap(@ - t.dims[axis])] = org
    BY <1>1, <1>4, <1>15, <2>2
  <2>4. org \in [1..n -> Nat]
    BY <1>8, <2>1
  <2>5. ASSUME NEW i \in 1..n PROVE org[i] < d2[i]
    <3>1. CASE i = axis
      BY <1>4, <1>8, <2>1, <3>1
    <3>2. CASE i # axis
      <4>1. org[i] = idx[i] /\ d2[i] = d[i] /\ dims[i] = d[i]
        BY <1>1, <1>5, <1>8, <3>2
      <4> QED BY <1>8, <4>1
    <3> QED BY <3>1, <3>2
  <2> HIDE DEF org
  <2>6. Inside(org, d2, n)
    BY <2>4, <2>5 DEF Inside
  <2> QED BY <1>1, <1>3, <1>4, <1>13, <1>14, <1>15, <2>1, <2>3, <2>6
<1> QED BY <1>1, <1>4, <1>12, <1>13, <1>15, <1>16, <1>17

\* Tensor::tile repeats a tensor along its axes.
THEOREM TileRepeats ==
  ASSUME NEW t, FitsMachine(t.dims), NEW n, n = Len(t.dims), n # 0,
         NEW repeat \in [1..n -> Nat],
         NEW dims, dims = [i \in 1..n |-> t.dims[i] * repeat[i]],
         FitsMachine(dims), NEW idx \in Box(dims)
  PROVE  LET u == Tile(t, repeat)
             org == [i \in 1..n |-> idx[i] % t.dims[i]]
         IN  u.dims = dims /\ org \in Box(t.dims) /\ Get(u, idx) = Get(t, org)
<1>1. PICK d : d = t.dims
  OBVIOUS
<1>2. /\ n \in Nat /\ d \in [1..n -> Nat]
      /\ \A x : x \in Box(d) <=> Inside(x, d, n)
  BY <1>1, BoxIs
<1>3. dims \in [1..n -> Nat] /\ \A i \in 1..n : dims[i] < Modulus
  <2>1. Len(dims) = n
    BY <1>2
  <2> QED BY <2>1, BoxIs
<1>4. Inside(idx, dims, n)
  <2>1. Len(dims) = n
    BY <1>2
  <2> QED BY <2>1, BoxIs
<1>5. idx \in [1..n -> Nat] /\ \A i \in 1..n : idx[i] < dims[i]
  BY <1>4 DEF Inside
<1>6. [i \in DOMAIN repeat |-> Wrap(t.dims[i] * repeat[i])] = dims
  <2>1. ASSUME NEW i \in 1..n PROVE Wrap(t.dims[i] * repeat[i]) = dims[i]
    <3>1. PICK v \in Nat : v = dims[i] /\ v = t.dims[i] * repeat[i] /\ v < Modulus
      BY <1>3
    <3> QED BY <3>1, NoWrap
  <2>2. DOMAIN repeat = 1..n /\ dims = [i \in 1..n |-> dims[i]]
    BY <1>3
  <2> QED BY <2>1, <2>2
<1>7. dims # <<>> /\ Shape(dims) = dims
  <2>1. Len(dims) = n
    BY <1>2
  <2>2. dims # <<>>
    BY <2>1, EmptySeq
  <2> QED BY <2>2 DEF Shape
<1>8. PICK c \in Cells : c = To1DIdx(idx, dims) /\ From1DIdx(c, dims) = idx
  BY InBox
<1> DEFINE org == [i \in 1..n |-> idx[i] % d[i]]
<1>9. ASSUME NEW i \in 1..n
      PROVE  URem(idx[i], d[i]) = idx[i] % d[i] /\ org[i] \in Nat /\ org[i] < d[i]
  <2>1. PICK s \in Nat, r \in Nat, x \in Nat : s = d[i] /\ r = repeat[i] /\ x = idx[i] /\ x < s * r
    BY <1>1, <1>2, <1>5
  <2>2. s # 0
    BY <2>1, SMT
  <2>3. x % s \in 0..(s - 1)
    BY <2>2, DivMod
  <2>4. URem(x, s) = x % s
    BY <2>2 DEF URem
  <2> QED BY <2>1, <2>3, <2>4
<1>10. [i \in DOMAIN idx |-> URem(idx[i], t.dims[i])] = org
  BY <1>1, <1>5, <1>9
<1>11. org \in Box(d)
  <2>1. org \in [1..n -> Nat]
    BY <1>9
  <2>2. \A i \in 1..n : org[i] < d[i]
    BY <1>9
  <2> HIDE DEF org
  <2>3. Inside(org, d, n)
    BY <2>1, <2>2 DEF Inside
  <2> QED BY <1>2, <2>3
<1> HIDE DEF org
<1>12. PICK u : u = Tile(t, repeat)
  OBVIOUS
<1>13. u.dims = dims /\ u.arr[c] = Get(t, [i \in DOMAIN idx |-> URem(idx[i], t.dims[i])])
  <2>1. u = MkInitializedLambda(dims, LAMBDA x : Get(t, [i \in DOMAIN x |-> URem(x[i], t.dims[i])]))
    BY <1>6, <1>12, Zenon DEF Tile
  <2>2. u.dims = Shape(dims)
    BY <2>1 DEF MkInitializedLambda, MkLambda, Tensor
  <2>3. u.arr = [k \in Cells |-> LET x == From1DIdx(k, Shape(dims))
                                  IN  Get(t, [i \in DOMAIN x |-> URem(x[i], t.dims[i])])]
    BY <2>1 DEF MkInitializedLambda, MkLambda, Tensor
  <2>4. u.arr[c] = LET x == From1DIdx(c, Shape(dims))
                   IN  Get(t, [i \in DOMAIN x |-> URem(x[i], t.dims[i])])
    BY <1>8, <2>3
  <2> QED BY <1>7, <1>8, <2>2, <2>4
<1>14. Get(u, idx) = Get(t, org)
  BY <1>8, <1>10, <1>13 DEF Get
<1> QED BY <1>1, <1>11, <1>12, <1>13, <1>14 DEF org

\* Tensor::transpose swaps the indices of a matrix.
THEOREM TransposeSwaps ==
  ASSUME NEW a \in Nat, NEW b \in Nat, NEW t, t.dims = <<a, b>>,
         FitsMachine(<<a, b>>), FitsMachine(<<b, a>>), NEW i \in Nat, NEW j \in Nat, i < b, j < a
  PROVE  /\ Transpose(t).dims = <<b, a>>
         /\ <<i, j>> \in Box(<<b, a>>) /\ <<j, i>> \in Box(<<a, b>>)
         /\ Get(Transpose(t), <<i, j>>) = Get(t, <<j, i>>)
<1>1. <<i, j>> \in Box(<<b, a>>)
  <2>1. Len(<<b, a>>) = 2 /\ Inside(<<i, j>>, <<b, a>>, 2)
    BY DEF Inside
  <2> QED BY <2>1, BoxIs
<1>2. <<j, i>> \in Box(<<a, b>>)
  <2>1. Len(<<a, b>>) = 2 /\ Inside(<<j, i>>, <<a, b>>, 2)
    BY DEF Inside
  <2> QED BY <2>1, BoxIs
<1>3. PICK c \in Cells : c = To1DIdx(<<i, j>>, <<b, a>>) /\ From1DIdx(c, <<b, a>>) = <<i, j>>
  BY <1>1, InBox
<1>4. Shape(<<b, a>>) = <<b, a>>
  BY DEF Shape
<1>5. PICK u : u = Transpose(t)
  OBVIOUS
<1>6. u.dims = <<b, a>> /\ u.arr[c] = Get(t, <<j, i>>)
  BY <1>3, <1>4, <1>5 DEF Transpose, MkInitializedLambda, MkLambda, Tensor
<1> QED BY <1>1, <1>2, <1>3, <1>5, <1>6 DEF Get

-----------------------------------------------------------------------------
(* Products of matrices. *)

\* The elements of a row, one after the other.
LEMMA RowIs ==
  ASSUME NEW m \in Nat, NEW k \in Nat, NEW t, t.dims = <<m, k>>, m < Modulus, k < Modulus,
         NEW i \in 0..(m - 1), NEW c \in 0..(k - 1)
  PROVE  To1DArrayWithOfs(t, <<i, 0>>, <<1, k>>)[c] = Get(t, <<i, c>>)
<1>1. i \in Nat /\ i < Modulus /\ c \in Nat /\ c < Modulus /\ c < k /\ c \in Cells
  BY ModulusOK DEF Cells
<1> DEFINE d == <<1, k>>
           x == <<0, c>>
           V == [h \in 0..2 |-> IF h = 2 THEN c ELSE 0]
<1>2. From1DIdx(c, d) = x
  <2>1. d \in [1..2 -> Nat] /\ 2 \in Nat \ {0}
    OBVIOUS
  <2>2. Inside(x, d, 2)
    <3>1. \A h \in 1..2 : h = 1 \/ h = 2
      OBVIOUS
    <3> QED BY <1>1, <3>1 DEF Inside
  <2>3. LinearIn(V, x, d, 2) /\ V[2] = c
    <3>1. V \in [0..2 -> Nat] /\ V[0] = 0 /\ V[1] = 0 /\ V[2] = c
      BY <1>1
    <3>2. V[1] = V[1 - 1] * d[1] + x[1] /\ V[2] = V[2 - 1] * d[2] + x[2]
      BY <1>1, <3>1
    <3>3. \A h \in 1..2 : h = 1 \/ h = 2
      OBVIOUS
    <3> HIDE DEF V, d, x
    <3> QED BY <3>1, <3>2, <3>3 DEF LinearIn
  <2> HIDE DEF V, d, x
  <2> QED BY <2>1, <2>2, <2>3, BackToIndices
<1>3. Wrap(0 + i) = i /\ Wrap(c + 0) = c
  BY <1>1, NoWrap
<1>4. [h \in DOMAIN <<i, 0>> |-> Wrap(x[h] + <<i, 0>>[h])] = <<i, c>>
  <2>1. DOMAIN <<i, 0>> = 1..2 /\ \A h \in 1..2 : h = 1 \/ h = 2
    OBVIOUS
  <2>2. [h \in DOMAIN <<i, 0>> |-> Wrap(x[h] + <<i, 0>>[h])] = <<Wrap(0 + i), Wrap(c + 0)>>
    BY <2>1
  <2> QED BY <1>3, <2>2
<1> HIDE DEF x, d
<1>5. To1DArrayWithOfs(t, <<i, 0>>, d)[c] = Get(t, [h \in DOMAIN <<i, 0>> |-> Wrap(x[h] + <<i, 0>>[h])])
  BY <1>1, <1>2 DEF To1DArrayWithOfs
<1> QED BY <1>4, <1>5 DEF d

\* An element of a product is the sum over a row of the first matrix and a
\* column of the second, in order and added to what is accumulated
\* (Tensor::matmul, which transposes the second to take rows only).
THEOREM MatMulSumsRowTimesColumn ==
  ASSUME NEW m \in Nat, NEW k \in Nat, NEW n \in Nat,
         NEW a, a.dims = <<m, k>>, FitsMachine(<<m, k>>),
         NEW b, b.dims = <<k, n>>, FitsMachine(<<k, n>>), FitsMachine(<<n, k>>),
         FitsMachine(<<m, n>>), NEW i \in 0..(m - 1), NEW j \in 0..(n - 1), NEW init
  PROVE  LET u == MatMul(a, b, FALSE, init)
         IN  /\ u.dims = <<m, n>>
             /\ Get(u, <<i, j>>) =
                  App("sum", InitAt(init, <<i, j>>) \o
                             [h \in 1..k |-> Mul(Get(a, <<i, h - 1>>), Get(b, <<h - 1, j>>))])
<1>1. m < Modulus /\ k < Modulus /\ n < Modulus
  <2>1. <<m, k>> \in Seq(Cells) /\ <<n, k>> \in Seq(Cells)
    BY DEF FitsMachine
  <2>2. m \in Cells /\ k \in Cells /\ n \in Cells
    BY <2>1
  <2> QED BY <2>2, ModulusOK DEF Cells
<1>2. i \in Nat /\ j \in Nat /\ i < m /\ j < n
  OBVIOUS
<1>3. PICK bt : bt = Transpose(b)
  OBVIOUS
<1>4. bt.dims = <<n, k>> /\ bt.dims[1] = n
  <2>1. Shape(<<n, k>>) = <<n, k>>
    BY DEF Shape
  <2> QED BY <1>3, <2>1 DEF Transpose, MkInitializedLambda, MkLambda, Tensor
<1> DEFINE Row(t, r) == To1DArrayWithOfs(t, <<r, 0>>, <<1, k>>)
<1>5. ASSUME NEW h \in 1..k
      PROVE  /\ Row(a, i)[h - 1] = Get(a, <<i, h - 1>>)
             /\ Row(bt, j)[h - 1] = Get(b, <<h - 1, j>>)
  <2>1. PICK c \in Nat : c = h - 1 /\ c \in 0..(k - 1) /\ c < k
    OBVIOUS
  <2>2. Row(a, i)[c] = Get(a, <<i, c>>)
    BY <1>1, <2>1, RowIs
  <2>3. Row(bt, j)[c] = Get(bt, <<j, c>>)
    BY <1>1, <1>4, <2>1, RowIs
  <2>4. Get(bt, <<j, c>>) = Get(b, <<c, j>>)
    <3>1. j \in Nat /\ c \in Nat /\ j < n /\ c < k
      BY <1>2, <2>1
    <3>2. Get(Transpose(b), <<j, c>>) = Get(b, <<c, j>>)
      <4> HIDE DEF Row
      <4>1. /\ k \in Nat /\ n \in Nat /\ b.dims = <<k, n>>
            /\ FitsMachine(<<k, n>>) /\ FitsMachine(<<n, k>>)
        OBVIOUS
      <4> QED BY <3>1, <4>1, TransposeSwaps, SMTT(30)
    <3> QED BY <1>3, <3>2
  <2> QED BY <2>1, <2>2, <2>3, <2>4
<1> DEFINE terms == [h \in 1..k |-> Mul(Get(a, <<i, h - 1>>), Get(b, <<h - 1, j>>))]
<1>6. [h \in 1..k |-> Mul(Row(a, i)[h - 1], Row(bt, j)[h - 1])] = terms
  BY <1>5
<1>7. <<i, j>> \in Box(<<m, n>>)
  <2>1. Len(<<m, n>>) = 2 /\ Inside(<<i, j>>, <<m, n>>, 2)
    BY <1>2 DEF Inside
  <2> QED BY <2>1, BoxIs
<1>8. PICK c \in Cells : c = To1DIdx(<<i, j>>, <<m, n>>) /\ From1DIdx(c, <<m, n>>) = <<i, j>>
  BY <1>7, InBox
<1>9. Shape(<<m, n>>) = <<m, n>>
  BY DEF Shape
<1>10. PICK u : u = MatMul(a, b, FALSE, init)
  OBVIOUS
<1> DEFINE Product == DotOf(Row(a, i), Row(bt, j), k, InitAt(init, <<i, j>>))
<1>11. u.dims = <<m, n>> /\ u.arr[c] = Product
  <2>1. a.dims[1] = m /\ a.dims[2] = k /\ bt.dims[2] = k
    BY <1>4
  <2> QED BY <1>3, <1>4, <1>8, <1>9, <1>10, <2>1 DEF MatMul, MkInitializedLambda, MkLambda, Tensor
<1>12. Product = App("sum", InitAt(init, <<i, j>>) \o terms)
  BY <1>6 DEF DotOf
<1> HIDE DEF Product, terms
<1>13. Get(u, <<i, j>>) = App("sum", InitAt(init, <<i, j>>) \o terms)
  BY <1>8, <1>11, <1>12 DEF Get
<1> QED BY <1>10, <1>11, <1>13 DEF terms

-----------------------------------------------------------------------------
(* Constants. *)

\* The first of related constants.
LEMMA FoundIs ==
  ASSUME NEW S, S \subseteq Nat, NEW i \in S, \A j \in S : i <= j
  PROVE  Found(S) = i
<1>1. \A k \in S : (\A j \in S : k <= j) => k = i
  OBVIOUS
<1> QED BY <1>1 DEF Found

\* What grows keeps what was in it.
Continues(known, later) ==
  /\ Len(known) <= Len(later)
  /\ \A i \in 1..Len(known) : later[i] = known[i]

\* A constant that is met again is the tensor that it was before, whatever was
\* added to the list of known constants in between: what it is made of, or
\* itself, stays the first in the list that it is related to
\* (Tensor::fromElemsAttr).
THEOREM ConstantsStay ==
  ASSUME NEW S, NEW known \in Seq(S), NEW later \in Seq(S), NEW attr,
         Continues(FromElemsAttr(attr, known).known, later)
  PROVE  LET before == FromElemsAttr(attr, known).t
             again == FromElemsAttr(attr, later).t
         IN  again = before /\ Refines(again, before)
<1> DEFINE Rel(list) == {i \in DOMAIN list : Related(attr, list[i].attr)}
           before == FromElemsAttr(attr, known).t
           again == FromElemsAttr(attr, later).t
<1>1. PICK n \in Nat, m \in Nat :
        /\ n = Len(known) /\ DOMAIN known = 1..n
        /\ m = Len(later) /\ DOMAIN later = 1..m
  BY LenProperties
<1>2. again = before
  <2>1. CASE IsSplat(attr) \/ NumElements(attr) <= MaxConstSize
    BY <2>1 DEF FromElemsAttr
  <2>2. CASE ~IsSplat(attr) /\ ~(NumElements(attr) <= MaxConstSize) /\ Rel(known) # {}
    <3>1. FromElemsAttr(attr, known) = [t |-> FromKnown(attr, known[Found(Rel(known))]), known |-> known]
      BY <2>2 DEF FromElemsAttr
    <3>2. n <= m /\ \A i \in 1..n : later[i] = known[i]
      BY <1>1, <3>1 DEF Continues
    <3>3. Rel(known) \subseteq Nat
      BY <1>1
    <3>4. PICK i \in Rel(known) : \A j \in Rel(known) : i <= j
      BY <2>2, <3>3, Least
    <3>5. Found(Rel(known)) = i
      BY <3>3, <3>4, FoundIs
    <3>6. i \in 1..n /\ i \in 1..m /\ later[i] = known[i] /\ Related(attr, known[i].attr)
      BY <1>1, <3>2
    <3>7. i \in Rel(later) /\ Rel(later) \subseteq Nat
      BY <1>1, <3>6
    <3>8. ASSUME NEW j \in Rel(later) PROVE i <= j
      <4>1. j \in 1..m /\ Related(attr, later[j].attr)
        BY <1>1
      <4>2. CASE j \in 1..n
        <5>1. j \in Rel(known)
          BY <1>1, <3>2, <4>1, <4>2
        <5> QED BY <3>4, <5>1
      <4>3. CASE j \notin 1..n
        BY <3>6, <4>1, <4>3
      <4> QED BY <4>2, <4>3
    <3> HIDE DEF Rel
    <3>9. Found(Rel(later)) = i
      BY <3>7, <3>8, FoundIs
    <3>10. Rel(later) # {}
      BY <3>7
    <3>11. FromElemsAttr(attr, later).t = FromKnown(attr, later[Found(Rel(later))])
      BY <2>2, <3>10 DEF FromElemsAttr, Rel
    <3> QED BY <3>1, <3>5, <3>6, <3>9, <3>11
  <2>3. CASE ~IsSplat(attr) /\ ~(NumElements(attr) <= MaxConstSize) /\ Rel(known) = {}
    <3> DEFINE new == NewConstant(attr, known)
               entry == [attr |-> attr, t |-> new]
    <3>1. FromElemsAttr(attr, known) = [t |-> new, known |-> Append(known, entry)]
      BY <2>3 DEF FromElemsAttr
    <3>2. /\ n + 1 <= m /\ later[n + 1] = entry
          /\ \A i \in 1..n : later[i] = known[i]
      <4>1. Continues(Append(known, entry), later)
        BY <3>1
      <4>2. /\ Len(Append(known, entry)) = n + 1 /\ Append(known, entry)[n + 1] = entry
            /\ \A i \in 1..n : Append(known, entry)[i] = known[i]
        <5> HIDE DEF entry
        <5> DEFINE S2 == S \cup {entry}
        <5>1. known \in Seq(S2) /\ entry \in S2
          <6>1. known \in [1..n -> S2]
            BY <1>1, LenProperties
          <6> QED BY <6>1, SeqDef
        <5> HIDE DEF S2
        <5> QED BY <1>1, <5>1, AppendProperties
      <4> HIDE DEF entry
      <4> QED BY <1>1, <4>1, <4>2 DEF Continues
    <3>3. n + 1 \in 1..m /\ n + 1 \in Nat
      BY <3>2
    <3>4. Related(attr, later[n + 1].attr)
      BY <3>2 DEF Related
    <3>5. n + 1 \in Rel(later) /\ Rel(later) \subseteq Nat
      BY <1>1, <3>3, <3>4
    <3>6. ASSUME NEW j \in Rel(later) PROVE n + 1 <= j
      <4>1. j \in 1..m /\ Related(attr, later[j].attr)
        BY <1>1
      <4>2. j \notin 1..n
        BY <1>1, <2>3, <3>2, <4>1
      <4> QED BY <4>1, <4>2
    <3> HIDE DEF Rel
    <3>7. Found(Rel(later)) = n + 1
      BY <3>3, <3>5, <3>6, FoundIs
    <3>8. Rel(later) # {}
      BY <3>5
    <3>9. FromElemsAttr(attr, later).t = FromKnown(attr, later[Found(Rel(later))])
      BY <2>3, <3>8 DEF FromElemsAttr, Rel
    <3>10. FromKnown(attr, entry) = new
      BY DEF FromKnown
    <3> HIDE DEF entry, new
    <3> QED BY <3>1, <3>2, <3>7, <3>9, <3>10
  <2> QED BY <2>1, <2>2, <2>3
<1>3. Refines(before, before)
  BY DEF Refines, TensorRefines
<1> HIDE DEF before, again
<1> QED BY <1>2, <1>3 DEF before, again
=============================================================================
