-------------------------- MODULE FpConstantsProofs -------------------------
(***************************************************************************)
(* Sizes of encodings and the numbers they leave to constants, whatever    *)
(* constants a function has and whatever the formats of f32 and f64 are.   *)
(***************************************************************************)
EXTENDS FpConstantsProps, Numbers

-----------------------------------------------------------------------------
(***************************************************************************)
(* The strengthening: what analysis has collected, and the encodings made  *)
(* of it.                                                                  *)
(***************************************************************************)

\* With an f64 number, the f32 numbers it lies between are constants, too.
Collected ==
  /\ IsFiniteSet(F64) /\ Cardinality(F64) <= MaxConstants + 2
  /\ IsFiniteSet(F32) /\ Cardinality(F32) <= MaxConstants + 1
  /\ F64 \subseteq 0..Infinity
  /\ F32 = F64 \cap (Floats \cup {Infinity})
  /\ \A c \in F64 : ~Overflows(c) => Floor(c) \in F64 /\ Ceil(c) \in F64
  /\ f32NonConsts \in Nat /\ f64NonConsts \in Nat /\ precise \in BOOLEAN

Sized ==
  \/ floatEnc = NoEnc /\ doubleEnc = NoEnc
  \/ /\ floatEnc = Plain(FloatBits)
     /\ doubleEnc = IF precise
                    THEN [limit |-> LimitBits32, small |-> FloatBits, prec |-> PrecBits]
                    ELSE Plain(DoubleBits)

-----------------------------------------------------------------------------
(***************************************************************************)
(* The line of numbers.                                                    *)
(***************************************************************************)
\* f32 numbers are the multiples of Gap up to the largest.
Steps == FloatMax \div Gap

LEMMA Multiples ==
  ASSUME NEW g \in Nat \ {0}, NEW j \in Nat, NEW k \in Nat
  PROVE  /\ g * j \in Nat /\ g * (j + 1) = g * j + g
         /\ j < k => g * j + g <= g * k
         /\ g * j < g * k <=> j < k
         /\ g * j <= g * k <=> j <= k
         /\ g * j = g * k <=> j = k
<1>1. ASSUME NEW a \in Nat, NEW b \in Nat, a < b PROVE g * a + g <= g * b
  <2>1. PICK d \in Nat : b = a + 1 + d
    <3>1. b - a - 1 \in Nat /\ b = a + 1 + (b - a - 1)
      BY <1>1
    <3> QED
      BY <3>1
  <2>2. g * b = g * a + g + g * d /\ g * d \in Nat /\ g * a \in Nat
    BY <2>1, SMT
  <2> QED
    BY <2>2
<1>2. g * j \in Nat /\ g * k \in Nat /\ g * (j + 1) = g * j + g
  BY SMT
<1>3. j < k => g * j + g <= g * k
  BY <1>1
<1>4. k < j => g * k + g <= g * j
  BY <1>1
<1> QED
  BY <1>2, <1>3, <1>4

LEMMA Line ==
  /\ Gap \in Nat \ {0} /\ One \in Nat \ {0} /\ FloatMax \in Nat \ {0} /\ DoubleMax \in Nat
  /\ MaxConstants \in Nat
  /\ Steps \in Nat \ {0} /\ FloatMax = Gap * Steps
  /\ FloatMax + Gap < DoubleMax /\ One < FloatMax
  /\ Infinity = DoubleMax + 1
  /\ Floats = {Gap * k : k \in 0..Steps}
<1>1. /\ Gap \in Nat \ {0} /\ One \in Nat \ {0} /\ FloatMax \in Nat \ {0} /\ DoubleMax \in Nat
      /\ MaxConstants \in Nat
      /\ FloatMax % (2 * Gap) = Gap /\ FloatMax + Gap < DoubleMax /\ One < FloatMax
  BY NumbersOK
<1>2. PICK h \in Nat \ {0} : h = 2 * Gap
  BY <1>1
<1>3. PICK q \in Nat : FloatMax = q * h + Gap
  <2>1. FloatMax % h = Gap
    BY <1>1, <1>2
  <2>2. FloatMax \div h \in Nat /\ FloatMax = (FloatMax \div h) * h + (FloatMax % h)
    BY <1>1, <1>2, DivMod
  <2> QED
    BY <2>1, <2>2
<1>4. PICK k \in Nat \ {0} : k = 2 * q + 1
  BY <1>3
<1>5. FloatMax = k * Gap
  <2>1. q * h = (2 * q) * Gap
    BY <1>1, <1>2, SMT
  <2>2. k * Gap = (2 * q) * Gap + Gap
    BY <1>1, <1>4, SMT
  <2> QED
    BY <1>1, <1>3, <2>1, <2>2
<1>6. Steps = k
  <2>1. FloatMax = k * Gap + 0 /\ 0 \in 0..(Gap - 1)
    BY <1>1, <1>5
  <2>2. FloatMax \div Gap = k
    BY <1>1, <1>4, <2>1, Unique
  <2> QED
    BY <2>2 DEF Steps
<1>7. k * Gap = Gap * k
  BY <1>1, <1>4, SMT
<1> QED
  BY <1>1, <1>4, <1>5, <1>6, <1>7 DEF Infinity, Floats, Steps

\* Where a number lies.
LEMMA FloorIs ==
  ASSUME NEW c \in Nat
  PROVE  \E k \in 0..Steps : /\ Floor(c) = Gap * k /\ Gap * k <= c
                             /\ k = Steps \/ c < Gap * (k + 1)
<1> USE Line
<1>1. PICK q \in Nat : Gap * q <= c /\ c < Gap * (q + 1)
  <2>1. PICK q \in Nat, r \in 0..(Gap - 1) : c = q * Gap + r
    <3>1. Gap \in Nat \ {0}
      OBVIOUS
    <3>2. c \div Gap \in Nat /\ c % Gap \in 0..(Gap - 1) /\ c = (c \div Gap) * Gap + (c % Gap)
      BY ONLY c \in Nat, <3>1, DivMod
    <3> QED
      BY ONLY <3>2, Zenon
  <2>2. q * Gap = Gap * q
    BY <2>1, SMT
  <2> QED
    BY <2>1, <2>2, Multiples
<1>2. PICK k \in 0..Steps : k = IF q <= Steps THEN q ELSE Steps
  OBVIOUS
<1>3. k \in Nat /\ Gap * k \in Nat /\ Gap * k <= c /\ (k = Steps \/ c < Gap * (k + 1))
  <2>1. k \in Nat /\ Gap * k \in Nat /\ Gap * q \in Nat /\ (k <= q => Gap * k <= Gap * q)
    BY <1>1, <1>2, Multiples
  <2> QED
    BY <1>1, <1>2, <2>1
<1>4. ASSUME NEW v \in {w \in Floats : w <= c} PROVE v \in Nat /\ v <= Gap * k
  <2>1. PICK j \in 0..Steps : v = Gap * j /\ Gap * j <= c
    BY <1>4
  <2>2. j \in Nat /\ Gap * j \in Nat /\ Gap * (q + 1) \in Nat
    BY <1>1, <2>1, Multiples
  <2>3. j < q + 1
    <3>1. Gap * j < Gap * (q + 1)
      BY <1>1, <2>1, <2>2
    <3> QED
      BY <1>1, <2>2, <3>1, Multiples
  <2>4. j <= k
    BY <1>2, <2>1, <2>2, <2>3
  <2> QED
    BY <1>3, <2>1, <2>2, <2>4, Multiples
<1>5. Max({w \in Floats : w <= c}) = Gap * k
  <2>1. PICK S : S = {w \in Floats : w <= c}
    OBVIOUS
  <2>2. Gap * k \in S /\ S \subseteq Int /\ \A w \in S : w <= Gap * k
    BY <1>3, <1>4, <2>1
  <2>3. Max(S) = Gap * k
    BY <2>2, MaxIs
  <2> QED
    BY <2>1, <2>3
<1> QED
  BY <1>3, <1>5 DEF Floor

-----------------------------------------------------------------------------
(***************************************************************************)
(* The sizes are numbers: every set that setAbstraction counts is finite.  *)
(***************************************************************************)

\* log2_ceil(n) bits count up to n, and no bit less does.
LEMMA Log2 ==
  ASSUME NEW n \in Nat
  PROVE  /\ log2_ceil(n) \in 0..n /\ n <= 2^log2_ceil(n)
         /\ log2_ceil(n) = 0 \/ 2^(log2_ceil(n) - 1) < n
<1>1. PICK j : j = log2_ceil(n)
  OBVIOUS
<1>2. j \in 0..n /\ 2^j >= n /\ (j = 0 \/ 2^(j - 1) < n)
  BY <1>1, LeastPower, Zenon DEF log2_ceil
<1>3. PICK p \in Nat : p = 2^j
  BY <1>2, PowerPositive
<1>4. n <= 2^j
  BY <1>2, <1>3
<1> QED
  BY <1>1, <1>2, <1>4

-----------------------------------------------------------------------------
(***************************************************************************)
(* Rounding from f64 to f32.                                               *)
(***************************************************************************)
LEMMA Bounds ==
  ASSUME NEW v \in Floats
  PROVE  /\ v \in 0..FloatMax /\ v < DoubleMax /\ v # Infinity
         /\ v # FloatMax => v + Gap \in Floats
         /\ v # 0 => v - Gap \in Floats
<1> USE Line
<1>1. PICK k \in 0..Steps : v = Gap * k
  OBVIOUS
<1>2. k \in Nat /\ v \in Nat /\ v <= FloatMax
  BY <1>1, Multiples
<1>3. v # FloatMax => v + Gap \in Floats
  <2>1. k < Steps => k + 1 \in 0..Steps
    BY <1>1
  <2>2. Gap * (k + 1) = v + Gap
    BY <1>1, <1>2, Multiples
  <2> QED
    BY <1>1, <2>1, <2>2
<1>4. v # 0 => v - Gap \in Floats
  <2> SUFFICES ASSUME v # 0 PROVE v - Gap \in Floats
    OBVIOUS
  <2>1. PICK j \in 0..Steps : k = j + 1
    <3>1. k # 0
      BY <1>1, Multiples
    <3>2. k - 1 \in 0..Steps /\ k = (k - 1) + 1
      BY <1>1, <3>1
    <3> QED
      BY <3>2
  <2>2. v = Gap * j + Gap /\ Gap * j \in Nat
    BY <1>1, <2>1, Multiples
  <2>3. v - Gap = Gap * j
    BY <2>2
  <2> QED
    BY <2>1, <2>3
<1> QED
  BY <1>2, <1>3, <1>4

\* The f32 numbers that a number lies between.
LEMMA FloorParts ==
  ASSUME NEW c \in Nat
  PROVE  /\ Floor(c) \in Floats /\ Floor(c) <= c
         /\ Floor(c) = FloatMax \/ c < Floor(c) + Gap
         /\ \A v \in Floats : v <= c => v <= Floor(c)
         /\ \A v \in Floats : c < v => Floor(c) + Gap <= v
         /\ c \in Floats => Floor(c) = c
<1> USE Line
<1>1. PICK k \in 0..Steps : /\ Floor(c) = Gap * k /\ Gap * k <= c
                            /\ k = Steps \/ c < Gap * (k + 1)
  BY FloorIs
<1>2. Floor(c) \in Floats /\ Floor(c) <= c
  BY <1>1
<1>3. Gap * (k + 1) = Floor(c) + Gap
  BY <1>1, Multiples
<1>4. Floor(c) = FloatMax \/ c < Floor(c) + Gap
  BY <1>1, <1>3
<1>5. ASSUME NEW j \in 0..Steps
      PROVE  /\ Gap * j \in Nat /\ Gap * k \in Nat
             /\ Gap * j <= Gap * k \/ Gap * k + Gap <= Gap * j
             /\ Gap * j <= FloatMax
  BY Multiples
<1>6. ASSUME NEW v \in Floats
      PROVE  v \in Nat /\ (v <= Floor(c) \/ Floor(c) + Gap <= v) /\ v <= FloatMax
  BY <1>1, <1>5
<1>7. Floor(c) \in Nat
  BY <1>1, <1>5
<1>8. PICK f \in Nat : f = Floor(c) /\ f <= c /\ (f = FloatMax \/ c < f + Gap)
  BY <1>2, <1>4, <1>7
<1>9. ASSUME NEW v \in Floats
      PROVE  (v <= c => v <= f) /\ (c < v => f + Gap <= v)
  <2>1. PICK w \in Nat : w = v /\ (w <= f \/ f + Gap <= w) /\ w <= FloatMax
    BY <1>6, <1>8
  <2>2. (w <= c => w <= f) /\ (c < w => f + Gap <= w)
    BY <1>8, <2>1
  <2> QED
    BY <2>1, <2>2
<1>10. ASSUME c \in Floats PROVE f = c
  <2>1. c <= c => c <= f
    BY <1>9, <1>10, Zenon
  <2> QED
    BY <1>8, <2>1
<1> QED
  BY <1>2, <1>4, <1>8, <1>9, <1>10

LEMMA CeilParts ==
  ASSUME NEW c \in 0..Infinity
  PROVE  /\ c \in Floats \cup {Infinity} => Ceil(c) = c
         /\ c \notin Floats /\ Floor(c) # FloatMax => Ceil(c) = Floor(c) + Gap
         /\ c \notin Floats /\ Floor(c) = FloatMax => Ceil(c) = Infinity
<1>0. /\ Infinity \in Nat /\ FloatMax \in Nat /\ FloatMax < Infinity /\ c \in Nat
      /\ c <= Infinity /\ Gap \in Nat
  BY Line
<1>9. PICK f \in Floats : /\ f = Floor(c) /\ f \in Nat /\ f <= c
                          /\ f = FloatMax \/ c < f + Gap
                          /\ \A v \in Floats : v <= c => v <= f
                          /\ \A v \in Floats : c < v => f + Gap <= v
  BY <1>0, FloorParts, Bounds
<1> DEFINE S == {v \in Floats \cup {Infinity} : v >= c}
<1>1. S \subseteq Int
  BY <1>0, Bounds
<1>2. Ceil(c) = Min(S)
  BY DEF Ceil
<1>3. \A w \in S : c <= w
  BY <1>0, <1>1
<1>5. ASSUME c \in Floats \cup {Infinity} PROVE Ceil(c) = c
  <2>1. c \in S
    BY <1>0, <1>5
  <2> HIDE DEF S
  <2> QED
    BY <1>1, <1>2, <1>3, <2>1, MinIs
<1>6. ASSUME c \notin Floats, Floor(c) # FloatMax PROVE Ceil(c) = Floor(c) + Gap
  <2>0. f + Gap \in Floats
    BY <1>6, <1>9, Bounds
  <2>1. PICK v \in Floats : v = f + Gap /\ c < v
    BY <1>6, <1>9, <2>0
  <2>2. v \in S /\ v \in Nat /\ v < Infinity
    BY <1>0, <2>1, Bounds
  <2>3. ASSUME NEW w \in S PROVE v <= w
    <3>1. CASE w = Infinity
      BY <1>0, <2>2, <3>1
    <3>2. CASE w \in Floats
      <4>1. w \in Nat /\ c <= w /\ w # c
        BY <1>3, <1>6, <2>3, <3>2, Bounds
      <4>2. c < w
        BY <1>0, <4>1
      <4>3. f + Gap <= w
        BY <1>9, <3>2, <4>2
      <4> QED
        BY <2>1, <4>3
    <3> QED
      BY <2>3, <3>1, <3>2
  <2> HIDE DEF S
  <2> QED
    BY <1>1, <1>2, <1>9, <2>1, <2>2, <2>3, MinIs
<1>7. ASSUME c \notin Floats, Floor(c) = FloatMax PROVE Ceil(c) = Infinity
  <2>1. Infinity \in S
    BY <1>0
  <2>2. ASSUME NEW w \in S PROVE Infinity <= w
    <3>1. w \notin Floats
      <4> SUFFICES ASSUME w \in Floats PROVE FALSE
        OBVIOUS
      <4>1. w \in Nat /\ w <= FloatMax /\ c <= w
        BY <1>3, <2>2, Bounds
      <4>2. w = c
        <5>1. f = FloatMax /\ f <= c
          BY <1>7, <1>9
        <5> QED
          BY <1>0, <4>1, <5>1
      <4> QED
        BY <1>7, <4>2
    <3> QED
      BY <1>0, <2>2, <3>1
  <2> HIDE DEF S
  <2> QED
    BY <1>1, <1>2, <2>1, <2>2, MinIs
<1> QED
  BY <1>5, <1>6, <1>7

\* Rounding to nearest is rounding down or up; what overflows is above all f32.
LEMMA NearestParts ==
  ASSUME NEW c \in 0..Infinity
  PROVE  /\ c \in Floats => ~Overflows(c) /\ Nearest(c) = c
         /\ c \notin Floats => Nearest(c) \in {Floor(c), Ceil(c)}
         /\ Overflows(c) => Floor(c) = FloatMax
         /\ DoubleMax <= c => Overflows(c)
<1>0. /\ Infinity \in Nat /\ FloatMax \in Floats /\ FloatMax \in Nat /\ FloatMax < Infinity
      /\ c \in Nat /\ FloatMax + Gap < DoubleMax /\ DoubleMax \in Nat /\ Gap \in Nat \ {0}
  <2>1. FloatMax = Gap * Steps /\ Steps \in 0..Steps /\ Floats = {Gap * k : k \in 0..Steps}
    BY Line
  <2> QED
    BY <2>1, Line
<1>1. PICK half \in Nat : half = Gap \div 2 /\ 2 * half = Gap /\ half >= 1
  <2>1. Gap % 2 = 0
    BY NumbersOK
  <2> QED
    BY <1>0, <2>1
<1>2. PICK v \in Floats : /\ v = Floor(c) /\ v \in Nat /\ v <= c
                          /\ v = FloatMax \/ c < v + Gap
                          /\ \A w \in Floats : w <= c => w <= v
                          /\ v <= FloatMax
  <2>1. PICK f : f = Floor(c)
    OBVIOUS
  <2>2. f \in Floats /\ f \in 0..FloatMax
    BY <1>0, <2>1, FloorParts, Bounds
  <2>3. f <= c /\ (f = FloatMax \/ c < f + Gap) /\ \A w \in Floats : w <= c => w <= f
    BY <1>0, <2>1, FloorParts
  <2> QED
    BY <1>0, <2>1, <2>2, <2>3
<1>3. v # Infinity /\ (v # FloatMax => v + Gap # Infinity)
  <2>1. v # FloatMax => v + Gap \in Floats
    BY <1>2, Bounds
  <2> QED
    BY <1>2, <2>1, Bounds
<1>4. PICK d \in Nat, tie \in BOOLEAN :
        d = c - v /\ Nearest(c) = IF d < half \/ (d = half /\ tie)
                                  THEN v ELSE IF v = FloatMax THEN Infinity ELSE v + Gap
  <2>1. PICK d \in Nat : d = c - v
    BY <1>0, <1>2
  <2>2. PICK tie \in BOOLEAN : tie <=> v % (2 * Gap) = 0
    OBVIOUS
  <2>3. Nearest(c) = IF d < half \/ (d = half /\ tie)
                     THEN v ELSE IF v = FloatMax THEN Infinity ELSE v + Gap
    BY <1>1, <1>2, <2>1, <2>2 DEF Nearest
  <2> QED
    BY <2>1, <2>3
<1>5. c \in Floats => c = v
  BY <1>0, <1>2, FloorParts
<1>6. c \in Floats => Nearest(c) = c
  <2> SUFFICES ASSUME c \in Floats PROVE Nearest(c) = c
    OBVIOUS
  <2>1. d < half
    BY <1>0, <1>1, <1>4, <1>5
  <2> QED
    BY <1>4, <1>5, <2>1
<1>7. c \notin Floats => Nearest(c) \in {Floor(c), Ceil(c)}
  <2> SUFFICES ASSUME c \notin Floats PROVE Nearest(c) \in {v, Ceil(c)}
    BY <1>2
  <2>1. Ceil(c) = IF v = FloatMax THEN Infinity ELSE v + Gap
    BY <1>2, CeilParts
  <2> QED
    BY <1>4, <2>1
<1>8. Nearest(c) = Infinity => v = FloatMax
  BY <1>3, <1>4
<1>9. DoubleMax <= c => Nearest(c) = Infinity
  <2> SUFFICES ASSUME DoubleMax <= c PROVE Nearest(c) = Infinity
    OBVIOUS
  <2>1. v = FloatMax
    <3>1. FloatMax <= c
      BY <1>0
    <3> QED
      BY <1>0, <1>2, <3>1
  <2>2. ~(d < half) /\ d # half
    BY <1>0, <1>1, <1>4, <2>1
  <2> QED
    BY <1>4, <2>1, <2>2
<1>10. c \in Floats => c # Infinity
  BY <1>2, <1>3, <1>5
<1> QED
  BY <1>2, <1>6, <1>7, <1>8, <1>9, <1>10 DEF Overflows

-----------------------------------------------------------------------------
(***************************************************************************)
(* Analysis collects a few numbers, with every f64 its f32 neighbours.     *)
(***************************************************************************)
LEMMA AddOne ==
  ASSUME NEW S, IsFiniteSet(S), NEW x
  PROVE  /\ IsFiniteSet(S \cup {x}) /\ Cardinality(S \cup {x}) \in Nat
         /\ Cardinality(S \cup {x}) <= Cardinality(S) + 1
         /\ Cardinality(S) \in Nat
<1>1. PICK T : T = S \cup {x}
  OBVIOUS
<1>2. IsFiniteSet(T) /\ Cardinality(T) = IF x \in S THEN Cardinality(S) ELSE Cardinality(S) + 1
  BY <1>1, FS_AddElement
<1>3. Cardinality(S) \in Nat
  BY FS_CardinalityType
<1>4. Cardinality(T) \in Nat /\ Cardinality(T) <= Cardinality(S) + 1
  BY <1>2, <1>3
<1> QED
  BY <1>1, <1>2, <1>3, <1>4

LEMMA AddTwo ==
  ASSUME NEW S, IsFiniteSet(S), NEW a, NEW b
  PROVE  /\ IsFiniteSet(S \cup {a, b}) /\ Cardinality(S \cup {a, b}) \in Nat
         /\ Cardinality(S \cup {a, b}) <= Cardinality(S) + 2
         /\ Cardinality(S) \in Nat
<1>1. PICK T : T = S \cup {a}
  OBVIOUS
<1>2. PICK U : U = T \cup {b}
  OBVIOUS
<1>3. /\ IsFiniteSet(T) /\ Cardinality(T) <= Cardinality(S) + 1
      /\ Cardinality(S) \in Nat /\ Cardinality(T) \in Nat
  BY <1>1, AddOne
<1>4. IsFiniteSet(U) /\ Cardinality(U) <= Cardinality(T) + 1 /\ Cardinality(U) \in Nat
  BY <1>2, <1>3, AddOne
<1>5. U = S \cup {a, b}
  BY <1>1, <1>2
<1> QED
  BY <1>3, <1>4, <1>5

\* What the analysis adds is closed under rounding.
LEMMA Closed ==
  ASSUME NEW c \in 0..Infinity
  PROVE  /\ c \in Floats \cup {Infinity} =>
              /\ ~Overflows(c) => Floor(c) = c /\ Ceil(c) = c
         /\ ~Overflows(c) =>
              /\ Floor(c) \in Floats \cup {Infinity} /\ Ceil(c) \in Floats \cup {Infinity}
              /\ c \in Floats \cup {Infinity} => c = Floor(c)
         /\ c \in Floats => ~Overflows(c)
<1>0. Infinity \in Nat /\ DoubleMax <= Infinity /\ c \in Nat /\ Infinity \in 0..Infinity
  BY Line
<1>1. Overflows(Infinity)
  BY <1>0, NearestParts
<1>2. c \in Floats => Floor(c) = c /\ Ceil(c) = c /\ ~Overflows(c)
  BY <1>0, FloorParts, CeilParts, NearestParts
<1>3. Floor(c) \in Floats
  BY <1>0, FloorParts
<1>4. c \notin Floats =>
        Ceil(c) = IF Floor(c) = FloatMax THEN Infinity ELSE Floor(c) + Gap
  BY CeilParts
<1>5. Ceil(c) \in Floats \cup {Infinity}
  BY <1>2, <1>3, <1>4, Bounds
<1> QED
  BY <1>1, <1>2, <1>3, <1>5

LEMMA DoubleCollected ==
  ASSUME Collected, Cardinality(F64) < MaxConstants, NEW c \in Doubles, AnalyzeDouble(c)
  PROVE  Collected'
<1>0. c \in 0..Infinity /\ c # Infinity /\ MaxConstants \in Nat
  BY Line DEF Doubles
<1>1. PICK between : /\ between = IF Overflows(c) THEN {} ELSE {Floor(c), Ceil(c)}
                     /\ F32' = F32 \cup between
                     /\ F64' = F64 \cup between \cup {c}
  BY DEF AnalyzeDouble
<1>2. F32 \subseteq F64 /\ IsFiniteSet(F64) /\ IsFiniteSet(F32)
  BY DEF Collected
<1>3. /\ Cardinality(F32) <= Cardinality(F64) /\ Cardinality(F64) \in Nat
      /\ Cardinality(F32) \in Nat
  BY <1>2, FS_Subset, FS_CardinalityType
<1>4. ASSUME NEW S, IsFiniteSet(S)
      PROVE  /\ IsFiniteSet(S \cup between) /\ Cardinality(S \cup between) \in Nat
             /\ Cardinality(S \cup between) <= Cardinality(S) + 2
  <2>1. CASE Overflows(c)
    <3>1. S \cup between = S
      BY <1>1, <2>1
    <3>2. Cardinality(S) \in Nat
      BY <1>4, FS_CardinalityType
    <3>3. Cardinality(S) <= Cardinality(S) + 2
      BY <3>2
    <3> QED
      BY <1>4, <3>1, <3>2, <3>3
  <2>2. CASE ~Overflows(c)
    BY <1>1, <1>4, <2>2, AddTwo
  <2> QED
    BY <2>1, <2>2
<1>5. IsFiniteSet(F32') /\ Cardinality(F32') <= MaxConstants + 1
  BY <1>0, <1>1, <1>2, <1>3, <1>4
<1>6. IsFiniteSet(F64') /\ Cardinality(F64') <= MaxConstants + 2
  <2>1. PICK S : S = F64 \cup between
    OBVIOUS
  <2>2. IsFiniteSet(S) /\ Cardinality(S) \in Nat /\ Cardinality(S) <= Cardinality(F64) + 2
    BY <1>2, <1>4, <2>1
  <2>3. /\ IsFiniteSet(S \cup {c}) /\ Cardinality(S \cup {c}) \in Nat
        /\ Cardinality(S \cup {c}) <= Cardinality(S) + 1
    BY <2>2, AddOne
  <2> QED
    BY <1>0, <1>1, <1>3, <2>1, <2>2, <2>3
<1>7. ASSUME NEW b \in between
      PROVE  /\ ~Overflows(c) /\ b \in 0..Infinity /\ b \in Floats \cup {Infinity}
             /\ ~Overflows(b) => Floor(b) = b /\ Ceil(b) = b
  <2>1. ~Overflows(c) /\ b \in Floats \cup {Infinity}
    BY <1>0, <1>1, Closed
  <2>2. b \in 0..Infinity
    <3>1. Infinity \in 0..Infinity /\ FloatMax \in Nat /\ FloatMax < Infinity /\ Infinity \in Nat
      BY Line
    <3>2. b \in Floats => b \in 0..FloatMax
      BY Bounds
    <3> QED
      BY <2>1, <3>1, <3>2
  <2> QED
    BY <2>1, <2>2, Closed
<1>8. F64' \subseteq 0..Infinity
  BY <1>0, <1>1, <1>7 DEF Collected
<1>9. F32' = F64' \cap (Floats \cup {Infinity})
  <2>1. c \in Floats \cup {Infinity} => c \in between
    BY <1>0, <1>1, Closed
  <2> QED
    BY <1>1, <1>7, <2>1 DEF Collected
<1>10. ASSUME NEW b \in F64', ~Overflows(b) PROVE Floor(b) \in F64' /\ Ceil(b) \in F64'
  <2>1. CASE b \in F64
    BY <1>1, <1>10, <2>1 DEF Collected
  <2>2. CASE b \in between
    BY <1>7, <1>10, <2>2
  <2>3. CASE b = c
    BY <1>1, <1>10, <2>3
  <2> QED
    BY <1>1, <2>1, <2>2, <2>3
<1>11. f32NonConsts' = f32NonConsts /\ f64NonConsts' = f64NonConsts /\ precise' = precise
  BY DEF AnalyzeDouble
<1> QED
  BY <1>5, <1>6, <1>8, <1>9, <1>10, <1>11 DEF Collected, Overflows, Nearest, Floor, Ceil, Floats, Infinity

LEMMA FloatCollected ==
  ASSUME Collected, Cardinality(F64) < MaxConstants, NEW c \in Floats, AnalyzeFloat(c)
  PROVE  Collected'
<1>0. c \in 0..Infinity /\ MaxConstants \in Nat
  <2>1. c \in 0..FloatMax /\ FloatMax \in Nat /\ FloatMax < Infinity /\ Infinity \in Nat
    BY Bounds, Line
  <2> QED
    BY <2>1, Line
<1>1. F32' = F32 \cup {c} /\ F64' = F64 \cup {c}
  BY DEF AnalyzeFloat
<1>2. F32 \subseteq F64 /\ IsFiniteSet(F64) /\ IsFiniteSet(F32)
  BY DEF Collected
<1>3. /\ Cardinality(F32) <= Cardinality(F64) /\ Cardinality(F64) \in Nat
      /\ Cardinality(F32) \in Nat
  BY <1>2, FS_Subset, FS_CardinalityType
<1>4. ASSUME NEW S, IsFiniteSet(S)
      PROVE  /\ IsFiniteSet(S \cup {c}) /\ Cardinality(S \cup {c}) \in Nat
             /\ Cardinality(S \cup {c}) <= Cardinality(S) + 1
  BY <1>4, AddOne
<1>5. /\ IsFiniteSet(F32') /\ Cardinality(F32') <= MaxConstants + 1
      /\ IsFiniteSet(F64') /\ Cardinality(F64') <= MaxConstants + 2
  BY <1>0, <1>1, <1>2, <1>3, <1>4
<1>6. F64' \subseteq 0..Infinity
  BY <1>0, <1>1 DEF Collected
<1>7. F32' = F64' \cap (Floats \cup {Infinity})
  BY <1>1 DEF Collected
<1>8. ASSUME NEW b \in F64', ~Overflows(b) PROVE Floor(b) \in F64' /\ Ceil(b) \in F64'
  <2>1. CASE b \in F64
    BY <1>1, <1>8, <2>1 DEF Collected
  <2>2. CASE b = c
    BY <1>0, <1>8, <2>2, Closed
  <2> QED
    BY <1>1, <2>1, <2>2
<1>9. f32NonConsts' = f32NonConsts /\ f64NonConsts' = f64NonConsts /\ precise' = precise
  BY DEF AnalyzeFloat
<1> QED
  BY <1>5, <1>6, <1>7, <1>8, <1>9 DEF Collected, Overflows, Nearest, Floor, Ceil, Floats, Infinity

LEMMA CollectedStays == Spec => []Collected
<1>1. Init => Collected
  <2> SUFFICES ASSUME Init PROVE Collected
    OBVIOUS
  <2>1. /\ F32 = {} /\ F64 = {} /\ f32NonConsts \in Nat /\ f64NonConsts \in Nat
        /\ precise \in BOOLEAN
    BY NumbersOK DEF Init
  <2>2. MaxConstants \in Nat
    BY Line
  <2> QED
    BY <2>1, <2>2, FS_EmptySet DEF Collected
<1>2. Collected /\ [Next]_vars => Collected'
  <2> SUFFICES ASSUME Collected, [Next]_vars PROVE Collected'
    OBVIOUS
  <2>1. ASSUME Cardinality(F64) < MaxConstants, NEW c \in Doubles, AnalyzeDouble(c)
        PROVE  Collected'
    BY <2>1, DoubleCollected
  <2>2. ASSUME Cardinality(F64) < MaxConstants, NEW c \in Floats, AnalyzeFloat(c)
        PROVE  Collected'
    BY <2>2, FloatCollected
  <2>3. CASE UNCHANGED <<F32, F64, f32NonConsts, f64NonConsts, precise>>
    BY <2>3 DEF Collected, Overflows, Nearest, Floor, Ceil, Floats, Infinity
  <2> QED
    BY <2>1, <2>2, <2>3 DEF Next, AnalyzeSpecial, SetAbstraction, vars
<1> QED
  BY <1>1, <1>2, PTL DEF Spec

-----------------------------------------------------------------------------
(***************************************************************************)
(* What setAbstraction makes of it.                                        *)
(***************************************************************************)

\* The constants that are counted.
LEMMA Counts ==
  ASSUME Collected
  PROVE  /\ IsFiniteSet(FloatConsts) /\ Cardinality(FloatConsts) \in 0..(MaxConstants + 4)
         /\ IsFiniteSet(DoubleConsts) /\ Cardinality(DoubleConsts) \in 0..(MaxConstants + 5)
         /\ FloatConsts \subseteq Floats \cup {Infinity}
         /\ DoubleConsts \subseteq 0..Infinity
         /\ Exact \subseteq Floats \cup {Infinity}
         /\ DoubleConsts = Exact \cup Inexact \cup Beyond
<1>0. /\ IsFiniteSet(F64) /\ Cardinality(F64) <= MaxConstants + 2 /\ F64 \subseteq 0..Infinity
      /\ IsFiniteSet(F32) /\ Cardinality(F32) <= MaxConstants + 1
      /\ F32 \subseteq Floats \cup {Infinity} /\ MaxConstants \in Nat
  BY Line DEF Collected
<1>1. 0 \in Floats /\ One \in Floats /\ FloatMax \in Floats
  <2>1. 0 \in 0..Steps /\ Steps \in 0..Steps /\ 0 = Gap * 0
    BY Line
  <2>2. One \in Floats
    <3>1. Gap \in Nat \ {0} /\ One \in Nat /\ One % Gap = 0
      BY Line, NumbersOK
    <3>2. PICK j \in Nat : One = j * Gap
      <4>1. PICK j, r : j = One \div Gap /\ r = One % Gap
        OBVIOUS
      <4>2. j \in Nat /\ r = 0 /\ One = j * Gap + r
        BY <3>1, <4>1, DivMod
      <4>3. j * Gap \in Nat
        BY <3>1, <4>2, SMT
      <4> QED
        BY <4>2, <4>3
    <3>3. One = Gap * j /\ Gap * j < Gap * Steps
      <4>1. Gap * Steps = FloatMax /\ One < FloatMax
        BY Line
      <4>2. j * Gap = Gap * j
        BY <3>1, <3>2, SMT
      <4> QED
        BY <3>2, <4>1, <4>2
    <3>4. j < Steps
      <4>1. Gap \in Nat \ {0} /\ Steps \in Nat
        BY Line
      <4> QED
        BY <3>2, <3>3, <4>1, Multiples
    <3>5. j \in 0..Steps
      BY <3>2, <3>4, Line
    <3> QED
      BY <3>3, <3>5, Line
  <2> QED
    BY <2>1, <2>2, Line
<1>2. 0 \in 0..Infinity /\ One \in 0..Infinity /\ DoubleMax \in 0..Infinity
  BY Line
<1>3. /\ IsFiniteSet(FloatConsts) /\ Cardinality(FloatConsts) \in 0..(MaxConstants + 4)
  <2>1. PICK S, T : S = F32 \cup {0, One} /\ T = S \cup {FloatMax}
    OBVIOUS
  <2>2. /\ IsFiniteSet(S) /\ Cardinality(S) \in Nat /\ Cardinality(F32) \in Nat
        /\ Cardinality(S) <= Cardinality(F32) + 2
    BY <1>0, <2>1, AddTwo
  <2>3. IsFiniteSet(T) /\ Cardinality(T) \in Nat /\ Cardinality(T) <= Cardinality(S) + 1
    BY <2>1, <2>2, AddOne
  <2>4. T = FloatConsts
    BY <2>1 DEF FloatConsts
  <2> QED
    BY <1>0, <2>2, <2>3, <2>4
<1>4. /\ IsFiniteSet(DoubleConsts) /\ Cardinality(DoubleConsts) \in 0..(MaxConstants + 5)
  <2>1. PICK S, T : S = F64 \cup {0, One} /\ T = S \cup {DoubleMax}
    OBVIOUS
  <2>2. /\ IsFiniteSet(S) /\ Cardinality(S) \in Nat /\ Cardinality(F64) \in Nat
        /\ Cardinality(S) <= Cardinality(F64) + 2
    BY <1>0, <2>1, AddTwo
  <2>3. IsFiniteSet(T) /\ Cardinality(T) \in Nat /\ Cardinality(T) <= Cardinality(S) + 1
    BY <2>1, <2>2, AddOne
  <2>4. T = DoubleConsts
    BY <2>1 DEF DoubleConsts
  <2> QED
    BY <1>0, <2>2, <2>3, <2>4
<1>5. FloatConsts \subseteq Floats \cup {Infinity}
  BY <1>0, <1>1 DEF FloatConsts
<1>6. DoubleConsts \subseteq 0..Infinity
  BY <1>0, <1>2 DEF DoubleConsts
<1>7. Exact \subseteq Floats \cup {Infinity} /\ DoubleConsts = Exact \cup Inexact \cup Beyond
  BY DEF Exact, Inexact, Beyond
<1> QED
  BY <1>3, <1>4, <1>5, <1>6, <1>7

\* The constants that one truncation maps to v, in order.
CutTo(v) == {c \in Inexact : Floor(c) = v}

LEMMA MostInexact ==
  ASSUME Collected
  PROVE  /\ MaxInexact \in Nat
         /\ \A v \in Floats : IsFiniteSet(CutTo(v)) /\ Cardinality(CutTo(v)) <= MaxInexact
<1> DEFINE Sizes == {0} \cup {Cardinality(CutTo(v)) : v \in Floats}
<1>1. PICK most \in Nat : most = Cardinality(DoubleConsts) /\ IsFiniteSet(DoubleConsts)
  BY Counts
<1>2. ASSUME NEW v
      PROVE  /\ IsFiniteSet(CutTo(v)) /\ Cardinality(CutTo(v)) \in Nat
             /\ Cardinality(CutTo(v)) <= most
  <2>1. CutTo(v) \in SUBSET DoubleConsts
    BY DEF CutTo, Inexact
  <2> QED
    BY <1>1, <2>1, FS_Subset, FS_CardinalityType
<1>3. Sizes \subseteq Nat /\ Sizes # {} /\ \A n \in Sizes : n <= most
  BY <1>1, <1>2
<1>4. \A v \in Floats : Cardinality(CutTo(v)) \in Sizes
  OBVIOUS
<1>5. MaxInexact = Max(Sizes)
  BY DEF MaxInexact, CutTo
<1> HIDE DEF Sizes
<1>6. Max(Sizes) \in Sizes /\ \A n \in Sizes : n <= Max(Sizes)
  BY <1>1, <1>3, Largest
<1> QED
  BY <1>2, <1>3, <1>4, <1>5, <1>6

LEMMA SizesAreNumbers ==
  ASSUME Collected
  PROVE  /\ FloatBits \in 1..31 /\ DoubleBits \in Nat /\ FloatBits <= DoubleBits
         /\ MinPrecBits \in Nat \ {0} /\ PrecBits \in 1..29
         /\ PrecBits = IF MinPrecBits <= 29 THEN MinPrecBits ELSE 29
         /\ MinLimitBits \in Nat \ {0}
         /\ LimitBits32 \in 1..(32 - PrecBits)
         /\ LimitBits32 = MinLimitBits \/ LimitBits32 = 32 - PrecBits
<1>1. PICK a \in Nat \ {0}, b \in Nat, c \in Nat, d \in Nat, m \in Nat :
        /\ a = log2_ceil(f32NonConsts + Cardinality(FloatConsts) + 2)
        /\ b = log2_ceil(f64NonConsts + Cardinality(DoubleConsts) + 2)
        /\ c = log2_ceil(f64NonConsts) /\ m = log2_ceil(MaxInexact)
        /\ d = log2_ceil(Cardinality(Beyond))
  <2>1. ASSUME NEW n \in Nat PROVE log2_ceil(n) \in Nat
    BY Log2
  <2>2. Cardinality(FloatConsts) \in Nat /\ Cardinality(DoubleConsts) \in Nat
    BY Counts
  <2>3. Cardinality(Beyond) \in Nat
    <3>1. Beyond \in SUBSET DoubleConsts /\ IsFiniteSet(DoubleConsts)
      BY Counts DEF Beyond
    <3> QED
      BY <3>1, FS_Subset, FS_CardinalityType
  <2>4. f32NonConsts \in Nat /\ f64NonConsts \in Nat /\ MaxInexact \in Nat
    BY MostInexact DEF Collected
  <2>5. /\ f32NonConsts + Cardinality(FloatConsts) + 2 \in Nat
        /\ f64NonConsts + Cardinality(DoubleConsts) + 2 \in Nat
    BY <2>2, <2>4
  <2>6. log2_ceil(f32NonConsts + Cardinality(FloatConsts) + 2) # 0
    <3>1. PICK n \in Nat : n = f32NonConsts + Cardinality(FloatConsts) + 2 /\ n >= 2
      BY <2>2, <2>4
    <3>2. n <= 2^log2_ceil(n)
      BY Log2
    <3>3. PICK k : k = log2_ceil(n)
      OBVIOUS
    <3>4. k # 0
      <4> SUFFICES ASSUME k = 0 PROVE FALSE
        OBVIOUS
      <4>1. n <= 1
        BY <3>2, <3>3, PowerZero
      <4> QED
        BY <3>1, <4>1
    <3> QED
      BY <3>1, <3>3, <3>4
  <2> QED
    BY <2>1, <2>3, <2>4, <2>5, <2>6
<1>2. FloatBits = IF 31 <= a THEN 31 ELSE a
  BY <1>1, Smaller DEF FloatBits
<1>3. PICK n \in 1..31 : n = FloatBits
  BY <1>2
<1>4. DoubleBits = IF b <= n THEN n ELSE b
  BY <1>1, <1>3, Larger DEF DoubleBits
<1>5. MinPrecBits \in Nat \ {0}
  <2>1. {1, m, c} \subseteq Nat /\ {1, m, c} # {} /\ 1 + m + c \in Nat
        /\ \A x \in {1, m, c} : x <= 1 + m + c
    OBVIOUS
  <2>2. PICK S : S = {1, m, c}
    OBVIOUS
  <2>3. Max(S) \in S /\ 1 <= Max(S)
    BY <2>1, <2>2, Largest
  <2>4. Max(S) \in Nat /\ Max(S) # 0
    BY <2>1, <2>2, <2>3
  <2> QED
    BY <1>1, <2>2, <2>4 DEF MinPrecBits
<1>6. PICK q \in Nat \ {0} : q = MinPrecBits
  BY <1>5
<1>7. PrecBits = IF q <= 29 THEN q ELSE 29
  BY <1>6, Smaller DEF PrecBits
<1>8. PICK p \in 1..29 : p = PrecBits
  BY <1>6, <1>7
<1>9. PICK e \in Nat : e = IF d <= c THEN c ELSE d
  OBVIOUS
<1>10. MinLimitBits = IF e > n + q THEN e - n - q + 1 ELSE 1
  <2>1. Max({d, c}) = e
    BY <1>1, <1>9, Larger
  <2> QED
    BY <1>1, <1>3, <1>6, <2>1 DEF MinLimitBits
<1>11. PICK k \in Nat \ {0} : k = MinLimitBits
  <2>1. MinLimitBits \in Nat \ {0}
    BY <1>10
  <2> QED
    BY <2>1
<1>12. LimitBits32 = IF k <= 32 - p THEN k ELSE 32 - p
  BY <1>8, <1>11, Smaller DEF LimitBits32
<1> QED
  BY <1>3, <1>4, <1>6, <1>7, <1>8, <1>11, <1>12

\* The sizes stay what they are while the constants do.
LEMMA SizesStay ==
  ASSUME UNCHANGED <<F32, F64, f32NonConsts, f64NonConsts, precise>>
  PROVE  /\ FloatBits' = FloatBits /\ DoubleBits' = DoubleBits
         /\ PrecBits' = PrecBits /\ LimitBits32' = LimitBits32
<1>1. FloatBits' = FloatBits
  BY DEF FloatBits, FloatConsts
<1>2. DoubleConsts' = DoubleConsts
  BY DEF DoubleConsts
<1>3. DoubleBits' = DoubleBits
  BY <1>1, <1>2 DEF DoubleBits
<1>4. Exact' = Exact
  BY <1>2 DEF Exact
<1>5. Beyond' = Beyond
  BY <1>2, <1>4 DEF Beyond
<1>6. Inexact' = Inexact
  BY <1>2, <1>4, <1>5 DEF Inexact
<1>7. MaxInexact' = MaxInexact
  BY <1>6 DEF MaxInexact
<1>8. MinPrecBits' = MinPrecBits
  BY <1>7 DEF MinPrecBits
<1>9. PrecBits' = PrecBits
  BY <1>8 DEF PrecBits
<1>10. LimitBits32' = LimitBits32
  BY <1>1, <1>5, <1>8, <1>9 DEF LimitBits32, MinLimitBits
<1> QED
  BY <1>1, <1>3, <1>9, <1>10

LEMMA SizedStays == Spec => []Sized
<1>1. Init => Sized
  BY DEF Init, Sized
<1>2. Sized /\ Collected /\ [Next]_vars => Sized'
  <2> SUFFICES ASSUME Sized, Collected, [Next]_vars PROVE Sized'
    OBVIOUS
  <2>1. ASSUME floatEnc = NoEnc, UNCHANGED <<floatEnc, doubleEnc>> PROVE Sized'
    <3>1. Plain(FloatBits) # NoEnc
      <4>1. FloatBits # 0
        BY SizesAreNumbers
      <4> QED
        BY <4>1 DEF Plain, NoEnc
    <3>2. doubleEnc = NoEnc
      BY <2>1, <3>1 DEF Sized
    <3> QED
      BY <2>1, <3>2 DEF Sized, NoEnc
  <2>2. CASE UNCHANGED vars
    <3>1. /\ FloatBits' = FloatBits /\ DoubleBits' = DoubleBits
          /\ PrecBits' = PrecBits /\ LimitBits32' = LimitBits32
      BY <2>2, SizesStay DEF vars
    <3>2. floatEnc' = floatEnc /\ doubleEnc' = doubleEnc /\ precise' = precise
      BY <2>2 DEF vars
    <3> QED
      BY <3>1, <3>2 DEF Sized, Plain, NoEnc
  <2>3. CASE SetAbstraction
    <3>1. /\ FloatBits' = FloatBits /\ DoubleBits' = DoubleBits
          /\ PrecBits' = PrecBits /\ LimitBits32' = LimitBits32
      BY <2>3, SizesStay DEF SetAbstraction
    <3>2. precise' = precise
      BY <2>3 DEF SetAbstraction
    <3> QED
      BY <2>3, <3>1, <3>2 DEF Sized, SetAbstraction, Plain, NoEnc
  <2> QED
    BY <2>1, <2>2, <2>3 DEF Next, AnalyzeDouble, AnalyzeFloat, AnalyzeSpecial
<1> QED
  BY <1>1, <1>2, CollectedStays, PTL DEF Spec

-----------------------------------------------------------------------------
(***************************************************************************)
(* The fields of a magnitude.                                              *)
(***************************************************************************)
Wide(l, n, p) == [limit |-> l, small |-> n, prec |-> p]

LEMMA Formats ==
  ASSUME Collected, Sized, Encoded, precise
  PROVE  /\ floatEnc = Plain(FloatBits)
         /\ doubleEnc = Wide(LimitBits32, FloatBits, PrecBits)
         /\ FloatBits \in Nat \ {0} /\ LimitBits32 \in Nat \ {0} /\ PrecBits \in Nat \ {0}
<1>1. FloatBits \in 1..31 /\ PrecBits \in 1..29 /\ LimitBits32 \in 1..(32 - PrecBits)
  BY SizesAreNumbers
<1> QED
  BY <1>1 DEF Sized, Encoded, Wide

\* What the special magnitudes and the fields of both formats are: N numbers of
\* f32, P numbers of f64 from one to the next, M of them without limit bits, and
\* W in all.
LayoutIs(l, n, p, N, P, M, W) ==
  /\ N = 2^n /\ P = 2^p /\ N >= 2 /\ P >= 2 /\ M = N * P
  /\ N \in Nat /\ P \in Nat /\ M \in Nat \ {0} /\ W \in Nat \ {0}
  /\ 2 * M <= W /\ W = 2^(l + n + p)
  /\ Mags(Plain(n)) = 0..(N - 1) /\ NanMag(Plain(n)) = N - 1
  /\ InfMag(Plain(n)) = N - 2 /\ MaxMag(Plain(n)) = N - 3
  /\ Mags(Wide(l, n, p)) = 0..(W - 1) /\ NanMag(Wide(l, n, p)) = W - 1
  /\ InfMag(Wide(l, n, p)) = W - 2 /\ MaxMag(Wide(l, n, p)) = W - 3
  /\ \A m : /\ LimitBits(Wide(l, n, p), m) = m \div M
            /\ TruncatedBits(Wide(l, n, p), m) = (m \div P) % N
            /\ PrecisionBits(Wide(l, n, p), m) = m % P

LEMMA Layout ==
  ASSUME NEW l \in Nat \ {0}, NEW n \in Nat \ {0}, NEW p \in Nat \ {0}
  PROVE  \E N, P, M, W : LayoutIs(l, n, p, N, P, M, W)
<1>1. ASSUME NEW k \in Nat \ {0} PROVE 2^k \in Nat /\ 2^k >= 2
  <2>1. PICK j \in Nat : j = k - 1
    OBVIOUS
  <2>2. PICK x \in Nat : x = 2^j /\ x >= 1
    BY PowerPositive
  <2>3. j + 1 = k
    BY <2>1
  <2>4. 2^k = 2 * x
    BY <2>2, <2>3, PowerDoubles
  <2> QED
    BY <2>2, <2>4
<1>2. PICK L \in Nat, N \in Nat, P \in Nat :
        L = 2^l /\ N = 2^n /\ P = 2^p /\ L >= 2 /\ N >= 2 /\ P >= 2
  BY <1>1
<1>3. PICK M : M = N * P
  OBVIOUS
<1>4. M \in Nat \ {0}
  BY <1>2, <1>3, SMT
<1>5. PICK W : W = L * M
  OBVIOUS
<1>6. W \in Nat \ {0} /\ 2 * M <= W
  BY <1>2, <1>4, <1>5, SMT
<1>7. 2^(n + p) = M
  BY <1>2, <1>3, PowerAdds
<1>8. 2^(l + n + p) = W
  <2>1. PICK k \in Nat : k = n + p
    OBVIOUS
  <2>2. l + k = l + n + p
    BY <2>1
  <2>3. 2^(l + k) = 2^l * 2^k
    BY <2>1, PowerAdds
  <2>4. 2^k = M
    BY <2>1, <1>7
  <2>5. 2^(l + k) = W
    BY <2>3, <2>4, <1>2, <1>5
  <2> QED
    BY <2>2, <2>5
<1>9. ValueBits(Plain(n)) = n /\ ValueBits(Wide(l, n, p)) = l + n + p
  BY DEF ValueBits, Plain, Wide
<1>10. /\ Mags(Plain(n)) = 0..(N - 1) /\ NanMag(Plain(n)) = N - 1
       /\ InfMag(Plain(n)) = N - 2 /\ MaxMag(Plain(n)) = N - 3
  <2>1. /\ Mags(Plain(n)) = 0..(N - 1) /\ NanMag(Plain(n)) = N - 1
        /\ InfMag(Plain(n)) = N - 2 /\ MaxMag(Plain(n)) = N - 2 - 1
    BY <1>2, <1>9 DEF Mags, NanMag, InfMag, MaxMag
  <2> QED
    BY <1>2, <2>1
<1>11. /\ Mags(Wide(l, n, p)) = 0..(W - 1) /\ NanMag(Wide(l, n, p)) = W - 1
       /\ InfMag(Wide(l, n, p)) = W - 2 /\ MaxMag(Wide(l, n, p)) = W - 3
  <2>1. /\ Mags(Wide(l, n, p)) = 0..(W - 1) /\ NanMag(Wide(l, n, p)) = W - 1
        /\ InfMag(Wide(l, n, p)) = W - 2 /\ MaxMag(Wide(l, n, p)) = W - 2 - 1
    BY <1>8, <1>9 DEF Mags, NanMag, InfMag, MaxMag
  <2> QED
    BY <1>6, <2>1
<1>12. ASSUME NEW m
       PROVE  /\ LimitBits(Wide(l, n, p), m) = m \div M
              /\ TruncatedBits(Wide(l, n, p), m) = (m \div P) % N
              /\ PrecisionBits(Wide(l, n, p), m) = m % P
  <2>1. Wide(l, n, p).small = n /\ Wide(l, n, p).prec = p
    BY DEF Wide
  <2> QED
    BY <1>2, <1>7, <2>1 DEF LimitBits, TruncatedBits, PrecisionBits
<1>13. LayoutIs(l, n, p, N, P, M, W)
  BY <1>2, <1>3, <1>4, <1>6, <1>8, <1>10, <1>11, <1>12 DEF LayoutIs
<1> QED
  BY <1>13

\* A number of f32 and precision bits below it.
LEMMA Fields ==
  ASSUME NEW N \in Nat \ {0}, NEW P \in Nat \ {0}, NEW m \in 0..(N - 1), NEW r \in 0..(P - 1)
  PROVE  /\ m * P + r \in Nat /\ m * P + r <= (m + 1) * P - 1
         /\ (m * P + r) \div (N * P) = 0
         /\ ((m * P + r) \div P) % N = m
         /\ (m * P + r) % P = r
<1>1. PICK x : x = m * P + r
  OBVIOUS
<1>2. N * P \in Nat \ {0} /\ x \in 0..(N * P - 1)
  BY <1>1, Together
<1>3. x \div (N * P) = 0
  BY <1>2, Small
<1>4. x \div P = m /\ x % P = r
  BY <1>1, Unique
<1>5. m % N = m
  BY Small
<1>6. (m + 1) * P = m * P + P /\ m * P \in Nat
  BY SMT
<1>7. x <= (m + 1) * P - 1
  BY <1>1, <1>6
<1> QED
  BY <1>1, <1>2, <1>3, <1>4, <1>5, <1>7

-----------------------------------------------------------------------------
(***************************************************************************)
(* Extension and truncation.                                               *)
(***************************************************************************)

\* What a code is extended to: a NaN, an infinity, or its magnitude with zeros
\* appended, which is below both.
ExtendedIs(l, n, p, N, P, W, f, m) ==
  /\ f.sign \in {0, 1} /\ f.mag \in 0..(N - 1) /\ m \in Nat /\ m = f.mag * P
  /\ f.mag = N - 1 => Extend(Plain(n), Wide(l, n, p), f) = Fp(0, W - 1)
  /\ f.mag = N - 2 => Extend(Plain(n), Wide(l, n, p), f) = Fp(f.sign, W - 2)
  /\ f.mag < N - 2 => Extend(Plain(n), Wide(l, n, p), f) = Fp(f.sign, m) /\ m < W - 2
  /\ LimitBits(Wide(l, n, p), m) = 0
  /\ TruncatedBits(Wide(l, n, p), m) = f.mag
  /\ PrecisionBits(Wide(l, n, p), m) = 0

LEMMA Extended ==
  ASSUME NEW l, NEW n, NEW p, NEW N, NEW P, NEW M, NEW W, LayoutIs(l, n, p, N, P, M, W),
         NEW f \in Codes(Plain(n))
  PROVE  \E m : ExtendedIs(l, n, p, N, P, W, f, m)
<1>1. /\ N \in Nat /\ P \in Nat /\ M \in Nat \ {0} /\ W \in Nat \ {0}
      /\ N >= 2 /\ P >= 2 /\ M = N * P /\ 2 * M <= W
      /\ Mags(Plain(n)) = 0..(N - 1) /\ NanMag(Plain(n)) = N - 1
      /\ InfMag(Plain(n)) = N - 2
      /\ NanMag(Wide(l, n, p)) = W - 1 /\ InfMag(Wide(l, n, p)) = W - 2
  BY DEF LayoutIs
<1>0. P = 2^p
  BY DEF LayoutIs
<1>2. \A x : /\ LimitBits(Wide(l, n, p), x) = x \div M
             /\ TruncatedBits(Wide(l, n, p), x) = (x \div P) % N
             /\ PrecisionBits(Wide(l, n, p), x) = x % P
  BY DEF LayoutIs
<1>3. f.sign \in {0, 1} /\ f.mag \in 0..(N - 1)
  BY <1>1 DEF Codes
<1>4. PICK a \in 0..(N - 1), s \in {0, 1} : a = f.mag /\ s = f.sign
  BY <1>3
<1>5. PICK m : m = a * P
  OBVIOUS
<1>6. 0 \in 0..(P - 1) /\ m = a * P + 0 /\ m \in Nat
  BY <1>1, <1>4, <1>5, SMT
<1>7. /\ LimitBits(Wide(l, n, p), m) = 0
      /\ TruncatedBits(Wide(l, n, p), m) = a
      /\ PrecisionBits(Wide(l, n, p), m) = 0
      /\ m <= (a + 1) * P - 1
  <2>1. PICK r : r = 0 /\ r \in 0..(P - 1) /\ m = a * P + r
    BY <1>6
  <2>2. /\ (a * P + r) \div (N * P) = 0 /\ ((a * P + r) \div P) % N = a
        /\ (a * P + r) % P = r /\ a * P + r <= (a + 1) * P - 1
    <3>1. N \in Nat \ {0} /\ P \in Nat \ {0}
      BY <1>1
    <3>2. a \in 0..(N - 1) /\ r \in 0..(P - 1)
      BY <1>4, <2>1
    <3> QED
      BY <3>1, <3>2, Fields
  <2>3. m \div M = 0 /\ (m \div P) % N = a /\ m % P = 0 /\ m <= (a + 1) * P - 1
    BY <1>1, <2>1, <2>2
  <2> QED
    BY <1>2, <2>3
<1>8. a < N - 2 => m < W - 2
  <2> SUFFICES ASSUME a < N - 2 PROVE m < W - 2
    OBVIOUS
  <2>1. PICK b \in Nat : N = (a + 1) + b
    <3>1. N - (a + 1) \in Nat /\ N = (a + 1) + (N - (a + 1))
      BY <1>1, <1>4
    <3> QED
      BY <3>1
  <2>2. N * P = (a + 1) * P + b * P
    <3>1. PICK c \in Nat : c = a + 1
      BY <1>4
    <3>2. (c + b) * P = c * P + b * P
      BY <1>1, <2>1, <3>1, SMT
    <3> QED
      BY <2>1, <3>1, <3>2
  <2>3. b * P \in Nat /\ (a + 1) * P \in Nat
    <3>1. PICK c \in Nat : c = a + 1
      BY <1>4
    <3>2. b * P \in Nat /\ c * P \in Nat
      BY <1>1, <2>1, SMT
    <3> QED
      BY <3>1, <3>2
  <2>4. M >= 3
    <3>1. N * P >= N * 2
      BY <1>1, SMT
    <3> QED
      BY <1>1, <1>4, <3>1
  <2>5. PICK u \in Nat, v \in Nat : u = (a + 1) * P /\ v = b * P /\ M = u + v /\ m <= u - 1
    BY <1>1, <1>7, <2>2, <2>3
  <2> QED
    BY <1>1, <1>6, <2>4, <2>5
<1>9. a = N - 1 => Extend(Plain(n), Wide(l, n, p), f) = Fp(0, W - 1)
  BY <1>1, <1>4 DEF Extend, IsNan, Nan
<1>10. a = N - 2 => Extend(Plain(n), Wide(l, n, p), f) = Fp(s, W - 2)
  <2> SUFFICES ASSUME a = N - 2 PROVE Extend(Plain(n), Wide(l, n, p), f) = Fp(s, W - 2)
    OBVIOUS
  <2>1. ~IsNan(Plain(n), f) /\ IsInf(Plain(n), f)
    BY <1>1, <1>4 DEF IsNan, IsInf
  <2> QED
    BY <1>1, <1>4, <2>1 DEF Extend, Inf
<1>11. a < N - 2 => Extend(Plain(n), Wide(l, n, p), f) = Fp(s, m)
  <2> SUFFICES ASSUME a < N - 2 PROVE Extend(Plain(n), Wide(l, n, p), f) = Fp(s, m)
    OBVIOUS
  <2>1. ~IsNan(Plain(n), f) /\ ~IsInf(Plain(n), f)
    BY <1>1, <1>4 DEF IsNan, IsInf
  <2>2. Wide(l, n, p).prec = p
    BY DEF Wide
  <2> QED
    BY <1>0, <1>4, <1>5, <2>1, <2>2 DEF Extend
<1>12. ExtendedIs(l, n, p, N, P, W, f, m)
  BY <1>3, <1>4, <1>5, <1>6, <1>7, <1>8, <1>9, <1>10, <1>11 DEF ExtendedIs
<1> QED
  BY <1>12

LEMMA RoundTrip ==
  ASSUME NEW l \in Nat \ {0}, NEW n \in Nat \ {0}, NEW p \in Nat \ {0},
         NEW f \in Codes(Plain(n)), NEW d, d = Extend(Plain(n), Wide(l, n, p), f)
  PROVE  /\ \A up \in BOOLEAN :
              Truncate(Wide(l, n, p), Plain(n), d, up) = Canonical(Plain(n), f)
         /\ IsNan(Wide(l, n, p), d) <=> IsNan(Plain(n), f)
         /\ IsInf(Wide(l, n, p), d) <=> IsInf(Plain(n), f)
<1>0. PICK N, P, M, W, m : LayoutIs(l, n, p, N, P, M, W) /\ ExtendedIs(l, n, p, N, P, W, f, m)
  BY Layout, Extended
<1>1. /\ P \in Nat /\ N \in Nat /\ W \in Nat /\ m \in Nat /\ P >= 2 /\ N >= 2
      /\ NanMag(Plain(n)) = N - 1 /\ InfMag(Plain(n)) = N - 2
      /\ NanMag(Wide(l, n, p)) = W - 1 /\ InfMag(Wide(l, n, p)) = W - 2
      /\ f.sign \in {0, 1} /\ f.mag \in 0..(N - 1)
      /\ f.mag = N - 1 => d = Fp(0, W - 1)
      /\ f.mag = N - 2 => d = Fp(f.sign, W - 2)
      /\ f.mag < N - 2 => d = Fp(f.sign, m) /\ m < W - 2
      /\ LimitBits(Wide(l, n, p), m) = 0
      /\ TruncatedBits(Wide(l, n, p), m) = f.mag
      /\ PrecisionBits(Wide(l, n, p), m) = 0
  BY <1>0 DEF LayoutIs, ExtendedIs
<1>2. PICK a \in 0..(N - 1), s \in {0, 1} : a = f.mag /\ s = f.sign
  BY <1>1
<1>3. f = Fp(s, a)
  BY <1>2 DEF Codes, Fp
<1>4. CASE a = N - 1
  <2>1. d.mag = W - 1 /\ d.sign = 0
    BY <1>1, <1>2, <1>4 DEF Fp
  <2>2. IsNan(Wide(l, n, p), d) /\ ~IsInf(Wide(l, n, p), d)
    BY <1>1, <2>1 DEF IsNan, IsInf
  <2>3. IsNan(Plain(n), f) /\ ~IsInf(Plain(n), f)
    BY <1>1, <1>2, <1>4 DEF IsNan, IsInf
  <2> QED
    BY <2>2, <2>3 DEF Truncate, Canonical
<1>5. CASE a = N - 2
  <2>1. d.mag = W - 2 /\ d.sign = s
    BY <1>1, <1>2, <1>5 DEF Fp
  <2>2. ~IsNan(Wide(l, n, p), d) /\ IsInf(Wide(l, n, p), d)
    BY <1>1, <2>1 DEF IsNan, IsInf
  <2>3. ~IsNan(Plain(n), f) /\ IsInf(Plain(n), f)
    BY <1>1, <1>2, <1>5 DEF IsNan, IsInf
  <2>4. Inf(Plain(n), s) = f
    BY <1>1, <1>3, <1>5 DEF Inf
  <2> QED
    BY <2>1, <2>2, <2>3, <2>4 DEF Truncate, Canonical
<1>6. CASE a < N - 2
  <2>1. d.mag = m /\ d.sign = s
    BY <1>1, <1>2, <1>6 DEF Fp
  <2>2. ~IsNan(Wide(l, n, p), d) /\ ~IsInf(Wide(l, n, p), d)
    BY <1>1, <1>2, <1>6, <2>1 DEF IsNan, IsInf
  <2>3. ~IsNan(Plain(n), f) /\ ~IsInf(Plain(n), f)
    BY <1>1, <1>2, <1>6 DEF IsNan, IsInf
  <2>4. ~(a >= InfMag(Plain(n)))
    BY <1>1, <1>2, <1>6
  <2>5. /\ LimitBits(Wide(l, n, p), d.mag) = 0
        /\ TruncatedBits(Wide(l, n, p), d.mag) = a
        /\ PrecisionBits(Wide(l, n, p), d.mag) = 0
    BY <1>1, <1>2, <1>6, <2>1
  <2>6. \A up \in BOOLEAN : Truncate(Wide(l, n, p), Plain(n), d, up) = Fp(s, a)
    BY <2>1, <2>2, <2>4, <2>5 DEF Truncate
  <2> QED
    BY <1>3, <2>2, <2>3, <2>6 DEF Canonical
<1> QED
  BY <1>1, <1>4, <1>5, <1>6

LEMMA ExtendKeepsOrder ==
  ASSUME NEW l \in Nat \ {0}, NEW n \in Nat \ {0}, NEW p \in Nat \ {0},
         NEW f \in Codes(Plain(n)), NEW g \in Codes(Plain(n)),
         CmpLt(f, g), ~IsNan(Plain(n), f), ~IsNan(Plain(n), g)
  PROVE  CmpLt(Extend(Plain(n), Wide(l, n, p), f), Extend(Plain(n), Wide(l, n, p), g))
<1>0. PICK N, P, M, W : LayoutIs(l, n, p, N, P, M, W)
  BY Layout
<1>1. PICK a : ExtendedIs(l, n, p, N, P, W, f, a)
  BY <1>0, Extended
<1>2. PICK b : ExtendedIs(l, n, p, N, P, W, g, b)
  BY <1>0, Extended
<1>3. /\ P \in Nat /\ N \in Nat /\ W \in Nat /\ P >= 2 /\ N >= 2
      /\ NanMag(Plain(n)) = N - 1
  BY <1>0 DEF LayoutIs
<1>4. PICK i \in 0..(N - 2), j \in 0..(N - 2), s \in {0, 1}, t \in {0, 1} :
        s = f.sign /\ i = f.mag /\ t = g.sign /\ j = g.mag
  <2>1. f.mag \in 0..(N - 1) /\ g.mag \in 0..(N - 1)
    BY <1>1, <1>2 DEF ExtendedIs
  <2>2. f.mag # N - 1 /\ g.mag # N - 1
    BY <1>3 DEF IsNan
  <2>3. f.mag \in 0..(N - 2) /\ g.mag \in 0..(N - 2)
    BY <1>3, <2>1, <2>2
  <2> QED
    BY <1>1, <1>2, <2>3 DEF ExtendedIs
<1>9. PICK x \in Int, y \in Int :
        /\ Extend(Plain(n), Wide(l, n, p), f) = Fp(s, x)
        /\ Extend(Plain(n), Wide(l, n, p), g) = Fp(t, y)
        /\ i = N - 2 => x = W - 2
        /\ j = N - 2 => y = W - 2
        /\ i < N - 2 => x = i * P /\ x < W - 2
        /\ j < N - 2 => y = j * P /\ y < W - 2
  <2>1. PICK x \in Int : /\ Extend(Plain(n), Wide(l, n, p), f) = Fp(s, x)
                         /\ i = N - 2 => x = W - 2
                         /\ i < N - 2 => x = i * P /\ x < W - 2
    <3>1. CASE i = N - 2
      BY <1>1, <1>3, <1>4, <3>1 DEF ExtendedIs
    <3>2. CASE i < N - 2
      BY <1>1, <1>3, <1>4, <3>2 DEF ExtendedIs
    <3> QED
      BY <1>3, <1>4, <3>1, <3>2
  <2>2. PICK y \in Int : /\ Extend(Plain(n), Wide(l, n, p), g) = Fp(t, y)
                         /\ j = N - 2 => y = W - 2
                         /\ j < N - 2 => y = j * P /\ y < W - 2
    <3>1. CASE j = N - 2
      BY <1>2, <1>3, <1>4, <3>1 DEF ExtendedIs
    <3>2. CASE j < N - 2
      BY <1>2, <1>3, <1>4, <3>2 DEF ExtendedIs
    <3> QED
      BY <1>3, <1>4, <3>1, <3>2
  <2> QED
    BY <2>1, <2>2
<1>5. ASSUME NEW h \in Nat, NEW k \in Nat, h < k PROVE h * P < k * P
  BY <1>3, <1>5, SMT
<1>6. (i < j => x < y) /\ (j < i => y < x)
  <2>1. ASSUME i < j PROVE x < y
    <3>1. i < N - 2 /\ x = i * P /\ x < W - 2
      BY <1>3, <1>4, <1>9, <2>1
    <3>2. CASE j = N - 2
      BY <1>9, <3>1, <3>2
    <3>3. CASE j < N - 2
      <4>1. y = j * P
        BY <1>9, <3>3
      <4> QED
        BY <1>5, <2>1, <3>1, <4>1
    <3> QED
      BY <1>3, <1>4, <3>2, <3>3
  <2>2. ASSUME j < i PROVE y < x
    <3>1. j < N - 2 /\ y = j * P /\ y < W - 2
      BY <1>3, <1>4, <1>9, <2>2
    <3>2. CASE i = N - 2
      BY <1>9, <3>1, <3>2
    <3>3. CASE i < N - 2
      <4>1. x = i * P
        BY <1>9, <3>3
      <4> QED
        BY <1>5, <2>2, <3>1, <4>1
    <3> QED
      BY <1>3, <1>4, <3>2, <3>3
  <2> QED
    BY <2>1, <2>2
<1>7. IF s # t THEN s > t ELSE i # j /\ (i < j <=> s = 0)
  BY <1>4 DEF CmpLt
<1>8. IF s # t THEN s > t ELSE x # y /\ (x < y <=> s = 0)
  BY <1>4, <1>6, <1>7
<1> QED
  BY <1>9, <1>8 DEF CmpLt, Fp

\* Casts: extension is undone by truncation and keeps the order of numbers, for
\* encodings of whatever size (extend, truncate).
THEOREM CastsAreUndone == Spec => []CastsRoundTrip
<1>1. Collected /\ Sized => CastsRoundTrip
  <2> SUFFICES ASSUME Collected, Sized, Encoded, precise,
                      NEW f \in Codes(floatEnc),
                      NEW d, d = Extend(floatEnc, doubleEnc, f)
               PROVE  /\ \A up \in BOOLEAN :
                           Truncate(doubleEnc, floatEnc, d, up) = Canonical(floatEnc, f)
                      /\ IsNan(doubleEnc, d) <=> IsNan(floatEnc, f)
                      /\ IsInf(doubleEnc, d) <=> IsInf(floatEnc, f)
                      /\ \A g \in Codes(floatEnc) :
                           CmpLt(f, g) /\ ~IsNan(floatEnc, f) /\ ~IsNan(floatEnc, g) =>
                             CmpLt(d, Extend(floatEnc, doubleEnc, g))
    BY DEF CastsRoundTrip
  <2>1. PICK l \in Nat \ {0}, n \in Nat \ {0}, p \in Nat \ {0} :
          floatEnc = Plain(n) /\ doubleEnc = Wide(l, n, p)
    BY Formats
  <2>2. /\ \A up \in BOOLEAN :
             Truncate(doubleEnc, floatEnc, d, up) = Canonical(floatEnc, f)
        /\ IsNan(doubleEnc, d) <=> IsNan(floatEnc, f)
        /\ IsInf(doubleEnc, d) <=> IsInf(floatEnc, f)
    BY <2>1, RoundTrip
  <2>3. ASSUME NEW g \in Codes(floatEnc),
               CmpLt(f, g) /\ ~IsNan(floatEnc, f) /\ ~IsNan(floatEnc, g)
        PROVE  CmpLt(d, Extend(floatEnc, doubleEnc, g))
    BY <2>1, <2>3, ExtendKeepsOrder
  <2> QED
    BY <2>2, <2>3
<1> QED
  BY <1>1, CollectedStays, SizedStays, PTL

-----------------------------------------------------------------------------
(***************************************************************************)
(* Ranks: how many elements of a set are no larger than a number.          *)
(***************************************************************************)
Rank(S, v) == Cardinality({w \in S : w <= v})

LEMMA RankType ==
  ASSUME NEW S, IsFiniteSet(S), NEW v
  PROVE  /\ Rank(S, v) \in 0..Cardinality(S) /\ IsFiniteSet({w \in S : w <= v})
         /\ Cardinality(S) \in Nat
<1>1. PICK T : T = {w \in S : w <= v}
  OBVIOUS
<1>2. T \in SUBSET S
  BY <1>1
<1>3. IsFiniteSet(T) /\ Cardinality(T) <= Cardinality(S)
  BY <1>2, FS_Subset
<1>4. Cardinality(T) \in Nat /\ Cardinality(S) \in Nat
  BY <1>3, FS_CardinalityType
<1> QED
  BY <1>1, <1>3, <1>4 DEF Rank

LEMMA RankGrows ==
  ASSUME NEW S, IsFiniteSet(S), S \subseteq Int, NEW u \in Int, NEW v \in Int, u <= v
  PROVE  /\ Rank(S, u) <= Rank(S, v)
         /\ v \in S /\ u # v => Rank(S, u) < Rank(S, v)
<1>1. PICK T, U : T = {w \in S : w <= u} /\ U = {w \in S : w <= v}
  OBVIOUS
<1>2. T \in SUBSET U
  <2>1. ASSUME NEW w \in S, w <= u PROVE w <= v
    <3>1. w \in Int
      OBVIOUS
    <3> QED
      BY <2>1, <3>1
  <2> QED
    BY <1>1, <2>1
<1>3. IsFiniteSet(U)
  BY <1>1, RankType
<1>4. Cardinality(T) <= Cardinality(U) /\ (Cardinality(U) = Cardinality(T) => U = T)
  BY <1>2, <1>3, FS_Subset
<1>5. v \in S /\ u # v => v \in U /\ v \notin T
  BY <1>1
<1>6. IsFiniteSet(T) /\ Cardinality(T) \in Nat /\ Cardinality(U) \in Nat
  BY <1>2, <1>3, FS_Subset, FS_CardinalityType
<1> QED
  BY <1>1, <1>4, <1>5, <1>6 DEF Rank

\* Neighbours have consecutive ranks.
LEMMA RankSteps ==
  ASSUME NEW S, IsFiniteSet(S), S \subseteq Int, NEW u \in Int, NEW v \in S, u < v,
         \A w \in S : w <= u \/ v <= w
  PROVE  Rank(S, v) = Rank(S, u) + 1
<1>1. PICK T, U : T = {w \in S : w <= u} /\ U = {w \in S : w <= v}
  OBVIOUS
<1>2. U = T \cup {v} /\ v \notin T
  <2>1. v \in Int
    OBVIOUS
  <2>2. ASSUME NEW w \in S PROVE w <= v <=> w <= u \/ w = v
    <3>1. w \in Int
      OBVIOUS
    <3> QED
      BY <2>1, <3>1
  <2>3. v <= v /\ ~(v <= u)
    BY <2>1
  <2> QED
    BY <1>1, <2>2, <2>3
<1>3. IsFiniteSet(T)
  BY <1>1, RankType
<1>4. Cardinality(U) = Cardinality(T) + 1
  BY <1>2, <1>3, FS_AddElement
<1> QED
  BY <1>1, <1>4 DEF Rank

LEMMA RankZero ==
  ASSUME NEW S, S \subseteq Int, NEW u \in Int, \A w \in S : u < w
  PROVE  Rank(S, u) = 0
<1>1. {w \in S : w <= u} = {}
  <2>1. ASSUME NEW w \in S PROVE ~(w <= u)
    <3>1. w \in Int /\ u < w
      OBVIOUS
    <3> QED
      BY <3>1
  <2> QED
    BY <2>1
<1> QED
  BY <1>1, FS_EmptySet DEF Rank

\* Every rank is that of one element.
LEMMA RankFinds ==
  ASSUME NEW S, IsFiniteSet(S), S \subseteq Int
  PROVE  /\ \A v \in S : Rank(S, v) \in 1..Cardinality(S)
         /\ \A i \in 1..Cardinality(S) : \E v \in S : Rank(S, v) = i
         /\ \A u, v \in S : Rank(S, u) = Rank(S, v) => u = v
<1>1. ASSUME NEW u \in S, NEW v \in S, u < v PROVE Rank(S, u) < Rank(S, v)
  <2>1. u \in Int /\ v \in Int
    OBVIOUS
  <2>2. u <= v /\ u # v
    BY <1>1, <2>1
  <2> QED
    BY <2>1, <2>2, RankGrows
<1>2. ASSUME NEW v \in S PROVE Rank(S, v) \in 1..Cardinality(S)
  <2>1. Rank(S, v) \in 0..Cardinality(S)
    BY RankType
  <2>2. Rank(S, v) # 0
    <3>1. PICK T : T = {w \in S : w <= v}
      OBVIOUS
    <3>2. v \in T /\ IsFiniteSet(T)
      BY <3>1, RankType
    <3>3. Cardinality(T) # 0
      BY <3>2, FS_EmptySet
    <3> QED
      BY <3>1, <3>3 DEF Rank
  <2> QED
    BY <2>1, <2>2
<1>3. ASSUME NEW u \in S, NEW v \in S, Rank(S, u) = Rank(S, v) PROVE u = v
  <2>1. Rank(S, u) \in Int /\ u \in Int /\ v \in Int
    BY <1>2
  <2>2. ~(u < v) /\ ~(v < u)
    BY <1>1, <1>3, <2>1
  <2> QED
    BY <2>1, <2>2
<1>4. PICK k \in Nat : k = Cardinality(S)
  BY FS_CardinalityType
<1> DEFINE f == [v \in S |-> Rank(S, v)]
<1>5. f \in [S -> 1..k]
  BY <1>2, <1>4
<1>6. f \in Injection(S, 1..k)
  BY <1>3, <1>5 DEF Injection, IsInjective
<1>7. IsFiniteSet(1..k) /\ Cardinality(1..k) = k
  <2>1. Cardinality(1..k) = IF 1 > k THEN 0 ELSE k - 1 + 1
    BY FS_Interval
  <2> QED
    BY <2>1, FS_Interval
<1>8. f \in Surjection(S, 1..k)
  <2> HIDE DEF f
  <2> QED
    BY <1>4, <1>6, <1>7, FS_Injection
<1>9. ASSUME NEW i \in 1..k PROVE \E v \in S : Rank(S, v) = i
  BY <1>8 DEF Surjection
<1> QED
  BY <1>2, <1>3, <1>4, <1>9

\* A number and those of the set that are above it.
LEMMA RankAbove ==
  ASSUME NEW S, IsFiniteSet(S), S \subseteq Int, NEW u \in Int, NEW T \in SUBSET S,
         \A w \in T : u < w
  PROVE  IsFiniteSet(T) /\ Rank(S, u) + Cardinality(T) <= Cardinality(S)
<1>1. PICK U : U = {w \in S : w <= u}
  OBVIOUS
<1>2. IsFiniteSet(U) /\ IsFiniteSet(T)
  BY <1>1, RankType, FS_Subset
<1>3. U \cap T = {} /\ U \cup T \in SUBSET S
  <2>1. ASSUME NEW w \in T PROVE ~(w <= u)
    <3>1. w \in Int /\ u < w
      OBVIOUS
    <3> QED
      BY <3>1
  <2> QED
    BY <1>1, <2>1
<1>4. Cardinality(U \cup T) = Cardinality(U) + Cardinality(T) - Cardinality({})
  BY <1>2, <1>3, FS_Union
<1>5. Cardinality({}) = 0 /\ Cardinality(U \cup T) <= Cardinality(S)
  BY <1>3, FS_EmptySet, FS_Subset
<1>6. Cardinality(U) \in Nat /\ Cardinality(T) \in Nat
  BY <1>2, FS_CardinalityType
<1>7. Cardinality(U) + Cardinality(T) <= Cardinality(S)
  BY <1>4, <1>5, <1>6
<1> QED
  BY <1>1, <1>2, <1>7 DEF Rank

\* The f32 numbers from v on.
LEMMA CountAbove ==
  ASSUME NEW v \in Floats
  PROVE  \E j \in 0..Steps :
           /\ v = Gap * j /\ (FloatMax - v) \div Gap = Steps - j
           /\ IsFiniteSet({w \in Floats : w >= v})
           /\ Cardinality({w \in Floats : w >= v}) = Steps - j + 1
<1>1. PICK j \in 0..Steps : v = Gap * j /\ j \in Nat /\ Gap * j \in Nat
  <2>1. PICK j \in 0..Steps : v = Gap * j
    BY Line
  <2>2. j \in Nat /\ v \in Nat
    BY <2>1, Bounds
  <2> QED
    BY <2>1, <2>2
<1>2. PICK t \in Nat : Steps = j + t
  <2>1. Steps - j \in Nat /\ Steps = j + (Steps - j)
    BY <1>1, Line
  <2> QED
    BY <2>1
<1>3. (FloatMax - v) \div Gap = t
  <2>1. Gap * (j + t) = Gap * j + t * Gap
    BY <1>1, Line, SMT
  <2>2. PICK r : r = 0 /\ r \in 0..(Gap - 1)
    BY Line
  <2>3. FloatMax = Gap * (j + t)
    BY <1>2, Line
  <2>4. FloatMax - v = t * Gap + r
    <3>1. t * Gap \in Nat
      BY Line, SMT
    <3> QED
      BY <1>1, <2>1, <2>2, <2>3, <3>1
  <2>5. (t * Gap + r) \div Gap = t
    BY <2>2, Line, Unique
  <2> QED
    BY <2>4, <2>5
<1> DEFINE f == [i \in j..Steps |-> Gap * i]
           W == {w \in Floats : w >= v}
<1>4. ASSUME NEW i \in 0..Steps
      PROVE  i \in Nat /\ Gap * i \in Floats /\ (Gap * i >= v <=> i >= j)
  <2>1. i \in Nat /\ Gap \in Nat \ {0} /\ Gap * i \in Floats
    BY Line
  <2>2. Gap * j <= Gap * i <=> j <= i
    BY <1>1, <2>1, Multiples
  <2>3. Gap * i \in Nat
    BY <2>1, SMT
  <2> QED
    BY <1>1, <2>1, <2>2, <2>3
<1>5. f \in Bijection(j..Steps, W)
  <2>1. f \in [j..Steps -> W]
    BY <1>1, <1>4, Line
  <2>2. ASSUME NEW h \in j..Steps, NEW i \in j..Steps, f[h] = f[i] PROVE h = i
    <3>1. h \in Nat /\ i \in Nat /\ Gap \in Nat \ {0} /\ Gap * h = Gap * i
      BY <1>1, <2>2, Line
    <3> QED
      BY <3>1, Multiples
  <2>3. ASSUME NEW w \in W PROVE \E i \in j..Steps : f[i] = w
    <3>1. PICK i \in 0..Steps : w = Gap * i
      BY Line
    <3>2. i \in j..Steps
      BY <1>1, <1>4, <3>1
    <3> QED
      BY <3>1, <3>2
  <2> QED
    BY <2>1, <2>2, <2>3 DEF Bijection, Injection, Surjection, IsInjective
<1>6. IsFiniteSet(j..Steps) /\ Cardinality(j..Steps) = t + 1
  <2>1. Cardinality(j..Steps) = IF j > Steps THEN 0 ELSE Steps - j + 1
    BY <1>1, Line, FS_Interval
  <2> QED
    BY <1>1, <1>2, <2>1, Line, FS_Interval
<1>7. IsFiniteSet(W) /\ Cardinality(W) = t + 1
  <2> HIDE DEF f, W
  <2> QED
    BY <1>5, <1>6, FS_Bijection DEF ExistsBijection
<1>8. t = Steps - j
  BY <1>1, <1>2, Line
<1> QED
  BY <1>1, <1>3, <1>7, <1>8

-----------------------------------------------------------------------------
(***************************************************************************)
(* The constants that share names, in order.                               *)
(***************************************************************************)
Values == Named(Exact, DoubleMax)

LEMMA ExactIs ==
  ASSUME Collected, InfinityIsNoConstant
  PROVE  /\ Infinity \notin DoubleConsts /\ Infinity \notin FloatConsts
         /\ Exact = (F32 \cup {0, One}) /\ Exact \subseteq Floats /\ 0 \in Exact /\ One \in Exact
         /\ DoubleMax \notin Exact /\ DoubleMax \in Beyond
         /\ FloatConsts = Exact \cup {FloatMax}
<1>1. F32 = F64 \cap (Floats \cup {Infinity})
  BY DEF Collected
<1>2. Infinity \notin F32 /\ Infinity \notin FloatConsts
  BY DEF InfinityIsNoConstant, FloatConsts
<1>3. Infinity \notin F64
  BY <1>1, <1>2
<1>4. /\ FloatMax \in Floats /\ 0 \in Floats /\ One \in Floats
  <2>1. {0, One, FloatMax} \subseteq FloatConsts /\ FloatConsts \subseteq Floats \cup {Infinity}
    BY Counts DEF FloatConsts
  <2> QED
    BY <1>2, <2>1
<1>5. DoubleMax # Infinity /\ DoubleMax \in 0..Infinity /\ DoubleMax <= DoubleMax
  BY Line
<1>6. DoubleMax \notin Floats
  <2>1. \A v \in Floats : v < DoubleMax /\ v \in Int /\ DoubleMax \in Int
    BY Bounds, Line
  <2> QED
    BY <2>1
<1>7. Infinity # 0 /\ Infinity # One
  BY <1>4, Bounds
<1>8. Infinity \notin DoubleConsts
  BY <1>3, <1>5, <1>7 DEF DoubleConsts
<1>9. Exact = F32 \cup {0, One}
  BY <1>1, <1>2, <1>4, <1>5, <1>6, <1>8 DEF Exact, DoubleConsts
<1>10. Exact \subseteq Floats
  BY <1>1, <1>2, <1>4, <1>9
<1>11. DoubleMax \in Beyond
  <2>1. Overflows(DoubleMax)
    BY <1>5, NearestParts
  <2> QED
    BY <1>6, <1>10, <2>1 DEF Beyond, DoubleConsts
<1>12. FloatConsts = Exact \cup {FloatMax}
  BY <1>9 DEF FloatConsts
<1> QED
  BY <1>2, <1>6, <1>8, <1>9, <1>10, <1>11, <1>12

\* The f32 numbers that an inexact constant lies between are constants.
LEMMA InexactIs ==
  ASSUME Collected, InfinityIsNoConstant, NEW c \in Inexact
  PROVE  /\ c \in 0..Infinity /\ c \notin Floats /\ ~Overflows(c)
         /\ Floor(c) \in Exact /\ Floor(c) + Gap \in Exact /\ Ceil(c) = Floor(c) + Gap
         /\ Floor(c) < c /\ c < Floor(c) + Gap
<1>1. c \in DoubleConsts /\ c \notin Exact /\ ~Overflows(c) /\ c \in 0..Infinity
  BY Counts DEF Inexact, Beyond
<1>2. c \notin Floats
  BY <1>1 DEF Exact
<1>3. c \in F64
  BY <1>1, ExactIs DEF DoubleConsts, Beyond
<1>4. Floor(c) \in F64 /\ Ceil(c) \in F64
  BY <1>1, <1>3 DEF Collected
<1>5. Ceil(c) # Infinity
  BY <1>4, ExactIs DEF DoubleConsts
<1>6. c \in Nat /\ Gap \in Nat
  BY <1>1, Line
<1>7. Floor(c) \in Floats /\ Floor(c) # FloatMax /\ Ceil(c) = Floor(c) + Gap
  BY <1>1, <1>2, <1>5, <1>6, CeilParts, FloorParts
<1>8. Floor(c) + Gap \in Floats
  BY <1>7, Bounds
<1>9. Floor(c) \in Exact /\ Floor(c) + Gap \in Exact
  BY <1>4, <1>7, <1>8 DEF Exact, DoubleConsts
<1>10. PICK f \in Nat : f = Floor(c) /\ f <= c /\ (f = FloatMax \/ c < f + Gap)
  <2>1. Floor(c) \in Nat
    BY <1>7, Bounds
  <2> QED
    BY <1>6, <2>1, FloorParts
<1>11. f # c
  BY <1>2, <1>7, <1>10
<1>12. f < c /\ c < f + Gap
  BY <1>6, <1>7, <1>10, <1>11
<1> QED
  BY <1>1, <1>2, <1>7, <1>9, <1>10, <1>12

LEMMA ValuesAre ==
  ASSUME Collected, InfinityIsNoConstant
  PROVE  /\ Values = Exact \ {0} /\ IsFiniteSet(Values) /\ Values \subseteq Floats
         /\ One \in Values /\ 0 \notin Values /\ Values \subseteq Int
         /\ Named(FloatConsts, FloatMax) = Values \ {FloatMax}
         /\ FloatConsts = Values \cup {0, FloatMax}
         /\ FloatMax \in Values => Cardinality(FloatConsts) = Cardinality(Values) + 1
         /\ FloatMax \notin Values => Cardinality(FloatConsts) = Cardinality(Values) + 2
         /\ \E w \in Floats : w \notin Exact
<1>1. /\ Exact = F32 \cup {0, One} /\ Exact \subseteq Floats /\ 0 \in Exact /\ One \in Exact
      /\ DoubleMax \notin Exact /\ FloatConsts = Exact \cup {FloatMax}
  BY ExactIs
<1>2. Values = Exact \ {0}
  BY <1>1 DEF Values, Named
<1>3. One # 0 /\ FloatMax # 0
  BY Line
<1>4. IsFiniteSet(Exact) /\ Cardinality(Exact) <= MaxConstants + 3 /\ Cardinality(Exact) \in Nat
  <2>1. IsFiniteSet(F32) /\ Cardinality(F32) <= MaxConstants + 1 /\ MaxConstants \in Nat
    BY Line DEF Collected
  <2>2. /\ IsFiniteSet(Exact) /\ Cardinality(Exact) \in Nat /\ Cardinality(F32) \in Nat
        /\ Cardinality(Exact) <= Cardinality(F32) + 2
    BY <1>1, <2>1, AddTwo
  <2> QED
    BY <2>1, <2>2
<1>5. IsFiniteSet(Values)
  BY <1>2, <1>4, FS_Subset
<1>6. Values \subseteq Int
  BY <1>1, <1>2, Bounds
<1>7. Named(FloatConsts, FloatMax) = Values \ {FloatMax}
  BY <1>1, <1>2 DEF Named
<1>8. FloatConsts = Values \cup {0, FloatMax}
  BY <1>1, <1>2
<1>9. Cardinality(Values \cup {0}) = Cardinality(Values) + 1 /\ IsFiniteSet(Values \cup {0})
  BY <1>2, <1>5, FS_AddElement
<1>10. FloatMax \in Values => Cardinality(FloatConsts) = Cardinality(Values) + 1
  <2>1. FloatMax \in Values => FloatConsts = Values \cup {0}
    BY <1>8
  <2> QED
    BY <1>9, <2>1
<1>11. FloatMax \notin Values => Cardinality(FloatConsts) = Cardinality(Values) + 2
  <2> SUFFICES ASSUME FloatMax \notin Values
               PROVE  Cardinality(FloatConsts) = Cardinality(Values) + 2
    OBVIOUS
  <2>1. PICK S : S = Values \cup {0}
    OBVIOUS
  <2>2. FloatMax \notin S /\ FloatConsts = S \cup {FloatMax}
    BY <1>3, <1>8, <2>1
  <2>3. Cardinality(FloatConsts) = Cardinality(S) + 1
    BY <1>9, <2>1, <2>2, FS_AddElement
  <2>4. Cardinality(Values) \in Nat
    BY <1>5, FS_CardinalityType
  <2> QED
    BY <1>9, <2>1, <2>3, <2>4
<1>12. \E w \in Floats : w \notin Exact
  <2> SUFFICES ASSUME Floats \subseteq Exact PROVE FALSE
    OBVIOUS
  <2>1. PICK j \in 0..Steps : /\ 0 = Gap * j
                              /\ Cardinality({w \in Floats : w >= 0}) = Steps - j + 1
    <3>1. 0 \in Floats
      BY <1>1
    <3> QED
      BY <3>1, CountAbove
  <2>2. j = 0
    <3>1. Gap * 0 = 0 /\ Gap \in Nat \ {0} /\ j \in Nat
      BY <2>1, Line
    <3>2. Gap * j = Gap * 0 <=> j = 0
      BY <3>1, Multiples
    <3> QED
      BY <2>1, <3>1, <3>2
  <2>3. {w \in Floats : w >= 0} = Floats
    BY Bounds
  <2>4. Cardinality(Floats) = Steps + 1
    <3>1. PICK k \in Nat : k = Steps
      BY Line
    <3>2. Cardinality(Floats) = k - 0 + 1
      BY <2>1, <2>2, <2>3, <3>1
    <3> QED
      BY <3>1, <3>2
  <2>5. Cardinality(Floats) <= Cardinality(Exact)
    BY <1>4, FS_Subset
  <2>6. MaxConstants + 2 < Steps /\ MaxConstants \in Nat /\ Steps \in Nat
    BY FewConstants, Line DEF Steps
  <2> QED
    BY <1>4, <2>4, <2>5, <2>6
<1> QED
  BY <1>1, <1>2, <1>3, <1>5, <1>6, <1>7, <1>8, <1>10, <1>11, <1>12

\* f32 has room for its constants: X is the largest magnitude.
LEMMA RoomForFloats ==
  ASSUME Collected, Sized, Encoded, InfinityIsNoConstant
  PROVE  \E X \in Nat, k \in Nat :
           /\ MaxMag(floatEnc) = X /\ InfMag(floatEnc) = X + 1 /\ NanMag(floatEnc) = X + 2
           /\ Mags(floatEnc) = 0..(X + 2) /\ 2^FloatBits = X + 3
           /\ k = Cardinality(Values) /\ 1 <= k /\ k <= X
           /\ FloatMax \notin Values => k <= X - 1
<1>1. floatEnc = Plain(FloatBits)
  BY DEF Sized, Encoded
<1>2. PICK n \in Nat \ {0} : n = FloatBits /\ n \in 1..31
  <2>1. FloatBits \in 1..31
    BY SizesAreNumbers
  <2> QED
    BY <2>1
<1>3. PICK N \in Nat : /\ N = 2^n /\ N >= 2
                       /\ Mags(Plain(n)) = 0..(N - 1) /\ NanMag(Plain(n)) = N - 1
                       /\ InfMag(Plain(n)) = N - 2 /\ MaxMag(Plain(n)) = N - 3
  <2>1. 1 \in Nat \ {0}
    OBVIOUS
  <2>2. PICK N, P, M, W : LayoutIs(1, n, 1, N, P, M, W)
    BY <2>1, Layout
  <2> QED
    BY <2>2 DEF LayoutIs
<1>4. PICK c \in Nat : c = Cardinality(FloatConsts) /\ c <= MaxConstants + 4
  <2>1. Cardinality(FloatConsts) \in 0..(MaxConstants + 4) /\ MaxConstants \in Nat
    BY Counts, Line
  <2> QED
    BY <2>1
<1>5. c + 2 <= N
  <2>1. PICK x \in Nat : x = f32NonConsts + Cardinality(FloatConsts) + 2 /\ c + 2 <= x
    <3>1. f32NonConsts \in Nat
      BY DEF Collected
    <3> QED
      BY <1>4, <3>1
  <2>2. PICK a \in Nat, A \in Nat : a = log2_ceil(x) /\ A = 2^a /\ x <= A
    <3>1. log2_ceil(x) \in Nat /\ x <= 2^log2_ceil(x)
      BY Log2
    <3> QED
      BY <3>1, PowerPositive
  <2>3. n = IF 31 <= a THEN 31 ELSE a
    BY <1>2, <2>1, <2>2, Smaller DEF FloatBits
  <2>4. CASE n = a
    BY <1>3, <2>1, <2>2, <2>4
  <2>5. CASE n = 31
    <3>1. PICK y \in Nat, z \in Nat : y = 2^30 /\ z = 2^31
      BY PowerPositive
    <3>2. 2^30 <= 2^31
      BY PowerGrows
    <3>3. MaxConstants + 6 <= y /\ MaxConstants \in Nat
      BY <3>1, FewConstants, Line
    <3>4. y <= z /\ N = z
      BY <1>3, <2>5, <3>1, <3>2
    <3> QED
      BY <1>4, <3>3, <3>4
  <2> QED
    BY <2>3, <2>4, <2>5
<1>6. PICK k \in Nat : k = Cardinality(Values) /\ 1 <= k
  <2>1. IsFiniteSet(Values) /\ Values # {}
    BY ValuesAre
  <2>2. Cardinality(Values) \in Nat /\ Cardinality(Values) # 0
    BY <2>1, FS_CardinalityType, FS_EmptySet
  <2> QED
    BY <2>2
<1>7. (FloatMax \in Values => c = k + 1) /\ (FloatMax \notin Values => c = k + 2)
  BY <1>4, <1>6, ValuesAre
<1>8. PICK X \in Nat : N = X + 3 /\ k <= X /\ (FloatMax \notin Values => k <= X - 1)
  <2>1. N - 3 \in Nat /\ k <= N - 3 /\ (FloatMax \notin Values => k <= (N - 3) - 1)
    BY <1>5, <1>6, <1>7
  <2>2. N = (N - 3) + 3
    BY <1>3
  <2> QED
    BY <2>1, <2>2
<1>9. N - 1 = X + 2 /\ N - 2 = X + 1 /\ N - 3 = X
  BY <1>8
<1> QED
  BY <1>1, <1>2, <1>3, <1>6, <1>8, <1>9

-----------------------------------------------------------------------------
(***************************************************************************)
(* The real valuation of the f32 constants.                                *)
(***************************************************************************)

\* No f32 number from v on is anything but a constant.
Upper(v) == {w \in Floats : w >= v} \subseteq Exact

LEMMA UpperIs ==
  ASSUME Collected, InfinityIsNoConstant, NEW v \in Values, Upper(v)
  PROVE  \E j \in 1..Steps :
           /\ v = Gap * j /\ FloatMag(v) = MaxMag(floatEnc) - (Steps - j)
           /\ FloatMax \in Values
           /\ \A u \in Int : u < v => Rank(Values, u) + (Steps - j) + 1 <= Cardinality(Values)
<1>1. v \in Floats /\ v # 0 /\ v \in Int
  BY ValuesAre
<1>2. PICK j \in 0..Steps, t \in Int :
        /\ v = Gap * j /\ t = Steps - j /\ (FloatMax - v) \div Gap = t
        /\ IsFiniteSet({w \in Floats : w >= v})
        /\ Cardinality({w \in Floats : w >= v}) = t + 1
  <2>1. PICK j \in 0..Steps :
           /\ v = Gap * j /\ (FloatMax - v) \div Gap = Steps - j
           /\ IsFiniteSet({w \in Floats : w >= v})
           /\ Cardinality({w \in Floats : w >= v}) = Steps - j + 1
    BY <1>1, CountAbove
  <2>2. Steps - j \in Int
    BY Line
  <2> QED
    BY <2>1, <2>2
<1>3. j # 0
  <2>1. Gap * 0 = 0
    BY Line
  <2> QED
    BY <1>1, <1>2, <2>1
<1>4. FloatMag(v) = MaxMag(floatEnc) - t
  BY <1>2 DEF FloatMag, Upper
<1>5. PICK T : T = {w \in Floats : w >= v}
  OBVIOUS
<1>6. T \in SUBSET Values
  <2>1. ASSUME NEW w \in T PROVE w # 0
    <3>1. v >= 1 /\ w \in Int /\ w >= v /\ v \in Int
      BY <1>1, <1>5, Bounds
    <3> QED
      BY <3>1
  <2> QED
    BY <1>5, <2>1, ValuesAre DEF Upper
<1>7. FloatMax \in Values
  <2>1. v <= FloatMax /\ v \in Int
    BY <1>1, Bounds
  <2>2. FloatMax \in Floats /\ FloatMax \in Int
    <3>1. Steps \in 0..Steps /\ FloatMax = Gap * Steps /\ Floats = {Gap * k : k \in 0..Steps}
      BY Line
    <3> QED
      BY <3>1, Line
  <2>3. FloatMax \in T
    BY <1>5, <2>1, <2>2
  <2> QED
    BY <1>6, <2>3
<1>8. ASSUME NEW u \in Int, u < v PROVE Rank(Values, u) + t + 1 <= Cardinality(Values)
  <2>1. ASSUME NEW w \in T PROVE u < w
    <3>1. w \in Int /\ w >= v /\ v \in Int
      BY <1>1, <1>5, Bounds
    <3> QED
      BY <1>8, <3>1
  <2>2. Rank(Values, u) + Cardinality(T) <= Cardinality(Values)
    BY <1>6, <2>1, ValuesAre, RankAbove
  <2>3. Rank(Values, u) \in Nat /\ Cardinality(Values) \in Nat
    <3>1. IsFiniteSet(Values)
      BY ValuesAre
    <3>2. Rank(Values, u) \in 0..Cardinality(Values) /\ Cardinality(Values) \in Nat
      BY <3>1, RankType
    <3> QED
      BY <3>2
  <2> QED
    BY <1>2, <1>5, <2>2, <2>3
<1> QED
  BY <1>2, <1>3, <1>4, <1>7, <1>8

LEMMA LowerIs ==
  ASSUME NEW v, ~Upper(v)
  PROVE  FloatMag(v) = Rank(Values, v)
BY DEF FloatMag, Upper, ValueId, Rank, Values

\* Magnitudes are in range, and only the largest number has the largest.
LEMMA FloatMagRange ==
  ASSUME Collected, Sized, Encoded, InfinityIsNoConstant, NEW v \in Values
  PROVE  /\ MaxMag(floatEnc) \in Nat /\ FloatMag(v) \in 1..MaxMag(floatEnc)
         /\ v = FloatMax => FloatMag(v) = MaxMag(floatEnc)
         /\ v # FloatMax => FloatMag(v) < MaxMag(floatEnc)
<1>1. PICK X \in Nat, k \in Nat :
        /\ MaxMag(floatEnc) = X /\ k = Cardinality(Values) /\ k <= X
        /\ FloatMax \notin Values => k <= X - 1
  BY RoomForFloats
<1>2. v \in Floats /\ v \in Int /\ v # 0 /\ Rank(Values, v) \in 1..k
  BY <1>1, ValuesAre, RankFinds
<1>3. CASE Upper(v)
  <2>1. PICK j \in 1..Steps, t \in Nat :
          v = Gap * j /\ t = Steps - j /\ FloatMag(v) = X - t
    <3>1. PICK j \in 1..Steps : v = Gap * j /\ FloatMag(v) = MaxMag(floatEnc) - (Steps - j)
      BY <1>3, UpperIs
    <3>2. Steps - j \in Nat
      BY Line
    <3> QED
      BY <1>1, <3>1, <3>2
  <2>2. t + 1 <= k
    <3>1. PICK i \in 1..Steps :
            /\ v = Gap * i
            /\ \A u \in Int : u < v => Rank(Values, u) + (Steps - i) + 1 <= Cardinality(Values)
      BY <1>3, UpperIs
    <3>2. i = j
      <4>1. i \in Nat /\ j \in Nat /\ Gap \in Nat \ {0} /\ Gap * i = Gap * j
        BY <2>1, <3>1, Line
      <4> QED
        BY <4>1, Multiples
    <3>3. v - 1 \in Int /\ v - 1 < v
      BY <1>2
    <3>4. Rank(Values, v - 1) + t + 1 <= k
      BY <1>1, <2>1, <3>1, <3>2, <3>3
    <3>5. Rank(Values, v - 1) \in Nat
      <4>1. IsFiniteSet(Values)
        BY ValuesAre
      <4>2. Rank(Values, v - 1) \in 0..k
        BY <1>1, <4>1, RankType
      <4> QED
        BY <4>2
    <3> QED
      BY <3>4, <3>5
  <2>3. t = 0 <=> v = FloatMax
    <3>1. j \in Nat /\ Steps \in Nat /\ Gap \in Nat \ {0} /\ FloatMax = Gap * Steps
      BY Line
    <3>2. Gap * j = Gap * Steps <=> j = Steps
      BY <3>1, Multiples
    <3> QED
      BY <2>1, <3>1, <3>2
  <2> QED
    BY <1>1, <2>1, <2>2, <2>3
<1>4. CASE ~Upper(v)
  <2>1. FloatMag(v) = Rank(Values, v)
    BY <1>4, LowerIs
  <2>2. v # FloatMax
    <3> SUFFICES ASSUME v = FloatMax PROVE FALSE
      OBVIOUS
    <3>1. ASSUME NEW w \in Floats, w >= FloatMax PROVE w = FloatMax
      <4>1. w \in Int /\ w <= FloatMax /\ FloatMax \in Int
        BY Bounds, Line
      <4> QED
        BY <3>1, <4>1
    <3> QED
      BY <1>4, <3>1, ValuesAre DEF Upper
  <2>3. FloatMax \in Values => Rank(Values, v) < k
    <3> SUFFICES ASSUME FloatMax \in Values PROVE Rank(Values, v) < k
      OBVIOUS
    <3>1. FloatMax \in Int /\ v <= FloatMax
      BY <1>2, Bounds, Line
    <3>2. Rank(Values, v) < Rank(Values, FloatMax)
      BY <1>2, <2>2, <3>1, ValuesAre, RankGrows
    <3>3. Rank(Values, FloatMax) \in 0..k
      BY <1>1, ValuesAre, RankType
    <3> QED
      BY <1>2, <3>2, <3>3
  <2> QED
    BY <1>1, <1>2, <2>1, <2>2, <2>3
<1> QED
  BY <1>3, <1>4

\* Magnitudes are in the order of the numbers.
LEMMA FloatMagOrder ==
  ASSUME Collected, Sized, Encoded, InfinityIsNoConstant,
         NEW u \in Values, NEW v \in Values, u < v
  PROVE  FloatMag(u) < FloatMag(v)
<1>1. PICK X \in Nat, k \in Nat :
        MaxMag(floatEnc) = X /\ k = Cardinality(Values) /\ k <= X
  BY RoomForFloats
<1>2. u \in Int /\ v \in Int /\ u \in Floats /\ v \in Floats
  BY ValuesAre
<1>3. Rank(Values, u) \in 1..k /\ Rank(Values, v) \in 1..k
  BY <1>1, ValuesAre, RankFinds
<1>4. Upper(u) => Upper(v)
  <2>1. ASSUME NEW w \in Floats, w >= v PROVE w >= u
    <3>1. w \in Int
      BY Bounds
    <3> QED
      BY <1>2, <2>1, <3>1
  <2> QED
    BY <2>1 DEF Upper
<1>5. CASE Upper(u)
  <2>1. PICK i \in 1..Steps : u = Gap * i /\ FloatMag(u) = X - (Steps - i)
    BY <1>1, <1>5, UpperIs
  <2>2. PICK j \in 1..Steps : v = Gap * j /\ FloatMag(v) = X - (Steps - j)
    BY <1>1, <1>4, <1>5, UpperIs
  <2>3. i < j
    <3>1. i \in Nat /\ j \in Nat /\ Gap \in Nat \ {0} /\ Gap * i < Gap * j
      BY <2>1, <2>2, Line
    <3> QED
      BY <3>1, Multiples
  <2>4. Steps \in Nat
    BY Line
  <2> QED
    BY <1>1, <2>1, <2>2, <2>3, <2>4
<1>6. CASE ~Upper(u) /\ Upper(v)
  <2>1. FloatMag(u) = Rank(Values, u)
    BY <1>6, LowerIs
  <2>2. PICK j \in 1..Steps : /\ FloatMag(v) = X - (Steps - j)
                              /\ Rank(Values, u) + (Steps - j) + 1 <= k
    BY <1>1, <1>2, <1>6, UpperIs
  <2>3. Steps \in Nat
    BY Line
  <2> QED
    BY <1>1, <1>3, <2>1, <2>2, <2>3
<1>7. CASE ~Upper(u) /\ ~Upper(v)
  <2>1. FloatMag(u) = Rank(Values, u) /\ FloatMag(v) = Rank(Values, v)
    BY <1>7, LowerIs
  <2>2. u <= v /\ u # v
    BY <1>2
  <2>3. Rank(Values, u) < Rank(Values, v)
    <3>1. IsFiniteSet(Values) /\ Values \subseteq Int
      BY ValuesAre
    <3> QED
      BY <1>2, <2>2, <3>1, RankGrows
  <2> QED
    BY <2>1, <2>3
<1> QED
  BY <1>4, <1>5, <1>6, <1>7

\* f32 neighbours have neighbouring magnitudes.
LEMMA Between ==
  ASSUME NEW u \in Floats, NEW w \in Floats
  PROVE  w <= u \/ u + Gap <= w
<1>1. u \in Nat
  BY Bounds
<1>2. Floor(u) = u
  BY <1>1, FloorParts
<1>3. u \in Int /\ w \in Int
  BY Bounds
<1>4. u < w => Floor(u) + Gap <= w
  BY <1>1, FloorParts
<1> QED
  BY <1>2, <1>3, <1>4

LEMMA FloatMagSteps ==
  ASSUME Collected, Sized, Encoded, InfinityIsNoConstant, NEW u \in Exact, u + Gap \in Values
  PROVE  /\ u # 0 => FloatMag(u + Gap) = FloatMag(u) + 1
         /\ u = 0 => FloatMag(u + Gap) = 1
<1>1. PICK v \in Values : v = u + Gap
  OBVIOUS
<1>2. PICK X \in Nat : MaxMag(floatEnc) = X
  BY RoomForFloats
<1>3. u \in Floats /\ v \in Floats /\ u \in Nat /\ v \in Nat /\ Gap \in Nat \ {0}
  <2>1. u \in Floats /\ v \in Floats /\ Gap \in Nat \ {0}
    BY ExactIs, ValuesAre, Line
  <2>2. u \in 0..FloatMax /\ v \in 0..FloatMax
    BY <2>1, Bounds
  <2> QED
    BY <2>1, <2>2
<1>4. u < v
  BY <1>1, <1>3
<1>5. ASSUME NEW w \in Floats PROVE w \in Int /\ (w <= u \/ v <= w)
  BY <1>1, <1>3, Between, Bounds
<1>6. Upper(u) <=> Upper(v)
  <2>1. ASSUME NEW w \in Floats PROVE (w >= v => w >= u) /\ (w >= u => w >= v \/ w = u)
    BY <1>3, <1>4, <1>5
  <2> QED
    BY <2>1 DEF Upper
<1>7. Rank(Values, v) = Rank(Values, u) + 1
  BY <1>3, <1>4, <1>5, ValuesAre, RankSteps
<1>8. ASSUME u # 0 PROVE FloatMag(v) = FloatMag(u) + 1
  <2>1. u \in Values
    BY <1>8, ValuesAre
  <2>2. CASE Upper(u)
    <3>1. PICK i \in 1..Steps : u = Gap * i /\ FloatMag(u) = X - (Steps - i)
      BY <1>2, <2>1, <2>2, UpperIs
    <3>2. PICK j \in 1..Steps : v = Gap * j /\ FloatMag(v) = X - (Steps - j)
      BY <1>2, <1>6, <2>2, UpperIs
    <3>3. j = i + 1
      <4>1. i \in Nat /\ i + 1 \in Nat /\ j \in Nat
        OBVIOUS
      <4>2. Gap * (i + 1) = Gap * i + Gap
        BY <1>3, <4>1, Multiples
      <4>3. Gap * (i + 1) = Gap * j
        BY <1>1, <3>1, <3>2, <4>2
      <4> QED
        BY <1>3, <4>1, <4>3, Multiples
    <3>4. Steps \in Nat
      BY Line
    <3> QED
      BY <1>2, <3>1, <3>2, <3>3, <3>4
  <2>3. CASE ~Upper(u)
    BY <1>6, <1>7, <2>3, LowerIs
  <2> QED
    BY <2>2, <2>3
<1>9. ASSUME u = 0 PROVE FloatMag(v) = 1
  <2>1. ~Upper(u)
    <3>1. PICK w \in Floats : w \notin Exact
      BY ValuesAre
    <3>2. w >= 0
      BY Bounds
    <3> QED
      BY <1>9, <3>1, <3>2 DEF Upper
  <2>2. Rank(Values, u) = 0
    <3>1. ASSUME NEW w \in Values PROVE u < w
      <4>1. w \in Floats /\ w # 0
        BY ValuesAre
      <4>2. w \in Nat
        BY <4>1, Bounds
      <4> QED
        BY <1>9, <4>1, <4>2
    <3>2. Values \subseteq Int /\ u \in Int
      BY <1>3, ValuesAre
    <3> QED
      BY <3>1, <3>2, RankZero
  <2> QED
    BY <1>6, <1>7, <2>1, <2>2, LowerIs
<1> QED
  BY <1>1, <1>8, <1>9

LEMMA ValueIdIs ==
  ASSUME NEW v
  PROVE  ValueId(v) = Rank(Values, v)
BY DEF ValueId, Rank, Values

LEMMA SvalIs ==
  ASSUME Collected, Sized, Encoded, InfinityIsNoConstant
  PROVE  /\ DOMAIN Sval = 0..Cardinality(Values)
         /\ \A i \in DOMAIN Sval : Sval[i] \in 0..MaxMag(floatEnc)
         /\ ValueId(0) = 0 /\ Sval[0] = 0
         /\ \A v \in Values : Sval[ValueId(v)] = FloatMag(v)
<1>1. IsFiniteSet(Values) /\ Values \subseteq Int
  BY ValuesAre
<1>2. PICK k \in Nat, X \in Nat : k = Cardinality(Values) /\ X = MaxMag(floatEnc)
  BY RoomForFloats
<1>3. /\ \A v \in Values : Rank(Values, v) \in 1..k
      /\ \A i \in 1..k : \E v \in Values : Rank(Values, v) = i
      /\ \A u, v \in Values : Rank(Values, u) = Rank(Values, v) => u = v
  BY <1>1, <1>2, RankFinds
<1> DEFINE Of(i) == CHOOSE v \in Values : ValueId(v) = i
<1>4. Sval = [i \in 0..k |-> IF i = 0 THEN 0 ELSE FloatMag(Of(i))]
  BY <1>2 DEF Sval, Values
<1>5. ASSUME NEW i \in 1..k PROVE Of(i) \in Values /\ ValueId(Of(i)) = i
  BY <1>3, ValueIdIs
<1>6. ASSUME NEW v \in Values PROVE ValueId(v) \in 1..k /\ Of(ValueId(v)) = v
  <2>1. ValueId(v) \in 1..k
    BY <1>3, ValueIdIs
  <2>2. Of(ValueId(v)) \in Values /\ ValueId(Of(ValueId(v))) = ValueId(v)
    BY <1>5, <2>1
  <2> QED
    BY <1>3, <2>1, <2>2, ValueIdIs
<1> HIDE DEF Of
<1>7. ASSUME NEW v \in Values PROVE Sval[ValueId(v)] = FloatMag(v)
  <2>1. PICK i : i = ValueId(v) /\ i \in 0..k /\ i # 0 /\ Of(i) = v
    BY <1>6
  <2>2. Sval[i] = FloatMag(Of(i))
    BY <1>4, <2>1
  <2> QED
    BY <2>1, <2>2
<1>8. ASSUME NEW i \in 0..k PROVE Sval[i] \in 0..X
  <2>1. CASE i = 0
    BY <1>4, <2>1
  <2>2. CASE i # 0
    <3>1. i \in 1..k
      BY <2>2
    <3>2. FloatMag(Of(i)) \in 1..X
      BY <1>2, <1>5, <3>1, FloatMagRange
    <3>3. Sval[i] = FloatMag(Of(i))
      BY <1>4, <2>2
    <3> QED
      BY <3>2, <3>3
  <2> QED
    BY <2>1, <2>2
<1>9. ValueId(0) = 0
  <2>1. ASSUME NEW w \in Values PROVE 0 < w
    <3>1. w \in 0..FloatMax /\ w # 0
      BY ValuesAre, Bounds
    <3> QED
      BY <3>1
  <2>2. Rank(Values, 0) = 0
    <3>1. PICK z \in Int : z = 0
      OBVIOUS
    <3>2. \A w \in Values : z < w
      BY <2>1, <3>1
    <3>3. Rank(Values, z) = 0
      BY <1>1, <3>2, RankZero
    <3> QED
      BY <3>1, <3>3
  <2> QED
    BY <2>2, ValueIdIs
<1>10. Sval[0] = 0 /\ DOMAIN Sval = 0..k
  BY <1>4
<1> QED
  BY <1>2, <1>7, <1>8, <1>9, <1>10

\* The magnitude of an f32 constant.
Code(v) == Sval[ValueId(v)]

LEMMA CodeIs ==
  ASSUME Collected, Sized, Encoded, InfinityIsNoConstant, NEW v \in Exact
  PROVE  /\ Code(v) \in 0..MaxMag(floatEnc) /\ MaxMag(floatEnc) \in Nat
         /\ v = 0 => Code(v) = 0
         /\ v # 0 => Code(v) >= 1
         /\ v = FloatMax => Code(v) = MaxMag(floatEnc)
         /\ v # FloatMax => Code(v) < MaxMag(floatEnc)
         /\ \A u \in Exact : u < v => Code(u) < Code(v)
         /\ v + Gap \in Exact => Code(v + Gap) = Code(v) + 1
<1>1. PICK X \in Nat : X = MaxMag(floatEnc) /\ 1 <= X
  <2>1. PICK Y \in Nat, k \in Nat : MaxMag(floatEnc) = Y /\ 1 <= k /\ k <= Y
    BY RoomForFloats
  <2> QED
    BY <2>1
<1>2. FloatMax \in Nat \ {0}
  BY Line
<1>3. Code(0) = 0
  BY SvalIs DEF Code
<1>4. ASSUME NEW w \in Exact, w # 0
      PROVE  /\ w \in Values /\ Code(w) = FloatMag(w) /\ Code(w) \in 1..X
             /\ w = FloatMax => Code(w) = X
             /\ w # FloatMax => Code(w) < X
  <2>1. w \in Values
    BY <1>4, ValuesAre
  <2> QED
    BY <1>1, <2>1, SvalIs, FloatMagRange DEF Code
<1>5. ASSUME NEW u \in Exact, u < v PROVE Code(u) < Code(v)
  <2>1. u \in Nat /\ v \in Nat
    <3>1. u \in 0..FloatMax /\ v \in 0..FloatMax
      BY ExactIs, Bounds
    <3> QED
      BY <3>1
  <2>2. v # 0
    BY <1>5, <2>1
  <2>3. CASE u = 0
    BY <1>3, <1>4, <2>2, <2>3
  <2>4. CASE u # 0
    <3>1. FloatMag(u) < FloatMag(v)
      BY <1>4, <1>5, <2>2, <2>4, FloatMagOrder
    <3> QED
      BY <1>4, <2>2, <2>4, <3>1
  <2> QED
    BY <2>3, <2>4
<1>6. ASSUME v + Gap \in Exact PROVE Code(v + Gap) = Code(v) + 1
  <2>1. v + Gap # 0
    <3>1. v \in 0..FloatMax /\ Gap \in Nat \ {0}
      BY ExactIs, Bounds, Line
    <3> QED
      BY <3>1
  <2>2. v + Gap \in Values /\ Code(v + Gap) = FloatMag(v + Gap)
    BY <1>4, <1>6, <2>1
  <2>3. /\ v # 0 => FloatMag(v + Gap) = FloatMag(v) + 1
        /\ v = 0 => FloatMag(v + Gap) = 1
    BY <2>2, FloatMagSteps
  <2>4. CASE v = 0
    BY <1>3, <2>2, <2>3, <2>4
  <2>5. CASE v # 0
    BY <1>4, <2>2, <2>3, <2>5
  <2> QED
    BY <2>4, <2>5
<1>7. CASE v = 0
  BY <1>1, <1>2, <1>3, <1>5, <1>6, <1>7
<1>8. CASE v # 0
  BY <1>1, <1>4, <1>5, <1>6, <1>8
<1> QED
  BY <1>7, <1>8

\* Names: an inexact constant shares that of the f32 number below it, f32 and f64
\* number alike, and neighbours have neighbouring names.
LEMMA Names ==
  ASSUME Collected, InfinityIsNoConstant
  PROVE  /\ \A c \in Inexact : ValueId(c) = ValueId(Floor(c))
         /\ \A v \in Named(FloatConsts, FloatMax) : FloatId(v) = ValueId(v)
         /\ \A v \in Exact : v + Gap \in Exact => ValueId(v + Gap) = ValueId(v) + 1
<1>1. IsFiniteSet(Values) /\ Values \subseteq Int /\ Values \subseteq Floats /\ Gap \in Nat \ {0}
  BY ValuesAre, Line
<1>2. ASSUME NEW c \in Inexact PROVE ValueId(c) = ValueId(Floor(c))
  <2>1. PICK f \in Floats : f = Floor(c) /\ f \in Int /\ c \in Int /\ f < c /\ c < f + Gap
    <3>1. Floor(c) \in Floats /\ c \in 0..Infinity /\ Floor(c) < c /\ c < Floor(c) + Gap
      BY InexactIs, ExactIs
    <3>2. Floor(c) \in Int
      BY <3>1, Bounds
    <3> QED
      BY <3>1, <3>2
  <2>2. ASSUME NEW w \in Values PROVE w <= c <=> w <= f
    <3>1. w \in Int /\ (w <= f \/ f + Gap <= w)
      BY <1>1, <2>1, Between
    <3> QED
      BY <1>1, <2>1, <3>1
  <2>3. {w \in Values : w <= c} = {w \in Values : w <= f}
    BY <2>2
  <2> QED
    BY <2>1, <2>3, ValueIdIs DEF Rank
<1>3. ASSUME NEW v \in Named(FloatConsts, FloatMax) PROVE FloatId(v) = ValueId(v)
  <2>1. Named(FloatConsts, FloatMax) = Values \ {FloatMax}
    BY ValuesAre
  <2>2. v \in Int /\ v < FloatMax /\ FloatMax \in Int
    <3>1. v \in 0..FloatMax /\ v # FloatMax /\ FloatMax \in Nat
      BY <1>1, <1>3, <2>1, Bounds, Line
    <3> QED
      BY <3>1
  <2>3. {w \in Values \ {FloatMax} : w <= v} = {w \in Values : w <= v}
    BY <2>2
  <2> QED
    BY <2>1, <2>3, ValueIdIs DEF FloatId, Rank
<1>4. ASSUME NEW v \in Exact, v + Gap \in Exact PROVE ValueId(v + Gap) = ValueId(v) + 1
  <2>1. v \in Floats /\ v + Gap \in Floats /\ v \in Nat
    <3>1. v \in Floats /\ v + Gap \in Floats
      BY <1>4, ExactIs
    <3>2. v \in 0..FloatMax
      BY <3>1, Bounds
    <3> QED
      BY <3>1, <3>2
  <2>2. v < v + Gap /\ v + Gap # 0 /\ v + Gap \in Int
    BY <1>1, <2>1
  <2>3. v + Gap \in Values
    BY <1>4, <2>2, ValuesAre
  <2>4. \A w \in Values : w <= v \/ v + Gap <= w
    BY <1>1, <2>1, Between
  <2>5. Rank(Values, v + Gap) = Rank(Values, v) + 1
    <3>1. PICK u \in Values : u = v + Gap /\ v < u /\ \A w \in Values : w <= v \/ u <= w
      BY <2>2, <2>3, <2>4
    <3>2. Rank(Values, u) = Rank(Values, v) + 1
      <4>1. v \in Int /\ IsFiniteSet(Values) /\ Values \subseteq Int
        BY <1>1, <2>1
      <4> QED
        BY <3>1, <4>1, RankSteps
    <3> QED
      BY <3>1, <3>2
  <2> QED
    BY <2>5, ValueIdIs
<1> QED
  BY <1>2, <1>3, <1>4

\* The preconditions of f32 hold of the real valuation.
LEMMA FloatsAdmitted ==
  ASSUME Collected, Sized, Encoded, InfinityIsNoConstant
  PROVE  /\ \A i \in DOMAIN Sval : Sval[i] \in Mags(floatEnc)
         /\ \A c \in Named(FloatConsts, FloatMax) :
              Sval[FloatId(c)] \in 1..(MaxMag(floatEnc) - 1)
         /\ \A b, c \in Named(FloatConsts, FloatMax) :
              b < c => Sval[FloatId(b)] < Sval[FloatId(c)]
         /\ FpTruncatePrecondition(Sval)
<1>1. PICK X \in Nat : X = MaxMag(floatEnc) /\ Mags(floatEnc) = 0..(X + 2)
  BY RoomForFloats
<1>2. \A i \in DOMAIN Sval : Sval[i] \in Mags(floatEnc)
  <2>1. \A x \in 0..X : x \in 0..(X + 2)
    OBVIOUS
  <2> QED
    BY <1>1, <2>1, SvalIs
<1>3. ASSUME NEW c \in Named(FloatConsts, FloatMax)
      PROVE  c \in Exact /\ c # 0 /\ c # FloatMax /\ Sval[FloatId(c)] = Code(c)
  <2>1. c \in Values \ {FloatMax}
    BY <1>3, ValuesAre
  <2> QED
    BY <1>3, <2>1, ValuesAre, Names DEF Code
<1>4. ASSUME NEW c \in Named(FloatConsts, FloatMax) PROVE Sval[FloatId(c)] \in 1..(X - 1)
  <2>1. Code(c) \in 0..X /\ Code(c) >= 1 /\ Code(c) < X
    BY <1>1, <1>3, CodeIs
  <2> QED
    BY <1>3, <2>1
<1>5. ASSUME NEW b \in Named(FloatConsts, FloatMax), NEW c \in Named(FloatConsts, FloatMax), b < c
      PROVE  Sval[FloatId(b)] < Sval[FloatId(c)]
  BY <1>3, <1>5, CodeIs
<1>6. ASSUME NEW c \in Named(Exact, DoubleMax), c = Gap \/ c - Gap \in Exact
      PROVE  Sval[ValueId(c)] = Sval[ValueId(c) - 1] + 1
  <2>1. c \in Exact /\ c \in Int /\ Gap \in Int
    BY ValuesAre, Line DEF Values
  <2>2. PICK u \in Exact : u + Gap = c
    <3>1. CASE c = Gap
      <4>1. 0 \in Exact /\ 0 + Gap = c
        BY <2>1, <3>1, ExactIs
      <4> QED
        BY <4>1
    <3>2. CASE c - Gap \in Exact
      <4>1. (c - Gap) + Gap = c
        BY <2>1
      <4> QED
        BY <3>2, <4>1
    <3> QED
      BY <1>6, <3>1, <3>2
  <2>3. ValueId(c) = ValueId(u) + 1 /\ Code(c) = Code(u) + 1
    BY <2>1, <2>2, Names, CodeIs
  <2>4. ValueId(u) \in Int
    <3>1. Rank(Values, u) \in 0..Cardinality(Values)
      BY ValuesAre, RankType
    <3> QED
      BY <3>1, ValueIdIs
  <2>5. ValueId(c) - 1 = ValueId(u)
    BY <2>3, <2>4
  <2> QED
    BY <2>3, <2>5 DEF Code
<1> QED
  BY <1>1, <1>2, <1>4, <1>5, <1>6 DEF FpTruncatePrecondition

-----------------------------------------------------------------------------
(***************************************************************************)
(* f64 in an encoding of its own.                                          *)
(***************************************************************************)

\* The constants below c are those up to the number before it.
LEMMA RankBelow ==
  ASSUME NEW S, IsFiniteSet(S), S \subseteq Int, NEW c \in S
  PROVE  /\ Cardinality({b \in S : b < c}) = Rank(S, c - 1)
         /\ \A b \in S : b < c => Rank(S, b - 1) < Rank(S, c - 1)
         /\ (\E b \in S : b < c) => Rank(S, c - 1) >= 1
         /\ (\E b \in S : c < b) => Rank(S, c - 1) + 2 <= Cardinality(S)
<1>1. c \in Int /\ c - 1 \in Int
  OBVIOUS
<1>2. Cardinality({b \in S : b < c}) = Rank(S, c - 1)
  <2>1. ASSUME NEW b \in S PROVE b < c <=> b <= c - 1
    <3>1. b \in Int
      OBVIOUS
    <3> QED
      BY <1>1, <3>1
  <2>2. {b \in S : b < c} = {b \in S : b <= c - 1}
    BY <2>1
  <2> QED
    BY <2>2 DEF Rank
<1>3. ASSUME NEW b \in S, b < c
      PROVE  Rank(S, b - 1) < Rank(S, c - 1) /\ Rank(S, c - 1) >= 1
  <2>1. PICK d \in Int, e \in Int : d = b - 1 /\ e = c - 1 /\ b \in Int /\ d < b /\ b <= e
    <3>1. b \in Int
      OBVIOUS
    <3> QED
      BY <1>1, <1>3, <3>1
  <2>2. Rank(S, d) < Rank(S, b)
    <3>1. d <= b /\ b # d
      BY <2>1
    <3> QED
      BY <2>1, <3>1, RankGrows
  <2>3. Rank(S, b) <= Rank(S, e)
    BY <2>1, RankGrows
  <2>4. Rank(S, d) \in Nat /\ Rank(S, b) \in Nat /\ Rank(S, e) \in Nat
    <3>1. ASSUME NEW v PROVE Rank(S, v) \in Nat
      <4>1. Rank(S, v) \in 0..Cardinality(S)
        BY RankType
      <4> QED
        BY <4>1
    <3> QED
      BY <3>1
  <2> QED
    BY <2>1, <2>2, <2>3, <2>4
<1>4. ASSUME NEW b \in S, c < b PROVE Rank(S, c - 1) + 2 <= Cardinality(S)
  <2>1. PICK e \in Int : e = c - 1
    BY <1>1
  <2>2. {c, b} \in SUBSET S /\ c # b
    BY <1>1, <1>4
  <2>3. \A w \in {c, b} : e < w
    <3>1. b \in Int
      OBVIOUS
    <3> QED
      BY <1>1, <1>4, <2>1, <3>1
  <2>4. Rank(S, e) + Cardinality({c, b}) <= Cardinality(S)
    BY <2>2, <2>3, RankAbove
  <2>5. Cardinality({c, b}) = 2
    <3>1. IsFiniteSet({c}) /\ Cardinality({c}) = 1
      BY FS_Singleton
    <3>2. Cardinality({c} \cup {b}) = Cardinality({c}) + 1
      BY <2>2, <3>1, FS_AddElement
    <3>3. {c} \cup {b} = {c, b}
      OBVIOUS
    <3> QED
      BY <3>1, <3>2, <3>3
  <2> QED
    BY <2>1, <2>4, <2>5
<1> QED
  BY <1>2, <1>3, <1>4

LEMMA DoublesAre ==
  ASSUME Collected, InfinityIsNoConstant
  PROVE  /\ IsFiniteSet(DoubleConsts) /\ DoubleConsts \subseteq Int
         /\ 0 \in DoubleConsts /\ DoubleMax \in DoubleConsts
         /\ \A c \in Named(DoubleConsts, DoubleMax) :
              c \in DoubleConsts /\ c \in Nat /\ 0 < c /\ c < DoubleMax /\ c # DoubleMax
<1>1. IsFiniteSet(DoubleConsts) /\ DoubleConsts \subseteq 0..Infinity
  BY Counts
<1>2. DoubleConsts \subseteq Int
  <2>1. \A c \in 0..Infinity : c \in Int
    OBVIOUS
  <2> QED
    BY <1>1, <2>1
<1>3. 0 \in DoubleConsts /\ DoubleMax \in DoubleConsts
  BY DEF DoubleConsts
<1>4. ASSUME NEW c \in Named(DoubleConsts, DoubleMax)
      PROVE  c \in DoubleConsts /\ c \in Nat /\ 0 < c /\ c < DoubleMax /\ c # DoubleMax
  <2>1. c \in DoubleConsts /\ c # 0 /\ c # DoubleMax /\ c # Infinity
    BY <1>4, ExactIs DEF Named
  <2>2. c \in 0..Infinity /\ Infinity = DoubleMax + 1 /\ DoubleMax \in Nat
    BY <1>1, <2>1, Line
  <2> QED
    BY <2>1, <2>2
<1> QED
  BY <1>1, <1>2, <1>3, <1>4

LEMMA RankedAdmitted ==
  ASSUME Collected, Sized, Encoded, InfinityIsNoConstant, ~precise
  PROVE  /\ Shape(Sval, Mag)
         /\ \A c \in Named(DoubleConsts, DoubleMax) : Mag[c] \in 1..(MaxMag(doubleEnc) - 1)
         /\ \A b, c \in Named(DoubleConsts, DoubleMax) : b < c => Mag[b] < Mag[c]
<1>1. PICK k \in Nat : k = Cardinality(DoubleConsts)
  BY Counts
<1>2. PICK n \in Nat \ {0} : n = DoubleBits /\ doubleEnc = Plain(n)
  <2>1. FloatBits \in 1..31 /\ DoubleBits \in Nat /\ FloatBits <= DoubleBits
    BY SizesAreNumbers
  <2>2. DoubleBits \in Nat \ {0}
    BY <2>1
  <2> QED
    BY <2>2 DEF Sized, Encoded
<1>3. PICK N \in Nat : /\ N = 2^n /\ N >= 2
                       /\ Mags(Plain(n)) = 0..(N - 1) /\ MaxMag(Plain(n)) = N - 3
  <2>1. 1 \in Nat \ {0}
    OBVIOUS
  <2>2. PICK N, P, M, W : LayoutIs(1, n, 1, N, P, M, W)
    BY <2>1, Layout
  <2> QED
    BY <2>2 DEF LayoutIs
<1>4. k + 2 <= N
  <2>1. PICK x \in Nat : x = f64NonConsts + Cardinality(DoubleConsts) + 2 /\ k + 2 <= x
    <3>1. f64NonConsts \in Nat
      BY DEF Collected
    <3> QED
      BY <1>1, <3>1
  <2>2. PICK a \in Nat, A \in Nat : a = log2_ceil(x) /\ A = 2^a /\ x <= A
    <3>1. log2_ceil(x) \in Nat /\ x <= 2^log2_ceil(x)
      BY Log2
    <3> QED
      BY <3>1, PowerPositive
  <2>3. FloatBits \in Int
    BY SizesAreNumbers
  <2>4. DoubleBits = IF a <= FloatBits THEN FloatBits ELSE a
    BY <2>1, <2>2, <2>3, Larger DEF DoubleBits
  <2>5. a <= n
    BY <1>2, <2>2, <2>3, <2>4
  <2>6. A <= N
    BY <1>3, <2>2, <2>5, PowerGrows
  <2> QED
    BY <1>1, <1>3, <2>1, <2>2, <2>6
<1>5. ASSUME NEW c \in Named(DoubleConsts, DoubleMax)
      PROVE  /\ c \in DoubleConsts /\ Mag[c] = Rank(DoubleConsts, c - 1)
             /\ Mag[c] \in 1..(N - 4)
  <2>1. c \in DoubleConsts /\ c \in Nat /\ 0 < c /\ c < DoubleMax /\ c # DoubleMax
    BY <1>5, DoublesAre
  <2>2. Mag[c] = Rank(DoubleConsts, c - 1)
    <3>1. Mag[c] = Cardinality({b \in DoubleConsts : b < c})
      BY <2>1 DEF Mag, RankedMag
    <3> QED
      BY <2>1, <3>1, DoublesAre, RankBelow
  <2>3. Rank(DoubleConsts, c - 1) >= 1 /\ Rank(DoubleConsts, c - 1) + 2 <= k
    BY <1>1, <2>1, DoublesAre, RankBelow
  <2>4. Rank(DoubleConsts, c - 1) \in 0..k
    BY <1>1, DoublesAre, RankType
  <2> QED
    BY <1>1, <1>3, <1>4, <2>1, <2>2, <2>3, <2>4
<1>6. ASSUME NEW b \in Named(DoubleConsts, DoubleMax),
             NEW c \in Named(DoubleConsts, DoubleMax), b < c
      PROVE  Mag[b] < Mag[c]
  BY <1>5, <1>6, DoublesAre, RankBelow
<1>7. MaxMag(doubleEnc) - 1 = N - 4
  BY <1>2, <1>3
<1>8. \A x \in 1..(N - 4) : x \in Mags(doubleEnc)
  BY <1>2, <1>3
<1>9. Shape(Sval, Mag)
  BY <1>5, <1>8 DEF Shape
<1> QED
  BY <1>5, <1>6, <1>7, <1>9

-----------------------------------------------------------------------------
(***************************************************************************)
(* f64 in an encoding that f32 is cut out of.                              *)
(***************************************************************************)

\* The limit bits leave at least half of the magnitudes to constants beyond f32.
LEMMA RoomForBeyond ==
  ASSUME Collected
  PROVE  /\ IsFiniteSet(Beyond) /\ Cardinality(Beyond) \in Nat
         /\ 2 * Cardinality(Beyond) <= 2^(LimitBits32 + FloatBits + PrecBits)
<1>1. PICK n \in Nat, q \in Nat, p \in Nat, k \in Nat, l \in Nat :
        /\ n = FloatBits /\ 1 <= n /\ q = MinPrecBits /\ 1 <= q /\ p = PrecBits
        /\ p = IF q <= 29 THEN q ELSE 29
        /\ k = MinLimitBits /\ 1 <= k /\ l = LimitBits32 /\ 1 <= l
        /\ l = k \/ l = 32 - p
  <2>1. /\ FloatBits \in 1..31 /\ MinPrecBits \in Nat \ {0} /\ PrecBits \in 1..29
        /\ PrecBits = IF MinPrecBits <= 29 THEN MinPrecBits ELSE 29
        /\ MinLimitBits \in Nat \ {0} /\ LimitBits32 \in 1..(32 - PrecBits)
        /\ LimitBits32 = MinLimitBits \/ LimitBits32 = 32 - PrecBits
    BY SizesAreNumbers
  <2> QED
    BY <2>1
<1>2. PICK j \in Nat : j + 1 = l + n + p /\ 1 <= p
  <2>1. l + n + p - 1 \in Nat /\ (l + n + p - 1) + 1 = l + n + p /\ 1 <= p
    BY <1>1
  <2> QED
    BY <2>1
<1>3. PICK b \in Nat : b = Cardinality(Beyond) /\ b <= MaxConstants + 5 /\ IsFiniteSet(Beyond)
  <2>1. /\ IsFiniteSet(DoubleConsts) /\ Cardinality(DoubleConsts) \in 0..(MaxConstants + 5)
        /\ Beyond \in SUBSET DoubleConsts /\ MaxConstants \in Nat
    BY Counts, Line DEF Beyond
  <2>2. IsFiniteSet(Beyond) /\ Cardinality(Beyond) <= Cardinality(DoubleConsts)
    BY <2>1, FS_Subset
  <2>3. Cardinality(Beyond) \in Nat
    BY <2>2, FS_CardinalityType
  <2> QED
    BY <2>1, <2>2, <2>3
<1>4. PICK J \in Nat : J = 2^j /\ 2^(j + 1) = 2 * J
  BY PowerPositive, PowerDoubles
<1>5. b <= J
  <2>1. CASE l = k /\ p = q
    <3>1. PICK d \in Nat, c \in Nat, D \in Nat :
            d = log2_ceil(b) /\ c = log2_ceil(f64NonConsts) /\ D = 2^d /\ b <= D
      <4>1. log2_ceil(b) \in Nat /\ b <= 2^log2_ceil(b) /\ log2_ceil(f64NonConsts) \in Nat
        BY Log2 DEF Collected
      <4> QED
        BY <4>1, PowerPositive
    <3>2. PICK e \in Nat : e = Max({d, c}) /\ d <= e
      <4>1. Max({d, c}) = IF d <= c THEN c ELSE d
        BY Larger
      <4> QED
        BY <4>1
    <3>3. k = IF e > n + q THEN e - n - q + 1 ELSE 1
      BY <1>1, <1>3, <3>1, <3>2 DEF MinLimitBits
    <3>4. e <= j
      BY <1>1, <1>2, <2>1, <3>3
    <3>5. D <= J
      BY <1>4, <3>1, <3>2, <3>4, PowerGrows
    <3> QED
      BY <1>4, <3>1, <3>5
  <2>2. CASE ~(l = k /\ p = q)
    <3>1. 30 <= j
      BY <1>1, <1>2, <2>2
    <3>2. PICK y \in Nat : y = 2^30
      BY PowerPositive
    <3>3. y <= J
      BY <1>4, <3>1, <3>2, PowerGrows
    <3>4. MaxConstants + 6 <= y /\ MaxConstants \in Nat
      BY <3>2, FewConstants, Line
    <3> QED
      BY <1>3, <1>4, <3>3, <3>4
  <2> QED
    BY <2>1, <2>2
<1>6. 2^(l + n + p) = 2 * J
  BY <1>2, <1>4
<1> QED
  BY <1>1, <1>3, <1>4, <1>5, <1>6

\* The precision bits of a constant.
Offset(c) == IF c \in Exact THEN 0 ELSE PrecOffset(c)

\* A constant that f32 can be cut out of: m is the magnitude of the f32 number
\* below it, r its precision bits.
LowIs(c, m, r, N, P) ==
  /\ m = Code(Floor(c)) /\ r = Offset(c) /\ m \in 0..(N - 3) /\ r \in 0..(P - 1)
  /\ Floor(c) \in Exact /\ Sval[ValueId(c)] = m
  /\ r = 0 <=> c \in Exact
  /\ c \in Exact => Floor(c) = c
  /\ Mag[c] = m * P + r /\ Mag[c] \in Nat /\ Mag[c] <= (m + 1) * P - 1
  /\ LimitBits(doubleEnc, Mag[c]) = 0
  /\ TruncatedBits(doubleEnc, Mag[c]) = m
  /\ PrecisionBits(doubleEnc, Mag[c]) = r

LEMMA Parts ==
  /\ Exact \cap Inexact = {} /\ Exact \cap Beyond = {} /\ Inexact \cap Beyond = {}
  /\ Exact \subseteq DoubleConsts /\ Inexact \subseteq DoubleConsts
  /\ Beyond \subseteq DoubleConsts
BY DEF Exact, Inexact, Beyond

\* Precision bits number the constants that are cut to one number.
LEMMA Offsets ==
  ASSUME Collected, InfinityIsNoConstant, NEW c \in Inexact
  PROVE  /\ PrecOffset(c) \in Nat \ {0}
         /\ \A b \in Inexact : Floor(b) = Floor(c) /\ b < c => PrecOffset(b) < PrecOffset(c)
<1>1. PICK f \in Floats : f = Floor(c)
  BY InexactIs, ExactIs
<1>2. PICK S : S = CutTo(f) /\ IsFiniteSet(S)
  BY <1>1, MostInexact
<1>3. S \subseteq Int
  <2>1. ASSUME NEW b \in S PROVE b \in Int
    <3>1. b \in 0..Infinity
      BY <1>2, InexactIs DEF CutTo
    <3> QED
      BY <3>1
  <2> QED
    BY <2>1
<1>4. ASSUME NEW b \in Inexact, Floor(b) = f PROVE b \in S /\ PrecOffset(b) = Rank(S, b)
  BY <1>2, <1>4 DEF CutTo, PrecOffset, Rank
<1>5. PrecOffset(c) \in Nat \ {0}
  <2>1. Rank(S, c) \in 1..Cardinality(S)
    BY <1>1, <1>2, <1>3, <1>4, RankFinds
  <2> QED
    BY <1>1, <1>4, <2>1
<1>6. ASSUME NEW b \in Inexact, Floor(b) = Floor(c), b < c PROVE PrecOffset(b) < PrecOffset(c)
  <2>1. b \in S /\ c \in S /\ b \in Int /\ c \in Int
    BY <1>1, <1>3, <1>4, <1>6
  <2>2. b <= c /\ c # b
    BY <1>6, <2>1
  <2>3. Rank(S, b) < Rank(S, c)
    BY <1>2, <1>3, <2>1, <2>2, RankGrows
  <2> QED
    BY <1>1, <1>4, <1>6, <2>3
<1> QED
  BY <1>5, <1>6

LEMMA Low ==
  ASSUME Collected, Sized, Encoded, InfinityIsNoConstant, precise, PrecisionFits,
         NEW N, NEW P, NEW M, NEW W,
         LayoutIs(LimitBits32, FloatBits, PrecBits, N, P, M, W),
         NEW c \in Exact \cup Inexact
  PROVE  \E m, r : LowIs(c, m, r, N, P)
<1>1. doubleEnc = Wide(LimitBits32, FloatBits, PrecBits) /\ floatEnc = Plain(FloatBits)
  BY Formats
<1>2. /\ N \in Nat \ {0} /\ P \in Nat \ {0} /\ M = N * P /\ MaxMag(floatEnc) = N - 3
  <2>1. N >= 2 /\ P >= 2 /\ N \in Nat /\ P \in Nat /\ M = N * P
    BY DEF LayoutIs
  <2>2. MaxMag(floatEnc) = N - 3
    BY <1>1 DEF LayoutIs
  <2> QED
    BY <2>1, <2>2
<1>3. P = 2^doubleEnc.prec
  BY <1>1 DEF LayoutIs, Wide
<1>4. Floor(c) \in Exact /\ ValueId(c) = ValueId(Floor(c)) /\ (c \in Exact => Floor(c) = c)
  <2>1. CASE c \in Inexact
    BY <2>1, InexactIs, Names, Parts
  <2>2. CASE c \in Exact
    <3>1. c \in Floats /\ c \in 0..FloatMax
      BY <2>2, ExactIs, Bounds
    <3>2. c \in Nat
      BY <3>1
    <3>3. Floor(c) = c
      BY <3>1, <3>2, FloorParts
    <3> QED
      BY <2>2, <3>3
  <2> QED
    BY <2>1, <2>2
<1>5. PICK m : m = Code(Floor(c)) /\ m \in 0..(N - 3) /\ Sval[ValueId(c)] = m
  BY <1>2, <1>4, CodeIs DEF Code
<1>6. PICK r : r = Offset(c) /\ r \in 0..(P - 1) /\ (r = 0 <=> c \in Exact)
  <2>1. CASE c \in Exact
    <3>1. Offset(c) = 0 /\ 0 \in 0..(P - 1)
      BY <1>2, <2>1 DEF Offset
    <3> QED
      BY <2>1, <3>1
  <2>2. CASE c \in Inexact
    <3>1. PrecOffset(c) \in Nat \ {0}
      BY <2>2, Offsets
    <3>2. PrecOffset(c) < P
      BY <1>3, <2>2 DEF PrecisionFits
    <3>3. c \notin Exact
      BY <2>2, Parts
    <3> QED
      BY <1>2, <3>1, <3>2, <3>3 DEF Offset
  <2> QED
    BY <2>1, <2>2
<1>7. Mag[c] = m * P + r
  <2>1. m * P + 0 = m * P
    BY <1>2, <1>5, SMT
  <2>2. c \in DoubleConsts /\ Mag[c] = PreciseMag(c)
    BY Parts DEF Mag
  <2>3. CASE c \in Exact
    <3>1. c \notin Beyond /\ c \notin Inexact
      BY <2>3, Parts
    <3>2. PreciseMag(c) = m * P
      BY <1>3, <1>5, <2>3, <3>1 DEF PreciseMag
    <3> QED
      BY <1>6, <2>1, <2>2, <2>3, <3>2
  <2>4. CASE c \in Inexact
    <3>1. c \notin Beyond /\ c \notin Exact
      BY <2>4, Parts
    <3>2. PreciseMag(c) = m * P + PrecOffset(c)
      BY <1>3, <1>5, <2>4, <3>1 DEF PreciseMag
    <3> QED
      BY <1>6, <2>2, <3>1, <3>2 DEF Offset
  <2> QED
    BY <2>3, <2>4
<1>8. m \in 0..(N - 1)
  BY <1>2, <1>5
<1>9. PICK x : x = m * P + r
  OBVIOUS
<1>10. /\ x \in Nat /\ x <= (m + 1) * P - 1
       /\ x \div M = 0 /\ (x \div P) % N = m /\ x % P = r
  <2>1. N \in Nat \ {0} /\ P \in Nat \ {0} /\ r \in 0..(P - 1)
    BY <1>2, <1>6
  <2>2. /\ m * P + r \in Nat /\ m * P + r <= (m + 1) * P - 1
        /\ (m * P + r) \div (N * P) = 0
        /\ ((m * P + r) \div P) % N = m
        /\ (m * P + r) % P = r
    BY <1>8, <2>1, Fields
  <2> QED
    BY <1>2, <1>9, <2>2
<1>11. /\ LimitBits(doubleEnc, x) = 0 /\ TruncatedBits(doubleEnc, x) = m
       /\ PrecisionBits(doubleEnc, x) = r
  BY <1>1, <1>10 DEF LayoutIs
<1>12. LowIs(c, m, r, N, P)
  BY <1>4, <1>5, <1>6, <1>7, <1>9, <1>10, <1>11 DEF LowIs
<1> QED
  BY <1>12

\* Constants beyond f32 are counted from the largest magnitude down.
LEMMA High ==
  ASSUME Collected, Sized, Encoded, InfinityIsNoConstant, precise,
         NEW N, NEW P, NEW M, NEW W,
         LayoutIs(LimitBits32, FloatBits, PrecBits, N, P, M, W),
         NEW c \in Beyond
  PROVE  /\ Mag[c] \in (M - 2)..(W - 3)
         /\ c = DoubleMax => Mag[c] = W - 3
         /\ c # DoubleMax => Mag[c] < W - 3
         /\ \A b \in Beyond : b < c => Mag[b] < Mag[c]
         /\ c \in Nat /\ FloatMax < c
         /\ \/ LimitBits(doubleEnc, Mag[c]) # 0
            \/ TruncatedBits(doubleEnc, Mag[c]) = N - 1
<1>1. doubleEnc = Wide(LimitBits32, FloatBits, PrecBits)
  BY Formats
<1>2. /\ N \in Nat /\ P \in Nat /\ N >= 2 /\ P >= 2 /\ M \in Nat \ {0} /\ M = N * P
      /\ W \in Nat \ {0} /\ 2 * M <= W /\ MaxMag(doubleEnc) = W - 3
  BY <1>1 DEF LayoutIs
<1>3. PICK k \in Nat : k = Cardinality(Beyond) /\ 2 * k <= W /\ IsFiniteSet(Beyond)
  <2>1. W = 2^(LimitBits32 + FloatBits + PrecBits)
    BY DEF LayoutIs
  <2> QED
    BY <2>1, RoomForBeyond
<1>4. \A b \in Beyond : b \in Int
  BY Parts, DoublesAre
<1>5. ASSUME NEW b \in Beyond
      PROVE  \E T : /\ T = {x \in Beyond : x > b} /\ IsFiniteSet(T)
                    /\ Cardinality(T) \in Nat /\ Cardinality(T) <= k - 1
                    /\ Mag[b] = W - 3 - Cardinality(T)
  <2>1. PICK T : T = {x \in Beyond : x > b}
    OBVIOUS
  <2>2. b \in Int
    BY <1>4
  <2>3. T \in SUBSET (Beyond \ {b})
    BY <2>1, <2>2
  <2>4. IsFiniteSet(Beyond \ {b}) /\ Cardinality(Beyond \ {b}) = k - 1
    BY <1>3, FS_RemoveElement
  <2>5. IsFiniteSet(T) /\ Cardinality(T) <= k - 1
    BY <2>3, <2>4, FS_Subset
  <2>6. Cardinality(T) \in Nat
    BY <2>5, FS_CardinalityType
  <2>7. Mag[b] = W - 3 - Cardinality(T)
    <3>1. b \in DoubleConsts /\ b \notin Exact /\ b \notin Inexact
      BY Parts
    <3> QED
      BY <1>2, <2>1, <3>1 DEF Mag, PreciseMag
  <2> QED
    BY <2>1, <2>5, <2>6, <2>7
<1>6. PICK T : /\ T = {x \in Beyond : x > c} /\ IsFiniteSet(T)
               /\ Cardinality(T) \in Nat /\ Cardinality(T) <= k - 1
               /\ Mag[c] = W - 3 - Cardinality(T)
  BY <1>5
<1>7. Mag[c] \in (M - 2)..(W - 3)
  BY <1>2, <1>3, <1>6
<1>8. c \in Int /\ c <= DoubleMax
  <2>1. c \in 0..Infinity /\ c # Infinity
    BY Parts, Counts, ExactIs
  <2>2. Infinity = DoubleMax + 1 /\ DoubleMax \in Nat
    BY Line
  <2> QED
    BY <2>1, <2>2
<1>9. c = DoubleMax => Mag[c] = W - 3
  <2> SUFFICES ASSUME c = DoubleMax PROVE Mag[c] = W - 3
    OBVIOUS
  <2>1. ASSUME NEW b \in Beyond PROVE ~(b > c)
    <3>1. b \in 0..Infinity /\ b # Infinity
      BY Parts, Counts, ExactIs
    <3>2. Infinity = DoubleMax + 1 /\ DoubleMax \in Nat
      BY Line
    <3> QED
      BY <3>1, <3>2
  <2>2. T = {}
    BY <1>6, <2>1
  <2>3. Cardinality(T) = 0
    BY <2>2, FS_EmptySet
  <2> QED
    BY <1>2, <1>6, <2>3
<1>10. c # DoubleMax => Mag[c] < W - 3
  <2> SUFFICES ASSUME c # DoubleMax PROVE Mag[c] < W - 3
    OBVIOUS
  <2>1. DoubleMax \in T
    <3>1. DoubleMax \in Beyond /\ DoubleMax \in Int
      BY ExactIs, Line
    <3>2. DoubleMax > c
      BY <1>8, <3>1
    <3> QED
      BY <1>6, <3>1, <3>2
  <2>2. Cardinality(T) # 0
    BY <1>6, <2>1, FS_EmptySet
  <2> QED
    BY <1>2, <1>6, <2>2
<1>11. ASSUME NEW b \in Beyond, b < c PROVE Mag[b] < Mag[c]
  <2>1. PICK U : /\ U = {x \in Beyond : x > b} /\ IsFiniteSet(U)
                 /\ Cardinality(U) \in Nat
                 /\ Mag[b] = W - 3 - Cardinality(U)
    BY <1>5
  <2>2. T \in SUBSET U
    <3>1. ASSUME NEW x \in Beyond, x > c PROVE x > b
      <4>1. x \in Int /\ b \in Int /\ c \in Int
        BY <1>4
      <4> QED
        BY <1>11, <3>1, <4>1
    <3> QED
      BY <1>6, <2>1, <3>1
  <2>3. c \in U /\ c \notin T
    <3>1. b \in Int /\ c \in Int
      BY <1>4
    <3>2. c > b /\ ~(c > c)
      BY <1>11, <3>1
    <3> QED
      BY <1>6, <2>1, <3>2
  <2>4. Cardinality(T) < Cardinality(U)
    <3>1. Cardinality(T) <= Cardinality(U) /\ (Cardinality(U) = Cardinality(T) => U = T)
      BY <2>1, <2>2, FS_Subset
    <3> QED
      BY <1>6, <2>1, <2>3, <3>1
  <2> QED
    BY <1>2, <1>6, <2>1, <2>4
<1>12. c \in Nat /\ FloatMax < c
  <2>1. c \in 0..Infinity /\ c \notin Exact /\ Overflows(c) /\ c \in DoubleConsts
    BY Parts, Counts DEF Beyond
  <2>2. c \notin Floats /\ c \in Nat
    BY <2>1 DEF Exact
  <2>3. Floor(c) = FloatMax
    BY <2>1, NearestParts
  <2>4. FloatMax \in Floats /\ FloatMax <= c /\ FloatMax \in Nat
    BY <2>2, <2>3, FloorParts, Line
  <2>5. c # FloatMax
    BY <2>2, <2>4
  <2> QED
    BY <2>2, <2>4, <2>5
<1>13. \/ LimitBits(doubleEnc, Mag[c]) # 0
       \/ TruncatedBits(doubleEnc, Mag[c]) = N - 1
  <2>1. PICK x \in Nat : x = Mag[c] /\ M - 2 <= x
    <3>1. M >= 2
      BY <1>2, SMT
    <3> QED
      BY <1>2, <1>7, <3>1
  <2>2. LimitBits(doubleEnc, x) = x \div M /\ TruncatedBits(doubleEnc, x) = (x \div P) % N
    BY <1>1 DEF LayoutIs
  <2>3. CASE x >= M
    <3>1. PICK q, r : q = x \div M /\ r = x % M
      OBVIOUS
    <3>2. q \in Nat /\ r \in 0..(M - 1) /\ x = q * M + r
      BY <1>2, <3>1, DivMod
    <3>3. q # 0
      <4> SUFFICES ASSUME q = 0 PROVE FALSE
        OBVIOUS
      <4>1. x = r
        BY <1>2, <3>2
      <4> QED
        BY <1>2, <2>3, <3>2, <4>1
    <3> QED
      BY <2>1, <2>2, <3>1, <3>3
  <2>4. CASE x < M
    <3>1. PICK r : r \in 0..(P - 1) /\ x = (N - 1) * P + r
      <4>1. (N - 1) * P = M - P
        BY <1>2, SMT
      <4>2. x - (M - P) \in 0..(P - 1) /\ x = (M - P) + (x - (M - P))
        BY <1>2, <2>1, <2>4
      <4> QED
        BY <4>1, <4>2
    <3>2. N - 1 \in 0..(N - 1) /\ N \in Nat \ {0} /\ P \in Nat \ {0}
      BY <1>2
    <3>3. PICK m : m = N - 1
      OBVIOUS
    <3>4. ((m * P + r) \div P) % N = m
      <4>1. N \in Nat \ {0} /\ P \in Nat \ {0} /\ m \in 0..(N - 1) /\ r \in 0..(P - 1)
        BY <3>1, <3>2, <3>3
      <4> QED
        BY <4>1, Fields
    <3> QED
      BY <2>1, <2>2, <3>1, <3>3, <3>4
  <2> QED
    BY <1>2, <2>1, <2>3, <2>4
<1> QED
  BY <1>7, <1>9, <1>10, <1>11, <1>12, <1>13

\* Of numbers with the same digit weight, the more significant digit decides.
LEMMA Carry ==
  ASSUME NEW P \in Nat, P >= 1, NEW m \in Nat, NEW n \in Nat,
         NEW r \in 0..(P - 1), NEW s \in 0..(P - 1), m < n
  PROVE  m * P + r < n * P + s
<1>1. PICK d \in Nat : n = m + 1 + d
  <2>1. n - m - 1 \in Nat /\ n = m + 1 + (n - m - 1)
    OBVIOUS
  <2> QED
    BY <2>1
<1>2. n * P = m * P + P + d * P
  BY <1>1, SMT
<1>3. PICK x \in Nat, y \in Nat : x = m * P /\ y = d * P
  <2>1. m * P \in Nat /\ d * P \in Nat
    BY <1>1, SMT
  <2> QED
    BY <2>1
<1>4. x + r < (x + P + y) + s
  BY <1>3
<1> QED
  BY <1>2, <1>3, <1>4

\* The magnitudes that f32 can be cut out of are below all others.
LEMMA LowMags ==
  ASSUME Collected, Sized, Encoded, InfinityIsNoConstant, precise, PrecisionFits,
         NEW N, NEW P, NEW M, NEW W,
         LayoutIs(LimitBits32, FloatBits, PrecBits, N, P, M, W),
         NEW c \in Exact \cup Inexact
  PROVE  /\ Mag[c] \in Nat /\ Mag[c] < M - 2 /\ M - 2 < W - 3
         /\ c # 0 => Mag[c] >= 1
<1>1. N >= 2 /\ P >= 2 /\ N \in Nat /\ P \in Nat /\ M = N * P /\ M \in Nat /\ W \in Nat /\ 2 * M <= W
  BY DEF LayoutIs
<1>2. PICK m, r : LowIs(c, m, r, N, P)
  BY Low
<1>3. /\ m \in 0..(N - 3) /\ r \in 0..(P - 1) /\ m = Code(Floor(c)) /\ Floor(c) \in Exact
      /\ Mag[c] = m * P + r /\ Mag[c] \in Nat
      /\ r = 0 <=> c \in Exact
      /\ c \in Exact => Floor(c) = c
  BY <1>2 DEF LowIs
<1>4. M - 2 < W - 3 /\ Mag[c] < M - 2
  <2>1. PICK n \in Nat : n = N - 2 /\ m < n
    <3>1. N - 2 \in Nat /\ m < N - 2
      BY <1>1, <1>3
    <3> QED
      BY <3>1
  <2>2. m * P + r < n * P + 0
    <3>1. 0 \in 0..(P - 1) /\ P >= 1 /\ m \in Nat
      BY <1>1, <1>3
    <3> QED
      BY <1>1, <1>3, <2>1, <3>1, Carry
  <2>3. PICK x \in Nat : x = n * P
    <3>1. n * P \in Nat
      BY <1>1, <2>1, SMT
    <3> QED
      BY <3>1
  <2>4. M = x + 2 * P
    <3>1. N = n + 2
      BY <1>1, <2>1
    <3>2. (n + 2) * P = n * P + 2 * P
      BY <1>1, <2>1, SMT
    <3> QED
      BY <1>1, <2>3, <3>1, <3>2
  <2> QED
    BY <1>1, <1>3, <2>2, <2>3, <2>4
<1>5. ASSUME c # 0 PROVE Mag[c] >= 1
  <2>1. CASE c \in Exact
    <3>1. m >= 1 /\ r = 0
      BY <1>3, <1>5, <2>1, CodeIs
    <3>2. PICK d \in Nat : m = d + 1
      <4>1. m - 1 \in Nat /\ m = (m - 1) + 1
        BY <1>1, <1>3, <3>1
      <4> QED
        BY <4>1
    <3>3. (d + 1) * P = d * P + P /\ d * P \in Nat
      BY <1>1, <3>2, SMT
    <3> QED
      BY <1>1, <1>3, <3>1, <3>2, <3>3
  <2>2. CASE c \in Inexact
    <3>1. c \notin Exact
      BY <2>2, Parts
    <3>2. r # 0
      BY <1>3, <3>1
    <3>3. PICK x \in Nat : x = m * P
      <4>1. m * P \in Nat
        BY <1>1, <1>3, SMT
      <4> QED
        BY <4>1
    <3> QED
      BY <1>1, <1>3, <3>2, <3>3
  <2> QED
    BY <2>1, <2>2
<1> QED
  BY <1>3, <1>4, <1>5

LEMMA FloorGrows ==
  ASSUME NEW b \in Nat, NEW c \in Nat, b < c
  PROVE  Floor(b) <= Floor(c) /\ Floor(b) \in Nat /\ Floor(c) \in Nat
<1>1. Floor(b) \in Floats /\ Floor(b) <= b /\ Floor(c) \in Floats
  BY FloorParts
<1>2. Floor(b) \in Nat /\ Floor(c) \in Nat
  <2>1. Floor(b) \in 0..FloatMax /\ Floor(c) \in 0..FloatMax
    BY <1>1, Bounds
  <2> QED
    BY <2>1
<1>3. Floor(b) <= c
  BY <1>1, <1>2
<1>4. Floor(b) <= Floor(c)
  BY <1>1, <1>3, FloorParts
<1> QED
  BY <1>2, <1>4

LEMMA LowOrder ==
  ASSUME Collected, Sized, Encoded, InfinityIsNoConstant, precise, PrecisionFits,
         NEW N, NEW P, NEW M, NEW W,
         LayoutIs(LimitBits32, FloatBits, PrecBits, N, P, M, W),
         NEW b \in Exact \cup Inexact, NEW c \in Exact \cup Inexact, b < c
  PROVE  Mag[b] < Mag[c]
<1>1. N >= 2 /\ P >= 2 /\ N \in Nat /\ P \in Nat
  BY DEF LayoutIs
<1>2. PICK m, r : LowIs(b, m, r, N, P)
  BY Low
<1>3. PICK n, s : LowIs(c, n, s, N, P)
  BY Low
<1>4. /\ m = Code(Floor(b)) /\ m \in 0..(N - 3) /\ r \in 0..(P - 1)
      /\ Mag[b] = m * P + r /\ r = Offset(b) /\ Floor(b) \in Exact
      /\ r = 0 <=> b \in Exact
      /\ b \in Exact => Floor(b) = b
  BY <1>2 DEF LowIs
<1>5. /\ n = Code(Floor(c)) /\ n \in 0..(N - 3) /\ s \in 0..(P - 1)
      /\ Mag[c] = n * P + s /\ s = Offset(c) /\ Floor(c) \in Exact
      /\ s = 0 <=> c \in Exact
      /\ c \in Exact => Floor(c) = c
  BY <1>3 DEF LowIs
<1>6. b \in Nat /\ c \in Nat
  <2>1. b \in 0..Infinity /\ c \in 0..Infinity
    BY Counts, Parts
  <2> QED
    BY <2>1
<1>7. Floor(b) <= Floor(c) /\ Floor(b) \in Nat /\ Floor(c) \in Nat
  BY <1>6, FloorGrows
<1>8. CASE Floor(b) < Floor(c)
  <2>1. m < n
    BY <1>4, <1>5, <1>8, CodeIs
  <2>2. P >= 1 /\ m \in Nat /\ n \in Nat
    BY <1>1, <1>4, <1>5
  <2>3. m * P + r < n * P + s
    BY <1>1, <1>4, <1>5, <2>1, <2>2, Carry
  <2> QED
    BY <1>4, <1>5, <2>3
<1>9. CASE Floor(b) = Floor(c)
  <2>1. Floor(b) <= b
    BY <1>6, FloorParts
  <2>2. c \notin Exact
    BY <1>5, <1>6, <1>7, <1>9, <2>1
  <2>3. s = PrecOffset(c) /\ c \in Inexact
    BY <1>5, <2>2 DEF Offset
  <2>4. r < s
    <3>1. CASE b \in Exact
      <4>1. r = 0 /\ s # 0
        BY <1>4, <1>5, <2>2, <3>1
      <4> QED
        BY <1>1, <1>5, <4>1
    <3>2. CASE b \notin Exact
      <4>1. r = PrecOffset(b) /\ b \in Inexact
        BY <1>4, <3>2 DEF Offset
      <4> QED
        BY <1>9, <2>3, <4>1, Offsets
    <3> QED
      BY <3>1, <3>2
  <2>5. PICK x \in Nat : x = m * P /\ x = n * P
    <3>1. m * P \in Nat /\ m = n
      <4>1. m * P \in Nat
        BY <1>1, <1>4, SMT
      <4> QED
        BY <1>4, <1>5, <1>9, <4>1
    <3> QED
      BY <3>1
  <2>6. x + r < x + s
    BY <1>1, <1>4, <1>5, <2>4, <2>5
  <2> QED
    BY <1>4, <1>5, <2>5, <2>6
<1> QED
  BY <1>7, <1>8, <1>9

LEMMA LowBound ==
  ASSUME Collected, InfinityIsNoConstant, NEW c \in Exact \cup Inexact
  PROVE  c \in Nat /\ c <= FloatMax
<1>1. CASE c \in Exact
  <2>1. c \in 0..FloatMax
    BY <1>1, ExactIs, Bounds
  <2> QED
    BY <2>1
<1>2. CASE c \in Inexact
  <2>1. c \in 0..Infinity /\ Floor(c) + Gap \in Floats /\ c < Floor(c) + Gap
    BY <1>2, InexactIs, ExactIs
  <2>2. PICK f : f = Floor(c) + Gap /\ f \in 0..FloatMax /\ c < f
    BY <2>1, Bounds
  <2>3. c \in Int /\ 0 <= c /\ FloatMax \in Nat
    BY <2>1, Line
  <2> QED
    BY <2>2, <2>3
<1> QED
  BY <1>1, <1>2

LEMMA PreciseAdmitted ==
  ASSUME Collected, Sized, Encoded, InfinityIsNoConstant, precise, PrecisionFits
  PROVE  /\ Shape(Sval, Mag)
         /\ \A c \in Named(DoubleConsts, DoubleMax) : Mag[c] \in 1..(MaxMag(doubleEnc) - 1)
         /\ \A b, c \in Named(DoubleConsts, DoubleMax) : b < c => Mag[b] < Mag[c]
<1>1. /\ doubleEnc = Wide(LimitBits32, FloatBits, PrecBits) /\ floatEnc = Plain(FloatBits)
      /\ FloatBits \in Nat \ {0} /\ LimitBits32 \in Nat \ {0} /\ PrecBits \in Nat \ {0}
  BY Formats
<1>2. PICK N, P, M, W : LayoutIs(LimitBits32, FloatBits, PrecBits, N, P, M, W)
  BY <1>1, Layout
<1>3. /\ N >= 2 /\ P >= 2 /\ N \in Nat /\ P \in Nat /\ M = N * P
      /\ M \in Nat /\ W \in Nat
  BY <1>2 DEF LayoutIs
<1>4. /\ Mags(doubleEnc) = 0..(W - 1) /\ MaxMag(doubleEnc) = W - 3
      /\ NanMag(floatEnc) = N - 1
  BY <1>1, <1>2 DEF LayoutIs
<1>5. M >= 4
  BY <1>3, SMT
<1>6. ASSUME NEW c \in Named(DoubleConsts, DoubleMax)
      PROVE  /\ c \in Exact \cup Inexact \/ c \in Beyond
             /\ c \in Nat /\ c # 0 /\ c # DoubleMax
  <2>1. c \in DoubleConsts /\ c \in Nat /\ 0 < c /\ c # DoubleMax
    BY DoublesAre
  <2> QED
    BY <2>1, Counts
<1>7. ASSUME NEW c \in Exact \cup Inexact
      PROVE  /\ Mag[c] \in Nat /\ Mag[c] < M - 2 /\ M - 2 < W - 3
             /\ c # 0 => Mag[c] >= 1
  BY <1>2, LowMags
<1>8. ASSUME NEW c \in Beyond
      PROVE  /\ Mag[c] \in (M - 2)..(W - 3)
             /\ c # DoubleMax => Mag[c] < W - 3
             /\ \A b \in Beyond : b < c => Mag[b] < Mag[c]
             /\ c \in Nat /\ FloatMax < c
             /\ \/ LimitBits(doubleEnc, Mag[c]) # 0
                \/ TruncatedBits(doubleEnc, Mag[c]) = N - 1
  BY <1>2, High
<1>9. ASSUME NEW c \in Named(DoubleConsts, DoubleMax)
      PROVE  Mag[c] \in 1..(W - 4)
  <2>1. CASE c \in Exact \cup Inexact
    BY <1>3, <1>6, <1>7, <2>1
  <2>2. CASE c \in Beyond
    BY <1>3, <1>5, <1>6, <1>8, <2>2
  <2> QED
    BY <1>6, <2>1, <2>2
<1>10. ASSUME NEW b \in Named(DoubleConsts, DoubleMax), NEW c \in Named(DoubleConsts, DoubleMax),
              b < c
       PROVE  Mag[b] < Mag[c]
  <2>1. CASE b \in Exact \cup Inexact /\ c \in Exact \cup Inexact
    BY <1>2, <1>10, <2>1, LowOrder
  <2>2. CASE b \in Exact \cup Inexact /\ c \in Beyond
    <3>1. Mag[b] \in Nat /\ Mag[b] < M - 2 /\ Mag[c] \in (M - 2)..(W - 3)
      BY <1>7, <1>8, <2>2
    <3> QED
      BY <1>3, <3>1
  <2>3. CASE b \in Beyond /\ c \in Exact \cup Inexact
    <3>1. b \in Nat /\ FloatMax < b /\ c \in Nat /\ c <= FloatMax /\ FloatMax \in Nat
      BY <1>8, <2>3, LowBound, Line
    <3> QED
      BY <1>10, <3>1
  <2>4. CASE b \in Beyond /\ c \in Beyond
    BY <1>8, <1>10, <2>4
  <2> QED
    BY <1>6, <2>1, <2>2, <2>3, <2>4
<1>11. ASSUME NEW c \in Named(DoubleConsts, DoubleMax), c \in Exact \cup Inexact
       PROVE  /\ LimitBits(doubleEnc, Mag[c]) = 0
              /\ TruncatedBits(doubleEnc, Mag[c]) = Sval[ValueId(c)]
              /\ c \in Exact <=> PrecisionBits(doubleEnc, Mag[c]) = 0
  <2>1. PICK m, r : LowIs(c, m, r, N, P)
    BY <1>2, <1>11, Low
  <2> QED
    BY <2>1 DEF LowIs
<1>12. ASSUME NEW c \in Named(DoubleConsts, DoubleMax), c \in Beyond
       PROVE  \/ LimitBits(doubleEnc, Mag[c]) # 0
              \/ TruncatedBits(doubleEnc, Mag[c]) >= NanMag(floatEnc)
  <2>1. N - 1 >= N - 1
    BY <1>3
  <2> QED
    BY <1>4, <1>8, <1>12, <2>1
<1>13. ASSUME NEW c \in Named(DoubleConsts, DoubleMax) PROVE Mag[c] \in Mags(doubleEnc)
  BY <1>3, <1>4, <1>9
<1>14. Shape(Sval, Mag)
  BY <1>11, <1>12, <1>13 DEF Shape
<1>15. W - 4 = MaxMag(doubleEnc) - 1
  BY <1>3, <1>4
<1> QED
  BY <1>9, <1>10, <1>14, <1>15

\* The preconditions that a query asserts of the constants of a function always
\* have a valuation, so that no answer of the solver is vacuous
\* (getFpConstantPrecondition, getFpTruncatePrecondition), whatever the constants.
THEOREM ConstantsAreNeverContradictory == Spec => []ConstantsAreAdmitted
<1>1. Collected /\ Sized => ConstantsAreAdmitted
  <2> SUFFICES ASSUME Collected, Sized, Encoded, AssertionsHold
               PROVE  /\ \A i \in DOMAIN Sval : Sval[i] \in Mags(floatEnc)
                      /\ Shape(Sval, Mag)
                      /\ FpConstantPrecondition(Sval, Mag)
                      /\ precise => FpTruncatePrecondition(Sval)
    BY DEF ConstantsAreAdmitted
  <2>1. InfinityIsNoConstant /\ PrecisionFits /\ precise \in BOOLEAN
    BY DEF AssertionsHold, Collected
  <2>2. /\ Shape(Sval, Mag)
        /\ \A c \in Named(DoubleConsts, DoubleMax) : Mag[c] \in 1..(MaxMag(doubleEnc) - 1)
        /\ \A b, c \in Named(DoubleConsts, DoubleMax) : b < c => Mag[b] < Mag[c]
    <3>1. CASE precise
      BY <2>1, <3>1, PreciseAdmitted
    <3>2. CASE ~precise
      BY <2>1, <3>2, RankedAdmitted
    <3> QED
      BY <3>1, <3>2
  <2>3. /\ \A i \in DOMAIN Sval : Sval[i] \in Mags(floatEnc)
        /\ \A c \in Named(FloatConsts, FloatMax) :
             Sval[FloatId(c)] \in 1..(MaxMag(floatEnc) - 1)
        /\ \A b, c \in Named(FloatConsts, FloatMax) :
             b < c => Sval[FloatId(b)] < Sval[FloatId(c)]
        /\ FpTruncatePrecondition(Sval)
    BY <2>1, FloatsAdmitted
  <2>4. FpConstantPrecondition(Sval, Mag)
    BY <2>2, <2>3 DEF FpConstantPrecondition
  <2> QED
    BY <2>2, <2>3, <2>4
<1> QED
  BY <1>1, CollectedStays, SizedStays, PTL

-----------------------------------------------------------------------------
(***************************************************************************)
(* Casts of constants.                                                     *)
(***************************************************************************)
LEMMA FloatCodeIs ==
  ASSUME Collected, Sized, Encoded, InfinityIsNoConstant
  PROVE  /\ \A v \in Exact : FloatCode(v) = Fp(0, Code(v))
         /\ FloatCode(Infinity) = Inf(floatEnc, 0)
<1>1. 0 # FloatMax /\ 0 # Infinity /\ FloatMax # Infinity
  <2>1. FloatMax \in Nat \ {0} /\ DoubleMax \in Nat /\ FloatMax + Gap < DoubleMax
        /\ Infinity = DoubleMax + 1 /\ Gap \in Nat
    BY Line
  <2> QED
    BY <2>1
<1>2. ASSUME NEW v \in Exact PROVE FloatCode(v) = Fp(0, Code(v))
  <2>1. CASE v = 0
    <3>1. Code(v) = 0
      BY <2>1, CodeIs
    <3>2. FloatCode(v) = Zero(0)
      BY <1>1, <2>1 DEF FloatCode
    <3> QED
      BY <3>1, <3>2 DEF Zero
  <2>2. CASE v = FloatMax
    <3>1. Code(v) = MaxMag(floatEnc)
      BY <2>2, CodeIs
    <3> QED
      BY <1>1, <2>2, <3>1 DEF FloatCode
  <2>3. CASE v # 0 /\ v # FloatMax
    <3>1. v # Infinity
      BY ExactIs, Bounds
    <3>2. v \in Named(FloatConsts, FloatMax)
      BY <2>3, ExactIs DEF Named
    <3>3. FloatId(v) = ValueId(v)
      BY <3>2, Names
    <3>4. FloatCode(v) = Fp(0, Sval[FloatId(v)])
      BY <2>3, <3>1 DEF FloatCode
    <3> QED
      BY <3>3, <3>4 DEF Code
  <2> QED
    BY <2>1, <2>2, <2>3
<1>3. FloatCode(Infinity) = Inf(floatEnc, 0)
  BY <1>1 DEF FloatCode
<1> QED
  BY <1>2, <1>3

\* Truncation of a number that is no special one.
LEMMA TruncateIs ==
  ASSUME NEW d, NEW e, NEW x, NEW up \in BOOLEAN, x # NanMag(d), x # InfMag(d)
  PROVE  /\ LimitBits(d, x) # 0 \/ TruncatedBits(d, x) >= InfMag(e) =>
              Truncate(d, e, Fp(0, x), up) = Inf(e, 0)
         /\ LimitBits(d, x) = 0 /\ ~(TruncatedBits(d, x) >= InfMag(e)) =>
              Truncate(d, e, Fp(0, x), up) =
                Fp(0, IF PrecisionBits(d, x) # 0 /\ up THEN TruncatedBits(d, x) + 1
                      ELSE TruncatedBits(d, x))
<1>1. PICK f : f = Fp(0, x) /\ f.sign = 0 /\ f.mag = x
  <2>1. Fp(0, x).sign = 0 /\ Fp(0, x).mag = x
    BY DEF Fp
  <2> QED
    BY <2>1
<1>2. ~IsNan(d, f) /\ ~IsInf(d, f)
  BY <1>1 DEF IsNan, IsInf
<1> QED
  BY <1>1, <1>2 DEF Truncate

LEMMA LowTruncates ==
  ASSUME Collected, Sized, Encoded, InfinityIsNoConstant, precise, PrecisionFits,
         NEW c \in Exact \cup Inexact
  PROVE  /\ Nearest(c) \in Exact
         /\ Truncate(doubleEnc, floatEnc, Fp(0, Mag[c]), RoundsUp(c)) = FloatCode(Nearest(c))
<1>1. /\ doubleEnc = Wide(LimitBits32, FloatBits, PrecBits) /\ floatEnc = Plain(FloatBits)
      /\ FloatBits \in Nat \ {0} /\ LimitBits32 \in Nat \ {0} /\ PrecBits \in Nat \ {0}
  BY Formats
<1>2. PICK N, P, M, W : LayoutIs(LimitBits32, FloatBits, PrecBits, N, P, M, W)
  BY <1>1, Layout
<1>3. /\ N \in Nat /\ N >= 2 /\ M \in Nat /\ W \in Nat
      /\ InfMag(floatEnc) = N - 2 /\ NanMag(doubleEnc) = W - 1 /\ InfMag(doubleEnc) = W - 2
  BY <1>1, <1>2 DEF LayoutIs
<1>4. PICK m, r : LowIs(c, m, r, N, P)
  BY <1>2, Low
<1>5. /\ m = Code(Floor(c)) /\ m \in 0..(N - 3) /\ Floor(c) \in Exact
      /\ r = 0 <=> c \in Exact
      /\ c \in Exact => Floor(c) = c
      /\ LimitBits(doubleEnc, Mag[c]) = 0
      /\ TruncatedBits(doubleEnc, Mag[c]) = m
      /\ PrecisionBits(doubleEnc, Mag[c]) = r
  BY <1>4 DEF LowIs
<1>6. Mag[c] # NanMag(doubleEnc) /\ Mag[c] # InfMag(doubleEnc)
  <2>1. Mag[c] \in Nat /\ Mag[c] < M - 2 /\ M - 2 < W - 3
    BY <1>2, LowMags
  <2> QED
    BY <1>3, <2>1
<1>7. ~(m >= InfMag(floatEnc))
  BY <1>3, <1>5
<1>8. RoundsUp(c) \in BOOLEAN
  BY DEF RoundsUp
<1>9. Truncate(doubleEnc, floatEnc, Fp(0, Mag[c]), RoundsUp(c))
        = Fp(0, IF r # 0 /\ RoundsUp(c) THEN m + 1 ELSE m)
  BY <1>5, <1>6, <1>7, <1>8, TruncateIs
<1>10. CASE c \in Exact
  <2>1. c \in 0..Infinity /\ c \in Floats
    BY <1>10, Counts, Parts, ExactIs
  <2>2. Nearest(c) = c
    BY <2>1, NearestParts
  <2>3. FloatCode(c) = Fp(0, Code(c))
    BY <1>10, FloatCodeIs
  <2> QED
    BY <1>5, <1>9, <1>10, <2>2, <2>3
<1>11. CASE c \in Inexact
  <2>1. /\ c \in 0..Infinity /\ c \notin Floats /\ Floor(c) + Gap \in Exact
        /\ Ceil(c) = Floor(c) + Gap
    BY <1>11, InexactIs
  <2>2. Nearest(c) = Floor(c) \/ Nearest(c) = Floor(c) + Gap
    BY <2>1, NearestParts
  <2>3. r # 0
    BY <1>5, <1>11, Parts
  <2>4. CASE Nearest(c) = Floor(c)
    <3>1. ~RoundsUp(c)
      BY <2>4 DEF RoundsUp
    <3>2. FloatCode(Floor(c)) = Fp(0, Code(Floor(c)))
      BY <1>5, FloatCodeIs
    <3> QED
      BY <1>5, <1>9, <2>4, <3>1, <3>2
  <2>5. CASE Nearest(c) = Floor(c) + Gap /\ Nearest(c) # Floor(c)
    <3>1. RoundsUp(c)
      BY <2>5 DEF RoundsUp
    <3>2. FloatCode(Floor(c) + Gap) = Fp(0, Code(Floor(c) + Gap))
      BY <2>1, FloatCodeIs
    <3>3. Code(Floor(c) + Gap) = m + 1
      BY <1>5, <2>1, CodeIs
    <3> QED
      BY <1>9, <2>1, <2>3, <2>5, <3>1, <3>2, <3>3
  <2> QED
    BY <2>2, <2>4, <2>5
<1> QED
  BY <1>10, <1>11

LEMMA HighTruncates ==
  ASSUME Collected, Sized, Encoded, InfinityIsNoConstant, precise, NEW c \in Beyond
  PROVE  /\ Nearest(c) = Infinity
         /\ Truncate(doubleEnc, floatEnc, Fp(0, Mag[c]), RoundsUp(c)) = FloatCode(Nearest(c))
<1>1. /\ doubleEnc = Wide(LimitBits32, FloatBits, PrecBits) /\ floatEnc = Plain(FloatBits)
      /\ FloatBits \in Nat \ {0} /\ LimitBits32 \in Nat \ {0} /\ PrecBits \in Nat \ {0}
  BY Formats
<1>2. PICK N, P, M, W : LayoutIs(LimitBits32, FloatBits, PrecBits, N, P, M, W)
  BY <1>1, Layout
<1>3. /\ N \in Nat /\ M \in Nat /\ W \in Nat
      /\ InfMag(floatEnc) = N - 2 /\ NanMag(doubleEnc) = W - 1 /\ InfMag(doubleEnc) = W - 2
  BY <1>1, <1>2 DEF LayoutIs
<1>4. /\ Mag[c] \in (M - 2)..(W - 3)
      /\ \/ LimitBits(doubleEnc, Mag[c]) # 0
         \/ TruncatedBits(doubleEnc, Mag[c]) = N - 1
  BY <1>2, High
<1>5. Mag[c] # NanMag(doubleEnc) /\ Mag[c] # InfMag(doubleEnc)
  BY <1>3, <1>4
<1>6. \/ LimitBits(doubleEnc, Mag[c]) # 0
      \/ TruncatedBits(doubleEnc, Mag[c]) >= InfMag(floatEnc)
  <2>1. N - 1 >= N - 2
    BY <1>3
  <2> QED
    BY <1>3, <1>4, <2>1
<1>7. RoundsUp(c) \in BOOLEAN
  BY DEF RoundsUp
<1>8. Truncate(doubleEnc, floatEnc, Fp(0, Mag[c]), RoundsUp(c)) = Inf(floatEnc, 0)
  BY <1>5, <1>6, <1>7, TruncateIs
<1>9. Nearest(c) = Infinity
  BY DEF Beyond, Overflows
<1> QED
  BY <1>8, <1>9, FloatCodeIs

LEMMA Extends ==
  ASSUME Collected, Sized, Encoded, InfinityIsNoConstant, precise, PrecisionFits,
         NEW v \in Exact
  PROVE  Extend(floatEnc, doubleEnc, FloatCode(v)) = Fp(0, Mag[v])
<1>1. /\ doubleEnc = Wide(LimitBits32, FloatBits, PrecBits) /\ floatEnc = Plain(FloatBits)
      /\ FloatBits \in Nat \ {0} /\ LimitBits32 \in Nat \ {0} /\ PrecBits \in Nat \ {0}
  BY Formats
<1>2. PICK N, P, M, W : LayoutIs(LimitBits32, FloatBits, PrecBits, N, P, M, W)
  BY <1>1, Layout
<1>3. N \in Nat /\ P \in Nat /\ InfMag(floatEnc) = N - 2 /\ NanMag(floatEnc) = N - 1
  BY <1>1, <1>2 DEF LayoutIs
<1>4. P = 2^doubleEnc.prec
  BY <1>1, <1>2 DEF LayoutIs, Wide
<1>5. PICK m, r : LowIs(v, m, r, N, P)
  BY <1>2, Low
<1>6. m = Code(v) /\ m \in 0..(N - 3) /\ r = 0 /\ Mag[v] = m * P + r
  BY <1>5 DEF LowIs
<1>7. Mag[v] = m * P
  <2>1. m * P + 0 = m * P
    BY <1>3, <1>6, SMT
  <2> QED
    BY <1>6, <2>1
<1>8. PICK f : f = Fp(0, m) /\ f.sign = 0 /\ f.mag = m
  <2>1. Fp(0, m).sign = 0 /\ Fp(0, m).mag = m
    BY DEF Fp
  <2> QED
    BY <2>1
<1>9. m # N - 2 /\ m # N - 1
  BY <1>3, <1>6
<1>10. ~IsNan(floatEnc, f) /\ ~IsInf(floatEnc, f)
  BY <1>3, <1>8, <1>9 DEF IsNan, IsInf
<1>11. Extend(floatEnc, doubleEnc, f) = Fp(0, m * P)
  BY <1>4, <1>8, <1>10 DEF Extend
<1> QED
  BY <1>6, <1>7, <1>8, <1>11, FloatCodeIs

\* In that valuation truncate rounds every f64 constant to the f32 number, or the
\* infinity, that IEEE 754 rounds it to, and extend casts every f32 constant to
\* the equal f64 constant (AbsFpEncoding::truncate and extend).
THEOREM ConstantsConvertAsIEEE == Spec => []ConstantsConvert
<1>1. Collected /\ Sized => ConstantsConvert
  <2> SUFFICES ASSUME Collected, Sized, Encoded, AssertionsHold, precise
               PROVE  /\ \A c \in DoubleConsts :
                           /\ Nearest(c) \in FloatConsts \cup {Infinity}
                           /\ Truncate(doubleEnc, floatEnc, Fp(0, Mag[c]), RoundsUp(c))
                                = FloatCode(Nearest(c))
                      /\ \A v \in FloatConsts \ {FloatMax} :
                           Extend(floatEnc, doubleEnc, FloatCode(v)) = Fp(0, Mag[v])
    BY DEF ConstantsConvert
  <2>1. InfinityIsNoConstant /\ PrecisionFits
    BY DEF AssertionsHold
  <2>2. ASSUME NEW c \in DoubleConsts
        PROVE  /\ Nearest(c) \in FloatConsts \cup {Infinity}
               /\ Truncate(doubleEnc, floatEnc, Fp(0, Mag[c]), RoundsUp(c))
                    = FloatCode(Nearest(c))
    <3>1. CASE c \in Exact \cup Inexact
      <4>1. Exact \subseteq FloatConsts
        BY <2>1, ExactIs
      <4> QED
        BY <2>1, <3>1, <4>1, LowTruncates
    <3>2. CASE c \in Beyond
      BY <2>1, <3>2, HighTruncates
    <3> QED
      BY <3>1, <3>2, Counts
  <2>3. ASSUME NEW v \in FloatConsts \ {FloatMax}
        PROVE  Extend(floatEnc, doubleEnc, FloatCode(v)) = Fp(0, Mag[v])
    <3>1. v \in Exact
      BY <2>1, ExactIs
    <3> QED
      BY <2>1, <3>1, Extends
  <2> QED
    BY <2>2, <2>3
<1> QED
  BY <1>1, CollectedStays, SizedStays, PTL
=============================================================================
