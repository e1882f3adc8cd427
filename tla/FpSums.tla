------------------------------- MODULE FpSums -------------------------------
(***************************************************************************)
(* Sums under --associative (AbsFpEncoding::sum and                        *)
(* getFpAssociativePrecondition, abstractops.cpp).  A sum is a term that   *)
(* stands for an unknown number; every one is recorded in fp_sums, and     *)
(* when both functions are encoded a precondition relates them: by hash    *)
(* values, or under --multiset by unions of bags.                          *)
(*                                                                         *)
(* A term is an integer: 0 is the constant -0.0, the identity of fp.add;   *)
(* negative terms are the arguments of the function; k > 0 is the result   *)
(* of the k-th recorded sum.  The order of the elements of a sum is left   *)
(* out, as nothing below depends on it.                                    *)
(***************************************************************************)
EXTENDS Integers, Sequences, Bags, FiniteSetsExt

CONSTANTS
  NumArgs,      \* arguments of the function
  Sizes,        \* sizes of the arrays that are reduced
  MaxSums,      \* sums of the source and the target function
  MaxRecorded   \* sums recorded at most, those of the precondition included

Identity == 0
Args     == (-NumArgs)..(-1)

ASSUME SumsOK ==
  /\ NumArgs \in Nat
  /\ Sizes \subseteq Nat
  /\ MaxSums \in Nat /\ MaxRecorded \in Nat

VARIABLES
  useMultiset,   \* --multiset
  fp_sums,       \* FpSumInfo: the bag of the elements of each sum
  regs,          \* terms that registers hold
  phase,         \* "encode", then "unions" under --multiset, then "done"
  visit          \* under --multiset, the sum the loop over unions is at

vars == <<useMultiset, fp_sums, regs, phase, visit>>

Length(bag) == BagCardinality(bag)

Init ==
  /\ useMultiset \in BOOLEAN
  /\ fp_sums = <<>>
  /\ regs = Args \cup {Identity}
  /\ phase = "encode"
  /\ visit = 1

-----------------------------------------------------------------------------
(***************************************************************************)
(* sum().  The term of every sum is recorded, by lambdaSum or multisetSum, *)
(* but a sum of at most one element is that element.                       *)
(***************************************************************************)

Recorded(sums, bag) == Append(sums, bag)

Result(sums, bag) ==
  CASE Length(bag) = 0 -> Identity
    [] Length(bag) = 1 -> CHOOSE t \in BagToSet(bag) : TRUE
    [] OTHER           -> Len(sums) + 1

EncodeSum(bag) ==
  /\ phase = "encode" /\ Len(fp_sums) < MaxSums
  /\ fp_sums' = Recorded(fp_sums, bag)
  /\ regs' = regs \cup {Result(fp_sums, bag)}
  /\ UNCHANGED <<useMultiset, phase, visit>>

\* add() is a sum of two elements under USE_SUM_ONLY.
EncodeAdd == \E a, b \in regs : EncodeSum(SetToBag({a}) (+) SetToBag({b}))

\* A tensor of n times the same element, which is what the lengths of sums
\* grow by; an initial value other than the identity is put in front.
Splat(a, n) == [t \in (IF n = 0 THEN {} ELSE {a}) |-> n]

WithInitialValue(bag, init) == IF init = Identity THEN bag ELSE bag (+) SetToBag({init})

EncodeReduce ==
  \E a, init \in regs, n \in Sizes : EncodeSum(WithInitialValue(Splat(a, n), init))

-----------------------------------------------------------------------------
(***************************************************************************)
(* The precondition with hash values.  It is an operator of the hash       *)
(* function and of the values of the sums, as the solver chooses both.     *)
(***************************************************************************)
log2_ceil(n) == CHOOSE k \in 0..n : 2^k >= n /\ (k = 0 \/ 2^(k - 1) < n)

MaxLength == Max({0} \cup {Length(fp_sums[i]) : i \in DOMAIN fp_sums})

\* A variant that does not count the elements of a sum.
HashRangeBits_NoLength == Max({1, log2_ceil(Len(fp_sums) * Len(fp_sums))})

HashRangeBits == Max({1, log2_ceil(Len(fp_sums) * Len(fp_sums) * MaxLength)})

\* The functions an element may be hashed by.
HashFns == [Args -> 0..(2^HashRangeBits - 1)]

\* A variant that leaves the hash value of the identity open.
HashElem_NoIdentity(hashfn, t) == IF t = Identity THEN 1 ELSE hashfn[t]

\* hash(-0.0) = 0 is part of the precondition.
HashElem(hashfn, t) == IF t = Identity THEN 0 ELSE hashfn[t]

\* hashValues: an element that is an earlier sum counts with the hash value of
\* that sum.
HashValues(hashfn) ==
  LET hash[i \in DOMAIN fp_sums] ==
        MapThenSumSet(LAMBDA t : CopiesIn(t, fp_sums[i])
                                   * (IF t > 0 THEN hash[t] ELSE HashElem(hashfn, t)),
                      BagToSet(fp_sums[i])) % 2^HashRangeBits
  IN  hash

\* "sumfn(A) != sumfn(B) -> hashfn(A) != hashfn(B)".
HashPrecondition(hashfn, value) ==
  LET hash == HashValues(hashfn)
  IN  \A i, j \in DOMAIN fp_sums : i < j /\ value[i] # value[j] => hash[i] # hash[j]

StartPrecondition ==
  /\ phase = "encode"
  /\ phase' = IF useMultiset THEN "unions" ELSE "done"
  /\ UNCHANGED <<useMultiset, fp_sums, regs, visit>>

-----------------------------------------------------------------------------
(***************************************************************************)
(* The precondition with bags: if a sum is the union of two earlier ones,  *)
(* it equals fp.add of their results.  That fp.add is a sum itself, and is *)
(* recorded while the loop goes over the sums.                             *)
(***************************************************************************)

\* A variant that does not compare lengths.
Unions_AnyLength(i) == {<<j, k>> \in (1..(i - 1)) \X (1..(i - 1)) : j < k}

Unions(i) ==
  {<<j, k>> \in (1..(i - 1)) \X (1..(i - 1)) :
     j < k /\ Length(fp_sums[i]) = Length(fp_sums[j]) + Length(fp_sums[k])}

Sums(pairs) == [n \in 1..Cardinality(pairs) |->
                  LET before(p) == {q \in pairs : q[1] < p[1] \/ (q[1] = p[1] /\ q[2] < p[2])}
                      pair == CHOOSE p \in pairs : Cardinality(before(p)) = n - 1
                  IN  SetToBag({pair[1], pair[2]})]

VisitSum ==
  /\ phase = "unions" /\ visit <= Len(fp_sums)
  /\ Len(fp_sums) + Cardinality(Unions(visit)) <= MaxRecorded
  /\ fp_sums' = fp_sums \o Sums(Unions(visit))
  /\ visit' = visit + 1
  /\ UNCHANGED <<useMultiset, regs, phase>>

FinishUnions ==
  /\ phase = "unions" /\ visit > Len(fp_sums)
  /\ phase' = "done"
  /\ UNCHANGED <<useMultiset, fp_sums, regs, visit>>

Next == EncodeAdd \/ EncodeReduce \/ StartPrecondition \/ VisitSum \/ FinishUnions

\* The encoding is sequential code that never waits.
Spec == Init /\ [][Next]_vars /\ WF_vars(Next)

-----------------------------------------------------------------------------
\* What a sum adds up, once sums among its elements are taken apart: how often
\* each argument.  The arguments may be numbers of which no two such
\* combinations are equal.
Combination ==
  LET comb[i \in DOMAIN fp_sums] ==
        [x \in Args |->
           MapThenSumSet(LAMBDA t : CopiesIn(t, fp_sums[i])
                                      * (IF t > 0 THEN comb[t][x] ELSE IF t = x THEN 1 ELSE 0),
                         BagToSet(fp_sums[i]))]
  IN  comb

Hashed == phase = "done" /\ ~useMultiset

\* Addition of numbers satisfies the precondition: "if two summations are
\* different, we can find concrete hash function that hashes into different
\* value" (abstractops.cpp).  If it did not, sums that differ would be proved
\* equal.
AdditionIsAdmitted ==
  Hashed => \E hashfn \in HashFns : HashPrecondition(hashfn, Combination)

\* The same where no sum grows longer by taking sums among its elements apart
\* than the longest recorded sum is: the range of the hash function depends on
\* the recorded lengths (getHashRangeBits).
FlatAdditionIsAdmitted ==
  (\A i \in DOMAIN fp_sums :
     MapThenSumSet(LAMBDA x : Combination[i][x], Args) <= MaxLength)
  => AdditionIsAdmitted

\* Two ways to add up the same numbers have the same hash value under every
\* hash function, so that the precondition makes them equal: brackets, order
\* and zeros do not matter (what --associative is for).
ReassociatedSumsAreEqual ==
  Hashed =>
    \A hashfn \in [Args -> 1..2] : \A i, j \in DOMAIN fp_sums :
      Combination[i] = Combination[j] => HashValues(hashfn)[i] = HashValues(hashfn)[j]

\* The loop over unions records sums while it goes over them.  It still ends,
\* unless a recorded sum has fewer than two elements: a sum of two is then
\* again the union of two sums, and so on for ever.
UnionsEnd ==
  (phase = "unions" /\ \A i \in DOMAIN fp_sums : Length(fp_sums[i]) >= 2) ~> phase = "done"
=============================================================================
