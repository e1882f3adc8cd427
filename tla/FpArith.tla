------------------------------ MODULE FpArith -------------------------------
(***************************************************************************)
(* The arithmetic of a function on two floating point operands, as the     *)
(* encoder builds it: operations are encoded one after the other, and each *)
(* applies an uninterpreted function that AbsFpEncoding declares when it   *)
(* is first needed.  The solver may give these functions any meaning, so   *)
(* the encoding is sound only if one of the meanings is IEEE arithmetic,   *)
(* and it is useful only as far as all of them agree.                      *)
(***************************************************************************)
EXTENDS FpEncoding, FiniteSets

CONSTANTS
  Bits,   \* bits of a magnitude
  One     \* the magnitude of 1.0: it is some number between zero and the largest

E == Plain(Bits)

ASSUME ArithOK == Bits \in Nat /\ One \in 1..(MaxMag(E) - 1)

VARIABLES
  x, y,       \* the operands
  fp_addfn,   \* AbsFpEncoding's declarations: the name of a function, or ""
  fp_mulfn,
  terms       \* operations encoded, with the function each one applies

vars == <<x, y, fp_addfn, fp_mulfn, terms>>

Init ==
  /\ x \in Codes(E) /\ y \in Codes(E)
  /\ fp_addfn = "" /\ fp_mulfn = ""
  /\ terms = {}

-----------------------------------------------------------------------------
Encode(op, fn) == terms' = terms \cup {[op |-> op, fn |-> fn]}

\* getAddFn.
EncodeAdd ==
  /\ fp_addfn' = IF fp_addfn = "" THEN "fp_add" ELSE fp_addfn
  /\ Encode("add", fp_addfn')
  /\ UNCHANGED <<x, y, fp_mulfn>>

\* getMulFn.
EncodeMul ==
  /\ fp_mulfn' = IF fp_mulfn = "" THEN "fp_mul" ELSE fp_mulfn
  /\ Encode("mul", fp_mulfn')
  /\ UNCHANGED <<x, y, fp_addfn>>

\* getDivFn.
EncodeDiv ==
  /\ fp_mulfn' = IF fp_mulfn = "" THEN "fp_div" ELSE fp_mulfn
  /\ Encode("div", fp_mulfn')
  /\ UNCHANGED <<x, y, fp_addfn>>

Next == EncodeAdd \/ EncodeMul \/ EncodeDiv

Spec == Init /\ [][Next]_vars

=============================================================================
