----------------------------- MODULE CheriBounds ----------------------------
(***************************************************************************)
(* The compressed bounds of a capability: CHERI_Encoder chooses an         *)
(* exponent and keeps the low bits of both bounds at that granularity,     *)
(* CHERI_Decoder puts the upper bits of the register's address back.       *)
(* In the code the sizes are 9, 32 and 4 (register_info.py).               *)
(***************************************************************************)
EXTENDS Integers

CONSTANTS NUMBER_BITS_FOR_TOP_BASE, REGISTER_SIZE, EXPONENT_BIT_SIZE

M == 2^NUMBER_BITS_FOR_TOP_BASE          \* NINE_BIT_MASK + 1

\* Exponents are written as they are, except the one for the whole address
\* space (24), which is read from a field of ones.
FullExponent == REGISTER_SIZE + 1 - NUMBER_BITS_FOR_TOP_BASE
FieldOfOnes  == 2^EXPONENT_BIT_SIZE - 1
Exponents    == 0 .. FieldOfOnes - 1 \cup {FullExponent}

ASSUME FieldsAssumption ==
  /\ M \in Nat \ {0} /\ FieldOfOnes \in Nat
  /\ FullExponent \in Nat \ (0 .. FieldOfOnes)
  /\ \A e \in Exponents : 2^e \in Nat \ {0}

\* Mutant: the ranges are 512, 1024 and so on.
EXPONENT_MAX_LENGTH_DICT_512 == [e \in Exponents |-> M * 2^e]
EXPONENT_MAX_LENGTH_DICT == [e \in Exponents |-> (M - 1) * 2^e]

\* The first exponent whose range exceeds the length; if there is none the
\* attribute of the encoder keeps its value.
find_correct_exponent(exponent, diff) ==
  LET fit == {e \in Exponents : diff < EXPONENT_MAX_LENGTH_DICT[e]}
  IN IF fit = {} THEN exponent ELSE CHOOSE e \in fit : \A f \in fit : e <= f

NineBits(full, exponent) == (full \div 2^exponent) % M

-----------------------------------------------------------------------------
extract_exponent(field) == IF field = FieldOfOnes THEN FullExponent ELSE field

\* Corrections of the address above the field, for the base and for the top.
base_cor(mid, base) == IF mid < base THEN -1 ELSE 0
top_cor(mid, base, top) ==
  IF (top < base) = (mid < base) THEN 0 ELSE IF top < base THEN 1 ELSE -1

\* granule = 2^exponent.  Shifts left are multiplications.
full_base(hi, mid, base, granule) ==
  (hi + base_cor(mid, base)) * (M * granule) + base * granule
full_top(hi, mid, base, top, granule) ==
  (hi + top_cor(mid, base, top)) * (M * granule) + top * granule

\* addr_hi and addr_mid of the address; for FullExponent nothing is above.
decode_bounds(address, field, base, top) ==
  LET g   == 2^extract_exponent(field)
      mid == (address \div g) % M
      hi  == address \div (M * g)
  IN [base |-> full_base(hi, mid, base, g), top |-> full_top(hi, mid, base, top, g)]
=============================================================================
