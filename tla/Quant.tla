------------------------------- MODULE Quant -------------------------------
(***************************************************************************)
(* The fixed-point arithmetic of firmware/core/src/nn/quant.c in words of  *)
(* 2 * Half values, and its mirror in kws-framework/kwslib/quant.py (the   *)
(* operators whose names begin with py_).                                  *)
(***************************************************************************)
EXTENDS Integers

CONSTANT Half   \* 2^31: the code has int32_t, and their products in int64_t

ASSUME WordAssumption == Half \in Nat \ {0} /\ Half % 2 = 0

IntMin == -Half

IntMax == Half - 1

AbsOf(x) == IF x < 0 THEN -x ELSE x

(* C's division of integers: the quotient is cut towards zero. *)
Quot(a, b) == IF a >= 0 THEN a \div b ELSE -((-a) \div b)

(* What a word keeps of an integer. *)
Wrap(x) == ((x + Half) % (2 * Half)) - Half

Clamp(v, lo, hi) == IF v < lo THEN lo ELSE IF v > hi THEN hi ELSE v

-----------------------------------------------------------------------------
(* Mutant: the nudge of a product below zero has the wrong sign. *)
nn_sat_round_doubling_high_mul_Up(a, b) ==
    IF a = b /\ a = IntMin THEN IntMax ELSE Quot(a * b + Half \div 2, Half)

nn_sat_round_doubling_high_mul(a, b) ==
    LET nudge == IF a * b >= 0 THEN Half \div 2 ELSE 1 - (Half \div 2)
    IN  IF a = b /\ a = IntMin THEN IntMax ELSE Quot(a * b + nudge, Half)

(* x & mask and x >> exponent of a two's complement word: the remainder    *)
(* and the quotient of a division that rounds down.                        *)
RoundingShift(x, exponent) ==
    LET mask == 2 ^ exponent - 1
        threshold == mask \div 2 + (IF x < 0 THEN 1 ELSE 0)
    IN  x \div 2 ^ exponent + (IF x % 2 ^ exponent > threshold THEN 1 ELSE 0)

nn_rounding_divide_by_pot(x, exponent) ==
    IF exponent <= 0 THEN x ELSE RoundingShift(x, exponent)

(* The left shift is a multiplication in int32_t. *)
nn_multiply_by_quantized_multiplier(x, qm, shift) ==
    LET left_shift == IF shift > 0 THEN shift ELSE 0
        right_shift == IF shift > 0 THEN 0 ELSE -shift
    IN  nn_rounding_divide_by_pot(
            nn_sat_round_doubling_high_mul(Wrap(x * 2 ^ left_shift), qm), right_shift)

(* Mutant: the result is clamped below only. *)
nn_requantize_i8_NoMax(acc, qm, shift, output_zp, lo, hi) ==
    LET v == Wrap(nn_multiply_by_quantized_multiplier(acc, qm, shift) + output_zp)
    IN  IF v < lo THEN lo ELSE lo + ((v - lo) % (hi - lo + 1))

(* The zero point is added in int32_t as well. *)
nn_requantize_i8(acc, qm, shift, output_zp, lo, hi) ==
    Clamp(Wrap(nn_multiply_by_quantized_multiplier(acc, qm, shift) + output_zp), lo, hi)

-----------------------------------------------------------------------------
(* Mutant: Python's own division. *)
py_idiv_trunc_Floor(a, b) == a \div b

(* Python's // rounds down; the mirror divides absolute values instead. *)
py_idiv_trunc(a, b) ==
    LET q == AbsOf(a) \div AbsOf(b)
    IN  IF (a >= 0) = (b >= 0) THEN q ELSE -q

py_sat_round_doubling_high_mul(a, b) ==
    LET ab == a * b
    IN  IF a = b /\ b = IntMin
        THEN IntMax
        ELSE py_idiv_trunc(ab + (IF ab >= 0 THEN Half \div 2 ELSE 1 - (Half \div 2)),
                           Half)

py_to_int32(x) ==
    LET low == x % (2 * Half)
    IN  IF low >= Half THEN low - (2 * Half) ELSE low

py_multiply_by_quantized_multiplier(x, qm, shift) ==
    IF shift > 0
    THEN py_sat_round_doubling_high_mul(py_to_int32(x * 2 ^ shift), qm)
    ELSE LET scaled == py_sat_round_doubling_high_mul(py_to_int32(x), qm)
         IN  IF shift = 0 THEN scaled ELSE RoundingShift(scaled, -shift)

py_requantize_i8(acc, qm, shift, output_zp, lo, hi) ==
    Clamp(py_multiply_by_quantized_multiplier(acc, qm, shift) + output_zp, lo, hi)

=============================================================================
