------------------------------- MODULE Rounding -------------------------------
(***************************************************************************)
(* Decimal.quantize as the code uses it, on quotients of integers.  A      *)
(* figure with n decimals is an integer of 10^-n units.                    *)
(***************************************************************************)
EXTENDS Integers

Magnitude(n) == IF n < 0 THEN -n ELSE n

\* ROUND_HALF_UP: to nearest, ties away from zero.
HalfUp(numerator, denominator) ==
  LET up == (2 * Magnitude(numerator) + denominator) \div (2 * denominator)
  IN  IF numerator < 0 THEN -up ELSE up

\* ROUND_HALF_EVEN, the default, of a quotient that is not negative.
HalfEven(numerator, denominator) ==
  LET down == numerator \div denominator
      rest == 2 * (numerator % denominator)
  IN  IF rest > denominator \/ (rest = denominator /\ down % 2 = 1) THEN down + 1 ELSE down

\* ROUND_CEILING of a quotient.
Ceiling(numerator, denominator) == -((-numerator) \div denominator)

==============================================================================
