----------------------------- MODULE Arithmetic -----------------------------
(***************************************************************************)
(* The operators on Int of resumeExpression() (chatra_core/Thread.cpp), in *)
(* two's complement of Width bits.  An operation yields a value, or the    *)
(* exception it throws; "trap" is the signal that ends the interpreter.    *)
(***************************************************************************)
EXTENDS Integers, FiniteSets, FiniteSetsExt

CONSTANT Width
ASSUME WidthAssumption == Width \in Nat \ {0, 1}

Half == 2 ^ (Width - 1)
Ints == -Half..Half - 1
Wrap(n) == ((n + Half) % (2 * Half)) - Half
Unsigned(n) == n % (2 * Half)

Yields(v) == [ex |-> "none", v |-> v]
Throws(ex) == [ex |-> ex, v |-> 0]
Checked(n) == IF n \in Ints THEN Yields(n) ELSE Throws("OverflowException")
Abs(n) == IF n < 0 THEN -n ELSE n
Sign(n) == IF n < 0 THEN -1 ELSE 1

\* The division of the processor: towards zero; a quotient out of range traps.
Quotient(v0, v1) == Sign(v0) * Sign(v1) * (Abs(v0) \div Abs(v1))
Traps(v0, v1) == v0 = -Half /\ v1 = -1

\* Increments and decrements
Increment(v0) == IF v0 = Half - 1 THEN Throws("OverflowException") ELSE Yields(v0 + 1)
Decrement(v0) == IF v0 = -Half THEN Throws("OverflowException") ELSE Yields(v0 - 1)
UnaryMinus(v0) == IF v0 = -Half THEN Throws("OverflowException") ELSE Yields(-v0)

\* Addition and subtraction: the sign of what has been wrapped tells an overflow.
Negative(n) == n < 0
Addition(v0, v1) ==
  LET t == Wrap(v0 + v1)
  IN  IF Negative(v0) = Negative(v1) /\ Negative(t) # Negative(v0) THEN Throws("OverflowException")
      ELSE Yields(t)

\* Mutant of Subtraction: the check of the addition.
SubtractionAsAddition(v0, v1) ==
  LET t == Wrap(v0 - v1)
  IN  IF Negative(v0) = Negative(v1) /\ Negative(t) # Negative(v0) THEN Throws("OverflowException")
      ELSE Yields(t)

Subtraction(v0, v1) ==
  LET t == Wrap(v0 - v1)
  IN  IF Negative(v0) # Negative(v1) /\ Negative(t) # Negative(v0) THEN Throws("OverflowException")
      ELSE Yields(t)

\* The check of an overflow divides the product back, which traps for -2^(Width-1) / -1.
\* As a signed product that overflows is undefined, a compiler may fold the check away
\* (gcc does at -O1).
Multiplication(v0, v1, folded) ==
  LET t == Wrap(v0 * v1) IN
  IF folded \/ v1 = 0 THEN Yields(t)
  ELSE IF Traps(t, v1) THEN Throws("trap")
  ELSE IF Quotient(t, v1) # v0 THEN Throws("OverflowException") ELSE Yields(t)

Division(v0, v1) ==
  IF v1 = 0 THEN Throws("DivideByZeroException")
  ELSE IF Traps(v0, v1) THEN Throws("trap") ELSE Yields(Quotient(v0, v1))

Modulus(v0, v1) ==
  IF v1 = 0 THEN Throws("DivideByZeroException")
  ELSE IF Traps(v0, v1) THEN Throws("trap") ELSE Yields(v0 - v1 * Quotient(v0, v1))

\* divisionFloor() and divisionCeiling(), for v1 # 0
Floor(v0, v1) ==
  LET a == IF v1 < 0 THEN Wrap(-v0) ELSE v0
      b == IF v1 < 0 THEN Wrap(-v1) ELSE v1
  IN  IF a >= 0 THEN Quotient(a, b) ELSE Quotient(Wrap(a - Wrap(b - 1)), b)

Ceiling(v0, v1) ==
  LET a == IF v1 < 0 THEN Wrap(-v0) ELSE v0
      b == IF v1 < 0 THEN Wrap(-v1) ELSE v1
  IN  IF a >= 0 THEN Quotient(Wrap(a + Wrap(b - 1)), b) ELSE Quotient(a, b)

Rounding(Divide(_, _), v0, v1) ==
  IF v1 = 0 THEN Throws("DivideByZeroException") ELSE Yields(Divide(v0, v1))
RoundingModulus(Divide(_, _), v0, v1) ==
  IF v1 = 0 THEN Throws("DivideByZeroException") ELSE Yields(Wrap(v0 - Wrap(Divide(v0, v1) * v1)))

\* t *= v0, v1 times
Power(v0, v1) == IF v1 = 0 THEN 1 ELSE v0 ^ v1
Exponent(v0, v1) ==
  IF v1 < 0 \/ v1 > 256 THEN Throws("UnsupportedOperationException")
  ELSE Yields(Wrap(Power(v0, v1)))

\* Shifts and bits: the processor takes the count of a shift modulo the width.
LeftShift(v0, v1) ==
  IF v1 < 0 THEN Throws("UnsupportedOperationException") ELSE Yields(Wrap(v0 * 2 ^ (v1 % Width)))
RightShift(v0, v1) ==
  IF v1 < 0 THEN Throws("UnsupportedOperationException") ELSE Yields(v0 \div 2 ^ (v1 % Width))
UnsignedRightShift(v0, v1) ==
  IF v1 < 0 THEN Throws("UnsupportedOperationException")
  ELSE Yields(Wrap(Unsigned(v0) \div 2 ^ (v1 % Width)))

Bit(n, i) == (Unsigned(n) \div 2 ^ i) % 2 = 1
Bitwise(On(_, _), v0, v1) ==
  Yields(Wrap(MapThenSumSet(LAMBDA i : IF On(Bit(v0, i), Bit(v1, i)) THEN 2 ^ i ELSE 0, 0..Width - 1)))
BitwiseAnd(v0, v1) == Bitwise(LAMBDA a, b : a /\ b, v0, v1)
BitwiseOr(v0, v1)  == Bitwise(LAMBDA a, b : a \/ b, v0, v1)
BitwiseXor(v0, v1) == Bitwise(LAMBDA a, b : a # b, v0, v1)
BitwiseComplement(v0) == Yields(Wrap(-v0 - 1))

------------------------------------------------------------------------------
(* What the operators should yield.  Each definition names the operands    *)
(* for which they do not.                                                  *)

\* The addition, the subtraction, the sign and the steps by one are exact or throw
\* OverflowException ("overflow check" of lex_and_operators.cha): the tests of sign bits
\* find each overflow.
ExactOrOverflow(v0, v1) ==
  /\ Addition(v0, v1) = Checked(v0 + v1)
  /\ Subtraction(v0, v1) = Checked(v0 - v1)
  /\ UnaryMinus(v0) = Checked(-v0)
  /\ Increment(v0) = Checked(v0 + 1) /\ Decrement(v0) = Checked(v0 - 1)

\* So is the multiplication ("multiplication (overflow check)"), where the check is compiled:
\* there, the product by -1 of the smallest value traps.  Where the check is folded away no
\* product throws, and those out of range are wrong, against that test, which is run in
\* builds of type Debug only.
ProductsExact(v0, v1) ==
  /\ Traps(v0, v1) => Multiplication(v0, v1, FALSE) = Throws("trap")
  /\ ~Traps(v0, v1) => Multiplication(v0, v1, FALSE) = Checked(v0 * v1)
  /\ Multiplication(v0, v1, TRUE) = Checked(v0 * v1) <=> v0 * v1 \in Ints

\* Division rounds to zero, and the modulus is what it leaves, with the sign of the dividend
\* ("division (round to zero)", "modulus"); the smallest value by -1 traps.
DividesExactly(v0, v1) ==
  LET q == Division(v0, v1)  m == Modulus(v0, v1) IN
  IF v1 = 0 THEN {q, m} = {Throws("DivideByZeroException")}
  ELSE IF Traps(v0, v1) THEN {q, m} = {Throws("trap")}
  ELSE /\ q = Yields(q.v) /\ m = Yields(m.v) /\ q.v \in Ints
       /\ v0 = q.v * v1 + m.v /\ Abs(m.v) < Abs(v1) /\ m.v * v0 >= 0

\* divisionFloor() and divisionCeiling() change the signs for a positive divisor and add it
\* to the dividend, less one: there are operands for which one of the three overflows.
Dividend(v0, v1) == IF v1 < 0 THEN -v0 ELSE v0
OpposedOutOfRange(v0, v1) == ~{Dividend(v0, v1), Abs(v1)} \subseteq Ints
FloorOverflows(v0, v1) ==
  LET a == Dividend(v0, v1) IN
  OpposedOutOfRange(v0, v1) \/ (a < 0 /\ a - (Abs(v1) - 1) \notin Ints)
CeilingOverflows(v0, v1) ==
  LET a == Dividend(v0, v1) IN
  OpposedOutOfRange(v0, v1) \/ (a >= 0 /\ a + (Abs(v1) - 1) \notin Ints)

\* For all others, division rounds down and up, and each modulus is what its division leaves
\* ("division with rounding down", "modulus with rounding up" of lex_and_operators.cha).
RoundsDown(v0, v1) ==
  LET f == Rounding(Floor, v0, v1)  m == RoundingModulus(Floor, v0, v1) IN
  IF v1 = 0 THEN {f, m} = {Throws("DivideByZeroException")}
  ELSE /\ f = Yields(f.v) /\ m = Yields(v0 - f.v * v1)
       /\ IF v1 > 0 THEN 0 <= m.v /\ m.v < v1 ELSE v1 < m.v /\ m.v <= 0
RoundsUp(v0, v1) ==
  LET c == Rounding(Ceiling, v0, v1)  m == RoundingModulus(Ceiling, v0, v1) IN
  IF v1 = 0 THEN {c, m} = {Throws("DivideByZeroException")}
  ELSE /\ c = Yields(c.v) /\ m = Yields(v0 - c.v * v1)
       /\ IF v1 > 0 THEN -v1 < m.v /\ m.v <= 0 ELSE 0 <= m.v /\ m.v < -v1

\* A power in range is exact ("exponent"); no other one throws (2 ** 64 is 0).
PowersExact(v0, v1) ==
  IF v1 < 0 \/ v1 > 256 THEN Exponent(v0, v1) = Throws("UnsupportedOperationException")
  ELSE /\ Exponent(v0, v1).ex = "none"
       /\ Power(v0, v1) \in Ints => Exponent(v0, v1) = Checked(Power(v0, v1))

\* Shifts multiply by a power of two, modulo the width, and divide by it, rounding down or
\* as if the value had no sign ("left shift", "right shift with zero extension").  By the
\* width or more they do what the processor does, and start again.
ShiftsExact(v0, v1) ==
  LET l == LeftShift(v0, v1)  r == RightShift(v0, v1)  u == UnsignedRightShift(v0, v1) IN
  IF v1 < 0 THEN {l, r, u} = {Throws("UnsupportedOperationException")}
  ELSE IF v1 >= Width
  THEN /\ l = LeftShift(v0, v1 - Width) /\ r = RightShift(v0, v1 - Width)
       /\ u = UnsignedRightShift(v0, v1 - Width)
  ELSE /\ l.v \in Ints /\ (l.v - v0 * 2 ^ v1) % (2 * Half) = 0
       /\ r.v * 2 ^ v1 <= v0 /\ v0 < (r.v + 1) * 2 ^ v1
       /\ u.v = IF v0 >= 0 \/ v1 = 0 THEN r.v ELSE r.v + 2 ^ (Width - v1)

\* The bits of both, of one and of either add up ("bitwise AND" and so on).
BitsExact(v0, v1) ==
  LET both == BitwiseAnd(v0, v1).v  all == BitwiseOr(v0, v1).v  one == BitwiseXor(v0, v1).v
  IN  /\ both + all = v0 + v1 /\ one = all - both
      /\ BitwiseAnd(v0, one).v = v0 - both /\ BitwiseAnd(v0, BitwiseComplement(v0).v).v = 0
=============================================================================
