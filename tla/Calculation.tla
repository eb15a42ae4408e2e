----------------------------- MODULE Calculation -----------------------------
(***************************************************************************)
(* The operators on Int (Arithmetic), each on whatever operands it may be  *)
(* given: resumeExpression() has two of them on the stack of values.       *)
(***************************************************************************)
EXTENDS Arithmetic, Sequences

VARIABLE values  \* Frame::values

\* standardBinaryOperator(), standardUnaryOperator()
Empty == values = <<>>
Calculate == values = <<>> /\ \E v0, v1 \in Ints : values' = <<v0, v1>>

Calculations == Empty /\ [][Calculate]_values

\* The arithmetic of resumeExpression(), divisionFloor() and divisionCeiling() (Thread.cpp).
ArithmeticExact(v0, v1) ==
  /\ ExactOrOverflow(v0, v1) /\ ProductsExact(v0, v1) /\ DividesExactly(v0, v1)
  /\ FloorOverflows(v0, v1) \/ RoundsDown(v0, v1)
  /\ CeilingOverflows(v0, v1) \/ RoundsUp(v0, v1)
  /\ PowersExact(v0, v1)

\* An operator on Int yields the exact value or throws, but for what Arithmetic names:
\* products whose check is not compiled, powers out of range, the smallest value by -1, and
\* the divisions with rounding that overflow (FloorOverflows, CeilingOverflows).
CalculatesExactly ==
  values # <<>> =>
    LET v0 == values[1]  v1 == values[2]
    IN  ArithmeticExact(v0, v1) /\ ShiftsExact(v0, v1) /\ BitsExact(v0, v1)
=============================================================================
