-------------------------- MODULE Arithmetic_proofs --------------------------
(***************************************************************************)
(* The operators on Int are exact for every width: what the checks of      *)
(* resumeExpression() (chatra_core/Thread.cpp) let pass is the value, and  *)
(* divisionFloor() and divisionCeiling() round as they should, but for the *)
(* operands that Arithmetic names.                                         *)
(*                                                                         *)
(* That 2^n is positive is an induction no prover here can do.  It is not  *)
(* needed: Half is an integer, and positive as soon as there is a value.   *)
(***************************************************************************)
EXTENDS Calculation, TLAPS

LEMMA HalfType == Half \in Int
BY WidthAssumption DEF Half

LEMMA IntsType ==
  ASSUME NEW n \in Ints
  PROVE  n \in Int /\ Half > 0 /\ -Half <= n /\ n < Half
BY HalfType DEF Ints

(***************************************************************************)
(* Wrapping: a number differs from what it is wrapped to by a multiple of  *)
(* 2 * Half, and by none if it is in range.                                *)
(***************************************************************************)
LEMMA WrapExact ==
  ASSUME NEW n \in Ints
  PROVE  Wrap(n) = n
BY HalfType, IntsType DEF Wrap

LEMMA WrapOver ==
  ASSUME NEW n \in Int, Half > 0, Half <= n, n < 3 * Half
  PROVE  Wrap(n) = n - 2 * Half
BY HalfType DEF Wrap

LEMMA WrapUnder ==
  ASSUME NEW n \in Int, Half > 0, -3 * Half <= n, n < -Half
  PROVE  Wrap(n) = n + 2 * Half
BY HalfType DEF Wrap

LEMMA WrapInts ==
  ASSUME NEW n \in Int, Half > 0
  PROVE  Wrap(n) \in Ints
<1>. DEFINE m == (n + Half) % (2 * Half)
<1>1. m \in Int /\ 0 <= m /\ m < 2 * Half
  BY HalfType
<1>2. Wrap(n) = m - Half
  BY DEF Wrap
<1>. HIDE DEF m
<1>. QED BY <1>1, <1>2, HalfType DEF Ints

LEMMA WrapCongruent ==
  ASSUME NEW n \in Int, Half > 0
  PROVE  \E k \in Int : Wrap(n) = n - (2 * Half) * k
<1>. DEFINE a == n + Half  b == 2 * Half  k == a \div b
<1>1. a \in Int /\ b \in Int /\ b > 0 /\ k \in Int
  BY HalfType
<1>2. Wrap(n) = (a % b) - Half
  BY DEF Wrap
<1>3. a % b = a - b * k
  <2>. HIDE DEF a, b
  <2>. QED BY <1>1, Z3
<1>4. a = n + Half /\ b = 2 * Half
  OBVIOUS
<1>5. b * k \in Int
  <2>. HIDE DEF a, b, k
  <2>. QED BY <1>1
<1>. HIDE DEF a, b, k
<1>6. Wrap(n) = n - b * k
  BY <1>2, <1>3, <1>4, <1>5, HalfType
<1>. QED BY <1>1, <1>4, <1>6

(***************************************************************************)
(* The division of the processor leaves a remainder with the sign of the   *)
(* dividend, less than the divisor.                                        *)
(***************************************************************************)
LEMMA QuotientOfPositive ==
  ASSUME NEW a \in Int, NEW b \in Int, a >= 0, b > 0
  PROVE  /\ Quotient(a, b) \in Int
         /\ Quotient(a, b) * b <= a /\ a < Quotient(a, b) * b + b
<1>. DEFINE m == a \div b
<1>1. m \in Int /\ b * m <= a /\ a < b * m + b
  OBVIOUS
<1>2. Quotient(a, b) = m
  BY <1>1 DEF Quotient, Sign, Abs
<1>. HIDE DEF m
<1>. QED BY <1>1, <1>2

LEMMA QuotientOfNegative ==
  ASSUME NEW a \in Int, NEW b \in Int, a < 0, b > 0
  PROVE  /\ Quotient(a, b) \in Int
         /\ Quotient(a, b) * b >= a /\ a > Quotient(a, b) * b - b
<1>. DEFINE m == (-a) \div b
<1>1. m \in Int /\ b * m <= -a /\ -a < b * m + b
  OBVIOUS
<1>2. Quotient(a, b) = -m
  BY <1>1 DEF Quotient, Sign, Abs
<1>3. b * m \in Int /\ (-m) * b = -(b * m)
  BY <1>1
<1>. HIDE DEF m
<1>. QED BY <1>1, <1>2, <1>3

LEMMA QuotientByNegative ==
  ASSUME NEW a \in Int, NEW b \in Int, b < 0
  PROVE  Quotient(a, b) = -Quotient(a, -b) /\ Quotient(a, -b) \in Int
<1>. DEFINE m == Abs(a) \div (-b)
<1>1. Abs(a) \in Int /\ -b > 0 /\ -b \in Int /\ Abs(b) = -b /\ Abs(-b) = -b
  BY DEF Abs
<1>2. m \in Int
  <2>1. \A x, y \in Int : y > 0 => x \div y \in Int
    OBVIOUS
  <2>. QED BY <1>1, <2>1
<1>3. Sign(b) = -1 /\ Sign(-b) = 1 /\ Sign(a) \in {-1, 1}
  BY DEF Sign
<1>4. Quotient(a, b) = Sign(a) * (-1) * m /\ Quotient(a, -b) = Sign(a) * 1 * m
  BY <1>1, <1>3 DEF Quotient
<1>. HIDE DEF m
<1>. QED BY <1>2, <1>3, <1>4

LEMMA Remainder ==
  ASSUME NEW a \in Int, NEW b \in Int, b # 0
  PROVE  /\ Quotient(a, b) \in Int
         /\ a - Quotient(a, b) * b < Abs(b) /\ -Abs(b) < a - Quotient(a, b) * b
<1>1. ASSUME NEW c \in Int, c > 0
      PROVE  Quotient(a, c) \in Int /\ a - Quotient(a, c) * c < c /\ -c < a - Quotient(a, c) * c
  <2>. DEFINE q == Quotient(a, c)
  <2>1. CASE a >= 0
    <3>1. q \in Int /\ q * c <= a /\ a < q * c + c
      BY <1>1, <2>1, QuotientOfPositive
    <3>2. q * c \in Int
      BY <3>1
    <3>. QED BY <1>1, <3>1, <3>2
  <2>2. CASE a < 0
    <3>1. q \in Int /\ q * c >= a /\ a > q * c - c
      BY <1>1, <2>2, QuotientOfNegative
    <3>2. q * c \in Int
      BY <3>1
    <3>. QED BY <1>1, <3>1, <3>2
  <2>. QED BY <2>1, <2>2
<1>2. CASE b > 0
  BY <1>1, <1>2 DEF Abs
<1>3. CASE b < 0
  <2>. DEFINE q == Quotient(a, -b)
  <2>1. Quotient(a, b) = -q /\ q \in Int
    BY <1>3, QuotientByNegative
  <2>2. a - q * (-b) < -b /\ -(-b) < a - q * (-b)
    BY <1>1, <1>3
  <2>. HIDE DEF q
  <2>3. (-q) * b = q * (-b) /\ q * (-b) \in Int
    BY <2>1
  <2>. QED BY <1>3, <2>1, <2>2, <2>3 DEF Abs
<1>. QED BY <1>2, <1>3

(***************************************************************************)
(* The checks.                                                             *)
(***************************************************************************)
LEMMA NoOverflow ==
  ASSUME NEW n \in Ints
  PROVE  Checked(n) = Yields(n) /\ Wrap(n) = n
BY WrapExact DEF Checked

LEMMA Overflow ==
  ASSUME NEW n \in Int, n \notin Ints
  PROVE  Checked(n) = Throws("OverflowException") /\ (n >= Half \/ n < -Half)
BY HalfType DEF Checked, Ints

\* The sum of two values is out of range only if they have one sign, and it wraps to the other.
LEMMA AdditionExact ==
  ASSUME NEW v0 \in Ints, NEW v1 \in Ints
  PROVE  Addition(v0, v1) = Checked(v0 + v1)
<1>0. v0 \in Int /\ v1 \in Int /\ Half \in Int /\ Half > 0 /\ -Half <= v0 /\ v0 < Half /\ -Half <= v1 /\ v1 < Half
  BY HalfType, IntsType
<1>1. CASE v0 + v1 \in Ints
  <2>1. Checked(v0 + v1) = Yields(v0 + v1) /\ Wrap(v0 + v1) = v0 + v1
    BY <1>1, NoOverflow
  <2>2. ~(Negative(v0) = Negative(v1) /\ Negative(v0 + v1) # Negative(v0))
    BY <1>0 DEF Negative
  <2>. QED BY <2>1, <2>2 DEF Addition
<1>2. CASE v0 + v1 \notin Ints
  <2>1. Checked(v0 + v1) = Throws("OverflowException") /\ (v0 + v1 >= Half \/ v0 + v1 < -Half)
    BY <1>0, <1>2, Overflow
  <2>2. CASE v0 + v1 >= Half
    <3>1. Wrap(v0 + v1) = v0 + v1 - 2 * Half
      BY <1>0, <2>2, WrapOver
    <3>2. v0 > 0 /\ v1 > 0 /\ v0 + v1 - 2 * Half < 0
      BY <1>0, <2>2
    <3>3. Negative(v0) = FALSE /\ Negative(v1) = FALSE /\ Negative(Wrap(v0 + v1)) = TRUE
      BY <1>0, <3>1, <3>2 DEF Negative
    <3>. QED BY <2>1, <3>3 DEF Addition
  <2>3. CASE v0 + v1 < -Half
    <3>1. Wrap(v0 + v1) = v0 + v1 + 2 * Half
      BY <1>0, <2>3, WrapUnder
    <3>2. v0 < 0 /\ v1 < 0 /\ v0 + v1 + 2 * Half >= 0
      BY <1>0, <2>3
    <3>3. Negative(v0) = TRUE /\ Negative(v1) = TRUE /\ Negative(Wrap(v0 + v1)) = FALSE
      BY <1>0, <3>1, <3>2 DEF Negative
    <3>. QED BY <2>1, <3>3 DEF Addition
  <2>. QED BY <2>1, <2>2, <2>3
<1>. QED BY <1>1, <1>2

\* The difference of two values is out of range only if their signs differ, and it wraps to
\* the sign the first one has not.
LEMMA SubtractionExact ==
  ASSUME NEW v0 \in Ints, NEW v1 \in Ints
  PROVE  Subtraction(v0, v1) = Checked(v0 - v1)
<1>0. v0 \in Int /\ v1 \in Int /\ Half \in Int /\ Half > 0 /\ -Half <= v0 /\ v0 < Half /\ -Half <= v1 /\ v1 < Half
  BY HalfType, IntsType
<1>1. CASE v0 - v1 \in Ints
  <2>1. Checked(v0 - v1) = Yields(v0 - v1) /\ Wrap(v0 - v1) = v0 - v1
    BY <1>1, NoOverflow
  <2>2. ~(Negative(v0) # Negative(v1) /\ Negative(v0 - v1) # Negative(v0))
    BY <1>0 DEF Negative
  <2>. QED BY <2>1, <2>2 DEF Subtraction
<1>2. CASE v0 - v1 \notin Ints
  <2>1. Checked(v0 - v1) = Throws("OverflowException") /\ (v0 - v1 >= Half \/ v0 - v1 < -Half)
    BY <1>0, <1>2, Overflow
  <2>2. CASE v0 - v1 >= Half
    <3>1. Wrap(v0 - v1) = v0 - v1 - 2 * Half
      BY <1>0, <2>2, WrapOver
    <3>2. v0 >= 0 /\ v1 < 0 /\ v0 - v1 - 2 * Half < 0
      BY <1>0, <2>2
    <3>3. Negative(v0) = FALSE /\ Negative(v1) = TRUE /\ Negative(Wrap(v0 - v1)) = TRUE
      BY <1>0, <3>1, <3>2 DEF Negative
    <3>. QED BY <2>1, <3>3 DEF Subtraction
  <2>3. CASE v0 - v1 < -Half
    <3>1. Wrap(v0 - v1) = v0 - v1 + 2 * Half
      BY <1>0, <2>3, WrapUnder
    <3>2. v0 < 0 /\ v1 >= 0 /\ v0 - v1 + 2 * Half >= 0
      BY <1>0, <2>3
    <3>3. Negative(v0) = TRUE /\ Negative(v1) = FALSE /\ Negative(Wrap(v0 - v1)) = FALSE
      BY <1>0, <3>1, <3>2 DEF Negative
    <3>. QED BY <2>1, <3>3 DEF Subtraction
  <2>. QED BY <2>1, <2>2, <2>3
<1>. QED BY <1>1, <1>2

\* A product that has been wrapped is off by at least 2 * Half, a division by at most Half.
LEMMA DivisionFindsOverflow ==
  ASSUME NEW v0 \in Ints, NEW v1 \in Ints, v0 * v1 \notin Ints
  PROVE  Quotient(Wrap(v0 * v1), v1) # v0
<1>. DEFINE p == v0 * v1  t == Wrap(p)  q == Quotient(t, v1)
<1>0. v0 \in Int /\ v1 \in Int /\ Half \in Int /\ Half > 0 /\ -Half <= v1 /\ v1 < Half
  BY HalfType, IntsType
<1>1. p \in Int /\ p = v0 * v1
  BY <1>0
<1>2. v1 # 0
  <2>1. 0 \in Ints
    BY <1>0 DEF Ints
  <2>2. v1 = 0 => p = 0
    BY <1>0
  <2>. QED BY <2>1, <2>2
<1>3. t \in Ints /\ t \in Int
  BY <1>0, <1>1, WrapInts, IntsType
<1>4. PICK k \in Int : t = p - (2 * Half) * k
  BY <1>0, <1>1, WrapCongruent
<1>5. k # 0
  <2>. SUFFICES ASSUME k = 0 PROVE FALSE
    OBVIOUS
  <2>1. t = p
    BY <1>0, <1>1, <1>4
  <2>. QED BY <1>3, <2>1
<1>6. (2 * Half) * k >= 2 * Half \/ (2 * Half) * k <= -2 * Half
  <2>. DEFINE h == 2 * Half
  <2>1. h \in Int /\ h > 0
    BY <1>0
  <2>. HIDE DEF h
  <2>2. k >= 1 => h * k >= h
    BY <2>1
  <2>3. k <= -1 => h * k <= -h
    BY <2>1
  <2>4. h = 2 * Half
    BY DEF h
  <2>5. k >= 1 \/ k <= -1
    BY <1>5
  <2>. QED BY <1>0, <2>2, <2>3, <2>4, <2>5
<1>. SUFFICES ASSUME q = v0 PROVE FALSE
  OBVIOUS
<1>7. t - q * v1 < Abs(v1) /\ -Abs(v1) < t - q * v1
  <2>. HIDE DEF t
  <2>. QED BY <1>0, <1>2, <1>3, Remainder
<1>8. q * v1 = p
  BY <1>1
<1>9. Abs(v1) <= Half /\ Abs(v1) \in Int
  BY <1>0 DEF Abs
<1>. DEFINE d == (2 * Half) * k
<1>10. d \in Int /\ t = p - d /\ (d >= 2 * Half \/ d <= -2 * Half)
  BY <1>0, <1>4, <1>6
<1>. HIDE DEF d, p, t, q
<1>. QED BY <1>0, <1>1, <1>3, <1>7, <1>8, <1>9, <1>10

\* The division undoes a product that has not been wrapped.
LEMMA DivisionUndoes ==
  ASSUME NEW v0 \in Int, NEW v1 \in Int, v1 # 0
  PROVE  Quotient(v0 * v1, v1) = v0
<1>. DEFINE p == v0 * v1  q == Quotient(p, v1)  k == v0 - q
<1>1. p \in Int /\ q \in Int /\ p - q * v1 < Abs(v1) /\ -Abs(v1) < p - q * v1
  BY Remainder
<1>2. k \in Int /\ p - q * v1 = k * v1
  <2>1. q \in Int
    BY <1>1
  <2>. HIDE DEF q
  <2>. QED BY <2>1
<1>3. k * v1 < Abs(v1) /\ -Abs(v1) < k * v1
  <2>. HIDE DEF p, q, k
  <2>. QED BY <1>1, <1>2
<1>4. k = 0
  <2>. HIDE DEF k
  <2>1. k * v1 \in Int
    BY <1>2
  <2>2. v1 > 0 => (k >= 1 => k * v1 >= v1) /\ (k <= -1 => k * v1 <= -v1)
    BY <1>2
  <2>3. v1 < 0 => (k >= 1 => k * v1 <= v1) /\ (k <= -1 => k * v1 >= -v1)
    BY <1>2
  <2>. QED BY <1>2, <1>3, <2>1, <2>2, <2>3 DEF Abs
<1>5. q = v0
  <2>. HIDE DEF q
  <2>. QED BY <1>1, <1>4
<1>. QED BY <1>5

LEMMA MultiplicationExact ==
  ASSUME NEW v0 \in Ints, NEW v1 \in Ints
  PROVE  ProductsExact(v0, v1)
<1>. DEFINE p == v0 * v1  t == Wrap(p)
<1>0. v0 \in Int /\ v1 \in Int /\ Half \in Int /\ Half > 0 /\ -Half <= v0 /\ v0 < Half /\ p \in Int
  BY HalfType, IntsType
<1>1. v1 = -1 => p = -v0
  BY <1>0
<1>2. CASE p \in Ints
  <2>1. Checked(p) = Yields(p) /\ t = p
    BY <1>2, NoOverflow
  <2>2. ~Traps(v0, v1) /\ ~Traps(p, v1)
    BY <1>0, <1>1, <1>2, IntsType DEF Traps
  <2>3. v1 # 0 => Quotient(p, v1) = v0
    BY <1>0, DivisionUndoes
  <2>4. Multiplication(v0, v1, FALSE) = Yields(p) /\ Multiplication(v0, v1, TRUE) = Yields(p)
    BY <2>1, <2>2, <2>3 DEF Multiplication
  <2>. QED BY <1>2, <2>1, <2>2, <2>4 DEF ProductsExact
<1>3. CASE p \notin Ints
  <2>1. Checked(p) = Throws("OverflowException")
    BY <1>0, <1>3, Overflow
  <2>2. v1 # 0
    <3>1. 0 \in Ints
      BY <1>0 DEF Ints
    <3>2. v1 = 0 => p = 0
      BY <1>0
    <3>. QED BY <1>3, <3>1, <3>2
  <2>3. Multiplication(v0, v1, TRUE) # Checked(p)
    <3>1. Multiplication(v0, v1, TRUE) = Yields(t)
      BY DEF Multiplication
    <3>2. Yields(t).ex # Throws("OverflowException").ex
      BY DEF Yields, Throws
    <3>. HIDE DEF t, p
    <3>. QED BY <2>1, <3>1, <3>2
  <2>4. CASE Traps(v0, v1)
    <3>1. p = Half
      BY <1>0, <1>1, <2>4 DEF Traps
    <3>2. t = -Half
      BY <1>0, <3>1, WrapOver
    <3>3. Multiplication(v0, v1, FALSE) = Throws("trap")
      BY <2>2, <2>4, <3>2 DEF Multiplication, Traps
    <3>. QED BY <1>3, <2>3, <2>4, <3>3 DEF ProductsExact
  <2>5. CASE ~Traps(v0, v1)
    <3>1. v1 # -1
      BY <1>0, <1>1, <1>3, <2>5 DEF Ints, Traps
    <3>2. Quotient(t, v1) # v0
      BY <1>3, DivisionFindsOverflow
    <3>3. Multiplication(v0, v1, FALSE) = Throws("OverflowException")
      BY <2>2, <3>1, <3>2 DEF Multiplication, Traps
    <3>. QED BY <1>3, <2>1, <2>3, <2>5, <3>3 DEF ProductsExact
  <2>. QED BY <2>4, <2>5
<1>. QED BY <1>2, <1>3

LEMMA SignsExact ==
  ASSUME NEW v0 \in Ints
  PROVE  /\ UnaryMinus(v0) = Checked(-v0)
         /\ Increment(v0) = Checked(v0 + 1) /\ Decrement(v0) = Checked(v0 - 1)
<1>0. v0 \in Int /\ Half \in Int /\ Half > 0 /\ -Half <= v0 /\ v0 < Half
  BY HalfType, IntsType
<1>1. UnaryMinus(v0) = Checked(-v0)
  BY <1>0 DEF UnaryMinus, Checked, Ints
<1>2. Increment(v0) = Checked(v0 + 1)
  BY <1>0 DEF Increment, Checked, Ints
<1>3. Decrement(v0) = Checked(v0 - 1)
  BY <1>0 DEF Decrement, Checked, Ints
<1>. QED BY <1>1, <1>2, <1>3

(***************************************************************************)
(* Division towards zero: the quotient is no larger than the dividend, and *)
(* what is left has its sign.                                              *)
(***************************************************************************)
LEMMA QuotientBetween ==
  ASSUME NEW a \in Int, NEW b \in Int, b > 0
  PROVE  LET q == Quotient(a, b)  r == a - q * b
         IN  /\ q \in Int /\ r \in Int
             /\ a >= 0 => 0 <= r /\ r < b /\ 0 <= q /\ q <= a /\ (b > 1 => 2 * q <= a)
             /\ a < 0 => -b < r /\ r <= 0 /\ a <= q /\ q <= 0 /\ (b > 1 => a <= 2 * q)
<1>. DEFINE q == Quotient(a, b)  s == q * b
<1>1. q \in Int /\ s \in Int /\ (a >= 0 => s <= a /\ a < s + b) /\ (a < 0 => s >= a /\ a > s - b)
  BY QuotientOfPositive, QuotientOfNegative
<1>. HIDE DEF q
<1>2. (q >= 1 => s >= b /\ s >= q) /\ (q <= -1 => s <= -b /\ s <= q)
  BY <1>1
<1>3. b > 1 => (q >= 1 => s >= 2 * q) /\ (q <= -1 => s <= 2 * q)
  BY <1>1
<1>4. q = 0 => s = 0
  BY <1>1
<1>. HIDE DEF s
<1>5. q >= 1 \/ q <= -1 \/ q = 0
  BY <1>1
<1>6. ASSUME a >= 0
      PROVE  a - s >= 0 /\ a - s < b /\ 0 <= q /\ q <= a /\ (b > 1 => 2 * q <= a)
  BY <1>1, <1>2, <1>3, <1>4, <1>5, <1>6
<1>7. ASSUME a < 0
      PROVE  -b < a - s /\ a - s <= 0 /\ a <= q /\ q <= 0 /\ (b > 1 => a <= 2 * q)
  BY <1>1, <1>2, <1>3, <1>4, <1>5, <1>7
<1>8. a - s \in Int
  BY <1>1
<1>. QED BY <1>1, <1>6, <1>7, <1>8 DEF q, s

LEMMA DivisionExact ==
  ASSUME NEW v0 \in Ints, NEW v1 \in Ints
  PROVE  DividesExactly(v0, v1)
<1>0. v0 \in Int /\ v1 \in Int /\ Half \in Int /\ Half > 0 /\ -Half <= v0 /\ v0 < Half
  BY HalfType, IntsType
<1>1. CASE v1 = 0
  BY <1>1 DEF DividesExactly, Division, Modulus
<1>2. CASE v1 # 0 /\ Traps(v0, v1)
  BY <1>2 DEF DividesExactly, Division, Modulus
<1>3. CASE v1 # 0 /\ ~Traps(v0, v1)
  <2>. DEFINE q == Quotient(v0, v1)  s == v1 * q  m == v0 - s
  <2>1. Division(v0, v1) = Yields(q) /\ Modulus(v0, v1) = Yields(m)
    BY <1>3 DEF Division, Modulus
  <2>. DEFINE b == Abs(v1)  k == Quotient(v0, b)  r == v0 - k * b
  <2>2. b \in Int /\ b > 0 /\ (v1 > 0 => b = v1) /\ (v1 < 0 => b = -v1)
    BY <1>0, <1>3 DEF Abs
  <2>3. /\ k \in Int /\ r \in Int
        /\ v0 >= 0 => 0 <= r /\ r < b /\ 0 <= k /\ k <= v0 /\ (b > 1 => 2 * k <= v0)
        /\ v0 < 0 => -b < r /\ r <= 0 /\ v0 <= k /\ k <= 0 /\ (b > 1 => v0 <= 2 * k)
    <3>. HIDE DEF b
    <3>. QED BY <1>0, <2>2, QuotientBetween
  <2>4. q = IF v1 > 0 THEN k ELSE -k
    <3>1. CASE v1 > 0
      BY <2>2, <3>1
    <3>2. CASE v1 < 0
      BY <1>0, <2>2, <3>2, QuotientByNegative
    <3>. QED BY <1>0, <1>3, <3>1, <3>2
  <2>5. s = k * b
    <3>. HIDE DEF b, k, q
    <3>1. CASE v1 > 0
      <4>1. b = v1 /\ q = k
        BY <2>2, <2>4, <3>1
      <4>. QED BY <1>0, <2>3, <4>1
    <3>2. CASE v1 < 0
      <4>1. b = -v1 /\ q = -k
        BY <1>0, <2>2, <2>4, <3>2
      <4>2. v1 * (-k) = k * (-v1)
        BY <1>0, <2>3
      <4>. QED BY <4>1, <4>2
    <3>. QED BY <1>0, <1>3, <3>1, <3>2
  <2>6. m = r /\ q \in Int /\ s \in Int
    <3>1. k * b \in Int
      BY <2>2, <2>3
    <3>. QED BY <2>3, <2>4, <2>5, <3>1
  <2>7. q \in Ints
    <3>1. v0 = -Half /\ v1 < 0 => b > 1
      BY <1>0, <1>3, <2>2 DEF Traps
    <3>. HIDE DEF b, k, q, r
    <3>. QED BY <1>0, <1>3, <2>2, <2>3, <2>4, <3>1 DEF Ints
  <2>8. v0 = q * v1 + m
    <3>1. q * v1 = s
      BY <1>0, <2>6
    <3>2. v0 = s + (v0 - s)
      BY <1>0, <2>6
    <3>. QED BY <3>1, <3>2
  <2>9. m \in Int /\ Abs(m) < Abs(v1) /\ m * v0 >= 0
    <3>1. Abs(r) < b
      <4>. HIDE DEF b, r, k
      <4>. QED BY <1>0, <2>2, <2>3 DEF Abs
    <3>2. r * v0 >= 0
      <4>. HIDE DEF b, r, k
      <4>1. \A x, y \in Int : (x >= 0 /\ y >= 0) \/ (x <= 0 /\ y <= 0) => x * y >= 0
        OBVIOUS
      <4>. QED BY <1>0, <2>3, <4>1
    <3>. QED BY <2>3, <2>6, <3>1, <3>2
  <2>10. \A v : Yields(v).v = v
    BY DEF Yields
  <2>. HIDE DEF q, m
  <2>. QED BY <1>3, <2>1, <2>7, <2>8, <2>9, <2>10 DEF DividesExactly
<1>. QED BY <1>1, <1>2, <1>3

LEMMA PowerExact ==
  ASSUME NEW v0 \in Ints, NEW v1 \in Ints
  PROVE  PowersExact(v0, v1)
<1>1. ASSUME ~(v1 < 0 \/ v1 > 256), Power(v0, v1) \in Ints
      PROVE  Exponent(v0, v1) = Checked(Power(v0, v1))
  BY <1>1, NoOverflow DEF Exponent
<1>. QED BY <1>1 DEF PowersExact, Exponent, Yields

(***************************************************************************)
(* For every width: addition, subtraction, the sign and the steps by one   *)
(* yield the exact value or throw OverflowException (the tests of signs in *)
(* standardBinaryOperator()).  So does a multiplication whose test is      *)
(* compiled, unless it traps; one whose test is folded away is exact just  *)
(* where the product is in range.  Division rounds towards zero.           *)
(***************************************************************************)
THEOREM ExactArithmetic ==
  ASSUME NEW v0 \in Ints, NEW v1 \in Ints
  PROVE  ExactOrOverflow(v0, v1) /\ ProductsExact(v0, v1) /\ DividesExactly(v0, v1)
BY AdditionExact, SubtractionExact, SignsExact, MultiplicationExact, DivisionExact DEF ExactOrOverflow

(***************************************************************************)
(* divisionFloor() and divisionCeiling(): first with a positive divisor,   *)
(* where what they add to the dividend does not overflow.                  *)
(***************************************************************************)
FloorOf(a, b) == IF a >= 0 THEN Quotient(a, b) ELSE Quotient(Wrap(a - Wrap(b - 1)), b)
CeilingOf(a, b) == IF a >= 0 THEN Quotient(Wrap(a + Wrap(b - 1)), b) ELSE Quotient(a, b)

LEMMA FloorOfPositive ==
  ASSUME NEW a \in Int, NEW b \in Ints, b > 0, a < 0 => a - (b - 1) \in Ints
  PROVE  /\ FloorOf(a, b) \in Int
         /\ FloorOf(a, b) * b <= a /\ a < FloorOf(a, b) * b + b
<1>0. b \in Int /\ Half \in Int /\ Half > 0 /\ b - 1 \in Ints
  BY HalfType, IntsType DEF Ints
<1>1. CASE a >= 0
  BY <1>0, <1>1, QuotientOfPositive DEF FloorOf
<1>2. CASE a < 0
  <2>1. a - (b - 1) \in Ints /\ a - (b - 1) \in Int /\ a - (b - 1) < 0
    BY <1>0, <1>2
  <2>. DEFINE m == a - (b - 1)
  <2>2. FloorOf(a, b) = Quotient(m, b)
    BY <1>0, <1>2, <2>1, WrapExact DEF FloorOf
  <2>. DEFINE q == Quotient(m, b)
  <2>3. q \in Int /\ q * b >= m /\ m > q * b - b
    BY <1>0, <2>1, QuotientOfNegative
  <2>4. q * b \in Int
    BY <1>0, <2>3
  <2>. HIDE DEF q
  <2>. QED BY <1>0, <2>2, <2>3, <2>4 DEF q
<1>. QED BY <1>1, <1>2

LEMMA CeilingOfPositive ==
  ASSUME NEW a \in Int, NEW b \in Ints, b > 0, a >= 0 => a + (b - 1) \in Ints
  PROVE  /\ CeilingOf(a, b) \in Int
         /\ CeilingOf(a, b) * b >= a /\ a > CeilingOf(a, b) * b - b
<1>0. b \in Int /\ Half \in Int /\ Half > 0 /\ b - 1 \in Ints
  BY HalfType, IntsType DEF Ints
<1>1. CASE a < 0
  BY <1>0, <1>1, QuotientOfNegative DEF CeilingOf
<1>2. CASE a >= 0
  <2>1. a + (b - 1) \in Ints /\ a + (b - 1) \in Int /\ a + (b - 1) >= 0
    BY <1>0, <1>2
  <2>. DEFINE m == a + (b - 1)
  <2>2. CeilingOf(a, b) = Quotient(m, b)
    BY <1>0, <1>2, <2>1, WrapExact DEF CeilingOf
  <2>. DEFINE q == Quotient(m, b)
  <2>3. q \in Int /\ q * b <= m /\ m < q * b + b
    BY <1>0, <2>1, QuotientOfPositive
  <2>4. q * b \in Int
    BY <1>0, <2>3
  <2>. HIDE DEF q
  <2>. QED BY <1>0, <2>2, <2>3, <2>4 DEF q
<1>. QED BY <1>1, <1>2

\* What is left by a quotient next to v / d is in range; that the product is wrapped before it
\* is subtracted does no harm, as the difference is wrapped, too.
LEMMA ModulusExact ==
  ASSUME NEW v \in Ints, NEW d \in Ints, NEW q \in Int, d # 0,
         v - q * d < Abs(d), -Abs(d) < v - q * d
  PROVE  Wrap(v - Wrap(q * d)) = v - q * d
<1>. DEFINE p == q * d
<1>0. v \in Int /\ d \in Int /\ Half \in Int /\ Half > 0 /\ -Half <= d /\ d < Half /\ -Half <= v /\ v < Half
  BY HalfType, IntsType
<1>1. p \in Int
  BY <1>0
<1>2. v - p < Half /\ -Half < v - p
  <2>1. v - p < Abs(d) /\ -Abs(d) < v - p /\ Abs(d) <= Half /\ Abs(d) \in Int
    BY <1>0 DEF Abs
  <2>. HIDE DEF p
  <2>. QED BY <1>0, <1>1, <2>1
<1>. HIDE DEF p
<1>3. v - p \in Ints
  BY <1>0, <1>1, <1>2 DEF Ints
<1>4. CASE p \in Ints
  BY <1>3, <1>4, WrapExact DEF p
<1>5. CASE p >= Half
  <2>1. Wrap(p) = p - 2 * Half
    BY <1>0, <1>1, <1>2, <1>5, WrapOver
  <2>2. v - Wrap(p) = v - p + 2 * Half
    BY <1>0, <1>1, <2>1
  <2>3. Wrap(v - p + 2 * Half) = v - p
    BY <1>0, <1>1, <1>2, WrapOver
  <2>. QED BY <2>2, <2>3 DEF p
<1>6. CASE p < -Half
  <2>1. Wrap(p) = p + 2 * Half
    BY <1>0, <1>1, <1>2, <1>6, WrapUnder
  <2>2. v - Wrap(p) = v - p - 2 * Half
    BY <1>0, <1>1, <2>1
  <2>3. Wrap(v - p - 2 * Half) = v - p
    BY <1>0, <1>1, <1>2, WrapUnder
  <2>. QED BY <2>2, <2>3 DEF p
<1>. QED BY <1>0, <1>1, <1>4, <1>5, <1>6 DEF Ints

LEMMA Scaled ==
  ASSUME NEW v0 \in Ints, NEW v1 \in Ints, v1 # 0, ~OpposedOutOfRange(v0, v1)
  PROVE  LET a == Dividend(v0, v1)
             b == Abs(v1)
         IN  /\ a \in Int /\ b \in Ints /\ b > 0
             /\ Floor(v0, v1) = FloorOf(a, b) /\ Ceiling(v0, v1) = CeilingOf(a, b)
<1>0. v0 \in Int /\ v1 \in Int /\ Half \in Int
  BY HalfType, IntsType
<1>1. Dividend(v0, v1) \in Ints /\ Abs(v1) \in Ints
  BY DEF OpposedOutOfRange
<1>2. Dividend(v0, v1) \in Int /\ Abs(v1) > 0
  <2>1. Abs(v1) > 0
    BY <1>0 DEF Abs
  <2>2. Dividend(v0, v1) \in Int
    BY <1>1, IntsType
  <2>. QED BY <2>1, <2>2
<1>3. CASE v1 > 0
  <2>1. ~(v1 < 0) /\ Dividend(v0, v1) = v0 /\ Abs(v1) = v1
    BY <1>0, <1>3 DEF Dividend, Abs
  <2>2. Floor(v0, v1) = FloorOf(v0, v1) /\ Ceiling(v0, v1) = CeilingOf(v0, v1)
    BY <2>1 DEF Floor, Ceiling, FloorOf, CeilingOf
  <2>. QED BY <1>1, <1>2, <2>1, <2>2
<1>4. CASE v1 < 0
  <2>1. Dividend(v0, v1) = -v0 /\ Abs(v1) = -v1
    BY <1>4 DEF Dividend, Abs
  <2>2. Wrap(-v0) = -v0 /\ Wrap(-v1) = -v1
    BY <1>1, <2>1, WrapExact
  <2>3. Floor(v0, v1) = FloorOf(-v0, -v1) /\ Ceiling(v0, v1) = CeilingOf(-v0, -v1)
    BY <1>4, <2>2 DEF Floor, Ceiling, FloorOf, CeilingOf
  <2>. QED BY <1>1, <1>2, <2>1, <2>3
<1>. QED BY <1>0, <1>3, <1>4

\* What is left by the division that rounds down has the sign of the divisor, by the one that
\* rounds up the other sign.
LEMMA FloorLeaves ==
  ASSUME NEW v0 \in Ints, NEW v1 \in Ints, v1 # 0, ~FloorOverflows(v0, v1)
  PROVE  LET r == v0 - Floor(v0, v1) * v1
         IN  /\ Floor(v0, v1) \in Int /\ r \in Int
             /\ v1 > 0 => 0 <= r /\ r < v1
             /\ v1 < 0 => v1 < r /\ r <= 0
<1>0. v0 \in Int /\ v1 \in Int
  BY IntsType
<1>. DEFINE a == Dividend(v0, v1)  b == Abs(v1)  f == Floor(v0, v1)
<1>1. ~OpposedOutOfRange(v0, v1) /\ (a < 0 => a - (b - 1) \in Ints)
  BY DEF FloorOverflows
<1>2. a \in Int /\ b \in Ints /\ b > 0 /\ f = FloorOf(a, b)
  BY <1>1, Scaled
<1>3. f \in Int /\ f * b <= a /\ a < f * b + b
  <2>. HIDE DEF a, b, f
  <2>. QED BY <1>1, <1>2, FloorOfPositive
<1>4. (v1 > 0 => a = v0 /\ b = v1) /\ (v1 < 0 => a = -v0 /\ b = -v1)
  BY <1>0 DEF Dividend, Abs
<1>. HIDE DEF a, b, f
<1>5. f * v1 \in Int /\ f * (-v1) = -(f * v1)
  BY <1>0, <1>3
<1>6. (v1 > 0 => f * b = f * v1) /\ (v1 < 0 => f * b = -(f * v1))
  BY <1>4, <1>5
<1>. QED BY <1>0, <1>3, <1>4, <1>5, <1>6 DEF f

LEMMA CeilingLeaves ==
  ASSUME NEW v0 \in Ints, NEW v1 \in Ints, v1 # 0, ~CeilingOverflows(v0, v1)
  PROVE  LET r == v0 - Ceiling(v0, v1) * v1
         IN  /\ Ceiling(v0, v1) \in Int /\ r \in Int
             /\ v1 > 0 => -v1 < r /\ r <= 0
             /\ v1 < 0 => 0 <= r /\ r < -v1
<1>0. v0 \in Int /\ v1 \in Int
  BY IntsType
<1>. DEFINE a == Dividend(v0, v1)  b == Abs(v1)  c == Ceiling(v0, v1)
<1>1. ~OpposedOutOfRange(v0, v1) /\ (a >= 0 => a + (b - 1) \in Ints)
  BY DEF CeilingOverflows
<1>2. a \in Int /\ b \in Ints /\ b > 0 /\ c = CeilingOf(a, b)
  BY <1>1, Scaled
<1>3. c \in Int /\ c * b >= a /\ a > c * b - b
  <2>. HIDE DEF a, b, c
  <2>. QED BY <1>1, <1>2, CeilingOfPositive
<1>4. (v1 > 0 => a = v0 /\ b = v1) /\ (v1 < 0 => a = -v0 /\ b = -v1)
  BY <1>0 DEF Dividend, Abs
<1>. HIDE DEF a, b, c
<1>5. c * v1 \in Int /\ c * (-v1) = -(c * v1)
  BY <1>0, <1>3
<1>6. (v1 > 0 => c * b = c * v1) /\ (v1 < 0 => c * b = -(c * v1))
  BY <1>4, <1>5
<1>. QED BY <1>0, <1>3, <1>4, <1>5, <1>6 DEF c

(***************************************************************************)
(* For every width: unless the dividend cannot be moved by the divisor     *)
(* within the width, divisionFloor() rounds down and divisionCeiling() up, *)
(* and the modulus of each is what its division leaves.                    *)
(***************************************************************************)
THEOREM ExactRounding ==
  ASSUME NEW v0 \in Ints, NEW v1 \in Ints
  PROVE  /\ FloorOverflows(v0, v1) \/ RoundsDown(v0, v1)
         /\ CeilingOverflows(v0, v1) \/ RoundsUp(v0, v1)
<1>0. v0 \in Int /\ v1 \in Int
  BY IntsType
<1>1. \A v : Yields(v).v = v
  BY DEF Yields
<1>2. CASE v1 = 0
  BY <1>2 DEF RoundsDown, RoundsUp, Rounding, RoundingModulus
<1>3. ASSUME v1 # 0, ~FloorOverflows(v0, v1)
      PROVE  RoundsDown(v0, v1)
  <2>. DEFINE f == Floor(v0, v1)  r == v0 - f * v1
  <2>1. f \in Int /\ r \in Int /\ (v1 > 0 => 0 <= r /\ r < v1) /\ (v1 < 0 => v1 < r /\ r <= 0)
    BY <1>3, FloorLeaves
  <2>2. r < Abs(v1) /\ -Abs(v1) < r
    BY <1>0, <1>3, <2>1 DEF Abs
  <2>3. Wrap(v0 - Wrap(f * v1)) = r
    BY <1>3, <2>1, <2>2, ModulusExact
  <2>4. Rounding(Floor, v0, v1) = Yields(f) /\ RoundingModulus(Floor, v0, v1) = Yields(r)
    BY <1>3, <2>3 DEF Rounding, RoundingModulus
  <2>5. IF v1 > 0 THEN 0 <= r /\ r < v1 ELSE v1 < r /\ r <= 0
    BY <1>0, <1>3, <2>1
  <2>. QED BY <1>1, <1>3, <2>4, <2>5 DEF RoundsDown
<1>4. ASSUME v1 # 0, ~CeilingOverflows(v0, v1)
      PROVE  RoundsUp(v0, v1)
  <2>. DEFINE c == Ceiling(v0, v1)  r == v0 - c * v1
  <2>1. c \in Int /\ r \in Int /\ (v1 > 0 => -v1 < r /\ r <= 0) /\ (v1 < 0 => 0 <= r /\ r < -v1)
    BY <1>4, CeilingLeaves
  <2>2. r < Abs(v1) /\ -Abs(v1) < r
    BY <1>0, <1>4, <2>1 DEF Abs
  <2>3. Wrap(v0 - Wrap(c * v1)) = r
    BY <1>4, <2>1, <2>2, ModulusExact
  <2>4. Rounding(Ceiling, v0, v1) = Yields(c) /\ RoundingModulus(Ceiling, v0, v1) = Yields(r)
    BY <1>4, <2>3 DEF Rounding, RoundingModulus
  <2>5. IF v1 > 0 THEN -v1 < r /\ r <= 0 ELSE 0 <= r /\ r < -v1
    BY <1>0, <1>4, <2>1
  <2>. QED BY <1>1, <1>4, <2>4, <2>5 DEF RoundsUp
<1>. QED BY <1>2, <1>3, <1>4

(***************************************************************************)
(* Whatever operands an arithmetic operator on Int is given, in whatever   *)
(* width, it yields the exact value or throws, but for the operands that   *)
(* ArithmeticExact names: those of standardBinaryOperator() whose products *)
(* are out of range where the check is folded away, whose quotient traps,  *)
(* whose power is out of range, and those divisionFloor() and              *)
(* divisionCeiling() move out of the width.                                *)
(***************************************************************************)
THEOREM ArithmeticAlwaysExact == Calculations => [](values # <<>> => ArithmeticExact(values[1], values[2]))
<1>. DEFINE Operands == values = <<>> \/ \E v0, v1 \in Ints : values = <<v0, v1>>
            Exact == values # <<>> => ArithmeticExact(values[1], values[2])
<1>1. Empty => Operands
  BY DEF Empty
<1>2. Operands /\ [Calculate]_values => Operands'
  BY DEF Calculate
<1>3. Operands => Exact
  <2>1. SUFFICES ASSUME NEW v0 \in Ints, NEW v1 \in Ints, values = <<v0, v1>>
                 PROVE  ArithmeticExact(v0, v1)
    OBVIOUS
  <2>. QED BY ExactArithmetic, ExactRounding, PowerExact DEF ArithmeticExact
<1>. HIDE DEF Operands, Exact
<1>4. Calculations => []Exact
  BY <1>1, <1>2, <1>3, PTL DEF Calculations
<1>. QED BY <1>4 DEF Exact
==============================================================================
