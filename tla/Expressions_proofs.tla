-------------------------- MODULE Expressions_proofs --------------------------
(***************************************************************************)
(* The two stacks of an expression fit together, whatever the expression is*)
(* (resumeExpression() of chatra_core/Thread.cpp): each entry of stack has *)
(* on values what its phase has been given, the entries above it leave what*)
(* it waits for, and the tuples under way are where subStack says.  It     *)
(* follows that an operator finds its operands, and finds them locked.     *)
(*                                                                         *)
(* Both hold until an assignment to a tuple leaves something on values     *)
(* that belongs to no node, which relocked and littered record.            *)
(***************************************************************************)
EXTENDS Expressions, SequenceTheorems, TLAPS

(***************************************************************************)
(* Sequences of anything: frames have nodes and temporaries of many kinds. *)
(***************************************************************************)
IsSeq(s) == \E S : s \in Seq(S)

LEMMA SeqFacts ==
  ASSUME NEW s, IsSeq(s)
  PROVE  /\ Len(s) \in Nat
         /\ s # <<>> => Len(s) >= 1
         /\ s = <<>> <=> Len(s) = 0
<1>1. PICK S : s \in Seq(S)
  BY DEF IsSeq
<1>. QED BY <1>1

LEMMA AppendFacts ==
  ASSUME NEW s, IsSeq(s), NEW x
  PROVE  /\ IsSeq(Append(s, x)) /\ Len(Append(s, x)) = Len(s) + 1
         /\ \A i \in 1..Len(s) : Append(s, x)[i] = s[i]
         /\ Append(s, x)[Len(s) + 1] = x
         /\ Append(s, x) # <<>>
<1>1. PICK S : s \in Seq(S)
  BY DEF IsSeq
<1>. DEFINE T == S \cup {x}
<1>2. s \in Seq(T) /\ x \in T
  BY <1>1, SeqMonotonic
<1>. HIDE DEF T
<1>3. Append(s, x) \in Seq(T) /\ Len(Append(s, x)) = Len(s) + 1 /\ Len(s) \in Nat
  BY <1>2
<1>4. /\ \A i \in 1..Len(s) : Append(s, x)[i] = s[i]
      /\ Append(s, x)[Len(s) + 1] = x
  BY <1>2
<1>. QED BY <1>3, <1>4 DEF IsSeq

LEMMA PrefixFacts ==
  ASSUME NEW s, IsSeq(s), NEW n \in 0..Len(s)
  PROVE  /\ IsSeq(SubSeq(s, 1, n)) /\ Len(SubSeq(s, 1, n)) = n
         /\ \A i \in 1..n : SubSeq(s, 1, n)[i] = s[i]
<1>1. PICK S : s \in Seq(S)
  BY DEF IsSeq
<1>2. \A i \in 1..n : s[i] \in S
  BY <1>1
<1>3. SubSeq(s, 1, n) \in Seq(S)
  BY <1>1, <1>2
<1>4. Len(SubSeq(s, 1, n)) = n /\ \A i \in 1..n : SubSeq(s, 1, n)[i] = s[i]
  BY <1>1
<1>. QED BY <1>3, <1>4 DEF IsSeq

LEMMA ExceptFacts ==
  ASSUME NEW s, IsSeq(s), NEW n \in 1..Len(s), NEW x
  PROVE  /\ IsSeq([s EXCEPT ![n] = x]) /\ Len([s EXCEPT ![n] = x]) = Len(s)
         /\ \A i \in 1..Len(s) : [s EXCEPT ![n] = x][i] = IF i = n THEN x ELSE s[i]
<1>1. PICK S : s \in Seq(S)
  BY DEF IsSeq
<1>. DEFINE T == S \cup {x}
<1>2. s \in Seq(T) /\ x \in T
  BY <1>1, SeqMonotonic
<1>. HIDE DEF T
<1>3. [s EXCEPT ![n] = x] \in Seq(T)
  BY <1>2
<1>4. /\ Len([s EXCEPT ![n] = x]) = Len(s)
      /\ \A i \in 1..Len(s) : [s EXCEPT ![n] = x][i] = IF i = n THEN x ELSE s[i]
  BY <1>2
<1>. QED BY <1>3, <1>4 DEF IsSeq

LEMMA ConcatFacts ==
  ASSUME NEW s, IsSeq(s), NEW t, IsSeq(t)
  PROVE  /\ IsSeq(s \o t) /\ Len(s \o t) = Len(s) + Len(t)
         /\ \A i \in 1..Len(s) : (s \o t)[i] = s[i]
         /\ \A i \in 1..Len(t) : (s \o t)[Len(s) + i] = t[i]
<1>1. PICK S : s \in Seq(S)
  BY DEF IsSeq
<1>2. PICK T : t \in Seq(T)
  BY DEF IsSeq
<1>. DEFINE U == S \cup T
<1>3. s \in Seq(U) /\ t \in Seq(U)
  BY <1>1, <1>2, SeqMonotonic
<1>. HIDE DEF U
<1>4. s \o t \in Seq(U) /\ Len(s \o t) = Len(s) + Len(t)
  BY <1>3
<1>5. /\ \A i \in 1..Len(s) : (s \o t)[i] = s[i]
      /\ \A i \in 1..Len(t) : (s \o t)[Len(s) + i] = t[i]
  BY <1>3
<1>. QED BY <1>4, <1>5 DEF IsSeq

LEMMA SameSeq ==
  ASSUME NEW s, IsSeq(s), NEW t, IsSeq(t), Len(s) = Len(t), \A i \in 1..Len(s) : s[i] = t[i]
  PROVE  s = t
<1>1. PICK S : s \in Seq(S)
  BY DEF IsSeq
<1>2. PICK T : t \in Seq(T)
  BY DEF IsSeq
<1>3. s \in Seq(S \cup T) /\ t \in Seq(S \cup T)
  BY <1>1, <1>2, SeqMonotonic
<1>. QED BY <1>3, SeqEqual

LEMMA ShortSeqs ==
  ASSUME NEW x, NEW y, NEW z
  PROVE  /\ IsSeq(<<>>) /\ Len(<<>>) = 0
         /\ IsSeq(<<x>>) /\ Len(<<x>>) = 1 /\ <<x>>[1] = x
         /\ IsSeq(<<x, y>>) /\ Len(<<x, y>>) = 2 /\ <<x, y>>[1] = x /\ <<x, y>>[2] = y
<1>1. <<>> \in Seq({x}) /\ <<x>> \in Seq({x}) /\ <<x, y>> \in Seq({x, y})
  OBVIOUS
<1>. QED BY <1>1 DEF IsSeq

\* Several operations on the top are one on the rest.
LEMMA TopFacts ==
  ASSUME NEW s, IsSeq(s), s # <<>>, NEW x
  PROVE  LET L == Len(s)  r == SubSeq(s, 1, L - 1)
         IN  /\ L \in Nat /\ L >= 1 /\ IsSeq(r) /\ Len(r) = L - 1
             /\ \A i \in 1..L - 1 : r[i] = s[i]
             /\ s = Append(r, s[L])
             /\ [s EXCEPT ![L] = x] = Append(r, x)
<1>. DEFINE L == Len(s)  r == SubSeq(s, 1, L - 1)
<1>1. L \in Nat /\ L >= 1 /\ L - 1 \in 0..L /\ L \in 1..L
  BY SeqFacts
<1>2. IsSeq(r) /\ Len(r) = L - 1 /\ \A i \in 1..L - 1 : r[i] = s[i]
  BY <1>1, PrefixFacts
<1>. HIDE DEF r
<1>3. \A y : IsSeq(Append(r, y)) /\ Len(Append(r, y)) = L /\ \A i \in 1..L : Append(r, y)[i] = IF i = L THEN y ELSE s[i]
  <2>. SUFFICES ASSUME NEW y
                PROVE  IsSeq(Append(r, y)) /\ Len(Append(r, y)) = L /\ \A i \in 1..L : Append(r, y)[i] = IF i = L THEN y ELSE s[i]
    OBVIOUS
  <2>1. /\ IsSeq(Append(r, y)) /\ Len(Append(r, y)) = Len(r) + 1
        /\ \A i \in 1..Len(r) : Append(r, y)[i] = r[i]
        /\ Append(r, y)[Len(r) + 1] = y
    BY <1>2, AppendFacts
  <2>. HIDE DEF L
  <2>. QED BY <1>1, <1>2, <2>1
<1>4. s = Append(r, s[L])
  BY <1>3, SameSeq
<1>5. IsSeq([s EXCEPT ![L] = x]) /\ Len([s EXCEPT ![L] = x]) = L
      /\ \A i \in 1..L : [s EXCEPT ![L] = x][i] = IF i = L THEN x ELSE s[i]
  BY <1>1, ExceptFacts
<1>6. [s EXCEPT ![L] = x] = Append(r, x)
  <2>. DEFINE t == [s EXCEPT ![L] = x]  u == Append(r, x)
  <2>1. /\ IsSeq(t) /\ IsSeq(u) /\ Len(t) = L /\ Len(u) = L
        /\ \A i \in 1..L : t[i] = u[i]
    BY <1>3, <1>5
  <2>. HIDE DEF t, u, L
  <2>2. t = u
    BY <2>1, SameSeq
  <2>. QED BY <2>2 DEF t, u
<1>. QED BY <1>1, <1>2, <1>4, <1>6 DEF r

(***************************************************************************)
(* Temporaries that are well formed: the parts of a tuple are, in turn.    *)
(***************************************************************************)
Value == Primitive \cup {TupleOf(es) : es \in Seq(Primitive)}

IsArguments(t) == \E es \in Seq(Primitive) : t = Rvalue(TupleOf(es))
IsVariable(t) == \E n \in Name : t = RefTemp(n)
IsMethod(t) == \E n \in Function : t = [kind |-> "method", name |-> n, args |-> TRUE]

IsRvalue(t) == \E v \in Value, b \in BOOLEAN : t = [kind |-> "rvalue", v |-> v, args |-> b]
IsNamed(t) ==
  \E k \in {"name", "ref"}, n \in Name, b \in BOOLEAN : t = [kind |-> k, name |-> n, args |-> b]
IsTuple(t) ==
  /\ t = [kind |-> "tuple", parts |-> t.parts, args |-> t.args]
  /\ t.args \in BOOLEAN /\ IsSeq(t.parts)

\* Something unevaluated in a tuple, all of it in T: alone, or above its arguments
PartIn(T, p) ==
  \/ p = <<p[1]>> /\ p[1] \in T /\ ~p[1].args
  \/ p = <<p[1], p[2]>> /\ IsArguments(p[1]) /\ p[2] \in T /\ p[2].args
Closed(T) ==
  \A t \in T : \/ IsRvalue(t) \/ IsNamed(t)
               \/ IsTuple(t) /\ \A i \in 1..Len(t.parts) : PartIn(T, t.parts[i])
Typed(t) == \E T : Closed(T) /\ t \in T
IsPart(p) ==
  \/ p = <<p[1]>> /\ Typed(p[1]) /\ ~p[1].args
  \/ p = <<p[1], p[2]>> /\ IsArguments(p[1]) /\ Typed(p[2]) /\ p[2].args

LEMMA TypedLeaf ==
  ASSUME NEW t, IsRvalue(t) \/ IsNamed(t)
  PROVE  Typed(t)
<1>1. Closed({t}) /\ t \in {t}
  BY DEF Closed
<1>. QED BY <1>1 DEF Typed

LEMMA TypedCases ==
  ASSUME NEW t, Typed(t)
  PROVE  \/ IsRvalue(t) \/ IsNamed(t)
         \/ IsTuple(t) /\ \A i \in 1..Len(t.parts) : IsPart(t.parts[i])
<1>1. PICK T : Closed(T) /\ t \in T
  BY DEF Typed
<1>2. \A u \in T : Typed(u)
  BY <1>1 DEF Typed
<1>3. \A p : PartIn(T, p) => IsPart(p)
  BY <1>2 DEF PartIn, IsPart
<1>. QED BY <1>1, <1>3 DEF Closed

LEMMA PartInMore ==
  ASSUME NEW S, NEW T, S \subseteq T, NEW p, PartIn(S, p)
  PROVE  PartIn(T, p)
BY DEF PartIn

\* Each part has a set that it is closed in, the tuple is closed in all of them together.
LEMMA TypedTuple ==
  ASSUME NEW ps, IsSeq(ps), NEW b \in BOOLEAN, \A i \in 1..Len(ps) : IsPart(ps[i])
  PROVE  LET t == [kind |-> "tuple", parts |-> ps, args |-> b]
         IN  Typed(t) /\ IsTuple(t)
<1>. DEFINE t == [kind |-> "tuple", parts |-> ps, args |-> b]
            Support(i) == CHOOSE T : Closed(T) /\ PartIn(T, ps[i])
            U == {t} \cup UNION {Support(i) : i \in 1..Len(ps)}
<1>1. \A i \in 1..Len(ps) : Closed(Support(i)) /\ PartIn(Support(i), ps[i])
  <2>. SUFFICES ASSUME NEW i \in 1..Len(ps)
                PROVE  Closed(Support(i)) /\ PartIn(Support(i), ps[i])
    OBVIOUS
  <2>1. \E T : Closed(T) /\ PartIn(T, ps[i])
    <3>1. IsPart(ps[i])
      OBVIOUS
    <3>. DEFINE p == ps[i]
    <3>. HIDE DEF p
    <3>2. \/ p = <<p[1]>> /\ Typed(p[1]) /\ ~p[1].args
          \/ p = <<p[1], p[2]>> /\ IsArguments(p[1]) /\ Typed(p[2]) /\ p[2].args
      BY <3>1 DEF IsPart, p
    <3>3. ASSUME Typed(p[1]), p = <<p[1]>>, ~p[1].args
          PROVE  \E T : Closed(T) /\ PartIn(T, p)
      BY <3>3 DEF Typed, PartIn
    <3>4. ASSUME Typed(p[2]), p = <<p[1], p[2]>>, IsArguments(p[1]), p[2].args
          PROVE  \E T : Closed(T) /\ PartIn(T, p)
      BY <3>4 DEF Typed, PartIn
    <3>5. \E T : Closed(T) /\ PartIn(T, p)
      BY <3>2, <3>3, <3>4
    <3>. QED BY <3>5 DEF p
  <2>. QED BY <2>1
<1>2. \A i \in 1..Len(ps) : Support(i) \subseteq U
  OBVIOUS
<1>. HIDE DEF Support
<1>3. IsTuple(t)
  BY DEF IsTuple
<1>4. \A i \in 1..Len(ps) : PartIn(U, ps[i])
  <2>. SUFFICES ASSUME NEW i \in 1..Len(ps)
                PROVE  PartIn(U, ps[i])
    OBVIOUS
  <2>1. PartIn(Support(i), ps[i]) /\ Support(i) \subseteq U
    BY <1>1, <1>2
  <2>. HIDE DEF U
  <2>. QED BY <2>1, PartInMore
<1>5. Closed(U)
  <2>. SUFFICES ASSUME NEW u \in U
                PROVE  \/ IsRvalue(u) \/ IsNamed(u)
                       \/ IsTuple(u) /\ \A i \in 1..Len(u.parts) : PartIn(U, u.parts[i])
    BY DEF Closed
  <2>1. CASE u = t
    <3>1. u.parts = ps
      BY <2>1
    <3>. HIDE DEF U, t
    <3>. QED BY <2>1, <3>1, <1>3, <1>4
  <2>2. CASE u # t
    <3>1. PICK i \in 1..Len(ps) : u \in Support(i)
      BY <2>2
    <3>2. Closed(Support(i)) /\ Support(i) \subseteq U
      BY <1>1, <1>2
    <3>. HIDE DEF U, t
    <3>3. \/ IsRvalue(u) \/ IsNamed(u)
          \/ IsTuple(u) /\ \A j \in 1..Len(u.parts) : PartIn(Support(i), u.parts[j])
      BY <3>1, <3>2 DEF Closed
    <3>. QED BY <3>2, <3>3, PartInMore
  <2>. QED BY <2>1, <2>2
<1>6. Typed(t)
  <2>1. t \in U
    OBVIOUS
  <2>. HIDE DEF U, t
  <2>. QED BY <1>5, <2>1 DEF Typed
<1>. QED BY <1>3, <1>6

(***************************************************************************)
(* Values: what operators make of values is a value.                       *)
(***************************************************************************)
LEMMA IntsFacts ==
  /\ Half \in Int
  /\ \A n \in Ints : n \in Int /\ -Half <= n /\ n < Half /\ Half > 0
  /\ \A n \in Int : -Half <= n /\ n < Half => n \in Ints
<1>1. Half \in Int
  BY WidthAssumption DEF Half
<1>. QED BY <1>1 DEF Ints

LEMMA WrapInInts ==
  ASSUME NEW n \in Int, Half > 0
  PROVE  Wrap(n) \in Ints
<1>. DEFINE m == (n + Half) % (2 * Half)
<1>1. m \in Int /\ 0 <= m /\ m < 2 * Half
  BY IntsFacts
<1>2. Wrap(n) = m - Half
  BY DEF Wrap
<1>. HIDE DEF m
<1>. QED BY <1>1, <1>2, IntsFacts

LEMMA QuotientInInts ==
  ASSUME NEW a \in Ints, NEW b \in Ints, b # 0, ~Traps(a, b)
  PROVE  Quotient(a, b) \in Ints
<1>. DEFINE x == Abs(a)  y == Abs(b)  m == x \div y
<1>1. /\ x \in Nat /\ y \in Nat /\ y >= 1 /\ x <= Half
      /\ a >= 0 => x = a
      /\ a < 0 => x = -a
      /\ y = 1 => b = 1 \/ b = -1
  BY IntsFacts DEF Abs
<1>. HIDE DEF x, y
<1>2. m \in Int /\ 0 <= m /\ m * y <= x
  BY <1>1, Z3
<1>. HIDE DEF m
<1>3. m <= x
  <2>1. m * y >= m * 1
    BY <1>1, <1>2
  <2>. QED BY <1>1, <1>2, <2>1
<1>4. y >= 2 => m < Half
  <2>1. y >= 2 => m * y >= m * 2
    BY <1>1, <1>2
  <2>. QED BY <1>1, <1>2, <2>1, IntsFacts
<1>5. Quotient(a, b) = Sign(a) * Sign(b) * m
  BY DEF Quotient, m, x, y
<1>6. Sign(a) * Sign(b) * m = (IF (a < 0) = (b < 0) THEN m ELSE -m)
  BY <1>2, IntsFacts DEF Sign
<1>7. (a < 0) = (b < 0) => m < Half
  <2>1. a >= 0 => m < Half
    BY <1>1, <1>2, <1>3, IntsFacts
  <2>2. a < 0 /\ b < 0 => m < Half
    <3>1. y = 1 /\ b < 0 => b = -1
      BY <1>1
    <3>2. y = 1 /\ a < 0 /\ b < 0 => a # -Half
      BY <3>1 DEF Traps
    <3>3. y = 1 \/ y >= 2
      BY <1>1
    <3>. QED BY <1>1, <1>2, <1>3, <1>4, <3>2, <3>3, IntsFacts
  <2>3. a >= 0 \/ a < 0
    BY IntsFacts
  <2>. QED BY <2>1, <2>2, <2>3
<1>. QED BY <1>1, <1>2, <1>3, <1>5, <1>6, <1>7, IntsFacts

LEMMA PrimitiveCases ==
  ASSUME NEW v \in Primitive
  PROVE  /\ v.t \in {"int", "bool", "null", "undefined"}
         /\ v.t = "int" => v.v \in Ints
         /\ v.t = "bool" => v.v \in {0, 1}
BY DEF Primitive, IntOf, BoolOf, Null, Undefined

LEMMA PrimitiveMakes ==
  /\ \A n \in Ints : IntOf(n) \in Primitive
  /\ \A b \in BOOLEAN : BoolOf(b) \in Primitive
  /\ Null \in Primitive /\ Undefined \in Primitive
BY DEF Primitive

LEMMA ValueCases ==
  ASSUME NEW v \in Value
  PROVE  /\ v.t = "tuple" => v.es \in Seq(Primitive) /\ v = TupleOf(v.es)
         /\ v.t # "tuple" => v \in Primitive
         /\ v.t = "int" => v.v \in Ints
BY PrimitiveCases DEF Value, TupleOf

LEMMA PrimitiveValue ==
  ASSUME NEW v \in Primitive
  PROVE  v \in Value /\ v.t # "tuple"
BY PrimitiveCases DEF Value

LEMMA UnaryGives ==
  ASSUME NEW op, NEW a \in Value, UnaryValue(op, a).ex = None
  PROVE  UnaryValue(op, a).v \in Primitive
<1>1. CASE a.t = "bool"
  BY <1>1, PrimitiveMakes DEF UnaryValue, Good
<1>2. CASE a.t = "int" /\ op = "UnaryMinus"
  <2>1. a.v \in Ints /\ UnaryValue(op, a) = OfInt(UnaryMinus(a.v))
    BY <1>2, ValueCases DEF UnaryValue
  <2>2. UnaryMinus(a.v).ex = None /\ UnaryValue(op, a).v = IntOf(UnaryMinus(a.v).v)
    BY <2>1 DEF OfInt
  <2>3. UnaryMinus(a.v).v \in Ints
    BY <2>1, <2>2, IntsFacts DEF UnaryMinus, Throws, Yields, None
  <2>. QED BY <2>2, <2>3, PrimitiveMakes
<1>3. CASE a.t # "bool" /\ ~(a.t = "int" /\ op = "UnaryMinus")
  BY <1>3 DEF UnaryValue, Bad, None
<1>. QED BY <1>1, <1>2, <1>3

LEMMA IncrementGives ==
  ASSUME NEW a \in Value, Incremented(a).ex = None
  PROVE  Incremented(a).v \in Primitive
<1>1. CASE a.t = "bool"
  BY <1>1, PrimitiveMakes DEF Incremented, Good
<1>2. CASE a.t = "int"
  <2>1. a.v \in Ints /\ Incremented(a) = OfInt(Increment(a.v))
    BY <1>2, ValueCases DEF Incremented
  <2>2. Increment(a.v).ex = None /\ Incremented(a).v = IntOf(Increment(a.v).v)
    BY <2>1 DEF OfInt
  <2>3. Increment(a.v).v \in Ints
    BY <2>1, <2>2, IntsFacts DEF Increment, Throws, Yields, None
  <2>. QED BY <2>2, <2>3, PrimitiveMakes
<1>3. CASE a.t # "bool" /\ a.t # "int"
  BY <1>3 DEF Incremented, Bad, None
<1>. QED BY <1>1, <1>2, <1>3

LEMMA BinaryGives ==
  ASSUME NEW op, NEW a \in Value, NEW b \in Value, BinaryValue(op, a, b).ex = None
  PROVE  BinaryValue(op, a, b).v \in Primitive
<1>. DEFINE r == BinaryValue(op, a, b)
            ints == a.t = "int" /\ b.t = "int"
<1>1. CASE op = "Addition" /\ ints
  <2>1. a.v \in Ints /\ b.v \in Ints /\ r = OfInt(Addition(a.v, b.v))
    BY <1>1, ValueCases DEF BinaryValue
  <2>2. Addition(a.v, b.v).ex = None /\ r.v = IntOf(Addition(a.v, b.v).v)
    BY <2>1 DEF OfInt
  <2>3. Addition(a.v, b.v).v = Wrap(a.v + b.v)
    BY <2>2 DEF Addition, Throws, Yields, None
  <2>4. a.v + b.v \in Int /\ Half > 0
    BY <2>1, IntsFacts
  <2>. QED BY <2>2, <2>3, <2>4, WrapInInts, PrimitiveMakes
<1>2. CASE op = "Division" /\ ints
  <2>1. a.v \in Ints /\ b.v \in Ints /\ r = OfInt(Division(a.v, b.v))
    BY <1>2, ValueCases DEF BinaryValue
  <2>2. Division(a.v, b.v).ex = None /\ r.v = IntOf(Division(a.v, b.v).v)
    BY <2>1 DEF OfInt
  <2>3. b.v # 0 /\ ~Traps(a.v, b.v) /\ Division(a.v, b.v).v = Quotient(a.v, b.v)
    BY <2>2 DEF Division, Throws, Yields, None
  <2>. QED BY <2>1, <2>2, <2>3, QuotientInInts, PrimitiveMakes
<1>3. CASE ~(op = "Addition" /\ ints) /\ ~(op = "Division" /\ ints)
  <2>1. \A c \in BOOLEAN : Good(BoolOf(c)).v \in Primitive
    BY PrimitiveMakes DEF Good
  <2>2. /\ (IsTrue(a) \/ IsTrue(b)) \in BOOLEAN /\ (a.v < b.v) \in BOOLEAN /\ (a.v = b.v) \in BOOLEAN
        /\ (a = b) \in BOOLEAN /\ (a # b) \in BOOLEAN
    BY DEF IsTrue
  <2>3. \/ r = Bad("UnsupportedOperationException") \/ r = Good(BoolOf(IsTrue(a) \/ IsTrue(b)))
        \/ r = Good(BoolOf(a.v < b.v)) \/ r = Good(BoolOf(a.v = b.v))
        \/ r = Good(BoolOf(a = b)) \/ r = Good(BoolOf(a # b))
    BY <1>3 DEF BinaryValue
  <2>4. r # Bad("UnsupportedOperationException")
    BY DEF Bad, None
  <2>. QED BY <2>1, <2>2, <2>3, <2>4
<1>. QED BY <1>1, <1>2, <1>3

\* A tuple whose first k parts may have been taken
Partial(t, k) ==
  /\ IsTuple(t) /\ ~t.args
  /\ \A i \in k + 1..Len(t.parts) : IsPart(t.parts[i])

Single(t) == Typed(t) /\ ~t.args
Readable(tm, t) == Single(t) /\ (t.kind = "rvalue" \/ (t.kind = "ref" /\ t.name \in tm))

(***************************************************************************)
(* What lies on values (vs) from lo + 1 to hi; tm is temp.  A method on its*)
(* way to be assigned to has its arguments below it.                       *)
(***************************************************************************)
Operand(vs, lo, hi) ==
  \/ hi = lo + 1 /\ Single(vs[hi])
  \/ hi = lo + 2 /\ IsArguments(vs[lo + 1]) /\ Typed(vs[hi]) /\ vs[hi].args
Method(vs, lo, hi) == hi = lo + 2 /\ IsArguments(vs[lo + 1]) /\ IsMethod(vs[hi])

Is(vs, tm, c, lo, hi) ==
  CASE c = "nothing"   -> hi = lo
    [] c = "operand"   -> Operand(vs, lo, hi)
    [] c = "single"    -> hi = lo + 1 /\ Single(vs[hi])
    [] c = "tuple"     -> hi = lo + 1 /\ Single(vs[hi]) /\ vs[hi].kind = "tuple"
    [] c = "value"     -> hi = lo + 1 /\ Readable(tm, vs[hi])
    [] c = "scalar"    -> /\ hi = lo + 1 /\ Readable(tm, vs[hi])
                          /\ vs[hi].kind = "rvalue" => vs[hi].v \in Primitive
    [] c = "rvalue"    -> hi = lo + 1 /\ Readable(tm, vs[hi]) /\ vs[hi].kind = "rvalue"
    [] c = "arguments" -> hi = lo + 1 /\ IsArguments(vs[hi])
    [] c = "pair"      -> Operand(vs, lo, hi - 1) /\ Readable(tm, vs[hi])
    [] c = "place"     -> (hi = lo + 1 /\ Single(vs[hi])) \/ Method(vs, lo, hi)
    [] c = "variable"  -> hi = lo + 1 /\ IsVariable(vs[hi])
    [] c = "method"    -> Method(vs, lo, hi)
    [] c = "target"    -> \/ hi = lo + 1 /\ IsVariable(vs[hi])
                          \/ Method(vs, lo, hi)
                          \/ hi = lo + 2 /\ IsVariable(vs[lo + 1]) /\ Single(vs[hi]) /\ vs[hi].kind = "rvalue"
    [] OTHER -> FALSE

\* The tuple that is evaluated, and the values of its first parts
Parts(vs, tm, p, lo, hi) ==
  /\ hi = lo + 1 + ((p - 1) \div 2) /\ Partial(vs[lo + 1], (p + 1) \div 2)
  /\ \A i \in lo + 2..hi : Readable(tm, vs[i])
\* The tuple that is assigned to, the values and the map
Assignment(vs, p, lo, hi) ==
  /\ hi = lo + 3 /\ Partial(vs[lo + 1], (p - 37) \div 4)
  /\ IsArguments(vs[lo + 2]) /\ vs[lo + 3] = MapTemp

\* What a class is a case of
Above(c) ==
  CASE c = "arguments" -> {"arguments", "rvalue", "value", "single", "operand"}
    [] c = "rvalue" -> {"rvalue", "value", "single", "operand"}
    [] c = "value" -> {"value", "single", "operand"}
    [] c = "tuple" -> {"tuple", "single", "operand"}
    [] c = "single" -> {"single", "operand"}
    [] OTHER -> {c}

(***************************************************************************)
(* An entry of the stack: what it holds on values while the entries above  *)
(* it are at work, what it expects them to leave above that, and what it   *)
(* leaves itself in the end.                                               *)
(***************************************************************************)
Simple == Unary \cup Binary \cup Logicals \cup {"Conditional"}
Waits(e) == e.phase = 0 /\ e.node.op \notin {"Expression", "PostPostfix", "EvaluateTuple", "RestoreTemporaryLock"}

Share(e) ==
  LET op == e.node.op  p == e.phase
  IN  CASE op \in Binary \cup Logicals /\ p >= 3 -> "value"
        [] op = "Call" /\ p >= 3 -> "arguments"
        [] op \in Assigning /\ p \in {2, 3, 6, 7} -> "operand"
        [] op \in Assigning /\ p \in {4, 5} -> "pair"
        [] op \in Assigning /\ p = 8 -> "place"
        [] op \in Assigning /\ p = 10 -> "variable"
        [] op \in Assigning /\ p = 20 -> "method"
        [] op \in Assigning /\ p >= 40 -> "assignment"
        [] op = "Tuple" /\ p >= 1 -> "tuple"
        [] op = "EvaluateTuple" /\ p >= 1 -> "parts"
        [] op = "PostPostfix" -> "rvalue"
        [] OTHER -> "nothing"
Holds(vs, tm, e, lo, hi) ==
  CASE Share(e) = "assignment" -> Assignment(vs, e.phase, lo, hi)
    [] Share(e) = "parts" -> Parts(vs, tm, e.phase, lo, hi)
    [] OTHER -> Is(vs, tm, Share(e), lo, hi)

Expect(e) ==
  LET op == e.node.op  p == e.phase
  IN  IF Waits(e) THEN "nothing"
      ELSE CASE op \in Simple -> IF p \in {1, 3} THEN "operand" ELSE "value"
        [] op = "Call" -> <<"tuple", "arguments", "operand", "single">>[p]
        [] op = "Expression" -> IF p = 0 THEN "operand" ELSE "value"
        [] op \in Increments /\ p < 6 -> IF p = 3 THEN "value" ELSE "operand"
        [] op \in Compounds /\ p < 6 -> IF p \in {3, 5} THEN "value" ELSE "operand"
        [] op \in {"Assignment", "Pair"} /\ p < 6 -> IF p = 3 THEN "value" ELSE "operand"
        [] op \in Assigning /\ p = 6 -> "value"
        [] op \in Assigning /\ p \in 7..39 -> "scalar"
        [] op \in Assigning /\ p >= 40 -> <<"nothing", "operand", "place", "target">>[1 + ((p - 40) % 4)]
        [] op = "Tuple" -> IF p % 8 = 1 THEN "nothing" ELSE "operand"
        [] op = "EvaluateTuple" -> IF p = 0 THEN "tuple" ELSE IF p % 2 = 0 THEN "value" ELSE "operand"
        [] op = "PostPostfix" -> "single"
        [] OTHER -> "rvalue"

Gives(op) ==
  CASE op \in {"Parenthesis", "Conditional", "Call"} -> "operand"
    [] op = "Tuple" -> "tuple"
    [] op = "EvaluateTuple" -> "arguments"
    [] op = "Expression" -> "value"
    [] op \in {"Name"} \cup Assigning -> "single"
    [] OTHER -> "rvalue"

Markers == {"Expression", "EvaluateTuple", "RestoreTemporaryLock", "PostPostfix"}
PhaseOK(n, p) ==
  LET op == n.op
  IN  /\ op \in {"Literal", "Name", "Parenthesis", "PostPostfix", "RestoreTemporaryLock"} => p = 0
      /\ op \in Unary \cup {"Conditional"} => p <= 2
      /\ op \in Binary \cup Logicals \cup {"Call"} => p <= 4
      /\ op = "Expression" => p <= 1
      /\ op \in Assigning => p \in (0..8) \cup {10, 20} \/ p >= 40
      /\ op \in Increments => p \notin {4, 5}
      /\ op \in {"Assignment", "Pair"} => p \notin {4, 5, 6}
      /\ op = "Tuple" =>
           \/ p = 0
           \/ p % 8 = 1 /\ (p - 1) \div 8 <= Len(n.subNodes)
           \/ p % 8 = 2 /\ (p - 1) \div 8 < Len(n.subNodes)
EntryOK(e) ==
  /\ e = [node |-> e.node, phase |-> e.phase] /\ e.phase \in Nat
  /\ \/ e.node \in Node
     \/ e.node.op \in Markers /\ e.node = Marker(e.node.op)
     \/ e.node = Marker("Addition") /\ e.phase = 4
  /\ PhaseOK(e.node, e.phase)

\* How many tuples under way are the entry's, and where they are
Marks(e) == IF (e.node.op = "Tuple" /\ e.phase > 0) \/ (e.node.op \in Assigning /\ e.phase >= 40) THEN 1 ELSE 0
Offset(e) == IF e.node.op = "Tuple" THEN 1 ELSE 2

ExpectOf(st, j) == IF j = 0 THEN "value" ELSE Expect(st[j])
Wanting(st) == ExpectOf(st, Len(st))

Fits(e, c, vs, sub, tm, lo, hi, d) ==
  /\ EntryOK(e) /\ lo <= hi
  /\ Holds(vs, tm, e, lo, hi)
  /\ c \in Above(Gives(e.node.op))
  /\ Marks(e) = 1 => sub[d + 1] = lo + Offset(e)

\* Where the values and the tuples under way of each entry begin
Layout(st, n, vs, sub, tm, base, depth) ==
  /\ base \in [1..n + 1 -> Nat] /\ depth \in [1..n + 1 -> Nat]
  /\ base[1] = 0 /\ depth[1] = 0
  /\ \A j \in 1..n :
       /\ Fits(st[j], ExpectOf(st, j - 1), vs, sub, tm, base[j], base[j + 1], depth[j])
       /\ depth[j + 1] = depth[j] + Marks(st[j])
  /\ \A j \in 1..n + 1 :
       /\ \A i \in 1..j : base[i] <= base[j] /\ depth[i] <= depth[j]
       /\ \A i \in 1..depth[j] : sub[i] \in 1..base[j]

\* The entries of a stack have the first lo values and the first d tuples under way.
Below(st, vs, sub, tm, lo, d) ==
  \E base, depth : /\ Layout(st, Len(st), vs, sub, tm, base, depth)
                   /\ base[Len(st) + 1] = lo /\ depth[Len(st) + 1] = d

\* The whole: the entry on top has got what it expects, or is about to get it from a call.
Formed(st, vs, sub, tm, calling) ==
  \E lo, d \in Nat :
    /\ Below(st, vs, sub, tm, lo, d)
    /\ lo <= Len(vs) /\ Len(sub) = d
    /\ IF calling THEN Len(vs) = lo /\ Wanting(st) \in Above("rvalue")
       ELSE Is(vs, tm, Wanting(st), lo, Len(vs))

LEMMA ArgumentsFacts ==
  ASSUME NEW t, IsArguments(t)
  PROVE  /\ Single(t) /\ t.kind = "rvalue" /\ IsRvalue(t)
         /\ t.v \in Value /\ t.v.t = "tuple" /\ t.v.es \in Seq(Primitive)
         /\ \A tm : Readable(tm, t)
<1>1. PICK es \in Seq(Primitive) : t = Rvalue(TupleOf(es))
  BY DEF IsArguments
<1>2. TupleOf(es) \in Value /\ TupleOf(es).t = "tuple" /\ TupleOf(es).es = es
  BY DEF Value, TupleOf
<1>3. t = [kind |-> "rvalue", v |-> TupleOf(es), args |-> FALSE]
  BY <1>1 DEF Rvalue
<1>4. IsRvalue(t)
  BY <1>2, <1>3 DEF IsRvalue
<1>. QED BY <1>2, <1>3, <1>4, TypedLeaf DEF Single, Readable

LEMMA AboveFacts ==
  ASSUME NEW c, NEW d \in Above(c)
  PROVE  /\ Above(d) \subseteq Above(c)
         /\ \A vs, tm : \A lo, hi \in Int : Is(vs, tm, c, lo, hi) => Is(vs, tm, d, lo, hi)
<1>1. Above(d) \subseteq Above(c)
  BY DEF Above
<1>2. CASE c \notin {"arguments", "rvalue", "value", "tuple", "single"}
  BY <1>2 DEF Above
<1>3. CASE c \in {"rvalue", "value", "tuple", "single"}
  BY <1>3 DEF Above, Is, Readable, Operand
<1>4. CASE c = "arguments"
  <2>2. \A t, tm : IsArguments(t) => Readable(tm, t) /\ t.kind = "rvalue" /\ Single(t)
    BY ArgumentsFacts
  <2>3. d \in {"arguments", "rvalue", "value", "single", "operand"}
    BY <1>4 DEF Above
  <2>4. ASSUME NEW vs, NEW tm, NEW lo \in Int, NEW hi \in Int, Is(vs, tm, c, lo, hi)
        PROVE  Is(vs, tm, d, lo, hi)
    <3>1. hi = lo + 1 /\ IsArguments(vs[hi])
      BY <1>4, <2>4 DEF Is
    <3>2. Readable(tm, vs[hi]) /\ vs[hi].kind = "rvalue" /\ Single(vs[hi])
      BY <3>1, <2>2
    <3>. QED BY <2>3, <3>1, <3>2 DEF Is, Operand
  <2>. QED BY <1>1, <2>4
<1>. QED BY <1>1, <1>2, <1>3, <1>4

\* What lies there does not depend on what lies above, nor on temp as it grows.
LEMMA SameIs ==
  ASSUME NEW vs, NEW us, NEW tm, NEW um, tm \subseteq um, NEW lo \in Nat, NEW hi \in Nat,
         \A i \in lo + 1..hi : us[i] = vs[i], NEW c
  PROVE  Is(vs, tm, c, lo, hi) => Is(us, um, c, lo, hi)
<1>1. \A t : Readable(tm, t) => Readable(um, t)
  BY DEF Readable
<1>2. hi = lo + 1 => us[hi] = vs[hi]
  OBVIOUS
<1>3. hi = lo + 2 => us[hi] = vs[hi] /\ us[lo + 1] = vs[lo + 1]
  OBVIOUS
<1>4. Operand(vs, lo, hi) => Operand(us, lo, hi)
  BY <1>2, <1>3 DEF Operand
<1>5. Method(vs, lo, hi) => Method(us, lo, hi)
  BY <1>3 DEF Method
<1>6. hi - 1 = lo + 1 => us[hi - 1] = vs[hi - 1] /\ us[hi] = vs[hi]
  OBVIOUS
<1>7. hi - 1 = lo + 2 => us[hi - 1] = vs[hi - 1] /\ us[lo + 1] = vs[lo + 1] /\ us[hi] = vs[hi]
  OBVIOUS
<1>8. Operand(vs, lo, hi - 1) => Operand(us, lo, hi - 1) /\ us[hi] = vs[hi]
  BY <1>6, <1>7 DEF Operand
<1>. QED BY <1>1, <1>2, <1>3, <1>4, <1>5, <1>8 DEF Is

LEMMA SameHolds ==
  ASSUME NEW vs, NEW us, NEW tm, NEW um, tm \subseteq um, NEW lo \in Nat, NEW hi \in Nat,
         \A i \in lo + 1..hi : us[i] = vs[i], NEW e, e.phase \in Nat
  PROVE  Holds(vs, tm, e, lo, hi) => Holds(us, um, e, lo, hi)
<1>1. \A c : Is(vs, tm, c, lo, hi) => Is(us, um, c, lo, hi)
  BY SameIs
<1>2. \A t : Readable(tm, t) => Readable(um, t)
  BY DEF Readable
<1>3. Assignment(vs, e.phase, lo, hi) => Assignment(us, e.phase, lo, hi)
  <2>1. hi = lo + 3 => us[lo + 1] = vs[lo + 1] /\ us[lo + 2] = vs[lo + 2] /\ us[lo + 3] = vs[lo + 3]
    OBVIOUS
  <2>. QED BY <2>1 DEF Assignment
<1>4. ASSUME e.phase \in Nat, e.phase >= 1
      PROVE  Parts(vs, tm, e.phase, lo, hi) => Parts(us, um, e.phase, lo, hi)
  <2>1. (e.phase - 1) \div 2 \in Nat
    BY <1>4
  <2>2. hi = lo + 1 + ((e.phase - 1) \div 2) => us[lo + 1] = vs[lo + 1]
    BY <2>1
  <2>3. \A i \in lo + 2..hi : us[i] = vs[i]
    OBVIOUS
  <2>. QED BY <1>2, <2>2, <2>3 DEF Parts
<1>5. Share(e) = "parts" => e.phase >= 1
  BY DEF Share
<1>. QED BY <1>1, <1>3, <1>4, <1>5 DEF Holds

(***************************************************************************)
(* Stacks: the empty one, one more entry, one less, the same one below     *)
(* other values.                                                           *)
(***************************************************************************)
LEMMA MarksFacts ==
  ASSUME NEW e
  PROVE  Marks(e) \in {0, 1} /\ Offset(e) \in {1, 2}
BY DEF Marks, Offset

LEMMA BelowNothing ==
  ASSUME NEW vs, NEW sub, NEW tm
  PROVE  Below(<<>>, vs, sub, tm, 0, 0)
<1>. DEFINE zero == [j \in 1..1 |-> 0]
<1>1. zero \in [1..0 + 1 -> Nat] /\ zero[1] = 0 /\ Len(<<>>) = 0
  OBVIOUS
<1>. HIDE DEF zero
<1>2. Layout(<<>>, 0, vs, sub, tm, zero, zero)
  BY <1>1 DEF Layout
<1>. QED BY <1>1, <1>2 DEF Below

LEMMA BelowFacts ==
  ASSUME NEW st, IsSeq(st), NEW vs, NEW sub, NEW tm, NEW lo, NEW d, Below(st, vs, sub, tm, lo, d)
  PROVE  /\ lo \in Nat /\ d \in Nat
         /\ \A i \in 1..d : sub[i] \in 1..lo
<1>1. Len(st) \in Nat /\ Len(st) + 1 \in 1..Len(st) + 1
  BY SeqFacts
<1>2. PICK base, depth : /\ Layout(st, Len(st), vs, sub, tm, base, depth)
                         /\ base[Len(st) + 1] = lo /\ depth[Len(st) + 1] = d
  BY DEF Below
<1>. QED BY <1>1, <1>2 DEF Layout

LEMMA SameBelow ==
  ASSUME NEW st, IsSeq(st), NEW vs, NEW sub, NEW tm, NEW lo, NEW d, Below(st, vs, sub, tm, lo, d),
         NEW us, \A i \in 1..lo : us[i] = vs[i],
         NEW sup, \A i \in 1..d : sup[i] = sub[i],
         NEW um, tm \subseteq um
  PROVE  Below(st, us, sup, um, lo, d)
<1>. DEFINE n == Len(st)
<1>1. n \in Nat /\ lo \in Nat /\ d \in Nat
  BY SeqFacts, BelowFacts
<1>2. PICK base, depth : Layout(st, n, vs, sub, tm, base, depth) /\ base[n + 1] = lo /\ depth[n + 1] = d
  BY DEF Below
<1>. HIDE DEF n
<1>3. /\ \A j \in 1..n + 1 : /\ base[j] \in Nat /\ depth[j] \in Nat
                             /\ base[j] <= lo /\ depth[j] <= d
      /\ \A j \in 1..n : j \in 1..n + 1 /\ j + 1 \in 1..n + 1
  BY <1>1, <1>2 DEF Layout
<1>4. ASSUME NEW j \in 1..n
      PROVE  Fits(st[j], ExpectOf(st, j - 1), us, sup, um, base[j], base[j + 1], depth[j])
  <2>. DEFINE b == base[j]  c == base[j + 1]  k == depth[j]
  <2>1. Fits(st[j], ExpectOf(st, j - 1), vs, sub, tm, b, c, k)
    BY <1>2 DEF Layout
  <2>2. b \in Nat /\ c \in Nat /\ c <= lo /\ k \in Nat /\ depth[j + 1] = k + Marks(st[j]) /\ depth[j + 1] <= d
    BY <1>2, <1>3 DEF Layout
  <2>. HIDE DEF b, c, k
  <2>3. \A i \in b + 1..c : i \in 1..lo
    BY <1>1, <2>2
  <2>4. st[j].phase \in Nat
    BY <2>1 DEF Fits, EntryOK
  <2>5. Holds(us, um, st[j], b, c)
    BY <2>1, <2>2, <2>3, <2>4, SameHolds DEF Fits
  <2>6. Marks(st[j]) = 1 => k + 1 \in 1..d
    BY <2>2, <1>1
  <2>7. Fits(st[j], ExpectOf(st, j - 1), us, sup, um, b, c, k)
    BY <2>1, <2>5, <2>6 DEF Fits
  <2>. QED BY <2>7 DEF b, c, k
<1>5. ASSUME NEW j \in 1..n + 1
      PROVE  /\ \A i \in 1..j : base[i] <= base[j] /\ depth[i] <= depth[j]
             /\ \A i \in 1..depth[j] : sup[i] \in 1..base[j]
  <2>1. \A i \in 1..depth[j] : i \in 1..d
    BY <1>1, <1>3
  <2>. QED BY <1>2, <2>1 DEF Layout
<1>6. Layout(st, n, us, sup, um, base, depth)
  BY <1>2, <1>4, <1>5 DEF Layout
<1>. QED BY <1>2, <1>6 DEF Below, n

\* What an entry holds has room for the tuple it marks.
LEMMA MarkInside ==
  ASSUME NEW e, NEW c, NEW vs, NEW sub, NEW tm, NEW lo \in Nat, NEW hi \in Nat, NEW d,
         Fits(e, c, vs, sub, tm, lo, hi, d), Marks(e) = 1
  PROVE  sub[d + 1] \in 1..hi
<1>1. EntryOK(e) /\ Holds(vs, tm, e, lo, hi) /\ sub[d + 1] = lo + Offset(e) /\ e.phase \in Nat
  BY DEF Fits, EntryOK
<1>2. CASE e.node.op = "Tuple"
  <2>1. e.phase >= 1
    BY <1>1, <1>2 DEF Marks, Assigning, Compounds, Increments
  <2>2. Is(vs, tm, "tuple", lo, hi)
    BY <1>1, <1>2, <2>1 DEF Holds, Share, Binary, Logicals, Assigning, Compounds, Increments
  <2>. QED BY <1>1, <1>2, <2>2 DEF Is, Offset
<1>3. CASE e.node.op # "Tuple"
  <2>1. e.node.op \in Assigning /\ e.phase >= 40
    BY <1>3 DEF Marks
  <2>2. Assignment(vs, e.phase, lo, hi)
    BY <1>1, <2>1, SMTT(30) DEF Holds, Share, Binary, Logicals, Assigning, Compounds, Increments
  <2>. QED BY <1>1, <1>3, <2>2 DEF Assignment, Offset
<1>. QED BY <1>2, <1>3

LEMMA Extend ==
  ASSUME NEW st, IsSeq(st), NEW vs, NEW sub, NEW tm, NEW lo, NEW d, Below(st, vs, sub, tm, lo, d),
         NEW e, NEW hi \in Nat, Fits(e, Wanting(st), vs, sub, tm, lo, hi, d)
  PROVE  Below(Append(st, e), vs, sub, tm, hi, d + Marks(e))
<1>. DEFINE n == Len(st)  s == Append(st, e)
<1>1. n \in Nat /\ lo \in Nat /\ d \in Nat /\ \A i \in 1..d : sub[i] \in 1..lo
  BY SeqFacts, BelowFacts
<1>2. PICK base, depth : Layout(st, n, vs, sub, tm, base, depth) /\ base[n + 1] = lo /\ depth[n + 1] = d
  BY DEF Below
<1>3. Len(s) = n + 1 /\ s[n + 1] = e /\ \A j \in 1..n : s[j] = st[j]
  BY AppendFacts
<1>. DEFINE m == Marks(e)
            ba == [j \in 1..n + 2 |-> IF j = n + 2 THEN hi ELSE base[j]]
            de == [j \in 1..n + 2 |-> IF j = n + 2 THEN d + m ELSE depth[j]]
<1>4. m \in {0, 1} /\ lo <= hi /\ (m = 1 => sub[d + 1] \in 1..hi)
  BY <1>1, MarksFacts, MarkInside DEF Fits
<1>. HIDE DEF n, s, m
<1>5. /\ \A j \in 1..n + 1 : /\ base[j] \in Nat /\ depth[j] \in Nat /\ base[j] <= lo /\ depth[j] <= d
                             /\ \A i \in 1..j : base[i] <= base[j] /\ depth[i] <= depth[j]
                             /\ \A i \in 1..depth[j] : sub[i] \in 1..base[j]
      /\ base[1] = 0 /\ depth[1] = 0
  BY <1>1, <1>2 DEF Layout
<1>6. /\ ba \in [1..n + 2 -> Nat] /\ de \in [1..n + 2 -> Nat]
      /\ ba[n + 2] = hi /\ de[n + 2] = d + m
      /\ \A j \in 1..n + 1 : ba[j] = base[j] /\ de[j] = depth[j]
  BY <1>1, <1>4, <1>5
<1>. HIDE DEF ba, de
<1>7. ba[1] = 0 /\ de[1] = 0
  BY <1>1, <1>5, <1>6
<1>8. \A j \in 0..n : ExpectOf(s, j) = ExpectOf(st, j)
  BY <1>1, <1>3 DEF ExpectOf
<1>9. ASSUME NEW j \in 1..n + 1
      PROVE  /\ Fits(s[j], ExpectOf(s, j - 1), vs, sub, tm, ba[j], ba[j + 1], de[j])
             /\ de[j + 1] = de[j] + Marks(s[j])
  <2>1. CASE j = n + 1
    <3>1. s[j] = e /\ ba[j] = lo /\ ba[j + 1] = hi /\ de[j] = d /\ de[j + 1] = d + m /\ j - 1 = n
      BY <1>1, <1>2, <1>3, <1>6, <2>1
    <3>2. ExpectOf(s, j - 1) = Wanting(st)
      BY <3>1, <1>1, <1>8 DEF Wanting, n
    <3>. QED BY <3>1, <3>2 DEF m
  <2>2. CASE j # n + 1
    <3>. j \in 1..n /\ j - 1 \in 0..n /\ j + 1 \in 1..n + 1
      BY <1>1, <2>2
    <3>1. /\ s[j] = st[j] /\ ba[j] = base[j] /\ de[j] = depth[j]
          /\ ba[j + 1] = base[j + 1] /\ de[j + 1] = depth[j + 1]
      BY <1>3, <1>6
    <3>2. ExpectOf(s, j - 1) = ExpectOf(st, j - 1)
      BY <1>8
    <3>. QED BY <1>2, <3>1, <3>2 DEF Layout
  <2>. QED BY <2>1, <2>2
<1>10. ASSUME NEW j \in 1..n + 2
       PROVE  /\ \A i \in 1..j : ba[i] <= ba[j] /\ de[i] <= de[j]
              /\ \A i \in 1..de[j] : sub[i] \in 1..ba[j]
  <2>1. CASE j = n + 2
    <3>1. \A i \in 1..d + m : i \in 1..d \/ (m = 1 /\ i = d + 1)
      BY <1>1, <1>4
    <3>2. \A i \in 1..d + m : sub[i] \in 1..hi
      BY <1>1, <1>4, <3>1
    <3>3. \A i \in 1..j : i = j \/ i \in 1..n + 1
      BY <1>1, <2>1
    <3>4. \A i \in 1..j : ba[i] <= hi /\ de[i] <= d + m
      BY <1>1, <1>4, <1>5, <1>6, <2>1, <3>3, SMTT(20)
    <3>. QED BY <1>6, <2>1, <3>2, <3>4
  <2>2. CASE j # n + 2
    <3>1. j \in 1..n + 1 /\ \A i \in 1..j : i \in 1..n + 1
      BY <1>1, <2>2
    <3>. QED BY <1>5, <1>6, <3>1
  <2>. QED BY <2>1, <2>2
<1>11. Layout(s, n + 1, vs, sub, tm, ba, de)
  <2>1. (n + 1) + 1 = n + 2
    BY <1>1
  <2>. QED BY <1>6, <1>7, <1>9, <1>10, <2>1 DEF Layout
<1>12. Len(s) + 1 = n + 2
  BY <1>1, <1>3
<1>. QED BY <1>3, <1>6, <1>11, <1>12 DEF Below, s, m

LEMMA Split ==
  ASSUME NEW st, IsSeq(st), st # <<>>, NEW vs, NEW sub, NEW tm, NEW hi, NEW c,
         Below(st, vs, sub, tm, hi, c)
  PROVE  LET r == SubSeq(st, 1, Len(st) - 1)  e == st[Len(st)]
         IN  \E lo, d \in Nat :
               /\ Below(r, vs, sub, tm, lo, d) /\ Fits(e, Wanting(r), vs, sub, tm, lo, hi, d)
               /\ c = d + Marks(e)
<1>. DEFINE n == Len(st)  r == SubSeq(st, 1, n - 1)  e == st[n]
<1>1. n \in Nat /\ n >= 1 /\ IsSeq(r) /\ Len(r) = n - 1 /\ \A j \in 1..n - 1 : r[j] = st[j]
  BY TopFacts
<1>2. PICK base, depth : Layout(st, n, vs, sub, tm, base, depth) /\ base[n + 1] = hi /\ depth[n + 1] = c
  BY DEF Below
<1>. HIDE DEF n, r
<1>. DEFINE lo == base[n]  d == depth[n]
            ba == [j \in 1..n |-> base[j]]  de == [j \in 1..n |-> depth[j]]
<1>3. \A j \in 1..n : /\ base[j] \in Nat /\ depth[j] \in Nat
                      /\ \A i \in 1..j : base[i] <= base[j] /\ depth[i] <= depth[j]
                      /\ \A i \in 1..depth[j] : sub[i] \in 1..base[j]
  <2>1. \A j \in 1..n + 1 : /\ base[j] \in Nat /\ depth[j] \in Nat
                            /\ \A i \in 1..j : base[i] <= base[j] /\ depth[i] <= depth[j]
                            /\ \A i \in 1..depth[j] : sub[i] \in 1..base[j]
    BY <1>2 DEF Layout
  <2>2. \A j \in 1..n : j \in 1..n + 1
    BY <1>1
  <2>. QED BY <2>1, <2>2
<1>4. /\ ba \in [1..n -> Nat] /\ de \in [1..n -> Nat] /\ lo \in Nat /\ d \in Nat
      /\ \A j \in 1..n : ba[j] = base[j] /\ de[j] = depth[j]
  <2>1. n \in 1..n
    BY <1>1
  <2>2. lo \in Nat /\ d \in Nat
    BY <1>3, <2>1
  <2>3. ba \in [1..n -> Nat] /\ de \in [1..n -> Nat]
    BY <1>3
  <2>. QED BY <2>2, <2>3
<1>. HIDE DEF ba, de
<1>5. \A j \in 0..n - 1 : ExpectOf(r, j) = ExpectOf(st, j)
  BY <1>1 DEF ExpectOf
<1>6. ASSUME NEW j \in 1..n - 1
      PROVE  /\ Fits(r[j], ExpectOf(r, j - 1), vs, sub, tm, ba[j], ba[j + 1], de[j])
             /\ de[j + 1] = de[j] + Marks(r[j])
  <2>1. j \in 1..n /\ j + 1 \in 1..n /\ j - 1 \in 0..n - 1 /\ r[j] = st[j]
    BY <1>1
  <2>2. /\ ba[j] = base[j] /\ de[j] = depth[j] /\ ba[j + 1] = base[j + 1] /\ de[j + 1] = depth[j + 1]
        /\ ExpectOf(r, j - 1) = ExpectOf(st, j - 1)
    BY <1>4, <1>5, <2>1
  <2>. QED BY <1>2, <2>1, <2>2 DEF Layout
<1>7. Fits(e, Wanting(r), vs, sub, tm, lo, hi, d) /\ c = d + Marks(e)
  <2>1. Wanting(r) = ExpectOf(st, n - 1) /\ n \in 1..n
    BY <1>1, <1>5 DEF Wanting
  <2>. QED BY <1>2, <2>1 DEF Layout
<1>8. Layout(r, n - 1, vs, sub, tm, ba, de)
  <2>1. \A j \in 1..n : /\ \A i \in 1..j : ba[i] <= ba[j] /\ de[i] <= de[j]
                        /\ \A i \in 1..de[j] : sub[i] \in 1..ba[j]
    <3>1. \A j \in 1..n : \A i \in 1..j : i \in 1..n
      BY <1>1
    <3>. QED BY <1>3, <1>4, <3>1
  <2>2. ba[1] = 0 /\ de[1] = 0
    BY <1>1, <1>2, <1>4 DEF Layout
  <2>3. (n - 1) + 1 = n
    BY <1>1
  <2>. QED BY <1>4, <1>6, <2>1, <2>2, <2>3 DEF Layout
<1>9. Below(r, vs, sub, tm, lo, d)
  <2>1. Len(r) + 1 = n /\ ba[n] = lo /\ de[n] = d
    BY <1>1, <1>4
  <2>. QED BY <1>1, <1>8, <2>1 DEF Below
<1>. QED BY <1>4, <1>7, <1>9 DEF r, n

(***************************************************************************)
(* What each phase of each operator does, expects and holds.               *)
(***************************************************************************)
Row(e, s, x, h) == StepOf(e) = s /\ Expect(e) = x /\ Share(e) = h

AssigningRow(e) ==
  LET op == e.node.op  p == e.phase
  IN  \/ p = 0 /\ Row(e, "left", "nothing", "nothing")
      \/ op \in {"Assignment", "Pair"} /\ p = 1 /\ Row(e, "right", "operand", "nothing")
      \/ op \in {"Assignment", "Pair"} /\ p = 2 /\ Row(e, "value", "operand", "operand")
      \/ op \in {"Assignment", "Pair"} /\ p = 3 /\ Row(e, "process", "value", "operand")
      \/ op \in Increments \cup Compounds /\ p = 1 /\ Row(e, "duplicate", "operand", "nothing")
      \/ op \in Increments \cup Compounds /\ p = 2 /\ Row(e, "value", "operand", "operand")
      \/ op \in Increments /\ p = 3 /\ Row(e, "increment", "value", "operand")
      \/ op \in Compounds /\ p = 3 /\ Row(e, "right", "value", "operand")
      \/ op \in Compounds /\ p = 4 /\ Row(e, "value", "operand", "pair")
      \/ op \in Compounds /\ p = 5 /\ Row(e, "operator", "value", "pair")
      \/ op \in Increments \cup Compounds /\ p = 6 /\ Row(e, "process", "value", "operand")
      \/ p = 7 /\ Row(e, "destination", "scalar", "operand")
      \/ p = 8 /\ Row(e, "kind", "scalar", "place")
      \/ p = 10 /\ Row(e, "reference", "scalar", "variable")
      \/ p = 20 /\ Row(e, "method", "scalar", "method")
      \/ p >= 40 /\ (p - 40) % 4 = 0 /\ Row(e, "next", "nothing", "assignment")
      \/ p >= 40 /\ (p - 40) % 4 = 1 /\ Row(e, "destination", "operand", "assignment")
      \/ p >= 40 /\ (p - 40) % 4 = 2 /\ Row(e, "kind", "place", "assignment")
      \/ p >= 40 /\ (p - 40) % 4 = 3 /\ Row(e, "assign", "target", "assignment")
SimpleRow(e) ==
  LET op == e.node.op  p == e.phase
  IN  \/ p = 0 /\ Row(e, "left", "nothing", "nothing")
      \/ p = 1 /\ Row(e, "value", "operand", "nothing")
      \/ op \in Unary /\ p = 2 /\ Row(e, "unary", "value", "nothing")
      \/ op = "Conditional" /\ p = 2 /\ Row(e, "choose", "value", "nothing")
      \/ op \in Binary /\ p = 2 /\ Row(e, "right", "value", "nothing")
      \/ op \in Logicals /\ p = 2 /\ Row(e, "decide", "value", "nothing")
      \/ op \in Binary \cup Logicals /\ p = 3 /\ Row(e, "value", "operand", "value")
      \/ op \in Binary /\ p = 4 /\ Row(e, "binary", "value", "value")
      \/ op \in Logicals /\ p = 4 /\ Row(e, "logical", "value", "value")
CallRow(e) ==
  LET p == e.phase
  IN  \/ p = 0 /\ Row(e, "right", "nothing", "nothing")
      \/ p = 1 /\ Row(e, "value", "tuple", "nothing")
      \/ p = 2 /\ Row(e, "left", "arguments", "nothing")
      \/ p = 3 /\ Row(e, "callee", "operand", "arguments")
      \/ p = 4 /\ Row(e, "call", "single", "arguments")
TupleRow(e) ==
  LET p == e.phase
  IN  \/ p = 0 /\ Row(e, "tuple", "nothing", "nothing")
      \/ p >= 1 /\ p % 8 = 1 /\ Row(e, "element", "nothing", "tuple")
      \/ p >= 1 /\ p % 8 = 2 /\ Row(e, "element", "operand", "tuple")
OtherRow(e) ==
  LET op == e.node.op  p == e.phase
  IN  \/ op \in {"Literal", "Name", "Parenthesis"} /\ p = 0 /\ Row(e, op, "nothing", "nothing")
      \/ op = "Expression" /\ p = 0 /\ Row(e, "value", "operand", "nothing")
      \/ op = "Expression" /\ p = 1 /\ Row(e, "end", "value", "nothing")
      \/ op = "EvaluateTuple" /\ p = 0 /\ Row(e, "extract", "tuple", "nothing")
      \/ op = "EvaluateTuple" /\ p >= 1 /\ p % 2 = 1 /\ Row(e, "value", "operand", "parts")
      \/ op = "EvaluateTuple" /\ p >= 1 /\ p % 2 = 0 /\ Row(e, "extract", "value", "parts")
      \/ op = "PostPostfix" /\ p = 0 /\ Row(e, op, "single", "rvalue")
      \/ op = "RestoreTemporaryLock" /\ p = 0 /\ Row(e, op, "rvalue", "nothing")


\* The operators are told apart by their names.
LEMMA Operators ==
  /\ \A op \in Unary : op \notin Binary \cup Logicals \cup Assigning \cup {"Conditional"}
  /\ \A op \in Binary : op \notin Unary \cup Logicals \cup Assigning \cup {"Conditional"}
  /\ \A op \in Logicals : op \notin Unary \cup Binary \cup Assigning \cup {"Conditional"}
  /\ \A op \in Increments : op \notin Compounds \cup {"Assignment", "Pair"}
  /\ \A op \in Compounds : op \notin Increments \cup {"Assignment", "Pair"}
  /\ \A op \in {"Assignment", "Pair"} : op \notin Increments \cup Compounds
  /\ \A op \in Increments \cup Compounds \cup {"Assignment", "Pair"} : op \in Assigning
  /\ \A op \in Assigning :
       /\ op \in Increments \cup Compounds \cup {"Assignment", "Pair"}
       /\ op \notin Unary \cup Binary \cup Logicals \cup Simple
  /\ \A op \in {"Literal", "Name", "Parenthesis", "Call", "Tuple"} \cup Markers :
       /\ op \notin Unary \cup Binary \cup Logicals \cup Assigning \cup Simple
       /\ op \notin Increments \cup Compounds \cup {"Assignment", "Pair", "Conditional"}
  /\ \A op \in Simple :
       /\ op \notin Assigning \cup Increments \cup Compounds \cup {"Assignment", "Pair"}
       /\ op \notin {"Literal", "Name", "Parenthesis", "Call", "Tuple"} \cup Markers
  /\ \A op \in Assigning : op \notin {"Literal", "Name", "Parenthesis", "Call", "Tuple"} \cup Markers
  /\ "Conditional" \notin Unary \cup Binary \cup Logicals \cup Assigning
BY DEF Simple, Unary, Binary, Logicals, Assigning, Increments, Compounds, Markers

LEMMA AssigningRows ==
  ASSUME NEW e, EntryOK(e), e.node.op \in Assigning
  PROVE  AssigningRow(e)
<1>. DEFINE op == e.node.op  p == e.phase
<1>1. p \in Nat /\ (p \in (0..8) \cup {10, 20} \/ p >= 40)
  BY DEF EntryOK, PhaseOK
<1>2. /\ op \in Increments => p \notin {4, 5}
      /\ op \in {"Assignment", "Pair"} => p \notin {4, 5, 6}
  BY DEF EntryOK, PhaseOK
<1>3. /\ op \notin Unary \cup Binary \cup Logicals \cup Simple \cup {"Conditional"}
      /\ op \notin {"Literal", "Name", "Parenthesis", "Call", "Tuple"} \cup Markers
      /\ op \in Increments \cup Compounds \cup {"Assignment", "Pair"}
  BY Operators DEF Simple
<1>4. op \notin {"Expression", "EvaluateTuple", "PostPostfix", "RestoreTemporaryLock"}
  BY <1>3 DEF Markers
<1>5. Waits(e) <=> p = 0
  BY <1>4 DEF Waits
<1>6. CASE p < 6
  <2>1. StepOf(e) = Phases(op)[p + 1]
    BY <1>1, <1>3, <1>4, <1>6 DEF StepOf, TuplePhase, ProcessPhase
  <2>2. Share(e) = IF p \in {2, 3} THEN "operand" ELSE IF p \in {4, 5} THEN "pair" ELSE "nothing"
    BY <1>1, <1>3, <1>4, <1>6 DEF Share
  <2>3. p = 0 => Expect(e) = "nothing"
    BY <1>5 DEF Expect
  <2>4. CASE op \in Increments
    <3>1. Phases(op) = <<"left", "duplicate", "value", "increment">>
      BY <1>3, <1>4, <2>4, Operators DEF Phases
    <3>2. p # 0 => Expect(e) = IF p = 3 THEN "value" ELSE "operand"
      BY <1>1, <1>3, <1>4, <1>5, <1>6, <2>4, Operators DEF Expect
    <3>3. p \in {0, 1, 2, 3}
      BY <1>1, <1>2, <1>6, <2>4
    <3>. HIDE DEF op, p
    <3>. QED BY <2>1, <2>2, <2>3, <2>4, <3>1, <3>2, <3>3 DEF AssigningRow, Row, op, p
  <2>5. CASE op \in Compounds
    <3>1. Phases(op) = <<"left", "duplicate", "value", "right", "value", "operator">>
      BY <1>3, <1>4, <2>5, Operators DEF Phases
    <3>2. p # 0 => Expect(e) = IF p \in {3, 5} THEN "value" ELSE "operand"
      BY <1>1, <1>3, <1>4, <1>5, <1>6, <2>5, Operators DEF Expect
    <3>3. p \in {0, 1, 2, 3, 4, 5}
      BY <1>1, <1>6
    <3>. HIDE DEF op, p
    <3>. QED BY <2>1, <2>2, <2>3, <2>5, <3>1, <3>2, <3>3 DEF AssigningRow, Row, op, p
  <2>6. CASE op \in {"Assignment", "Pair"}
    <3>1. Phases(op) = <<"left", "right", "value", "process">>
      BY <1>3, <1>4, <2>6, Operators DEF Phases
    <3>2. p # 0 => Expect(e) = IF p = 3 THEN "value" ELSE "operand"
      BY <1>1, <1>3, <1>4, <1>5, <1>6, <2>6, Operators DEF Expect
    <3>3. p \in {0, 1, 2, 3}
      BY <1>1, <1>2, <1>6, <2>6
    <3>. HIDE DEF op, p
    <3>. QED BY <2>1, <2>2, <2>3, <2>6, <3>1, <3>2, <3>3 DEF AssigningRow, Row, op, p
  <2>. QED BY <1>3, <2>4, <2>5, <2>6
<1>7. CASE p >= 6 /\ p < 40
  <2>1. p \in {6, 7, 8, 10, 20}
    BY <1>1, <1>7
  <2>2. p = 6 => op \in Increments \cup Compounds
    BY <1>2, <1>3
  <2>3. Expect(e) = IF p = 6 THEN "value" ELSE "scalar"
    BY <1>3, <1>4, <1>5, <2>1 DEF Expect
  <2>4. Share(e) = CASE p \in {6, 7} -> "operand" [] p = 8 -> "place" [] p = 10 -> "variable" [] p = 20 -> "method"
    BY <1>3, <1>4, <2>1 DEF Share
  <2>5. StepOf(e) = CASE p = 10 -> "reference" [] p = 20 -> "method" [] OTHER -> <<"process", "destination", "kind">>[1 + p - 6]
    BY <1>3, <1>4, <2>1 DEF StepOf, TuplePhase, ProcessPhase, ReferencePhase, MethodPhase
  <2>. HIDE DEF op, p
  <2>. QED BY <2>1, <2>2, <2>3, <2>4, <2>5 DEF AssigningRow, Row, op, p
<1>8. CASE p >= 40
  <2>2. (p - 40) % 4 \in 0..3
    BY <1>1, <1>8
  <2>3. StepOf(e) = <<"next", "destination", "kind", "assign">>[1 + ((p - 40) % 4)]
    BY <1>1, <1>3, <1>4, <1>8 DEF StepOf, TuplePhase, ProcessPhase
  <2>4. Expect(e) = <<"nothing", "operand", "place", "target">>[1 + ((p - 40) % 4)]
    BY <1>1, <1>3, <1>4, <1>5, <1>8 DEF Expect
  <2>5. Share(e) = "assignment"
    BY <1>1, <1>3, <1>4, <1>8 DEF Share
  <2>. DEFINE q == (p - 40) % 4
  <2>. HIDE DEF op, q
  <2>6. q \in {0, 1, 2, 3}
    BY <2>2 DEF q
  <2>7. /\ StepOf(e) = <<"next", "destination", "kind", "assign">>[1 + q]
        /\ Expect(e) = <<"nothing", "operand", "place", "target">>[1 + q]
    BY <2>3, <2>4 DEF q
  <2>8. \/ q = 0 /\ Row(e, "next", "nothing", "assignment")
        \/ q = 1 /\ Row(e, "destination", "operand", "assignment")
        \/ q = 2 /\ Row(e, "kind", "place", "assignment")
        \/ q = 3 /\ Row(e, "assign", "target", "assignment")
    BY <2>5, <2>6, <2>7 DEF Row
  <2>. QED BY <1>8, <2>8 DEF AssigningRow, q
<1>. QED BY <1>1, <1>6, <1>7, <1>8

LEMMA SimpleRows ==
  ASSUME NEW e, EntryOK(e), e.node.op \in Simple
  PROVE  SimpleRow(e)
<1>. DEFINE op == e.node.op  p == e.phase
<1>1. /\ p \in Nat /\ (op \in Unary \cup {"Conditional"} => p <= 2)
      /\ (op \in Binary \cup Logicals => p <= 4)
  BY DEF EntryOK, PhaseOK
<1>2. op \notin Assigning \cup Increments \cup Compounds \cup {"Assignment", "Pair", "Literal", "Name", "Parenthesis", "Call", "Tuple"} \cup Markers
  BY Operators DEF Simple
<1>3. op \notin {"Expression", "EvaluateTuple", "PostPostfix", "RestoreTemporaryLock"}
  BY <1>2 DEF Markers
<1>4. Expect(e) = IF p = 0 THEN "nothing" ELSE IF p \in {1, 3} THEN "operand" ELSE "value"
  BY <1>2, <1>3 DEF Expect, Waits
<1>5. StepOf(e) = Phases(op)[p + 1]
  BY <1>2, <1>3 DEF StepOf
<1>6. Share(e) = IF op \in Binary \cup Logicals /\ p >= 3 THEN "value" ELSE "nothing"
  BY <1>2, <1>3 DEF Share
<1>7. CASE op \in Unary
  <2>1. Phases(op) = <<"left", "value", "unary">>
    BY <1>2, <1>3, <1>7, Operators DEF Phases
  <2>2. p \in {0, 1, 2} /\ op \notin Binary \cup Logicals
    BY <1>1, <1>7, Operators
  <2>. HIDE DEF op, p
  <2>. QED BY <1>4, <1>5, <1>6, <1>7, <2>1, <2>2 DEF SimpleRow, Row, op, p
<1>8. CASE op = "Conditional"
  <2>1. Phases(op) = <<"left", "value", "choose">>
    BY <1>2, <1>3, <1>8, Operators DEF Phases
  <2>2. p \in {0, 1, 2} /\ op \notin Binary \cup Logicals
    BY <1>1, <1>8, Operators
  <2>. HIDE DEF op, p
  <2>. QED BY <1>4, <1>5, <1>6, <1>8, <2>1, <2>2 DEF SimpleRow, Row, op, p
<1>9. CASE op \in Binary
  <2>1. Phases(op) = <<"left", "value", "right", "value", "binary">>
    BY <1>2, <1>3, <1>9, Operators DEF Phases
  <2>2. p \in {0, 1, 2, 3, 4}
    BY <1>1, <1>9
  <2>. HIDE DEF op, p
  <2>. QED BY <1>4, <1>5, <1>6, <1>9, <2>1, <2>2 DEF SimpleRow, Row, op, p
<1>10. CASE op \in Logicals
  <2>1. Phases(op) = <<"left", "value", "decide", "value", "logical">>
    BY <1>2, <1>3, <1>10, Operators DEF Phases
  <2>2. p \in {0, 1, 2, 3, 4}
    BY <1>1, <1>10
  <2>. HIDE DEF op, p
  <2>. QED BY <1>4, <1>5, <1>6, <1>10, <2>1, <2>2 DEF SimpleRow, Row, op, p
<1>. QED BY <1>7, <1>8, <1>9, <1>10 DEF Simple

LEMMA CallRows ==
  ASSUME NEW e, EntryOK(e), e.node.op = "Call"
  PROVE  CallRow(e)
<1>. DEFINE p == e.phase
<1>1. p \in {0, 1, 2, 3, 4}
  BY DEF EntryOK, PhaseOK
<1>2. "Call" \notin Unary \cup Binary \cup Logicals \cup Assigning \cup Simple \cup Increments \cup Compounds
  BY Operators
<1>3. StepOf(e) = <<"right", "value", "left", "callee", "call">>[p + 1]
  BY <1>2 DEF StepOf, Phases
<1>4. Expect(e) = IF p = 0 THEN "nothing" ELSE <<"tuple", "arguments", "operand", "single">>[p]
  BY <1>2 DEF Expect, Waits
<1>5. Share(e) = IF p >= 3 THEN "arguments" ELSE "nothing"
  BY <1>2 DEF Share
<1>. HIDE DEF p
<1>. QED BY <1>1, <1>3, <1>4, <1>5 DEF CallRow, Row, p

LEMMA TupleRows ==
  ASSUME NEW e, EntryOK(e), e.node.op = "Tuple"
  PROVE  TupleRow(e)
<1>. DEFINE p == e.phase
<1>1. p \in Nat /\ (p = 0 \/ (p >= 1 /\ p % 8 \in {1, 2}))
  BY DEF EntryOK, PhaseOK
<1>2. "Tuple" \notin Unary \cup Binary \cup Logicals \cup Assigning \cup Simple \cup Increments \cup Compounds
  BY Operators
<1>3. StepOf(e) = IF p = 0 THEN "tuple" ELSE "element"
  BY <1>2 DEF StepOf
<1>4. Expect(e) = IF p = 0 \/ p % 8 = 1 THEN "nothing" ELSE "operand"
  BY <1>2 DEF Expect, Waits
<1>5. Share(e) = IF p >= 1 THEN "tuple" ELSE "nothing"
  BY <1>2 DEF Share
<1>. HIDE DEF p
<1>. QED BY <1>1, <1>3, <1>4, <1>5 DEF TupleRow, Row, p

LEMMA OtherRows ==
  ASSUME NEW e, EntryOK(e), e.node.op \in {"Literal", "Name", "Parenthesis"} \cup Markers
  PROVE  OtherRow(e)
<1>. DEFINE op == e.node.op  p == e.phase
<1>1. /\ p \in Nat /\ (op \notin {"Expression", "EvaluateTuple"} => p = 0)
      /\ (op = "Expression" => p \in {0, 1})
  BY DEF EntryOK, PhaseOK, Markers
<1>2. op \notin Unary \cup Binary \cup Logicals \cup Assigning \cup Simple \cup Increments \cup Compounds
  BY Operators
<1>3. CASE op \in {"Literal", "Name", "Parenthesis"}
  <2>1. Phases(op)[1] = op
    BY <1>2, <1>3 DEF Phases
  <2>2. StepOf(e) = op /\ Expect(e) = "nothing" /\ Share(e) = "nothing"
    BY <1>1, <1>2, <1>3, <2>1 DEF StepOf, Expect, Share, Waits
  <2>. QED BY <1>1, <1>3, <2>2 DEF OtherRow, Row
<1>4. CASE op \in {"PostPostfix", "RestoreTemporaryLock"}
  <2>1. Phases(op)[1] = op
    BY <1>2, <1>4 DEF Phases
  <2>2. StepOf(e) = op /\ Expect(e) = (IF op = "PostPostfix" THEN "single" ELSE "rvalue")
    BY <1>1, <1>2, <1>4, <2>1 DEF StepOf, Expect, Waits
  <2>3. Share(e) = (IF op = "PostPostfix" THEN "rvalue" ELSE "nothing")
    BY <1>1, <1>2, <1>4 DEF Share
  <2>. QED BY <1>1, <1>4, <2>2, <2>3 DEF OtherRow, Row
<1>5. CASE op = "Expression"
  <2>1. Phases(op) = <<"value", "end">>
    BY <1>2, <1>5 DEF Phases
  <2>2. StepOf(e) = <<"value", "end">>[p + 1]
    BY <1>2, <1>5, <2>1 DEF StepOf
  <2>3. Expect(e) = (IF p = 0 THEN "operand" ELSE "value") /\ Share(e) = "nothing"
    BY <1>2, <1>5 DEF Expect, Share, Waits
  <2>. HIDE DEF op, p
  <2>. QED BY <1>1, <1>5, <2>2, <2>3 DEF OtherRow, Row, op, p
<1>6. CASE op = "EvaluateTuple"
  <2>1. p % 2 \in {0, 1} /\ (p % 2 = 1 => p >= 1) /\ (p >= 1 <=> p # 0)
    BY <1>1
  <2>2. StepOf(e) = IF p % 2 = 0 THEN "extract" ELSE "value"
    BY <1>2, <1>6 DEF StepOf
  <2>3. Expect(e) = IF p = 0 THEN "tuple" ELSE IF p % 2 = 0 THEN "value" ELSE "operand"
    BY <1>2, <1>6 DEF Expect, Waits
  <2>4. Share(e) = IF p >= 1 THEN "parts" ELSE "nothing"
    BY <1>2, <1>6 DEF Share
  <2>. HIDE DEF op, p
  <2>. QED BY <1>1, <1>6, <2>1, <2>2, <2>3, <2>4 DEF OtherRow, Row, op, p
<1>. QED BY <1>3, <1>4, <1>5, <1>6 DEF Markers

\* Each entry has an operator of one of these kinds.
LEMMA OperatorCases ==
  ASSUME NEW e, EntryOK(e)
  PROVE  /\ e = [node |-> e.node, phase |-> e.phase] /\ e.phase \in Nat
         /\ e.node.op \in Assigning \cup Simple \cup {"Call", "Tuple", "Literal", "Name", "Parenthesis"} \cup Markers
         /\ e.node.op \notin Markers => e.node \in Node \/ (e.node = Marker("Addition") /\ e.phase = 4)
<1>1. Marker("Addition").op = "Addition" /\ "Addition" \in Simple
  BY DEF Marker, Simple, Binary
<1>2. e.node \in Node => e.node.op \in Assigning \cup Simple \cup {"Call", "Tuple", "Literal", "Name", "Parenthesis"}
  BY NodeAssumption DEF Simple
<1>. QED BY <1>1, <1>2 DEF EntryOK, PhaseOK

(***************************************************************************)
(* Steps: the entry on top is replaced, by itself in another phase or by   *)
(* others, and what is above the values of those below it is new.          *)
(***************************************************************************)
Kinds(vs) == \A i \in 1..Len(vs) : vs[i].kind \in {"rvalue", "name", "ref", "method", "tuple", "map"}

Stacked(st, vs, sub, tm, calling) ==
  /\ IsSeq(st) /\ IsSeq(vs) /\ IsSeq(sub) /\ Kinds(vs)
  /\ Formed(st, vs, sub, tm, calling)

Opened(lo, mid, d) ==
  /\ IsSeq(stack) /\ stack # <<>> /\ IsSeq(Finished) /\ IsSeq(values) /\ IsSeq(subStack) /\ Kinds(values)
  /\ Below(Finished, values, subStack, temp, lo, d)
  /\ EntryOK(Entry) /\ Wanting(Finished) \in Above(Gives(Entry.node.op))
  /\ lo <= mid /\ mid <= Len(values)
  /\ Holds(values, temp, Entry, lo, mid) /\ Is(values, temp, Expect(Entry), mid, Len(values))
  /\ Marks(Entry) = 1 => subStack[d + 1] = lo + Offset(Entry)
  /\ Len(subStack) = d + Marks(Entry)

Fresh(us, sup, um, lo, d) ==
  /\ IsSeq(us) /\ IsSeq(sup) /\ Kinds(us) /\ temp \subseteq um
  /\ lo <= Len(us)
  /\ \A i \in 1..lo : us[i] = values[i]
  /\ \A i \in 1..d : sup[i] = subStack[i]

LEMMA TypedFacts ==
  ASSUME NEW t, Typed(t)
  PROVE  /\ t.kind \in {"rvalue", "name", "ref", "tuple"} /\ t.args \in BOOLEAN
         /\ t.kind = "rvalue" => t.v \in Value /\ t = [kind |-> "rvalue", v |-> t.v, args |-> t.args]
         /\ t.kind \in {"name", "ref"} => t.name \in Name /\ t = [kind |-> t.kind, name |-> t.name, args |-> t.args]
         /\ t.kind = "tuple" => IsTuple(t) /\ \A i \in 1..Len(t.parts) : IsPart(t.parts[i])
<1>1. CASE IsRvalue(t)
  BY <1>1 DEF IsRvalue
<1>2. CASE IsNamed(t)
  BY <1>2 DEF IsNamed
<1>3. CASE IsTuple(t) /\ \A i \in 1..Len(t.parts) : IsPart(t.parts[i])
  <2>1. t.kind = "tuple" /\ t.args \in BOOLEAN
    BY <1>3 DEF IsTuple
  <2>. QED BY <1>3, <2>1
<1>. QED BY <1>1, <1>2, <1>3, TypedCases

\* What is read of a variable or a value
LEMMA ReadFacts ==
  ASSUME NEW tm, NEW t, Readable(tm, t), vars \in [Name -> Primitive]
  PROVE  /\ Read(t) \in Value /\ t.kind \in {"rvalue", "ref"}
         /\ t.kind = "ref" => t.name \in tm /\ t.name \in Name /\ Read(t) \in Primitive
         /\ t.kind = "rvalue" => t = Rvalue(t.v) /\ Read(t) = t.v
<1>1. Typed(t) /\ ~t.args /\ (t.kind = "rvalue" \/ (t.kind = "ref" /\ t.name \in tm))
  BY DEF Readable, Single
<1>2. t.args = FALSE
  BY <1>1, TypedFacts
<1>3. CASE t.kind = "rvalue"
  <2>1. t.v \in Value /\ t = [kind |-> "rvalue", v |-> t.v, args |-> t.args]
    BY <1>1, <1>3, TypedFacts
  <2>2. t = Rvalue(t.v)
    BY <1>2, <2>1 DEF Rvalue
  <2>. QED BY <1>3, <2>1, <2>2 DEF Read
<1>4. CASE t.kind = "ref"
  <2>1. t.name \in Name
    BY <1>1, <1>4, TypedFacts
  <2>2. vars[t.name] \in Primitive
    BY <2>1
  <2>. QED BY <1>1, <1>4, <2>1, <2>2, PrimitiveValue DEF Read
<1>. QED BY <1>1, <1>3, <1>4

LEMMA RvalueFacts ==
  ASSUME NEW v \in Value
  PROVE  /\ Typed(Rvalue(v)) /\ Single(Rvalue(v)) /\ Rvalue(v).kind = "rvalue" /\ Rvalue(v).v = v
         /\ \A tm : Readable(tm, Rvalue(v))
         /\ v.t = "tuple" => IsArguments(Rvalue(v))
<1>1. IsRvalue(Rvalue(v)) /\ ~Rvalue(v).args /\ Rvalue(v).kind = "rvalue" /\ Rvalue(v).v = v
  BY DEF IsRvalue, Rvalue
<1>2. v.t = "tuple" => IsArguments(Rvalue(v))
  BY ValueCases DEF IsArguments
<1>. QED BY <1>1, <1>2, TypedLeaf DEF Single, Readable

LEMMA CutFacts ==
  ASSUME NEW s, IsSeq(s), Kinds(s), NEW n \in 0..Len(s)
  PROVE  /\ IsSeq(SubSeq(s, 1, n)) /\ Kinds(SubSeq(s, 1, n)) /\ Len(SubSeq(s, 1, n)) = n
         /\ \A i \in 1..n : SubSeq(s, 1, n)[i] = s[i]
<1>1. Len(s) \in Nat
  BY SeqFacts
<1>2. IsSeq(SubSeq(s, 1, n)) /\ Len(SubSeq(s, 1, n)) = n /\ \A i \in 1..n : SubSeq(s, 1, n)[i] = s[i]
  BY PrefixFacts
<1>3. \A i \in 1..n : i \in 1..Len(s)
  BY <1>1
<1>. QED BY <1>2, <1>3 DEF Kinds

LEMMA AddFacts ==
  ASSUME NEW s, IsSeq(s), Kinds(s), NEW x,
         x.kind \in {"rvalue", "name", "ref", "method", "tuple", "map"}
  PROVE  /\ IsSeq(Append(s, x)) /\ Kinds(Append(s, x)) /\ Len(Append(s, x)) = Len(s) + 1
         /\ \A i \in 1..Len(s) : Append(s, x)[i] = s[i]
         /\ Append(s, x)[Len(s) + 1] = x
<1>1. Len(s) \in Nat
  BY SeqFacts
<1>2. /\ IsSeq(Append(s, x)) /\ Len(Append(s, x)) = Len(s) + 1
      /\ \A i \in 1..Len(s) : Append(s, x)[i] = s[i]
      /\ Append(s, x)[Len(s) + 1] = x
  BY AppendFacts
<1>3. \A i \in 1..Len(s) + 1 : i \in 1..Len(s) \/ i = Len(s) + 1
  BY <1>1
<1>. QED BY <1>2, <1>3 DEF Kinds

LEMMA PutFacts ==
  ASSUME NEW s, IsSeq(s), Kinds(s), NEW n \in 1..Len(s), NEW x,
         x.kind \in {"rvalue", "name", "ref", "method", "tuple", "map"}
  PROVE  /\ IsSeq([s EXCEPT ![n] = x]) /\ Kinds([s EXCEPT ![n] = x]) /\ Len([s EXCEPT ![n] = x]) = Len(s)
         /\ [s EXCEPT ![n] = x][n] = x
         /\ \A i \in 1..Len(s) : i # n => [s EXCEPT ![n] = x][i] = s[i]
<1>1. IsSeq([s EXCEPT ![n] = x]) /\ Len([s EXCEPT ![n] = x]) = Len(s)
  BY ExceptFacts
<1>2. \A i \in 1..Len(s) : [s EXCEPT ![n] = x][i] = IF i = n THEN x ELSE s[i]
  BY ExceptFacts
<1>. DEFINE u == [s EXCEPT ![n] = x]
<1>. HIDE DEF u
<1>3. IsSeq(u) /\ Len(u) = Len(s) /\ \A i \in 1..Len(s) : u[i] = IF i = n THEN x ELSE s[i]
  BY <1>1, <1>2 DEF u
<1>4. Kinds(u)
  BY <1>3 DEF Kinds
<1>. QED BY <1>3, <1>4 DEF u

\* A part of a tuple is put on top again.
LEMMA PartFacts ==
  ASSUME NEW s, IsSeq(s), Kinds(s), NEW p, IsPart(p)
  PROVE  /\ IsSeq(s \o p) /\ Kinds(s \o p) /\ Len(s) < Len(s \o p)
         /\ \A i \in 1..Len(s) : (s \o p)[i] = s[i]
         /\ Operand(s \o p, Len(s), Len(s \o p))
<1>. DEFINE n == Len(s)  u == s \o p
<1>1. n \in Nat
  BY SeqFacts
<1>2. CASE p = <<p[1]>> /\ Typed(p[1]) /\ ~p[1].args
  <2>. DEFINE x == p[1]
  <2>0. p = <<x>>
    BY <1>2
  <2>. HIDE DEF x
  <2>5. IsSeq(p)
    BY <2>0, ShortSeqs
  <2>1. Len(p) = 1
    BY <2>0, ShortSeqs
  <2>2. IsSeq(u) /\ Len(u) = n + 1 /\ (\A i \in 1..n : u[i] = s[i]) /\ u[n + 1] = p[1]
    <3>1. /\ IsSeq(u) /\ Len(u) = n + Len(p) /\ \A i \in 1..n : u[i] = s[i]
      BY <2>5, ConcatFacts
    <3>4. \A i \in 1..Len(p) : u[n + i] = p[i]
      BY <2>5, ConcatFacts
    <3>2. 1 \in 1..Len(p)
      BY <2>1
    <3>. HIDE DEF u, n
    <3>. QED BY <2>1, <3>1, <3>2, <3>4
  <2>. HIDE DEF n, u
  <2>3. Kinds(u)
    <3>1. \A i \in 1..n + 1 : i \in 1..n \/ i = n + 1
      BY <1>1
    <3>. QED BY <1>2, <2>2, <3>1, TypedFacts DEF Kinds, n
  <2>4. Operand(u, n, Len(u))
    BY <1>2, <2>2 DEF Operand, Single
  <2>. QED BY <1>1, <2>2, <2>3, <2>4 DEF n, u
<1>3. CASE p = <<p[1], p[2]>> /\ IsArguments(p[1]) /\ Typed(p[2]) /\ p[2].args
  <2>. DEFINE x == p[1]  y == p[2]
  <2>0. p = <<x, y>>
    BY <1>3
  <2>. HIDE DEF x, y
  <2>5. IsSeq(p)
    BY <2>0, ShortSeqs
  <2>1. Len(p) = 2
    BY <2>0, ShortSeqs
  <2>2. IsSeq(u) /\ Len(u) = n + 2 /\ (\A i \in 1..n : u[i] = s[i]) /\ u[n + 1] = p[1] /\ u[n + 2] = p[2]
    <3>1. /\ IsSeq(u) /\ Len(u) = n + Len(p) /\ \A i \in 1..n : u[i] = s[i]
      BY <2>5, ConcatFacts
    <3>4. \A i \in 1..Len(p) : u[n + i] = p[i]
      BY <2>5, ConcatFacts
    <3>2. 1 \in 1..Len(p) /\ 2 \in 1..Len(p)
      BY <2>1
    <3>. HIDE DEF u, n
    <3>5. u[n + 1] = p[1]
      BY <3>2, <3>4
    <3>6. u[n + 2] = p[2]
      BY <3>2, <3>4
    <3>. QED BY <2>1, <3>1, <3>5, <3>6
  <2>. HIDE DEF n, u
  <2>3. Kinds(u)
    <3>1. \A i \in 1..n + 2 : i \in 1..n \/ i = n + 1 \/ i = n + 2
      BY <1>1
    <3>2. p[1].kind = "rvalue"
      BY <1>3, ArgumentsFacts
    <3>. QED BY <1>3, <2>2, <3>1, <3>2, TypedFacts DEF Kinds, n
  <2>4. Operand(u, n, Len(u))
    BY <1>3, <2>2 DEF Operand
  <2>. QED BY <1>1, <2>2, <2>3, <2>4 DEF n, u
<1>. QED BY <1>2, <1>3 DEF IsPart

LEMMA Opens ==
  ASSUME Stacked(stack, values, subStack, temp, FALSE), stack # <<>>
  PROVE  \E lo, mid, d \in Nat :
           Opened(lo, mid, d) /\ Below(stack, values, subStack, temp, mid, Len(subStack))
<1>1. IsSeq(stack) /\ IsSeq(values) /\ IsSeq(subStack) /\ Kinds(values)
  BY DEF Stacked
<1>2. PICK mid \in Nat, c \in Nat : /\ Below(stack, values, subStack, temp, mid, c)
                                    /\ mid <= Len(values) /\ Len(subStack) = c
                                    /\ Is(values, temp, Wanting(stack), mid, Len(values))
  BY DEF Stacked, Formed
<1>3. PICK lo \in Nat, d \in Nat :
        /\ Below(Finished, values, subStack, temp, lo, d)
        /\ Fits(Entry, Wanting(Finished), values, subStack, temp, lo, mid, d)
        /\ c = d + Marks(Entry)
  BY <1>1, <1>2, Split DEF Finished, Entry
<1>4. Wanting(stack) = Expect(Entry) /\ IsSeq(Finished)
  BY <1>1, SeqFacts, TopFacts DEF Wanting, ExpectOf, Entry, Finished
<1>. QED BY <1>1, <1>2, <1>3, <1>4 DEF Opened, Fits

LEMMA Rests ==
  ASSUME NEW st, IsSeq(st), NEW us, IsSeq(us), Kinds(us), NEW sup, IsSeq(sup), NEW um, NEW lo,
         Below(st, us, sup, um, lo, Len(sup)), lo <= Len(us),
         Is(us, um, Wanting(st), lo, Len(us))
  PROVE  Stacked(st, us, sup, um, FALSE)
<1>1. lo \in Nat /\ Len(sup) \in Nat
  BY BelowFacts
<1>. QED BY <1>1 DEF Stacked, Formed

LEMMA FreshBelow ==
  ASSUME NEW lo \in Nat, NEW mid \in Nat, NEW d \in Nat, Opened(lo, mid, d),
         NEW us, NEW sup, NEW um, Fresh(us, sup, um, lo, d)
  PROVE  Below(Finished, us, sup, um, lo, d)
BY SameBelow DEF Opened, Fresh

LEMMA Closes ==
  ASSUME NEW lo \in Nat, NEW mid \in Nat, NEW d \in Nat, Opened(lo, mid, d),
         NEW us, NEW sup, NEW um, Fresh(us, sup, um, lo, d), Len(sup) = d,
         Is(us, um, Gives(Entry.node.op), lo, Len(us))
  PROVE  Stacked(Finished, us, sup, um, FALSE)
<1>1. Below(Finished, us, sup, um, lo, d)
  BY FreshBelow
<1>2. Len(us) \in Nat
  BY SeqFacts DEF Fresh
<1>3. Is(us, um, Wanting(Finished), lo, Len(us))
  BY <1>2, AboveFacts DEF Opened
<1>. QED BY <1>1, <1>3, Rests DEF Opened, Fresh

\* The entry is left with the call of a function whose value is its own.
LEMMA ClosesToCall ==
  ASSUME NEW lo \in Nat, NEW mid \in Nat, NEW d \in Nat, Opened(lo, mid, d),
         NEW us, NEW sup, NEW um, Fresh(us, sup, um, lo, d), Len(sup) = d, Len(us) = lo,
         Gives(Entry.node.op) \in Above("rvalue")
  PROVE  Stacked(Finished, us, sup, um, TRUE)
<1>1. Below(Finished, us, sup, um, lo, d)
  BY FreshBelow
<1>2. Wanting(Finished) \in Above("rvalue")
  BY AboveFacts DEF Opened
<1>. QED BY <1>1, <1>2 DEF Stacked, Formed, Opened, Fresh

LEMMA Goes ==
  ASSUME NEW lo \in Nat, NEW mid \in Nat, NEW d \in Nat, Opened(lo, mid, d),
         NEW us, NEW sup, NEW um, Fresh(us, sup, um, lo, d),
         NEW q, EntryOK([node |-> Entry.node, phase |-> q]), NEW top \in Nat, lo <= top,
         Holds(us, um, [node |-> Entry.node, phase |-> q], lo, top),
         Marks([node |-> Entry.node, phase |-> q]) = 1 => sup[d + 1] = lo + Offset(Entry),
         Len(sup) = d + Marks([node |-> Entry.node, phase |-> q])
  PROVE  /\ IsSeq(ToPhase(q)) /\ Below(ToPhase(q), us, sup, um, top, Len(sup))
         /\ Wanting(ToPhase(q)) = Expect([node |-> Entry.node, phase |-> q])
         /\ ToPhase(q) = Append(Finished, [node |-> Entry.node, phase |-> q])
<1>. DEFINE e == [node |-> Entry.node, phase |-> q]
<1>1. Entry = [node |-> Entry.node, phase |-> Entry.phase]
  BY DEF Opened, EntryOK
<1>2. ToPhase(q) = Append(Finished, e)
  <2>1. [Entry EXCEPT !.phase = q] = e
    BY <1>1
  <2>2. ToPhase(q) = [stack EXCEPT ![Len(stack)] = [Entry EXCEPT !.phase = q]]
    BY DEF ToPhase, Entry
  <2>3. IsSeq(stack) /\ stack # <<>>
    BY DEF Opened
  <2>. HIDE DEF e
  <2>4. [stack EXCEPT ![Len(stack)] = e] = Append(Finished, e)
    BY <2>3, TopFacts DEF Finished
  <2>. QED BY <2>1, <2>2, <2>4
<1>3. Below(Finished, us, sup, um, lo, d) /\ IsSeq(Finished)
  BY FreshBelow DEF Opened
<1>4. Fits(e, Wanting(Finished), us, sup, um, lo, top, d)
  <2>1. e.node = Entry.node /\ Offset(e) = Offset(Entry)
    BY DEF Offset
  <2>. HIDE DEF e
  <2>2. EntryOK(e) /\ Holds(us, um, e, lo, top) /\ (Marks(e) = 1 => sup[d + 1] = lo + Offset(Entry))
    BY DEF e
  <2>. QED BY <2>1, <2>2 DEF Fits, Opened
<1>. HIDE DEF e
<1>5. Below(Append(Finished, e), us, sup, um, top, d + Marks(e))
  BY <1>3, <1>4, Extend
<1>6. IsSeq(Append(Finished, e)) /\ Wanting(Append(Finished, e)) = Expect(e)
  <2>1. /\ IsSeq(Append(Finished, e)) /\ Len(Append(Finished, e)) = Len(Finished) + 1
        /\ Append(Finished, e)[Len(Finished) + 1] = e /\ Len(Finished) \in Nat
    BY <1>3, AppendFacts, SeqFacts
  <2>. QED BY <2>1 DEF Wanting, ExpectOf
<1>. QED BY <1>2, <1>5, <1>6 DEF e

\* A node in its first phase
LEMMA NodeStarts ==
  ASSUME NEW n \in Node
  PROVE  LET e == At0(n)
         IN  /\ EntryOK(e) /\ Marks(e) = 0 /\ Expect(e) = "nothing" /\ Share(e) = "nothing"
             /\ "operand" \in Above(Gives(n.op)) /\ (n.op = "Tuple" => "tuple" \in Above(Gives(n.op)))
<1>. DEFINE e == At0(n)
<1>1. e.node = n /\ e.phase = 0 /\ e = [node |-> e.node, phase |-> e.phase]
  BY DEF At0
<1>2. n.op \in {"Literal", "Name", "Parenthesis", "Call", "Tuple"} \cup Simple \cup Assigning
  BY NodeAssumption DEF Simple
<1>3. n.op \notin Markers
  BY <1>2, Operators DEF Markers
<1>. HIDE DEF e
<1>4. Expect(e) = "nothing"
  BY <1>1, <1>3 DEF Expect, Waits, Markers
<1>5. Share(e) = "nothing"
  BY <1>1, <1>3 DEF Share, Markers
<1>6. EntryOK(e)
  <2>1. e.phase = 0 /\ e.node \in Node /\ 0 \in Nat /\ 0 \in (0..8) \cup {10, 20}
        /\ 0 \notin {4, 5} /\ 0 \notin {4, 5, 6} /\ 0 <= 1 /\ 0 <= 2 /\ 0 <= 4
    BY <1>1
  <2>. DEFINE op == e.node.op  p == e.phase
  <2>2. e = [node |-> e.node, phase |-> p] /\ p \in Nat /\ e.node \in Node /\ p = 0
    BY <1>1, <2>1
  <2>3. /\ op \in {"Literal", "Name", "Parenthesis", "PostPostfix", "RestoreTemporaryLock"} => p = 0
        /\ op \in Unary \cup {"Conditional"} => p <= 2
        /\ op \in Binary \cup Logicals \cup {"Call"} => p <= 4
        /\ op = "Expression" => p <= 1
        /\ op \in Assigning => p \in (0..8) \cup {10, 20} \/ p >= 40
        /\ op \in Increments => p \notin {4, 5}
        /\ op \in {"Assignment", "Pair"} => p \notin {4, 5, 6}
    BY <2>1
  <2>. HIDE DEF op, p
  <2>. QED BY <2>2, <2>3 DEF EntryOK, PhaseOK, op, p
<1>7. Marks(e) = 0
  BY <1>1 DEF Marks
<1>8. "operand" \in Above(Gives(n.op)) /\ (n.op = "Tuple" => "tuple" \in Above(Gives(n.op)))
  <2>1. /\ n.op \in {"Parenthesis", "Conditional", "Call"} => Gives(n.op) = "operand"
        /\ n.op = "Tuple" => Gives(n.op) = "tuple"
        /\ n.op \in {"Name"} \cup Assigning => Gives(n.op) = "single"
        /\ n.op \notin {"Parenthesis", "Conditional", "Call", "Name", "Tuple"} \cup Assigning => Gives(n.op) = "rvalue"
    BY <1>3, Operators DEF Gives, Markers
  <2>. QED BY <2>1 DEF Above
<1>. QED BY <1>4, <1>5, <1>6, <1>7, <1>8 DEF e

LEMMA Starts ==
  ASSUME NEW st, IsSeq(st), NEW us, IsSeq(us), Kinds(us), NEW sup, IsSeq(sup), NEW um,
         Below(st, us, sup, um, Len(us), Len(sup)),
         NEW n \in Node, Wanting(st) = "operand" \/ (Wanting(st) = "tuple" /\ n.op = "Tuple")
  PROVE  Stacked(Append(st, At0(n)), us, sup, um, FALSE)
<1>. DEFINE e == At0(n)
<1>1. Len(us) \in Nat /\ Len(sup) \in Nat
  BY SeqFacts
<1>2. /\ EntryOK(e) /\ Marks(e) = 0 /\ Expect(e) = "nothing" /\ Share(e) = "nothing"
      /\ Wanting(st) \in Above(Gives(e.node.op))
  BY NodeStarts DEF At0
<1>. HIDE DEF e
<1>3. Holds(us, um, e, Len(us), Len(us))
  BY <1>2 DEF Holds, Is
<1>4. Fits(e, Wanting(st), us, sup, um, Len(us), Len(us), Len(sup))
  BY <1>1, <1>2, <1>3 DEF Fits
<1>5. Below(Append(st, e), us, sup, um, Len(us), Len(sup))
  <2>1. Below(Append(st, e), us, sup, um, Len(us), Len(sup) + Marks(e))
    BY <1>1, <1>4, Extend
  <2>. QED BY <1>1, <1>2, <2>1
<1>6. IsSeq(Append(st, e)) /\ Wanting(Append(st, e)) = "nothing"
  <2>1. /\ IsSeq(Append(st, e)) /\ Len(Append(st, e)) = Len(st) + 1
        /\ Append(st, e)[Len(st) + 1] = e /\ Len(st) \in Nat
    BY AppendFacts, SeqFacts
  <2>. QED BY <1>2, <2>1 DEF Wanting, ExpectOf
<1>7. Is(us, um, "nothing", Len(us), Len(us))
  BY DEF Is
<1>8. Stacked(Append(st, e), us, sup, um, FALSE)
  <2>1. Is(us, um, Wanting(Append(st, e)), Len(us), Len(us)) /\ Len(us) <= Len(us)
    BY <1>1, <1>6, <1>7
  <2>. QED BY <1>5, <1>6, <2>1, Rests
<1>. QED BY <1>8 DEF e

(***************************************************************************)
(* The next phases of an entry.                                            *)
(***************************************************************************)
InPhase(e, q) == [node |-> e.node, phase |-> q]

LEMMA RowCases ==
  ASSUME NEW e, EntryOK(e)
  PROVE  /\ e.phase \in Nat
         /\ \/ e.node.op \in Assigning /\ AssigningRow(e)
            \/ e.node.op \in Simple /\ SimpleRow(e)
            \/ e.node.op = "Call" /\ CallRow(e)
            \/ e.node.op = "Tuple" /\ TupleRow(e)
            \/ e.node.op \in {"Literal", "Name", "Parenthesis"} \cup Markers /\ OtherRow(e)
BY OperatorCases, AssigningRows, SimpleRows, CallRows, TupleRows, OtherRows

LEMMA Phased ==
  ASSUME NEW e, EntryOK(e), e.node \in Node \/ e.node.op \in Markers,
         NEW q \in Nat, PhaseOK(e.node, q)
  PROVE  /\ EntryOK(InPhase(e, q))
         /\ InPhase(e, q).node = e.node /\ InPhase(e, q).phase = q
<1>1. InPhase(e, q).node = e.node /\ InPhase(e, q).phase = q
      /\ InPhase(e, q) = [node |-> InPhase(e, q).node, phase |-> InPhase(e, q).phase]
  BY DEF InPhase
<1>2. e.node \in Node \/ (e.node.op \in Markers /\ e.node = Marker(e.node.op))
  <2>1. Marker("Addition").op = "Addition" /\ "Addition" \notin Markers
    BY DEF Marker, Markers
  <2>. QED BY <2>1 DEF EntryOK
<1>. QED BY <1>1, <1>2 DEF EntryOK

LEMMA AssigningPhase ==
  ASSUME NEW e, EntryOK(e), e.node.op \in Assigning, NEW q \in Nat,
         \/ q \in {1, 2, 3, 7, 8, 10, 20} \/ q >= 40
         \/ q \in {4, 5} /\ e.node.op \in Compounds
         \/ q = 6 /\ e.node.op \in Increments \cup Compounds
  PROVE  /\ EntryOK(InPhase(e, q)) /\ e.node \in Node
         /\ InPhase(e, q).node = e.node /\ InPhase(e, q).phase = q
         /\ AssigningRow(InPhase(e, q))
<1>1. e.node.op \notin Markers /\ "Addition" \notin Assigning
  BY Operators DEF Binary
<1>2. e.node \in Node
  BY <1>1, OperatorCases DEF Marker
<1>3. PhaseOK(e.node, q)
  <2>1. e.node.op \notin Unary \cup Binary \cup Logicals \cup Markers \cup {"Literal", "Name", "Parenthesis", "Call", "Tuple", "Conditional"}
    BY Operators
  <2>2. e.node.op \notin {"Expression", "PostPostfix", "RestoreTemporaryLock"}
    BY <2>1 DEF Markers
  <2>3. /\ e.node.op \in Increments => q \notin {4, 5}
        /\ e.node.op \in {"Assignment", "Pair"} => q \notin {4, 5, 6}
    BY Operators
  <2>4. q \in (0..8) \cup {10, 20} \/ q >= 40
    OBVIOUS
  <2>. QED BY <2>1, <2>2, <2>3, <2>4 DEF PhaseOK
<1>4. EntryOK(InPhase(e, q)) /\ InPhase(e, q).node = e.node /\ InPhase(e, q).phase = q
  BY <1>2, <1>3, Phased
<1>. QED BY <1>2, <1>4, AssigningRows

LEMMA SimplePhase ==
  ASSUME NEW e, EntryOK(e), e.node.op \in Simple, e.phase # 4, NEW q \in Nat,
         q <= 2 \/ (q <= 4 /\ e.node.op \in Binary \cup Logicals)
  PROVE  /\ EntryOK(InPhase(e, q)) /\ e.node \in Node
         /\ InPhase(e, q).node = e.node /\ InPhase(e, q).phase = q
         /\ SimpleRow(InPhase(e, q))
<1>1. e.node.op \notin Markers
  BY Operators
<1>2. e.node \in Node
  BY <1>1, OperatorCases
<1>3. PhaseOK(e.node, q)
  <2>1. e.node.op \notin Assigning \cup Increments \cup Markers \cup {"Literal", "Name", "Parenthesis", "Call", "Tuple", "Assignment", "Pair"}
    BY Operators
  <2>2. e.node.op \notin {"Expression", "PostPostfix", "RestoreTemporaryLock"}
    BY <2>1 DEF Markers
  <2>3. e.node.op \in Unary \cup {"Conditional"} => q <= 2
    BY Operators
  <2>4. q <= 4
    OBVIOUS
  <2>. QED BY <2>1, <2>2, <2>3, <2>4 DEF PhaseOK
<1>4. EntryOK(InPhase(e, q)) /\ InPhase(e, q).node = e.node /\ InPhase(e, q).phase = q
  BY <1>2, <1>3, Phased
<1>. QED BY <1>2, <1>4, SimpleRows

LEMMA CallPhase ==
  ASSUME NEW e, EntryOK(e), e.node.op = "Call", NEW q \in Nat, q <= 4
  PROVE  /\ EntryOK(InPhase(e, q)) /\ e.node \in Node
         /\ InPhase(e, q).node = e.node /\ InPhase(e, q).phase = q
         /\ CallRow(InPhase(e, q))
<1>1. "Call" \notin Unary \cup Binary \cup Logicals \cup Assigning \cup Markers \cup Increments
  BY Operators DEF Markers
<1>2. e.node \in Node
  BY <1>1, OperatorCases DEF Marker
<1>3. PhaseOK(e.node, q)
  BY <1>1 DEF PhaseOK
<1>4. EntryOK(InPhase(e, q)) /\ InPhase(e, q).node = e.node /\ InPhase(e, q).phase = q
  BY <1>2, <1>3, Phased
<1>. QED BY <1>2, <1>4, CallRows

LEMMA MarkerPhase ==
  ASSUME NEW e, EntryOK(e), NEW q \in Nat,
         e.node.op = "EvaluateTuple" \/ (e.node.op = "Expression" /\ q <= 1)
  PROVE  /\ EntryOK(InPhase(e, q))
         /\ InPhase(e, q).node = e.node /\ InPhase(e, q).phase = q
         /\ OtherRow(InPhase(e, q))
<1>1. e.node.op \in Markers
  BY DEF Markers
<1>2. e.node.op \notin Unary \cup Binary \cup Logicals \cup Assigning \cup Increments
  BY <1>1, Operators
<1>3. PhaseOK(e.node, q)
  BY <1>2 DEF PhaseOK
<1>4. EntryOK(InPhase(e, q)) /\ InPhase(e, q).node = e.node /\ InPhase(e, q).phase = q
  BY <1>1, <1>3, Phased
<1>. QED BY <1>1, <1>4, OtherRows

LEMMA TuplePhases ==
  ASSUME NEW e, EntryOK(e), e.node.op = "Tuple", NEW q \in Nat,
         \/ q % 8 = 1 /\ (q - 1) \div 8 <= Len(e.node.subNodes)
         \/ q % 8 = 2 /\ (q - 1) \div 8 < Len(e.node.subNodes)
  PROVE  /\ EntryOK(InPhase(e, q)) /\ e.node \in Node
         /\ InPhase(e, q).node = e.node /\ InPhase(e, q).phase = q
         /\ TupleRow(InPhase(e, q))
<1>1. "Tuple" \notin Unary \cup Binary \cup Logicals \cup Assigning \cup Markers \cup Increments
  BY Operators DEF Markers
<1>2. e.node \in Node
  BY <1>1, OperatorCases DEF Marker
<1>3. PhaseOK(e.node, q)
  BY <1>1 DEF PhaseOK
<1>4. EntryOK(InPhase(e, q)) /\ InPhase(e, q).node = e.node /\ InPhase(e, q).phase = q
  BY <1>2, <1>3, Phased
<1>. QED BY <1>2, <1>4, TupleRows

\* An entry marks a tuple in these phases.
LEMMA MarksCases ==
  ASSUME NEW e, e.phase \in Nat
  PROVE  /\ e.node.op \in Assigning /\ e.phase < 40 => Marks(e) = 0
         /\ e.node.op \in Assigning /\ e.phase >= 40 => Marks(e) = 1 /\ Offset(e) = 2
         /\ e.node.op = "Tuple" /\ e.phase = 0 => Marks(e) = 0
         /\ e.node.op = "Tuple" /\ e.phase > 0 => Marks(e) = 1 /\ Offset(e) = 1
         /\ e.node.op \notin Assigning \cup {"Tuple"} => Marks(e) = 0
<1>1. "Tuple" \notin Assigning
  BY Operators
<1>. QED BY <1>1 DEF Marks, Offset

(***************************************************************************)
(* A phase that pushes an operand: what the entry has got it holds.        *)
(***************************************************************************)
Pushing(e, f) ==
  \/ Share(e) = "nothing" /\ Share(f) = Expect(e) /\ Share(f) \notin {"assignment", "parts"}
  \/ Share(e) = "operand" /\ Expect(e) = "value" /\ Share(f) = "pair"

LEMMA Pushes ==
  ASSUME NEW lo \in Nat, NEW mid \in Nat, NEW d \in Nat, Opened(lo, mid, d),
         NEW q, EntryOK(InPhase(Entry, q)), Marks(Entry) = 0, Marks(InPhase(Entry, q)) = 0,
         Pushing(Entry, InPhase(Entry, q)),
         Entry.node \in Node, NEW i \in 1..Len(Entry.node.subNodes),
         LET x == Expect(InPhase(Entry, q))
         IN  x = "operand" \/ (x = "tuple" /\ Entry.node.subNodes[i].op = "Tuple")
  PROVE  Stacked(Append(ToPhase(q), SubNode(i)), values, subStack, temp, FALSE)
<1>. DEFINE e == InPhase(Entry, q)  L == Len(values)
<1>1. IsSeq(values) /\ IsSeq(subStack) /\ Kinds(values) /\ L \in Nat /\ lo <= mid /\ mid <= L /\ Len(subStack) = d
  BY SeqFacts DEF Opened
<1>2. Fresh(values, subStack, temp, lo, d)
  BY <1>1 DEF Fresh
<1>3. Holds(values, temp, e, lo, L)
  <2>1. CASE Share(Entry) = "nothing" /\ Share(e) = Expect(Entry) /\ Share(e) \notin {"assignment", "parts"}
    <3>1. mid = lo
      BY <2>1 DEF Opened, Holds, Is
    <3>. QED BY <2>1, <3>1 DEF Opened, Holds
  <2>2. CASE Share(Entry) = "operand" /\ Expect(Entry) = "value" /\ Share(e) = "pair"
    <3>1. Operand(values, lo, mid)
      BY <2>2 DEF Opened, Holds, Is
    <3>2. L = mid + 1 /\ Readable(temp, values[L])
      BY <2>2 DEF Opened, Is
    <3>3. L - 1 = mid
      BY <1>1, <3>2
    <3>4. Is(values, temp, "pair", lo, L)
      BY <3>1, <3>2, <3>3 DEF Is
    <3>. QED BY <2>2, <3>4 DEF Holds
  <2>. QED BY <2>1, <2>2 DEF Pushing
<1>4. /\ IsSeq(ToPhase(q)) /\ Below(ToPhase(q), values, subStack, temp, L, Len(subStack))
      /\ Wanting(ToPhase(q)) = Expect(e)
  BY <1>1, <1>2, <1>3, Goes DEF InPhase
<1>5. Entry.node.subNodes[i] \in Node
  BY NodeAssumption
<1>. QED BY <1>1, <1>4, <1>5, Starts DEF SubNode

(***************************************************************************)
(* The phases, one by one.                                                 *)
(***************************************************************************)
Ready == Stacked(stack, values, subStack, temp, FALSE) /\ vars \in [Name -> Primitive]

LEMMA Begins ==
  ASSUME Ready, stack # <<>>
  PROVE  \E lo, mid, d \in Nat :
           /\ Opened(lo, mid, d) /\ Below(stack, values, subStack, temp, mid, Len(subStack))
           /\ EntryOK(Entry) /\ Entry.phase \in Nat
           /\ IsSeq(values) /\ IsSeq(subStack) /\ Kinds(values) /\ IsSeq(stack) /\ IsSeq(Finished)
           /\ Len(values) \in Nat /\ Len(subStack) = d + Marks(Entry)
           /\ lo <= mid /\ mid <= Len(values)
           /\ Holds(values, temp, Entry, lo, mid)
           /\ Is(values, temp, Expect(Entry), mid, Len(values))
<1>1. PICK lo \in Nat, mid \in Nat, d \in Nat :
        Opened(lo, mid, d) /\ Below(stack, values, subStack, temp, mid, Len(subStack))
  BY Opens DEF Ready
<1>2. Len(values) \in Nat /\ Entry.phase \in Nat
  BY <1>1, SeqFacts DEF Opened, EntryOK
<1>. QED BY <1>1, <1>2 DEF Opened

LEMMA Ends ==
  ASSUME NEW lo \in Nat, NEW mid \in Nat, NEW d \in Nat, Opened(lo, mid, d), Marks(Entry) = 0,
         NEW w, IsSeq(w), Kinds(w), Len(w) = lo, \A i \in 1..lo : w[i] = values[i], NEW x,
         \/ Gives(Entry.node.op) = "rvalue" /\ Readable(temp, x) /\ x.kind = "rvalue"
         \/ Gives(Entry.node.op) = "single" /\ Single(x)
         \/ Gives(Entry.node.op) = "tuple" /\ Single(x) /\ x.kind = "tuple"
         \/ Gives(Entry.node.op) = "arguments" /\ IsArguments(x)
  PROVE  Stacked(Finished, Append(w, x), subStack, temp, FALSE)
<1>. DEFINE u == Append(w, x)
<1>1. x.kind \in {"rvalue", "name", "ref", "method", "tuple", "map"}
  BY TypedFacts, ArgumentsFacts DEF Readable, Single
<1>2. IsSeq(u) /\ Kinds(u) /\ Len(u) = lo + 1 /\ (\A i \in 1..lo : u[i] = w[i]) /\ u[lo + 1] = x
  BY <1>1, AddFacts
<1>. HIDE DEF u
<1>3. Is(u, temp, Gives(Entry.node.op), lo, Len(u))
  BY <1>2 DEF Is
<1>4. Fresh(u, subStack, temp, lo, d) /\ Len(subStack) = d
  BY <1>2 DEF Fresh, Opened
<1>5. Stacked(Finished, u, subStack, temp, FALSE)
  BY <1>3, <1>4, Closes
<1>. QED BY <1>5 DEF u

LEMMA GivesFacts ==
  /\ \A op \in Unary \cup Binary \cup Logicals : Gives(op) = "rvalue"
  /\ \A op \in {"Name"} \cup Assigning : Gives(op) = "single"
  /\ \A op \in {"Parenthesis", "Conditional", "Call"} : Gives(op) = "operand"
  /\ Gives("Literal") = "rvalue" /\ Gives("Tuple") = "tuple" /\ Gives("EvaluateTuple") = "arguments"
  /\ Gives("PostPostfix") = "rvalue" /\ Gives("RestoreTemporaryLock") = "rvalue" /\ Gives("Expression") = "value"
<1>1. \A op \in Unary \cup Binary \cup Logicals :
        op \notin Assigning \cup {"Parenthesis", "Conditional", "Call", "Tuple", "EvaluateTuple", "Expression", "Name"}
  BY Operators DEF Markers, Simple
<1>2. \A op \in Assigning : op \notin {"Parenthesis", "Conditional", "Call", "Tuple", "EvaluateTuple", "Expression", "Name"}
  BY Operators DEF Markers, Simple
<1>3. /\ "Parenthesis" \notin Assigning /\ "Conditional" \notin Assigning /\ "Call" \notin Assigning /\ "Literal" \notin Assigning
      /\ "Tuple" \notin Assigning /\ "EvaluateTuple" \notin Assigning /\ "PostPostfix" \notin Assigning
      /\ "RestoreTemporaryLock" \notin Assigning /\ "Expression" \notin Assigning
  BY DEF Assigning, Increments, Compounds
<1>. QED BY <1>1, <1>2, <1>3 DEF Gives

LEMMA LiteralStep ==
  ASSUME Ready, Literal
  PROVE  Stacked(stack', values', subStack', temp', FALSE)
<1>1. PICK lo \in Nat, mid \in Nat, d \in Nat :
        /\ Opened(lo, mid, d) /\ EntryOK(Entry) /\ IsSeq(values) /\ Kinds(values) /\ Len(values) \in Nat
        /\ Holds(values, temp, Entry, lo, mid) /\ Is(values, temp, Expect(Entry), mid, Len(values))
        /\ Entry.phase \in Nat
  BY Begins DEF Literal, Doing
<1>2. StepOf(Entry) = "Literal"
  BY DEF Literal, Doing, Step
<1>3. Entry.node.op = "Literal" /\ Expect(Entry) = "nothing" /\ Share(Entry) = "nothing"
  BY <1>1, <1>2, RowCases DEF AssigningRow, SimpleRow, CallRow, TupleRow, OtherRow, Row
<1>4. lo = mid /\ mid = Len(values)
  BY <1>1, <1>3 DEF Holds, Is
<1>5. Entry.node.value \in Value
  <2>1. Entry.node \in Node
    BY <1>1, <1>3, OperatorCases DEF Markers, Marker
  <2>. QED BY <1>3, <2>1, NodeAssumption, PrimitiveValue
<1>6. Marks(Entry) = 0 /\ Gives(Entry.node.op) = "rvalue"
  BY <1>1, <1>3, MarksCases, GivesFacts, Operators
<1>7. Stacked(Finished, Append(values, Rvalue(Entry.node.value)), subStack, temp, FALSE)
  BY <1>1, <1>4, <1>5, <1>6, Ends, RvalueFacts
<1>. QED BY <1>7 DEF Literal, Stacks

LEMMA NameStep ==
  ASSUME Ready, NameOperand
  PROVE  Stacked(stack', values', subStack', temp', FALSE)
<1>1. PICK lo \in Nat, mid \in Nat, d \in Nat :
        /\ Opened(lo, mid, d) /\ EntryOK(Entry) /\ IsSeq(values) /\ Kinds(values) /\ Len(values) \in Nat
        /\ Holds(values, temp, Entry, lo, mid) /\ Is(values, temp, Expect(Entry), mid, Len(values))
        /\ Entry.phase \in Nat
  BY Begins DEF NameOperand, Doing
<1>2. StepOf(Entry) = "Name"
  BY DEF NameOperand, Doing, Step
<1>3. Entry.node.op = "Name" /\ Expect(Entry) = "nothing" /\ Share(Entry) = "nothing"
  BY <1>1, <1>2, RowCases DEF AssigningRow, SimpleRow, CallRow, TupleRow, OtherRow, Row
<1>4. lo = mid /\ mid = Len(values)
  BY <1>1, <1>3 DEF Holds, Is
<1>5. Entry.node.sid \in Name
  <2>1. Entry.node \in Node
    BY <1>1, <1>3, OperatorCases DEF Markers, Marker
  <2>. QED BY <1>3, <2>1, NodeAssumption
<1>6. Marks(Entry) = 0 /\ Gives(Entry.node.op) = "single"
  BY <1>1, <1>3, MarksCases, GivesFacts, Operators
<1>7. Single(NameTemp(Entry.node.sid))
  BY <1>5, TypedLeaf DEF Single, NameTemp, IsNamed
<1>8. Stacked(Finished, Append(values, NameTemp(Entry.node.sid)), subStack, temp, FALSE)
  BY <1>1, <1>4, <1>6, <1>7, Ends
<1>. QED BY <1>8 DEF NameOperand, Stacks

LEMMA ParenthesisStep ==
  ASSUME Ready, Parenthesis
  PROVE  Stacked(stack', values', subStack', temp', FALSE)
<1>1. PICK lo \in Nat, mid \in Nat, d \in Nat :
        /\ Opened(lo, mid, d) /\ EntryOK(Entry) /\ IsSeq(values) /\ Kinds(values) /\ Len(values) \in Nat
        /\ Holds(values, temp, Entry, lo, mid) /\ Is(values, temp, Expect(Entry), mid, Len(values))
        /\ Entry.phase \in Nat /\ IsSeq(Finished) /\ IsSeq(subStack) /\ Len(subStack) = d + Marks(Entry)
  BY Begins DEF Parenthesis, Doing
<1>2. StepOf(Entry) = "Parenthesis"
  BY DEF Parenthesis, Doing, Step
<1>3. Entry.node.op = "Parenthesis" /\ Expect(Entry) = "nothing" /\ Share(Entry) = "nothing"
  BY <1>1, <1>2, RowCases DEF AssigningRow, SimpleRow, CallRow, TupleRow, OtherRow, Row
<1>4. lo = mid /\ mid = Len(values)
  BY <1>1, <1>3 DEF Holds, Is
<1>5. Entry.node.subNodes[1] \in Node
  <2>1. Entry.node \in Node
    BY <1>1, <1>3, OperatorCases DEF Markers, Marker
  <2>2. Len(Entry.node.subNodes) = 1
    BY <1>3, <2>1, NodeAssumption DEF Arity, Binary
  <2>. QED BY <2>1, <2>2, NodeAssumption
<1>6. Marks(Entry) = 0 /\ Gives(Entry.node.op) = "operand"
  BY <1>1, <1>3, MarksCases, GivesFacts, Operators
<1>7. Wanting(Finished) = "operand"
  BY <1>1, <1>6 DEF Opened, Above
<1>8. Below(Finished, values, subStack, temp, Len(values), Len(subStack))
  BY <1>1, <1>4, <1>6 DEF Opened
<1>9. Stacked(Append(Finished, SubNode(1)), values, subStack, temp, FALSE)
  BY <1>1, <1>5, <1>7, <1>8, Starts DEF SubNode
<1>. QED BY <1>9 DEF Parenthesis, Stacks

LEMMA LeftStep ==
  ASSUME Ready, Left
  PROVE  Stacked(stack', values', subStack', temp', FALSE)
<1>1. PICK lo \in Nat, mid \in Nat, d \in Nat :
        Opened(lo, mid, d) /\ EntryOK(Entry) /\ Entry.phase \in Nat
  BY Begins DEF Left, Doing
<1>2. StepOf(Entry) = "left"
  BY DEF Left, Doing, Step
<1>. DEFINE e == Entry  q == Entry.phase + 1  f == InPhase(Entry, q)
<1>3. \/ e.node.op \in Simple \cup Assigning /\ e.phase = 0 /\ Share(e) = "nothing" /\ Expect(e) = "nothing"
      \/ e.node.op = "Call" /\ e.phase = 2 /\ Share(e) = "nothing" /\ Expect(e) = "arguments"
  BY <1>1, <1>2, RowCases DEF AssigningRow, SimpleRow, CallRow, TupleRow, OtherRow, Row
<1>4. /\ EntryOK(f) /\ e.node \in Node /\ f.node = e.node /\ f.phase = q
      /\ Expect(f) = "operand" /\ Share(f) = Expect(e)
  <2>1. CASE e.node.op \in Simple /\ e.phase = 0
    <3>1. EntryOK(f) /\ e.node \in Node /\ f.node = e.node /\ f.phase = 1 /\ q = 1 /\ SimpleRow(f)
      BY <1>1, <2>1, SimplePhase
    <3>. QED BY <1>3, <2>1, <3>1 DEF SimpleRow, Row
  <2>2. CASE e.node.op \in Assigning /\ e.phase = 0
    <3>1. EntryOK(f) /\ e.node \in Node /\ f.node = e.node /\ f.phase = 1 /\ q = 1 /\ AssigningRow(f)
      BY <1>1, <2>2, AssigningPhase
    <3>. QED BY <1>3, <2>2, <3>1 DEF AssigningRow, Row
  <2>3. CASE e.node.op = "Call" /\ e.phase = 2
    <3>1. EntryOK(f) /\ e.node \in Node /\ f.node = e.node /\ f.phase = 3 /\ q = 3 /\ CallRow(f)
      BY <1>1, <2>3, CallPhase
    <3>. QED BY <1>3, <2>3, <3>1 DEF CallRow, Row
  <2>. QED BY <1>3, <2>1, <2>2, <2>3
<1>5. Marks(e) = 0 /\ Marks(f) = 0
  BY <1>1, <1>3, <1>4, MarksCases, Operators
<1>6. 1 \in 1..Len(e.node.subNodes)
  <2>1. Len(e.node.subNodes) = Arity(e.node.op)
    BY <1>3, <1>4, NodeAssumption, Operators
  <2>2. Arity(e.node.op) >= 1
    BY <1>3, Operators DEF Arity
  <2>. QED BY <2>1, <2>2, <1>4, NodeAssumption
<1>. HIDE DEF f, q, e
<1>7. Pushing(e, f)
  BY <1>3, <1>4 DEF Pushing
<1>8. Stacked(Append(ToPhase(q), SubNode(1)), values, subStack, temp, FALSE)
  BY <1>1, <1>4, <1>5, <1>6, <1>7, Pushes DEF e, f
<1>. QED BY <1>8 DEF Left, Advanced, q

LEMMA RightStep ==
  ASSUME Ready, Right
  PROVE  Stacked(stack', values', subStack', temp', FALSE)
<1>1. PICK lo \in Nat, mid \in Nat, d \in Nat :
        Opened(lo, mid, d) /\ EntryOK(Entry) /\ Entry.phase \in Nat
  BY Begins DEF Right, Doing
<1>2. StepOf(Entry) = "right"
  BY DEF Right, Doing, Step
<1>. DEFINE e == Entry  q == Entry.phase + 1  f == InPhase(Entry, q)
<1>3. \/ e.node.op = "Call" /\ e.phase = 0 /\ Share(e) = "nothing" /\ Expect(e) = "nothing"
      \/ e.node.op \in {"Assignment", "Pair"} /\ e.phase = 1 /\ Share(e) = "nothing" /\ Expect(e) = "operand"
      \/ e.node.op \in Compounds /\ e.phase = 3 /\ Share(e) = "operand" /\ Expect(e) = "value"
      \/ e.node.op \in Binary /\ e.phase = 2 /\ Share(e) = "nothing" /\ Expect(e) = "value"
  BY <1>1, <1>2, RowCases DEF AssigningRow, SimpleRow, CallRow, TupleRow, OtherRow, Row
<1>4. /\ EntryOK(f) /\ e.node \in Node /\ f.node = e.node /\ f.phase = q
      /\ Pushing(e, f)
      /\ Expect(f) = (IF e.node.op = "Call" THEN "tuple" ELSE "operand")
  <2>1. CASE e.node.op \in Binary /\ e.phase = 2
    <3>1. EntryOK(f) /\ e.node \in Node /\ f.node = e.node /\ f.phase = 3 /\ q = 3 /\ SimpleRow(f)
      BY <1>1, <2>1, SimplePhase DEF Simple
    <3>2. e.node.op # "Call"
      BY <2>1, Operators DEF Simple
    <3>. QED BY <1>3, <2>1, <3>1, <3>2, Operators DEF SimpleRow, Row, Pushing
  <2>2. CASE e.node.op \in {"Assignment", "Pair"} /\ e.phase = 1
    <3>1. EntryOK(f) /\ e.node \in Node /\ f.node = e.node /\ f.phase = 2 /\ q = 2 /\ AssigningRow(f)
      BY <1>1, <2>2, AssigningPhase, Operators
    <3>. QED BY <1>3, <2>2, <3>1, Operators DEF AssigningRow, Row, Pushing
  <2>3. CASE e.node.op \in Compounds /\ e.phase = 3
    <3>1. EntryOK(f) /\ e.node \in Node /\ f.node = e.node /\ f.phase = 4 /\ q = 4 /\ AssigningRow(f)
      BY <1>1, <2>3, AssigningPhase, Operators
    <3>2. e.node.op # "Call"
      BY <2>3 DEF Compounds
    <3>. QED BY <1>3, <2>3, <3>1, <3>2, Operators DEF AssigningRow, Row, Pushing
  <2>4. CASE e.node.op = "Call" /\ e.phase = 0
    <3>1. EntryOK(f) /\ e.node \in Node /\ f.node = e.node /\ f.phase = 1 /\ q = 1 /\ CallRow(f)
      BY <1>1, <2>4, CallPhase
    <3>. QED BY <1>3, <2>4, <3>1 DEF CallRow, Row, Pushing
  <2>. QED BY <1>3, <2>1, <2>2, <2>3, <2>4
<1>5. Marks(e) = 0 /\ Marks(f) = 0
  <2>1. e.node.op \in Assigning \/ e.node.op \notin Assigning \cup {"Tuple"}
    BY <1>3, Operators DEF Simple
  <2>2. e.phase \in Nat /\ e.phase < 40 /\ q < 40 /\ q \in Nat
    BY <1>1, <1>3
  <2>. QED BY <1>4, <2>1, <2>2, MarksCases
<1>6. 2 \in 1..Len(e.node.subNodes) /\ (e.node.op = "Call" => e.node.subNodes[2].op = "Tuple")
  <2>0. e.node.op \in Binary \cup Compounds \cup {"Call", "Assignment", "Pair"} /\ e.node.op # "Tuple"
    BY <1>3 DEF Binary, Compounds
  <2>1. Len(e.node.subNodes) = Arity(e.node.op) /\ (e.node.op = "Call" => e.node.subNodes[2].op = "Tuple")
    BY <2>0, <1>4, NodeAssumption
  <2>2. Arity(e.node.op) = 2
    BY <2>0 DEF Arity, Binary, Compounds, Unary, Increments
  <2>. QED BY <2>1, <2>2, <1>4, NodeAssumption
<1>. HIDE DEF f, q, e
<1>8. Stacked(Append(ToPhase(q), SubNode(2)), values, subStack, temp, FALSE)
  BY <1>1, <1>4, <1>5, <1>6, Pushes DEF e, f
<1>. QED BY <1>8 DEF Right, Advanced, Stacks, q

LEMMA RaiseStep ==
  ASSUME Ready, NEW ex, Raise(ex)
  PROVE  Stacked(stack', values', subStack', temp', FALSE)
BY DEF Ready, Raise

\* The value of an operator takes the place of its operands, of which there are n.
LEMMA YieldStep ==
  ASSUME Ready, NEW lo \in Nat, NEW mid \in Nat, NEW d \in Nat, Opened(lo, mid, d), Marks(Entry) = 0,
         Gives(Entry.node.op) = "rvalue", NEW n \in Nat, Len(values) = lo + n,
         NEW r, r.ex = None => r.v \in Primitive, Yield(n, r)
  PROVE  Stacked(stack', values', subStack', temp', FALSE)
<1>1. CASE r.ex # None
  BY <1>1, RaiseStep DEF Yield
<1>2. CASE r.ex = None
  <2>1. Readable(temp, Rvalue(r.v)) /\ Rvalue(r.v).kind = "rvalue"
    BY <1>2, PrimitiveValue, RvalueFacts
  <2>2. IsSeq(values) /\ Kinds(values) /\ lo \in 0..Len(values) /\ Len(values) - n = lo
    BY DEF Opened
  <2>3. /\ IsSeq(WithoutTop(n)) /\ Kinds(WithoutTop(n)) /\ Len(WithoutTop(n)) = lo
        /\ \A i \in 1..lo : WithoutTop(n)[i] = values[i]
    BY <2>2, CutFacts DEF WithoutTop
  <2>4. Stacked(Finished, Append(WithoutTop(n), Rvalue(r.v)), subStack, temp, FALSE)
    BY <2>1, <2>3, Ends
  <2>. QED BY <1>2, <2>4 DEF Yield, Stacks
<1>. QED BY <1>1, <1>2

LEMMA UnaryStep ==
  ASSUME Ready, UnaryOperator
  PROVE  Stacked(stack', values', subStack', temp', FALSE)
<1>1. PICK lo \in Nat, mid \in Nat, d \in Nat :
        /\ Opened(lo, mid, d) /\ EntryOK(Entry) /\ Entry.phase \in Nat /\ Len(values) \in Nat
        /\ Holds(values, temp, Entry, lo, mid) /\ Is(values, temp, Expect(Entry), mid, Len(values))
  BY Begins DEF UnaryOperator, Doing
<1>2. StepOf(Entry) = "unary"
  BY DEF UnaryOperator, Doing, Step
<1>3. Entry.node.op \in Unary /\ Expect(Entry) = "value" /\ Share(Entry) = "nothing"
  BY <1>1, <1>2, RowCases DEF AssigningRow, SimpleRow, CallRow, TupleRow, OtherRow, Row
<1>4. lo = mid /\ Len(values) = mid + 1 /\ Readable(temp, Top)
  BY <1>1, <1>3 DEF Holds, Is, Top
<1>5. Marks(Entry) = 0 /\ Gives(Entry.node.op) = "rvalue"
  BY <1>1, <1>3, MarksCases, GivesFacts, Operators DEF Simple
<1>. DEFINE r == UnaryValue(Entry.node.op, Read(Top))
<1>6. r.ex = None => r.v \in Primitive
  BY <1>4, ReadFacts, UnaryGives DEF Ready
<1>7. Yield(1, r)
  BY DEF UnaryOperator
<1>. HIDE DEF r
<1>. QED BY <1>1, <1>4, <1>5, <1>6, <1>7, YieldStep

LEMMA BinaryStep ==
  ASSUME Ready, BinaryOperator
  PROVE  Stacked(stack', values', subStack', temp', FALSE)
<1>1. PICK lo \in Nat, mid \in Nat, d \in Nat :
        /\ Opened(lo, mid, d) /\ EntryOK(Entry) /\ Entry.phase \in Nat /\ Len(values) \in Nat
        /\ Holds(values, temp, Entry, lo, mid) /\ Is(values, temp, Expect(Entry), mid, Len(values))
  BY Begins DEF BinaryOperator, Doing
<1>2. StepOf(Entry) = "binary"
  BY DEF BinaryOperator, Doing, Step
<1>3. Entry.node.op \in Binary /\ Expect(Entry) = "value" /\ Share(Entry) = "value"
  BY <1>1, <1>2, RowCases DEF AssigningRow, SimpleRow, CallRow, TupleRow, OtherRow, Row
<1>4. mid = lo + 1 /\ Len(values) = mid + 1 /\ Readable(temp, Top) /\ Readable(temp, Second)
  <2>1. mid = lo + 1 /\ Readable(temp, values[mid])
    BY <1>1, <1>3 DEF Holds, Is
  <2>2. Len(values) = mid + 1 /\ Readable(temp, Top)
    BY <1>1, <1>3 DEF Is, Top
  <2>3. Len(values) - 1 = mid
    BY <2>1, <2>2
  <2>. QED BY <2>1, <2>2, <2>3 DEF Second
<1>5. Marks(Entry) = 0 /\ Gives(Entry.node.op) = "rvalue"
  BY <1>1, <1>3, MarksCases, GivesFacts, Operators DEF Simple
<1>. DEFINE r == BinaryValue(Entry.node.op, Read(Second), Read(Top))
<1>6. r.ex = None => r.v \in Primitive
  BY <1>4, ReadFacts, BinaryGives DEF Ready
<1>7. Yield(2, r) /\ Len(values) = lo + 2
  BY <1>4 DEF BinaryOperator
<1>. HIDE DEF r
<1>. QED BY <1>1, <1>5, <1>6, <1>7, YieldStep

LEMMA DecideStep ==
  ASSUME Ready, Decide
  PROVE  Stacked(stack', values', subStack', temp', FALSE)
<1>1. PICK lo \in Nat, mid \in Nat, d \in Nat :
        /\ Opened(lo, mid, d) /\ EntryOK(Entry) /\ Entry.phase \in Nat /\ Len(values) \in Nat
        /\ Holds(values, temp, Entry, lo, mid) /\ Is(values, temp, Expect(Entry), mid, Len(values))
  BY Begins DEF Decide, Doing
<1>2. StepOf(Entry) = "decide"
  BY DEF Decide, Doing, Step
<1>3. Entry.node.op \in Logicals /\ Entry.phase = 2 /\ Expect(Entry) = "value" /\ Share(Entry) = "nothing"
  BY <1>1, <1>2, RowCases DEF AssigningRow, SimpleRow, CallRow, TupleRow, OtherRow, Row
<1>4. lo = mid /\ Len(values) = mid + 1 /\ Readable(temp, Top)
  BY <1>1, <1>3 DEF Holds, Is, Top
<1>5. Marks(Entry) = 0 /\ Gives(Entry.node.op) = "rvalue"
  BY <1>1, <1>3, MarksCases, GivesFacts, Operators DEF Simple
<1>6. CASE Read(Top).t # "bool"
  BY <1>6, RaiseStep DEF Decide
<1>7. CASE Read(Top).t = "bool" /\ Yield(1, Good(Read(Top)))
  <2>1. Read(Top) \in Primitive
    BY <1>4, <1>7, ReadFacts, ValueCases DEF Ready
  <2>2. Good(Read(Top)).v \in Primitive
    BY <2>1 DEF Good
  <2>. QED BY <1>1, <1>4, <1>5, <1>7, <2>2, YieldStep
<1>8. CASE Stacks(Append(Advanced, SubNode(2)), values)
  <2>. DEFINE f == InPhase(Entry, 3)
  <2>1. EntryOK(f) /\ Entry.node \in Node /\ f.node = Entry.node /\ f.phase = 3 /\ SimpleRow(f)
    BY <1>1, <1>3, SimplePhase DEF Simple
  <2>2. Expect(f) = "operand" /\ Share(f) = "value"
    BY <1>3, <2>1, Operators DEF SimpleRow, Row
  <2>3. Marks(f) = 0
    BY <1>3, <2>1, MarksCases, Operators DEF Simple
  <2>4. 2 \in 1..Len(Entry.node.subNodes)
    <3>1. Entry.node.op # "Tuple" /\ Arity(Entry.node.op) = 2
      BY <1>3 DEF Arity, Logicals, Unary, Increments
    <3>. QED BY <2>1, <3>1, NodeAssumption
  <2>. HIDE DEF f
  <2>5. Pushing(Entry, f)
    BY <1>3, <2>2 DEF Pushing
  <2>6. Stacked(Append(ToPhase(3), SubNode(2)), values, subStack, temp, FALSE)
    BY <1>1, <1>5, <2>1, <2>2, <2>3, <2>4, <2>5, Pushes DEF f
  <2>7. Advanced = ToPhase(3)
    <3>1. Entry.phase + 1 = 3
      BY <1>3
    <3>. QED BY <3>1 DEF Advanced
  <2>. QED BY <1>8, <2>6, <2>7 DEF Stacks
<1>. QED BY <1>6, <1>7, <1>8 DEF Decide

LEMMA LogicalStep ==
  ASSUME Ready, LogicalOperator
  PROVE  Stacked(stack', values', subStack', temp', FALSE)
<1>1. PICK lo \in Nat, mid \in Nat, d \in Nat :
        /\ Opened(lo, mid, d) /\ EntryOK(Entry) /\ Entry.phase \in Nat /\ Len(values) \in Nat
        /\ Holds(values, temp, Entry, lo, mid) /\ Is(values, temp, Expect(Entry), mid, Len(values))
  BY Begins DEF LogicalOperator, Doing
<1>2. StepOf(Entry) = "logical"
  BY DEF LogicalOperator, Doing, Step
<1>3. Entry.node.op \in Logicals /\ Expect(Entry) = "value" /\ Share(Entry) = "value"
  BY <1>1, <1>2, RowCases DEF AssigningRow, SimpleRow, CallRow, TupleRow, OtherRow, Row
<1>4. Len(values) = lo + 2
  <2>1. mid = lo + 1
    BY <1>1, <1>3 DEF Holds, Is
  <2>2. Len(values) = mid + 1
    BY <1>1, <1>3 DEF Is
  <2>. QED BY <2>1, <2>2
<1>5. Marks(Entry) = 0 /\ Gives(Entry.node.op) = "rvalue"
  BY <1>1, <1>3, MarksCases, GivesFacts, Operators DEF Simple
<1>6. PICK r : Yield(2, r) /\ (r = Bad("UnsupportedOperationException") \/ \E b \in BOOLEAN : r = Good(BoolOf(b)))
  <2>1. ASSUME NEW l, NEW m, NEW op PROVE (IF op = "LogicalAnd" THEN IsTrue(l) /\ IsTrue(m) ELSE IsTrue(l) \/ IsTrue(m)) \in BOOLEAN
    BY DEF IsTrue
  <2>. QED BY <2>1 DEF LogicalOperator
<1>7. r.ex = None => r.v \in Primitive
  BY <1>6, PrimitiveMakes DEF Bad, Good, None
<1>. QED BY <1>1, <1>4, <1>5, <1>6, <1>7, YieldStep

LEMMA ChooseStep ==
  ASSUME Ready, Choose
  PROVE  Stacked(stack', values', subStack', temp', FALSE)
<1>1. PICK lo \in Nat, mid \in Nat, d \in Nat :
        /\ Opened(lo, mid, d) /\ EntryOK(Entry) /\ Entry.phase \in Nat /\ Len(values) \in Nat
        /\ Holds(values, temp, Entry, lo, mid) /\ Is(values, temp, Expect(Entry), mid, Len(values))
        /\ IsSeq(values) /\ Kinds(values) /\ IsSeq(Finished) /\ IsSeq(subStack) /\ Len(subStack) = d + Marks(Entry)
  BY Begins DEF Choose, Doing
<1>2. StepOf(Entry) = "choose"
  BY DEF Choose, Doing, Step
<1>3. Entry.node.op = "Conditional" /\ Entry.phase = 2 /\ Expect(Entry) = "value" /\ Share(Entry) = "nothing"
  BY <1>1, <1>2, RowCases DEF AssigningRow, SimpleRow, CallRow, TupleRow, OtherRow, Row
<1>4. lo = mid /\ Len(values) = mid + 1
  BY <1>1, <1>3 DEF Holds, Is
<1>5. Marks(Entry) = 0 /\ Gives(Entry.node.op) = "operand"
  BY <1>1, <1>3, MarksCases, GivesFacts, Operators DEF Simple
<1>6. CASE Read(Top).t # "bool"
  BY <1>6, RaiseStep DEF Choose
<1>7. CASE Read(Top).t = "bool"
  <2>1. PICK i \in {2, 3} : stack' = Append(Finished, SubNode(i)) /\ values' = WithoutTop(1)
                            /\ subStack' = subStack /\ temp' = temp
    BY <1>7 DEF Choose, Stacks
  <2>2. Entry.node.subNodes[i] \in Node
    <3>1. Entry.node \in Node
      BY <1>1, <1>3, OperatorCases DEF Markers, Marker
    <3>2. Len(Entry.node.subNodes) = 3
      BY <1>3, <3>1, NodeAssumption DEF Arity, Unary, Increments
    <3>. QED BY <3>1, <3>2, NodeAssumption
  <2>3. Len(values) - 1 = lo /\ lo \in 0..Len(values)
    BY <1>4
  <2>4. /\ IsSeq(WithoutTop(1)) /\ Kinds(WithoutTop(1)) /\ Len(WithoutTop(1)) = lo
        /\ \A j \in 1..lo : WithoutTop(1)[j] = values[j]
    BY <1>1, <2>3, CutFacts DEF WithoutTop
  <2>5. Fresh(WithoutTop(1), subStack, temp, lo, d)
    BY <1>1, <2>4 DEF Fresh
  <2>6. Below(Finished, WithoutTop(1), subStack, temp, Len(WithoutTop(1)), Len(subStack))
    BY <1>1, <1>5, <2>4, <2>5, FreshBelow
  <2>7. Wanting(Finished) = "operand"
    BY <1>1, <1>5 DEF Opened, Above
  <2>8. Stacked(Append(Finished, SubNode(i)), WithoutTop(1), subStack, temp, FALSE)
    BY <1>1, <2>2, <2>4, <2>6, <2>7, Starts DEF SubNode
  <2>. QED BY <2>1, <2>8
<1>. QED BY <1>6, <1>7

(***************************************************************************)
(* Phases that evaluate the temporary on top.                              *)
(***************************************************************************)
Onward == InPhase(Entry, Entry.phase + 1)

LEMMA PartsOnward ==
  ASSUME NEW vs, NEW tm, NEW p \in Nat, p % 2 = 1, NEW lo, NEW hi, Parts(vs, tm, p, lo, hi)
  PROVE  Parts(vs, tm, p + 1, lo, hi)
<1>1. (p - 1) \div 2 = ((p + 1) - 1) \div 2 /\ (p + 1) \div 2 = ((p + 1) + 1) \div 2
  OBVIOUS
<1>. QED BY <1>1 DEF Parts

LEMMA EvaluatingRows ==
  ASSUME EntryOK(Entry), StepOf(Entry) \in {"value", "callee"}
  PROVE  /\ Entry.phase \in Nat /\ EntryOK(Onward) /\ Onward.node = Entry.node /\ Onward.phase = Entry.phase + 1
         /\ Marks(Entry) = 0 /\ Marks(Onward) = 0
         /\ Expect(Entry) \in {"operand", "tuple"}
         /\ Expect(Onward) = IF StepOf(Entry) = "callee" THEN "single"
                             ELSE IF Expect(Entry) = "tuple" THEN "arguments" ELSE "value"
         /\ StepOf(Entry) = "callee" => Expect(Entry) = "operand"
         /\ \A vs, tm, lo, hi : Holds(vs, tm, Entry, lo, hi) => Holds(vs, tm, Onward, lo, hi)
<1>. DEFINE e == Entry  f == Onward
<1>1. /\ e.phase \in Nat
      /\ \/ e.node.op \in Simple /\ e.phase = 1 /\ Row(e, "value", "operand", "nothing")
         \/ e.node.op \in Binary \cup Logicals /\ e.phase = 3 /\ Row(e, "value", "operand", "value")
         \/ e.node.op \in {"Assignment", "Pair"} \cup Increments \cup Compounds /\ e.phase = 2 /\ Row(e, "value", "operand", "operand")
         \/ e.node.op \in Compounds /\ e.phase = 4 /\ Row(e, "value", "operand", "pair")
         \/ e.node.op = "Call" /\ e.phase = 1 /\ Row(e, "value", "tuple", "nothing")
         \/ e.node.op = "Call" /\ e.phase = 3 /\ Row(e, "callee", "operand", "arguments")
         \/ e.node.op = "Expression" /\ e.phase = 0 /\ Row(e, "value", "operand", "nothing")
         \/ e.node.op = "EvaluateTuple" /\ e.phase % 2 = 1 /\ Row(e, "value", "operand", "parts")
  BY RowCases DEF AssigningRow, SimpleRow, CallRow, TupleRow, OtherRow, Row
<1>2. EntryOK(f) /\ f.node = e.node /\ f.phase = e.phase + 1
      /\ Expect(f) = (IF StepOf(e) = "callee" THEN "single" ELSE IF Expect(e) = "tuple" THEN "arguments" ELSE "value")
      /\ (Share(f) = Share(e) /\ (Share(e) = "parts" => e.phase % 2 = 1)) /\ Share(e) # "assignment"
      /\ e.node.op # "Tuple" /\ (e.node.op \in Assigning => e.phase < 10)
  <2>1. CASE e.node.op \in Simple /\ e.phase = 1 /\ Row(e, "value", "operand", "nothing")
    <3>1. EntryOK(f) /\ f.node = e.node /\ f.phase = 2 /\ SimpleRow(f)
      BY <2>1, SimplePhase DEF Onward
    <3>2. e.node.op \notin Assigning \cup {"Tuple"}
      BY <2>1, Operators
    <3>. QED BY <1>1, <2>1, <3>1, <3>2 DEF SimpleRow, Row
  <2>2. CASE e.node.op \in Binary \cup Logicals /\ e.phase = 3 /\ Row(e, "value", "operand", "value")
    <3>1. EntryOK(f) /\ f.node = e.node /\ f.phase = 4 /\ SimpleRow(f)
      BY <2>2, SimplePhase DEF Onward, Simple
    <3>2. e.node.op \notin Assigning \cup {"Tuple"}
      BY <2>2, Operators DEF Simple
    <3>. QED BY <1>1, <2>2, <3>1, <3>2 DEF SimpleRow, Row
  <2>3. CASE e.node.op \in {"Assignment", "Pair"} \cup Increments \cup Compounds /\ e.phase = 2 /\ Row(e, "value", "operand", "operand")
    <3>1. EntryOK(f) /\ f.node = e.node /\ f.phase = 3 /\ AssigningRow(f)
      BY <2>3, AssigningPhase, Operators DEF Onward
    <3>2. e.node.op \in Assigning /\ e.node.op # "Tuple"
      BY <2>3, Operators
    <3>. QED BY <1>1, <2>3, <3>1, <3>2, Operators DEF AssigningRow, Row
  <2>4. CASE e.node.op \in Compounds /\ e.phase = 4 /\ Row(e, "value", "operand", "pair")
    <3>1. EntryOK(f) /\ f.node = e.node /\ f.phase = 5 /\ AssigningRow(f)
      BY <2>4, AssigningPhase, Operators DEF Onward
    <3>2. e.node.op \in Assigning /\ e.node.op # "Tuple"
      BY <2>4, Operators
    <3>. QED BY <1>1, <2>4, <3>1, <3>2, Operators DEF AssigningRow, Row
  <2>5. CASE e.node.op = "Call" /\ e.phase \in {1, 3} /\ e.phase \in Nat
    <3>1. EntryOK(f) /\ f.node = e.node /\ f.phase = e.phase + 1 /\ CallRow(f)
      BY <2>5, CallPhase DEF Onward
    <3>2. e.node.op \notin Assigning \cup {"Tuple", "Expression", "EvaluateTuple"} \cup Simple \cup Binary \cup Logicals
      BY <2>5, Operators
    <3>. QED BY <1>1, <2>5, <3>1, <3>2, Operators DEF CallRow, Row
  <2>6. CASE e.node.op = "Expression" /\ e.phase = 0 /\ Row(e, "value", "operand", "nothing")
    <3>1. EntryOK(f) /\ f.node = e.node /\ f.phase = 1 /\ OtherRow(f)
      BY <2>6, MarkerPhase DEF Onward
    <3>2. e.node.op \notin Assigning \cup {"Tuple"}
      BY <2>6, Operators DEF Markers
    <3>. QED BY <1>1, <2>6, <3>1, <3>2 DEF OtherRow, Row, Markers
  <2>7. CASE e.node.op = "EvaluateTuple" /\ e.phase % 2 = 1 /\ Row(e, "value", "operand", "parts")
    <3>1. EntryOK(f) /\ f.node = e.node /\ f.phase = e.phase + 1 /\ OtherRow(f)
      BY <1>1, <2>7, MarkerPhase DEF Onward
    <3>2. e.node.op \notin Assigning \cup {"Tuple"}
      BY <2>7, Operators DEF Markers
    <3>3. (e.phase + 1) % 2 = 0 /\ e.phase + 1 >= 1
      BY <1>1, <2>7
    <3>. QED BY <1>1, <2>7, <3>1, <3>2, <3>3 DEF OtherRow, Row
  <2>. QED BY <1>1, <2>1, <2>2, <2>3, <2>4, <2>5, <2>6, <2>7
<1>3. Marks(e) = 0 /\ Marks(f) = 0
  BY <1>1, <1>2, MarksCases
<1>. HIDE DEF e, f
<1>4. ASSUME NEW vs, NEW tm, NEW lo, NEW hi, Holds(vs, tm, e, lo, hi)
      PROVE  Holds(vs, tm, f, lo, hi)
  BY <1>1, <1>2, <1>4, PartsOnward DEF Holds
<1>. QED BY <1>1, <1>2, <1>3, <1>4 DEF Row, e, f

LEMMA Advances ==
  ASSUME NEW lo \in Nat, NEW mid \in Nat, NEW d \in Nat, Opened(lo, mid, d),
         StepOf(Entry) \in {"value", "callee"},
         NEW us, NEW um, Fresh(us, subStack, um, mid, d)
  PROVE  /\ IsSeq(Advanced) /\ Below(Advanced, us, subStack, um, mid, Len(subStack))
         /\ Wanting(Advanced) = Expect(Onward)
<1>1. EntryOK(Entry) /\ lo <= mid /\ Holds(values, temp, Entry, lo, mid) /\ IsSeq(us)
  BY DEF Opened, Fresh
<1>2. /\ Entry.phase \in Nat /\ EntryOK(Onward) /\ Marks(Entry) = 0 /\ Marks(Onward) = 0
      /\ Holds(values, temp, Onward, lo, mid) /\ Onward.phase \in Nat
  BY <1>1, EvaluatingRows
<1>3. Fresh(us, subStack, um, lo, d)
  <2>1. Len(us) \in Nat /\ mid <= Len(us)
    BY <1>1, SeqFacts DEF Fresh
  <2>. QED BY <1>1, <2>1 DEF Fresh
<1>4. Holds(us, um, Onward, lo, mid)
  <2>1. \A i \in lo + 1..mid : us[i] = values[i]
    BY DEF Fresh
  <2>. QED BY <1>2, <2>1, SameHolds DEF Fresh
<1>5. Len(subStack) = d
  BY <1>2 DEF Opened
<1>. QED BY <1>1, <1>2, <1>3, <1>4, <1>5, Goes DEF Onward, InPhase, Advanced

\* The temporary on top, with what is below it
LEMMA TopCases ==
  ASSUME NEW lo \in Nat, NEW mid \in Nat, NEW d \in Nat, Opened(lo, mid, d),
         Expect(Entry) \in {"operand", "tuple"}
  PROVE  /\ IsSeq(values) /\ Kinds(values) /\ Len(values) \in Nat /\ Len(values) > mid
         /\ Operand(values, mid, Len(values)) /\ Typed(Top)
         /\ Expect(Entry) = "tuple" => Top.kind = "tuple" /\ ~Top.args
         /\ ~Top.args => Len(values) = mid + 1 /\ Single(Top)
         /\ Top.args => Len(values) = mid + 2 /\ IsArguments(Second)
<1>1. IsSeq(values) /\ Kinds(values) /\ Len(values) \in Nat
  BY SeqFacts DEF Opened
<1>2. Operand(values, mid, Len(values))
  BY DEF Opened, Is, Operand
<1>3. Expect(Entry) = "tuple" => Top.kind = "tuple" /\ ~Top.args
  BY DEF Opened, Is, Single, Top
<1>4. \/ Len(values) = mid + 1 /\ Single(Top)
      \/ Len(values) = mid + 2 /\ IsArguments(values[mid + 1]) /\ Typed(Top) /\ Top.args
  BY <1>2 DEF Operand, Top
<1>5. Len(values) = mid + 2 => mid + 1 = Len(values) - 1
  OBVIOUS
<1>. QED BY <1>1, <1>2, <1>3, <1>4, <1>5 DEF Single, Second

LEMMA EvaluatingStep ==
  ASSUME Ready, Evaluating
  PROVE  /\ stack # <<>> /\ StepOf(Entry) \in {"value", "callee"}
         /\ ~Top.args => StepOf(Entry) = "value"
         /\ \E lo, mid, d \in Nat :
              /\ Opened(lo, mid, d) /\ Below(stack, values, subStack, temp, mid, Len(subStack))
              /\ EntryOK(Entry) /\ IsSeq(subStack) /\ IsSeq(stack) /\ IsSeq(values) /\ Kinds(values)
              /\ Wanting(stack) = Expect(Entry)
<1>1. stack # <<>> /\ StepOf(Entry) \in {"value", "callee"} /\ (~Top.args => StepOf(Entry) = "value")
  BY DEF Evaluating, Doing, Step
<1>2. IsSeq(stack)
  BY DEF Ready, Stacked
<1>3. Wanting(stack) = Expect(Entry)
  BY <1>1, <1>2, SeqFacts DEF Wanting, ExpectOf, Entry
<1>. QED BY <1>1, <1>2, <1>3, Begins

LEMMA ResolveStep ==
  ASSUME Ready, Resolve
  PROVE  Stacked(stack', values', subStack', temp', FALSE)
<1>1. Evaluating /\ Top.kind = "name"
  BY DEF Resolve
<1>2. PICK lo \in Nat, mid \in Nat, d \in Nat :
        /\ Opened(lo, mid, d) /\ Below(stack, values, subStack, temp, mid, Len(subStack))
        /\ EntryOK(Entry) /\ IsSeq(subStack) /\ IsSeq(stack) /\ IsSeq(values) /\ Kinds(values)
        /\ Wanting(stack) = Expect(Entry)
  BY <1>1, EvaluatingStep
<1>3. Expect(Entry) \in {"operand", "tuple"}
  BY <1>1, <1>2, EvaluatingStep, EvaluatingRows
<1>4. CASE \E ex : Raise(ex)
  BY <1>4, RaiseStep
<1>. DEFINE t == [Top EXCEPT !.kind = "ref"]  w == WithoutTop(1)  us == Append(w, t)
<1>5. CASE Stacks(stack, us)
  <2>1. /\ Len(values) \in Nat /\ Len(values) > mid /\ Operand(values, mid, Len(values)) /\ Typed(Top)
        /\ Expect(Entry) = "operand"
    BY <1>1, <1>2, <1>3, TopCases
  <2>2. Top.name \in Name /\ Top.args \in BOOLEAN /\ Top = [kind |-> "name", name |-> Top.name, args |-> Top.args]
    BY <1>1, <2>1, TypedFacts
  <2>3. t = [kind |-> "ref", name |-> Top.name, args |-> Top.args]
    BY <2>2
  <2>. HIDE DEF t
  <2>4. Typed(t) /\ t.args = Top.args /\ t.kind = "ref"
    BY <2>2, <2>3, TypedLeaf DEF IsNamed
  <2>5. Len(values) - 1 \in 0..Len(values)
    BY <2>1
  <2>6. /\ IsSeq(w) /\ Kinds(w) /\ Len(w) = Len(values) - 1 /\ \A i \in 1..Len(values) - 1 : w[i] = values[i]
    BY <1>2, <2>5, CutFacts DEF WithoutTop
  <2>. HIDE DEF w
  <2>7. IsSeq(us) /\ Kinds(us) /\ Len(us) = Len(w) + 1 /\ (\A i \in 1..Len(w) : us[i] = w[i]) /\ us[Len(w) + 1] = t
    BY <2>4, <2>6, AddFacts
  <2>. HIDE DEF us
  <2>8. Len(us) = Len(values) /\ us[Len(values)] = t /\ \A i \in 1..Len(values) - 1 : us[i] = values[i]
    BY <2>1, <2>6, <2>7
  <2>9. Operand(us, mid, Len(us))
    <3>1. CASE Len(values) = mid + 1 /\ Single(Top)
      BY <2>4, <2>8, <3>1 DEF Operand, Single
    <3>2. CASE Len(values) = mid + 2 /\ IsArguments(values[mid + 1]) /\ Top.args
      <4>1. us[mid + 1] = values[mid + 1]
        BY <2>8, <3>2
      <4>. QED BY <2>4, <2>8, <3>2, <4>1 DEF Operand
    <3>. QED BY <2>1, <3>1, <3>2 DEF Operand, Top
  <2>10. \A i \in 1..mid : us[i] = values[i]
    BY <2>1, <2>8
  <2>11. Below(stack, us, subStack, temp, mid, Len(subStack))
    BY <1>2, <2>10, SameBelow
  <2>12. Is(us, temp, Wanting(stack), mid, Len(us)) /\ mid <= Len(us)
    BY <1>2, <2>1, <2>8, <2>9 DEF Is
  <2>13. Stacked(stack, us, subStack, temp, FALSE)
    BY <1>2, <2>7, <2>11, <2>12, Rests
  <2>. QED BY <1>5, <2>13 DEF Stacks
<1>. QED BY <1>4, <1>5 DEF Resolve

LEMMA EvaluatedStep ==
  ASSUME Ready, Evaluated
  PROVE  Stacked(stack', values', subStack', temp', FALSE)
<1>1. Evaluating /\ IsReadable(Top)
  BY DEF Evaluated
<1>2. PICK lo \in Nat, mid \in Nat, d \in Nat :
        /\ Opened(lo, mid, d) /\ EntryOK(Entry) /\ IsSeq(subStack) /\ IsSeq(stack) /\ IsSeq(values) /\ Kinds(values)
  BY <1>1, EvaluatingStep
<1>3. /\ stack # <<>> /\ StepOf(Entry) = "value" /\ ~Top.args /\ Top.kind \in {"rvalue", "ref"}
  BY <1>1, EvaluatingStep DEF IsReadable
<1>4. Expect(Entry) \in {"operand", "tuple"} /\ (Expect(Entry) = "operand" => Expect(Onward) = "value")
  BY <1>2, <1>3, EvaluatingRows
<1>5. Len(values) = mid + 1 /\ Single(Top) /\ Expect(Entry) = "operand"
  BY <1>2, <1>3, <1>4, TopCases
<1>6. stack' = Advanced /\ values' = values /\ subStack' = subStack
      /\ temp' = (IF Top.kind = "ref" THEN temp \cup {Top.name} ELSE temp)
  BY DEF Evaluated
<1>7. temp \subseteq temp' /\ Readable(temp', Top)
  BY <1>3, <1>5, <1>6 DEF Readable
<1>8. Fresh(values, subStack, temp', mid, d)
  BY <1>2, <1>5, <1>7 DEF Fresh
<1>9. /\ IsSeq(Advanced) /\ Below(Advanced, values, subStack, temp', mid, Len(subStack))
      /\ Wanting(Advanced) = "value"
  BY <1>2, <1>3, <1>4, <1>5, <1>8, Advances
<1>10. Is(values, temp', Wanting(Advanced), mid, Len(values)) /\ mid <= Len(values)
  BY <1>5, <1>7, <1>9 DEF Is, Top
<1>11. Stacked(Advanced, values, subStack, temp', FALSE)
  BY <1>2, <1>9, <1>10, Rests
<1>. QED BY <1>6, <1>11

LEMMA CalleeStep ==
  ASSUME Ready, Callee
  PROVE  Stacked(stack', values', subStack', temp', FALSE)
<1>1. stack # <<>> /\ StepOf(Entry) = "callee" /\ ~Top.args
  BY DEF Callee, Doing, Step
<1>2. PICK lo \in Nat, mid \in Nat, d \in Nat :
        /\ Opened(lo, mid, d) /\ EntryOK(Entry) /\ IsSeq(subStack) /\ IsSeq(values) /\ Kinds(values)
  BY <1>1, Begins
<1>3. Expect(Entry) = "operand" /\ Expect(Onward) = "single"
  BY <1>1, <1>2, EvaluatingRows
<1>4. Len(values) = mid + 1 /\ Single(Top)
  BY <1>1, <1>2, <1>3, TopCases
<1>5. Fresh(values, subStack, temp, mid, d)
  BY <1>2, <1>4 DEF Fresh
<1>6. /\ IsSeq(Advanced) /\ Below(Advanced, values, subStack, temp, mid, Len(subStack))
      /\ Wanting(Advanced) = "single"
  BY <1>1, <1>2, <1>3, <1>5, Advances
<1>7. Is(values, temp, Wanting(Advanced), mid, Len(values)) /\ mid <= Len(values)
  BY <1>4, <1>6 DEF Is, Top
<1>8. Stacked(Advanced, values, subStack, temp, FALSE)
  BY <1>2, <1>6, <1>7, Rests
<1>. QED BY <1>8 DEF Callee, Stacks

(***************************************************************************)
(* Phases that change what lies above the values of the entries below.     *)
(***************************************************************************)
LEMMA Stays ==
  ASSUME NEW lo \in Nat, NEW mid \in Nat, NEW d \in Nat, Opened(lo, mid, d),
         NEW us, NEW sup, NEW um, Fresh(us, sup, um, lo, d),
         NEW q, EntryOK(InPhase(Entry, q)), NEW top \in Nat, lo <= top, top <= Len(us),
         Holds(us, um, InPhase(Entry, q), lo, top),
         Marks(InPhase(Entry, q)) = 1 => sup[d + 1] = lo + Offset(Entry),
         Len(sup) = d + Marks(InPhase(Entry, q)),
         Is(us, um, Expect(InPhase(Entry, q)), top, Len(us))
  PROVE  Stacked(ToPhase(q), us, sup, um, FALSE)
<1>1. /\ IsSeq(ToPhase(q)) /\ Below(ToPhase(q), us, sup, um, top, Len(sup))
      /\ Wanting(ToPhase(q)) = Expect(InPhase(Entry, q))
  BY Goes DEF InPhase
<1>. QED BY <1>1, Rests DEF Fresh

\* A marker on top of a stack, with what it holds
LEMMA MarkerStarts ==
  ASSUME NEW st, IsSeq(st), NEW us, NEW sup, NEW um, NEW lo \in Nat, NEW d \in Nat,
         Below(st, us, sup, um, lo, d),
         NEW op \in {"EvaluateTuple", "RestoreTemporaryLock", "PostPostfix"}, NEW hi \in Nat, lo <= hi,
         op = "PostPostfix" => Is(us, um, "rvalue", lo, hi), op # "PostPostfix" => hi = lo,
         Wanting(st) \in Above(Gives(op))
  PROVE  LET s == Append(st, At0(Marker(op)))
         IN  /\ IsSeq(s) /\ Below(s, us, sup, um, hi, d)
             /\ op = "EvaluateTuple" => Wanting(s) = "tuple"
             /\ op = "PostPostfix" => Wanting(s) = "single"
             /\ op = "RestoreTemporaryLock" => Wanting(s) = "rvalue"
<1>. DEFINE e == At0(Marker(op))  s == Append(st, e)
<1>1. /\ e.node.op = op /\ e.phase = 0 /\ e.node = Marker(op) /\ e = [node |-> e.node, phase |-> e.phase]
      /\ op \in Markers
  BY DEF At0, Marker, Markers
<1>2. EntryOK(e)
  <2>1. op \notin Unary \cup Binary \cup Logicals \cup Assigning \cup Increments
    BY <1>1, Operators
  <2>. HIDE DEF e
  <2>2. PhaseOK(e.node, e.phase)
    BY <1>1, <2>1 DEF PhaseOK
  <2>. QED BY <1>1, <2>2 DEF EntryOK
<1>. HIDE DEF e
<1>3. OtherRow(e)
  BY <1>1, <1>2, OtherRows
<1>4. /\ Share(e) = (IF op = "PostPostfix" THEN "rvalue" ELSE "nothing")
      /\ Expect(e) = (CASE op = "EvaluateTuple" -> "tuple" [] op = "PostPostfix" -> "single" [] OTHER -> "rvalue")
  BY <1>1, <1>3 DEF OtherRow, Row
<1>5. Marks(e) = 0
  <2>1. e.node.op \notin Assigning \cup {"Tuple"}
    BY <1>1, Operators
  <2>. QED BY <1>1, <2>1, MarksCases
<1>6. Fits(e, Wanting(st), us, sup, um, lo, hi, d)
  <2>1. Is(us, um, "nothing", lo, lo)
    BY DEF Is
  <2>2. Holds(us, um, e, lo, hi)
    BY <1>4, <2>1 DEF Holds
  <2>. QED BY <1>1, <1>2, <1>5, <2>2 DEF Fits
<1>7. Below(s, us, sup, um, hi, d + Marks(e))
  BY <1>6, Extend
<1>8. /\ IsSeq(s) /\ Len(s) = Len(st) + 1 /\ s[Len(st) + 1] = e /\ Len(st) \in Nat
  BY AppendFacts, SeqFacts
<1>9. Wanting(s) = Expect(e)
  BY <1>8 DEF Wanting, ExpectOf
<1>. QED BY <1>4, <1>5, <1>7, <1>8, <1>9 DEF e

\* What lies there is the same in another sequence.
LEMMA TempGrows ==
  ASSUME NEW st, NEW um, Stacked(st, values, subStack, temp, FALSE), temp \subseteq um
  PROVE  Stacked(st, values, subStack, um, FALSE)
<1>1. PICK lo \in Nat, d \in Nat :
        /\ Below(st, values, subStack, temp, lo, d)
        /\ lo <= Len(values) /\ Len(subStack) = d
        /\ Is(values, temp, Wanting(st), lo, Len(values))
  BY DEF Stacked, Formed
<1>2. IsSeq(st) /\ IsSeq(values) /\ IsSeq(subStack) /\ Kinds(values) /\ Len(values) \in Nat
  BY SeqFacts DEF Stacked
<1>3. Below(st, values, subStack, um, lo, d)
  BY <1>1, <1>2, SameBelow
<1>4. Is(values, um, Wanting(st), lo, Len(values))
  BY <1>1, <1>2, SameIs
<1>. QED BY <1>1, <1>2, <1>3, <1>4, Rests

LEMMA GrantStep ==
  ASSUME Ready, Grant
  PROVE  Stacked(stack', values', subStack', temp', FALSE)
BY TempGrows DEF Ready, Grant

LEMMA TakeLockStep ==
  ASSUME Ready, TakeLock
  PROVE  Stacked(stack', values', subStack', temp', FALSE)
BY TempGrows DEF Ready, TakeLock

LEMMA CallOfValueStep ==
  ASSUME Ready, CallOfValue
  PROVE  Stacked(stack', values', subStack', temp', FALSE)
BY RaiseStep DEF CallOfValue

LEMMA EvaluateTupleStep ==
  ASSUME Ready, EvaluateTuple
  PROVE  Stacked(stack', values', subStack', temp', FALSE)
<1>1. Evaluating /\ Top.kind = "tuple" /\ ~Top.args
  BY DEF EvaluateTuple
<1>2. PICK lo \in Nat, mid \in Nat, d \in Nat :
        /\ Opened(lo, mid, d) /\ EntryOK(Entry) /\ IsSeq(subStack) /\ IsSeq(values) /\ Kinds(values)
  BY <1>1, EvaluatingStep
<1>3. stack # <<>> /\ StepOf(Entry) = "value"
  BY <1>1, EvaluatingStep
<1>4. Expect(Entry) \in {"operand", "tuple"} /\ Expect(Onward) \in {"value", "arguments"}
  BY <1>2, <1>3, EvaluatingRows
<1>5. Len(values) = mid + 1 /\ Single(Top) /\ mid < Len(values)
  BY <1>1, <1>2, <1>4, TopCases
<1>6. Fresh(values, subStack, temp, mid, d)
  BY <1>2, <1>5 DEF Fresh
<1>7. /\ IsSeq(Advanced) /\ Below(Advanced, values, subStack, temp, mid, Len(subStack))
      /\ Wanting(Advanced) \in {"value", "arguments"}
  BY <1>2, <1>3, <1>4, <1>6, Advances
<1>8. Wanting(Advanced) \in Above(Gives("EvaluateTuple"))
  BY <1>7, GivesFacts DEF Above
<1>. DEFINE s == Append(Advanced, At0(Marker("EvaluateTuple")))
<1>9. IsSeq(s) /\ Below(s, values, subStack, temp, mid, Len(subStack)) /\ Wanting(s) = "tuple"
  <2>1. Len(subStack) = d
    BY <1>2, <1>3, EvaluatingRows DEF Opened
  <2>2. Below(Advanced, values, subStack, temp, mid, d)
    BY <1>7, <2>1
  <2>. HIDE DEF s
  <2>3. IsSeq(s) /\ Below(s, values, subStack, temp, mid, d) /\ Wanting(s) = "tuple"
    BY <1>7, <1>8, <2>2, MarkerStarts DEF s
  <2>. QED BY <2>1, <2>3
<1>. HIDE DEF s
<1>10. Is(values, temp, Wanting(s), mid, Len(values)) /\ mid <= Len(values)
  BY <1>1, <1>5, <1>9 DEF Is, Top
<1>11. Stacked(s, values, subStack, temp, FALSE)
  BY <1>2, <1>5, <1>9, <1>10, Rests
<1>. QED BY <1>11 DEF EvaluateTuple, Stacks, s

LEMMA CallStep ==
  ASSUME Ready, Call
  PROVE  /\ Stacked(stack', values', subStack', temp', TRUE) /\ stack' # <<>>
         /\ IsArguments(Second)
<1>1. Evaluating /\ Top.kind = "name" /\ Top.args
  BY DEF Call
<1>2. PICK lo \in Nat, mid \in Nat, d \in Nat :
        /\ Opened(lo, mid, d) /\ EntryOK(Entry) /\ IsSeq(subStack) /\ IsSeq(values) /\ Kinds(values)
  BY <1>1, EvaluatingStep
<1>3. stack # <<>> /\ StepOf(Entry) \in {"value", "callee"}
  BY <1>1, EvaluatingStep
<1>4. Expect(Entry) \in {"operand", "tuple"}
      /\ (Expect(Entry) = "operand" => Expect(Onward) \in {"value", "single"})
  BY <1>2, <1>3, EvaluatingRows
<1>5. Len(values) = mid + 2 /\ IsArguments(Second) /\ Expect(Entry) = "operand"
  BY <1>1, <1>2, <1>4, TopCases
<1>6. /\ IsSeq(WithoutTop(2)) /\ Kinds(WithoutTop(2)) /\ Len(WithoutTop(2)) = mid
      /\ \A i \in 1..mid : WithoutTop(2)[i] = values[i]
  <2>1. Len(values) - 2 = mid /\ mid \in 0..Len(values)
    BY <1>5
  <2>. QED BY <1>2, <2>1, CutFacts DEF WithoutTop
<1>7. Fresh(WithoutTop(2), subStack, temp, mid, d)
  BY <1>2, <1>6 DEF Fresh
<1>8. /\ IsSeq(Advanced) /\ Below(Advanced, WithoutTop(2), subStack, temp, mid, Len(subStack))
      /\ Wanting(Advanced) \in {"value", "single"}
  BY <1>2, <1>3, <1>4, <1>5, <1>7, Advances
<1>9. Wanting(Advanced) \in Above("rvalue") /\ Len(subStack) \in Nat
  BY <1>2, <1>8, SeqFacts DEF Above
<1>11. Advanced # <<>>
  <2>1. IsSeq(stack)
    BY <1>2 DEF Opened
  <2>. DEFINE L == Len(stack)  e == [stack[L] EXCEPT !.phase = Entry.phase + 1]
  <2>2. Advanced = [stack EXCEPT ![L] = e]
    BY DEF Advanced, ToPhase
  <2>3. L >= 1 /\ L \in Nat
    BY <1>3, <2>1, SeqFacts
  <2>. HIDE DEF e
  <2>4. Len(Advanced) = L
    BY <2>1, <2>2, <2>3, ExceptFacts
  <2>. QED BY <1>8, <2>3, <2>4, SeqFacts
<1>10. Stacked(Advanced, WithoutTop(2), subStack, temp, TRUE)
  BY <1>2, <1>6, <1>8, <1>9 DEF Stacked, Formed
<1>. QED BY <1>5, <1>10, <1>11 DEF Call, MethodCall

LEMMA ReturnsStep ==
  ASSUME Stacked(stack, values, subStack, temp, TRUE), Returns,
         Body(called.fn, called.args, called.set, vars).v \in Value
  PROVE  Stacked(stack', values', subStack', temp', FALSE)
<1>. DEFINE v == Body(called.fn, called.args, called.set, vars).v
            us == Append(values, Rvalue(v))  s == Append(stack, At0(Marker("RestoreTemporaryLock")))
<1>1. PICK lo \in Nat, d \in Nat :
        /\ Below(stack, values, subStack, temp, lo, d)
        /\ Len(values) = lo /\ Len(subStack) = d /\ Wanting(stack) \in Above("rvalue")
  BY DEF Stacked, Formed
<1>2. IsSeq(stack) /\ IsSeq(values) /\ IsSeq(subStack) /\ Kinds(values)
  BY DEF Stacked
<1>3. Readable(temp, Rvalue(v)) /\ Rvalue(v).kind = "rvalue"
  BY RvalueFacts
<1>. HIDE DEF v
<1>4. IsSeq(us) /\ Kinds(us) /\ Len(us) = lo + 1 /\ (\A i \in 1..lo : us[i] = values[i]) /\ us[lo + 1] = Rvalue(v)
  BY <1>1, <1>2, <1>3, AddFacts
<1>. HIDE DEF us
<1>5. Below(stack, us, subStack, temp, lo, d)
  BY <1>1, <1>2, <1>4, SameBelow
<1>6. Wanting(stack) \in Above(Gives("RestoreTemporaryLock")) 
  BY <1>1, GivesFacts
<1>7. IsSeq(s) /\ Below(s, us, subStack, temp, lo, d) /\ Wanting(s) = "rvalue"
  BY <1>2, <1>5, <1>6, MarkerStarts
<1>. HIDE DEF s
<1>8. Is(us, temp, Wanting(s), lo, Len(us)) /\ lo <= Len(us)
  BY <1>3, <1>4, <1>7 DEF Is
<1>9. Stacked(s, us, subStack, temp, FALSE)
  BY <1>1, <1>2, <1>4, <1>7, <1>8, Rests
<1>. QED BY <1>9 DEF Returns, s, us, v

LEMMA EndOfExpressionStep ==
  ASSUME Ready, EndOfExpression
  PROVE  Stacked(stack', values', subStack', temp', FALSE)
<1>1. PICK lo \in Nat, mid \in Nat, d \in Nat :
        /\ Opened(lo, mid, d) /\ EntryOK(Entry) /\ IsSeq(values) /\ Kinds(values) /\ Len(values) \in Nat
        /\ Holds(values, temp, Entry, lo, mid) /\ Is(values, temp, Expect(Entry), mid, Len(values))
        /\ Entry.phase \in Nat /\ IsSeq(subStack) /\ Len(subStack) = d + Marks(Entry) /\ mid <= Len(values)
  BY Begins DEF EndOfExpression, Doing
<1>2. StepOf(Entry) = "end"
  BY DEF EndOfExpression, Doing, Step
<1>3. Entry.node.op = "Expression" /\ Expect(Entry) = "value" /\ Share(Entry) = "nothing"
  BY <1>1, <1>2, RowCases DEF AssigningRow, SimpleRow, CallRow, TupleRow, OtherRow, Row
<1>4. Marks(Entry) = 0 /\ Gives(Entry.node.op) = "value"
  BY <1>1, <1>3, MarksCases, GivesFacts, Operators DEF Markers
<1>5. lo = mid /\ Is(values, temp, "value", lo, Len(values))
  BY <1>1, <1>3 DEF Holds, Is
<1>6. Fresh(values, subStack, temp, lo, d)
  BY <1>1, <1>5 DEF Fresh
<1>7. Stacked(Finished, values, subStack, temp, FALSE)
  <2>1. Len(subStack) = d /\ Is(values, temp, Gives(Entry.node.op), lo, Len(values))
    BY <1>1, <1>4, <1>5, <1>6
  <2>. QED BY <1>1, <1>4, <1>5, <1>6, <2>1, Closes
<1>. QED BY <1>7 DEF EndOfExpression, Stacks

LEMMA RestoreStep ==
  ASSUME Ready, RestoreTemporaryLock
  PROVE  Stacked(stack', values', subStack', temp', FALSE)
<1>1. PICK lo \in Nat, mid \in Nat, d \in Nat :
        /\ Opened(lo, mid, d) /\ EntryOK(Entry) /\ IsSeq(values) /\ Kinds(values) /\ Len(values) \in Nat
        /\ Holds(values, temp, Entry, lo, mid) /\ Is(values, temp, Expect(Entry), mid, Len(values))
        /\ Entry.phase \in Nat /\ IsSeq(subStack) /\ Len(subStack) = d + Marks(Entry) /\ mid <= Len(values)
  BY Begins DEF RestoreTemporaryLock, Doing
<1>2. StepOf(Entry) = "RestoreTemporaryLock"
  BY DEF RestoreTemporaryLock, Doing, Step
<1>3. Entry.node.op = "RestoreTemporaryLock" /\ Expect(Entry) = "rvalue" /\ Share(Entry) = "nothing"
  BY <1>1, <1>2, RowCases DEF AssigningRow, SimpleRow, CallRow, TupleRow, OtherRow, Row
<1>4. Marks(Entry) = 0 /\ Gives(Entry.node.op) = "rvalue"
  BY <1>1, <1>3, MarksCases, GivesFacts, Operators DEF Markers
<1>5. lo = mid /\ Is(values, temp, "rvalue", lo, Len(values))
  BY <1>1, <1>3 DEF Holds, Is
<1>6. Fresh(values, subStack, temp, lo, d)
  BY <1>1, <1>5 DEF Fresh
<1>7. Stacked(Finished, values, subStack, temp, FALSE)
  <2>1. Len(subStack) = d /\ Is(values, temp, Gives(Entry.node.op), lo, Len(values))
    BY <1>1, <1>4, <1>5, <1>6
  <2>. QED BY <1>1, <1>4, <1>5, <1>6, <2>1, Closes
<1>. QED BY <1>7 DEF RestoreTemporaryLock, Stacks

LEMMA PostPostfixStep ==
  ASSUME Ready, PostPostfix
  PROVE  Stacked(stack', values', subStack', temp', FALSE)
<1>1. PICK lo \in Nat, mid \in Nat, d \in Nat :
        /\ Opened(lo, mid, d) /\ EntryOK(Entry) /\ IsSeq(values) /\ Kinds(values) /\ Len(values) \in Nat
        /\ Holds(values, temp, Entry, lo, mid) /\ Is(values, temp, Expect(Entry), mid, Len(values))
        /\ Entry.phase \in Nat /\ IsSeq(subStack) /\ Len(subStack) = d + Marks(Entry) /\ mid <= Len(values)
  BY Begins DEF PostPostfix, Doing
<1>2. StepOf(Entry) = "PostPostfix"
  BY DEF PostPostfix, Doing, Step
<1>3. Entry.node.op = "PostPostfix" /\ Expect(Entry) = "single" /\ Share(Entry) = "rvalue"
  BY <1>1, <1>2, RowCases DEF AssigningRow, SimpleRow, CallRow, TupleRow, OtherRow, Row
<1>4. Marks(Entry) = 0 /\ Gives(Entry.node.op) = "rvalue"
  BY <1>1, <1>3, MarksCases, GivesFacts, Operators DEF Markers
<1>5. mid = lo + 1 /\ Is(values, temp, "rvalue", lo, mid) /\ Len(values) = mid + 1
  BY <1>1, <1>3 DEF Holds, Is
<1>. DEFINE us == WithoutTop(1)
<1>6. IsSeq(us) /\ Kinds(us) /\ Len(us) = mid /\ \A i \in 1..mid : us[i] = values[i]
  <2>1. Len(values) - 1 = mid /\ mid \in 0..Len(values)
    BY <1>5
  <2>. QED BY <1>1, <2>1, CutFacts DEF WithoutTop
<1>. HIDE DEF us
<1>7. Fresh(us, subStack, temp, lo, d)
  BY <1>1, <1>5, <1>6 DEF Fresh
<1>8. Is(us, temp, "rvalue", lo, Len(us))
  <2>1. \A i \in lo + 1..mid : us[i] = values[i]
    BY <1>6
  <2>. QED BY <1>5, <1>6, <2>1, SameIs
<1>9. Stacked(Finished, us, subStack, temp, FALSE)
  <2>1. Len(subStack) = d /\ Is(us, temp, Gives(Entry.node.op), lo, Len(us))
    BY <1>1, <1>4, <1>7, <1>8
  <2>. QED BY <1>1, <1>4, <1>7, <1>8, <2>1, Closes
<1>. QED BY <1>9 DEF PostPostfix, Stacks, us

\* A temporary with arguments is as well formed as one without.
LEMMA WithArguments ==
  ASSUME NEW t, Typed(t)
  PROVE  Typed([t EXCEPT !.args = TRUE]) /\ [t EXCEPT !.args = TRUE].args /\ [t EXCEPT !.args = TRUE].kind = t.kind
<1>. DEFINE u == [t EXCEPT !.args = TRUE]
<1>1. CASE t.kind = "rvalue"
  <2>1. u = [kind |-> "rvalue", v |-> t.v, args |-> TRUE] /\ t.v \in Value
    <3>. DEFINE x == t.v  b == t.args
    <3>1. t = [kind |-> "rvalue", v |-> x, args |-> b] /\ x \in Value
      BY <1>1, TypedFacts
    <3>. HIDE DEF x, b
    <3>0. \A c : [t EXCEPT !.args = c] = [kind |-> "rvalue", v |-> x, args |-> c]
      BY <3>1
    <3>2. u = [kind |-> "rvalue", v |-> x, args |-> TRUE] /\ x \in Value
      BY <3>0, <3>1
    <3>. QED BY <3>2 DEF x
  <2>2. IsRvalue(u)
    BY <2>1 DEF IsRvalue
  <2>. QED BY <1>1, <2>1, <2>2, TypedLeaf
<1>2. CASE t.kind \in {"name", "ref"}
  <2>1. u = [kind |-> t.kind, name |-> t.name, args |-> TRUE] /\ t.name \in Name
    <3>. DEFINE k == t.kind  x == t.name  b == t.args
    <3>1. t = [kind |-> k, name |-> x, args |-> b] /\ x \in Name
      BY <1>2, TypedFacts
    <3>. HIDE DEF k, x, b
    <3>0. \A c : [t EXCEPT !.args = c] = [kind |-> k, name |-> x, args |-> c]
      BY <3>1
    <3>2. u = [kind |-> k, name |-> x, args |-> TRUE] /\ x \in Name
      BY <3>0, <3>1
    <3>. QED BY <3>2 DEF k, x
  <2>2. IsNamed(u)
    BY <1>2, <2>1 DEF IsNamed
  <2>. QED BY <2>1, <2>2, TypedLeaf
<1>3. CASE t.kind = "tuple"
  <2>1. t = [kind |-> "tuple", parts |-> t.parts, args |-> t.args] /\ IsSeq(t.parts)
        /\ \A i \in 1..Len(t.parts) : IsPart(t.parts[i])
    BY <1>3, TypedFacts DEF IsTuple
  <2>2. u = [kind |-> "tuple", parts |-> t.parts, args |-> TRUE]
    <3>. DEFINE x == t.parts  b == t.args
    <3>1. t = [kind |-> "tuple", parts |-> x, args |-> b]
      BY <2>1
    <3>. HIDE DEF x, b
    <3>0. \A c : [t EXCEPT !.args = c] = [kind |-> "tuple", parts |-> x, args |-> c]
      BY <3>1
    <3>2. u = [kind |-> "tuple", parts |-> x, args |-> TRUE]
      BY <3>0, <3>1
    <3>. QED BY <3>2 DEF x
  <2>3. Typed([kind |-> "tuple", parts |-> t.parts, args |-> TRUE])
    BY <2>1, TypedTuple
  <2>. QED BY <1>3, <2>2, <2>3
<1>. QED BY <1>1, <1>2, <1>3, TypedFacts

LEMMA AddArgumentsStep ==
  ASSUME Ready, AddArguments
  PROVE  Stacked(stack', values', subStack', temp', FALSE)
<1>1. PICK lo \in Nat, mid \in Nat, d \in Nat :
        /\ Opened(lo, mid, d) /\ EntryOK(Entry) /\ IsSeq(values) /\ Kinds(values) /\ Len(values) \in Nat
        /\ Holds(values, temp, Entry, lo, mid) /\ Is(values, temp, Expect(Entry), mid, Len(values))
        /\ Entry.phase \in Nat /\ IsSeq(subStack) /\ Len(subStack) = d + Marks(Entry) /\ mid <= Len(values)
  BY Begins DEF AddArguments, Doing
<1>2. StepOf(Entry) = "call"
  BY DEF AddArguments, Doing, Step
<1>3. Entry.node.op = "Call" /\ Expect(Entry) = "single" /\ Share(Entry) = "arguments"
  BY <1>1, <1>2, RowCases DEF AssigningRow, SimpleRow, CallRow, TupleRow, OtherRow, Row
<1>4. Marks(Entry) = 0 /\ Gives(Entry.node.op) = "operand"
  BY <1>1, <1>3, MarksCases, GivesFacts, Operators
<1>5. mid = lo + 1 /\ IsArguments(values[lo + 1]) /\ Len(values) = mid + 1 /\ Single(Top)
  BY <1>1, <1>3 DEF Holds, Is, Top
<1>. DEFINE w == WithoutTop(1)  t == [Top EXCEPT !.args = TRUE]  us == Append(w, t)
<1>6. Typed(t) /\ t.args /\ t.kind \in {"rvalue", "name", "ref", "method", "tuple", "map"}
  <2>1. Typed(Top)
    BY <1>5 DEF Single
  <2>. HIDE DEF t
  <2>2. Typed(t) /\ t.args
    BY <2>1, WithArguments DEF t
  <2>. QED BY <2>2, TypedFacts
<1>7. IsSeq(w) /\ Kinds(w) /\ Len(w) = mid /\ \A i \in 1..mid : w[i] = values[i]
  <2>1. Len(values) - 1 = mid /\ mid \in 0..Len(values)
    BY <1>5
  <2>. QED BY <1>1, <2>1, CutFacts DEF WithoutTop
<1>. HIDE DEF w, t
<1>8. IsSeq(us) /\ Kinds(us) /\ Len(us) = mid + 1 /\ (\A i \in 1..mid : us[i] = w[i]) /\ us[mid + 1] = t
  BY <1>6, <1>7, AddFacts
<1>. HIDE DEF us
<1>9. Fresh(us, subStack, temp, lo, d)
  BY <1>1, <1>5, <1>7, <1>8 DEF Fresh
<1>10. Is(us, temp, "operand", lo, Len(us))
  BY <1>5, <1>6, <1>7, <1>8 DEF Is, Operand
<1>11. Stacked(Finished, us, subStack, temp, FALSE)
  <2>1. Len(subStack) = d /\ Is(us, temp, Gives(Entry.node.op), lo, Len(us))
    BY <1>1, <1>4, <1>9, <1>10
  <2>. QED BY <1>1, <1>4, <1>9, <1>10, <2>1, Closes
<1>. QED BY <1>11 DEF AddArguments, Stacks, us, w, t

LEMMA DuplicateStep ==
  ASSUME Ready, Duplicate
  PROVE  Stacked(stack', values', subStack', temp', FALSE)
<1>1. PICK lo \in Nat, mid \in Nat, d \in Nat :
        /\ Opened(lo, mid, d) /\ EntryOK(Entry) /\ IsSeq(values) /\ Kinds(values) /\ Len(values) \in Nat
        /\ Holds(values, temp, Entry, lo, mid) /\ Is(values, temp, Expect(Entry), mid, Len(values))
        /\ Entry.phase \in Nat /\ IsSeq(subStack) /\ Len(subStack) = d + Marks(Entry) /\ mid <= Len(values)
  BY Begins DEF Duplicate, Doing
<1>2. StepOf(Entry) = "duplicate"
  BY DEF Duplicate, Doing, Step
<1>. DEFINE L == Len(values)  f == InPhase(Entry, 2)
            below == IF Top.args THEN <<Second>> ELSE <<>>
            w == values \o below  us == w \o <<Top>>
<1>3. Entry.node.op \in Increments \cup Compounds /\ Entry.phase = 1 /\ Expect(Entry) = "operand" /\ Share(Entry) = "nothing"
  BY <1>1, <1>2, RowCases DEF AssigningRow, SimpleRow, CallRow, TupleRow, OtherRow, Row
<1>4. lo = mid /\ L \in Nat /\ lo <= L /\ Typed(Top) /\ Operand(values, lo, L)
      /\ (~Top.args => L = lo + 1 /\ Single(Top)) /\ (Top.args => L = lo + 2 /\ IsArguments(Second))
  BY <1>1, <1>3, TopCases DEF Holds, Is
<1>5. EntryOK(f) /\ f.phase = 2 /\ f.node = Entry.node /\ Marks(f) = 0 /\ Marks(Entry) = 0
      /\ Share(f) = "operand" /\ Expect(f) = "operand"
  <2>1. Entry.node.op \in Assigning
    BY <1>3, Operators
  <2>2. EntryOK(f) /\ f.phase = 2 /\ f.node = Entry.node /\ AssigningRow(f)
    BY <1>1, <2>1, AssigningPhase
  <2>3. Marks(f) = 0 /\ Marks(Entry) = 0
    BY <1>3, <2>1, <2>2, MarksCases
  <2>. QED BY <2>2, <2>3, <1>3, Operators DEF AssigningRow, Row
<1>6. /\ IsSeq(us) /\ Kinds(us) /\ \A i \in 1..L : us[i] = values[i]
      /\ L < Len(us) /\ Operand(us, L, Len(us))
  <2>1. CASE ~Top.args
    <3>1. IsSeq(below) /\ Len(below) = 0 /\ IsSeq(<<Top>>) /\ Len(<<Top>>) = 1 /\ <<Top>>[1] = Top
      BY <2>1, ShortSeqs
    <3>. HIDE DEF below
    <3>2. IsSeq(w) /\ Len(w) = L + Len(below) /\ \A i \in 1..L : w[i] = values[i]
      BY <1>1, <3>1, ConcatFacts
    <3>. DEFINE x == Top
    <3>. HIDE DEF w, x, L
    <3>3. Len(w) = L
      BY <1>4, <3>1, <3>2
    <3>4. IsPart(<<x>>)
      BY <2>1, <1>4 DEF x, IsPart, Single
    <3>5. Kinds(w)
      BY <1>1, <3>2, <3>3 DEF Kinds, L
    <3>6. /\ IsSeq(w \o <<x>>) /\ Kinds(w \o <<x>>) /\ Len(w) < Len(w \o <<x>>)
          /\ \A i \in 1..Len(w) : (w \o <<x>>)[i] = w[i]
          /\ Operand(w \o <<x>>, Len(w), Len(w \o <<x>>))
      BY <3>2, <3>4, <3>5, PartFacts
    <3>. QED BY <3>2, <3>3, <3>6 DEF x
  <2>2. CASE Top.args
    <3>1. below = <<Second>> /\ Second.kind = "rvalue"
      BY <1>4, <2>2, ArgumentsFacts
    <3>. DEFINE x == Second  y == Top
    <3>2. IsArguments(x) /\ Typed(y) /\ y.args /\ x.kind = "rvalue" /\ below = <<x>>
          /\ y.kind \in {"rvalue", "name", "ref", "tuple"}
      BY <1>4, <2>2, <3>1, TypedFacts
    <3>. HIDE DEF below, x, y, L
    <3>31. IsSeq(<<x>>) /\ Len(<<x>>) = 1 /\ <<x>>[1] = x
      BY ShortSeqs
    <3>32. IsSeq(<<y>>) /\ Len(<<y>>) = 1 /\ <<y>>[1] = y
      BY ShortSeqs
    <3>3. /\ IsSeq(<<x>>) /\ Len(<<x>>) = 1 /\ <<x>>[1] = x
          /\ IsSeq(<<y>>) /\ Len(<<y>>) = 1 /\ <<y>>[1] = y /\ 1 \in 1..1
      BY <3>31, <3>32
    <3>4. IsSeq(w) /\ Len(w) = L + 1 /\ \A i \in 1..L : w[i] = values[i]
      BY <1>1, <3>2, <3>3, ConcatFacts DEF L
    <3>5. \A i \in 1..Len(<<x>>) : w[L + i] = <<x>>[i]
      BY <1>1, <3>2, <3>3, ConcatFacts DEF L
    <3>6. w[L + 1] = x
      BY <3>3, <3>5
    <3>. HIDE DEF w
    <3>7. IsSeq(w \o <<y>>) /\ Len(w \o <<y>>) = L + 1 + 1 /\ \A i \in 1..Len(w) : (w \o <<y>>)[i] = w[i]
      BY <3>3, <3>4, ConcatFacts
    <3>8. \A i \in 1..Len(<<y>>) : (w \o <<y>>)[Len(w) + i] = <<y>>[i]
      BY <3>3, <3>4, ConcatFacts
    <3>. DEFINE u == w \o <<y>>
    <3>9. /\ IsSeq(u) /\ Len(u) = L + 2 /\ u[L + 1] = x /\ u[L + 2] = y
          /\ \A i \in 1..L : u[i] = values[i]
      <4>1. 1 \in 1..Len(<<y>>) /\ L + 1 \in 1..Len(w) /\ \A i \in 1..L : i \in 1..Len(w)
        BY <1>4, <3>3, <3>4
      <4>2. (w \o <<y>>)[Len(w) + 1] = y
        BY <3>3, <3>8, <4>1
      <4>3. Len(w) + 1 = L + 2 /\ L + 1 + 1 = L + 2
        BY <1>4, <3>4
      <4>. QED BY <3>4, <3>6, <3>7, <4>1, <4>2, <4>3
    <3>. HIDE DEF u
    <3>10. Kinds(u)
      <4>1. \A i \in 1..L + 2 : i \in 1..L \/ i = L + 1 \/ i = L + 2
        BY <1>4
      <4>. QED BY <1>1, <3>2, <3>9, <4>1 DEF Kinds, L
    <3>11. Operand(u, L, Len(u)) /\ L < Len(u)
      BY <1>4, <3>2, <3>9 DEF Operand
    <3>. QED BY <3>9, <3>10, <3>11 DEF u, y
  <2>. QED BY <2>1, <2>2
<1>. HIDE DEF f, us
<1>7. Fresh(us, subStack, temp, lo, d)
  BY <1>1, <1>4, <1>6 DEF Fresh
<1>8. Holds(us, temp, f, lo, L)
  <2>1. \A i \in lo + 1..L : us[i] = values[i]
    BY <1>6
  <2>2. Is(values, temp, "operand", lo, L)
    BY <1>4 DEF Is
  <2>3. Is(us, temp, "operand", lo, L)
    BY <1>4, <2>1, <2>2, SameIs
  <2>. QED BY <1>5, <2>3 DEF Holds
<1>9. Is(us, temp, Expect(f), L, Len(us))
  BY <1>5, <1>6 DEF Is
<1>10. Stacked(ToPhase(2), us, subStack, temp, FALSE)
  <2>1. Len(us) \in Nat /\ L <= Len(us)
    BY <1>4, <1>6, SeqFacts
  <2>2. Marks(f) # 1 /\ Len(subStack) = d + Marks(f)
    BY <1>1, <1>5
  <2>. HIDE DEF L
  <2>. QED BY <1>1, <1>4, <1>5, <1>7, <1>8, <1>9, <2>1, <2>2, Stays DEF f
<1>11. Entry.phase + 1 = 2
  BY <1>3
<1>. QED BY <1>10, <1>11 DEF Duplicate, Stacks, us, Advanced

(***************************************************************************)
(* Tuples: what is above the tuple on the stack becomes its next part, and *)
(* the parts are put on top again one by one.                              *)
(***************************************************************************)
LEMMA RestFacts ==
  ASSUME NEW s, IsSeq(s), NEW a \in Nat
  PROVE  /\ Len(s) = a + 1 => SubSeq(s, a + 1, Len(s)) = <<s[Len(s)]>>
         /\ Len(s) = a + 2 => SubSeq(s, a + 1, Len(s)) = <<s[a + 1], s[Len(s)]>>
<1>1. PICK S : s \in Seq(S)
  BY DEF IsSeq
<1>. DEFINE r == SubSeq(s, a + 1, Len(s))
<1>2. ASSUME Len(s) = a + 1
      PROVE  r = <<s[Len(s)]>>
  <2>1. a + 1 \in 1..Len(s) + 1 /\ Len(s) \in (a + 1) - 1..Len(s) /\ Len(s) - (a + 1) + 1 = 1
    BY <1>2
  <2>2. r \in Seq(S) /\ Len(r) = 1 /\ \A i \in 1..1 : r[i] = s[(a + 1) + i - 1]
    BY <1>1, <2>1, SubSeqProperties
  <2>. HIDE DEF r
  <2>3. r[1] = s[Len(s)]
    BY <1>2, <2>2
  <2>. QED BY <2>2, <2>3
<1>3. ASSUME Len(s) = a + 2
      PROVE  r = <<s[a + 1], s[Len(s)]>>
  <2>1. a + 1 \in 1..Len(s) + 1 /\ Len(s) \in (a + 1) - 1..Len(s) /\ Len(s) - (a + 1) + 1 = 2
    BY <1>3
  <2>2. r \in Seq(S) /\ Len(r) = 2 /\ \A i \in 1..2 : r[i] = s[(a + 1) + i - 1]
    BY <1>1, <2>1, SubSeqProperties
  <2>. HIDE DEF r
  <2>3. r[1] = s[a + 1] /\ r[2] = s[Len(s)]
    <3>1. (a + 1) + 1 - 1 = a + 1 /\ (a + 1) + 2 - 1 = Len(s)
      BY <1>3
    <3>. QED BY <2>2, <3>1
  <2>. QED BY <2>2, <2>3
<1>. QED BY <1>2, <1>3

LEMMA CapturedPart ==
  ASSUME NEW s, IsSeq(s), NEW a \in Nat, Operand(s, a, Len(s))
  PROVE  IsPart(SubSeq(s, a + 1, Len(s)))
<1>. DEFINE p == SubSeq(s, a + 1, Len(s))
<1>1. CASE Len(s) = a + 1 /\ Single(s[Len(s)])
  <2>. DEFINE x == s[Len(s)]
  <2>1. p = <<x>> /\ Typed(x) /\ ~x.args
    BY <1>1, RestFacts DEF Single
  <2>. HIDE DEF p, x
  <2>2. p[1] = x
    BY <2>1
  <2>3. IsPart(p)
    BY <2>1, <2>2 DEF IsPart
  <2>. QED BY <2>3 DEF p
<1>2. CASE Len(s) = a + 2 /\ IsArguments(s[a + 1]) /\ Typed(s[Len(s)]) /\ s[Len(s)].args
  <2>. DEFINE x == s[a + 1]  y == s[Len(s)]
  <2>1. p = <<x, y>> /\ IsArguments(x) /\ Typed(y) /\ y.args
    BY <1>2, RestFacts
  <2>. HIDE DEF p, x, y
  <2>2. p[1] = x /\ p[2] = y
    BY <2>1
  <2>3. IsPart(p)
    BY <2>1, <2>2 DEF IsPart
  <2>. QED BY <2>3 DEF p
<1>. QED BY <1>1, <1>2 DEF Operand

\* One more part
LEMMA MorePartial ==
  ASSUME NEW t, Single(t), t.kind = "tuple", NEW p, IsPart(p)
  PROVE  Single([t EXCEPT !.parts = Append(@, p)]) /\ [t EXCEPT !.parts = Append(@, p)].kind = "tuple"
<1>. DEFINE ps == t.parts  qs == Append(ps, p)  u == [t EXCEPT !.parts = Append(@, p)]
<1>1. t = [kind |-> "tuple", parts |-> ps, args |-> t.args] /\ t.args = FALSE /\ IsSeq(ps)
      /\ \A i \in 1..Len(ps) : IsPart(ps[i])
  BY TypedFacts DEF Single, IsTuple
<1>. HIDE DEF ps
<1>2. IsSeq(qs) /\ Len(qs) = Len(ps) + 1 /\ (\A i \in 1..Len(ps) : qs[i] = ps[i]) /\ qs[Len(ps) + 1] = p
  BY <1>1, AppendFacts
<1>3. \A i \in 1..Len(qs) : IsPart(qs[i])
  <2>1. \A i \in 1..Len(ps) + 1 : i \in 1..Len(ps) \/ i = Len(ps) + 1
    BY <1>1, SeqFacts
  <2>. QED BY <1>1, <1>2, <2>1
<1>. HIDE DEF qs
<1>4. LET v == [kind |-> "tuple", parts |-> qs, args |-> FALSE] IN Typed(v) /\ v.kind = "tuple" /\ ~v.args
  BY <1>2, <1>3, TypedTuple
<1>5. u = [kind |-> "tuple", parts |-> qs, args |-> FALSE]
  <2>1. u = [t EXCEPT !.parts = qs]
    BY DEF qs, ps
  <2>. DEFINE b == t.args
  <2>2. t = [kind |-> "tuple", parts |-> ps, args |-> b] /\ b = FALSE
    BY <1>1
  <2>. HIDE DEF b, u
  <2>3. [t EXCEPT !.parts = qs] = [kind |-> "tuple", parts |-> qs, args |-> b]
    BY <2>2
  <2>. QED BY <2>1, <2>2, <2>3
<1>. QED BY <1>4, <1>5 DEF Single

\* The next part is taken out.
LEMMA LessPartial ==
  ASSUME NEW k \in Nat, NEW t, Partial(t, k), k < Len(t.parts)
  PROVE  /\ IsPart(t.parts[k + 1])
         /\ Partial([t EXCEPT !.parts[k + 1] = <<>>], k + 1) /\ [t EXCEPT !.parts[k + 1] = <<>>].kind = "tuple"
<1>. DEFINE ps == t.parts  qs == [ps EXCEPT ![k + 1] = <<>>]  u == [t EXCEPT !.parts[k + 1] = <<>>]
<1>1. t = [kind |-> "tuple", parts |-> ps, args |-> t.args] /\ ~t.args /\ t.args \in BOOLEAN /\ IsSeq(ps)
      /\ \A i \in k + 1..Len(ps) : IsPart(ps[i])
  BY DEF Partial, IsTuple
<1>2. Len(ps) \in Nat /\ k < Len(ps) /\ k + 1 \in 1..Len(ps)
  BY <1>1, SeqFacts
<1>3. u = [t EXCEPT !.parts = qs]
  OBVIOUS
<1>. HIDE DEF ps, u
<1>4. IsSeq(qs) /\ Len(qs) = Len(ps)
  BY <1>1, <1>2, ExceptFacts
<1>5. \A i \in 1..Len(ps) : qs[i] = IF i = k + 1 THEN <<>> ELSE ps[i]
  BY <1>1, <1>2, ExceptFacts
<1>. HIDE DEF qs
<1>6. \A i \in k + 2..Len(qs) : IsPart(qs[i])
  <2>1. \A i \in k + 2..Len(ps) : i \in 1..Len(ps) /\ i # k + 1 /\ i \in k + 1..Len(ps)
    BY <1>2
  <2>. QED BY <1>1, <1>4, <1>5, <2>1
<1>7. u = [kind |-> "tuple", parts |-> qs, args |-> FALSE]
  <2>. DEFINE b == t.args
  <2>1. t = [kind |-> "tuple", parts |-> ps, args |-> b] /\ b = FALSE
    BY <1>1
  <2>. HIDE DEF b
  <2>2. [t EXCEPT !.parts = qs] = [kind |-> "tuple", parts |-> qs, args |-> b]
    BY <2>1
  <2>. QED BY <1>3, <2>1, <2>2
<1>8. u.parts = qs /\ u.kind = "tuple" /\ ~u.args /\ u.args \in BOOLEAN
      /\ u = [kind |-> "tuple", parts |-> u.parts, args |-> u.args]
  BY <1>7
<1>9. Partial(u, k + 1)
  <2>1. (k + 1) + 1 = k + 2
    OBVIOUS
  <2>. QED BY <1>4, <1>6, <1>8, <2>1 DEF Partial, IsTuple
<1>10. IsPart(ps[k + 1])
  BY <1>1, <1>2
<1>. QED BY <1>8, <1>9, <1>10 DEF u, ps

\* The next part of the tuple at position at is put on top.
LEMMA NextPartFacts ==
  ASSUME NEW s, IsSeq(s), Kinds(s), NEW at \in 1..Len(s), NEW k \in Nat, Partial(s[at], k), k < Len(s[at].parts)
  PROVE  LET us == [s EXCEPT ![at].parts[k + 1] = <<>>] \o s[at].parts[k + 1]
         IN  /\ IsSeq(us) /\ Kinds(us) /\ Len(s) < Len(us)
             /\ \A i \in 1..Len(s) : i # at => us[i] = s[i]
             /\ Partial(us[at], k + 1)
             /\ Operand(us, Len(s), Len(us))
<1>. DEFINE t == s[at]  x == [t EXCEPT !.parts[k + 1] = <<>>]  p == t.parts[k + 1]
            w == [s EXCEPT ![at] = x]  us == w \o p
<1>1. IsPart(p) /\ Partial(x, k + 1) /\ x.kind = "tuple"
  BY LessPartial
<1>2. [s EXCEPT ![at].parts[k + 1] = <<>>] = w
  OBVIOUS
<1>. HIDE DEF x, p
<1>3. /\ IsSeq(w) /\ Kinds(w) /\ Len(w) = Len(s) /\ w[at] = x
      /\ \A i \in 1..Len(s) : i # at => w[i] = s[i]
  BY <1>1, PutFacts
<1>. HIDE DEF w
<1>4. /\ IsSeq(us) /\ Kinds(us) /\ Len(w) < Len(us) /\ \A i \in 1..Len(w) : us[i] = w[i]
  BY <1>1, <1>3, PartFacts
<1>5. Operand(us, Len(w), Len(us))
  BY <1>1, <1>3, PartFacts
<1>. HIDE DEF us
<1>6. /\ IsSeq(us) /\ Kinds(us) /\ Len(s) < Len(us)
      /\ \A i \in 1..Len(s) : i # at => us[i] = s[i]
      /\ Partial(us[at], k + 1)
      /\ Operand(us, Len(s), Len(us))
  BY <1>1, <1>3, <1>4, <1>5
<1>. QED BY <1>2, <1>6 DEF us, p

LEMMA BeginTupleStep ==
  ASSUME Ready, BeginTuple
  PROVE  Stacked(stack', values', subStack', temp', FALSE)
<1>1. PICK lo \in Nat, mid \in Nat, d \in Nat :
        /\ Opened(lo, mid, d) /\ EntryOK(Entry) /\ IsSeq(values) /\ Kinds(values) /\ Len(values) \in Nat
        /\ Holds(values, temp, Entry, lo, mid) /\ Is(values, temp, Expect(Entry), mid, Len(values))
        /\ Entry.phase \in Nat /\ IsSeq(subStack) /\ Len(subStack) = d + Marks(Entry) /\ mid <= Len(values)
  BY Begins DEF BeginTuple, Doing
<1>2. StepOf(Entry) = "tuple"
  BY DEF BeginTuple, Doing, Step
<1>3. Entry.node.op = "Tuple" /\ Entry.phase = 0 /\ Expect(Entry) = "nothing" /\ Share(Entry) = "nothing"
  BY <1>1, <1>2, RowCases DEF AssigningRow, SimpleRow, CallRow, TupleRow, OtherRow, Row
<1>4. Marks(Entry) = 0 /\ lo = mid /\ mid = Len(values)
  BY <1>1, <1>3, MarksCases DEF Holds, Is
<1>. DEFINE f == InPhase(Entry, 1)  t == TupleTemp(<<>>)
            us == Append(values, t)  sup == Append(subStack, Len(values) + 1)
<1>5. /\ EntryOK(f) /\ f.node = Entry.node /\ f.phase = 1 /\ Share(f) = "tuple" /\ Expect(f) = "nothing"
      /\ Marks(f) = 1 /\ Offset(Entry) = 1
  <2>1. Entry.node \in Node
    BY <1>1, <1>3, OperatorCases DEF Markers, Marker
  <2>2. Len(Entry.node.subNodes) \in Nat
    BY <2>1, NodeAssumption
  <2>3. 1 % 8 = 1 /\ (1 - 1) \div 8 <= Len(Entry.node.subNodes)
    BY <2>2
  <2>4. EntryOK(f) /\ f.node = Entry.node /\ f.phase = 1 /\ TupleRow(f)
    BY <1>1, <1>3, <2>3, TuplePhases
  <2>. HIDE DEF f
  <2>5. Share(f) = "tuple" /\ Expect(f) = "nothing"
    BY <2>4, <2>3 DEF TupleRow, Row
  <2>6. Marks(f) = 1
    BY <1>3, <2>4, MarksCases
  <2>. QED BY <1>3, <2>4, <2>5, <2>6 DEF Offset
<1>6. Single(t) /\ t.kind = "tuple"
  <2>. DEFINE e == <<>>
  <2>1. IsSeq(e) /\ Len(e) = 0 /\ t = [kind |-> "tuple", parts |-> e, args |-> FALSE]
    BY ShortSeqs DEF TupleTemp
  <2>. HIDE DEF e, t
  <2>3. \A i \in 1..Len(e) : IsPart(e[i])
    BY <2>1
  <2>2. LET u == [kind |-> "tuple", parts |-> e, args |-> FALSE] IN Typed(u)
    BY <2>1, <2>3, TypedTuple
  <2>. QED BY <2>1, <2>2 DEF Single
<1>. HIDE DEF f, t
<1>7. IsSeq(us) /\ Kinds(us) /\ Len(us) = lo + 1 /\ (\A i \in 1..lo : us[i] = values[i]) /\ us[lo + 1] = t
  BY <1>1, <1>4, <1>6, AddFacts
<1>8. /\ IsSeq(sup) /\ Len(sup) = d + 1 /\ sup[d + 1] = lo + 1
      /\ \A i \in 1..d : sup[i] = subStack[i]
  BY <1>1, <1>4, AppendFacts
<1>. HIDE DEF us, sup
<1>9. Fresh(us, sup, temp, lo, d)
  BY <1>7, <1>8 DEF Fresh
<1>10. Holds(us, temp, f, lo, Len(us)) /\ Is(us, temp, Expect(f), Len(us), Len(us))
  BY <1>5, <1>6, <1>7 DEF Holds, Is
<1>11. Stacked(ToPhase(1), us, sup, temp, FALSE)
  <2>1. Len(us) \in Nat /\ lo <= Len(us) /\ Len(us) <= Len(us) /\ sup[d + 1] = lo + Offset(Entry) /\ Len(sup) = d + Marks(f)
    BY <1>5, <1>7, <1>8
  <2>. QED BY <1>1, <1>5, <1>9, <1>10, <2>1, Stays DEF f
<1>12. Entry.phase + 1 = 1
  BY <1>3
<1>. QED BY <1>11, <1>12 DEF BeginTuple, us, sup, t, Advanced

\* What an element of a tuple finds: the tuple is where subStack says.
LEMMA ElementFacts ==
  ASSUME NEW lo \in Nat, NEW mid \in Nat, NEW d \in Nat, Opened(lo, mid, d), StepOf(Entry) = "element"
  PROVE  LET n == Len(Entry.node.subNodes)  k == (Entry.phase - 1) \div 8
         IN  /\ Entry.node.op = "Tuple" /\ Entry.node \in Node /\ Entry.phase \in Nat /\ Entry.phase >= 1
             /\ Marks(Entry) = 1 /\ Offset(Entry) = 1
             /\ mid = lo + 1 /\ Single(values[mid]) /\ values[mid].kind = "tuple"
             /\ Len(subStack) = d + 1 /\ subStack[Len(subStack)] = mid
             /\ n \in Nat /\ k \in 0..n
             /\ \/ Entry.phase % 8 = 1 /\ Len(values) = mid
                \/ Entry.phase % 8 = 2 /\ k < n /\ Operand(values, mid, Len(values))
<1>1. /\ EntryOK(Entry) /\ Holds(values, temp, Entry, lo, mid) /\ Is(values, temp, Expect(Entry), mid, Len(values))
      /\ (Marks(Entry) = 1 => subStack[d + 1] = lo + Offset(Entry)) /\ Len(subStack) = d + Marks(Entry)
  BY DEF Opened
<1>2. /\ Entry.phase \in Nat /\ Entry.node.op = "Tuple" /\ Entry.phase >= 1 /\ Share(Entry) = "tuple"
      /\ \/ Entry.phase % 8 = 1 /\ Expect(Entry) = "nothing"
         \/ Entry.phase % 8 = 2 /\ Expect(Entry) = "operand"
  BY <1>1, RowCases DEF AssigningRow, SimpleRow, CallRow, TupleRow, OtherRow, Row
<1>3. Entry.node \in Node
  BY <1>1, <1>2, OperatorCases DEF Markers, Marker
<1>4. Len(Entry.node.subNodes) \in Nat
  BY <1>3, NodeAssumption
<1>5. Marks(Entry) = 1 /\ Offset(Entry) = 1
  BY <1>2, MarksCases
<1>6. mid = lo + 1 /\ Single(values[mid]) /\ values[mid].kind = "tuple"
  BY <1>1, <1>2 DEF Holds, Is
<1>7. PhaseOK(Entry.node, Entry.phase)
  BY <1>1 DEF EntryOK
<1>. DEFINE p == Entry.phase  k == (p - 1) \div 8  n == Len(Entry.node.subNodes)
<1>8. (p % 8 = 1 /\ k <= n) \/ (p % 8 = 2 /\ k < n)
  BY <1>2, <1>7 DEF PhaseOK
<1>9. k \in Nat
  BY <1>2
<1>10. Len(subStack) = d + 1 /\ subStack[Len(subStack)] = mid
  BY <1>1, <1>5, <1>6
<1>11. \/ p % 8 = 1 /\ Len(values) = mid
       \/ p % 8 = 2 /\ k < n /\ Operand(values, mid, Len(values))
  BY <1>1, <1>2, <1>8 DEF Is
<1>12. k \in 0..n
  BY <1>4, <1>8, <1>9
<1>. QED BY <1>2, <1>3, <1>4, <1>5, <1>6, <1>10, <1>11, <1>12

Put(s, n, x) == [s EXCEPT ![n] = x]
LEMMA PutIs ==
  ASSUME NEW s, IsSeq(s), Kinds(s), NEW n \in 1..Len(s), NEW x,
         x.kind \in {"rvalue", "name", "ref", "method", "tuple", "map"}
  PROVE  /\ IsSeq(Put(s, n, x)) /\ Kinds(Put(s, n, x)) /\ Len(Put(s, n, x)) = Len(s)
         /\ Put(s, n, x)[n] = x
         /\ \A i \in 1..Len(s) : i # n => Put(s, n, x)[i] = s[i]
BY PutFacts DEF Put

\* What is above the tuple becomes a part of it.
Captured(s, at) == [SubSeq(s, 1, at) EXCEPT ![at].parts = Append(@, SubSeq(s, at + 1, Len(s)))]
LEMMA CaptureFacts ==
  ASSUME NEW s, IsSeq(s), Kinds(s), NEW at \in 1..Len(s), Single(s[at]), s[at].kind = "tuple", Operand(s, at, Len(s))
  PROVE  LET us == Captured(s, at)
         IN  /\ IsSeq(us) /\ Kinds(us) /\ Len(us) = at
             /\ Single(us[at]) /\ us[at].kind = "tuple"
             /\ \A i \in 1..at : i # at => us[i] = s[i]
<1>. DEFINE part == SubSeq(s, at + 1, Len(s))  w == SubSeq(s, 1, at)
            t == [w[at] EXCEPT !.parts = Append(@, part)]
<1>1. Len(s) \in Nat /\ at \in Nat /\ at \in 0..Len(s)
  BY SeqFacts
<1>2. IsPart(part)
  BY <1>1, CapturedPart
<1>3. IsSeq(w) /\ Kinds(w) /\ Len(w) = at /\ \A i \in 1..at : w[i] = s[i]
  BY <1>1, CutFacts
<1>4. Captured(s, at) = Put(w, at, t)
  BY DEF Captured, Put
<1>. HIDE DEF part, w
<1>5. w[at] = s[at] /\ at \in 1..Len(w)
  BY <1>1, <1>3
<1>6. Single(t) /\ t.kind = "tuple"
  BY <1>2, <1>5, MorePartial
<1>. HIDE DEF t
<1>7. t.kind \in {"rvalue", "name", "ref", "method", "tuple", "map"}
  BY <1>6
<1>8. /\ IsSeq(Put(w, at, t)) /\ Kinds(Put(w, at, t)) /\ Len(Put(w, at, t)) = Len(w)
      /\ Put(w, at, t)[at] = t
      /\ \A i \in 1..Len(w) : i # at => Put(w, at, t)[i] = w[i]
  <2>1. IsSeq(w) /\ Kinds(w)
    BY <1>3
  <2>2. at \in 1..Len(w)
    BY <1>5
  <2>. QED BY <2>1, <2>2, <1>7, PutIs
<1>. DEFINE us == Captured(s, at)
<1>9. /\ IsSeq(us) /\ Kinds(us) /\ Len(us) = Len(w) /\ us[at] = t
      /\ \A i \in 1..Len(w) : i # at => us[i] = w[i]
  BY <1>4, <1>8
<1>. HIDE DEF us
<1>10. /\ IsSeq(us) /\ Kinds(us) /\ Len(us) = at
       /\ Single(us[at]) /\ us[at].kind = "tuple"
       /\ \A i \in 1..at : i # at => us[i] = s[i]
  BY <1>3, <1>6, <1>9
<1>. QED BY <1>10 DEF us

\* The phases of a tuple: 8 k + 1 before element k, 8 k + 2 after it
LEMMA Eighths ==
  ASSUME NEW p \in Nat, p >= 1
  PROVE  /\ p % 8 = 1 => (p - 1) % 8 = 0 /\ (p + 1) % 8 = 2 /\ ((p + 1) - 1) \div 8 = (p - 1) \div 8
         /\ p % 8 = 2 => (p - 1) % 8 # 0
         /\ \A k \in Nat : /\ (1 + 8 * (k + 1)) % 8 = 1 /\ ((1 + 8 * (k + 1)) - 1) \div 8 = k + 1
                          /\ 1 + 8 * (k + 1) \in Nat /\ 1 + 8 * (k + 1) >= 1
OBVIOUS

LEMMA TupleElementStep ==
  ASSUME Ready, TupleElement
  PROVE  Stacked(stack', values', subStack', temp', FALSE)
<1>1. PICK lo \in Nat, mid \in Nat, d \in Nat :
        /\ Opened(lo, mid, d) /\ EntryOK(Entry) /\ IsSeq(values) /\ Kinds(values) /\ Len(values) \in Nat
        /\ IsSeq(subStack) /\ mid <= Len(values)
  BY Begins DEF TupleElement, Doing
<1>2. StepOf(Entry) = "element"
  BY DEF TupleElement, Doing, Step
<1>. DEFINE p == Entry.phase  k == (p - 1) \div 8  n == Len(Entry.node.subNodes)  L == Len(values)
<1>3. /\ Entry.node.op = "Tuple" /\ Entry.node \in Node /\ p \in Nat /\ p >= 1
      /\ Marks(Entry) = 1 /\ Offset(Entry) = 1
      /\ mid = lo + 1 /\ Single(values[mid]) /\ values[mid].kind = "tuple"
      /\ Len(subStack) = d + 1 /\ subStack[Len(subStack)] = mid
      /\ n \in Nat /\ k \in 0..n
      /\ \/ p % 8 = 1 /\ L = mid
         \/ p % 8 = 2 /\ k < n /\ Operand(values, mid, L)
  BY <1>1, <1>2, ElementFacts
<1>4. /\ temp' = temp
      /\ k = n => stack' = Finished /\ subStack' = SubSeq(subStack, 1, Len(subStack) - 1) /\ values' = values
      /\ k # n => subStack' = subStack
      /\ k # n /\ (p - 1) % 8 = 0 => stack' = Append(Advanced, SubNode(k + 1)) /\ values' = values
      /\ k # n /\ (p - 1) % 8 # 0 =>
           /\ stack' = ToPhase(1 + 8 * (k + 1))
           /\ values' = [SubSeq(values, 1, mid) EXCEPT ![mid].parts = Append(@, SubSeq(values, mid + 1, L))]
  BY <1>3 DEF TupleElement
<1>. HIDE DEF p, n
<1>8. /\ p % 8 = 1 => (p - 1) % 8 = 0 /\ (p + 1) % 8 = 2 /\ ((p + 1) - 1) \div 8 = k
      /\ p % 8 = 2 => (p - 1) % 8 # 0
      /\ (1 + 8 * (k + 1)) % 8 = 1 /\ ((1 + 8 * (k + 1)) - 1) \div 8 = k + 1
      /\ 1 + 8 * (k + 1) \in Nat /\ 1 + 8 * (k + 1) >= 1
  <2>1. k \in Nat
    BY <1>3
  <2>2. /\ p % 8 = 1 => (p - 1) % 8 = 0 /\ (p + 1) % 8 = 2 /\ ((p + 1) - 1) \div 8 = k
        /\ p % 8 = 2 => (p - 1) % 8 # 0
    BY <1>3, Eighths
  <2>. HIDE DEF k
  <2>3. /\ (1 + 8 * (k + 1)) % 8 = 1 /\ ((1 + 8 * (k + 1)) - 1) \div 8 = k + 1
        /\ 1 + 8 * (k + 1) \in Nat /\ 1 + 8 * (k + 1) >= 1
    BY <1>3, <2>1, Eighths
  <2>. QED BY <2>2, <2>3
<1>. HIDE DEF k
<1>5. CASE k = n
  <2>1. p % 8 = 1 /\ L = mid
    BY <1>3, <1>5
  <2>. DEFINE sup == SubSeq(subStack, 1, Len(subStack) - 1)
  <2>2. IsSeq(sup) /\ Len(sup) = d /\ \A i \in 1..d : sup[i] = subStack[i]
    <3>1. Len(subStack) - 1 = d /\ d \in 0..Len(subStack)
      BY <1>3
    <3>. QED BY <1>1, <3>1, PrefixFacts
  <2>. HIDE DEF sup
  <2>3. Fresh(values, sup, temp, lo, d)
    BY <1>1, <1>3, <2>2 DEF Fresh
  <2>4. Is(values, temp, Gives(Entry.node.op), lo, Len(values))
    BY <1>3, <2>1, GivesFacts DEF Is
  <2>5. Stacked(Finished, values, sup, temp, FALSE)
    BY <1>1, <2>2, <2>3, <2>4, Closes
  <2>. QED BY <1>4, <1>5, <2>5 DEF sup
<1>6. CASE k # n /\ (p - 1) % 8 = 0
  <2>1. p % 8 = 1 /\ L = mid /\ k < n
    BY <1>3, <1>6, <1>8
  <2>. DEFINE f == InPhase(Entry, p + 1)
  <2>2. EntryOK(f) /\ f.node = Entry.node /\ f.phase = p + 1 /\ Share(f) = "tuple" /\ Expect(f) = "operand" /\ Marks(f) = 1
    <3>1. (p + 1) % 8 = 2 /\ ((p + 1) - 1) \div 8 < Len(Entry.node.subNodes) /\ p + 1 \in Nat /\ p + 1 >= 1
      BY <1>3, <1>8, <2>1 DEF n
    <3>2. EntryOK(f) /\ f.node = Entry.node /\ f.phase = p + 1 /\ TupleRow(f)
      BY <1>1, <1>3, <3>1, TuplePhases
    <3>. HIDE DEF f
    <3>3. f.phase % 8 = 2 /\ f.phase > 0 /\ f.phase \in Nat /\ f.node.op = "Tuple"
      BY <1>3, <3>1, <3>2
    <3>4. Marks(f) = 1
      BY <3>3, MarksCases
    <3>. QED BY <3>2, <3>3, <3>4 DEF TupleRow, Row
  <2>3. Fresh(values, subStack, temp, lo, d)
    BY <1>1, <1>3 DEF Fresh
  <2>. HIDE DEF f
  <2>4. Holds(values, temp, f, lo, L)
    BY <1>3, <2>1, <2>2 DEF Holds, Is
  <2>5. /\ IsSeq(ToPhase(p + 1)) /\ Below(ToPhase(p + 1), values, subStack, temp, L, Len(subStack))
        /\ Wanting(ToPhase(p + 1)) = "operand"
    <3>1. subStack[d + 1] = lo + Offset(Entry) /\ Len(subStack) = d + Marks(f) /\ lo <= L
      BY <1>3, <2>1, <2>2
    <3>. HIDE DEF L
    <3>2. /\ IsSeq(ToPhase(p + 1)) /\ Below(ToPhase(p + 1), values, subStack, temp, L, Len(subStack))
          /\ Wanting(ToPhase(p + 1)) = Expect(f)
      BY <1>1, <2>2, <2>3, <2>4, <3>1, Goes DEF f, InPhase, L
    <3>. QED BY <2>2, <3>2
  <2>6. Entry.node.subNodes[k + 1] \in Node
    <3>1. k + 1 \in 1..n
      BY <1>3, <2>1
    <3>. QED BY <1>3, <3>1, NodeAssumption DEF n
  <2>7. Stacked(Append(ToPhase(p + 1), SubNode(k + 1)), values, subStack, temp, FALSE)
    BY <1>1, <2>5, <2>6, Starts DEF SubNode
  <2>8. Advanced = ToPhase(p + 1)
    BY DEF Advanced, p
  <2>. QED BY <1>4, <1>6, <2>7, <2>8
<1>7. CASE k # n /\ (p - 1) % 8 # 0
  <2>. DEFINE q == 1 + 8 * (k + 1)  f == InPhase(Entry, q)
              us == Captured(values, mid)
  <2>1. p % 8 = 2 /\ k < n /\ Operand(values, mid, L)
    BY <1>3, <1>7, <1>8
  <2>11. stack' = ToPhase(q) /\ values' = us
    BY <1>4, <1>7 DEF Captured
  <2>2. EntryOK(f) /\ f.node = Entry.node /\ f.phase = q /\ Share(f) = "tuple" /\ Expect(f) = "nothing" /\ Marks(f) = 1
    <3>1. q % 8 = 1 /\ (q - 1) \div 8 = k + 1 /\ q \in Nat /\ q >= 1 /\ k + 1 <= n
      BY <1>3, <1>8, <2>1
    <3>. HIDE DEF q
    <3>2. EntryOK(f) /\ f.node = Entry.node /\ f.phase = q /\ TupleRow(f)
      BY <1>1, <1>3, <3>1, TuplePhases DEF n
    <3>. HIDE DEF f
    <3>3. f.phase % 8 = 1 /\ f.phase > 0 /\ f.phase \in Nat /\ f.node.op = "Tuple"
      BY <1>3, <3>1, <3>2
    <3>4. Marks(f) = 1
      BY <3>3, MarksCases
    <3>. QED BY <3>2, <3>3, <3>4 DEF TupleRow, Row
  <2>7. /\ IsSeq(us) /\ Kinds(us) /\ Len(us) = mid
        /\ Single(us[mid]) /\ us[mid].kind = "tuple"
        /\ \A i \in 1..mid : i # mid => us[i] = values[i]
    <3>1. mid \in 1..Len(values)
      BY <1>1, <1>3
    <3>. QED BY <1>1, <1>3, <2>1, <3>1, CaptureFacts
  <2>. HIDE DEF us, L, q, f
  <2>8. Fresh(us, subStack, temp, lo, d)
    <3>1. \A i \in 1..lo : i \in 1..mid /\ i # mid
      BY <1>3
    <3>. QED BY <1>1, <1>3, <2>7, <3>1 DEF Fresh
  <2>9. Holds(us, temp, f, lo, mid) /\ Is(us, temp, Expect(f), mid, Len(us))
    BY <1>3, <2>2, <2>7 DEF Holds, Is
  <2>10. Stacked(ToPhase(q), us, subStack, temp, FALSE)
    <3>1. subStack[d + 1] = lo + Offset(Entry) /\ Len(subStack) = d + Marks(f) /\ lo <= mid /\ mid <= Len(us)
      BY <1>3, <2>2, <2>7
    <3>. QED BY <1>1, <2>2, <2>8, <2>9, <3>1, Stays DEF f
  <2>. QED BY <1>4, <1>7, <2>11, <2>10
<1>. QED BY <1>5, <1>6, <1>7

LEMMA ExtractStep ==
  ASSUME Ready, Extract
  PROVE  Stacked(stack', values', subStack', temp', FALSE)
<1>1. PICK lo \in Nat, mid \in Nat, d \in Nat :
        /\ Opened(lo, mid, d) /\ EntryOK(Entry) /\ IsSeq(values) /\ Kinds(values) /\ Len(values) \in Nat
        /\ Holds(values, temp, Entry, lo, mid) /\ Is(values, temp, Expect(Entry), mid, Len(values))
        /\ Entry.phase \in Nat /\ IsSeq(subStack) /\ Len(subStack) = d + Marks(Entry) /\ mid <= Len(values)
  BY Begins DEF Extract, Doing
<1>2. StepOf(Entry) = "extract"
  BY DEF Extract, Doing, Step
<1>. DEFINE p == Entry.phase  k == p \div 2  L == Len(values)  at == L - k  parts == values[at].parts
            n == Len(parts)
<1>3. /\ Entry.node.op = "EvaluateTuple"
      /\ \/ p = 0 /\ Expect(Entry) = "tuple" /\ Share(Entry) = "nothing"
         \/ p >= 1 /\ p % 2 = 0 /\ Expect(Entry) = "value" /\ Share(Entry) = "parts"
  BY <1>1, <1>2, RowCases DEF AssigningRow, SimpleRow, CallRow, TupleRow, OtherRow, Row
<1>4. Marks(Entry) = 0 /\ Gives(Entry.node.op) = "arguments"
  BY <1>1, <1>3, MarksCases, GivesFacts, Operators DEF Markers
<1>5. /\ L = lo + 1 + k /\ at = lo + 1 /\ k \in Nat /\ Partial(values[at], k)
      /\ \A i \in at + 1..L : Readable(temp, values[i])
  <2>1. CASE p = 0 /\ Expect(Entry) = "tuple" /\ Share(Entry) = "nothing"
    <3>1. k = 0 /\ lo = mid /\ L = mid + 1 /\ Single(values[L]) /\ values[L].kind = "tuple"
      BY <1>1, <2>1 DEF Holds, Is
    <3>2. Partial(values[L], 0)
      BY <3>1, TypedFacts DEF Single, Partial
    <3>. QED BY <1>1, <3>1, <3>2, SMTT(30)
  <2>2. CASE p >= 1 /\ p % 2 = 0 /\ Expect(Entry) = "value" /\ Share(Entry) = "parts"
    <3>1. Parts(values, temp, p, lo, mid) /\ L = mid + 1 /\ Readable(temp, values[L])
      BY <1>1, <2>2 DEF Holds, Is
    <3>2. (p - 1) \div 2 = k - 1 /\ (p + 1) \div 2 = k /\ k \in Nat /\ k >= 1
      BY <1>1, <2>2
    <3>. HIDE DEF p, k
    <3>3. mid = lo + 1 + (k - 1) /\ Partial(values[lo + 1], k) /\ \A i \in lo + 2..mid : Readable(temp, values[i])
      BY <3>1, <3>2 DEF Parts
    <3>4. L = lo + 1 + k /\ at = lo + 1
      BY <3>1, <3>2, <3>3
    <3>5. \A i \in at + 1..L : i \in lo + 2..mid \/ i = L
      BY <3>1, <3>3, <3>4
    <3>. QED BY <3>1, <3>2, <3>3, <3>4, <3>5
  <2>. QED BY <1>3, <2>1, <2>2
<1>6. n \in Nat
  BY <1>5, SeqFacts DEF Partial, IsTuple
<1>7. CASE \E i \in at + 1..L : Read(values[i]).t = "tuple" /\ Len(Read(values[i]).es) # 1
  BY <1>7, RaiseStep DEF Extract
<1>8. CASE ~(\E i \in at + 1..L : Read(values[i]).t = "tuple" /\ Len(Read(values[i]).es) # 1) /\ k < n
  <2>. DEFINE us == [values EXCEPT ![at].parts[k + 1] = <<>>] \o parts[k + 1]  f == InPhase(Entry, p + 1)
  <2>1. Stacks(Advanced, us)
    BY <1>8 DEF Extract
  <2>2. /\ IsSeq(us) /\ Kinds(us) /\ L < Len(us)
        /\ \A i \in 1..L : i # at => us[i] = values[i]
        /\ Partial(us[at], k + 1)
        /\ Operand(us, L, Len(us))
    <3>1. at \in 1..Len(values)
      BY <1>5
    <3>. QED BY <1>1, <1>5, <1>8, <3>1, NextPartFacts
  <2>3. EntryOK(f) /\ f.node = Entry.node /\ f.phase = p + 1 /\ Share(f) = "parts" /\ Expect(f) = "operand" /\ Marks(f) = 0
    <3>1. p + 1 \in Nat /\ (p + 1) % 2 = 1 /\ p + 1 >= 1
      BY <1>1, <1>3
    <3>2. EntryOK(f) /\ f.node = Entry.node /\ f.phase = p + 1 /\ OtherRow(f)
      BY <1>1, <1>3, <3>1, MarkerPhase
    <3>3. Marks(f) = 0
      BY <1>3, <3>1, <3>2, MarksCases, Operators DEF Markers
    <3>. HIDE DEF f
    <3>4. f.phase % 2 = 1 /\ f.phase >= 1 /\ f.node.op = "EvaluateTuple"
      BY <1>3, <3>1, <3>2
    <3>. QED BY <3>2, <3>3, <3>4 DEF OtherRow, Row
  <2>. HIDE DEF us, f
  <2>4. Fresh(us, subStack, temp, lo, d)
    <3>1. \A i \in 1..lo : i \in 1..L /\ i # at
      BY <1>5
    <3>2. lo <= Len(us)
      BY <1>5, <2>2, SeqFacts
    <3>. QED BY <1>1, <2>2, <3>1, <3>2 DEF Fresh
  <2>5. Holds(us, temp, f, lo, L)
    <3>1. ((p + 1) - 1) \div 2 = k /\ ((p + 1) + 1) \div 2 = k + 1
      BY <1>1, <1>3
    <3>2. \A i \in lo + 2..L : i \in 1..L /\ i # at /\ i \in at + 1..L
      BY <1>5
    <3>. HIDE DEF p, k, L, at
    <3>3. Parts(us, temp, p + 1, lo, L)
      BY <1>5, <2>2, <3>1, <3>2 DEF Parts
    <3>. QED BY <2>3, <3>3 DEF Holds
  <2>6. Is(us, temp, Expect(f), L, Len(us))
    BY <2>2, <2>3 DEF Is
  <2>7. Stacked(ToPhase(p + 1), us, subStack, temp, FALSE)
    <3>00. Len(us) \in Nat
      BY <2>2, SeqFacts
    <3>. HIDE DEF p, k
    <3>0. lo <= L /\ L <= Len(us)
      BY <1>1, <1>5, <2>2, <3>00
    <3>1. lo <= L /\ L <= Len(us) /\ Len(subStack) = d + Marks(f) /\ Marks(f) # 1
      BY <1>1, <1>4, <2>3, <3>0
    <3>. HIDE DEF p, L
    <3>2. L \in Nat
      BY <1>1 DEF L
    <3>. QED BY <1>1, <2>3, <2>4, <2>5, <2>6, <3>1, <3>2, Stays DEF f
  <2>. QED BY <2>1, <2>7 DEF Stacks, Advanced
<1>9. CASE ~(\E i \in at + 1..L : Read(values[i]).t = "tuple" /\ Len(Read(values[i]).es) # 1) /\ ~(k < n)
  <2>. DEFINE v(i) == IF Read(values[at + i]).t = "tuple" THEN Read(values[at + i]).es[1] ELSE Read(values[at + i])
              es == [i \in 1..n |-> v(i)]  w == SubSeq(values, 1, at - 1)  x == Rvalue(TupleOf(es))
  <2>1. Stacks(Finished, Append(w, x))
    BY <1>9 DEF Extract
  <2>2. ASSUME NEW i \in 1..n
        PROVE  v(i) \in Primitive
    <3>1. at + i \in at + 1..L
      BY <1>5, <1>6, <1>9
    <3>. DEFINE r == Read(values[at + i])
    <3>2. r \in Value
      BY <1>5, <3>1, ReadFacts DEF Ready
    <3>3. r.t = "tuple" => Len(r.es) = 1
      BY <1>9, <3>1
    <3>. HIDE DEF r
    <3>4. r.t = "tuple" => r.es \in Seq(Primitive)
      BY <3>2, ValueCases
    <3>5. r.t = "tuple" => r.es[1] \in Primitive
      BY <3>3, <3>4
    <3>6. r.t # "tuple" => r \in Primitive
      BY <3>2, ValueCases
    <3>. QED BY <3>5, <3>6 DEF r
  <2>. HIDE DEF v
  <2>3. es \in Seq(Primitive)
    BY <1>6, <2>2
  <2>. HIDE DEF es
  <2>4. IsArguments(x)
    BY <2>3 DEF IsArguments
  <2>. HIDE DEF x
  <2>5. IsSeq(w) /\ Kinds(w) /\ Len(w) = lo /\ \A i \in 1..lo : w[i] = values[i]
    <3>1. at - 1 = lo /\ lo \in 0..Len(values)
      BY <1>5
    <3>. QED BY <1>1, <3>1, CutFacts
  <2>. HIDE DEF w
  <2>6. Stacked(Finished, Append(w, x), subStack, temp, FALSE)
    BY <1>1, <1>4, <2>4, <2>5, Ends
  <2>. QED BY <2>1, <2>6 DEF Stacks
<1>. QED BY <1>7, <1>8, <1>9

(***************************************************************************)
(* Assignments to the parts of a tuple: phase 40 + 4 k + q is the q-th for *)
(* part k.                                                                 *)
(***************************************************************************)
LEMMA Quarters ==
  ASSUME NEW p \in Nat, p >= 40
  PROVE  LET k == (p - 40) \div 4  q == (p - 40) % 4  next == 40 + 4 * (k + 1)
         IN  /\ k \in Nat /\ q \in {0, 1, 2, 3}
             /\ (p - 37) \div 4 = IF q = 0 THEN k ELSE k + 1
             /\ q # 3 => /\ ((p + 1) - 40) % 4 = q + 1 /\ ((p + 1) - 37) \div 4 = k + 1
                         /\ p + 1 >= 40 /\ p + 1 \in Nat
             /\ next \in Nat /\ next >= 40 /\ (next - 40) % 4 = 0 /\ (next - 37) \div 4 = k + 1
<1>. DEFINE k == (p - 40) \div 4  q == (p - 40) % 4
<1>1. k \in Nat /\ q \in {0, 1, 2, 3} /\ p = 40 + 4 * k + q
  OBVIOUS
<1>2. (p - 37) \div 4 = IF q = 0 THEN k ELSE k + 1
  OBVIOUS
<1>. HIDE DEF k, q
<1>3. q # 3 => ((p + 1) - 40) % 4 = q + 1 /\ ((p + 1) - 37) \div 4 = k + 1 /\ p + 1 >= 40 /\ p + 1 \in Nat
  BY <1>1
<1>4. LET next == 40 + 4 * (k + 1)
      IN  next \in Nat /\ next >= 40 /\ (next - 40) % 4 = 0 /\ (next - 37) \div 4 = k + 1
  BY <1>1
<1>. QED BY <1>1, <1>2, <1>3, <1>4 DEF k, q

LEMMA InTupleFacts ==
  ASSUME NEW lo \in Nat, NEW mid \in Nat, NEW d \in Nat, Opened(lo, mid, d),
         Entry.node.op \in Assigning, Entry.phase >= 40
  PROVE  /\ Entry.phase \in Nat /\ Marks(Entry) = 1 /\ Offset(Entry) = 2
         /\ Len(subStack) = d + 1 /\ subStack[Len(subStack)] = lo + 2
         /\ mid = lo + 3 /\ Partial(values[lo + 1], (Entry.phase - 37) \div 4)
         /\ IsArguments(values[lo + 2]) /\ values[lo + 3] = MapTemp
         /\ Position = (Entry.phase - 40) \div 4 /\ Position \in Nat
         /\ SourceAt(Position) \in Primitive
<1>1. /\ EntryOK(Entry) /\ Holds(values, temp, Entry, lo, mid)
      /\ (Marks(Entry) = 1 => subStack[d + 1] = lo + Offset(Entry)) /\ Len(subStack) = d + Marks(Entry)
      /\ Entry.phase \in Nat
  BY DEF Opened, EntryOK
<1>2. Marks(Entry) = 1 /\ Offset(Entry) = 2
  BY <1>1, MarksCases
<1>3. Len(subStack) = d + 1 /\ subStack[Len(subStack)] = lo + 2
  BY <1>1, <1>2
<1>4. Share(Entry) = "assignment"
  BY <1>1, AssigningRows DEF AssigningRow, Row
<1>5. Assignment(values, Entry.phase, lo, mid)
  BY <1>1, <1>4 DEF Holds
<1>6. Position = (Entry.phase - 40) \div 4 /\ Position \in Nat
  <2>1. (Entry.phase - 40) \div 4 \in Nat
    BY <1>1, Quarters
  <2>. QED BY <2>1 DEF Position, TuplePhase
<1>7. SourceAt(Position) \in Primitive
  <2>. DEFINE es == values[lo + 2].v.es
  <2>1. es \in Seq(Primitive)
    BY <1>5, ArgumentsFacts DEF Assignment
  <2>2. SourceAt(Position) = IF Position < Len(es) THEN es[Position + 1] ELSE Null
    BY <1>3 DEF SourceAt
  <2>. HIDE DEF es
  <2>3. Position < Len(es) => Position + 1 \in 1..Len(es)
    BY <1>6, <2>1
  <2>. QED BY <2>1, <2>2, <2>3, PrimitiveMakes
<1>. QED BY <1>1, <1>2, <1>3, <1>5, <1>6, <1>7 DEF Assignment

LEMMA VariableFacts ==
  ASSUME NEW t, IsVariable(t)
  PROVE  t.kind = "ref" /\ t.name \in Name /\ Single(t)
<1>1. PICK n \in Name : t = RefTemp(n)
  BY DEF IsVariable
<1>2. t.kind = "ref" /\ t.name = n /\ ~t.args /\ IsNamed(t)
  BY <1>1 DEF RefTemp, IsNamed
<1>. QED BY <1>2, TypedLeaf DEF Single

LEMMA MethodFacts ==
  ASSUME NEW t, IsMethod(t)
  PROVE  t.kind = "method" /\ t.name \in Function /\ t.args
BY DEF IsMethod

\* The entry that assigns to a part, with what it finds on top
LEMMA AssignFacts ==
  ASSUME NEW lo \in Nat, NEW mid \in Nat, NEW d \in Nat, Opened(lo, mid, d), StepOf(Entry) = "assign"
  PROVE  /\ EntryOK(Entry) /\ Entry.phase \in Nat /\ Entry.node.op \in Assigning /\ Entry.phase >= 40
         /\ (Entry.phase - 40) % 4 = 3
         /\ \/ Len(values) = mid + 1 /\ IsVariable(Top)
            \/ Method(values, mid, Len(values)) /\ Top.kind = "method"
            \/ Len(values) = mid + 2 /\ Top.kind = "rvalue"
         /\ Len(values) > mid
<1>1. EntryOK(Entry) /\ Is(values, temp, Expect(Entry), mid, Len(values))
  BY DEF Opened
<1>2. /\ Entry.phase \in Nat /\ Entry.node.op \in Assigning /\ Entry.phase >= 40
      /\ (Entry.phase - 40) % 4 = 3 /\ Expect(Entry) = "target"
  BY <1>1, RowCases DEF AssigningRow, SimpleRow, CallRow, TupleRow, OtherRow, Row
<1>3. \/ Len(values) = mid + 1 /\ IsVariable(Top)
      \/ Method(values, mid, Len(values))
      \/ Len(values) = mid + 2 /\ Top.kind = "rvalue"
  BY <1>1, <1>2 DEF Is, Top
<1>4. Method(values, mid, Len(values)) => Top.kind = "method" /\ Len(values) = mid + 2
  BY MethodFacts DEF Method, Top
<1>. QED BY <1>1, <1>2, <1>3, <1>4

LEMMA SuspendStep ==
  ASSUME Ready, Suspend
  PROVE  Stacked(stack', values', subStack', temp', FALSE)
<1>1. stack' = stack /\ subStack' = subStack /\ temp' = temp
      /\ values' = IF Step = "assign" THEN Append(values, Rvalue(SourceAt(Position))) ELSE values
  BY DEF Suspend
<1>2. CASE Step # "assign"
  BY <1>1, <1>2 DEF Ready
<1>3. CASE Step = "assign"
  <2>1. PICK lo \in Nat, mid \in Nat, d \in Nat :
          /\ Opened(lo, mid, d) /\ IsSeq(values) /\ Kinds(values) /\ Len(values) \in Nat
          /\ IsSeq(subStack) /\ IsSeq(stack)
          /\ Below(stack, values, subStack, temp, mid, Len(subStack))
    BY Begins DEF Suspend
  <2>2. StepOf(Entry) = "assign" /\ stack # <<>>
    BY <1>3 DEF Step, Suspend
  <2>3. Top.kind = "ref"
    <3>1. Step \notin {"value", "callee", "reference", "RestoreTemporaryLock"}
      BY <1>3
    <3>2. ~Evaluating
      BY <3>1 DEF Evaluating, Doing
    <3>3. Wanted # {}
      BY DEF Suspend
    <3>. QED BY <1>3, <3>1, <3>2, <3>3 DEF Wanted
  <2>4. /\ Entry.node.op \in Assigning /\ Entry.phase >= 40 /\ Len(values) = mid + 1 /\ IsVariable(Top)
        /\ Expect(Entry) = "target"
    <3>1. /\ EntryOK(Entry) /\ Entry.node.op \in Assigning /\ Entry.phase >= 40 /\ Len(values) = mid + 1 /\ IsVariable(Top)
      BY <2>1, <2>2, <2>3, AssignFacts
    <3>2. Expect(Entry) = "target"
      BY <2>2, <3>1, AssigningRows DEF AssigningRow, Row
    <3>. QED BY <3>1, <3>2
  <2>. DEFINE t == Rvalue(SourceAt(Position))  us == Append(values, t)
  <2>5. Single(t) /\ t.kind = "rvalue"
    <3>1. SourceAt(Position) \in Value
      BY <2>1, <2>4, InTupleFacts, PrimitiveValue
    <3>. QED BY <3>1, RvalueFacts
  <2>. HIDE DEF t
  <2>6. /\ IsSeq(us) /\ Kinds(us) /\ Len(us) = Len(values) + 1 /\ (\A i \in 1..Len(values) : us[i] = values[i])
        /\ us[Len(values) + 1] = t
    BY <2>1, <2>5, AddFacts
  <2>. HIDE DEF us
  <2>7. Len(us) = mid + 2 /\ us[mid + 2] = t /\ us[mid + 1] = Top /\ \A i \in 1..mid : us[i] = values[i]
    <3>1. Len(values) + 1 = mid + 2 /\ mid + 1 \in 1..Len(values) /\ \A i \in 1..mid : i \in 1..Len(values)
      BY <2>4
    <3>. QED BY <2>4, <2>6, <3>1 DEF Top
  <2>8. Is(us, temp, "target", mid, Len(us)) /\ mid <= Len(us)
    BY <2>4, <2>5, <2>7 DEF Is
  <2>9. Below(stack, us, subStack, temp, mid, Len(subStack))
    BY <2>1, <2>7, SameBelow
  <2>10. Wanting(stack) = "target"
    BY <2>1, <2>2, <2>4, SeqFacts DEF Wanting, ExpectOf, Entry
  <2>11. Stacked(stack, us, subStack, temp, FALSE)
    BY <2>1, <2>6, <2>8, <2>9, <2>10, Rests
  <2>. QED BY <1>1, <1>3, <2>11 DEF us, t
<1>. QED BY <1>2, <1>3

LEMMA CompoundStep ==
  ASSUME Ready, CompoundOperator
  PROVE  Stacked(stack', values', subStack', temp', FALSE)
<1>1. PICK lo \in Nat, mid \in Nat, d \in Nat :
        /\ Opened(lo, mid, d) /\ EntryOK(Entry) /\ IsSeq(values) /\ Kinds(values) /\ Len(values) \in Nat
        /\ Holds(values, temp, Entry, lo, mid) /\ Is(values, temp, Expect(Entry), mid, Len(values))
        /\ Entry.phase \in Nat /\ IsSeq(subStack) /\ Len(subStack) = d + Marks(Entry) /\ lo <= mid /\ mid <= Len(values)
  BY Begins DEF CompoundOperator, Doing
<1>2. StepOf(Entry) = "operator"
  BY DEF CompoundOperator, Doing, Step
<1>. DEFINE e == Entry  f == InPhase(Entry, 6)  a == [node |-> Marker("Addition"), phase |-> 4]
            st == ToPhase(6)  s == Append(st, a)
<1>3. e.node.op \in Compounds /\ e.phase = 5 /\ Expect(e) = "value" /\ Share(e) = "pair"
  BY <1>1, <1>2, RowCases DEF AssigningRow, SimpleRow, CallRow, TupleRow, OtherRow, Row
<1>4. /\ EntryOK(f) /\ f.node = e.node /\ f.phase = 6 /\ Marks(f) = 0 /\ Marks(e) = 0
      /\ Share(f) = "operand" /\ Expect(f) = "value"
  <2>1. e.node.op \in Assigning
    BY <1>3, Operators
  <2>2. EntryOK(f) /\ f.phase = 6 /\ f.node = e.node /\ AssigningRow(f)
    BY <1>1, <1>3, <2>1, AssigningPhase
  <2>3. Marks(f) = 0 /\ Marks(e) = 0
    BY <1>3, <2>1, <2>2, MarksCases
  <2>. QED BY <2>2, <2>3 DEF AssigningRow, Row
<1>5. /\ Operand(values, lo, mid - 1) /\ Readable(temp, values[mid]) /\ Len(values) = mid + 1 /\ Readable(temp, values[mid + 1])
      /\ mid - 1 > lo
  <2>1. Is(values, temp, "pair", lo, mid) /\ Is(values, temp, "value", mid, Len(values))
    BY <1>1, <1>3 DEF Holds
  <2>. QED BY <2>1 DEF Is, Operand
<1>. HIDE DEF f, e
<1>6. Fresh(values, subStack, temp, lo, d)
  BY <1>1 DEF Fresh
<1>7. mid - 1 \in Nat /\ lo <= mid - 1 /\ (mid - 1) + 1 = mid
  BY <1>5
<1>8. Holds(values, temp, f, lo, mid - 1)
  BY <1>4, <1>5 DEF Holds, Is
<1>9. Len(subStack) = d /\ Marks(f) # 1 /\ Len(subStack) = d + Marks(f)
  BY <1>1, <1>4 DEF e
<1>10. IsSeq(st) /\ Below(st, values, subStack, temp, mid - 1, d) /\ Wanting(st) = "value"
  <2>1. IsSeq(st) /\ Below(st, values, subStack, temp, mid - 1, Len(subStack)) /\ Wanting(st) = Expect(f)
    BY <1>1, <1>4, <1>6, <1>7, <1>8, <1>9, Goes DEF f, InPhase
  <2>. QED BY <1>4, <1>9, <2>1
<1>11. /\ EntryOK(a) /\ a.node.op = "Addition" /\ a.phase = 4 /\ Share(a) = "value" /\ Expect(a) = "value" /\ Marks(a) = 0
       /\ Gives("Addition") = "rvalue"
  <2>1. a.node.op = "Addition" /\ a.phase = 4 /\ a.node = Marker("Addition") /\ a = [node |-> a.node, phase |-> a.phase]
    BY DEF Marker
  <2>. HIDE DEF a
  <2>2. "Addition" \in Binary /\ "Addition" \in Simple
    BY DEF Binary, Simple
  <2>3. PhaseOK(a.node, a.phase)
    <3>1. "Addition" \notin Assigning \cup Increments \cup Unary \cup {"Literal", "Name", "Parenthesis", "Call", "Tuple", "Conditional"} \cup Markers
      BY <2>2, Operators
    <3>2. "Addition" \notin {"Expression", "PostPostfix", "RestoreTemporaryLock"}
      OBVIOUS
    <3>. QED BY <2>1, <3>1, <3>2 DEF PhaseOK
  <2>4. EntryOK(a)
    BY <2>1, <2>3 DEF EntryOK
  <2>5. SimpleRow(a)
    BY <2>1, <2>2, <2>4, SimpleRows
  <2>6. Marks(a) = 0
    BY <2>1, <2>2, MarksCases, Operators
  <2>. QED BY <2>1, <2>2, <2>4, <2>5, <2>6, GivesFacts DEF SimpleRow, Row
<1>. HIDE DEF a, st
<1>12. Fits(a, Wanting(st), values, subStack, temp, mid - 1, mid, d)
  <2>1. Holds(values, temp, a, mid - 1, mid)
    BY <1>5, <1>7, <1>11 DEF Holds, Is
  <2>2. Wanting(st) \in Above(Gives(a.node.op))
    BY <1>10, <1>11 DEF Above
  <2>. QED BY <1>7, <1>11, <2>1, <2>2 DEF Fits
<1>13. Below(s, values, subStack, temp, mid, d)
  <2>1. Below(s, values, subStack, temp, mid, d + Marks(a))
    BY <1>7, <1>10, <1>12, Extend
  <2>. QED BY <1>11, <2>1
<1>14. IsSeq(s) /\ Wanting(s) = "value"
  <2>1. IsSeq(s) /\ Len(s) = Len(st) + 1 /\ s[Len(st) + 1] = a /\ Len(st) \in Nat
    BY <1>10, AppendFacts, SeqFacts
  <2>. QED BY <1>11, <2>1 DEF Wanting, ExpectOf
<1>. HIDE DEF s
<1>15. Is(values, temp, Wanting(s), mid, Len(values)) /\ Below(s, values, subStack, temp, mid, Len(subStack))
  BY <1>5, <1>9, <1>13, <1>14 DEF Is
<1>16. Stacked(s, values, subStack, temp, FALSE)
  BY <1>1, <1>14, <1>15, Rests
<1>. QED BY <1>16 DEF CompoundOperator, Stacks, ProcessPhase, s, st, a

\* Something that can be assigned to
LEMMA PlaceFacts ==
  ASSUME NEW vs, NEW lo \in Nat, NEW hi \in Nat, (hi = lo + 1 /\ Single(vs[hi])) \/ Method(vs, lo, hi)
  PROVE  /\ hi > lo
         /\ vs[hi].kind = "ref" => hi = lo + 1 /\ IsVariable(vs[hi])
         /\ vs[hi].kind = "method" => Method(vs, lo, hi)
<1>1. CASE hi = lo + 1 /\ Single(vs[hi])
  <2>. DEFINE t == vs[hi]
  <2>1. Typed(t) /\ ~t.args
    BY <1>1 DEF Single
  <2>. HIDE DEF t
  <2>2. /\ t.kind # "method" /\ t.args = FALSE
        /\ t.kind = "ref" => t.name \in Name /\ t = [kind |-> t.kind, name |-> t.name, args |-> t.args]
    BY <2>1, TypedFacts
  <2>3. t.kind = "ref" => IsVariable(t)
    BY <2>2 DEF IsVariable, RefTemp
  <2>. QED BY <1>1, <2>2, <2>3 DEF t
<1>2. CASE Method(vs, lo, hi)
  BY <1>2, MethodFacts DEF Method
<1>. QED BY <1>1, <1>2

LEMMA KindStep ==
  ASSUME Ready, Kind
  PROVE  Stacked(stack', values', subStack', temp', FALSE)
<1>1. PICK lo \in Nat, mid \in Nat, d \in Nat :
        /\ Opened(lo, mid, d) /\ EntryOK(Entry) /\ IsSeq(values) /\ Kinds(values) /\ Len(values) \in Nat
        /\ Holds(values, temp, Entry, lo, mid) /\ Is(values, temp, Expect(Entry), mid, Len(values))
        /\ Entry.phase \in Nat /\ IsSeq(subStack) /\ Len(subStack) = d + Marks(Entry) /\ lo <= mid /\ mid <= Len(values)
  BY Begins DEF Kind, Doing
<1>2. StepOf(Entry) = "kind"
  BY DEF Kind, Doing, Step
<1>. DEFINE p == Entry.phase  L == Len(values)
<1>3. /\ Entry.node.op \in Assigning
      /\ \/ p = 8 /\ Expect(Entry) = "scalar" /\ Share(Entry) = "place"
         \/ p >= 40 /\ (p - 40) % 4 = 2 /\ Expect(Entry) = "place" /\ Share(Entry) = "assignment"
  BY <1>1, <1>2, RowCases DEF AssigningRow, SimpleRow, CallRow, TupleRow, OtherRow, Row
<1>4. Fresh(values, subStack, temp, lo, d)
  BY <1>1 DEF Fresh
<1>. DEFINE t == values[DestinationAt]
<1>5. \/ \E ex : Raise(ex)
      \/ /\ t.kind \in {"ref", "method"}
         /\ Stacks(IF InTuple THEN Advanced ELSE ToPhase(IF t.kind = "ref" THEN 10 ELSE 20), values)
  BY DEF Kind, ReferencePhase, MethodPhase
<1>6. CASE \E ex : Raise(ex)
  BY <1>6, RaiseStep
<1>7. CASE p = 8 /\ t.kind \in {"ref", "method"} /\ Stacks(IF InTuple THEN Advanced ELSE ToPhase(IF t.kind = "ref" THEN 10 ELSE 20), values)
  <2>. DEFINE q == IF t.kind = "ref" THEN 10 ELSE 20  f == InPhase(Entry, q)
  <2>1. ~InTuple /\ L = mid + 1 /\ DestinationAt = mid /\ Is(values, temp, "scalar", mid, L)
    <3>1. ~InTuple
      BY <1>7 DEF InTuple, TuplePhase
    <3>2. Expect(Entry) = "scalar"
      BY <1>3, <1>7
    <3>3. L = mid + 1 /\ Is(values, temp, "scalar", mid, L)
      BY <1>1, <3>2 DEF Is
    <3>. QED BY <3>1, <3>3, <1>1 DEF DestinationAt
  <2>2. Is(values, temp, "place", lo, mid)
    BY <1>1, <1>3, <1>7 DEF Holds
  <2>3. t = values[mid]
    BY <2>1
  <2>4. /\ t.kind = "ref" => mid = lo + 1 /\ IsVariable(values[mid])
        /\ t.kind = "method" => Method(values, lo, mid)
    BY <2>2, <2>3, PlaceFacts DEF Is
  <2>. HIDE DEF t
  <2>5. /\ EntryOK(f) /\ f.node = Entry.node /\ f.phase = q /\ Marks(f) = 0 /\ Marks(Entry) = 0 /\ q \in Nat
        /\ Expect(f) = "scalar" /\ Share(f) = (IF t.kind = "ref" THEN "variable" ELSE "method")
    <3>1. q \in {10, 20}
      OBVIOUS
    <3>2. EntryOK(f) /\ f.node = Entry.node /\ f.phase = q /\ AssigningRow(f)
      BY <1>1, <1>3, <3>1, AssigningPhase
    <3>3. Marks(f) = 0 /\ Marks(Entry) = 0
      BY <1>1, <1>3, <1>7, <3>1, <3>2, MarksCases
    <3>. QED BY <3>2, <3>3 DEF AssigningRow, Row
  <2>6. Holds(values, temp, f, lo, mid)
    BY <1>7, <2>4, <2>5 DEF Holds, Is
  <2>. HIDE DEF f, q
  <2>7. Len(subStack) = d + Marks(f) /\ Marks(f) # 1 /\ Is(values, temp, Expect(f), mid, Len(values))
    BY <1>1, <2>1, <2>5
  <2>8. Stacked(ToPhase(q), values, subStack, temp, FALSE)
    BY <1>1, <1>4, <2>5, <2>6, <2>7, Stays DEF f
  <2>9. Stacks(ToPhase(q), values)
    BY <1>7, <2>1 DEF q
  <2>. QED BY <2>8, <2>9 DEF Stacks
<1>8. CASE p >= 40 /\ t.kind \in {"ref", "method"} /\ Stacks(IF InTuple THEN Advanced ELSE ToPhase(IF t.kind = "ref" THEN 10 ELSE 20), values)
  <2>. DEFINE q == p + 1  f == InPhase(Entry, q)
  <2>1. InTuple /\ DestinationAt = L
    BY <1>1, <1>8 DEF InTuple, TuplePhase, DestinationAt
  <2>2. Is(values, temp, "place", mid, L)
    BY <1>1, <1>3, <1>8 DEF Is
  <2>3. t = values[L]
    BY <2>1
  <2>4. /\ t.kind = "ref" => L = mid + 1 /\ IsVariable(values[L])
        /\ t.kind = "method" => Method(values, mid, L)
    BY <1>1, <2>2, <2>3, PlaceFacts DEF Is
  <2>. HIDE DEF t
  <2>5. /\ mid = lo + 3 /\ Partial(values[lo + 1], (p - 37) \div 4) /\ IsArguments(values[lo + 2]) /\ values[lo + 3] = MapTemp
        /\ Marks(Entry) = 1 /\ Offset(Entry) = 2 /\ Len(subStack) = d + 1
    BY <1>1, <1>3, <1>8, InTupleFacts
  <2>6. q \in Nat /\ q >= 40 /\ (q - 40) % 4 = 3 /\ (q - 37) \div 4 = (p - 37) \div 4
    <3>1. p \in Nat /\ p >= 40 /\ (p - 40) % 4 = 2
      BY <1>1, <1>3, <1>8
    <3>. HIDE DEF p
    <3>2. (p - 37) \div 4 = (p - 40) \div 4 + 1
      BY <3>1, Quarters
    <3>3. q \in Nat /\ q >= 40 /\ (q - 40) % 4 = 2 + 1 /\ (q - 37) \div 4 = (p - 40) \div 4 + 1
      BY <3>1, Quarters
    <3>. QED BY <3>2, <3>3
  <2>7. /\ EntryOK(f) /\ f.node = Entry.node /\ f.phase = q /\ Marks(f) = 1
        /\ Expect(f) = "target" /\ Share(f) = "assignment"
    <3>2. EntryOK(f) /\ f.node = Entry.node /\ f.phase = q /\ AssigningRow(f)
      BY <1>1, <1>3, <2>6, AssigningPhase
    <3>3. Marks(f) = 1
      BY <1>3, <2>6, <3>2, MarksCases
    <3>. HIDE DEF q, f
    <3>. QED BY <3>2, <3>3, <2>6 DEF AssigningRow, Row
  <2>. HIDE DEF f, q, p
  <2>8. Holds(values, temp, f, lo, mid)
    BY <2>5, <2>6, <2>7 DEF Holds, Assignment
  <2>9. Is(values, temp, Expect(f), mid, L)
    BY <1>8, <2>4, <2>7 DEF Is
  <2>10. subStack[d + 1] = lo + Offset(Entry)
    BY <1>1, <2>5 DEF Opened
  <2>11. Stacked(ToPhase(q), values, subStack, temp, FALSE)
    BY <1>1, <1>4, <2>5, <2>6, <2>7, <2>8, <2>9, <2>10, Stays DEF f
  <2>12. Stacks(ToPhase(q), values)
    BY <1>8, <2>1 DEF q, p, Advanced
  <2>. QED BY <2>11, <2>12 DEF Stacks
<1>. QED BY <1>3, <1>5, <1>6, <1>7, <1>8

LEMMA AssigningFacts ==
  ASSUME NEW e, EntryOK(e), e.node.op \in Assigning
  PROVE  Gives(e.node.op) = "single" /\ (e.phase < 40 => Marks(e) = 0)
<1>1. e.phase \in Nat
  BY DEF EntryOK
<1>2. e.phase < 40 => Marks(e) = 0
  BY <1>1, MarksCases
<1>. QED BY <1>2, GivesFacts

\* What is left of values when the entry and what it waited for are done with
LEMMA TrimFacts ==
  ASSUME NEW lo \in Nat, NEW mid \in Nat, NEW d \in Nat, Opened(lo, mid, d),
         NEW n \in Nat, NEW k \in Nat, Len(values) = k + n, lo <= k
  PROVE  /\ IsSeq(WithoutTop(n)) /\ Kinds(WithoutTop(n)) /\ Len(WithoutTop(n)) = k
         /\ \A i \in 1..k : WithoutTop(n)[i] = values[i]
         /\ \A um : temp \subseteq um => Fresh(WithoutTop(n), subStack, um, lo, d)
<1>1. IsSeq(values) /\ Kinds(values) /\ IsSeq(subStack) /\ Len(values) - n = k /\ k \in 0..Len(values)
  BY DEF Opened
<1>2. /\ IsSeq(WithoutTop(n)) /\ Kinds(WithoutTop(n)) /\ Len(WithoutTop(n)) = k
      /\ \A i \in 1..k : WithoutTop(n)[i] = values[i]
  BY <1>1, CutFacts DEF WithoutTop
<1>. QED BY <1>1, <1>2 DEF Fresh

LEMMA AssignReferenceStep ==
  ASSUME Ready, AssignReference
  PROVE  Stacked(stack', values', subStack', temp', FALSE)
<1>1. PICK lo \in Nat, mid \in Nat, d \in Nat :
        /\ Opened(lo, mid, d) /\ EntryOK(Entry) /\ Len(values) \in Nat
        /\ Holds(values, temp, Entry, lo, mid) /\ Is(values, temp, Expect(Entry), mid, Len(values))
        /\ Entry.phase \in Nat /\ Len(subStack) = d + Marks(Entry)
  BY Begins DEF AssignReference, Doing
<1>2. StepOf(Entry) = "reference"
  BY DEF AssignReference, Doing, Step
<1>3. Entry.node.op \in Assigning /\ Entry.phase = 10 /\ Expect(Entry) = "scalar" /\ Share(Entry) = "variable"
  BY <1>1, <1>2, RowCases DEF AssigningRow, SimpleRow, CallRow, TupleRow, OtherRow, Row
<1>4. Marks(Entry) = 0 /\ Gives(Entry.node.op) = "single"
  BY <1>1, <1>3, AssigningFacts
<1>5. mid = lo + 1 /\ IsVariable(values[mid]) /\ Len(values) = mid + 1
  BY <1>1, <1>3 DEF Holds, Is
<1>. DEFINE us == WithoutTop(1)
<1>6. /\ temp \subseteq temp' /\ temp' = temp \cup {Second.name}
  BY DEF AssignReference
<1>7. Len(us) = mid /\ us[mid] = values[mid] /\ Fresh(us, subStack, temp', lo, d)
  <2>1. lo <= mid /\ mid \in 1..mid
    BY <1>5
  <2>2. Len(us) = mid /\ (\A i \in 1..mid : us[i] = values[i]) /\ Fresh(us, subStack, temp', lo, d)
    BY <1>1, <1>5, <1>6, <2>1, TrimFacts
  <2>. QED BY <2>1, <2>2
<1>. HIDE DEF us
<1>8. Is(us, temp', "single", lo, Len(us))
  BY <1>5, <1>7, VariableFacts DEF Is
<1>9. Stacked(Finished, us, subStack, temp', FALSE)
  <2>1. Len(subStack) = d /\ Is(us, temp', Gives(Entry.node.op), lo, Len(us))
    BY <1>1, <1>4, <1>8
  <2>. QED BY <1>1, <1>7, <2>1, Closes
<1>. QED BY <1>9 DEF AssignReference, us

LEMMA AssignByMethodStep ==
  ASSUME Ready, AssignByMethod
  PROVE  /\ Stacked(stack', values', subStack', temp', TRUE) /\ stack' # <<>>
         /\ Second.name \in Function /\ IsArguments(values[Len(values) - 2]) /\ Read(Top) \in Primitive
<1>1. PICK lo \in Nat, mid \in Nat, d \in Nat :
        /\ Opened(lo, mid, d) /\ EntryOK(Entry) /\ Len(values) \in Nat
        /\ Holds(values, temp, Entry, lo, mid) /\ Is(values, temp, Expect(Entry), mid, Len(values))
        /\ Entry.phase \in Nat /\ Len(subStack) = d + Marks(Entry)
  BY Begins DEF AssignByMethod, Doing
<1>2. StepOf(Entry) = "method"
  BY DEF AssignByMethod, Doing, Step
<1>3. Entry.node.op \in Assigning /\ Entry.phase = 20 /\ Expect(Entry) = "scalar" /\ Share(Entry) = "method"
  BY <1>1, <1>2, RowCases DEF AssigningRow, SimpleRow, CallRow, TupleRow, OtherRow, Row
<1>4. Marks(Entry) = 0 /\ Gives(Entry.node.op) = "single"
  BY <1>1, <1>3, AssigningFacts
<1>5. /\ mid = lo + 2 /\ IsArguments(values[lo + 1]) /\ IsMethod(values[mid]) /\ Len(values) = mid + 1
      /\ Readable(temp, Top) /\ (Top.kind = "rvalue" => Top.v \in Primitive)
  BY <1>1, <1>3 DEF Holds, Is, Method, Top
<1>6. Read(Top) \in Primitive
  BY <1>5, ReadFacts DEF Ready
<1>7. Second.name \in Function /\ IsArguments(values[Len(values) - 2])
  <2>1. Len(values) - 1 = mid /\ Len(values) - 2 = lo + 1
    BY <1>5
  <2>. QED BY <1>5, <2>1, MethodFacts DEF Second
<1>. DEFINE us == WithoutTop(3)
<1>8. Len(us) = lo /\ Fresh(us, subStack, temp, lo, d)
  <2>1. Len(values) = lo + 3 /\ lo <= lo
    BY <1>5
  <2>. QED BY <1>1, <2>1, TrimFacts
<1>. HIDE DEF us
<1>9. Stacked(Finished, us, subStack, temp, TRUE)
  <2>1. Len(subStack) = d /\ Gives(Entry.node.op) \in Above("rvalue")
    BY <1>1, <1>4 DEF Above
  <2>. QED BY <1>1, <1>8, <2>1, ClosesToCall
<1>10. Finished # <<>>
  <2>1. Wanting(Finished) \in {"single", "operand"}
    BY <1>1, <1>4 DEF Opened, Above
  <2>2. Wanting(<<>>) = "value"
    BY ShortSeqs DEF Wanting, ExpectOf
  <2>. QED BY <2>1, <2>2
<1>. QED BY <1>6, <1>7, <1>9, <1>10 DEF AssignByMethod, MethodCall, us

LEMMA AssignPartStep ==
  ASSUME Ready, AssignPart
  PROVE  Stacked(stack', values', subStack', temp', FALSE)
<1>1. PICK lo \in Nat, mid \in Nat, d \in Nat :
        /\ Opened(lo, mid, d) /\ EntryOK(Entry) /\ Len(values) \in Nat
        /\ Entry.phase \in Nat /\ lo <= mid
  BY Begins DEF AssignPart, Doing
<1>2. StepOf(Entry) = "assign" /\ Top.kind = "ref"
  BY DEF AssignPart, Doing, Step
<1>. DEFINE p == Entry.phase  k == Position  q == 40 + 4 * (k + 1)  f == InPhase(Entry, q)  us == WithoutTop(1)
<1>3. /\ Entry.node.op \in Assigning /\ p >= 40 /\ (p - 40) % 4 = 3 /\ Len(values) = mid + 1
  BY <1>1, <1>2, AssignFacts
<1>4. /\ mid = lo + 3 /\ Partial(values[lo + 1], (p - 37) \div 4) /\ IsArguments(values[lo + 2]) /\ values[lo + 3] = MapTemp
      /\ Marks(Entry) = 1 /\ Offset(Entry) = 2 /\ Len(subStack) = d + 1 /\ k = (p - 40) \div 4 /\ k \in Nat
  BY <1>1, <1>3, InTupleFacts
<1>5. q \in Nat /\ q >= 40 /\ (q - 40) % 4 = 0 /\ (q - 37) \div 4 = (p - 37) \div 4
  <2>1. p \in Nat /\ p >= 40 /\ (p - 40) % 4 = 3 /\ k = (p - 40) \div 4
    BY <1>1, <1>3, <1>4
  <2>. HIDE DEF p, k
  <2>2. (p - 37) \div 4 = k + 1
    BY <2>1, Quarters
  <2>3. q \in Nat /\ q >= 40 /\ (q - 40) % 4 = 0 /\ (q - 37) \div 4 = k + 1
    BY <2>1, Quarters
  <2>. QED BY <2>2, <2>3
<1>6. /\ EntryOK(f) /\ f.node = Entry.node /\ f.phase = q /\ Marks(f) = 1
      /\ Expect(f) = "nothing" /\ Share(f) = "assignment"
  <2>. HIDE DEF q
  <2>1. EntryOK(f) /\ f.node = Entry.node /\ f.phase = q /\ AssigningRow(f)
    BY <1>1, <1>3, <1>5, AssigningPhase
  <2>2. Marks(f) = 1
    BY <1>3, <1>5, <2>1, MarksCases
  <2>. HIDE DEF f
  <2>. QED BY <2>1, <2>2, <1>5 DEF AssigningRow, Row
<1>7. temp \subseteq temp'
  BY DEF AssignPart
<1>8. Len(us) = mid /\ (\A i \in 1..mid : us[i] = values[i]) /\ Fresh(us, subStack, temp', lo, d)
  <2>1. Len(values) = mid + 1 /\ lo <= mid /\ Opened(lo, mid, d)
    BY <1>1, <1>3
  <2>2. /\ Len(WithoutTop(1)) = mid /\ \A i \in 1..mid : WithoutTop(1)[i] = values[i]
        /\ \A um : temp \subseteq um => Fresh(WithoutTop(1), subStack, um, lo, d)
    BY <2>1, TrimFacts
  <2>. QED BY <1>7, <2>2
<1>9. NextPhase = ToPhase(q) /\ subStack[d + 1] = lo + Offset(Entry)
  BY <1>1, <1>4 DEF NextPhase, TuplePhase, Opened
<1>. HIDE DEF f, q, p, us, k
<1>10. Holds(us, temp', f, lo, mid)
  <2>1. lo + 1 \in 1..mid /\ lo + 2 \in 1..mid /\ lo + 3 \in 1..mid
    BY <1>4
  <2>. QED BY <1>4, <1>5, <1>6, <1>8, <2>1 DEF Holds, Assignment
<1>11. Is(us, temp', Expect(f), mid, Len(us))
  BY <1>6, <1>8 DEF Is
<1>12. Stacked(ToPhase(q), us, subStack, temp', FALSE)
  <2>1. Len(subStack) = d + Marks(f) /\ mid <= Len(us)
    BY <1>4, <1>6, <1>8
  <2>. QED BY <1>1, <1>6, <1>8, <1>9, <1>10, <1>11, <2>1, Stays DEF f
<1>. QED BY <1>9, <1>12 DEF AssignPart, us

LEMMA NextPartStep ==
  ASSUME Ready, NextPart
  PROVE  Stacked(stack', values', subStack', temp', FALSE)
<1>1. PICK lo \in Nat, mid \in Nat, d \in Nat :
        /\ Opened(lo, mid, d) /\ EntryOK(Entry) /\ Len(values) \in Nat /\ IsSeq(values) /\ Kinds(values) /\ IsSeq(subStack)
        /\ Entry.phase \in Nat /\ lo <= mid /\ Is(values, temp, Expect(Entry), mid, Len(values))
  BY Begins DEF NextPart, Doing
<1>2. StepOf(Entry) = "next"
  BY DEF NextPart, Doing, Step
<1>. DEFINE p == Entry.phase  k == Position  at == subStack[Len(subStack)] - 1  parts == values[at].parts
<1>3. /\ Entry.node.op \in Assigning /\ p >= 40 /\ (p - 40) % 4 = 0 /\ Expect(Entry) = "nothing"
  BY <1>1, <1>2, RowCases DEF AssigningRow, SimpleRow, CallRow, TupleRow, OtherRow, Row
<1>4. /\ mid = lo + 3 /\ Partial(values[lo + 1], (p - 37) \div 4) /\ IsArguments(values[lo + 2]) /\ values[lo + 3] = MapTemp
      /\ Marks(Entry) = 1 /\ Offset(Entry) = 2 /\ Len(subStack) = d + 1 /\ k = (p - 40) \div 4 /\ k \in Nat
      /\ at = lo + 1
  BY <1>1, <1>3, InTupleFacts, SMTT(20)
<1>5. Len(values) = mid
  BY <1>1, <1>3 DEF Is
<1>6. temp' = temp
  BY DEF NextPart
<1>7. CASE k < Len(parts)
  <2>. DEFINE q == p + 1  f == InPhase(Entry, q)
              us == [values EXCEPT ![at].parts[k + 1] = <<>>] \o parts[k + 1]
  <2>1. stack' = ToPhase(q) /\ subStack' = subStack /\ values' = us
    BY <1>7 DEF NextPart, Advanced
  <2>2. q \in Nat /\ q >= 40 /\ (q - 40) % 4 = 1 /\ (q - 37) \div 4 = k + 1 /\ (p - 37) \div 4 = k
    <3>1. p \in Nat /\ p >= 40 /\ (p - 40) % 4 = 0 /\ k = (p - 40) \div 4
      BY <1>1, <1>3, <1>4
    <3>. HIDE DEF p, k
    <3>2. (p - 37) \div 4 = k
      BY <3>1, Quarters
    <3>3. q \in Nat /\ q >= 40 /\ (q - 40) % 4 = 0 + 1 /\ (q - 37) \div 4 = k + 1
      BY <3>1, Quarters
    <3>. QED BY <3>2, <3>3
  <2>3. /\ EntryOK(f) /\ f.node = Entry.node /\ f.phase = q /\ Marks(f) = 1
        /\ Expect(f) = "operand" /\ Share(f) = "assignment"
    <3>. HIDE DEF q
    <3>1. EntryOK(f) /\ f.node = Entry.node /\ f.phase = q /\ AssigningRow(f)
      BY <1>1, <1>3, <2>2, AssigningPhase
    <3>2. Marks(f) = 1
      BY <1>3, <2>2, <3>1, MarksCases
    <3>. HIDE DEF f
    <3>. QED BY <3>1, <3>2, <2>2 DEF AssigningRow, Row
  <2>4. at \in 1..Len(values) /\ Partial(values[at], k)
    <3>1. (p - 37) \div 4 = k
      BY <2>2
    <3>. HIDE DEF p, k, at
    <3>. QED BY <1>4, <1>5, <3>1
  <2>5. /\ IsSeq(us) /\ Kinds(us) /\ Len(values) < Len(us)
        /\ \A i \in 1..Len(values) : i # at => us[i] = values[i]
        /\ Partial(us[at], k + 1)
        /\ Operand(us, Len(values), Len(us))
    <3>1. /\ IsSeq(values) /\ Kinds(values) /\ at \in 1..Len(values) /\ k \in Nat
          /\ Partial(values[at], k) /\ k < Len(values[at].parts)
      BY <1>1, <1>4, <1>7, <2>4
    <3>. HIDE DEF k, at
    <3>. QED BY <3>1, NextPartFacts
  <2>6. subStack[d + 1] = lo + Offset(Entry)
    BY <1>1, <1>4 DEF Opened
  <2>. HIDE DEF us, f, q, p, k, at
  <2>7. us[lo + 2] = values[lo + 2] /\ us[lo + 3] = values[lo + 3] /\ Len(us) \in Nat /\ mid <= Len(us) /\ lo <= Len(us)
        /\ \A i \in 1..lo : us[i] = values[i]
    <3>1. Len(us) \in Nat
      BY <2>5, SeqFacts
    <3>2. lo + 2 \in 1..Len(values) /\ lo + 3 \in 1..Len(values) /\ lo + 2 # at /\ lo + 3 # at
      BY <1>4, <1>5
    <3>3. \A i \in 1..lo : i \in 1..Len(values) /\ i # at
      BY <1>4, <1>5
    <3>. QED BY <1>4, <1>5, <2>5, <3>1, <3>2, <3>3
  <2>8. Holds(us, temp, f, lo, mid)
    <3>1. Assignment(us, q, lo, mid)
      BY <1>4, <2>2, <2>5, <2>7 DEF Assignment
    <3>. QED BY <2>3, <3>1 DEF Holds
  <2>9. Fresh(us, subStack, temp, lo, d)
    BY <1>1, <2>5, <2>7 DEF Fresh
  <2>10. Is(us, temp, Expect(f), mid, Len(us)) /\ Len(subStack) = d + Marks(f)
    BY <1>4, <1>5, <2>3, <2>5 DEF Is
  <2>11. Stacked(ToPhase(q), us, subStack, temp, FALSE)
    BY <1>1, <2>3, <2>6, <2>7, <2>8, <2>9, <2>10, Stays DEF f
  <2>. QED BY <1>6, <2>1, <2>11
<1>8. CASE ~(k < Len(parts))
  <2>. DEFINE w == WithoutTop(3)  us == Append(w, Rvalue(Null))  sup == SubSeq(subStack, 1, Len(subStack) - 1)
  <2>1. stack' = Finished /\ subStack' = sup /\ values' = us
    BY <1>8 DEF NextPart
  <2>2. Single(Rvalue(Null)) /\ Rvalue(Null).kind = "rvalue"
    BY PrimitiveMakes, PrimitiveValue, RvalueFacts
  <2>3. IsSeq(w) /\ Kinds(w) /\ Len(w) = lo /\ \A i \in 1..lo : w[i] = values[i]
    <3>1. Len(values) = lo + 3 /\ lo <= lo
      BY <1>4, <1>5
    <3>. QED BY <1>1, <3>1, TrimFacts
  <2>4. IsSeq(sup) /\ Len(sup) = d /\ \A i \in 1..d : sup[i] = subStack[i]
    <3>1. Len(subStack) - 1 = d /\ d \in 0..Len(subStack)
      BY <1>4
    <3>. QED BY <1>1, <3>1, PrefixFacts
  <2>. HIDE DEF w, sup
  <2>5. IsSeq(us) /\ Kinds(us) /\ Len(us) = lo + 1 /\ (\A i \in 1..lo : us[i] = w[i]) /\ us[lo + 1] = Rvalue(Null)
    BY <2>2, <2>3, AddFacts
  <2>. HIDE DEF us
  <2>6. Fresh(us, sup, temp, lo, d)
    BY <2>3, <2>4, <2>5 DEF Fresh
  <2>7. Is(us, temp, Gives(Entry.node.op), lo, Len(us))
    BY <1>1, <1>3, <2>2, <2>5, AssigningFacts DEF Is
  <2>8. Stacked(Finished, us, sup, temp, FALSE)
    BY <1>1, <2>4, <2>6, <2>7, Closes
  <2>. QED BY <1>6, <2>1, <2>8
<1>. QED BY <1>7, <1>8

\* An operand, or the place it stands for
LEMMA OperandCases ==
  ASSUME NEW vs, NEW lo \in Nat, NEW hi \in Nat, Operand(vs, lo, hi)
  PROVE  /\ hi > lo /\ Typed(vs[hi])
         /\ ~vs[hi].args => hi = lo + 1 /\ Single(vs[hi])
         /\ vs[hi].args => hi = lo + 2 /\ IsArguments(vs[lo + 1])
<1>. QED BY DEF Operand, Single

\* evaluateAndAllocateForAssignment(): the place of an operand
Placed(t) == [t EXCEPT !.kind = IF t.args THEN "method" ELSE "ref"]
LEMMA PlacedFacts ==
  ASSUME NEW t, Typed(t), t.kind = "name", t.args => t.name \in Function
  PROVE  /\ ~t.args => Single(Placed(t)) /\ Placed(t).kind = "ref"
         /\ t.args => IsMethod(Placed(t)) /\ Placed(t).kind = "method"
<1>. DEFINE n == t.name  b == t.args  u == Placed(t)
<1>1. n \in Name /\ b \in BOOLEAN /\ t = [kind |-> "name", name |-> n, args |-> b] /\ (b => n \in Function)
  BY TypedFacts
<1>. HIDE DEF n, b
<1>2. \A k : [t EXCEPT !.kind = k] = [kind |-> k, name |-> n, args |-> b]
  BY <1>1
<1>3. u = [kind |-> IF b THEN "method" ELSE "ref", name |-> n, args |-> b]
  BY <1>2 DEF Placed, b
<1>. HIDE DEF u
<1>4. CASE b = FALSE
  <2>1. u = [kind |-> "ref", name |-> n, args |-> FALSE]
    BY <1>3, <1>4
  <2>2. IsNamed(u) /\ ~u.args /\ u.kind = "ref"
    BY <1>1, <2>1 DEF IsNamed
  <2>3. Single(u)
    BY <2>2, TypedLeaf DEF Single
  <2>. QED BY <1>4, <2>2, <2>3 DEF u, b
<1>5. CASE b = TRUE
  <2>1. u = [kind |-> "method", name |-> n, args |-> TRUE] /\ n \in Function
    BY <1>1, <1>3, <1>5
  <2>2. IsMethod(u) /\ u.kind = "method"
    BY <2>1 DEF IsMethod
  <2>. QED BY <1>5, <2>2 DEF u, b
<1>. QED BY <1>1, <1>4, <1>5

PlaceAt(s, at) == IF s[at].kind # "name" THEN s ELSE Put(s, at, Placed(s[at]))
LEMMA PlaceAtFacts ==
  ASSUME NEW s, IsSeq(s), Kinds(s), NEW at \in 1..Len(s), NEW a \in Nat, Operand(s, a, at),
         s[at].args => s[at].kind = "name" /\ s[at].name \in Function
  PROVE  LET us == PlaceAt(s, at)
         IN  /\ IsSeq(us) /\ Kinds(us) /\ Len(us) = Len(s)
             /\ \A i \in 1..Len(s) : i # at => us[i] = s[i]
             /\ (at = a + 1 /\ Single(us[at])) \/ Method(us, a, at)
<1>. DEFINE t == s[at]  us == PlaceAt(s, at)
<1>0. Len(s) \in Nat /\ at \in Nat
  BY SeqFacts
<1>1. /\ at > a /\ Typed(t) /\ (~t.args => at = a + 1 /\ Single(t)) /\ (t.args => at = a + 2 /\ IsArguments(s[a + 1]))
  BY <1>0, OperandCases
<1>2. CASE t.kind # "name"
  <2>1. us = s /\ ~t.args
    BY <1>2 DEF PlaceAt
  <2>. QED BY <1>1, <2>1
<1>3. CASE t.kind = "name"
  <2>. DEFINE x == Placed(t)
  <2>1. us = Put(s, at, x)
    BY <1>3 DEF PlaceAt
  <2>2. /\ ~t.args => Single(x) /\ x.kind = "ref"
        /\ t.args => IsMethod(x) /\ x.kind = "method"
    BY <1>1, <1>3, PlacedFacts
  <2>. HIDE DEF us, x, t
  <2>3. IsSeq(us) /\ Kinds(us) /\ Len(us) = Len(s) /\ us[at] = x /\ \A i \in 1..Len(s) : i # at => us[i] = s[i]
    BY <2>1, <2>2, PutIs
  <2>4. t.args => Method(us, a, at)
    <3>1. t.args => a + 1 \in 1..Len(s) /\ a + 1 # at
      BY <1>0, <1>1
    <3>. QED BY <1>1, <2>2, <2>3, <3>1 DEF Method
  <2>. QED BY <1>1, <2>2, <2>3, <2>4 DEF us
<1>. QED BY <1>2, <1>3

LEMMA DestinationStep ==
  ASSUME Ready, Destination
  PROVE  Stacked(stack', values', subStack', temp', FALSE)
<1>1. PICK lo \in Nat, mid \in Nat, d \in Nat :
        /\ Opened(lo, mid, d) /\ EntryOK(Entry) /\ IsSeq(values) /\ Kinds(values) /\ Len(values) \in Nat
        /\ Holds(values, temp, Entry, lo, mid) /\ Is(values, temp, Expect(Entry), mid, Len(values))
        /\ Entry.phase \in Nat /\ IsSeq(subStack) /\ Len(subStack) = d + Marks(Entry) /\ lo <= mid /\ mid <= Len(values)
  BY Begins DEF Destination, Doing
<1>2. StepOf(Entry) = "destination"
  BY DEF Destination, Doing, Step
<1>. DEFINE p == Entry.phase  q == p + 1  f == InPhase(Entry, q)  L == Len(values)  at == DestinationAt  us == PlaceAt(values, at)
<1>3. /\ Entry.node.op \in Assigning
      /\ \/ p = 7 /\ Expect(Entry) = "scalar" /\ Share(Entry) = "operand"
         \/ p >= 40 /\ (p - 40) % 4 = 1 /\ Expect(Entry) = "operand" /\ Share(Entry) = "assignment"
  BY <1>1, <1>2, RowCases DEF AssigningRow, SimpleRow, CallRow, TupleRow, OtherRow, Row
<1>4. CASE \E ex : Raise(ex)
  BY <1>4, RaiseStep
<1>5. CASE ~\E ex : Raise(ex)
  <2>1. /\ values[at].args => values[at].kind = "name" /\ values[at].name \in Function
        /\ stack' = ToPhase(q) /\ subStack' = subStack /\ temp' = temp
        /\ values' = us
    <3>1. /\ values[at].args => values[at].kind = "name" /\ values[at].name \in Function
          /\ stack' = ToPhase(q) /\ subStack' = subStack /\ temp' = temp
      BY <1>5 DEF Destination, Advanced
    <3>2. values' = IF values[at].kind # "name" THEN values
                    ELSE [values EXCEPT ![at] = [values[at] EXCEPT !.kind = IF values[at].args THEN "method" ELSE "ref"]]
      BY <1>5 DEF Destination
    <3>. HIDE DEF at
    <3>. QED BY <3>1, <3>2 DEF PlaceAt, Placed, Put
  <2>2. CASE p = 7
    <3>1. L = mid + 1 /\ at = mid /\ Is(values, temp, "scalar", mid, L) /\ Operand(values, lo, mid)
      <4>1. ~InTuple /\ Expect(Entry) = "scalar" /\ Share(Entry) = "operand"
        BY <1>3, <2>2 DEF InTuple, TuplePhase
      <4>2. L = mid + 1 /\ Is(values, temp, "scalar", mid, L) /\ Operand(values, lo, mid)
        BY <1>1, <4>1 DEF Is, Holds
      <4>. QED BY <1>1, <4>1, <4>2 DEF DestinationAt
    <3>2. mid \in 1..L
      BY <1>1, <3>1 DEF Operand
    <3>3. q = 8 /\ EntryOK(f) /\ f.node = Entry.node /\ f.phase = 8 /\ Marks(f) = 0 /\ Marks(Entry) = 0
          /\ Expect(f) = "scalar" /\ Share(f) = "place"
      <4>1. q = 8
        BY <2>2
      <4>2. EntryOK(f) /\ f.node = Entry.node /\ f.phase = 8 /\ AssigningRow(f)
        BY <1>1, <1>3, <4>1, AssigningPhase
      <4>3. Marks(f) = 0 /\ Marks(Entry) = 0
        BY <1>1, <1>3, <2>2, <4>1, <4>2, MarksCases
      <4>. HIDE DEF f
      <4>. QED BY <4>1, <4>2, <4>3 DEF AssigningRow, Row
    <3>. HIDE DEF at, f, q
    <3>4. /\ IsSeq(us) /\ Kinds(us) /\ Len(us) = L
          /\ \A i \in 1..L : i # mid => us[i] = values[i]
          /\ (mid = lo + 1 /\ Single(us[mid])) \/ Method(us, lo, mid)
      BY <1>1, <2>1, <3>1, <3>2, PlaceAtFacts
    <3>. HIDE DEF us
    <3>5. us[L] = values[L] /\ \A i \in 1..lo : us[i] = values[i]
      <4>1. L \in 1..L /\ L # mid /\ \A i \in 1..lo : i \in 1..L /\ i # mid
        BY <1>1, <3>1 DEF Operand
      <4>. QED BY <3>4, <4>1
    <3>6. Fresh(us, subStack, temp, lo, d)
      BY <1>1, <3>4, <3>5 DEF Fresh
    <3>7. Holds(us, temp, f, lo, mid) /\ Is(us, temp, Expect(f), mid, Len(us))
      BY <3>1, <3>3, <3>4, <3>5 DEF Holds, Is
    <3>8. Len(subStack) = d + Marks(f) /\ Marks(f) # 1 /\ mid <= Len(us)
      BY <1>1, <3>3, <3>4
    <3>9. Stacked(ToPhase(q), us, subStack, temp, FALSE)
      BY <1>1, <3>3, <3>6, <3>7, <3>8, Stays DEF f
    <3>. QED BY <2>1, <3>9 DEF us
  <2>3. CASE p >= 40
    <3>1. at = L /\ Operand(values, mid, L)
      <4>1. InTuple /\ Expect(Entry) = "operand"
        BY <1>3, <2>3 DEF InTuple, TuplePhase
      <4>. QED BY <1>1, <4>1 DEF Is, DestinationAt
    <3>2. L \in 1..L /\ L > mid
      BY <1>1, <3>1 DEF Operand
    <3>3. /\ mid = lo + 3 /\ Partial(values[lo + 1], (p - 37) \div 4) /\ IsArguments(values[lo + 2]) /\ values[lo + 3] = MapTemp
          /\ Marks(Entry) = 1 /\ Offset(Entry) = 2 /\ Len(subStack) = d + 1
      BY <1>1, <1>3, <2>3, InTupleFacts
    <3>4. q \in Nat /\ q >= 40 /\ (q - 40) % 4 = 2 /\ (q - 37) \div 4 = (p - 37) \div 4
      <4>1. p \in Nat /\ p >= 40 /\ (p - 40) % 4 = 1
        BY <1>1, <1>3, <2>3
      <4>. HIDE DEF p
      <4>2. (p - 37) \div 4 = (p - 40) \div 4 + 1
        BY <4>1, Quarters
      <4>3. q \in Nat /\ q >= 40 /\ (q - 40) % 4 = 1 + 1 /\ (q - 37) \div 4 = (p - 40) \div 4 + 1
        BY <4>1, Quarters
      <4>. QED BY <4>2, <4>3
    <3>5. /\ EntryOK(f) /\ f.node = Entry.node /\ f.phase = q /\ Marks(f) = 1
          /\ Expect(f) = "place" /\ Share(f) = "assignment"
      <4>. HIDE DEF q
      <4>1. EntryOK(f) /\ f.node = Entry.node /\ f.phase = q /\ AssigningRow(f)
        BY <1>1, <1>3, <3>4, AssigningPhase
      <4>2. Marks(f) = 1
        BY <1>3, <3>4, <4>1, MarksCases
      <4>. HIDE DEF f
      <4>. QED BY <4>1, <4>2, <3>4 DEF AssigningRow, Row
    <3>6. subStack[d + 1] = lo + Offset(Entry)
      BY <1>1, <3>3 DEF Opened
    <3>. HIDE DEF at, f, q, p
    <3>7. /\ IsSeq(us) /\ Kinds(us) /\ Len(us) = L
          /\ \A i \in 1..L : i # L => us[i] = values[i]
          /\ (L = mid + 1 /\ Single(us[L])) \/ Method(us, mid, L)
      BY <1>1, <2>1, <3>1, <3>2, PlaceAtFacts
    <3>. HIDE DEF us
    <3>8. \A i \in 1..mid : us[i] = values[i]
      <4>1. \A i \in 1..mid : i \in 1..L /\ i # L
        BY <1>1, <3>2
      <4>. QED BY <3>7, <4>1
    <3>9. lo + 1 \in 1..mid /\ lo + 2 \in 1..mid /\ lo + 3 \in 1..mid /\ \A i \in 1..lo : i \in 1..mid
      BY <3>3
    <3>10. Fresh(us, subStack, temp, lo, d)
      BY <1>1, <3>7, <3>8, <3>9 DEF Fresh
    <3>11. Holds(us, temp, f, lo, mid)
      <4>1. Assignment(us, q, lo, mid)
        BY <3>3, <3>4, <3>8, <3>9 DEF Assignment
      <4>. QED BY <3>5, <4>1 DEF Holds
    <3>12. Is(us, temp, Expect(f), mid, Len(us)) /\ Len(subStack) = d + Marks(f) /\ mid <= Len(us)
      BY <1>1, <3>3, <3>5, <3>7 DEF Is
    <3>13. Stacked(ToPhase(q), us, subStack, temp, FALSE)
      BY <1>1, <3>5, <3>6, <3>10, <3>11, <3>12, Stays DEF f
    <3>. QED BY <2>1, <3>13 DEF us
  <2>. QED BY <1>3, <2>2, <2>3
<1>. QED BY <1>4, <1>5

\* The assignment to one place begins.
LEMMA ToOnePlace ==
  ASSUME NEW lo \in Nat, NEW mid \in Nat, NEW d \in Nat, Opened(lo, mid, d),
         Entry.node.op \in Assigning, Entry.phase < 40, Operand(values, lo, mid),
         NEW us, Fresh(us, subStack, temp, mid, d), Is(us, temp, "scalar", mid, Len(us))
  PROVE  Stacked(ToPhase(7), us, subStack, temp, FALSE)
<1>. DEFINE f == InPhase(Entry, 7)
<1>1. /\ EntryOK(Entry) /\ Len(subStack) = d + Marks(Entry) /\ lo <= mid /\ IsSeq(us)
  BY DEF Opened, Fresh
<1>2. EntryOK(f) /\ f.node = Entry.node /\ f.phase = 7 /\ AssigningRow(f)
  BY <1>1, AssigningPhase
<1>3. Marks(f) = 0 /\ Marks(Entry) = 0
  BY <1>1, <1>2, AssigningFacts
<1>. HIDE DEF f
<1>4. Share(f) = "operand" /\ Expect(f) = "scalar"
  BY <1>2 DEF AssigningRow, Row
<1>5. mid <= Len(us) /\ Len(us) \in Nat /\ \A i \in 1..mid : us[i] = values[i]
  BY <1>1, SeqFacts DEF Fresh
<1>6. Fresh(us, subStack, temp, lo, d)
  BY <1>1, <1>5 DEF Fresh
<1>7. Holds(us, temp, f, lo, mid)
  <2>1. \A i \in lo + 1..mid : us[i] = values[i]
    BY <1>5
  <2>2. Is(values, temp, "operand", lo, mid)
    BY DEF Is
  <2>3. Is(us, temp, "operand", lo, mid)
    BY <2>1, <2>2, SameIs
  <2>. QED BY <1>4, <2>3 DEF Holds
<1>8. Is(us, temp, Expect(f), mid, Len(us)) /\ Len(subStack) = d + Marks(f) /\ Marks(f) # 1
  BY <1>1, <1>3, <1>4
<1>. QED BY <1>1, <1>2, <1>5, <1>6, <1>7, <1>8, Stays, ZenonT(60) DEF f

\* The assignment to the parts of a tuple begins.
LEMMA ToTuple ==
  ASSUME NEW lo \in Nat, NEW mid \in Nat, NEW d \in Nat, Opened(lo, mid, d),
         Entry.node.op \in Assigning, Entry.phase < 40, Operand(values, lo, mid), Len(values) = mid + 1,
         values[mid].kind = "tuple", ~values[mid].args, IsArguments(Top)
  PROVE  Stacked(ToPhase(40), Append(values, MapTemp), Append(subStack, Len(values)), temp, FALSE)
<1>. DEFINE f == InPhase(Entry, 40)  us == Append(values, MapTemp)  sup == Append(subStack, Len(values))
<1>1. /\ EntryOK(Entry) /\ Len(subStack) = d + Marks(Entry) /\ lo <= mid /\ IsSeq(values) /\ Kinds(values) /\ IsSeq(subStack)
  BY DEF Opened
<1>2. EntryOK(f) /\ f.node = Entry.node /\ f.phase = 40 /\ AssigningRow(f) /\ 40 \in Nat
  BY <1>1, AssigningPhase
<1>3. Marks(f) = 1 /\ Marks(Entry) = 0
  BY <1>1, <1>2, AssigningFacts, MarksCases
<1>4. Offset(Entry) = 2
  BY Operators DEF Offset
<1>. HIDE DEF f
<1>5. Share(f) = "assignment" /\ Expect(f) = "nothing"
  BY <1>2 DEF AssigningRow, Row
<1>6. mid = lo + 1 /\ Single(values[mid]) /\ Typed(values[mid])
  BY OperandCases
<1>7. Partial(values[mid], (40 - 37) \div 4)
  <2>1. (40 - 37) \div 4 = 0
    OBVIOUS
  <2>2. IsTuple(values[mid]) /\ \A i \in 1..Len(values[mid].parts) : IsPart(values[mid].parts[i])
    BY <1>6, TypedFacts
  <2>3. Partial(values[mid], 0)
    BY <2>2 DEF Partial
  <2>. QED BY <2>1, <2>3
<1>8. IsSeq(us) /\ Kinds(us) /\ Len(us) = Len(values) + 1 /\ (\A i \in 1..Len(values) : us[i] = values[i]) /\ us[Len(values) + 1] = MapTemp
  BY <1>1, AddFacts DEF MapTemp
<1>9. IsSeq(sup) /\ Len(sup) = Len(subStack) + 1 /\ (\A i \in 1..Len(subStack) : sup[i] = subStack[i]) /\ sup[Len(subStack) + 1] = Len(values)
  BY <1>1, AppendFacts
<1>. HIDE DEF us, sup
<1>10. Len(us) = lo + 3 /\ us[lo + 1] = values[mid] /\ us[lo + 2] = Top /\ us[lo + 3] = MapTemp
       /\ \A i \in 1..lo : us[i] = values[i]
  <2>1. Len(values) = lo + 2 /\ lo + 1 \in 1..Len(values) /\ lo + 2 \in 1..Len(values) /\ Len(values) + 1 = lo + 3
        /\ \A i \in 1..lo : i \in 1..Len(values)
    BY <1>6
  <2>. QED BY <1>6, <1>8, <2>1 DEF Top
<1>11. Len(sup) = d + 1 /\ sup[d + 1] = lo + 2 /\ \A i \in 1..d : sup[i] = subStack[i]
  <2>1. Len(subStack) = d /\ Len(values) = lo + 2
    BY <1>1, <1>3, <1>6
  <2>. QED BY <1>9, <2>1
<1>12. Fresh(us, sup, temp, lo, d)
  BY <1>8, <1>9, <1>10, <1>11 DEF Fresh
<1>13. Holds(us, temp, f, lo, lo + 3)
  <2>1. Assignment(us, 40, lo, lo + 3)
    BY <1>7, <1>10 DEF Assignment
  <2>. QED BY <1>2, <1>5, <2>1 DEF Holds
<1>14. Is(us, temp, Expect(f), lo + 3, Len(us)) /\ lo + 3 \in Nat /\ lo <= lo + 3 /\ lo + 3 <= Len(us)
       /\ Len(sup) = d + Marks(f) /\ sup[d + 1] = lo + Offset(Entry)
  BY <1>3, <1>4, <1>5, <1>10, <1>11 DEF Is
<1>15. Stacked(ToPhase(40), us, sup, temp, FALSE)
  BY <1>2, <1>12, <1>13, <1>14, Stays, ZenonT(60) DEF f
<1>. QED BY <1>15 DEF us, sup

LEMMA ProcessStep ==
  ASSUME Ready, Process, ~littered'
  PROVE  Stacked(stack', values', subStack', temp', FALSE)
<1>1. PICK lo \in Nat, mid \in Nat, d \in Nat :
        /\ Opened(lo, mid, d) /\ EntryOK(Entry) /\ IsSeq(values) /\ Kinds(values) /\ Len(values) \in Nat /\ IsSeq(subStack)
        /\ Holds(values, temp, Entry, lo, mid) /\ Is(values, temp, Expect(Entry), mid, Len(values))
        /\ Entry.phase \in Nat
  BY Begins DEF Process, Doing
<1>2. StepOf(Entry) = "process"
  BY DEF Process, Doing, Step
<1>3. Entry.node.op \in Assigning /\ Entry.phase \in {3, 6} /\ Expect(Entry) = "value" /\ Share(Entry) = "operand"
  BY <1>1, <1>2, RowCases, Operators DEF AssigningRow, SimpleRow, CallRow, TupleRow, OtherRow, Row
<1>4. Operand(values, lo, mid) /\ Len(values) = mid + 1 /\ Readable(temp, Top) /\ Entry.phase < 40
  BY <1>1, <1>3 DEF Holds, Is, Top
<1>5. Second = values[mid]
  <2>1. Len(values) - 1 = mid
    BY <1>4
  <2>. QED BY <2>1 DEF Second
<1>. DEFINE v == Read(Top)
<1>6. /\ v \in Value /\ Top.kind \in {"rvalue", "ref"}
      /\ Top.kind = "ref" => v \in Primitive
      /\ Top.kind = "rvalue" => Top = Rvalue(v) /\ v = Top.v
  BY <1>4, ReadFacts DEF Ready
<1>. HIDE DEF v
<1>7. /\ v.t = "tuple" => v.es \in Seq(Primitive) /\ IsArguments(Top)
      /\ v.t # "tuple" => v \in Primitive
  <2>1. v.t = "tuple" => Top = Rvalue(v)
    BY <1>6, PrimitiveValue
  <2>2. v.t = "tuple" => IsArguments(Rvalue(v))
    BY <1>6, RvalueFacts
  <2>. QED BY <1>6, <2>1, <2>2, ValueCases
<1>8. CASE \E ex : Raise(ex)
  BY <1>8, RaiseStep
<1>9. CASE v.t = "tuple" /\ Len(v.es) = 1 /\ Stacks(ToPhase(7), Append(WithoutTop(1), Rvalue(v.es[1])))
  <2>. DEFINE w == WithoutTop(1)  t == Rvalue(v.es[1])  us == Append(w, t)
  <2>1. v.es[1] \in Primitive
    BY <1>7, <1>9
  <2>2. Readable(temp, t) /\ t.kind = "rvalue" /\ t.v \in Primitive
    BY <2>1, PrimitiveValue, RvalueFacts
  <2>3. IsSeq(w) /\ Kinds(w) /\ Len(w) = mid /\ \A i \in 1..mid : w[i] = values[i]
    <3>1. lo <= mid
      BY <1>4 DEF Operand
    <3>. QED BY <1>1, <1>4, <3>1, TrimFacts
  <2>. HIDE DEF w, t
  <2>4. IsSeq(us) /\ Kinds(us) /\ Len(us) = mid + 1 /\ (\A i \in 1..mid : us[i] = w[i]) /\ us[mid + 1] = t
    BY <2>2, <2>3, AddFacts
  <2>. HIDE DEF us
  <2>5. Fresh(us, subStack, temp, mid, d)
    BY <1>1, <2>3, <2>4 DEF Fresh
  <2>6. Is(us, temp, "scalar", mid, Len(us))
    BY <2>2, <2>4 DEF Is
  <2>7. Stacked(ToPhase(7), us, subStack, temp, FALSE)
    BY <1>1, <1>3, <1>4, <2>5, <2>6, ToOnePlace
  <2>. QED BY <1>9, <2>7 DEF Stacks, us, w, t
<1>10. CASE v.t # "tuple" /\ Stacks(ToPhase(7), values)
  <2>1. Is(values, temp, "scalar", mid, Len(values))
    BY <1>4, <1>6, <1>7, <1>10 DEF Is, Top
  <2>2. Fresh(values, subStack, temp, mid, d)
    BY <1>1, <1>4 DEF Fresh
  <2>3. Stacked(ToPhase(7), values, subStack, temp, FALSE)
    BY <1>1, <1>3, <1>4, <2>1, <2>2, ToOnePlace
  <2>. QED BY <1>10, <2>3 DEF Stacks
<1>11. CASE /\ v.t = "tuple" /\ Second.kind = "tuple"
            /\ stack' = ToPhase(40) /\ values' = Append(values, MapTemp)
            /\ subStack' = Append(subStack, Len(values)) /\ temp' = temp
            /\ littered' = (littered \/ Second.args)
  <2>1. values[mid].kind = "tuple" /\ ~values[mid].args /\ IsArguments(Top)
    BY <1>5, <1>7, <1>11
  <2>2. Stacked(ToPhase(40), Append(values, MapTemp), Append(subStack, Len(values)), temp, FALSE)
    BY <1>1, <1>3, <1>4, <2>1, ToTuple
  <2>. QED BY <1>11, <2>2
<1>12. ProcessPhase + 1 = 7 /\ TuplePhase = 40
  BY DEF ProcessPhase, TuplePhase
<1>. QED BY <1>8, <1>9, <1>10, <1>11, <1>12 DEF Process, v

\* x++ changes a value where it is, and leaves the old one below its operand.
LEMMA AddedFacts ==
  ASSUME NEW s, IsSeq(s), NEW x
  PROVE  s \o <<>> = s /\ s \o <<x>> = Append(s, x)
<1>1. PICK S : s \in Seq(S)
  BY DEF IsSeq
<1>2. s \in Seq(S \cup {x})
  BY <1>1, SeqMonotonic
<1>. QED BY <1>2

LEMMA TailFacts ==
  ASSUME NEW s, IsSeq(s), NEW a \in 0..Len(s)
  PROVE  /\ IsSeq(SubSeq(s, a + 1, Len(s))) /\ Len(SubSeq(s, a + 1, Len(s))) = Len(s) - a
         /\ \A i \in 1..Len(s) - a : SubSeq(s, a + 1, Len(s))[i] = s[a + i]
<1>1. PICK S : s \in Seq(S)
  BY DEF IsSeq
<1>2. Len(s) \in Nat /\ a + 1 \in 1..Len(s) + 1 /\ Len(s) \in (a + 1) - 1..Len(s) /\ Len(s) - (a + 1) + 1 = Len(s) - a
  BY <1>1
<1>. DEFINE r == SubSeq(s, a + 1, Len(s))
<1>3. r \in Seq(S) /\ Len(r) = IF a + 1 <= Len(s) THEN Len(s) - (a + 1) + 1 ELSE 0
  <2>1. /\ a + 1 \in 1..Len(s) + 1 /\ Len(s) \in (a + 1) - 1..Len(s)
    BY <1>2
  <2>. QED BY <1>1, <2>1, SubSeqProperties
<1>4. Len(r) = Len(s) - a
  <2>. HIDE DEF r
  <2>1. a + 1 <= Len(s) => Len(r) = Len(s) - (a + 1) + 1
    BY <1>3
  <2>3. Len(s) \in Nat /\ a \in Nat /\ a <= Len(s)
    BY <1>2
  <2>2. a + 1 > Len(s) => Len(r) = 0 /\ Len(s) = a
    <3>1. a + 1 > Len(s) => ~(a + 1 <= Len(s)) /\ Len(s) = a
      BY <2>3
    <3>. QED BY <1>3, <3>1
  <2>. QED BY <2>1, <2>2, <2>3
<1>5. \A i \in 1..Len(s) - (a + 1) + 1 : r[i] = s[(a + 1) + i - 1]
  BY <1>1, <1>2, SubSeqProperties
<1>6. \A i \in 1..Len(s) - a : (a + 1) + i - 1 = a + i
  BY <1>2
<1>. HIDE DEF r
<1>7. \A i \in 1..Len(s) - a : r[i] = s[a + i]
  BY <1>2, <1>5, <1>6
<1>. QED BY <1>3, <1>4, <1>7 DEF IsSeq, r

Changed(t, w) == [t EXCEPT !.v = w]
LEMMA WithValue ==
  ASSUME NEW k, NEW g, NEW b, NEW t, t = [kind |-> k, v |-> b, args |-> g], NEW w
  PROVE  Changed(t, w) = [kind |-> k, v |-> w, args |-> g]
BY DEF Changed

Raised(s, t, w) == IF t.kind = "ref" THEN s ELSE [s EXCEPT ![Len(s)].v = w]
LEMMA RaisedFacts ==
  ASSUME NEW s, IsSeq(s), Kinds(s), Len(s) >= 1, NEW t, t = s[Len(s)], NEW tm, Readable(tm, t),
         t.kind = "rvalue" => t = Rvalue(t.v), NEW w \in Value
  PROVE  LET us == Raised(s, t, w)
         IN  /\ IsSeq(us) /\ Kinds(us) /\ Len(us) = Len(s)
             /\ \A i \in 1..Len(s) - 1 : us[i] = s[i]
             /\ Readable(tm, us[Len(s)])
<1>. DEFINE us == Raised(s, t, w)  n == Len(s)
<1>0. n \in Nat /\ n \in 1..n
  BY SeqFacts
<1>1. CASE t.kind = "ref"
  BY <1>1 DEF Raised
<1>2. CASE t.kind # "ref"
  <2>. DEFINE x == Rvalue(w)
  <2>1. Readable(tm, x) /\ x.kind = "rvalue"
    BY RvalueFacts
  <2>2. t = [kind |-> "rvalue", v |-> t.v, args |-> FALSE]
    BY <1>2 DEF Readable, Rvalue
  <2>3. [t EXCEPT !.v = w] = x
    <3>. DEFINE b == t.v  g == t.args
    <3>1. t = [kind |-> "rvalue", v |-> b, args |-> g]
      BY <2>2
    <3>2. g = FALSE
      BY <2>2
    <3>. HIDE DEF b, g
    <3>3. Changed(t, w) = [kind |-> "rvalue", v |-> w, args |-> g]
      BY <3>1, WithValue
    <3>4. [kind |-> "rvalue", v |-> w, args |-> g] = x
      BY <3>2 DEF x, Rvalue
    <3>. QED BY <3>3, <3>4 DEF Changed
  <2>4. us = Put(s, n, x)
    <3>1. us = [s EXCEPT ![n] = [s[n] EXCEPT !.v = w]]
      BY <1>2 DEF Raised
    <3>2. [s[n] EXCEPT !.v = w] = x
      BY <2>3
    <3>. HIDE DEF us, x, n
    <3>. QED BY <3>1, <3>2 DEF Put
  <2>. HIDE DEF us, x, n
  <2>5. IsSeq(s) /\ Kinds(s) /\ n \in 1..Len(s) /\ Len(s) = n
    BY <1>0 DEF n
  <2>6. IsSeq(us) /\ Kinds(us) /\ Len(us) = Len(s) /\ us[n] = x /\ \A i \in 1..Len(s) : i # n => us[i] = s[i]
    BY <2>1, <2>4, <2>5, PutIs, SMTT(20)
  <2>7. \A i \in 1..n - 1 : i \in 1..n /\ i # n
    BY <1>0
  <2>. QED BY <2>1, <2>5, <2>6, <2>7 DEF us
<1>. QED BY <1>1, <1>2

\* One more value at lo + 1
Inserted(s, a, x) == SubSeq(s, 1, a) \o <<x>> \o SubSeq(s, a + 1, Len(s))
LEMMA InsertedFacts ==
  ASSUME NEW s, IsSeq(s), Kinds(s), NEW a \in 0..Len(s), NEW x, x.kind = "rvalue"
  PROVE  LET us == Inserted(s, a, x)
         IN  /\ IsSeq(us) /\ Kinds(us) /\ Len(us) = Len(s) + 1
             /\ \A i \in 1..a : us[i] = s[i]
             /\ us[a + 1] = x
             /\ \A i \in a + 1..Len(s) : us[i + 1] = s[i]
<1>. DEFINE h == SubSeq(s, 1, a)  t == SubSeq(s, a + 1, Len(s))  w == h \o <<x>>  us == w \o t  n == Len(s)
<1>1. n \in Nat /\ a \in Nat /\ a <= n
  BY SeqFacts
<1>2. IsSeq(h) /\ Len(h) = a /\ \A i \in 1..a : h[i] = s[i]
  BY PrefixFacts
<1>3. IsSeq(t) /\ Len(t) = n - a /\ \A i \in 1..n - a : t[i] = s[a + i]
  BY TailFacts
<1>. HIDE DEF h, t
<1>4. w = Append(h, x)
  BY <1>2, AddedFacts
<1>. HIDE DEF w
<1>5. IsSeq(w) /\ Len(w) = a + 1 /\ (\A i \in 1..a : w[i] = h[i]) /\ w[a + 1] = x
  <2>1. /\ IsSeq(Append(h, x)) /\ Len(Append(h, x)) = Len(h) + 1
        /\ \A i \in 1..Len(h) : Append(h, x)[i] = h[i]
        /\ Append(h, x)[Len(h) + 1] = x
    BY <1>2, AppendFacts
  <2>. QED BY <1>2, <1>4, <2>1
<1>6. IsSeq(us) /\ Len(us) = Len(w) + Len(t) /\ \A i \in 1..Len(w) : us[i] = w[i]
  BY <1>3, <1>5, ConcatFacts
<1>7. \A i \in 1..Len(t) : us[Len(w) + i] = t[i]
  BY <1>3, <1>5, ConcatFacts
<1>. HIDE DEF us, n
<1>8. Len(us) = n + 1 /\ (\A i \in 1..a : us[i] = s[i]) /\ us[a + 1] = x
  <2>1. (a + 1) + (n - a) = n + 1 /\ a + 1 \in 1..a + 1 /\ \A i \in 1..a : i \in 1..a + 1
    BY <1>1
  <2>. QED BY <1>2, <1>3, <1>5, <1>6, <2>1
<1>9. \A i \in a + 1..n : us[i + 1] = s[i]
  <2>. SUFFICES ASSUME NEW i \in a + 1..n
                PROVE  us[i + 1] = s[i]
    OBVIOUS
  <2>. DEFINE j == i - a
  <2>1. j \in 1..n - a /\ Len(w) + j = i + 1 /\ a + j = i
    BY <1>1, <1>5
  <2>. HIDE DEF j
  <2>2. us[Len(w) + j] = t[j] /\ t[j] = s[a + j]
    BY <1>3, <1>7, <2>1
  <2>. QED BY <2>1, <2>2
<1>10. Kinds(us)
  <2>. SUFFICES ASSUME NEW i \in 1..n + 1
                PROVE  us[i].kind \in {"rvalue", "name", "ref", "method", "tuple", "map"}
    BY <1>8 DEF Kinds
  <2>1. CASE i <= a
    <3>1. i \in 1..a /\ i \in 1..n
      BY <1>1, <2>1
    <3>. QED BY <1>8, <3>1 DEF Kinds, n
  <2>2. CASE i = a + 1
    BY <1>8, <2>2
  <2>3. CASE i > a + 1
    <3>. DEFINE j == i - 1
    <3>1. j \in a + 1..n /\ j + 1 = i /\ j \in 1..n
      BY <1>1, <2>3
    <3>. HIDE DEF j
    <3>2. us[j + 1] = s[j]
      BY <1>9, <3>1
    <3>. QED BY <3>1, <3>2 DEF Kinds, n
  <2>. QED BY <1>1, <2>1, <2>2, <2>3
<1>11. us = Inserted(s, a, x)
  BY DEF us, w, h, t, Inserted
<1>. QED BY <1>6, <1>8, <1>9, <1>10, <1>11 DEF n

\* The entry in another phase, written as the code does
LEMMA Reentered ==
  ASSUME NEW e, NEW n, NEW p, e = [node |-> n, phase |-> p], NEW q
  PROVE  [e EXCEPT !.phase = q] = InPhase(e, q)
BY DEF InPhase

LEMMA ShiftedOperand ==
  ASSUME NEW vs, NEW us, NEW lo \in Nat, NEW hi \in Nat, Operand(vs, lo, hi),
         \A i \in lo + 1..hi : us[i + 1] = vs[i]
  PROVE  Operand(us, lo + 1, hi + 1)
<1>1. CASE hi = lo + 1 /\ Single(vs[hi])
  <2>1. us[hi + 1] = vs[hi] /\ hi + 1 = (lo + 1) + 1
    BY <1>1
  <2>. QED BY <1>1, <2>1 DEF Operand
<1>2. CASE hi = lo + 2 /\ IsArguments(vs[lo + 1]) /\ Typed(vs[hi]) /\ vs[hi].args
  <2>1. us[hi + 1] = vs[hi] /\ us[(lo + 1) + 1] = vs[lo + 1] /\ hi + 1 = (lo + 1) + 2
    BY <1>2
  <2>. QED BY <1>2, <2>1 DEF Operand
<1>. QED BY <1>1, <1>2 DEF Operand

LEMMA IncrementStep ==
  ASSUME Ready, IncrementOperator
  PROVE  Stacked(stack', values', subStack', temp', FALSE)
<1>1. PICK lo \in Nat, mid \in Nat, d \in Nat :
        /\ Opened(lo, mid, d) /\ EntryOK(Entry) /\ IsSeq(values) /\ Kinds(values) /\ Len(values) \in Nat /\ IsSeq(subStack)
        /\ Holds(values, temp, Entry, lo, mid) /\ Is(values, temp, Expect(Entry), mid, Len(values))
        /\ Entry.phase \in Nat /\ IsSeq(Finished) /\ Len(subStack) = d + Marks(Entry)
        /\ Wanting(Finished) \in Above(Gives(Entry.node.op))
  BY Begins DEF IncrementOperator, Doing, Opened
<1>2. StepOf(Entry) = "increment"
  BY DEF IncrementOperator, Doing, Step
<1>3. Entry.node.op \in Increments /\ Entry.node.op \in Assigning /\ Entry.phase = 3 /\ Expect(Entry) = "value" /\ Share(Entry) = "operand"
  BY <1>1, <1>2, RowCases, Operators DEF AssigningRow, SimpleRow, CallRow, TupleRow, OtherRow, Row
<1>4. Operand(values, lo, mid) /\ Len(values) = mid + 1 /\ Readable(temp, Top)
  BY <1>1, <1>3 DEF Holds, Is, Top
<1>5. mid > lo /\ (~values[mid].args => mid = lo + 1) /\ (values[mid].args => mid = lo + 2)
  BY <1>4, OperandCases
<1>. DEFINE old == Read(Top)  new == Incremented(old)  at == Len(values) - (IF Second.args THEN 3 ELSE 2)
            f == InPhase(Entry, 6)
<1>6. at = lo
  <2>1. Second = values[mid]
    <3>1. Len(values) - 1 = mid
      BY <1>4
    <3>. QED BY <3>1 DEF Second
  <2>2. values[mid].args => Len(values) - 3 = lo
    BY <1>4, <1>5
  <2>3. ~values[mid].args => Len(values) - 2 = lo
    BY <1>4, <1>5
  <2>. QED BY <2>1, <2>2, <2>3
<1>7. old \in Value /\ (Top.kind = "rvalue" => Top = Rvalue(Top.v))
  BY <1>4, ReadFacts DEF Ready
<1>8. EntryOK(f) /\ Marks(f) = 0 /\ Marks(Entry) = 0 /\ f.phase = 6 /\ f.node = Entry.node
      /\ Share(f) = "operand" /\ Expect(f) = "value" /\ Gives(Entry.node.op) = "single"
  <2>1. EntryOK(f) /\ f.node = Entry.node /\ f.phase = 6 /\ AssigningRow(f)
    BY <1>1, <1>3, AssigningPhase
  <2>2. Marks(f) = 0 /\ Marks(Entry) = 0 /\ Gives(Entry.node.op) = "single"
    BY <1>1, <1>3, <2>1, AssigningFacts
  <2>. HIDE DEF f
  <2>. QED BY <2>1, <2>2 DEF AssigningRow, Row
<1>9. [Entry EXCEPT !.phase = 6] = f
  <2>. DEFINE n == Entry.node  p == Entry.phase  e == Entry
  <2>1. e = [node |-> n, phase |-> p]
    BY <1>1 DEF EntryOK
  <2>. HIDE DEF n, p, e
  <2>2. [e EXCEPT !.phase = 6] = InPhase(e, 6)
    BY <2>1, Reentered
  <2>. QED BY <2>2 DEF e
<1>10. CASE new.ex # None
  <2>1. \E ex : Raise(ex)
    BY <1>10 DEF IncrementOperator
  <2>. QED BY <2>1, RaiseStep
<1>11. CASE new.ex = None
  <2>1. new.v \in Value
    BY <1>7, <1>11, IncrementGives, PrimitiveValue
  <2>. DEFINE w == new.v
  <2>. HIDE DEF old, f
  <2>2. subStack' = subStack /\ temp' = temp
    BY <1>11 DEF IncrementOperator, old
  <2>3. Len(values) >= 1 /\ Top = values[Len(values)] /\ mid = Len(values) - 1
    BY <1>4, <1>5 DEF Top
  <2>4. CASE Entry.node.op = "PrefixIncrement"
    <3>. DEFINE us == Raised(values, Top, w)
    <3>1. values' = us
      BY <1>11, <2>4 DEF IncrementOperator, Raised, old
    <3>2. stack' = ToPhase(6)
      <4>1. stack' = Finished \o <<>> \o <<f>>
        BY <1>9, <1>11, <2>4 DEF IncrementOperator, ProcessPhase, old
      <4>2. Finished \o <<>> = Finished /\ Finished \o <<f>> = Append(Finished, f)
        BY <1>1, AddedFacts
      <4>3. ToPhase(6) = Append(Finished, f)
        <5>1. IsSeq(stack) /\ stack # <<>>
          BY <1>1 DEF Opened
        <5>2. ToPhase(6) = [stack EXCEPT ![Len(stack)] = [stack[Len(stack)] EXCEPT !.phase = 6]]
          BY DEF ToPhase
        <5>3. ToPhase(6) = [stack EXCEPT ![Len(stack)] = f]
          BY <1>9, <5>2 DEF Entry
        <5>. QED BY <5>1, <5>3, TopFacts DEF Finished
      <4>. QED BY <4>1, <4>2, <4>3
    <3>3. /\ IsSeq(us) /\ Kinds(us) /\ Len(us) = Len(values)
          /\ \A i \in 1..Len(values) - 1 : us[i] = values[i]
          /\ Readable(temp, us[Len(values)])
      BY <1>1, <1>4, <1>7, <2>1, <2>3, RaisedFacts, ZenonT(60)
    <3>. HIDE DEF us, w
    <3>4. (\A i \in lo + 1..mid : us[i] = values[i]) /\ (\A i \in 1..lo : us[i] = values[i]) /\ lo <= Len(us) /\ lo <= mid /\ mid <= Len(us)
      <4>1. (\A i \in lo + 1..mid : i \in 1..Len(values) - 1) /\ (\A i \in 1..lo : i \in 1..Len(values) - 1)
        BY <1>4, <1>5
      <4>. QED BY <1>4, <1>5, <3>3, <4>1
    <3>5. Holds(us, temp, f, lo, mid)
      <4>1. Is(values, temp, "operand", lo, mid)
        BY <1>4 DEF Is
      <4>2. Is(us, temp, "operand", lo, mid)
        BY <3>4, <4>1, SameIs
      <4>. QED BY <1>8, <4>2 DEF Holds
    <3>6. Is(us, temp, Expect(f), mid, Len(us))
      BY <1>4, <1>8, <3>3 DEF Is
    <3>7. Fresh(us, subStack, temp, lo, d)
      BY <1>1, <3>3, <3>4 DEF Fresh
    <3>8. Len(subStack) = d + Marks(f) /\ Marks(f) # 1
      BY <1>1, <1>8
    <3>9. Stacked(ToPhase(6), us, subStack, temp, FALSE)
      BY <1>1, <1>8, <3>4, <3>5, <3>6, <3>7, <3>8, Stays, ZenonT(60) DEF f
    <3>. QED BY <2>2, <3>1, <3>2, <3>9
  <2>5. CASE Entry.node.op # "PrefixIncrement"
    <3>. DEFINE x == Rvalue(old)
                copied == Inserted(values, lo, x)
                us == Raised(copied, Top, w)
                m == At0(Marker("PostPostfix"))  st == Append(Finished, m)
    <3>1. values' = us
      <4>. DEFINE h == SubSeq(values, 1, at) \o <<x>> \o SubSeq(values, at + 1, Len(values))
      <4>1. values' = IF Top.kind = "ref" THEN h ELSE [h EXCEPT ![Len(h)].v = w]
        BY <1>11, <2>5 DEF IncrementOperator, old
      <4>2. h = copied
        <5>. HIDE DEF at
        <5>. QED BY <1>6 DEF Inserted
      <4>. HIDE DEF h, copied
      <4>. QED BY <4>1, <4>2 DEF Raised
    <3>2. stack' = Append(st, f)
      <4>1. stack' = Finished \o <<m>> \o <<f>>
        BY <1>9, <1>11, <2>5 DEF IncrementOperator, ProcessPhase, old
      <4>2. Finished \o <<m>> = st /\ IsSeq(st)
        BY <1>1, AddedFacts, AppendFacts
      <4>. HIDE DEF st
      <4>3. st \o <<f>> = Append(st, f)
        BY <4>2, AddedFacts
      <4>. QED BY <4>1, <4>2, <4>3
    <3>3. x.kind = "rvalue" /\ Readable(temp, x)
      BY <1>7, RvalueFacts
    <3>. HIDE DEF x, w
    <3>4. /\ IsSeq(copied) /\ Kinds(copied) /\ Len(copied) = Len(values) + 1
          /\ \A i \in 1..lo : copied[i] = values[i]
          /\ copied[lo + 1] = x
          /\ \A i \in lo + 1..Len(values) : copied[i + 1] = values[i]
      <4>1. lo \in 0..Len(values)
        BY <1>4, <1>5
      <4>. QED BY <1>1, <3>3, <4>1, InsertedFacts
    <3>. HIDE DEF copied
    <3>5. Len(copied) = mid + 2 /\ Len(copied) >= 1 /\ Top = copied[Len(copied)]
      <4>1. Len(values) \in lo + 1..Len(values) /\ Len(values) + 1 = mid + 2
        BY <1>4, <1>5
      <4>2. Len(copied) = mid + 2
        BY <3>4, <4>1
      <4>. QED BY <2>3, <3>4, <4>1, <4>2
    <3>6. /\ IsSeq(us) /\ Kinds(us) /\ Len(us) = mid + 2
          /\ \A i \in 1..mid + 1 : us[i] = copied[i]
          /\ Readable(temp, us[mid + 2])
      <4>1. /\ IsSeq(us) /\ Kinds(us) /\ Len(us) = Len(copied)
            /\ \A i \in 1..Len(copied) - 1 : us[i] = copied[i]
            /\ Readable(temp, us[Len(copied)])
        BY <1>4, <1>7, <2>1, <3>4, <3>5, RaisedFacts, ZenonT(60) DEF w
      <4>2. Len(copied) - 1 = mid + 1
        BY <3>5
      <4>. QED BY <3>5, <4>1, <4>2
    <3>. HIDE DEF us
    <3>7. us[lo + 1] = x /\ (\A i \in 1..lo : us[i] = values[i]) /\ (\A i \in lo + 1..mid : us[i + 1] = values[i]) /\ lo <= Len(us)
      <4>1. /\ lo + 1 \in 1..mid + 1 /\ \A i \in 1..lo : i \in 1..mid + 1
            /\ \A i \in lo + 1..mid : i + 1 \in 1..mid + 1 /\ i \in lo + 1..Len(values)
            /\ lo <= mid + 2
        BY <1>4, <1>5
      <4>. QED BY <3>4, <3>6, <4>1
    <3>8. Fresh(us, subStack, temp, lo, d)
      BY <1>1, <3>6, <3>7 DEF Fresh
    <3>9. Below(Finished, us, subStack, temp, lo, d)
      BY <1>1, <3>8, FreshBelow
    <3>10. Wanting(Finished) \in Above("rvalue")
      BY <1>1, <1>8 DEF Above
    <3>11. IsSeq(st) /\ Below(st, us, subStack, temp, lo + 1, d) /\ Wanting(st) = "single"
      <4>1. Is(us, temp, "rvalue", lo, lo + 1)
        BY <3>3, <3>7 DEF Is
      <4>2. Gives("PostPostfix") = "rvalue"
        BY Operators DEF Gives, Markers
      <4>3. lo + 1 \in Nat /\ lo <= lo + 1
        OBVIOUS
      <4>. QED BY <1>1, <3>9, <3>10, <4>1, <4>2, <4>3, MarkerStarts
    <3>. HIDE DEF st
    <3>12. Fits(f, Wanting(st), us, subStack, temp, lo + 1, mid + 1, d)
      <4>1. Operand(us, lo + 1, mid + 1)
        BY <1>4, <3>7, ShiftedOperand
      <4>2. Holds(us, temp, f, lo + 1, mid + 1)
        BY <1>8, <4>1 DEF Holds, Is
      <4>3. lo + 1 <= mid + 1 /\ "single" \in Above("single")
        BY <1>5 DEF Above
      <4>. QED BY <1>8, <3>11, <4>2, <4>3 DEF Fits
    <3>13. Below(Append(st, f), us, subStack, temp, mid + 1, d + Marks(f))
      BY <3>11, <3>12, Extend
    <3>14. d + Marks(f) = Len(subStack) /\ mid + 1 <= Len(us)
      BY <1>1, <1>8, <3>6
    <3>15. IsSeq(Append(st, f)) /\ Wanting(Append(st, f)) = Expect(f)
      <4>1. /\ IsSeq(Append(st, f)) /\ Len(Append(st, f)) = Len(st) + 1
            /\ Append(st, f)[Len(st) + 1] = f /\ Len(st) \in Nat
        BY <3>11, AppendFacts, SeqFacts
      <4>2. Len(st) + 1 # 0
        BY <4>1
      <4>. QED BY <4>1, <4>2 DEF Wanting, ExpectOf
    <3>16. Is(us, temp, Expect(f), mid + 1, Len(us))
      BY <1>8, <3>6 DEF Is
    <3>17. Stacked(Append(st, f), us, subStack, temp, FALSE)
      BY <1>1, <3>6, <3>13, <3>14, <3>15, <3>16, Rests
    <3>. QED BY <2>2, <3>1, <3>2, <3>17
  <2>. QED BY <2>4, <2>5
<1>. QED BY <1>10, <1>11

(***************************************************************************)
(* What else holds: the locks and the variables.  A call has released the  *)
(* locks; what is restored after it, or what its phase has read, is locked.*)
(***************************************************************************)
Restoring == stack # <<>> /\ Entry.node.op = "RestoreTemporaryLock"
CallOK(c) == c.fn \in Function /\ c.args \in Seq(Primitive) /\ c.set \in Primitive

Fitted ==
  /\ called = NoCall => Stacked(stack, values, subStack, temp, FALSE)
  /\ called # NoCall => Stacked(stack, values, subStack, temp, TRUE)
Scoped ==
  /\ vars \in [Name -> Primitive]
  /\ locked \subseteq Name /\ temp \subseteq Name
  /\ called # NoCall => CallOK(called) /\ locked = {} /\ suspended = None /\ stack # <<>>
  /\ suspended # None => suspended \in Name \ locked
  /\ called = NoCall /\ ~Restoring => temp \subseteq locked

\* Functions get values, give one and leave the variables with values.
FunctionsTyped ==
  \A fn \in Function, args \in Seq(Primitive), set \in Primitive, vs \in [Name -> Primitive] :
    Body(fn, args, set, vs).vars \in [Name -> Primitive] /\ Body(fn, args, set, vs).v \in Value

LEMMA NoFunction == None \notin Function
BY NameAssumption

\* A step of the frame on its own: variables may be defined, and locked.
LEMMA Grows ==
  ASSUME Scoped, Active, vars' \in [Name -> Primitive], locked' \subseteq Name, temp' \subseteq locked',
         called' = called, suspended' = suspended
  PROVE  Scoped'
BY DEF Scoped, Active

LEMMA Quiet ==
  ASSUME Scoped, Active, temp \subseteq locked, UNCHANGED <<vars, locked, temp, called, suspended>>
  PROVE  Scoped'
BY DEF Scoped, Active

LEMMA FittedNext ==
  ASSUME called' = NoCall, Stacked(stack', values', subStack', temp', FALSE)
  PROVE  Fitted'
BY DEF Fitted

LEMMA IsReady ==
  ASSUME Fitted, Scoped, called = NoCall
  PROVE  Ready
BY DEF Fitted, Scoped, Ready

LEMMA Working ==
  ASSUME Fitted, Scoped, NEW s, Doing(s), s # "RestoreTemporaryLock"
  PROVE  Ready /\ Active /\ stack # <<>> /\ StepOf(Entry) = s /\ ~Restoring /\ temp \subseteq locked
<1>1. Ready /\ Active /\ stack # <<>> /\ StepOf(Entry) = s
  BY IsReady DEF Doing, Active, Step
<1>2. EntryOK(Entry)
  BY <1>1, Begins
<1>3. ~Restoring
  <2>. SUFFICES ASSUME Entry.node.op = "RestoreTemporaryLock"
                PROVE  FALSE
    BY DEF Restoring
  <2>1. OtherRow(Entry)
    BY <1>2, OtherRows DEF Markers
  <2>2. StepOf(Entry) = "RestoreTemporaryLock"
    BY <2>1 DEF OtherRow, Row
  <2>. QED BY <1>1, <2>2
<1>4. temp \subseteq locked
  BY <1>1, <1>3 DEF Scoped, Active
<1>. QED BY <1>1, <1>3, <1>4

\* Steps that change neither variables nor locks
Calm ==
  \/ Literal \/ NameOperand \/ Parenthesis \/ Right \/ Duplicate \/ Callee \/ Extract
  \/ UnaryOperator \/ BinaryOperator \/ Decide \/ LogicalOperator \/ Choose
  \/ AddArguments \/ BeginTuple \/ TupleElement \/ PostPostfix \/ CompoundOperator
  \/ Process \/ Kind \/ NextPart \/ EndOfExpression
LEMMA CalmStep ==
  ASSUME Fitted, Scoped, Calm, ~littered'
  PROVE  Fitted' /\ Scoped'
<1>1. \E s : Doing(s) /\ s # "RestoreTemporaryLock"
  <2>1. /\ Literal => Doing("Literal")
        /\ NameOperand => Doing("Name")
        /\ Parenthesis => Doing("Parenthesis")
        /\ Right => Doing("right")
        /\ Duplicate => Doing("duplicate")
        /\ Callee => Doing("callee")
        /\ Extract => Doing("extract")
    BY DEF Literal, NameOperand, Parenthesis, Right, Duplicate, Callee, Extract
  <2>2. /\ UnaryOperator => Doing("unary")
        /\ BinaryOperator => Doing("binary")
        /\ Decide => Doing("decide")
        /\ LogicalOperator => Doing("logical")
        /\ Choose => Doing("choose")
        /\ AddArguments => Doing("call")
        /\ BeginTuple => Doing("tuple")
    BY DEF UnaryOperator, BinaryOperator, Decide, LogicalOperator, Choose, AddArguments, BeginTuple
  <2>3. /\ TupleElement => Doing("element")
        /\ PostPostfix => Doing("PostPostfix")
        /\ CompoundOperator => Doing("operator")
        /\ Process => Doing("process")
        /\ Kind => Doing("kind")
        /\ NextPart => Doing("next")
        /\ EndOfExpression => Doing("end")
    BY DEF TupleElement, PostPostfix, CompoundOperator, Process, Kind, NextPart, EndOfExpression
  <2>4. \/ Doing("Literal") \/ Doing("Name") \/ Doing("Parenthesis") \/ Doing("right")
        \/ Doing("duplicate") \/ Doing("callee") \/ Doing("extract") \/ Doing("unary")
        \/ Doing("binary") \/ Doing("decide") \/ Doing("logical") \/ Doing("choose")
        \/ Doing("call") \/ Doing("tuple") \/ Doing("element") \/ Doing("PostPostfix")
        \/ Doing("operator") \/ Doing("process") \/ Doing("kind") \/ Doing("next")
        \/ Doing("end")
    BY <2>1, <2>2, <2>3 DEF Calm
  <2>. QED BY <2>4
<1>2. Ready /\ Active /\ temp \subseteq locked
  BY <1>1, Working
<1>3. UNCHANGED <<vars, locked, temp, called, suspended>>
  <2>1. CASE Literal \/ NameOperand \/ Parenthesis \/ Right \/ Duplicate \/ Callee \/ AddArguments
             \/ PostPostfix \/ CompoundOperator \/ EndOfExpression
    BY <2>1 DEF Literal, NameOperand, Parenthesis, Right, Duplicate, Callee, AddArguments,
                PostPostfix, CompoundOperator, EndOfExpression, Stacks
  <2>2. CASE Extract \/ UnaryOperator \/ BinaryOperator \/ Decide \/ LogicalOperator \/ Choose \/ Kind
    <3>1. (\E s, v : Stacks(s, v)) \/ (\E ex : Raise(ex))
      BY <2>2 DEF Extract, UnaryOperator, BinaryOperator, Decide, LogicalOperator, Choose, Kind, Yield
    <3>. QED BY <3>1 DEF Stacks, Raise
  <2>3. CASE BeginTuple \/ TupleElement \/ NextPart
    BY <2>3 DEF BeginTuple, TupleElement, NextPart
  <2>4. CASE Process
    <3>1. \/ \E s, v : Stacks(s, v)
          \/ \E ex : Raise(ex)
          \/ UNCHANGED <<vars, locked, temp, called, suspended>>
      BY <2>4 DEF Process
    <3>. QED BY <3>1 DEF Stacks, Raise
  <2>. QED BY <2>1, <2>2, <2>3, <2>4 DEF Calm
<1>4. Stacked(stack', values', subStack', temp', FALSE)
  BY <1>2, LiteralStep, NameStep, ParenthesisStep, RightStep, DuplicateStep, CalleeStep, ExtractStep,
     UnaryStep, BinaryStep, DecideStep, LogicalStep, ChooseStep, AddArgumentsStep, BeginTupleStep,
     TupleElementStep, PostPostfixStep, CompoundStep, ProcessStep, KindStep, NextPartStep,
     EndOfExpressionStep DEF Calm
<1>. QED BY <1>2, <1>3, <1>4, Quiet, FittedNext DEF Active

\* Steps that evaluate the temporary on top
LEMMA EvaluatingWorks ==
  ASSUME Fitted, Scoped, Evaluating
  PROVE  Ready /\ Active /\ stack # <<>> /\ ~Restoring /\ temp \subseteq locked
BY Working DEF Evaluating

Resolving == Resolve \/ CallOfValue \/ EvaluateTuple \/ Evaluated
LEMMA ResolvingStep ==
  ASSUME Fitted, Scoped, Resolving
  PROVE  Fitted' /\ Scoped'
<1>1. Ready /\ Active /\ temp \subseteq locked
  BY EvaluatingWorks DEF Resolving, Resolve, CallOfValue, EvaluateTuple, Evaluated
<1>2. Stacked(stack', values', subStack', temp', FALSE)
  BY <1>1, ResolveStep, CallOfValueStep, EvaluateTupleStep, EvaluatedStep DEF Resolving
<1>3. UNCHANGED <<vars, locked, called, suspended>> /\ temp' \subseteq locked'
  <2>1. CASE Resolve \/ CallOfValue \/ EvaluateTuple
    <3>1. (\E s, v : Stacks(s, v)) \/ (\E ex : Raise(ex))
      BY <2>1 DEF Resolve, CallOfValue, EvaluateTuple
    <3>. QED BY <1>1, <3>1 DEF Stacks, Raise
  <2>2. CASE Evaluated
    BY <1>1, <2>2 DEF Evaluated
  <2>. QED BY <2>1, <2>2 DEF Resolving
<1>4. vars' \in [Name -> Primitive] /\ locked' \subseteq Name
  BY <1>3 DEF Scoped
<1>. QED BY <1>1, <1>2, <1>3, <1>4, Grows, FittedNext DEF Active

\* A definition gives its name a value.
LEMMA LeftScope ==
  ASSUME Fitted, Scoped, Left
  PROVE  Fitted' /\ Scoped'
<1>1. Ready /\ Active /\ stack # <<>> /\ temp \subseteq locked /\ StepOf(Entry) = "left"
  BY Working DEF Left
<1>2. Stacked(stack', values', subStack', temp', FALSE)
  BY <1>1, LeftStep
<1>. DEFINE n == Entry.node.subNodes[1].sid  defines == Entry.node.op = "Pair" /\ vars[n] = Undefined
<1>3. /\ vars' = IF defines THEN [vars EXCEPT ![n] = Null] ELSE vars
      /\ locked' = IF defines THEN locked \cup {n} ELSE locked
      /\ temp' = temp /\ called' = called /\ suspended' = suspended
  BY DEF Left
<1>4. Entry.node.op = "Pair" => n \in Name
  <2>. SUFFICES ASSUME Entry.node.op = "Pair"
                PROVE  n \in Name
    OBVIOUS
  <2>1. EntryOK(Entry)
    BY <1>1, Begins
  <2>2. Entry.node \in Node
    BY <2>1, OperatorCases DEF Markers, Marker
  <2>3. Entry.node.subNodes[1].op = "Name" /\ Entry.node.subNodes \in Seq(Node) /\ Len(Entry.node.subNodes) = Arity(Entry.node.op)
    BY <2>2, NodeAssumption
  <2>4. Arity("Pair") = 2
    BY DEF Arity, Unary, Increments
  <2>5. Entry.node.subNodes[1] \in Node
    BY <2>3, <2>4
  <2>. QED BY <2>3, <2>5, NodeAssumption
<1>. HIDE DEF n
<1>5. vars' \in [Name -> Primitive] /\ locked' \subseteq Name /\ temp' \subseteq locked'
  BY <1>1, <1>3, <1>4, PrimitiveMakes DEF Scoped
<1>. QED BY <1>1, <1>2, <1>3, <1>5, Grows, FittedNext DEF Active

\* A name that is assigned to is in scope from then on.
LEMMA DestinationScope ==
  ASSUME Fitted, Scoped, Destination
  PROVE  Fitted' /\ Scoped'
<1>1. Ready /\ Active /\ stack # <<>> /\ temp \subseteq locked /\ StepOf(Entry) = "destination"
  BY Working DEF Destination
<1>2. Stacked(stack', values', subStack', temp', FALSE)
  BY <1>1, DestinationStep
<1>. DEFINE t == values[DestinationAt]  defines == t.kind = "name" /\ ~t.args /\ vars[t.name] = Undefined
<1>3. t.kind = "name" => t.name \in Name
  <2>1. PICK lo \in Nat, mid \in Nat, d \in Nat :
          /\ Opened(lo, mid, d) /\ EntryOK(Entry) /\ Len(values) \in Nat
          /\ Holds(values, temp, Entry, lo, mid) /\ Is(values, temp, Expect(Entry), mid, Len(values))
    BY <1>1, Begins
  <2>2. /\ Entry.node.op \in Assigning
        /\ \/ Entry.phase = 7 /\ Expect(Entry) = "scalar" /\ Share(Entry) = "operand"
           \/ Entry.phase >= 40 /\ Expect(Entry) = "operand"
    BY <1>1, <2>1, RowCases DEF AssigningRow, SimpleRow, CallRow, TupleRow, OtherRow, Row
  <2>3. CASE Entry.phase = 7 /\ Expect(Entry) = "scalar" /\ Share(Entry) = "operand"
    <3>1. Len(values) = mid + 1 /\ Operand(values, lo, mid)
      BY <2>1, <2>3 DEF Is, Holds
    <3>2. DestinationAt = mid
      BY <2>3, <3>1 DEF DestinationAt, InTuple, TuplePhase
    <3>3. Typed(values[mid])
      BY <3>1, OperandCases
    <3>. QED BY <3>2, <3>3, TypedFacts
  <2>4. CASE Entry.phase >= 40 /\ Expect(Entry) = "operand"
    <3>1. Operand(values, mid, Len(values))
      BY <2>1, <2>4 DEF Is
    <3>2. DestinationAt = Len(values)
      BY <2>1, <2>4 DEF DestinationAt, InTuple, TuplePhase
    <3>3. Typed(values[Len(values)])
      BY <2>1, <3>1, OperandCases
    <3>. QED BY <3>2, <3>3, TypedFacts
  <2>. QED BY <2>2, <2>3, <2>4
<1>4. CASE \E ex : Raise(ex)
  <2>1. UNCHANGED <<vars, locked, temp, called, suspended>>
    BY <1>4 DEF Raise
  <2>. QED BY <1>1, <1>2, <2>1, Quiet, FittedNext DEF Active
<1>5. CASE ~\E ex : Raise(ex)
  <2>1. /\ vars' = IF defines THEN [vars EXCEPT ![t.name] = Null] ELSE vars
        /\ locked' = IF defines THEN locked \cup {t.name} ELSE locked
        /\ temp' = temp /\ called' = called /\ suspended' = suspended
    BY <1>5 DEF Destination
  <2>. HIDE DEF t
  <2>2. vars' \in [Name -> Primitive] /\ locked' \subseteq Name /\ temp' \subseteq locked'
    BY <1>1, <1>3, <2>1, PrimitiveMakes DEF Scoped
  <2>. QED BY <1>1, <1>2, <2>1, <2>2, Grows, FittedNext DEF Active
<1>. QED BY <1>4, <1>5

\* What x++ makes of a variable is a value of a variable.
LEMMA IncrementScope ==
  ASSUME Fitted, Scoped, IncrementOperator
  PROVE  Fitted' /\ Scoped'
<1>1. Ready /\ Active /\ stack # <<>> /\ temp \subseteq locked /\ StepOf(Entry) = "increment"
  BY Working DEF IncrementOperator
<1>2. Stacked(stack', values', subStack', temp', FALSE)
  BY <1>1, IncrementStep
<1>3. Read(Top) \in Value
  <2>1. PICK lo \in Nat, mid \in Nat, d \in Nat :
          EntryOK(Entry) /\ Is(values, temp, Expect(Entry), mid, Len(values))
    BY <1>1, Begins
  <2>2. Expect(Entry) = "value"
    BY <1>1, <2>1, RowCases DEF AssigningRow, SimpleRow, CallRow, TupleRow, OtherRow, Row
  <2>3. Readable(temp, Top)
    BY <2>1, <2>2 DEF Is, Top
  <2>. QED BY <1>1, <2>3, ReadFacts DEF Ready
<1>. DEFINE old == Read(Top)  new == Incremented(old)
<1>4. CASE new.ex # None
  <2>1. \E ex : Raise(ex)
    BY <1>4 DEF IncrementOperator
  <2>2. UNCHANGED <<vars, locked, temp, called, suspended>>
    BY <2>1 DEF Raise
  <2>. QED BY <1>1, <1>2, <2>2, Quiet, FittedNext DEF Active
<1>5. CASE new.ex = None
  <2>1. new.v \in Primitive
    BY <1>3, <1>5, IncrementGives
  <2>2. /\ vars' = IF Top.kind = "ref" THEN [vars EXCEPT ![Top.name] = new.v] ELSE vars
        /\ locked' = locked /\ temp' = temp /\ called' = called /\ suspended' = suspended
    BY <1>5 DEF IncrementOperator
  <2>. HIDE DEF new
  <2>3. vars' \in [Name -> Primitive] /\ locked' \subseteq Name /\ temp' \subseteq locked'
    BY <1>1, <2>1, <2>2 DEF Scoped
  <2>. QED BY <1>1, <1>2, <2>2, <2>3, Grows, FittedNext DEF Active
<1>. QED BY <1>4, <1>5

LEMMA AssignReferenceScope ==
  ASSUME Fitted, Scoped, AssignReference
  PROVE  Fitted' /\ Scoped'
<1>1. Ready /\ Active /\ stack # <<>> /\ temp \subseteq locked /\ StepOf(Entry) = "reference"
  BY Working DEF AssignReference
<1>2. Stacked(stack', values', subStack', temp', FALSE)
  BY <1>1, AssignReferenceStep
<1>3. Read(Top) \in Primitive
  <2>1. PICK lo \in Nat, mid \in Nat, d \in Nat :
          EntryOK(Entry) /\ Is(values, temp, Expect(Entry), mid, Len(values))
    BY <1>1, Begins
  <2>2. Expect(Entry) = "scalar"
    BY <1>1, <2>1, RowCases DEF AssigningRow, SimpleRow, CallRow, TupleRow, OtherRow, Row
  <2>3. Readable(temp, Top) /\ (Top.kind = "rvalue" => Top.v \in Primitive)
    BY <2>1, <2>2 DEF Is, Top
  <2>. QED BY <1>1, <2>3, ReadFacts DEF Ready
<1>4. /\ vars' = [vars EXCEPT ![Second.name] = Read(Top)] /\ temp' = temp \cup {Second.name} /\ Second.name \in locked
      /\ locked' = locked /\ called' = called /\ suspended' = suspended
  BY DEF AssignReference
<1>5. vars' \in [Name -> Primitive] /\ locked' \subseteq Name /\ temp' \subseteq locked'
  BY <1>1, <1>3, <1>4 DEF Scoped
<1>. QED BY <1>1, <1>2, <1>4, <1>5, Grows, FittedNext DEF Active

LEMMA AssignPartScope ==
  ASSUME Fitted, Scoped, AssignPart
  PROVE  Fitted' /\ Scoped'
<1>1. Ready /\ Active /\ stack # <<>> /\ temp \subseteq locked /\ StepOf(Entry) = "assign"
  BY Working DEF AssignPart
<1>2. Stacked(stack', values', subStack', temp', FALSE)
  BY <1>1, AssignPartStep
<1>3. SourceAt(Position) \in Primitive
  <2>1. PICK lo \in Nat, mid \in Nat, d \in Nat : Opened(lo, mid, d)
    BY <1>1, Begins
  <2>. QED BY <1>1, <2>1, AssignFacts, InTupleFacts
<1>4. /\ vars' = [vars EXCEPT ![Top.name] = SourceAt(Position)] /\ temp' = temp \cup {Top.name} /\ Top.name \in locked
      /\ locked' = locked /\ called' = called /\ suspended' = suspended
  BY DEF AssignPart
<1>5. vars' \in [Name -> Primitive] /\ locked' \subseteq Name /\ temp' \subseteq locked'
  BY <1>1, <1>3, <1>4 DEF Scoped
<1>. QED BY <1>1, <1>2, <1>4, <1>5, Grows, FittedNext DEF Active

LEMMA RestoreScope ==
  ASSUME Fitted, Scoped, RestoreTemporaryLock
  PROVE  Fitted' /\ Scoped'
<1>1. Active /\ Ready
  BY IsReady DEF RestoreTemporaryLock, Doing, Active
<1>2. Stacked(stack', values', subStack', temp', FALSE)
  BY <1>1, RestoreStep
<1>3. temp \subseteq locked /\ UNCHANGED <<vars, locked, temp, called, suspended>>
  BY DEF RestoreTemporaryLock, Stacks
<1>. QED BY <1>1, <1>2, <1>3, Quiet, FittedNext DEF Active

\* Locks: what is wanted is a variable.
LEMMA WantedNames ==
  ASSUME Ready, Scoped, stack # <<>>
  PROVE  Wanted \subseteq Name
<1>1. PICK lo \in Nat, mid \in Nat, d \in Nat :
        /\ Opened(lo, mid, d) /\ EntryOK(Entry) /\ Len(values) \in Nat /\ Entry.phase \in Nat
        /\ Holds(values, temp, Entry, lo, mid) /\ Is(values, temp, Expect(Entry), mid, Len(values))
  BY Begins
<1>2. CASE Evaluating /\ Top.kind = "ref"
  <2>1. Typed(Top)
    <3>1. StepOf(Entry) \in {"value", "callee"}
      BY <1>2, EvaluatingStep
    <3>2. Expect(Entry) \in {"operand", "tuple"}
      BY <1>1, <3>1, EvaluatingRows
    <3>. QED BY <1>1, <3>2, TopCases
  <2>3. Step # "reference" /\ Step # "assign" /\ Step # "RestoreTemporaryLock"
    BY <1>2 DEF Evaluating, Doing
  <2>2. Wanted = {Top.name}
    BY <1>2, <2>3 DEF Wanted
  <2>. QED BY <1>2, <2>1, <2>2, TypedFacts
<1>3. CASE ~(Evaluating /\ Top.kind = "ref") /\ Step = "reference"
  <2>1. Entry.phase = 10 /\ Expect(Entry) = "scalar" /\ Share(Entry) = "variable"
    BY <1>1, <1>3, RowCases DEF AssigningRow, SimpleRow, CallRow, TupleRow, OtherRow, Row, Step
  <2>2. Len(values) - 1 = mid /\ IsVariable(values[mid])
    BY <1>1, <2>1 DEF Is, Holds
  <2>3. Second.name \in Name
    BY <2>2, VariableFacts DEF Second
  <2>4. Wanted = {Second.name}
    BY <1>3 DEF Wanted
  <2>. QED BY <2>3, <2>4
<1>4. CASE ~(Evaluating /\ Top.kind = "ref") /\ Step = "assign" /\ Top.kind = "ref"
  <2>1. IsVariable(Top)
    BY <1>1, <1>4, AssignFacts DEF Step
  <2>2. Wanted = {Top.name}
    BY <1>4 DEF Wanted
  <2>. QED BY <2>1, <2>2, VariableFacts
<1>5. CASE ~(Evaluating /\ Top.kind = "ref") /\ Step = "RestoreTemporaryLock"
  BY <1>5 DEF Wanted, Scoped
<1>6. CASE /\ ~(Evaluating /\ Top.kind = "ref") /\ Step # "reference"
           /\ ~(Step = "assign" /\ Top.kind = "ref") /\ Step # "RestoreTemporaryLock"
  BY <1>6 DEF Wanted
<1>. QED BY <1>2, <1>3, <1>4, <1>5, <1>6

LEMMA LockScope ==
  ASSUME Fitted, Scoped, Suspend \/ Grant \/ TakeLock
  PROVE  Fitted' /\ Scoped'
<1>1. called = NoCall /\ called' = called /\ stack' = stack /\ vars' = vars
  BY DEF Scoped, Suspend, Grant, TakeLock, Active
<1>2. Ready
  BY <1>1, IsReady
<1>3. Stacked(stack', values', subStack', temp', FALSE)
  BY <1>2, SuspendStep, GrantStep, TakeLockStep
<1>4. Restoring' = Restoring
  BY <1>1 DEF Restoring, Entry
<1>5. CASE Suspend
  <2>1. PICK n \in Wanted \ locked : suspended' = n
    BY <1>5 DEF Suspend
  <2>2. n \in Name
    BY <1>2, <1>5, <2>1, WantedNames DEF Suspend
  <2>3. locked' = locked /\ temp' = temp
    BY <1>5 DEF Suspend
  <2>4. Scoped'
    BY <1>1, <1>4, <2>1, <2>2, <2>3 DEF Scoped
  <2>. QED BY <1>1, <1>3, <2>4, FittedNext
<1>6. CASE Grant
  <2>1. suspended \in Name /\ locked' = locked \cup {suspended} /\ temp' = temp \cup {suspended} /\ suspended' = None
    BY <1>6 DEF Grant, Scoped
  <2>2. Scoped'
    BY <1>1, <1>4, <2>1 DEF Scoped
  <2>. QED BY <1>1, <1>3, <2>2, FittedNext
<1>7. CASE TakeLock
  <2>1. PICK n \in Wanted \ locked : locked' = locked \cup {n} /\ temp' = temp \cup {n}
    BY <1>7 DEF TakeLock
  <2>2. n \in Name
    BY <1>2, <1>7, <2>1, WantedNames DEF TakeLock
  <2>3. suspended = None /\ suspended' = suspended
    BY <1>7 DEF TakeLock, Active
  <2>4. Scoped'
    BY <1>1, <1>4, <2>1, <2>2, <2>3 DEF Scoped
  <2>. QED BY <1>1, <1>3, <2>4, FittedNext
<1>. QED BY <1>5, <1>6, <1>7

\* A call releases the locks, which are remembered.
LEMMA Calls ==
  ASSUME Scoped, Active, Stacked(stack', values', subStack', temp', TRUE), stack' # <<>>,
         NEW fn \in Function, NEW es \in Seq(Primitive), NEW set \in Primitive,
         called' = [fn |-> fn, args |-> es, set |-> set], locked' = {},
         UNCHANGED <<vars, temp, suspended>>
  PROVE  Fitted' /\ Scoped'
<1>1. called'.fn = fn /\ called'.args = es /\ called'.set = set
  OBVIOUS
<1>2. called' # NoCall
  <2>1. NoCall.fn = None
    BY DEF NoCall
  <2>. QED BY <1>1, <2>1, NoFunction
<1>3. (CallOK(called))'
  BY <1>1 DEF CallOK
<1>. HIDE DEF CallOK
<1>4. Fitted'
  BY <1>2 DEF Fitted
<1>5. Scoped'
  BY <1>2, <1>3 DEF Scoped, Active
<1>. QED BY <1>4, <1>5

LEMMA CallScope ==
  ASSUME Fitted, Scoped, Call \/ AssignByMethod
  PROVE  Fitted' /\ Scoped'
<1>1. CASE Call
  <2>1. Ready /\ Active
    BY <1>1, EvaluatingWorks DEF Call
  <2>2. Stacked(stack', values', subStack', temp', TRUE) /\ stack' # <<>> /\ IsArguments(Second)
    BY <1>1, <2>1, CallStep
  <2>3. Second.v.es \in Seq(Primitive)
    BY <2>2, ArgumentsFacts
  <2>4. /\ Top.name \in Function /\ called' = [fn |-> Top.name, args |-> Second.v.es, set |-> Null]
        /\ locked' = {} /\ UNCHANGED <<vars, temp, suspended>>
    BY <1>1 DEF Call, MethodCall
  <2>. QED BY <2>1, <2>2, <2>3, <2>4, Calls, PrimitiveMakes
<1>2. CASE AssignByMethod
  <2>1. Ready /\ Active
    BY <1>2, Working DEF AssignByMethod
  <2>2. Stacked(stack', values', subStack', temp', TRUE) /\ stack' # <<>>
        /\ Second.name \in Function /\ IsArguments(values[Len(values) - 2]) /\ Read(Top) \in Primitive
    BY <1>2, <2>1, AssignByMethodStep
  <2>. DEFINE t == values[Len(values) - 2]
  <2>3. t.v.es \in Seq(Primitive)
    BY <2>2, ArgumentsFacts
  <2>4. /\ called' = [fn |-> Second.name, args |-> t.v.es, set |-> Read(Top)]
        /\ locked' = {} /\ UNCHANGED <<vars, temp, suspended>>
    BY <1>2 DEF AssignByMethod, MethodCall
  <2>. HIDE DEF t
  <2>. QED BY <2>1, <2>2, <2>3, <2>4, Calls
<1>. QED BY <1>1, <1>2

LEMMA ReturnsScope ==
  ASSUME FunctionsTyped, Fitted, Scoped, Returns
  PROVE  Fitted' /\ Scoped'
<1>1. called # NoCall /\ CallOK(called) /\ locked = {} /\ suspended = None /\ vars \in [Name -> Primitive]
      /\ Stacked(stack, values, subStack, temp, TRUE)
  BY DEF Returns, Scoped, Fitted
<1>. DEFINE r == Body(called.fn, called.args, called.set, vars)
<1>2. r.vars \in [Name -> Primitive] /\ r.v \in Value
  BY <1>1 DEF FunctionsTyped, CallOK
<1>3. Stacked(stack', values', subStack', temp', FALSE)
  BY <1>1, <1>2, ReturnsStep
<1>. DEFINE m == At0(Marker("RestoreTemporaryLock"))
<1>4. vars' = r.vars /\ called' = NoCall /\ locked' = locked /\ temp' = temp /\ suspended' = suspended /\ stack' = Append(stack, m)
  BY DEF Returns
<1>5. Restoring'
  <2>1. IsSeq(stack)
    BY <1>1 DEF Stacked
  <2>2. m.node.op = "RestoreTemporaryLock"
    BY DEF At0, Marker
  <2>. HIDE DEF m
  <2>3. Append(stack, m) # <<>> /\ Len(Append(stack, m)) = Len(stack) + 1 /\ Append(stack, m)[Len(stack) + 1] = m
    BY <2>1, AppendFacts
  <2>4. stack' # <<>> /\ stack'[Len(stack')] = m
    BY <1>4, <2>3
  <2>5. Entry' = stack'[Len(stack')]
    BY DEF Entry
  <2>. QED BY <2>2, <2>4, <2>5 DEF Restoring
<1>6. Scoped'
  BY <1>1, <1>2, <1>4, <1>5 DEF Scoped
<1>. QED BY <1>3, <1>4, <1>6, FittedNext

\* The expression is done with, or has thrown.
LEMMA EndScope ==
  ASSUME Fitted, Scoped, UNCHANGED <<stack, values, subStack, vars, locked, temp, called, suspended>>
  PROVE  Fitted' /\ Scoped'
<1>1. Fitted'
  BY DEF Fitted
<1>2. Restoring' = Restoring /\ (CallOK(called))' = CallOK(called)
  BY DEF Restoring, Entry, CallOK
<1>3. Scoped'
  BY <1>2 DEF Scoped
<1>. QED BY <1>1, <1>3

(***************************************************************************)
(* The invariant.                                                          *)
(***************************************************************************)
Inv == Tidy => Fitted /\ Scoped

LEMMA Inductive ==
  ASSUME FunctionsTyped, Fitted, Scoped, Next, Tidy'
  PROVE  Fitted' /\ Scoped'
<1>1. ~littered' /\ ~relocked'
  BY DEF Tidy
<1>2. CASE Calm
  BY <1>1, <1>2, CalmStep
<1>3. CASE Resolving
  BY <1>3, ResolvingStep
<1>4. CASE Suspend \/ Grant \/ TakeLock
  BY <1>4, LockScope
<1>5. CASE Call \/ AssignByMethod
  BY <1>5, CallScope
<1>6. CASE Returns
  BY <1>6, ReturnsScope
<1>7. CASE Left \/ Destination \/ IncrementOperator \/ AssignReference \/ AssignPart \/ RestoreTemporaryLock
  BY <1>7, LeftScope, DestinationScope, IncrementScope, AssignReferenceScope, AssignPartScope, RestoreScope
<1>8. CASE AssignAgain \/ AssignPartByMethod
  BY <1>1, <1>8 DEF AssignAgain, AssignPartByMethod
<1>9. CASE End \/ UNCHANGED state
  <2>1. UNCHANGED <<stack, values, subStack, vars, locked, temp, called, suspended>>
    BY <1>9 DEF End, state
  <2>. QED BY <2>1, EndScope
<1>. QED BY <1>2, <1>3, <1>4, <1>5, <1>6, <1>7, <1>8, <1>9 DEF Next, Calm, Resolving

\* What history has recorded stays.
LEMMA TidyBefore ==
  ASSUME [Next]_state, Tidy'
  PROVE  Tidy
<1>1. CASE Literal \/ NameOperand \/ Parenthesis \/ Left \/ Right \/ Duplicate
  BY <1>1 DEF Tidy, Literal, NameOperand, Parenthesis, Left, Right, Duplicate, Stacks, history
<1>2. CASE Resolve \/ CallOfValue \/ Evaluated \/ Callee \/ EvaluateTuple \/ Extract
  <2>1. CASE Evaluated
    BY <2>1 DEF Tidy, Evaluated, history
  <2>2. CASE ~Evaluated
    <3>1. (\E s, v : Stacks(s, v)) \/ (\E ex : Raise(ex))
      BY <1>2, <2>2 DEF Resolve, CallOfValue, EvaluateTuple, Callee, Extract
    <3>. QED BY <3>1 DEF Stacks, Raise, history, Tidy
  <2>. QED BY <2>1, <2>2
<1>3. CASE Suspend \/ Grant \/ TakeLock \/ Call \/ Returns \/ RestoreTemporaryLock
  BY <1>3 DEF Tidy, Suspend, Grant, TakeLock, Call, MethodCall, Returns, RestoreTemporaryLock, Stacks, history
<1>4. CASE UnaryOperator \/ BinaryOperator \/ Decide \/ LogicalOperator \/ Choose \/ Kind
  <2>1. (\E s, v : Stacks(s, v)) \/ (\E ex : Raise(ex))
    BY <1>4 DEF UnaryOperator, BinaryOperator, Decide, LogicalOperator, Choose, Kind, Yield
  <2>. QED BY <2>1 DEF Stacks, Raise, history, Tidy
<1>5. CASE AddArguments \/ BeginTuple \/ TupleElement \/ PostPostfix \/ CompoundOperator \/ NextPart \/ EndOfExpression
  <2>1. (\E s, v : Stacks(s, v)) \/ UNCHANGED history
    BY <1>5 DEF AddArguments, BeginTuple, TupleElement, PostPostfix, CompoundOperator, NextPart, EndOfExpression
  <2>. QED BY <2>1 DEF Stacks, history, Tidy
<1>6. CASE IncrementOperator \/ Destination
  <2>1. (\E ex : Raise(ex)) \/ UNCHANGED history
    BY <1>6 DEF IncrementOperator, Destination
  <2>. QED BY <2>1 DEF Raise, history, Tidy
<1>7. CASE Process
  <2>1. \/ (\E s, v : Stacks(s, v)) \/ (\E ex : Raise(ex))
        \/ littered' = (littered \/ Second.args) /\ relocked' = relocked
    BY <1>7 DEF Process
  <2>2. CASE littered' = (littered \/ Second.args) /\ relocked' = relocked
    BY <2>2, Zenon DEF Tidy
  <2>. QED BY <2>1, <2>2 DEF Stacks, Raise, history, Tidy
<1>8. CASE AssignReference \/ AssignByMethod \/ AssignPart \/ AssignAgain \/ AssignPartByMethod
  BY <1>8 DEF Tidy, AssignReference, AssignByMethod, MethodCall, AssignPart, AssignAgain, AssignPartByMethod, history
<1>9. CASE End \/ UNCHANGED state
  BY <1>9 DEF Tidy, End, state, history
<1>. QED BY <1>1, <1>2, <1>3, <1>4, <1>5, <1>6, <1>7, <1>8, <1>9 DEF Next

LEMMA TwoFacts ==
  ASSUME NEW x, NEW y
  PROVE  Append(<<>>, x) = <<x>> /\ Append(<<x>>, y) = <<x, y>>
<1>1. Append(<<>>, x) = <<x>>
  <2>. DEFINE s == Append(<<>>, x)  t == <<x>>
  <2>1. IsSeq(t) /\ Len(t) = 1 /\ t[1] = x
    BY ShortSeqs
  <2>2. IsSeq(s) /\ Len(s) = 0 + 1 /\ s[0 + 1] = x
    <3>1. IsSeq(<<>>) /\ Len(<<>>) = 0
      BY ShortSeqs
    <3>. QED BY <3>1, AppendFacts
  <2>. HIDE DEF s, t
  <2>3. \A i \in 1..Len(s) : s[i] = t[i]
    BY <2>1, <2>2
  <2>4. s = t
    BY <2>1, <2>2, <2>3, SameSeq
  <2>. QED BY <2>4 DEF s, t
<1>2. Append(<<x>>, y) = <<x, y>>
  <2>. DEFINE s == Append(<<x>>, y)  t == <<x, y>>
  <2>1. IsSeq(t) /\ Len(t) = 2 /\ t[1] = x /\ t[2] = y
    BY ShortSeqs
  <2>2. IsSeq(s) /\ Len(s) = 1 + 1 /\ s[1] = x /\ s[1 + 1] = y
    <3>1. IsSeq(<<x>>) /\ Len(<<x>>) = 1 /\ <<x>>[1] = x
      BY ShortSeqs
    <3>2. IsSeq(s) /\ Len(s) = 1 + 1 /\ s[1 + 1] = y /\ \A i \in 1..1 : s[i] = <<x>>[i]
      BY <3>1, AppendFacts
    <3>. QED BY <3>1, <3>2
  <2>. HIDE DEF s, t
  <2>3. \A i \in 1..Len(s) : s[i] = t[i]
    BY <2>1, <2>2
  <2>4. s = t
    BY <2>1, <2>2, <2>3, SameSeq
  <2>. QED BY <2>4 DEF s, t
<1>. QED BY <1>1, <1>2

LEMMA Initially ==
  ASSUME Init
  PROVE  Fitted /\ Scoped
<1>. DEFINE e == At0(Marker("Expression"))
<1>1. /\ e.node.op = "Expression" /\ e.phase = 0 /\ e.node = Marker("Expression") /\ e = [node |-> e.node, phase |-> e.phase]
      /\ "Expression" \in Markers
  BY DEF At0, Marker, Markers
<1>2. EntryOK(e)
  <2>1. "Expression" \notin Unary \cup Binary \cup Logicals \cup Assigning \cup Increments
    BY <1>1, Operators
  <2>. HIDE DEF e
  <2>2. PhaseOK(e.node, e.phase)
    BY <1>1, <2>1 DEF PhaseOK
  <2>. QED BY <1>1, <2>2 DEF EntryOK
<1>3. /\ stack = <<e, At0(expression)>> /\ values = <<>> /\ subStack = <<>> /\ temp = {} /\ called = NoCall
      /\ vars = [n \in Name |-> InitialValue(n)] /\ locked = {} /\ suspended = None /\ expression \in Node
  BY NodeAssumption DEF Init
<1>. HIDE DEF e
<1>4. Share(e) = "nothing" /\ Expect(e) = "operand" /\ Marks(e) = 0
  <2>1. OtherRow(e)
    BY <1>1, <1>2, OtherRows
  <2>2. e.node.op \notin Assigning \cup {"Tuple"}
    BY <1>1, Operators
  <2>. QED BY <1>1, <2>1, <2>2, MarksCases DEF OtherRow, Row
<1>5. Fits(e, Wanting(<<>>), values, subStack, temp, 0, 0, 0)
  <2>1. Is(values, temp, "nothing", 0, 0)
    BY DEF Is
  <2>2. Holds(values, temp, e, 0, 0)
    BY <1>4, <2>1 DEF Holds
  <2>3. Wanting(<<>>) = "value"
    BY ShortSeqs DEF Wanting, ExpectOf
  <2>4. "value" \in Above("value") /\ Gives("Expression") = "value"
    BY GivesFacts DEF Above
  <2>. QED BY <1>1, <1>2, <1>4, <2>2, <2>3, <2>4 DEF Fits
<1>6. IsSeq(<<>>) /\ Len(<<>>) = 0 /\ IsSeq(<<e>>) /\ Len(<<e>>) = 1 /\ <<e>>[1] = e
  BY ShortSeqs
<1>7. Append(<<>>, e) = <<e>> /\ Append(<<e>>, At0(expression)) = stack
  BY <1>3, TwoFacts
<1>8. Below(<<e>>, values, subStack, temp, 0, 0)
  <2>1. Below(<<>>, values, subStack, temp, 0, 0) /\ 0 \in Nat
    BY BelowNothing
  <2>2. Below(Append(<<>>, e), values, subStack, temp, 0, 0 + Marks(e))
    BY <1>5, <1>6, <2>1, Extend
  <2>3. 0 + Marks(e) = 0
    BY <1>4
  <2>. QED BY <1>7, <2>2, <2>3
<1>9. Wanting(<<e>>) = "operand"
  BY <1>4, <1>6 DEF Wanting, ExpectOf
<1>10. IsSeq(values) /\ Kinds(values) /\ Len(values) = 0 /\ IsSeq(subStack) /\ Len(subStack) = 0
  BY <1>3, <1>6 DEF Kinds
<1>11. Stacked(Append(<<e>>, At0(expression)), values, subStack, temp, FALSE)
  BY <1>3, <1>6, <1>8, <1>9, <1>10, Starts
<1>12. Fitted
  BY <1>3, <1>7, <1>11 DEF Fitted
<1>13. Scoped
  BY <1>3, NameAssumption DEF Scoped
<1>. QED BY <1>12, <1>13

\* The stacks fit together in every state, as long as nothing has been left on values.
THEOREM StacksFit ==
  ASSUME FunctionsTyped
  PROVE  Spec => []Inv
<1>1. Init => Inv
  BY Initially DEF Inv
<1>2. Inv /\ [Next]_state => Inv'
  <2>. SUFFICES ASSUME Inv, [Next]_state, Tidy'
                PROVE  Fitted' /\ Scoped'
    BY DEF Inv
  <2>1. Fitted /\ Scoped
    BY TidyBefore DEF Inv
  <2>2. CASE Next
    BY <2>1, <2>2, Inductive
  <2>3. CASE UNCHANGED state
    <3>1. UNCHANGED <<stack, values, subStack, vars, locked, temp, called, suspended>>
      BY <2>3 DEF state
    <3>. QED BY <2>1, <3>1, EndScope
  <2>. QED BY <2>2, <2>3
<1>. QED BY <1>1, <1>2, PTL DEF Spec

LEMMA FitsTypes ==
  ASSUME Fitted, Scoped
  PROVE  TypeOK
<1>1. PICK c \in BOOLEAN : Stacked(stack, values, subStack, temp, c)
  BY DEF Fitted
<1>2. IsSeq(stack) /\ IsSeq(values) /\ IsSeq(subStack) /\ Kinds(values)
  BY <1>1 DEF Stacked
<1>3. PICK lo \in Nat, d \in Nat :
        Below(stack, values, subStack, temp, lo, d) /\ lo <= Len(values) /\ Len(subStack) = d
  BY <1>1 DEF Stacked, Formed
<1>4. DOMAIN subStack = 1..Len(subStack) /\ DOMAIN values = 1..Len(values) /\ Len(values) \in Nat
  BY <1>2 DEF IsSeq
<1>5. \A i \in DOMAIN subStack : subStack[i] \in 1..Len(values)
  <2>1. \A i \in 1..d : subStack[i] \in 1..lo
    BY <1>2, <1>3, BelowFacts
  <2>. QED BY <1>3, <1>4, <2>1
<1>6. \A i \in DOMAIN values : values[i].kind \in {"rvalue", "name", "ref", "method", "tuple", "map"}
  BY <1>2, <1>4 DEF Kinds
<1>. QED BY <1>5, <1>6 DEF TypeOK, Scoped

\* An operator finds its operands where its phase says, evaluated; those of an expression
\* that are variables are among the ones the frame has locked.
LEMMA OperandsReadable ==
  ASSUME Ready, stack # <<>>, NEW t \in Operands
  PROVE  /\ Readable(temp, t)
         /\ Step \in {"unary", "decide", "choose", "increment", "process", "end", "operator",
                      "binary", "logical", "extract"}
<1>1. PICK lo \in Nat, mid \in Nat, d \in Nat :
        /\ EntryOK(Entry) /\ Len(values) \in Nat /\ Entry.phase \in Nat
        /\ Holds(values, temp, Entry, lo, mid) /\ Is(values, temp, Expect(Entry), mid, Len(values))
  BY Begins
<1>2. Step = StepOf(Entry)
  BY DEF Step
<1>3. CASE Step \in {"unary", "decide", "choose", "increment", "process", "end", "operator"}
  <2>1. Expect(Entry) = "value"
    BY <1>1, <1>2, <1>3, RowCases, Operators DEF AssigningRow, SimpleRow, CallRow, TupleRow, OtherRow, Row
  <2>2. Readable(temp, Top)
    BY <1>1, <2>1 DEF Is, Top
  <2>3. t = Top
    BY <1>3 DEF Operands
  <2>. QED BY <1>3, <2>2, <2>3
<1>4. CASE Step \in {"binary", "logical"}
  <2>1. Expect(Entry) = "value" /\ Share(Entry) = "value"
    BY <1>1, <1>2, <1>4, RowCases, Operators DEF AssigningRow, SimpleRow, CallRow, TupleRow, OtherRow, Row
  <2>2. Readable(temp, Top) /\ Len(values) = mid + 1 /\ Readable(temp, values[mid])
    BY <1>1, <2>1 DEF Holds, Is, Top
  <2>3. Len(values) - 1 = mid
    BY <2>2
  <2>4. t = Top \/ t = values[mid]
    BY <1>4, <2>3 DEF Operands, Second
  <2>. QED BY <1>4, <2>2, <2>4
<1>5. CASE Step = "extract"
  <2>. DEFINE p == Entry.phase
  <2>1. \/ p = 0
        \/ p >= 1 /\ p % 2 = 0 /\ Expect(Entry) = "value" /\ Share(Entry) = "parts"
    BY <1>1, <1>2, <1>5, RowCases DEF AssigningRow, SimpleRow, CallRow, TupleRow, OtherRow, Row
  <2>2. PICK i \in Len(values) - (p \div 2) + 1..Len(values) : t = values[i]
    BY <1>5 DEF Operands
  <2>3. p # 0
    BY <1>1, <2>2
  <2>4. /\ Len(values) = mid + 1 /\ Readable(temp, values[Len(values)])
        /\ mid = lo + 1 + ((p - 1) \div 2) /\ \A j \in lo + 2..mid : Readable(temp, values[j])
    BY <1>1, <2>1, <2>3 DEF Is, Holds, Parts
  <2>5. i \in lo + 2..mid \/ i = Len(values)
    <3>1. p \in Nat /\ p >= 1 /\ p % 2 = 0
      BY <1>1, <2>1, <2>3
    <3>2. mid = lo + 1 + ((p - 1) \div 2) /\ Len(values) = mid + 1
      BY <2>4
    <3>. DEFINE a == p \div 2  b == (p - 1) \div 2
    <3>. HIDE DEF p
    <3>3. b = a - 1 /\ a \in Nat
      BY <3>1
    <3>5. mid = lo + 1 + b /\ Len(values) = mid + 1
      BY <3>2
    <3>. HIDE DEF a, b
    <3>4. Len(values) - a + 1 = lo + 2
      BY <3>3, <3>5
    <3>. USE DEF a, b
    <3>. QED BY <2>2, <3>2, <3>4 DEF p
  <2>. QED BY <1>5, <2>2, <2>4, <2>5
<1>6. CASE Step \notin {"unary", "decide", "choose", "increment", "process", "end", "operator",
                        "binary", "logical", "extract"}
  BY <1>6 DEF Operands
<1>. QED BY <1>3, <1>4, <1>5, <1>6

LEMMA FitsOperands ==
  ASSUME Fitted, Scoped
  PROVE  OperandsLocked
<1>. SUFFICES ASSUME Active, stack # <<>>, NEW t \in Operands, t.kind = "ref"
              PROVE  t.name \in locked
  BY DEF OperandsLocked
<1>1. Ready
  BY IsReady DEF Active
<1>2. Readable(temp, t) /\ Step # "RestoreTemporaryLock"
  BY <1>1, OperandsReadable
<1>3. Doing(Step)
  BY DEF Doing
<1>4. temp \subseteq locked
  BY <1>2, <1>3, Working
<1>. QED BY <1>2, <1>4 DEF Readable

\* Each tuple under way is on values, what lies there are temporaries, and the variables
\* have values, whatever the expression (Frame::values and Frame::subStack of Thread.cpp).
THEOREM StacksTyped ==
  ASSUME FunctionsTyped
  PROVE  Spec => [](Tidy => TypeOK)
<1>1. Inv => (Tidy => TypeOK)
  BY FitsTypes DEF Inv
<1>. QED BY <1>1, StacksFit, PTL

\* An operator reads no variable that it has not locked, whatever the expression and
\* whatever functions were called in between (restoreTemporaryLock() of Thread.cpp).
THEOREM OperandsAreLocked ==
  ASSUME FunctionsTyped
  PROVE  Spec => [](Tidy => OperandsLocked)
<1>1. Inv => (Tidy => OperandsLocked)
  BY FitsOperands DEF Inv
<1>. QED BY <1>1, StacksFit, PTL

\* At the end one value is left, and no tuple is under way.
LEMMA FitsOne ==
  ASSUME Fitted, Scoped, stack = <<>>
  PROVE  Len(values) = 1 /\ subStack = <<>>
<1>1. Stacked(<<>>, values, subStack, temp, FALSE)
  BY DEF Fitted, Scoped
<1>2. PICK lo \in Nat, d \in Nat :
        /\ Below(<<>>, values, subStack, temp, lo, d) /\ Len(subStack) = d
        /\ Is(values, temp, Wanting(<<>>), lo, Len(values))
  BY <1>1 DEF Stacked, Formed
<1>3. lo = 0 /\ d = 0
  <2>1. Len(<<>>) = 0
    BY ShortSeqs
  <2>2. PICK base, depth : /\ Layout(<<>>, 0, values, subStack, temp, base, depth)
                           /\ base[0 + 1] = lo /\ depth[0 + 1] = d
    BY <1>2, <2>1 DEF Below
  <2>. QED BY <2>2 DEF Layout
<1>4. Wanting(<<>>) = "value"
  BY ShortSeqs DEF Wanting, ExpectOf
<1>5. Len(values) = 1
  BY <1>2, <1>3, <1>4 DEF Is
<1>6. subStack = <<>>
  BY <1>1, <1>2, <1>3, SeqFacts DEF Stacked
<1>. QED BY <1>5, <1>6

\* What an expression leaves on values is one temporary, its value, whatever the expression:
\* the statements that take it, and chatra_assert(f.values.size() == 1) of Thread.cpp.
THEOREM LeavesOneValue ==
  ASSUME FunctionsTyped
  PROVE  Spec => []OneValueLeft
<1>1. Inv => OneValueLeft
  BY FitsOne DEF Inv, OneValueLeft
<1>. QED BY <1>1, StacksFit, PTL
=============================================================================
