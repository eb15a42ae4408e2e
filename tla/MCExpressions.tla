--------------------------- MODULE MCExpressions ---------------------------
(* Expressions on three variables, of which u is not in scope at first, and *)
(* four functions.                                                          *)
EXTENDS Denotation

InitialValueDef(n) ==
  CASE n = "b" -> BoolOf(TRUE) [] n \in {"x", "y"} -> IntOf(1) [] OTHER -> Undefined

\* f(a) is a, and f(a) = r sets y; bump() adds 1 to x and makes b false; two() returns two
\* values; fail() throws.
BodyDef(fn, args, set, vs) ==
  LET Returning(v, vs1) == [ex |-> None, v |-> v, vars |-> vs1]
  IN  CASE fn = "f" /\ set = Null -> Returning(IF args = <<>> THEN Null ELSE args[1], vs)
        [] fn = "f" -> Returning(Null, [vs EXCEPT !["y"] = set])
        [] fn = "bump" -> Returning(IntOf(2), [vs EXCEPT !["x"] = BinaryValue("Addition", IntOf(1),
                            IF @.t = "int" THEN @ ELSE IntOf(0)).v, !["b"] = BoolOf(FALSE)])
        [] fn = "two" -> Returning(TupleOf(<<IntOf(2), IntOf(3)>>), vs)
        [] fn = "fail" -> [ex |-> "E", v |-> Null, vars |-> vs]

Op1(op, a) == [op |-> op, subNodes |-> <<a>>]
Op2(op, a, b) == [op |-> op, subNodes |-> <<a, b>>]
NameNode(n) == [op |-> "Name", subNodes |-> <<>>, sid |-> n]
LiteralNode(n) == [op |-> "Literal", subNodes |-> <<>>, value |-> IntOf(n)]
TupleNode(ns) == [op |-> "Tuple", subNodes |-> ns]
CallNode(fn, args) == Op2("Call", NameNode(fn), TupleNode(args))

X == NameNode("x")
B == NameNode("b")
Operand == {X, NameNode("u"), LiteralNode(3), CallNode("f", <<X>>), CallNode("bump", <<>>)}
Condition == {B, Op2("LessThan", X, CallNode("bump", <<>>)), CallNode("bump", <<>>), Op1("LogicalNot", B),
              Op2("EqualTo", CallNode("bump", <<>>), X)}
Place == {X, NameNode("u"), CallNode("f", <<LiteralNode(1)>>), Op1("Parenthesis", X)}
Pairs == {CallNode("two", <<>>), TupleNode(<<CallNode("bump", <<>>), Op1("PostfixIncrement", X)>>),
          TupleNode(<<CallNode("f", <<CallNode("bump", <<>>)>>), X, LiteralNode(4)>>),
          TupleNode(<<CallNode("fail", <<>>), X>>), TupleNode(<<X>>)}

Simple == {Op2(op, a, b) : op \in Binary \ {"LogicalXor"}, a \in Operand, b \in Operand}
Assigned1 == UNION {
  {Op2(op, p, e) : op \in {"Assignment", "AdditionAssignment"}, p \in Place, e \in Operand},
  {Op2("Pair", n, e) : n \in {X, NameNode("u")}, e \in Operand \cup {Op2("Addition", NameNode("u"), X)}},
  {Op1(op, p) : op \in Increments, p \in Place}}
Logical == UNION {
  {Op2(op, a, b) : op \in {"LogicalAnd", "LogicalOr", "LogicalXor"}, a \in Condition, b \in Condition},
  {[op |-> "Conditional", subNodes |-> <<c, Op1("PrefixIncrement", X), CallNode("bump", <<>>)>>] : c \in Condition},
  {Op1("UnaryMinus", a) : a \in Operand \cup {B}}}
Tuples == UNION {
  {Op2("Assignment", TupleNode(<<p, q>>), e) : p \in Place, q \in Place, e \in Pairs},
  {Op2("Assignment", p, e) : p \in Place, e \in Pairs},
  {CallNode("f", <<e>>) : e \in Assigned1},
  {TupleNode(<<d, e>>) : d \in Operand, e \in {Op1("PostfixIncrement", X), CallNode("bump", <<>>)}}}
Deep == UNION {
  {Op2("Addition", e, X) : e \in Assigned1},
  {Op2("Addition", X, e) : e \in Assigned1},
  {Op2("Call", CallNode("f", <<e>>), TupleNode(<<X>>)) : e \in Operand},
  {Op2("Call", e, TupleNode(<<X>>)) : e \in {X, CallNode("two", <<>>), TupleNode(<<X, B>>)}},
  {Op2("Division", LiteralNode(3), Op2("Addition", X, LiteralNode(-1)))}}

RECURSIVE WithSubNodes(_)
WithSubNodes(n) == {n} \cup UNION {WithSubNodes(n.subNodes[i]) : i \in DOMAIN n.subNodes}

ExpressionSet == Simple \cup Assigned1 \cup Logical \cup Tuples \cup Deep
NodeSet == UNION {WithSubNodes(e) : e \in ExpressionSet}

\* What the proofs suppose of functions, on the arguments of these expressions
ASSUME FunctionsGiveValues ==
  \A fn \in Function, args \in {<<>>} \cup {<<a>> : a \in Primitive}, set \in Primitive :
    LET r == Body(fn, args, set, [n \in Name |-> InitialValue(n)])
    IN  /\ r.vars \in [Name -> Primitive]
        /\ r.v \in Primitive \/ (r.v = TupleOf(r.v.es) /\ \A i \in DOMAIN r.v.es : r.v.es[i] \in Primitive)
=============================================================================
