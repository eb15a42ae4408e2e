----------------------------- MODULE Denotation -----------------------------
(***************************************************************************)
(* What an expression means, whatever the stacks, the locks and the calls  *)
(* in between: the reference for Expressions.  An expression denotes       *)
(* something unevaluated (a name, a call, a tuple of these) and is forced  *)
(* when a value is wanted.  A state s has the variables and the exception  *)
(* there is; d is what has been denoted.                                   *)
(***************************************************************************)
EXTENDS Expressions

Says(s, d) == [vars |-> s.vars, ex |-> s.ex, d |-> d]
Throwing(s, ex) == [vars |-> s.vars, ex |-> ex, d |-> Rvalue(Null)]
Goes(s) == s.ex = None
Get(s, d) == IF d.kind = "ref" THEN s.vars[d.name] ELSE d.v
Gives(s, r) == IF r.ex # None THEN Throwing(s, r.ex) ELSE Says(s, Rvalue(r.v))

CallTemp(d, es) == [kind |-> "call", of |-> d, es |-> es, args |-> TRUE]
Scalar(v) == IF v.t = "tuple" THEN v.es[1] ELSE v
IsScalar(v) == v.t = "tuple" => Len(v.es) = 1

\* A function, with what is assigned to it
Applied(s, fn, es, set) ==
  LET r == Body(fn, es, set, s.vars)
  IN  [vars |-> r.vars, ex |-> r.ex, d |-> Rvalue(IF r.ex = None THEN r.v ELSE Null)]

RECURSIVE Denotes(_, _), Force(_, _), ForceAll(_, _, _), DenoteAll(_, _, _), AssignAll(_, _, _)

\* The value of what has been denoted, or the variable that has it
Force(s, d) ==
  CASE d.kind = "name" ->
         IF d.name \in Name /\ s.vars[d.name] # Undefined THEN Says(s, RefTemp(d.name))
         ELSE Throwing(s, "MemberNotFoundException")
    [] d.kind = "call" ->
         IF d.of.kind = "name" /\ d.of.name \in Function THEN Applied(s, d.of.name, d.es, Null)
         ELSE IF d.of.kind = "tuple" THEN Throwing(s, "MemberNotFoundException")
         ELSE LET o == Force(s, d.of)  v == Get(o, o.d)
              IN  IF ~Goes(o) THEN o
                  ELSE Throwing(o, CASE v.t = "tuple" -> "MemberNotFoundException"
                                     [] v = Null -> "NullReferenceException"
                                     [] OTHER -> "UnsupportedOperationException")
    [] d.kind = "tuple" -> ForceAll(s, d.parts, <<>>)
    [] OTHER -> Says(s, d)

\* The parts in turn; the variables among them are read when all are there.
ForceAll(s, parts, ds) ==
  IF parts = <<>> THEN Says(s, Rvalue(TupleOf([i \in DOMAIN ds |-> Scalar(Get(s, ds[i]))])))
  ELSE LET f == Force(s, Head(parts))
       IN  IF ~Goes(f) THEN f
           ELSE IF ~IsScalar(Get(f, f.d)) THEN Throwing(f, "UnsupportedOperationException")
           ELSE ForceAll(f, Tail(parts), Append(ds, f.d))

DenoteAll(s, ns, ds) ==
  IF ns = <<>> THEN Says(s, TupleTemp(ds))
  ELSE LET a == Denotes(s, Head(ns)) IN IF Goes(a) THEN DenoteAll(a, Tail(ns), Append(ds, a.d)) ELSE a

\* One value to one place
AssignOne(s, d, v) ==
  CASE d.kind \in {"name", "ref"} -> Says([s EXCEPT !.vars[d.name] = v], RefTemp(d.name))
    [] d.kind = "call" /\ d.of.kind = "name" /\ d.of.name \in Setter -> Applied(s, d.of.name, d.es, v)
    [] OTHER -> Throwing(s, "UnsupportedOperationException")

AssignAll(s, ds, vs) ==
  IF ds = <<>> THEN Says(s, Rvalue(Null))
  ELSE LET v == IF vs = <<>> THEN Null ELSE Head(vs)
           a == IF vs = <<>> /\ Head(ds).kind = "call" THEN Throwing(s, "UnsupportedOperationException")
                ELSE AssignOne(s, Head(ds), v)
       IN  IF Goes(a) THEN AssignAll(a, Tail(ds), IF vs = <<>> THEN <<>> ELSE Tail(vs)) ELSE a

Assigned(s, d, v) ==
  IF d.kind = "tuple" /\ v.t = "tuple" THEN AssignAll(s, d.parts, v.es)
  ELSE IF d.kind # "tuple" /\ IsScalar(v) THEN AssignOne(s, d, Scalar(v))
  ELSE Throwing(s, "UnsupportedOperationException")

\* A place that has been read gets a new value.
Modified(s, place, r) == IF r.ex # None THEN Throwing(s, r.ex) ELSE Assigned(s, place, r.v)

Connective(op, l, r) ==
  IF r.t # "bool" THEN Bad("UnsupportedOperationException")
  ELSE Good(BoolOf(IF op = "LogicalAnd" THEN IsTrue(l) /\ IsTrue(r) ELSE IsTrue(l) \/ IsTrue(r)))

\* An operand alone has the value: there is no other, it decides, or it cannot.
Decides(op, v) ==
  \/ op \in Unary \cup Increments
  \/ op \in Logicals /\ (v.t # "bool" \/ IsTrue(v) # (op = "LogicalAnd"))
  \/ op = "Conditional" /\ v.t # "bool"

OneOperand(s, op, place, d) ==
  LET v == Get(s, d)  c == Modified(s, place, Incremented(v))
  IN  CASE op \in Unary -> Gives(s, UnaryValue(op, v))
        [] op \in Increments -> IF Goes(c) /\ op = "PostfixIncrement" THEN Says(c, Rvalue(v)) ELSE c
        [] op \in Logicals /\ v.t = "bool" -> Says(s, Rvalue(v))
        [] op = "Conditional" -> Throwing(s, "TypeMismatchException")
        [] OTHER -> Throwing(s, "UnsupportedOperationException")

\* Both operands are read in the end.
TwoOperands(s, op, place, left, right) ==
  CASE op \in Binary -> Gives(s, BinaryValue(op, Get(s, left), Get(s, right)))
    [] op \in Logicals -> Gives(s, Connective(op, Get(s, left), Get(s, right)))
    [] op = "Conditional" -> Says(s, right)
    [] op = "Call" -> Says(s, CallTemp(right, Get(s, left).es))
    [] op \in Compounds -> Modified(s, place, BinaryValue("Addition", Get(s, left), Get(s, right)))
    [] OTHER -> Assigned(s, place, Get(s, right))

\* A place that is assigned to is not forced, nor what a condition has chosen; what is
\* called only if it is a call.
Forces(op, nth, d) ==
  CASE nth = 1 -> op \notin {"Assignment", "Pair"}
    [] op = "Conditional" -> FALSE
    [] op = "Call" -> d.kind = "call"
    [] OTHER -> TRUE
FirstOf(op) == IF op = "Call" THEN 2 ELSE 1
SecondOf(op, v) ==
  CASE op = "Call" -> 1 [] op = "Conditional" -> (IF IsTrue(v) THEN 2 ELSE 3) [] OTHER -> 2

Denotes(s, n) ==
  LET op == n.op
      new == op = "Pair" /\ s.vars[n.subNodes[1].sid] = Undefined
      s0 == IF new THEN [s EXCEPT !.vars[n.subNodes[1].sid] = Null] ELSE s
      p == Denotes(s0, n.subNodes[FirstOf(op)])
      a == IF Goes(p) /\ Forces(op, 1, p.d) THEN Force(p, p.d) ELSE p
      isLast == Forces(op, 1, p.d) /\ Decides(op, Get(a, a.d))
      q == Denotes(a, n.subNodes[IF op = "Conditional" THEN SecondOf(op, Get(a, a.d)) ELSE SecondOf(op, Null)])
      b == IF Goes(q) /\ Forces(op, 2, q.d) THEN Force(q, q.d) ELSE q
  IN  CASE op = "Literal" -> Says(s, Rvalue(n.value))
        [] op = "Name" -> Says(s, NameTemp(n.sid))
        [] op = "Parenthesis" -> Denotes(s, n.subNodes[1])
        [] op = "Tuple" -> DenoteAll(s, n.subNodes, <<>>)
        [] OTHER -> IF ~Goes(a) THEN a
                    ELSE IF isLast THEN OneOperand(a, op, p.d, a.d)
                    ELSE IF ~Goes(b) THEN b ELSE TwoOperands(b, op, p.d, a.d, b.d)

Start == [vars |-> [n \in Name |-> InitialValue(n)], ex |-> None]
Meaning ==
  LET d == Denotes(Start, expression)  a == IF Goes(d) THEN Force(d, d.d) ELSE d
  IN  [ex |-> a.ex, vars |-> a.vars, v |-> IF Goes(a) THEN Get(a, a.d) ELSE Null]

-----------------------------------------------------------------------------
\* However often the evaluation is interrupted, by calls or by locks that others hold, an
\* expression has the value, the effects on variables and the exception it means
\* (resumeExpression()); but for assignments to tuples that have lost a value.
Agrees ==
  result # Pending /\ ~relocked => [ex |-> result.ex, vars |-> vars, v |-> result.v] = Meaning

\* An evaluation whose locks are granted ends.
Terminates == <>(result # Pending)
=============================================================================
