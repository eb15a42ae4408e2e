---------------------------- MODULE Expressions ----------------------------
(***************************************************************************)
(* The evaluation of an expression (chatra_core/Thread.cpp):               *)
(* resumeExpression() works on two stacks of the frame, one of nodes with  *)
(* the phase each has reached and one of temporaries.  Whenever a variable *)
(* is locked by another thread, or a function is called, it returns, and   *)
(* is called again later to go on from the phase reached.                  *)
(*                                                                         *)
(* Temporaries are unevaluated as long as possible: a name, or a name with *)
(* the arguments below it, stands for itself until an operator wants its   *)
(* value; a variable stands for itself until the operator reads it.        *)
(***************************************************************************)
EXTENDS Arithmetic, Sequences

CONSTANTS
  Node,           \* the nodes that the parser makes of expressions
  Expression,     \* the expressions considered
  Name,           \* the names in them
  Function,       \* those that are functions, too
  Setter,         \* the functions that can be assigned to
  InitialValue(_), \* the variables at the beginning
  Body(_, _, _, _), \* what a function does: name, arguments, what is assigned, variables
  MaxContentions  \* bound on the locks that are held by another thread

VARIABLES
  expression,  \* the expression that is evaluated
  stack,       \* Frame::stack: nodes with their phases
  values,      \* Frame::values
  subStack,    \* Frame::subStack: where the tuples under way are in values
  vars,        \* the variables in scope and their values
  locked,      \* the variables locked for this frame
  temp,        \* Lock::refs[Temporary], which a call releases and then restores
  called,      \* the call under way, or NoCall
  suspended,   \* the variable this thread waits for, or None
  contentions, \* how often a lock was held by another thread
  result,      \* the value or exception in the end, or Pending
  relocked,    \* history: a lock was taken that is held, but is not known to the frame
  littered     \* history: a value was left on values that belongs to no node

state == <<expression, stack, values, subStack, vars, locked, temp, called,
           suspended, contentions, result, relocked, littered>>
history == <<relocked, littered>>

None == "none"

(* Values of the script.                                                   *)
IntOf(n) == [t |-> "int", v |-> n]
BoolOf(b) == [t |-> "bool", v |-> IF b THEN 1 ELSE 0]
Null == [t |-> "null", v |-> 0]
TupleOf(es) == [t |-> "tuple", es |-> es]
Undefined == [t |-> "undefined", v |-> 0]
IsTrue(v) == v.v = 1

\* What a variable may have; a function may have a name in common with one.
Primitive == {IntOf(n) : n \in Ints} \cup {BoolOf(b) : b \in BOOLEAN} \cup {Null, Undefined}
ASSUME NameAssumption ==
  /\ Setter \subseteq Function /\ Function \subseteq Name /\ None \notin Name
  /\ \A n \in Name : InitialValue(n) \in Primitive

Pending == [ex |-> "pending", v |-> Null]
NoCall == [fn |-> None, args |-> <<>>, set |-> Null]

(* Temporaries (TemporaryObject, TemporaryTuple).                          *)
Rvalue(v) == [kind |-> "rvalue", v |-> v, args |-> FALSE]
NameTemp(n) == [kind |-> "name", name |-> n, args |-> FALSE]
RefTemp(n) == [kind |-> "ref", name |-> n, args |-> FALSE]
TupleTemp(parts) == [kind |-> "tuple", parts |-> parts, args |-> FALSE]
MapTemp == [kind |-> "map", args |-> FALSE]

Unary == {"UnaryMinus", "LogicalNot"}
Binary == {"Addition", "Division", "LessThan", "EqualTo", "LogicalXor"}
Increments == {"PrefixIncrement", "PostfixIncrement"}
Compounds == {"AdditionAssignment"}
Logicals == {"LogicalAnd", "LogicalOr"}
Assigning == {"Assignment", "Pair"} \cup Compounds \cup Increments

\* What the parser makes: operators have their operands, a call the arguments in a tuple,
\* a definition a name.
Arity(op) ==
  CASE op \in {"Literal", "Name"} -> 0
    [] op \in Unary \cup Increments \cup {"Parenthesis"} -> 1
    [] op = "Conditional" -> 3
    [] OTHER -> 2
ASSUME NodeAssumption ==
  /\ Expression \subseteq Node
  /\ \A n \in Node :
       /\ n.op \in {"Literal", "Name", "Parenthesis", "Conditional", "Call", "Tuple"}
                   \cup Unary \cup Binary \cup Logicals \cup Assigning
       /\ n.subNodes \in Seq(Node)
       /\ n.op # "Tuple" => Len(n.subNodes) = Arity(n.op)
       /\ n.op = "Call" => n.subNodes[2].op = "Tuple"
       /\ n.op = "Pair" => n.subNodes[1].op = "Name"
       /\ n.op = "Name" => n.sid \in Name
       /\ n.op = "Literal" => n.value \in Primitive

Marker(op) == [op |-> op, subNodes |-> <<>>]
At0(node) == [node |-> node, phase |-> 0]

(* Phases of an operator, by what is done in each.                         *)
ProcessPhase == 6
ReferencePhase == 10
MethodPhase == 20
TuplePhase == 40
Phases(op) ==
  CASE op \in Unary -> <<"left", "value", "unary">>
    [] op \in Binary -> <<"left", "value", "right", "value", "binary">>
    [] op \in Logicals -> <<"left", "value", "decide", "value", "logical">>
    [] op = "Conditional" -> <<"left", "value", "choose">>
    [] op = "Call" -> <<"right", "value", "left", "callee", "call">>
    [] op = "Expression" -> <<"value", "end">>
    [] op \in Increments -> <<"left", "duplicate", "value", "increment">>
    [] op \in Compounds -> <<"left", "duplicate", "value", "right", "value", "operator">>
    [] op \in {"Assignment", "Pair"} -> <<"left", "right", "value", "process">>
    [] OTHER -> <<op>>

Entry == stack[Len(stack)]
StepOf(entry) ==
  LET op == entry.node.op  p == entry.phase
  IN  CASE op = "Tuple" -> IF p = 0 THEN "tuple" ELSE "element"
        [] op = "EvaluateTuple" -> IF p % 2 = 0 THEN "extract" ELSE "value"
        [] op \in Assigning /\ p >= TuplePhase ->
             <<"next", "destination", "kind", "assign">>[1 + ((p - TuplePhase) % 4)]
        [] op \in Assigning /\ p \in ProcessPhase..TuplePhase - 1 ->
             CASE p = ReferencePhase -> "reference" [] p = MethodPhase -> "method"
               [] OTHER -> <<"process", "destination", "kind">>[1 + p - ProcessPhase]
        [] OTHER -> Phases(op)[p + 1]
Step == StepOf(Entry)

\* No assignment to a tuple has left anything on values.
Tidy == ~relocked /\ ~littered

Active == result = Pending /\ suspended = None /\ called = NoCall
Doing(step) == Active /\ stack # <<>> /\ Step = step

(* The two stacks.                                                         *)
Top == values[Len(values)]
Second == values[Len(values) - 1]
WithoutTop(n) == SubSeq(values, 1, Len(values) - n)
ToPhase(p) == [stack EXCEPT ![Len(stack)].phase = p]
Advanced == ToPhase(Entry.phase + 1)
Finished == SubSeq(stack, 1, Len(stack) - 1)
SubNode(i) == At0(Entry.node.subNodes[i])

IsReadable(t) == t.kind \in {"rvalue", "ref"} /\ ~t.args
Read(t) == IF t.kind = "ref" THEN vars[t.name] ELSE t.v

Raise(ex) ==
  /\ result' = [ex |-> ex, v |-> Null]
  /\ UNCHANGED <<expression, stack, values, subStack, vars, locked, temp, called,
                 suspended, contentions, history>>

\* What most phases change
Stacks(s, v) ==
  /\ stack' = s /\ values' = v
  /\ UNCHANGED <<expression, subStack, vars, locked, temp, called, suspended, contentions,
                 result, history>>

------------------------------------------------------------------------------
\* prepareExpression()
Init ==
  /\ expression \in Expression
  /\ stack = <<At0(Marker("Expression")), At0(expression)>>
  /\ values = <<>> /\ subStack = <<>>
  /\ vars = [n \in Name |-> InitialValue(n)]
  /\ locked = {} /\ temp = {}
  /\ called = NoCall /\ suspended = None /\ contentions = 0
  /\ result = Pending /\ relocked = FALSE /\ littered = FALSE

------------------------------------------------------------------------------
(* Leaves and operands.                                                    *)

Literal == Doing("Literal") /\ Stacks(Finished, Append(values, Rvalue(Entry.node.value)))
NameOperand == Doing("Name") /\ Stacks(Finished, Append(values, NameTemp(Entry.node.sid)))
Parenthesis == Doing("Parenthesis") /\ Stacks(Append(Finished, SubNode(1)), values)

\* The first operand; a definition adds its name to the scope first.
Left ==
  /\ Doing("left")
  /\ LET n == Entry.node.subNodes[1].sid
         defines == Entry.node.op = "Pair" /\ vars[n] = Undefined
     IN  /\ vars' = IF defines THEN [vars EXCEPT ![n] = Null] ELSE vars
         /\ locked' = IF defines THEN locked \cup {n} ELSE locked
  /\ stack' = Append(Advanced, SubNode(1))
  /\ UNCHANGED <<expression, values, subStack, temp, called, suspended, contentions, result, history>>

Right == Doing("right") /\ Stacks(Append(Advanced, SubNode(2)), values)

\* Frame::duplicateTop()
Duplicate ==
  Doing("duplicate") /\ Stacks(Advanced, values \o (IF Top.args THEN <<Second>> ELSE <<>>) \o <<Top>>)

------------------------------------------------------------------------------
(* The value of the temporary on top: evaluateValue().                     *)

Evaluating == Doing("value") \/ (Doing("callee") /\ Top.args)

\* TemporaryObject::evaluate(): a variable, or an error
Resolve ==
  /\ Evaluating /\ Top.kind = "name" /\ ~(Top.args /\ Top.name \in Function)
  /\ IF Top.name \in Name /\ vars[Top.name] # Undefined
       THEN Stacks(stack, Append(WithoutTop(1), [Top EXCEPT !.kind = "ref"]))
       ELSE Raise("MemberNotFoundException")

\* Nothing of this script can be called as a value; a tuple has no methods.
CallOfValue ==
  /\ Evaluating /\ Top.kind \in {"rvalue", "ref", "tuple"} /\ Top.args
  /\ Top.kind = "ref" => Top.name \in locked
  /\ Raise(CASE Top.kind = "tuple" -> "MemberNotFoundException"
            [] Read(Top).t = "tuple" -> "MemberNotFoundException"
            [] Read(Top) = Null -> "NullReferenceException"
            [] OTHER -> "UnsupportedOperationException")

\* A value, or a variable that is locked
Evaluated ==
  /\ Evaluating /\ IsReadable(Top)
  /\ Top.kind = "ref" => Top.name \in locked
  /\ stack' = Advanced
  /\ temp' = IF Top.kind = "ref" THEN temp \cup {Top.name} ELSE temp
  /\ UNCHANGED <<expression, values, subStack, vars, locked, called, suspended, contentions, result, history>>

Callee == Doing("callee") /\ ~Top.args /\ Stacks(Advanced, values)

EvaluateTuple ==
  /\ Evaluating /\ Top.kind = "tuple" /\ ~Top.args
  /\ Stacks(Append(Advanced, At0(Marker("EvaluateTuple"))), values)

\* The tuple that evaluateTuple() works on, and its next part
Extract ==
  /\ Doing("extract")
  /\ LET position == Entry.phase \div 2
         at == Len(values) - position
         parts == values[at].parts
         taken == [values EXCEPT ![at].parts[position + 1] = <<>>]
     IN  IF \E i \in at + 1..Len(values) : Read(values[i]).t = "tuple" /\ Len(Read(values[i]).es) # 1
           THEN Raise("UnsupportedOperationException")
           ELSE IF position < Len(parts) THEN Stacks(Advanced, taken \o parts[position + 1])
           ELSE Stacks(Finished, Append(SubSeq(values, 1, at - 1),
                  Rvalue(TupleOf([i \in 1..Len(parts) |->
                    IF Read(values[at + i]).t = "tuple" THEN Read(values[at + i]).es[1]
                    ELSE Read(values[at + i])]))))

------------------------------------------------------------------------------
(* Locks and calls.                                                        *)

\* The variables whose locks the phase takes: lockReference(), restoreTemporaryLock()
Wanted ==
  CASE Evaluating /\ Top.kind = "ref" -> {Top.name}
    [] Step = "reference" -> {Second.name}
    [] Step = "assign" /\ Top.kind = "ref" -> {Top.name}
    [] Step = "RestoreTemporaryLock" -> temp
    [] OTHER -> {}

\* A variable that is assigned to in a tuple, counted from 0, and its value
Position == (Entry.phase - TuplePhase) \div 4
SourceAt(position) ==
  LET es == values[subStack[Len(subStack)]].v.es
  IN  IF position < Len(es) THEN es[position + 1] ELSE Null

\* Another thread holds the lock: resumeExpression() returns in the middle of the phase.
\* In a tuple, the value to assign is on the stack by then.
Suspend ==
  /\ Active /\ stack # <<>> /\ contentions < MaxContentions
  /\ \E n \in Wanted \ locked : suspended' = n
  /\ contentions' = contentions + 1
  /\ values' = IF Step = "assign" THEN Append(values, Rvalue(SourceAt(Position))) ELSE values
  /\ UNCHANGED <<expression, stack, subStack, vars, locked, temp, called, result, history>>

\* Mutant of Grant: the lock is given, but the thread is not woken.
GrantWithoutWaking ==
  /\ suspended # None
  /\ locked' = locked \cup {suspended} /\ temp' = temp \cup {suspended} /\ suspended' = suspended
  /\ UNCHANGED <<expression, stack, values, subStack, vars, called, contentions, result, history>>

\* checkTransferReq() of the holder
Grant ==
  /\ suspended # None
  /\ locked' = locked \cup {suspended} /\ temp' = temp \cup {suspended} /\ suspended' = None
  /\ UNCHANGED <<expression, stack, values, subStack, vars, called, contentions, result, history>>

\* lockReference() when no one holds the lock
TakeLock ==
  /\ Active /\ stack # <<>>
  /\ \E n \in Wanted \ locked : locked' = locked \cup {n} /\ temp' = temp \cup {n}
  /\ UNCHANGED <<expression, stack, values, subStack, vars, called, suspended, contentions, result, history>>

\* methodCall(), Lock::prepareToMethodCall(): the locks are released, the temporary ones
\* remembered.
MethodCall(fn, args, set, rest, then) ==
  /\ called' = [fn |-> fn, args |-> args.v.es, set |-> set]
  /\ values' = rest /\ stack' = then
  /\ locked' = {}
  /\ UNCHANGED <<expression, subStack, vars, temp, suspended, contentions, result, relocked>>

Call ==
  /\ Evaluating /\ Top.kind = "name" /\ Top.args /\ Top.name \in Function
  /\ MethodCall(Top.name, Second, Null, WithoutTop(2), Advanced) /\ UNCHANGED littered

\* returnStatement() of the function and pop(), which has the locks restored first, or
\* its exception
Returns ==
  /\ called # NoCall /\ result = Pending
  /\ LET r == Body(called.fn, called.args, called.set, vars)
     IN  /\ vars' = r.vars
         /\ result' = IF r.ex = None THEN Pending ELSE [ex |-> r.ex, v |-> Null]
         /\ values' = Append(values, Rvalue(r.v))
  /\ stack' = Append(stack, At0(Marker("RestoreTemporaryLock")))
  /\ called' = NoCall
  /\ UNCHANGED <<expression, subStack, locked, temp, suspended, contentions, history>>

\* Mutant of RestoreTemporaryLock: one lock is restored.
RestoreOneLock ==
  Doing("RestoreTemporaryLock") /\ (temp = {} \/ temp \cap locked # {}) /\ Stacks(Finished, values)

RestoreTemporaryLock ==
  Doing("RestoreTemporaryLock") /\ temp \subseteq locked /\ Stacks(Finished, values)

------------------------------------------------------------------------------
(* Operators.                                                              *)

\* The operator is left with its value.
Yield(n, r) ==
  IF r.ex # None THEN Raise(r.ex) ELSE Stacks(Finished, Append(WithoutTop(n), Rvalue(r.v)))

Good(v) == [ex |-> None, v |-> v]
Bad(ex) == [ex |-> ex, v |-> Null]
OfInt(r) == [ex |-> r.ex, v |-> IntOf(r.v)]

\* standardUnaryOperator()
UnaryValue(op, a) ==
  CASE a.t = "bool" -> Good(BoolOf(~IsTrue(a)))
    [] a.t = "int" /\ op = "UnaryMinus" -> OfInt(UnaryMinus(a.v))
    [] OTHER -> Bad("UnsupportedOperationException")

\* standardBinaryOperator(), comparisonOperator(), equalityOperator()
BinaryValue(op, a, b) ==
  LET ints == a.t = "int" /\ b.t = "int"
      bools == a.t = "bool" /\ b.t = "bool"
  IN  CASE op = "Addition" /\ ints -> OfInt(Addition(a.v, b.v))
        [] op = "Addition" /\ bools -> Good(BoolOf(IsTrue(a) \/ IsTrue(b)))
        [] op = "Division" /\ ints -> OfInt(Division(a.v, b.v))
        [] op = "LessThan" /\ (ints \/ bools) -> Good(BoolOf(a.v < b.v))
        [] op = "EqualTo" /\ (ints \/ bools) -> Good(BoolOf(a.v = b.v))
        [] op = "EqualTo" /\ (a = Null \/ b = Null) -> Good(BoolOf(a = b))
        [] op = "LogicalXor" /\ bools -> Good(BoolOf(a # b))
        [] OTHER -> Bad("UnsupportedOperationException")

UnaryOperator == Doing("unary") /\ Yield(1, UnaryValue(Entry.node.op, Read(Top)))
BinaryOperator == Doing("binary") /\ Yield(2, BinaryValue(Entry.node.op, Read(Second), Read(Top)))

\* logicalOperator(): the right operand is evaluated if the left one has not decided.
Decide ==
  /\ Doing("decide")
  /\ IF Read(Top).t # "bool" THEN Raise("UnsupportedOperationException")
     ELSE IF IsTrue(Read(Top)) = (Entry.node.op = "LogicalAnd") THEN Stacks(Append(Advanced, SubNode(2)), values)
     ELSE Yield(1, Good(Read(Top)))

LogicalOperator ==
  /\ Doing("logical")
  /\ Yield(2, IF Read(Top).t # "bool" THEN Bad("UnsupportedOperationException")
              ELSE LET l == IsTrue(Read(Second))  r == IsTrue(Read(Top))
                   IN  Good(BoolOf(IF Entry.node.op = "LogicalAnd" THEN l /\ r ELSE l \/ r)))

Choose ==
  /\ Doing("choose")
  /\ IF Read(Top).t # "bool" THEN Raise("TypeMismatchException")
     ELSE Stacks(Append(Finished, SubNode(IF IsTrue(Read(Top)) THEN 2 ELSE 3)), WithoutTop(1))

\* callOperator(): the arguments stay below what is called.
AddArguments ==
  Doing("call") /\ Stacks(Finished, Append(WithoutTop(1), [Top EXCEPT !.args = TRUE]))

\* tupleOperator(): parts are captured as they are, with the arguments below them.
BeginTuple ==
  /\ Doing("tuple")
  /\ subStack' = Append(subStack, Len(values) + 1)
  /\ values' = Append(values, TupleTemp(<<>>)) /\ stack' = Advanced
  /\ UNCHANGED <<expression, vars, locked, temp, called, suspended, contentions, result, history>>

TupleElement ==
  /\ Doing("element")
  /\ LET position == (Entry.phase - 1) \div 8
         at == subStack[Len(subStack)]
     IN  IF position = Len(Entry.node.subNodes)
           THEN /\ stack' = Finished /\ subStack' = SubSeq(subStack, 1, Len(subStack) - 1)
                /\ UNCHANGED values
           ELSE /\ UNCHANGED subStack
                /\ IF (Entry.phase - 1) % 8 = 0
                     THEN stack' = Append(Advanced, SubNode(position + 1)) /\ UNCHANGED values
                     ELSE /\ stack' = ToPhase(1 + 8 * (position + 1))
                          /\ values' = [SubSeq(values, 1, at) EXCEPT ![at].parts =
                                          Append(@, SubSeq(values, at + 1, Len(values)))]
  /\ UNCHANGED <<expression, vars, locked, temp, called, suspended, contentions, result, history>>

------------------------------------------------------------------------------
(* Assignments.                                                            *)

\* What x++ makes of a value
Incremented(a) ==
  CASE a.t = "int" -> OfInt(Increment(a.v))
    [] a.t = "bool" -> Good(BoolOf(TRUE))
    [] OTHER -> Bad("UnsupportedOperationException")

\* Mutant of IncrementOperator: what x++ leaves below is the variable, not its old value.
IncrementCopiesReference ==
  /\ Doing("increment")
  /\ LET old == Read(Top)
         new == Incremented(old)
         at == Len(values) - (IF Second.args THEN 3 ELSE 2)
         copied == SubSeq(values, 1, at) \o <<[Top EXCEPT !.args = FALSE]>> \o SubSeq(values, at + 1, Len(values))
         vs == IF Entry.node.op = "PrefixIncrement" THEN values ELSE copied
         marked == IF Entry.node.op = "PrefixIncrement" THEN <<>> ELSE <<At0(Marker("PostPostfix"))>>
     IN  IF new.ex # None THEN Raise(new.ex)
         ELSE /\ stack' = Finished \o marked \o <<[Entry EXCEPT !.phase = ProcessPhase]>>
              /\ values' = IF Top.kind = "ref" THEN vs ELSE [vs EXCEPT ![Len(vs)].v = new.v]
              /\ vars' = IF Top.kind = "ref" THEN [vars EXCEPT ![Top.name] = new.v] ELSE vars
              /\ UNCHANGED <<expression, subStack, locked, temp, called, suspended, contentions,
                             result, history>>
\* unaryAssignmentOperator(): the value is changed where it is, then assigned.
IncrementOperator ==
  /\ Doing("increment")
  /\ LET old == Read(Top)
         new == Incremented(old)
         at == Len(values) - (IF Second.args THEN 3 ELSE 2)
         copied == SubSeq(values, 1, at) \o <<Rvalue(old)>> \o SubSeq(values, at + 1, Len(values))
         vs == IF Entry.node.op = "PrefixIncrement" THEN values ELSE copied
         marked == IF Entry.node.op = "PrefixIncrement" THEN <<>> ELSE <<At0(Marker("PostPostfix"))>>
     IN  IF new.ex # None THEN Raise(new.ex)
         ELSE /\ stack' = Finished \o marked \o <<[Entry EXCEPT !.phase = ProcessPhase]>>
              /\ values' = IF Top.kind = "ref" THEN vs ELSE [vs EXCEPT ![Len(vs)].v = new.v]
              /\ vars' = IF Top.kind = "ref" THEN [vars EXCEPT ![Top.name] = new.v] ELSE vars
              /\ UNCHANGED <<expression, subStack, locked, temp, called, suspended, contentions,
                             result, history>>

\* Mutant of PostPostfix: the new value stays above the old one.
PostPostfixKeepsValue == Doing("PostPostfix") /\ Stacks(Finished, values)

PostPostfix == Doing("PostPostfix") /\ Stacks(Finished, WithoutTop(1))

\* assignmentOperator(op): the operator itself, on values that are there
CompoundOperator ==
  /\ Doing("operator")
  /\ Stacks(Append(ToPhase(ProcessPhase), [node |-> Marker("Addition"), phase |-> 4]), values)

\* Tuples go to tuples, and one value to one variable.  The arguments of a tuple are left
\* on values.
Process ==
  /\ Doing("process")
  /\ LET toTuple == Second.kind = "tuple"  v == Read(Top)
     IN  IF v.t = "tuple" /\ ~toTuple
           THEN IF Len(v.es) # 1 THEN Raise("UnsupportedOperationException")
                ELSE Stacks(ToPhase(ProcessPhase + 1), Append(WithoutTop(1), Rvalue(v.es[1])))
         ELSE IF toTuple /\ v.t # "tuple" THEN Raise("UnsupportedOperationException")
         ELSE IF ~toTuple THEN Stacks(ToPhase(ProcessPhase + 1), values)
         ELSE /\ stack' = ToPhase(TuplePhase) /\ values' = Append(values, MapTemp)
              /\ subStack' = Append(subStack, Len(values))
              /\ littered' = (littered \/ Second.args)
              /\ UNCHANGED <<expression, vars, locked, temp, called, suspended, contentions, result,
                             relocked>>

\* Where what is assigned to is: below the value, or on top of a tuple that is assigned
InTuple == Entry.phase >= TuplePhase
DestinationAt == Len(values) - (IF InTuple THEN 0 ELSE 1)

\* evaluateAndAllocateForAssignment(): a name that is not found is added to the scope.
Destination ==
  /\ Doing("destination")
  /\ LET d == values[DestinationAt]  isNew == vars[d.name] = Undefined
     IN  IF d.args /\ (d.kind # "name" \/ d.name \notin Function) THEN Raise("UnsupportedOperationException")
         ELSE /\ stack' = Advanced
              /\ values' = IF d.kind # "name" THEN values
                           ELSE [values EXCEPT ![DestinationAt] =
                                  [d EXCEPT !.kind = IF d.args THEN "method" ELSE "ref"]]
              /\ vars' = IF d.kind = "name" /\ ~d.args /\ isNew THEN [vars EXCEPT ![d.name] = Null] ELSE vars
              /\ locked' = IF d.kind = "name" /\ ~d.args /\ isNew THEN locked \cup {d.name} ELSE locked
              /\ UNCHANGED <<expression, subStack, temp, called, suspended, contentions, result, history>>

Kind ==
  /\ Doing("kind")
  /\ LET d == values[DestinationAt]
         settable == d.kind = "method" /\ d.name \in Setter /\ (InTuple => SourceAt(Position) # Null)
     IN  IF d.kind # "ref" /\ ~settable THEN Raise("UnsupportedOperationException")
         ELSE Stacks(IF InTuple THEN Advanced
                     ELSE ToPhase(IF d.kind = "ref" THEN ReferencePhase ELSE MethodPhase), values)

AssignReference ==
  /\ Doing("reference") /\ Second.name \in locked
  /\ vars' = [vars EXCEPT ![Second.name] = Read(Top)]
  /\ temp' = temp \cup {Second.name}
  /\ values' = WithoutTop(1) /\ stack' = Finished
  /\ UNCHANGED <<expression, subStack, locked, called, suspended, contentions, result, history>>

AssignByMethod ==
  /\ Doing("method") /\ UNCHANGED littered
  /\ MethodCall(Second.name, values[Len(values) - 2], Read(Top), WithoutTop(3), Finished)

\* The parts of a tuple one by one; the value of the assignment is null.
NextPart ==
  /\ Doing("next")
  /\ LET at == subStack[Len(subStack)] - 1  parts == values[at].parts
     IN  IF Position < Len(parts)
           THEN /\ stack' = Advanced /\ UNCHANGED subStack
                /\ values' = [values EXCEPT ![at].parts[Position + 1] = <<>>] \o parts[Position + 1]
           ELSE /\ stack' = Finished /\ subStack' = SubSeq(subStack, 1, Len(subStack) - 1)
                /\ values' = Append(WithoutTop(3), Rvalue(Null))
  /\ UNCHANGED <<expression, vars, locked, temp, called, suspended, contentions, result, history>>

NextPhase == ToPhase(TuplePhase + 4 * (Position + 1))

AssignPart ==
  /\ Doing("assign") /\ Top.kind = "ref" /\ Top.name \in locked
  /\ vars' = [vars EXCEPT ![Top.name] = SourceAt(Position)]
  /\ temp' = temp \cup {Top.name}
  /\ values' = WithoutTop(1) /\ stack' = NextPhase
  /\ UNCHANGED <<expression, subStack, locked, called, suspended, contentions, result, history>>

\* After a lock that was waited for, the value left on the stack is taken for the variable.
AssignAgain ==
  /\ Doing("assign") /\ Top.kind = "rvalue"
  /\ relocked' = TRUE
  /\ values' = WithoutTop(1) /\ stack' = NextPhase
  /\ UNCHANGED <<expression, subStack, vars, locked, temp, called, suspended, contentions, result,
                 littered>>

\* What the function returns is left on values.
AssignPartByMethod ==
  /\ Doing("assign") /\ Top.kind = "method" /\ littered' = TRUE
  /\ MethodCall(Top.name, Second, SourceAt(Position), WithoutTop(2), NextPhase)

------------------------------------------------------------------------------
EndOfExpression == Doing("end") /\ Stacks(Finished, values)

End ==
  /\ Active /\ stack = <<>>
  /\ result' = Good(Read(Top))
  /\ UNCHANGED <<expression, stack, values, subStack, vars, locked, temp, called, suspended,
                 contentions, history>>

Next ==
  \/ Literal \/ NameOperand \/ Parenthesis \/ Left \/ Right \/ Duplicate
  \/ Resolve \/ CallOfValue \/ Evaluated \/ Callee \/ EvaluateTuple \/ Extract
  \/ Suspend \/ Grant \/ TakeLock \/ Call \/ Returns \/ RestoreTemporaryLock
  \/ UnaryOperator \/ BinaryOperator \/ Decide \/ LogicalOperator \/ Choose
  \/ AddArguments \/ BeginTuple \/ TupleElement
  \/ IncrementOperator \/ PostPostfix \/ CompoundOperator
  \/ Process \/ Destination \/ Kind \/ AssignReference \/ AssignByMethod
  \/ NextPart \/ AssignPart \/ AssignAgain \/ AssignPartByMethod \/ EndOfExpression
  \/ End
  \/ result # Pending /\ UNCHANGED state  \* has ended

Spec == Init /\ [][Next]_state
FairSpec == Spec /\ WF_state(Next)

------------------------------------------------------------------------------
\* The stacks: each tuple under way is on values, and a call has released the locks it
\* restores.
TypeOK ==
  /\ \A i \in DOMAIN subStack : subStack[i] \in 1..Len(values)
  /\ \A i \in DOMAIN values : values[i].kind \in {"rvalue", "name", "ref", "method", "tuple", "map"}
  /\ locked \cup temp \subseteq Name
  /\ suspended # None => suspended \in Name \ locked
  /\ called # NoCall => locked = {}
  /\ vars \in [Name -> Primitive]

\* The operands an operator reads are locked at that time, whatever calls have been in
\* between (restoreTemporaryLock()).
Operands ==
  CASE Step \in {"unary", "decide", "choose", "increment", "process", "end", "operator"} -> {Top}
    [] Step \in {"binary", "logical"} -> {Top, Second}
    [] Step = "extract" -> {values[i] : i \in Len(values) - (Entry.phase \div 2) + 1..Len(values)}
    [] OTHER -> {}
OperandsLocked ==
  Active /\ stack # <<>> => \A t \in Operands : t.kind = "ref" => t.name \in locked

\* What an expression leaves is its value and nothing else, as its statement asserts:
\* chatra_assert(f.values.size() == 1).
OneValueLeft == Tidy /\ stack = <<>> => Len(values) = 1 /\ subStack = <<>>
=============================================================================
