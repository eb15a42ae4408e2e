----------------------------- MODULE Operators -----------------------------
(***************************************************************************)
(* How an expression is parsed (parseExpression() of                       *)
(* chatra_core/Parser.cpp): its tokens become nodes, and the patterns of   *)
(* each group of operators, from the tightest, replace the nodes they      *)
(* match by one, scanning the nodes from left to right or from right to    *)
(* left.  A token is a name, an operator, or what is between two brackets. *)
(***************************************************************************)
EXTENDS Naturals, Sequences, SequencesExt, FiniteSetsExt

Name(n) == [type |-> "Name", op |-> n, subs |-> <<>>]
Token(op) == [type |-> "Unknown", op |-> op, subs |-> <<>>]
Bracket(b, tokens) == [type |-> "Bracket", op |-> b, subs |-> tokens]
Node(op, subs) == [type |-> "Operator", op |-> op, subs |-> subs]
Null == Name("null")
Brackets == {"()", "[]", "{}"}

\* The kinds of a pattern's elements that are not tokens; "(v)" is OpPt::ParenthesisWithValue.
Operands == {"E", "NameChain", "(v)"} \cup Brackets

Pattern(op, elements) == [op |-> op, elements |-> elements]
Binary(ops) == [i \in DOMAIN ops |-> Pattern(ops[i], <<"E", ops[i], "E">>)]
Prefix(ops) == [i \in DOMAIN ops |-> Pattern("prefix " \o ops[i], <<ops[i], "E">>)]
Postfix(ops) == [i \in DOMAIN ops |-> Pattern("postfix " \o ops[i], <<"E", ops[i]>>)]

\* opPatterns: the operators in order of precedence
LeftToRight(patterns) == [leftToRight |-> TRUE, patterns |-> patterns]
RightToLeft(patterns) == [leftToRight |-> FALSE, patterns |-> patterns]
OpPatterns ==
  << LeftToRight(
       << Pattern("Container", <<"NameChain", "()", "{}">>), Pattern("Container", <<"NameChain", "{}">>),
          Pattern("Container", <<"{}">>), Pattern("Subscript", <<"E", "[]">>), Pattern("Call", <<"E", "()">>),
          Pattern("Parenthesis", <<"(v)">>), Pattern(".", <<"E", ".", "E">>), Pattern(".", <<"E", ".", "(v)">>) >>
       \o Postfix(<<"++", "--", "...">>)),
     RightToLeft(Prefix(<<"++", "--", "~", "!", "not", "+", "-", "*", "&", "async">>)),
     LeftToRight(Binary(<<"*", "&*", "/", "/-", "/+", "%", "%-", "%+", "**">>)),
     LeftToRight(Binary(<<"+", "&+", "-", "&-">>)),
     LeftToRight(Binary(<<"<<", ">>", ">>>">>)),
     LeftToRight(Binary(<<"&">>)), LeftToRight(Binary(<<"|">>)), LeftToRight(Binary(<<"^">>)),
     LeftToRight(Binary(<<"<", ">", "<=", ">=", "is">>)),
     LeftToRight(Binary(<<"==", "!=">>)),
     LeftToRight(Binary(<<"&&", "and">>)), LeftToRight(Binary(<<"||", "or">>)), LeftToRight(Binary(<<"^^", "xor">>)),
     RightToLeft(<<Pattern("?:", <<"E", "?", "E", ":", "E">>)>>),
     RightToLeft(Binary(<<":">>)),
     LeftToRight(<<Pattern("Tuple", <<"E", ",", "E">>), Pattern("Delimiter", <<"E", ";", "E">>)>>),
     RightToLeft(<<Pattern("Delimiter", <<";", "E">>)>>),
     LeftToRight(<<Pattern("Delimiter", <<"E", ";">>)>>),
     RightToLeft(Binary(<<"=", "*=", "&*=", "/=", "/-=", "/+=", "%=", "%-=", "%+=", "**=", "+=", "&+=", "-=",
                          "&-=", "<<=", ">>=", ">>>=", "&=", "|=", "^=">>)) >>

\* opAttrs: OperatorType::Prefix
PrefixPattern(pattern) == pattern.elements[1] \notin Operands /\ pattern.op # "Delimiter"

-----------------------------------------------------------------------------
\* matchesAsNameChain(): a name, or two names, or three
IsName(node) == node.type = "Name"
Selects(node) == node.type = "Operator" /\ node.op = "." /\ IsName(node.subs[2])
MatchesAsNameChain(node) ==
  \/ IsName(node)
  \/ Selects(node) /\ IsName(node.subs[1])
  \/ Selects(node) /\ Selects(node.subs[1]) /\ IsName(node.subs[1].subs[1])

MatchesElement(node, e) ==
  IF e \in Brackets THEN node.type = "Bracket" /\ node.op = e
  ELSE IF e = "(v)" THEN node.type = "Bracket" /\ node.op = "()" /\ node.subs # <<>>
  ELSE IF e = "NameChain" THEN MatchesAsNameChain(node)
  ELSE IF e = "E" THEN node.type \in {"Name", "Operator"}
  ELSE node.type = "Unknown" /\ node.op = e

\* A prefix operator comes first or after another operator, or it is a binary one.
Unambiguous(nodes, i, pattern) == PrefixPattern(pattern) => i = 1 \/ nodes[i - 1].type = "Unknown"

\* Mutant of Fits: extractOperator() takes every "-" for a prefix operator.
FitsAlways(nodes, i, pattern) ==
  /\ i >= 1 /\ i + Len(pattern.elements) - 1 <= Len(nodes)
  /\ \A j \in DOMAIN pattern.elements : MatchesElement(nodes[i + j - 1], pattern.elements[j])

Fits(nodes, i, pattern) ==
  /\ i >= 1 /\ i + Len(pattern.elements) - 1 <= Len(nodes)
  /\ \A j \in DOMAIN pattern.elements : MatchesElement(nodes[i + j - 1], pattern.elements[j])
  /\ Unambiguous(nodes, i, pattern)

WrapByTuple(subs) ==
  IF subs # <<>> /\ subs[1].type = "Operator" /\ subs[1].op = "Tuple" THEN subs[1] ELSE Node("Tuple", subs)

\* "Flatten tuples": what is on the left of the comma or semicolon may be a tuple already.
Delimiter == Node("Delimiter", <<>>)
Items(node) == IF node.type = "Operator" /\ node.op = "Tuple" THEN node.subs ELSE <<node>>
Flattened(elements, subs) ==
  Node("Tuple",
       IF elements = <<";", "E">> THEN <<Delimiter>> \o Items(subs[1])
       ELSE Items(subs[1]) \o (IF elements[2] = ";" THEN <<Delimiter>> ELSE <<>>) \o Tail(subs))

\* extractOperator(), for a pattern that matches
Extracted(matched, pattern) ==
  LET operands == SelectSeq(matched, LAMBDA n : n.type # "Unknown")
      subs == [j \in DOMAIN operands |->
                 IF operands[j].type = "Bracket" THEN WrapByTuple(operands[j].subs) ELSE operands[j]]
  IN  IF pattern.op \in {"Tuple", "Delimiter"} THEN Flattened(pattern.elements, subs) ELSE Node(pattern.op, subs)

-----------------------------------------------------------------------------
\* With leftToRight a match begins at "it", otherwise it ends before it.
Begin(group, it, p) == IF group.leftToRight THEN it ELSE it - Len(group.patterns[p].elements)
Fitting(group, nodes, it, from) ==
  {p \in from..Len(group.patterns) : Fits(nodes, Begin(group, it, p), group.patterns[p])}

\* The patterns of a group are tried at "it" one after the other, each with what the ones
\* before have left.
RECURSIVE Applied(_, _, _)
Applied(group, from, s) ==
  LET fits == Fitting(group, s.nodes, s.it, from)
      p == group.patterns[Min(fits)]
      begin == Begin(group, s.it, Min(fits))
      end == begin + Len(p.elements)
      n == Extracted(SubSeq(s.nodes, begin, end - 1), p)
  IN  IF fits = {} THEN s
      ELSE Applied(group, Min(fits) + 1,
                   [nodes |-> SubSeq(s.nodes, 1, begin - 1) \o <<n>> \o SubSeq(s.nodes, end, Len(s.nodes)),
                    it |-> IF group.leftToRight THEN begin ELSE begin + 1])

\* On to the next place where a pattern matches
RECURSIVE Scan(_, _, _)
Scan(group, nodes, it) ==
  LET ahead == {i \in (IF group.leftToRight THEN it..Len(nodes) ELSE 2..it) : Fitting(group, nodes, i, 1) # {}}
      s == Applied(group, 1, [nodes |-> nodes, it |-> IF group.leftToRight THEN Min(ahead) ELSE Max(ahead)])
  IN  IF ahead = {} THEN nodes ELSE Scan(group, s.nodes, s.it)

ScanGroup(group, nodes) == Scan(group, nodes, IF group.leftToRight THEN 1 ELSE Len(nodes) + 1)

RECURSIVE Reduced(_, _)
Reduced(nodes, g) ==
  IF nodes = <<>> \/ g > Len(OpPatterns) THEN nodes ELSE Reduced(ScanGroup(OpPatterns[g], nodes), g + 1)

\* parseNodes() and parseExpression(); an expression with an error is null.
RECURSIVE ParseExpression(_)
ParseExpression(tokens) ==
  LET ParseBracket(t) == [t EXCEPT !.subs = IF @ = <<>> THEN <<>> ELSE <<ParseExpression(@)>>]
      nodes == [i \in DOMAIN tokens |-> IF tokens[i].type = "Bracket" THEN ParseBracket(tokens[i]) ELSE tokens[i]]
      parsed == Reduced(nodes, 1)
  IN  IF Len(parsed) = 1 /\ parsed[1].type \in {"Name", "Operator"} THEN parsed[1] ELSE Null

-----------------------------------------------------------------------------
\* A tree that can be written: an operand binds more tightly than its operator, or equally
\* on the side where operators of that group begin.  Precedence() is the group's place.
IsTuple(t) == t.type = "Operator" /\ t.op = "Tuple"
IsDelimiter(t) == t = Delimiter
GroupOps(g) == {p.op : p \in ToSet(OpPatterns[g].patterns)}
GroupOf == [op \in UNION {GroupOps(g) : g \in DOMAIN OpPatterns} |-> CHOOSE g \in DOMAIN OpPatterns : op \in GroupOps(g)]
TupleGroup == GroupOf["Tuple"]
Precedence(t) == IF t.type = "Name" THEN 0 ELSE GroupOf[t.op]

\* The pattern an operator is written with
Fillable(e, t, g) ==
  CASE e = "E" -> IsTuple(t) => g > TupleGroup
    [] e = "NameChain" -> MatchesAsNameChain(t)
    [] e = "(v)" -> IsTuple(t) /\ t.subs # <<>>
    [] OTHER -> IsTuple(t)
PatternsOf(t) ==
  {p \in ToSet(OpPatterns[Precedence(t)].patterns) :
     /\ p.op = t.op
     /\ LET operands == SelectSeq(p.elements, LAMBDA e : e \in Operands)
        IN  Len(operands) = Len(t.subs) /\ \A j \in DOMAIN operands : Fillable(operands[j], t.subs[j], Precedence(t))}
PatternOf(t) == CHOOSE p \in PatternsOf(t) : TRUE

\* An assignment may have tuples for operands, too; a tuple's items bind more tightly.
RECURSIVE WellFormed(_)
WellFormed(t) ==
  LET g == Precedence(t)
      last == Len(t.subs)
      pattern == PatternOf(t)
      binds(j) ==
        LET s == t.subs[j]
            side == IF OpPatterns[g].leftToRight THEN 1 ELSE last
        IN  IF IsTuple(t) THEN IsDelimiter(s) \/ Precedence(s) < TupleGroup
            ELSE IF SelectSeq(pattern.elements, LAMBDA e : e \in Operands)[j] # "E" THEN TRUE
            ELSE Precedence(s) < g \/ (j = side /\ Precedence(s) = g)
  IN  t.type = "Operator" =>
        /\ IsTuple(t) \/ PatternsOf(t) # {}
        /\ \A j \in 1..last : IsDelimiter(t.subs[j]) \/ (binds(j) /\ WellFormed(t.subs[j]))

RECURSIVE Written(_)
Written(t) ==
  LET w == [j \in DOMAIN t.subs |-> IF IsDelimiter(t.subs[j]) THEN <<Token(";")>> ELSE Written(t.subs[j])]
      comma(j) == IF j > 1 /\ ~IsDelimiter(t.subs[j]) /\ ~IsDelimiter(t.subs[j - 1]) THEN <<Token(",")>> ELSE <<>>
      elements == PatternOf(t).elements
      operand(j) == Len(SelectSeq(SubSeq(elements, 1, j), LAMBDA e : e \in Operands))
      element(j) ==
        CASE elements[j] \in {"E", "NameChain"} -> w[operand(j)]
          [] elements[j] = "(v)" -> <<Bracket("()", w[operand(j)])>>
          [] elements[j] \in Brackets -> <<Bracket(elements[j], w[operand(j)])>>
          [] OTHER -> <<Token(elements[j])>>
  IN  IF t.type = "Name" THEN <<t>>
      ELSE IF IsTuple(t) THEN FlattenSeq([j \in DOMAIN w |-> comma(j) \o w[j]])
      ELSE FlattenSeq([j \in DOMAIN elements |-> element(j)])

\* An expression means what its operators' precedence says: a tree that can be written is
\* what its tokens are parsed to, whatever the groups before have done to them.
ParsesBack(t) == WellFormed(t) => ParseExpression(Written(t)) = t
=============================================================================
