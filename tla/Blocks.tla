------------------------------- MODULE Blocks -------------------------------
(***************************************************************************)
(* How the lines of a script become nested blocks (groupScript() and       *)
(* structureInnerNode() of chatra_core/Parser.cpp).  A line has a number   *)
(* of indents and a keyword, "expression" for one that begins with none; a *)
(* line that is indented further than a block goes on with the statement   *)
(* before.  First each def and class gets the lines that follow it with    *)
(* more indents; then the lines of a node become the statements of its     *)
(* block and the blocks of those.                                          *)
(***************************************************************************)
EXTENDS Naturals, Sequences, FiniteSets, SequencesExt, FiniteSetsExt

Root == 0
Ascending(S) == SetToSortSeq(S, <)
Sentences == {"root", "def", "class", "if", "else if", "else", "for", "while", "case", "default", "do",
              "catch", "finally"}
Leaving == {"break", "continue", "return", "throw"}
Simple == {"import", "touch", "var", "expression"} \cup Leaving
HasBlock(kw) == kw \notin Simple

\* lineTypes and expressionParentType: what a statement may be in
ParentType(kw) ==
  CASE kw \in {"import", "class"}    -> {"root"}
    [] kw = "sync"                   -> {"root", "class"}
    [] kw = "var"                    -> {"root", "class", "sync"}
    [] kw \in {"case", "default"}    -> {"switch"}
    [] kw \in {"catch", "finally"}   -> Sentences \cup {"switch"}
    [] OTHER                         -> Sentences

Keyword(lines, i) == IF i = Root THEN "root" ELSE lines[i].kw
ExpectedIndents(lines, i) == IF i = Root THEN 0 ELSE lines[i].indents + 1

\* groupScript(): the stack has the classes and defs that are open.
GroupScript(lines) ==
  LET open(s, line) == IF line.indents + 1 < Len(s.stack) THEN SubSeq(s.stack, 1, line.indents + 1) ELSE s.stack
      add(s, i) ==
        LET stack == open(s, lines[i])
        IN  [stack |-> IF lines[i].kw \in {"def", "class"} THEN Append(stack, i) ELSE stack,
             owner |-> Append(s.owner, Last(stack))]
  IN  FoldLeft(add, [stack |-> <<Root>>, owner |-> <<>>], [i \in DOMAIN lines |-> i]).owner

Grouped(lines, i) == SelectSeq([j \in DOMAIN lines |-> j], LAMBDA j : GroupScript(lines)[j] = i)

\* Mutant of WrapIndents: the lines of a block continue the line that opens it.
WrapIndentsShort(kw) == 1

\* combineWrappedLines()
WrapIndents(kw) == IF HasBlock(kw) THEN 2 ELSE 1

\* The lines of s from the i-th on that are indented by n at least
RunEnd(lines, s, i, n) == CHOOSE k \in i..Len(s) + 1 :
  /\ \A j \in i..k - 1 : lines[s[j]].indents >= n
  /\ k <= Len(s) => lines[s[k]].indents < n

-----------------------------------------------------------------------------
\* The statements found so far; "ok" is FALSE after an error.
Node(line, wrapped, block) == [line |-> line, wrapped |-> wrapped, block |-> block]
Add(out, node) == [out EXCEPT !.nodes = Append(@, node)]
NoNodes == [nodes |-> <<>>, ok |-> TRUE]
Failed == [nodes |-> <<>>, ok |-> FALSE]

\* The first loop: a line that is indented differently ends it, with nothing; a statement
\* that is not allowed here leaves its block behind.
RECURSIVE Statements(_, _, _, _)
Statements(lines, owner, s, out) ==
  IF s = <<>> THEN out
  ELSE
    LET n == Head(s)
        kw == lines[n].kw
        indents == ExpectedIndents(lines, owner)
        body == RunEnd(lines, s, 2, lines[n].indents + WrapIndents(kw))
        allowed == Keyword(lines, owner) \in ParentType(kw)
        next == IF allowed /\ HasBlock(kw) THEN RunEnd(lines, s, body, indents + 1) ELSE body
        node == Node(n, SubSeq(s, 2, body - 1), Grouped(lines, n) \o SubSeq(s, body, next - 1))
    IN  IF lines[n].indents # indents THEN Failed
        ELSE Statements(lines, owner, SubSeq(s, next, Len(s)),
                        IF allowed THEN Add(out, node) ELSE [out EXCEPT !.ok = FALSE])

\* "Check order of Catch/Finally and unreachable code": what follows a statement that
\* leaves the block is taken out, up to the next catch or finally.
CatchOrFinally(kw) == kw \in {"catch", "finally"}
Ordered(lines, out) ==
  LET kw(n) == lines[n.line].kw
      step(s, n) ==
        IF s.end THEN s
        ELSE IF s.finallyFound THEN [s EXCEPT !.ok = FALSE, !.end = TRUE]
        ELSE IF CatchOrFinally(kw(n)) THEN
          [s EXCEPT !.nodes = Append(@, n), !.catchFound = TRUE, !.finallyFound = kw(n) = "finally"]
        ELSE IF s.left THEN s
        ELSE IF s.catchFound THEN [s EXCEPT !.ok = FALSE, !.end = TRUE]
        ELSE [s EXCEPT !.nodes = Append(@, n), !.left = kw(n) \in Leaving]
      s == FoldLeft(step, [nodes |-> <<>>, ok |-> out.ok, left |-> FALSE, catchFound |-> FALSE,
                           finallyFound |-> FALSE, end |-> FALSE], out.nodes)
  IN  [nodes |-> s.nodes, ok |-> s.ok]

\* "Check order of Case/Default"
CaseOrdered(lines, owner, out) ==
  LET late(i) == /\ lines[out.nodes[i].line].kw = "case"
                 /\ \E j \in 1..i - 1 : lines[out.nodes[j].line].kw = "default"
      misplaced == {i \in DOMAIN out.nodes : late(i)}
  IN  IF Keyword(lines, owner) # "switch" \/ misplaced = {} THEN out
      ELSE [nodes |-> SubSeq(out.nodes, 1, Min(misplaced) - 1), ok |-> FALSE]

\* The last loop: an else belongs to the IfGroup before, which it ends; without one it is
\* taken out.  (The statements of an IfGroup follow each other here.)
ElseGrouped(lines, out) ==
  LET kw(n) == lines[n.line].kw
      add(s, n) ==
        IF kw(n) \in {"else if", "else"} /\ (s.nodes = <<>> \/ kw(Last(s.nodes)) \notin {"if", "else if"})
        THEN [s EXCEPT !.ok = FALSE] ELSE Add(s, n)
  IN  FoldLeft(add, [nodes |-> <<>>, ok |-> out.ok], out.nodes)

\* structureInnerNode() of the node of a line and of all nodes in it, in the order of lines
StructureInnerNode(lines, owner, s) ==
  ElseGrouped(lines, CaseOrdered(lines, owner, Ordered(lines, Statements(lines, owner, s, NoNodes))))

RECURSIVE Structured(_, _, _)
Structured(lines, owner, s) ==
  LET out == StructureInnerNode(lines, owner, s)
      join(t, n) ==
        LET inner == Structured(lines, n.line, n.block)
        IN  [nodes |-> t.nodes \o <<[line |-> n.line, in |-> owner, wrapped |-> n.wrapped]>> \o inner.nodes,
             ok |-> t.ok /\ inner.ok]
  IN  FoldLeft(join, [nodes |-> <<>>, ok |-> out.ok], out.nodes)

Script(lines) == Structured(lines, Root, Grouped(lines, Root))

-----------------------------------------------------------------------------
\* What the indents say: a line goes on with the last statement before it when it is
\* indented further than the lines of its block are; otherwise it is a statement of the
\* last one before it that is indented less.
Heads(lines) ==
  FoldLeft(LAMBDA heads, i : IF /\ heads # {}
                                /\ lines[i].indents >= lines[Max(heads)].indents + (IF HasBlock(lines[Max(heads)].kw) THEN 2 ELSE 1)
                             THEN heads ELSE heads \cup {i},
           {}, [i \in DOMAIN lines |-> i])
Around(lines, i) == Max({Root} \cup {j \in Heads(lines) : j < i /\ lines[j].indents < lines[i].indents})
Kids(lines, i) == Ascending({j \in Heads(lines) : Around(lines, j) = i})

\* What is left of a block without unreachable code, and the statements left in all
Reachable(lines, i) ==
  LET kids == Kids(lines, i)
      dead == {k \in DOMAIN kids : ~CatchOrFinally(lines[kids[k]].kw) /\ \E j \in 1..k - 1 : lines[kids[j]].kw \in Leaving}
  IN  [k \in 1..Len(kids) - Cardinality(dead) |-> kids[Ascending(DOMAIN kids \ dead)[k]]]
Live(lines) ==
  FoldLeft(LAMBDA live, i : IF i \in Heads(lines) /\ Around(lines, i) \in live /\ i \in ToSet(Reachable(lines, Around(lines, i)))
                            THEN live \cup {i} ELSE live,
           {Root}, [i \in DOMAIN lines |-> i])

\* A block that is written as it should be: its statements may be there, finally comes last,
\* after all catches, an else follows an if, and default comes after the cases.
Proper(lines, i) ==
  LET kids == Kids(lines, i)
      kept == Reachable(lines, i)
      kw(s, k) == lines[s[k]].kw
  IN  /\ \A k \in DOMAIN kids :
           /\ lines[kids[k]].indents = ExpectedIndents(lines, i)
           /\ Keyword(lines, i) \in ParentType(kw(kids, k))
           /\ kw(kids, k) = "finally" => k = Len(kids)
      /\ \A k \in DOMAIN kept :
           /\ kw(kept, k) \in {"else if", "else"} => k > 1 /\ kw(kept, k - 1) \in {"if", "else if"}
           /\ \A j \in 1..k - 1 :
                /\ CatchOrFinally(kw(kept, j)) => CatchOrFinally(kw(kept, k))
                /\ ~(kw(kept, j) = "default" /\ kw(kept, k) = "case")

\* What does not end up where its indents say: a class or def in a block of another
\* statement, or one whose declaration takes several lines or is part of a longer one.
Declares(lines, i) == lines[i].kw \in {"def", "class"}
Entangled(lines) ==
  \E i \in DOMAIN lines : Declares(lines, i) /\
    \/ i \notin Heads(lines) \/ (i < Len(lines) /\ i + 1 \notin Heads(lines))
    \/ Around(lines, i) # Root /\ ~Declares(lines, Around(lines, i))

\* A script is accepted if each block is proper, and then each line is where its indents say
\* that it is, except for unreachable code.
FollowsIndents(lines) ==
  LET live == Live(lines)
      next(i) == IF \E j \in Heads(lines) : j > i THEN Min({j \in Heads(lines) : j > i}) ELSE Len(lines) + 1
      placed(i) == [line |-> i, in |-> Around(lines, i), wrapped |-> [k \in 1..next(i) - i - 1 |-> i + k]]
      statements == Ascending(live \ {Root})
  IN  /\ Script(lines).ok = (\A i \in live : Proper(lines, i))
      /\ Script(lines).ok => Script(lines).nodes = [k \in DOMAIN statements |-> placed(statements[k])]
=============================================================================
