------------------------------ MODULE MCFrames ------------------------------
(* Scripts for Frames: one statement that jumps or throws, in two blocks   *)
(* with their handlers, in a loop.                                         *)
EXTENDS Structured

Expr(x) == [type |-> "Expression", body |-> <<>>, name |-> x]
JumpTo(t, l) == [type |-> t, body |-> <<>>, label |-> l]
Plain(t, b) == [type |-> t, body |-> b]
Branch(b, else) == [type |-> "If", body |-> b, isElse |-> else]
Labelled(t, b, l) == [type |-> t, body |-> b, label |-> l]
Call(b) == [type |-> "Call", body |-> <<>>, def |-> Plain("Def", b)]
ReturnNode(v) == [type |-> "Return", body |-> <<>>, hasValue |-> v]
ThrowNode(v) == [type |-> "Throw", body |-> <<>>, hasValue |-> v, exception |-> "E"]
CatchNode(cs, b) == [type |-> "Catch", body |-> b, classes |-> cs]
FinallyNode(b) == Plain("Finally", b)
Root(imports, init, b) ==
  [type |-> "ScriptRoot", body |-> b, imports |-> imports, init |-> init]

Leaves == {Expr("a"), ThrowNode(TRUE), ReturnNode(FALSE), ReturnNode(TRUE)}
  \cup {JumpTo(t, l) : t \in {"Break", "Continue"}, l \in {None, "outer"}}

\* Handlers at the end of a block
InnerHandlers ==
  {<<>>, <<FinallyNode(<<Expr("f")>>)>>, <<CatchNode({"E"}, <<ThrowNode(FALSE)>>), FinallyNode(<<Expr("f")>>)>>,
   <<FinallyNode(<<JumpTo("Break", None)>>)>>, <<CatchNode({"E"}, <<Expr("c")>>)>>,
   <<FinallyNode(<<ReturnNode(FALSE)>>)>>, <<CatchNode({"E"}, <<Plain("Do", <<ThrowNode(FALSE)>>)>>)>>}
OuterHandlers ==
  {<<>>, <<FinallyNode(<<Expr("F")>>)>>,
   <<CatchNode({"E", Unsupported}, <<Expr("C")>>), FinallyNode(<<Expr("F")>>)>>}

Inner(b) == {Plain("Do", b), Call(b),
             Plain("IfGroup", <<Branch(<<Expr("b")>>, FALSE), Branch(b, TRUE)>>)}
Outer(b, hs) ==
  {Labelled("While", b \o hs, "inner"), Labelled("For", b \o hs, "inner"), Plain("Do", b \o hs),
   Plain("Switch", <<Plain("Case", <<>>), Plain("Case", b), Plain("Default", <<Expr("d")>>)>> \o hs)}
Whole(n) ==
  Root(<<>>, <<>>, <<Labelled("While", <<n, Expr("g"), FinallyNode(<<Expr("G")>>)>>, "outer"), Expr("z")>>)

Nested ==
  UNION {UNION {{Whole(o) : o \in Outer(<<i, Expr("e")>>, oh)} : i \in Inner(<<l>> \o ih)} :
    <<l, ih, oh>> \in Leaves \X InnerHandlers \X OuterHandlers}

Package1 == Root(<<>>, <<Plain("Def", <<Expr("i")>>)>>, <<Expr("p"), ReturnNode(FALSE)>>)
Package2 == Root(<<Package1>>, <<Plain("Def", <<Expr("j")>>)>>, <<Expr("q")>>)
Imported == {Root(<<Package1, Package2>>, <<Plain("Def", b)>>, <<Plain("Import", <<>>), Plain("Sync", <<>>), Expr("a")>>) :
               b \in {<<Expr("k")>>, <<ThrowNode(TRUE)>>}}

Scripts == Nested \cup Imported

\* What the scripts are made of: nodes at most Depth levels below
Depth == 9
PartsOf(n) ==
  n.body \o (IF n.type = "Call" THEN <<n.def>> ELSE <<>>)
         \o (IF n.type = "ScriptRoot" THEN n.imports \o n.init ELSE <<>>)
WithParts(S) == S \cup UNION {LET parts == PartsOf(n) IN {parts[i] : i \in DOMAIN parts} : n \in S}
Within[k \in 0..Depth] == IF k = 0 THEN Scripts ELSE WithParts(Within[k - 1])
Nodes == {n : n \in Within[Depth]}
MCNode == Nodes
=============================================================================
