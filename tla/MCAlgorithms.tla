----------------------------- MODULE MCAlgorithms -----------------------------
\* Inputs of Algorithms: all short ones of a few forms
EXTENDS Algorithms

Param(n, t, c, d) == [name |-> n, type |-> t, cl |-> c, default |-> d]
ParamsNamed(n) ==
  {Param(n, t, c, d) : t \in {"List", "Dict"}, c \in {"A"}, d \in {"no", "literal"}}
    \cup {Param(n, t, "any", "no") : t \in {"List", "Dict", "ListVarArg", "DictVarArg"}}
MCParams == <<ParamsNamed("p"), ParamsNamed("q"), {x \in ParamsNamed("r") : x.cl = "any"}>>
ArgSet == {[cl |-> c, key |-> k] : k \in {"-", "p", "q", "z"}, c \in {"A", "B"}}
MCArgs == <<ArgSet, ArgSet, {x \in ArgSet : x.key \in {"-", "q"} /\ x.cl = "A"}>>

Class(parents, variables, defines) ==
  {[parents |-> p, defines |-> d, vars |-> v] : p \in parents, v \in variables, d \in defines}
Orders(n) == {s \in UNION {[1..k -> 1..n] : k \in 0..2} : \A i, j \in DOMAIN s : i # j => s[i] # s[j]}
MCPackages ==
  << << Class({<<>>}, {<<1, 0, 1>>}, {TRUE}), Class(Orders(1), {<<>>, <<1, 2, 1>>}, BOOLEAN),
        Class(Orders(2), {<<1, 1>>}, BOOLEAN), Class(Orders(3), {<<0, 1>>}, {FALSE}),
        Class({<<4, 3>>, <<3, 4>>, <<2, 4>>}, {<<1>>}, {FALSE}) >> >>

Line(n, kws) == {[indents |-> i, kw |-> k] : i \in 0..n, k \in kws}
Any == {"var", "expression", "return", "def", "class", "if", "else", "switch", "case", "catch", "sync"}
Code == {"expression", "return", "def", "if", "else", "catch"}
Cases == {"case", "default", "expression", "finally"}
MCScripts ==
  << << Line(0, Any), Line(1, Any), Line(2, Any) >>,
     << Line(0, Code), Line(1, Code), Line(1, Code), Line(2, {"expression", "else", "catch", "finally"}) >>,
     << Line(0, {"switch"}), Line(1, Cases), Line(2, Cases), Line(2, Cases) >> >>

a == O!Name("a")
Tuple(s) == O!Node("Tuple", s)
D == O!Delimiter
Over(S) ==
       {O!Node(op, <<x>>) : x \in S, op \in {"prefix -", "prefix ++", "postfix ++", "prefix *", "prefix !"}}
  \cup {O!Node(op, <<x, y>>) : x \in S, y \in S, op \in {"*", "-", "+", "&", "<", "&&", ":", "="}}
  \cup {O!Node(".", <<x, a>>) : x \in S}
  \cup {O!Node("Call", <<x, y>>) : x \in S, y \in {Tuple(<<z>>) : z \in S} \cup {Tuple(<<>>), Tuple(<<a, a>>), Tuple(<<D, a>>)}}
  \cup {O!Node(op, <<Tuple(<<x>>)>>) : x \in S, op \in {"Parenthesis", "Container"}}
  \cup {O!Node("Subscript", <<x, Tuple(<<y>>)>>) : x \in S, y \in S}
  \cup {O!Node("Container", <<a, Tuple(<<>>), Tuple(<<x>>)>>) : x \in S}
  \cup {Tuple(s) : s \in {<<x, y>> : x \in S, y \in S} \cup {<<x, D, y>> : x \in S, y \in S}
                       \cup {<<D, x>> : x \in S} \cup {<<x, D>> : x \in S}}
Once == Over({a})
Inner == {a} \cup Once \cup {O!Node("?:", <<a, a, a>>)}
MCTrees ==
  Over(Inner)
    \cup UNION {{O!Node("?:", <<x, a, a>>), O!Node("?:", <<a, x, a>>), O!Node("?:", <<a, a, x>>)} : x \in Inner}
    \cup {O!Node(".", <<a, Tuple(<<x>>)>>) : x \in Inner}
    \cup {O!Node(op, <<x, y>>) : x \in {O!Node(p, <<a, O!Node("prefix -", <<a>>)>>) : p \in {"*", "+", "-", "="}},
                                 y \in Inner, op \in {"*", "-", "="}}
=============================================================================
