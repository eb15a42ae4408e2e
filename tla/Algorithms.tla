----------------------------- MODULE Algorithms -----------------------------
(***************************************************************************)
(* The sequential algorithms of chatra_core, each run on what it may be    *)
(* given: Int operators, the matching of arguments, inheritance, the       *)
(* blocks of a script and the operators of an expression.  An input grows  *)
(* step by step; each of its beginnings is an input, too.                  *)
(***************************************************************************)
EXTENDS Calculation, Functions

CONSTANTS Params, Args,    \* at each position, the parameters and arguments there may be
          Packages,        \* forms of packages: at each position, the classes there may be
          Scripts,         \* forms of scripts: at each position, the lines there may be
          Trees            \* expressions

M == INSTANCE Arguments
C == INSTANCE Classes
B == INSTANCE Blocks
O == INSTANCE Operators

VARIABLES job, form, input
vars == <<job, form, input, values>>

Init == Empty /\ job = "none" /\ form = 1 /\ input = <<>>

\* A form is a list of what there may be at each position.
Start(name, k, in) == job = "none" /\ job' = name /\ form' = k /\ input' = in /\ UNCHANGED values

CalculateOnce == job = "none" /\ Calculate /\ job' = "calculate" /\ UNCHANGED <<form, input>>

DeclareMethod == Start("call", 1, <<<<>>, <<>>>>)
AddParam ==
  /\ job = "call" /\ input[2] = <<>> /\ Len(input[1]) < Len(Params) /\ UNCHANGED <<job, form, values>>
  /\ \E p \in Params[Len(input[1]) + 1] :
       M!Accepted(Append(input[1], p)) /\ input' = <<Append(input[1], p), <<>>>>
AddArg ==
  /\ job = "call" /\ Len(input[2]) < Len(Args) /\ UNCHANGED <<job, form, values>>
  /\ \E a \in Args[Len(input[2]) + 1] : input' = <<input[1], Append(input[2], a)>>

DeclarePackage == \E k \in DOMAIN Packages : Start("classes", k, <<>>)
AddClass ==
  /\ job = "classes" /\ Len(input) < Len(Packages[form]) /\ UNCHANGED <<job, form, values>>
  /\ \E c \in Packages[form][Len(input) + 1] : input' = Append(input, c)

WriteScript == \E k \in DOMAIN Scripts : Start("script", k, <<>>)
AddLine ==
  /\ job = "script" /\ Len(input) < Len(Scripts[form]) /\ UNCHANGED <<job, form, values>>
  /\ \E l \in Scripts[form][Len(input) + 1] : input' = Append(input, l)

WriteExpression == job = "none" /\ \E t \in Trees : O!WellFormed(t) /\ Start("expression", 1, t)

Next ==
  \/ CalculateOnce
  \/ DeclareMethod \/ AddParam \/ AddArg
  \/ DeclarePackage \/ AddClass
  \/ WriteScript \/ AddLine
  \/ WriteExpression

Spec == Init /\ [][Next]_vars

-----------------------------------------------------------------------------
\* A call that ArgumentMatcher::matches() finds can be made with what mapArgs() gives each
\* parameter, and mapReturns() gives each value to one place of a tuple: the decisions are
\* taken twice, in two ways.  (The exceptions are those named in Arguments.)
CallsWhatMatches ==
  job = "call" =>
    LET ps == input[1]  as == input[2]
        distinct == \A i, j \in DOMAIN as : i # j /\ as[i].key = as[j].key => as[i].key = M!NoKey
        noDefaults == \A i \in DOMAIN ps : ps[i].default = "no"
    IN  /\ M!IsArguments(as) /\ ~M!GivenTwice(ps, as) /\ ~M!RequiredAfterDefault(ps) /\ ~M!Misplaced(ps, as)
             => M!Callable(ps, as)
        /\ distinct /\ noDefaults => M!Distributed(ps, as)

\* A class has all that its superclasses declare, once, in an order that initializes them
\* first, if each is declared before the classes that extend it (Class::inheritParents(),
\* MethodTable::inherit()).
InheritsFromAll == job = "classes" /\ C!DeclaredFirst(input) => C!Inherits(input)

\* A line belongs to the block its indents say, or the script is refused (groupScript() and
\* structureInnerNode()), except around the classes and functions named in Blocks.
LinesInTheirBlocks == job = "script" /\ ~B!Entangled(input) => B!FollowsIndents(input)

\* An expression is parsed to what its operators' precedence and associativity say
\* (parseExpression()).
OperatorsBind == job = "expression" => O!ParsesBack(input)
=============================================================================
