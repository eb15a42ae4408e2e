----------------------------- MODULE Arguments -----------------------------
(***************************************************************************)
(* Which method a call finds and which parameter each argument becomes     *)
(* (struct ArgumentMatcher of chatra_core/Classes.h and Classes.cpp).  A   *)
(* parameter is declared before ";" (an array-style one, given by position *)
(* or key) or after it (given by key); it has a name, perhaps a class, and *)
(* perhaps a default value; a variadic one, last of its part, takes what   *)
(* is left.  An argument has a class and perhaps a key.                    *)
(*                                                                         *)
(* Two decisions are taken apart: matches() decides, from the classes and  *)
(* keys, whether a method can be called, and mapArgs(), without the        *)
(* classes, which parameter gets which argument.  mapReturns() does the    *)
(* same for the values that are assigned to a tuple.                       *)
(***************************************************************************)
EXTENDS Naturals, Sequences, FiniteSets, SequencesExt

NoKey == "-"
AnyClass == "any"

VarArgs == {"ListVarArg", "DictVarArg"}
IsList(p) == p.type = "List"
Keyed(p) == p.type \in {"List", "Dict"}
Assignable(p, a) == p.cl \in {AnyClass, a.cl}
Ascending(S) == SetToSortSeq(S, <)

\* checkAsParameterList(): of the parameters without a default, only one that has no class
\* either is refused after one whose default is a constructor call.
Accepted(ps) ==
  /\ \A i \in DOMAIN ps : \A j \in DOMAIN ps : i < j =>
       /\ ps[i].name # ps[j].name
       /\ ps[i].type \in VarArgs => ps[i].type = "ListVarArg" /\ ps[j].type \in {"Dict", "DictVarArg"}
       /\ ps[i].type \in {"Dict", "DictVarArg"} => ps[j].type \in {"Dict", "DictVarArg"}
       /\ ~(ps[i].default = "call" /\ IsList(ps[i]) /\ IsList(ps[j]) /\ ps[j].default = "no" /\ ps[j].cl = AnyClass)
  /\ \A i \in DOMAIN ps : ps[i].type \in VarArgs => ps[i].default = "no" /\ ps[i].cl = AnyClass

\* ArgumentMatcher()
ListCount(ps) == Cardinality({i \in DOMAIN ps : IsList(ps[i])})
ListCountWithoutDefaults(ps) ==
  Cardinality({i \in 1..ListCount(ps) : \A j \in 1..i : ps[j].default = "no"})
DictCountWithoutDefaults(ps) ==
  Cardinality({i \in DOMAIN ps : ps[i].type = "Dict" /\ ps[i].default = "no"})
HasVarArg(ps, type) == \E i \in DOMAIN ps : ps[i].type = type
VarArgOf(ps, type) == {i \in DOMAIN ps : ps[i].type = type}
ByName(ps, key) == {i \in DOMAIN ps : Keyed(ps[i]) /\ ps[i].name = key /\ key # NoKey}

-----------------------------------------------------------------------------
\* matches(): the arguments from left to right, by position until one does not fit
Matches(ps, as) ==
  LET listed(i) == i <= ListCount(ps) /\ as[i].key \in {NoKey, ps[i].name} /\ Assignable(ps[i], as[i])
      byPosition == Cardinality({i \in DOMAIN as : \A j \in 1..i : listed(j)})
      inOrder == IF byPosition = Len(as) THEN byPosition ELSE ListCount(ps)
      target(i) == IF i <= byPosition THEN {i} ELSE ByName(ps, as[i].key)
      fits(i) == IF target(i) # {} THEN \A t \in target(i) : Assignable(ps[t], as[i])
                 ELSE HasVarArg(ps, "ListVarArg") \/ (as[i].key # NoKey /\ HasVarArg(ps, "DictVarArg"))
      required == {i \in DOMAIN as : \E t \in target(i) : ps[t].default = "no"}
  IN  /\ \A i \in DOMAIN as : fits(i)
      /\ inOrder >= ListCountWithoutDefaults(ps)
      /\ Cardinality(required) = ListCountWithoutDefaults(ps) + DictCountWithoutDefaults(ps)

\* What mapArgs() and mapReturns() call their mappers with, in turn
To(dest, sources) == [dest |-> dest, sources |-> sources]
VarArgsTo(ps, type, rest) == SetToSeq({To(d, rest) : d \in VarArgOf(ps, type)})
NullTo(ps, taken) == [j \in 1..Len(taken) |-> To(taken[j], <<>>)]
DestsOf(map) == {map[k].dest : k \in DOMAIN map}

\* Mutant of MapArgs: an argument with a key goes by its position as well.
MapArgsByPosition(ps, as) ==
  LET dest(i) == IF i <= ListCount(ps) THEN {i} ELSE ByName(ps, as[i].key)
      given == [i \in DOMAIN as |-> SetToSeq({To(d, <<i>>) : d \in dest(i)})]
      rest == {i \in DOMAIN as : dest(i) = {}}
      toDict == {i \in rest : as[i].key # NoKey /\ HasVarArg(ps, "DictVarArg")}
      map == FlattenSeq(given) \o VarArgsTo(ps, "ListVarArg", Ascending(rest \ toDict))
               \o VarArgsTo(ps, "DictVarArg", Ascending(toDict))
  IN  map \o NullTo(ps, Ascending(DOMAIN ps \ DestsOf(map)))

\* mapArgs(): without a key by position, with a key by name
MapArgs(ps, as) ==
  LET dest(i) == IF as[i].key = NoKey THEN {i} \cap 1..ListCount(ps) ELSE ByName(ps, as[i].key)
      given == [i \in DOMAIN as |-> SetToSeq({To(d, <<i>>) : d \in dest(i)})]
      rest == {i \in DOMAIN as : dest(i) = {}}
      toDict == {i \in rest : as[i].key # NoKey /\ HasVarArg(ps, "DictVarArg")}
      map == FlattenSeq(given) \o VarArgsTo(ps, "ListVarArg", Ascending(rest \ toDict))
               \o VarArgsTo(ps, "DictVarArg", Ascending(toDict))
  IN  map \o NullTo(ps, Ascending(DOMAIN ps \ DestsOf(map)))

\* mapReturns(): the keys first, then what is left by position
MapReturns(ps, as) ==
  LET byKey == SelectSeq([i \in DOMAIN as |-> i], LAMBDA i : ByName(ps, as[i].key) # {})
      keyed == [k \in DOMAIN byKey |-> To(CHOOSE d \in ByName(ps, as[byKey[k]].key) : TRUE, <<byKey[k]>>)]
      dests == Ascending(1..ListCount(ps) \ DestsOf(keyed))
      sources == Ascending(DOMAIN as \ ToSet(byKey))
      n == IF Len(dests) < Len(sources) THEN Len(dests) ELSE Len(sources)
      rest == {sources[k] : k \in n + 1..Len(sources)}
      toDict == {i \in rest : as[i].key # NoKey /\ HasVarArg(ps, "DictVarArg")}
      map == keyed \o [k \in 1..n |-> To(dests[k], <<sources[k]>>)]
               \o VarArgsTo(ps, "ListVarArg", Ascending(rest \ toDict))
               \o VarArgsTo(ps, "DictVarArg", Ascending(toDict))
  IN  map \o NullTo(ps, Ascending(DOMAIN ps \ DestsOf(map)))

-----------------------------------------------------------------------------
\* checkTupleAsArgOrThrow(): what a call passes has its keys at the end.
IsArguments(as) == \A i \in DOMAIN as : \A j \in DOMAIN as : i < j /\ as[i].key # NoKey => as[j].key # NoKey

UsedOnce(ps, as, map) ==
  /\ \A d \in DOMAIN ps : Cardinality({k \in DOMAIN map : map[k].dest = d}) = 1
  /\ \A i \in DOMAIN as : Cardinality({k \in DOMAIN map : i \in ToSet(map[k].sources)}) <= 1

\* The method that matches() finds can be called with what mapArgs() makes of the arguments
\* (importMethodArguments()): each parameter is given once, an argument is dropped only if
\* nothing can take it, and what is missing has a default value.
Callable(ps, as) ==
  Matches(ps, as) =>
    LET map == MapArgs(ps, as)
    IN  /\ UsedOnce(ps, as, map)
        /\ \A i \in DOMAIN as : \E k \in DOMAIN map : i \in ToSet(map[k].sources)
        /\ \A k \in DOMAIN map : map[k].sources = <<>> =>
             ps[map[k].dest].type \in VarArgs \/ ps[map[k].dest].default # "no"
        /\ \A k \in DOMAIN map : Keyed(ps[map[k].dest]) =>
             \A s \in ToSet(map[k].sources) : Assignable(ps[map[k].dest], as[s])

\* What Callable does not hold for: a parameter that is given by position and by key, an
\* array-style parameter without a default after one that has one, and an argument whose
\* class does not fit its position when a variadic parameter could take it.
GivenTwice(ps, as) ==
  \E i \in DOMAIN as : \E j \in DOMAIN as :
    i < j /\ as[j].key # NoKey /\ (as[i].key = as[j].key \/ (as[i].key = NoKey /\ i \in ByName(ps, as[j].key)))
RequiredAfterDefault(ps) ==
  \E i \in DOMAIN ps : \E j \in DOMAIN ps :
    i < j /\ IsList(ps[i]) /\ IsList(ps[j]) /\ ps[i].default # "no" /\ ps[j].default = "no"
Misplaced(ps, as) ==
  HasVarArg(ps, "ListVarArg") /\ \E i \in DOMAIN as :
    as[i].key = NoKey /\ i <= ListCount(ps) /\ ~Assignable(ps[i], as[i])

\* Values are assigned to a tuple once each, keys first and the others in order
\* (mapReturns()): what has a key of a destination goes there.
Distributed(ps, as) ==
  LET map == MapReturns(ps, as)
      source(d) == CHOOSE k \in DOMAIN map : map[k].dest = d
      positional(d) == IsList(ps[d]) /\ \A i \in DOMAIN as : d \notin ByName(ps, as[i].key)
  IN  /\ UsedOnce(ps, as, map)
      /\ \A i \in DOMAIN as : \A d \in ByName(ps, as[i].key) : map[source(d)].sources = <<i>>
      /\ \A d, e \in {d \in DOMAIN ps : positional(d)} : d < e /\ map[source(e)].sources # <<>> =>
           map[source(d)].sources # <<>> /\ map[source(d)].sources[1] < map[source(e)].sources[1]
      /\ HasVarArg(ps, "ListVarArg") =>
           \A i \in DOMAIN as : \E k \in DOMAIN map : i \in ToSet(map[k].sources)
=============================================================================
