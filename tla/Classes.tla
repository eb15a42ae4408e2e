------------------------------ MODULE Classes ------------------------------
(***************************************************************************)
(* What a class inherits (Package::build(), Class::inheritParents() and    *)
(* MethodTable of chatra_core).  The classes of a package are initialized  *)
(* in the order of their declarations, 1, 2, 3...; each takes the          *)
(* variables and methods that its superclasses have by then.  A class h[c] *)
(* has its superclasses ("parents"), its variables, each in one of the     *)
(* sync blocks of the class or in none (NoSync), and perhaps a method m    *)
(* ("defines").                                                            *)
(***************************************************************************)
EXTENDS Naturals, Sequences, FiniteSets, SequencesExt

NoSync == 0
Classes(h) == DOMAIN h
Each(s) == FoldLeft(LAMBDA t, d : IF Contains(t, d) THEN t ELSE Append(t, d), <<>>, s)

\* Class::directParents, when c is initialized
DirectParents(h, c, d) == IF d <= c THEN h[d].parents ELSE <<>>

\* overridePrecedence: the superclasses, depth first, each as often as it is reached
Precedence(h, c) ==
  LET below[n \in 0..Len(h), d \in Classes(h)] ==
        IF n = 0 THEN <<>>
        ELSE FlattenSeq([i \in DOMAIN DirectParents(h, c, d) |->
               LET p == DirectParents(h, c, d)[i] IN <<p>> \o below[n - 1, p]])
  IN  below[Len(h), c]

\* Mutant of Inherited: a class that is reached several times keeps its first place.
InheritedFirst(h, c) == Reverse(Each(Precedence(h, c)))

\* The superclasses in the order they are inherited: backwards, each at its last place
Inherited(h, c) == Each(Reverse(Precedence(h, c)))
InitializationOrder(h, c) == Append(Inherited(h, c), c)
ParentsSet(h, c) == ToSet(Precedence(h, c))
IsAssignableFrom(h, c, d) == c = d \/ c \in ParentsSet(h, d)

-----------------------------------------------------------------------------
\* A table: "slots" are the variables in the order of their positions, "found" the classes
\* whose m is in byName, "baseSize" the number of variables that are inherited.
NoTable == [slots |-> <<>>, found |-> <<>>, baseSize |-> 0]

\* MethodTable::add(), for the variable k of class c: the first variable of a sync block is
\* the primary one of all in it.
AddVariable(h, c, t, k) ==
  LET sync == h[c].vars[k]
      position == Len(t.slots) + 1
      first == CHOOSE j \in 1..k : h[c].vars[j] = sync /\ \A i \in 1..j - 1 : h[c].vars[i] # sync
      primary == IF sync = NoSync THEN position ELSE t.baseSize + first
  IN  [t EXCEPT !.slots = Append(@, [cl |-> c, var |-> k, primary |-> primary])]

\* inherit(): what the table of class c has of c itself, moved behind what is there
InheritFrom(t, r, c) ==
  LET delta == Len(t.slots) - r.baseSize
      own == SelectSeq(r.slots, LAMBDA s : s.cl = c)
      moved == [i \in DOMAIN own |-> [own[i] EXCEPT !.primary = @ + delta]]
  IN  [slots |-> t.slots \o moved, found |-> t.found \o SelectSeq(r.found, LAMBDA d : d = c),
       baseSize |-> Len(t.slots) + Len(own)]

\* Class::initialize(): what is inherited, then the variables and methods of its own
Initialize(h, c, tables) ==
  LET inherited == FoldLeft(LAMBDA t, d : InheritFrom(t, tables[d], d), NoTable, Inherited(h, c))
      variables == FoldLeft(LAMBDA t, k : AddVariable(h, c, t, k), inherited, [k \in DOMAIN h[c].vars |-> k])
  IN  [variables EXCEPT !.found = IF h[c].defines THEN Append(@, c) ELSE @]

\* Package::build(): all classes are there, empty, before the first is initialized.
Build(h) ==
  FoldLeft(LAMBDA tables, c : [tables EXCEPT ![c] = Initialize(h, c, tables)],
           [c \in Classes(h) |-> NoTable], [c \in Classes(h) |-> c])

\* find(): the one that was added last
Find(t) == IF t.found = <<>> THEN {} ELSE {Last(t.found)}
PrimaryIndexes(t) == [i \in DOMAIN t.slots |-> t.slots[i].primary]

-----------------------------------------------------------------------------
\* What a class is by its declaration
Parents(h, S) == UNION {ToSet(h[d].parents) : d \in S}
Ancestors(h, c) == FoldLeft(LAMBDA S, d : S \cup Parents(h, S), Parents(h, {c}), h)
Family(h, c) == Ancestors(h, c) \cup {c}
Acyclic(h) == \A c \in Classes(h) : c \notin Ancestors(h, c)
DeclaredFirst(h) == \A c \in Classes(h) : \A d \in ToSet(h[c].parents) : d < c

\* A class is initialized after all its superclasses, which are initialized once each; it
\* has one variable for each that they and itself declare; the variables of a sync block
\* have one lock of their own; and m is one that no other class in between overrides.
Inherits(h) ==
  LET tables == Build(h)
  IN  \A c \in Classes(h) :
        LET order == InitializationOrder(h, c)
            t == tables[c]
            at(d, k) == {i \in DOMAIN t.slots : t.slots[i].cl = d /\ t.slots[i].var = k}
            primary(d, k) == {PrimaryIndexes(t)[i] : i \in at(d, k)}
        IN  /\ ToSet(order) = Family(h, c) /\ IsInjective(order)
            /\ \A i \in DOMAIN order : Ancestors(h, order[i]) \subseteq {order[j] : j \in 1..i - 1}
            /\ \A d \in Classes(h) : IsAssignableFrom(h, d, c) = (d \in Family(h, c))
            /\ \A d \in Classes(h) : \A k \in DOMAIN h[d].vars :
                 Cardinality(at(d, k)) = IF d \in Family(h, c) THEN 1 ELSE 0
            /\ \A d, e \in Family(h, c) : \A k \in DOMAIN h[d].vars, l \in DOMAIN h[e].vars :
                 primary(d, k) = primary(e, l) <=>
                   d = e /\ (k = l \/ (h[d].vars[k] = h[d].vars[l] /\ h[d].vars[k] # NoSync))
            /\ IF \E d \in Family(h, c) : h[d].defines
               THEN \E d \in Family(h, c) :
                      /\ Find(t) = {d} /\ h[d].defines
                      /\ \A e \in Family(h, c) : h[e].defines => d \notin Ancestors(h, e)
               ELSE Find(t) = {}
=============================================================================
