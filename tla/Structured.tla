----------------------------- MODULE Structured -----------------------------
(***************************************************************************)
(* What a script means, block by block, whatever the frames: the reference *)
(* for Frames.  A state s has the outcomes that are left (in), the         *)
(* expressions evaluated (out) and how the last statement has ended; c     *)
(* lists what the statement is in, up to its function.                     *)
(***************************************************************************)
EXTENDS Frames

Normal == [type |-> "normal", to |-> None]
Throwing(ex) == [type |-> "throw", to |-> ex]
Ended(s, type, to) == [s EXCEPT !.how = [type |-> type, to |-> to]]
Goes(s) == s.how = Normal

\* The value of an expression, or its exception
Value(s) ==
  IF s.in = <<>> THEN Ended(s, "starved", None)
  ELSE LET o == Head(s.in)
       IN  [s EXCEPT !.in = Tail(@),
                     !.how = IF o \in Exception THEN Throwing(o) ELSE [type |-> o, to |-> None]]
Ok(s) == s.how.type = "ok"
Holds(s) == s.how.type = "true"
Fails(s) == s.how.type = "false"
Going(s) == [s EXCEPT !.how = Normal]

InFinally(c) == \E i \in DOMAIN c : c[i].type = "finally"
Loop(n) == [type |-> "loop", label |-> n.label]
Targets(n, c) ==
  {i \in DOMAIN c : \/ c[i].type = "loop" /\ n.label \in {None, c[i].label}
                    \/ c[i].type = "switch" /\ n.type = "Break" /\ n.label = None}

JumpOf(n, c, s) ==
  LET to == LastOf(Targets(n, c))
  IN  IF \E i \in to + 1..Len(c) : c[i].type = "finally" THEN Ended(s, "throw", Unsupported)
      ELSE IF to = 0 THEN Ended(s, "throw", NoTarget(n))
      ELSE Ended(s, n.type, to)

Statements(body) == SelectSeq(body, LAMBDA n : n.type \notin {"Catch", "Finally"})
CatchesFor(body, ex) ==
  SelectSeq(body, LAMBDA n : n.type = "Catch" /\ ex \in n.classes)

RECURSIVE Exec(_, _, _, _), Sequence(_, _, _, _), Block(_, _, _, _), Choice(_, _, _, _),
          WhileLoop(_, _, _), ForLoop(_, _, _), Cases(_, _, _, _), Imports(_, _), Package(_, _)

\* A finally block, which replaces how its block has ended only by an exception. One
\* exception at a time: a second one ends the thread.
Finish(body, c, s) ==
  IF s.how.type \in {"abort", "starved"} \/ body = <<>> \/ body[Len(body)].type # "Finally" THEN s
  ELSE LET f == Block(body[Len(body)].body, Append(c, [type |-> "finally", label |-> None]), None, Going(s))
       IN  IF Goes(f) THEN [f EXCEPT !.how = s.how]
           ELSE IF f.how.type = "throw" /\ s.how.type = "throw" THEN Ended(f, "abort", None)
           ELSE f

\* What has been executed of a body, with the handlers at its end
Handled(body, c, s) ==
  LET hs == IF s.how.type = "throw" THEN CatchesFor(body, s.how.to) ELSE <<>>
  IN  Finish(body, c, IF hs = <<>> THEN s ELSE Block(hs[1].body, c, s.how.to, Going(s)))

Block(body, c, thrown, s) == Handled(body, c, Sequence(Statements(body), c, thrown, s))

Sequence(ns, c, thrown, s) ==
  IF ns = <<>> \/ ~Goes(s) THEN s
  ELSE Sequence(Tail(ns), c, thrown, Exec(Head(ns), c, thrown, s))

\* if, else if, else: the conditions in turn
Choice(branches, c, s, first) ==
  IF branches = <<>> THEN s
  ELSE IF ~first /\ branches[1].isElse THEN Block(branches[1].body, c, None, s)
  ELSE LET v == Value(s)
       IN  IF Holds(v) THEN Block(branches[1].body, c, None, Going(v))
           ELSE IF Fails(v) THEN Choice(Tail(branches), c, Going(v), FALSE)
           ELSE v

\* The body of a loop once: does the loop go on?
Once(n, c, s) == Block(n.body, Append(c, Loop(n)), None, s)
Continues(s, c) == Goes(s) \/ s.how = [type |-> "Continue", to |-> Len(c) + 1]
Leave(s, c) == IF s.how = [type |-> "Break", to |-> Len(c) + 1] THEN Going(s) ELSE s

WhileLoop(n, c, s) ==
  LET v == Value(s)
      b == Once(n, c, Going(v))
  IN  IF Fails(v) THEN Going(v)
      ELSE IF ~Holds(v) THEN v
      ELSE IF Continues(b, c) THEN WhileLoop(n, c, Going(b)) ELSE Leave(b, c)

\* hasNext() and next(), once the iterator is there
ForLoop(n, c, s) ==
  LET v == Value(s)
      x == Value(v)
      b == Once(n, c, Going(x))
  IN  IF Fails(v) THEN Going(v)
      ELSE IF ~Holds(v) THEN v
      ELSE IF ~Ok(x) THEN x
      ELSE IF Continues(b, c) THEN ForLoop(n, c, Going(b)) ELSE Leave(b, c)

\* The first case that matches, with the first body from there on
Cases(ns, c, s, taken) ==
  IF ns = <<>> THEN s
  ELSE LET v == IF taken \/ ns[1].type = "Default" THEN Ended(s, "true", None) ELSE Value(s)
       IN  IF Fails(v) THEN Cases(Tail(ns), c, Going(v), FALSE)
           ELSE IF ~Holds(v) THEN v
           ELSE IF ns[1].body = <<>> THEN Cases(Tail(ns), c, Going(v), TRUE)
           ELSE Block(ns[1].body, c, None, Going(v))

Exec(n, c, thrown, s) ==
  LET v == Value(s) IN
  CASE n.type = "Import" -> s
    [] n.type = "Expression" -> IF Ok(v) THEN Going([v EXCEPT !.out = Append(@, n.name)]) ELSE v
    [] n.type = "Call" ->
         IF ~Ok(v) THEN v
         ELSE LET r == Block(n.def.body, <<>>, None, Going(v))
              IN  IF r.how.type = "return" THEN Going(r) ELSE r
    [] n.type = "Return" ->
         IF n.hasValue /\ ~Ok(v) THEN v
         ELSE LET s1 == IF n.hasValue THEN v ELSE s
              IN  IF InFinally(c) THEN Ended(s1, "throw", Unsupported) ELSE Ended(s1, "return", None)
    [] n.type = "Throw" ->
         IF n.hasValue THEN (IF Ok(v) THEN Ended(v, "throw", n.exception) ELSE v)
         ELSE IF thrown = None THEN Ended(s, "abort", None) ELSE Ended(s, "throw", thrown)
    [] n.type \in {"Break", "Continue"} -> JumpOf(n, c, s)
    [] n.type \in {"Do", "Sync"} -> Block(n.body, c, None, s)
    [] n.type = "IfGroup" -> Choice(n.body, c, s, TRUE)
    [] n.type = "While" -> WhileLoop(n, c, s)
    [] n.type = "For" ->
         LET i == Value(v)
         IN  IF ~Ok(v) THEN v ELSE IF ~Ok(i) THEN i ELSE ForLoop(n, c, Going(i))
    [] n.type = "Switch" ->
         LET in == Append(c, [type |-> "switch", label |-> None])
         IN  IF ~Ok(v) THEN v
             ELSE Leave(Handled(n.body, in, Cases(Statements(n.body), in, Going(v), FALSE)), c)

\* Packages that are imported come first; an exception that leaves one ends the thread.
Imports(ps, s) ==
  IF ps = <<>> \/ ~Goes(s) THEN s
  ELSE LET p == Package(ps[1], s)
       IN  Imports(Tail(ps), IF p.how.type = "throw" THEN Ended(p, "abort", None) ELSE p)

Package(n, s) ==
  LET i == Imports(n.imports, s)
      b == Block(n.body, <<>>, None, i)
      r == IF Goes(b) /\ n.init # <<>> THEN Block(n.init[1].body, <<>>, None, b) ELSE b
  IN  IF ~Goes(i) THEN i ELSE IF r.how.type = "return" THEN Going(r) ELSE r

Meaning == Package(script, [in |-> outcomes, out |-> <<>>, how |-> Normal])

MeaningResult ==
  CASE Meaning.how.type = "throw" -> Meaning.how.to
    [] Meaning.how.type = "normal" -> "ended"
    [] OTHER -> Meaning.how.type

-----------------------------------------------------------------------------
\* What the frames have executed is what the blocks of the script mean: the same
\* expressions in the same order, each finally block once, the same end (stepRun(),
\* consumeException(), the three statements that jump); but for jumps out of a function and
\* for exceptions in a finally block that a jump has started, which go another way.
Agrees ==
  result # None /\ ~crossed /\ ~overtaken =>
    trace = Meaning.out /\ result = MeaningResult /\ Meaning.in = <<>>

\* A script whose conditions hold a bounded number of times ends: no unwinding goes round.
Terminates == <>(result # None)
=============================================================================
