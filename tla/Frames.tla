------------------------------- MODULE Frames -------------------------------
(***************************************************************************)
(* The statements of a script (chatra_core/Thread.cpp): Thread::stepRun()  *)
(* works on a stack of frames, one for each block that is being executed,  *)
(* and break, continue, return and exceptions unwind it by way of the      *)
(* finally blocks.                                                         *)
(*                                                                         *)
(* Nodes are records with a type, a body (Node::blockNodes, catch and      *)
(* finally nodes at its end) and what their type needs.  The values of     *)
(* expressions are open: an evaluation yields TRUE, FALSE or an exception, *)
(* at most MaxThrows of these and MaxTrue conditions that hold.            *)
(***************************************************************************)
EXTENDS Integers, Sequences, FiniteSets

CONSTANTS
  Node,      \* the nodes that the parser makes of scripts
  Script,    \* the scripts considered, nodes of type "ScriptRoot"
  Exception, \* classes of exceptions that expressions throw
  MaxThrows, \* bound on the exceptions thrown by expressions
  MaxTrue,   \* bound on the conditions that hold
  Special    \* the first phase beyond those that count statements

Roots   == {n \in Node : n.type = "ScriptRoot"}
Methods == {n \in Node : n.type = "Def"}

\* What the parser makes: cases are in a switch only (structureInnerNode()), the branches of
\* a group follow its first one, and no block has as many statements as there are phases.
ASSUME NodeAssumption ==
  /\ Special \in Nat /\ Script \subseteq Roots
  /\ \A n \in Node :
       /\ n.type # "Residential"
       /\ n.body \in Seq(Node) /\ Len(n.body) < Special
       /\ \A i \in DOMAIN n.body : n.body[i].type = "Case" => n.type = "Switch"
       /\ n.type = "IfGroup" => n.body # <<>>
       /\ n.type = "Call" => n.def \in Methods
       /\ n.type = "Throw" /\ n.hasValue => n.exception \in Exception
       /\ n.type = "ScriptRoot" => n.imports \in Seq(Roots) /\ n.init \in Seq(Methods)

VARIABLES
  script,    \* the script that runs
  frames,    \* Thread::frames, of the residential ones the upper
  result,    \* how the thread has ended
  outcomes,  \* history: the outcome of each evaluation
  trace,     \* history: the expressions evaluated
  crossed,   \* history: break or continue has left a function for a loop of its caller
  overtaken  \* history: an exception has left a finally block run for a jump

vars == <<script, frames, result, outcomes, trace, crossed, overtaken>>

None == "none"
Unsupported == "UnsupportedOperationException"
IllegalArgument == "IllegalArgumentException"

\* A frame. A Method frame stands for itself and the one of its package below.
\* todo is what is on Frame::stack: an expression with what is done with its value.
NewFrame(node, phase) ==
  [node |-> node, phase |-> phase, popCount |-> 1, todo |-> None, arg |-> TRUE,
   exception |-> None, caught |-> None, forJump |-> FALSE]

(* Phases beyond those that count statements (Runtime.h, namespace Phase). *)
ScriptRoot_Initial == Special
ScriptRoot_InitCall1 == Special + 1
IfGroup_Base0 == Special
Case_Base == Special
Case_Check0 == Special + 1
Switch_Base0 == Special
While_Continue == Special
While_Condition0 == Special + 1
While_Condition1 == Special + 2
For_Begin == Special
For_CallIterator == Special + 1
For_PrepareLoop == Special + 2
For_BeginLoop == Special + 3
For_AssignLoopVariables == Special + 4
For_EnterLoop == Special + 5

Top == frames[Len(frames)]
Body(f) == f.node.body
HasFinally(f) == Body(f) # <<>> /\ Body(f)[Len(Body(f))].type = "Finally"
IsLoop(f) == f.node.type \in {"For", "While"}
IsBlock(f) == f.node.type \notin {"Residential", "ScriptRoot", "Def"}
PhaseOnContinue(f) == IF f.node.type = "For" THEN For_BeginLoop ELSE While_Continue

Residential == [type |-> "Residential", body |-> <<>>]
Running == result = None /\ Len(frames) > 1
WithTop(f) == [frames EXCEPT ![Len(frames)] = f]
Below(n) == SubSeq(frames, 1, n)
LastOf(S) == CHOOSE i \in S \cup {0} : \A j \in S : j <= i

------------------------------------------------------------------------------
Init ==
  /\ script \in Script
  /\ frames = <<NewFrame(Residential, 0), NewFrame(script, ScriptRoot_Initial)>>
  /\ result = None
  /\ outcomes = <<>> /\ trace = <<>>
  /\ crossed = FALSE /\ overtaken = FALSE

------------------------------------------------------------------------------
(* Unwinding.                                                              *)

\* pop(): the frame on top with those it covers
Popped == Below(Len(frames) - Top.popCount)

\* Mutant of FinallyFrame: the block itself is counted twice.
FinallyFrameCounted(f, count) ==
  [NewFrame(Body(f)[Len(Body(f))], 0) EXCEPT !.popCount = count + 1, !.forJump = TRUE]

FinallyFrame(f, count) ==
  [NewFrame(Body(f)[Len(Body(f))], 0) EXCEPT !.popCount = count, !.forJump = TRUE]

\* Mutant of PopTo: only the innermost finally block is run.
PopToInnermost(target, first) ==
  LET count == LastOf({target} \cup {i \in target + 1..Len(frames) : HasFinally(frames[i])})
      last  == LastOf({i \in first..count : HasFinally(frames[i])})
  IN  Below(count) \o (IF last = 0 THEN <<>>
                       ELSE <<FinallyFrame(frames[last], 1 + count - target)>>)

\* pop(targetSize, scheme): what has no finally block goes from the top, and the
\* finally blocks of what is left are put above it, the innermost on top. The outermost
\* takes all of it with it. (A jump never passes a frame with another popCount than 1.)
PopTo(target, first) ==
  LET count   == LastOf({target} \cup {i \in target + 1..Len(frames) : HasFinally(frames[i])})
      final   == {i \in first..count : HasFinally(frames[i])}
      finals  == [k \in 1..Cardinality(final) |->
                    CHOOSE i \in final : Cardinality({j \in final : j < i}) = k - 1]
  IN  Below(count) \o [k \in DOMAIN finals |->
        FinallyFrame(frames[finals[k]], IF k = 1 THEN 1 + count - target ELSE 1)]

\* Mutant of FirstHandler: catch blocks of the same statement handle their own exceptions.
FirstHandlerAny(f) == IF f.phase > Len(Body(f)) THEN Len(Body(f)) + 1 ELSE 1

\* The catch block for an exception, or the finally block: consumeException() looks at
\* the body from the start, unless the exception comes from one of them or from
\* an expression of the statement itself.
FirstHandler(f) ==
  IF f.phase > Len(Body(f)) THEN Len(Body(f)) + 1
  ELSE IF f.phase = 0 THEN 1
  ELSE CASE Body(f)[f.phase].type = "Catch" ->
              IF HasFinally(f) THEN Len(Body(f)) ELSE Len(Body(f)) + 1
         [] Body(f)[f.phase].type = "Finally" -> Len(Body(f)) + 1
         [] OTHER -> 1

Handlers(f) ==
  {i \in FirstHandler(f)..Len(Body(f)) :
     \/ Body(f)[i].type = "Finally"
     \/ Body(f)[i].type = "Catch" /\ f.exception \in Body(f)[i].classes}

Handler(f) ==
  LET hs == Handlers(f)
  IN  IF hs = {} THEN 0 ELSE CHOOSE i \in hs : \A j \in hs : i <= j

\* raiseException(): what was to be evaluated is dropped.
Raise(ex) == frames' = WithTop([Top EXCEPT !.exception = ex, !.todo = None])

\* consumeException(): a catch block of the frame
CatchException ==
  LET f == Top  h == Handler(f)
  IN  /\ Running /\ f.todo = None /\ f.exception # None
      /\ h # 0 /\ Body(f)[h].type = "Catch"
      /\ frames' = WithTop([f EXCEPT !.phase = h, !.exception = None])
                     \o <<[NewFrame(Body(f)[h], 0) EXCEPT !.caught = f.exception]>>
      /\ UNCHANGED <<script, result, outcomes, trace, crossed, overtaken>>

\* consumeException(): the exception goes to the frame below, which waits for the
\* finally block if there is one. An exception there already, or the import of a
\* package, ends the thread.
PassException ==
  LET f == Top  h == Handler(f)  n == Len(frames) - f.popCount
  IN  /\ Running /\ f.todo = None /\ f.exception # None
      /\ h # 0 => Body(f)[h].type = "Finally"
      /\ overtaken' = (overtaken \/ f.forJump)
      /\ IF frames[n].exception # None \/ frames[n].todo = "import"
           THEN result' = "abort" /\ UNCHANGED frames
           ELSE LET passed == [frames EXCEPT
                      ![n].exception = f.exception, ![n].todo = None,
                      ![Len(frames)].exception = None, ![Len(frames)].caught = None]
                IN  /\ frames' = IF h = 0 THEN SubSeq(passed, 1, n)
                                 ELSE passed \o <<[NewFrame(Body(f)[h], 0)
                                        EXCEPT !.popCount = 1 + f.popCount]>>
                    /\ UNCHANGED result
      /\ UNCHANGED <<script, outcomes, trace, crossed>>
------------------------------------------------------------------------------
(* Evaluation: resumeExpression() with what waits for the value.           *)

Thrown == Cardinality({i \in DOMAIN outcomes : outcomes[i] \in Exception})
Trues  == Cardinality({i \in DOMAIN outcomes : outcomes[i] = "true"})

\* An expression that is a condition, and not the value of a statement
IsCondition(f) ==
  \/ f.node.type = "IfGroup" /\ f.phase > IfGroup_Base0
  \/ f.node.type = "While" /\ f.phase = While_Condition1
  \/ f.node.type = "For" /\ f.phase = For_AssignLoopVariables
  \/ f.node.type = "Case" /\ f.phase = Case_Check0

Outcome ==
  (IF IsCondition(Top) THEN {"false"} \cup (IF Trues < MaxTrue THEN {"true"} ELSE {})
                       ELSE {"ok"})
    \cup (IF Thrown < MaxThrows THEN Exception ELSE {})

\* prepareExpression(), and what else is pushed to the stack of the frame
Evaluating(f, todo) == [f EXCEPT !.phase = @ + 1, !.todo = todo]

\* The statement that is under way, of a frame that is past it
Statement(f) == Body(f)[f.phase]

\* The expression of a statement or a condition yields an exception or its value.
Evaluate(o) ==
  /\ Running /\ Top.todo \in {"value", "return", "throw", "call"}
  /\ o \in Outcome
  /\ outcomes' = Append(outcomes, o)
  /\ LET f == Top IN
     IF o \in Exception
       THEN Raise(o) /\ UNCHANGED trace
       ELSE CASE f.todo = "value" ->
                   /\ frames' = WithTop([f EXCEPT !.todo = None, !.arg = (o = "true")])
                   /\ trace' = IF f.phase <= Len(Body(f)) THEN Append(trace, Statement(f).name)
                               ELSE trace
              [] f.todo = "call" ->
                   /\ frames' = WithTop([f EXCEPT !.todo = None])
                                  \o <<NewFrame(Statement(f).def, 0)>>
                   /\ UNCHANGED trace
              [] f.todo = "throw" -> Raise(Statement(f).exception) /\ UNCHANGED trace
              [] f.todo = "return" ->
                   /\ frames' = WithTop([f EXCEPT !.todo = "returning"])
                   /\ UNCHANGED trace
  /\ UNCHANGED <<script, result, crossed, overtaken>>

------------------------------------------------------------------------------
(* Statements.                                                             *)

Quiet == UNCHANGED <<script, result, outcomes, trace, overtaken>>

AtStatement(types) ==
  /\ Running /\ Top.todo = None /\ Top.exception = None
  /\ Top.phase < Len(Body(Top))
  /\ Body(Top)[Top.phase + 1].type \in types

Next0 == Body(Top)[Top.phase + 1]
Past == [Top EXCEPT !.phase = @ + 1]

\* Expressions, return and throw with a value
Prepare ==
  /\ \/ AtStatement({"Expression", "Call"})
     \/ AtStatement({"Return", "Throw"}) /\ Next0.hasValue
  /\ frames' = WithTop(Evaluating(Top, CASE Next0.type = "Expression" -> "value"
                                         [] Next0.type = "Call" -> "call"
                                         [] Next0.type = "Return" -> "return"
                                         [] Next0.type = "Throw" -> "throw"))
  /\ UNCHANGED crossed /\ Quiet

\* Declarations, and catch blocks that nothing has been thrown for
Skip ==
  /\ AtStatement({"Import", "Catch"})
  /\ frames' = WithTop(Past)
  /\ UNCHANGED crossed /\ Quiet

\* pushBlock(): blocks, with the phase they start at and the expression they start with
Enter ==
  /\ AtStatement({"Sync", "Do", "Default", "Finally", "IfGroup", "While", "For", "Switch", "Case"})
  /\ LET f == CASE Next0.type = "IfGroup" -> Evaluating(NewFrame(Next0, IfGroup_Base0), "value")
                [] Next0.type = "While" -> Evaluating(NewFrame(Next0, While_Condition0), "value")
                [] Next0.type = "For" -> Evaluating(NewFrame(Next0, For_Begin), "value")
                [] Next0.type = "Switch" -> Evaluating(NewFrame(Next0, Switch_Base0), "value")
                [] Next0.type = "Case" -> Evaluating(NewFrame(Next0, Case_Base), "value")
                [] OTHER -> NewFrame(Next0, 0)
     IN  frames' = WithTop(Past) \o <<f>>
  /\ UNCHANGED crossed /\ Quiet

\* throw without a value, in a catch block itself
Rethrow ==
  /\ AtStatement({"Throw"}) /\ ~Next0.hasValue
  /\ IF Top.caught = None
       THEN result' = "abort" /\ UNCHANGED frames
       ELSE /\ frames' = WithTop([Past EXCEPT !.exception = Top.caught, !.caught = None])
            /\ UNCHANGED result
  /\ UNCHANGED <<script, outcomes, trace, crossed, overtaken>>

\* returnStatement(): out of the method, unless a finally block is on the way
Return ==
  /\ Running
  /\ \/ Top.todo = "returning"
     \/ AtStatement({"Return"}) /\ ~Next0.hasValue
  /\ LET method == LastOf({i \in DOMAIN frames : ~IsBlock(frames[i])})
     IN  IF \E i \in method..Len(frames) : frames[i].node.type = "Finally"
           THEN Raise(Unsupported)
           ELSE frames' = PopTo(method - 1, method)
  /\ UNCHANGED crossed /\ Quiet

\* breakStatement() and continueStatement(): the frame they look for is not looked
\* for in the function only.
JumpTargets(statement) ==
  {i \in 2..Len(frames) :
     \/ statement.type = "Break" /\ statement.label = None /\ frames[i].node.type = "Switch"
     \/ IsLoop(frames[i]) /\ statement.label \in {None, frames[i].node.label}}

NoTarget(statement) == IF statement.label = None THEN Unsupported ELSE IllegalArgument

Jump ==
  /\ AtStatement({"Break", "Continue"})
  /\ LET target == LastOf(JumpTargets(Next0))
         barred == \E i \in target + 1..Len(frames) : frames[i].node.type = "Finally"
     IN  /\ frames' =
              IF barred \/ target = 0
                THEN WithTop([Top EXCEPT !.exception =
                               IF barred THEN Unsupported ELSE NoTarget(Next0)])
                ELSE IF Next0.type = "Break" THEN PopTo(target - 1, target)
                     ELSE [PopTo(target, target) EXCEPT ![target].phase = PhaseOnContinue(frames[target])]
         /\ crossed' = (crossed \/ ((target # 0 \/ barred)
                          /\ \E i \in target + 1..Len(frames) : frames[i].node.type = "Def"))
  /\ Quiet

------------------------------------------------------------------------------
(* The end of a block.                                                     *)

AtEnd(types) ==
  /\ Running /\ Top.todo = None /\ Top.exception = None
  /\ Top.phase >= Len(Body(Top))
  /\ Top.node.type \in types

\* initializePackage(): a package is imported after the other.
StartScript ==
  /\ AtEnd({"ScriptRoot"}) /\ Top.phase = ScriptRoot_Initial
  /\ frames' = WithTop([Top EXCEPT !.phase = 0, !.todo = "import", !.arg = 1])
  /\ UNCHANGED crossed /\ Quiet

ImportPackage ==
  /\ Running /\ Top.todo = "import"
  /\ LET f == Top
     IN  frames' = IF f.arg > Len(f.node.imports)
                     THEN WithTop([f EXCEPT !.todo = None])
                     ELSE WithTop([f EXCEPT !.arg = @ + 1])
                            \o <<NewFrame(f.node.imports[f.arg], ScriptRoot_Initial)>>
  /\ UNCHANGED crossed /\ Quiet

\* The end of a script: init() of the package is called, then it is left.
EndScript ==
  /\ AtEnd({"ScriptRoot"}) /\ Top.phase # ScriptRoot_Initial
  /\ frames' = IF Top.phase # ScriptRoot_InitCall1 /\ Top.node.init # <<>>
                 THEN WithTop([Top EXCEPT !.phase = ScriptRoot_InitCall1])
                        \o <<NewFrame(Top.node.init[1], 0)>>
                 ELSE Popped
  /\ UNCHANGED crossed /\ Quiet

\* Methods and blocks that are left at their end
EndBlock ==
  /\ AtEnd({"Def", "Sync", "If", "Do", "Default", "Catch", "Finally"})
  /\ frames' = Popped
  /\ UNCHANGED crossed /\ Quiet

EndIfGroup ==
  /\ AtEnd({"IfGroup"})
  /\ LET f == Top  index == f.phase - IfGroup_Base0  \* counted from 1
         else == index < Len(Body(f)) /\ Body(f)[index + 1].type = "If" /\ Body(f)[index + 1].isElse
     IN  frames' =
           IF f.phase < IfGroup_Base0 THEN Popped
           ELSE IF f.arg THEN WithTop([f EXCEPT !.phase = Len(Body(f))]) \o <<NewFrame(Body(f)[index], 0)>>
           ELSE IF index = Len(Body(f)) THEN Popped
           ELSE IF else
             THEN WithTop([f EXCEPT !.phase = Len(Body(f))]) \o <<NewFrame(Body(f)[index + 1], 0)>>
             ELSE WithTop(Evaluating(f, "value"))
  /\ UNCHANGED crossed /\ Quiet

EndWhile ==
  /\ AtEnd({"While"})
  /\ frames' = IF Top.phase <= While_Continue
                 THEN WithTop(Evaluating([Top EXCEPT !.phase = While_Condition0], "value"))
               ELSE IF Top.arg THEN WithTop([Top EXCEPT !.phase = 0]) ELSE Popped
  /\ UNCHANGED crossed /\ Quiet

\* processFor(): the iterable, iterator(), hasNext(), and next() outside the body.
EndFor ==
  /\ AtEnd({"For"})
  /\ LET f == IF Top.phase < For_Begin THEN [Top EXCEPT !.phase = For_BeginLoop] ELSE Top
     IN  frames' = CASE f.phase = For_EnterLoop -> WithTop([f EXCEPT !.phase = 0])
                     [] f.phase = For_AssignLoopVariables /\ ~f.arg -> Popped
                     [] f.phase = For_PrepareLoop ->
                          WithTop(Evaluating([f EXCEPT !.phase = For_BeginLoop], "value"))
                     [] OTHER -> WithTop(Evaluating(f, "value"))
  /\ UNCHANGED crossed /\ Quiet

EndSwitch ==
  /\ AtEnd({"Switch"})
  /\ frames' = IF Top.phase < Switch_Base0 THEN Popped ELSE WithTop([Top EXCEPT !.phase = 0])
  /\ UNCHANGED crossed /\ Quiet

\* The node whose body is executed: empty cases go on with the next one.
CaseChain(switch, first) ==
  LET cases == {i \in first..Len(switch.body) : switch.body[i].type \in {"Case", "Default"}}
      full  == {i \in cases : switch.body[i].body # <<>>}
      run   == {i \in full : i >= first}
  IN  IF run # {} THEN CHOOSE i \in run : \A j \in run : i <= j ELSE LastOf(cases)

CatchOrFinally(f) ==
  LET hs == {i \in DOMAIN Body(f) : Body(f)[i].type \in {"Catch", "Finally"}}
  IN  IF hs = {} THEN Len(Body(f)) ELSE (CHOOSE i \in hs : \A j \in hs : i <= j) - 1

\* processSwitchCase()
EndCase ==
  /\ AtEnd({"Case"})
  /\ LET n == Len(frames)  switch == frames[n - 1]  run == CaseChain(switch.node, switch.phase)
     IN  frames' =
           IF Top.phase < Case_Base \/ ~Top.arg THEN Popped
           ELSE [frames EXCEPT ![n].node = switch.node.body[run], ![n].phase = 0,
                               ![n - 1].phase = CatchOrFinally(switch)]
  /\ UNCHANGED crossed /\ Quiet

\* finish(): what is left in the residential frame is reported.
End ==
  /\ result = None /\ Len(frames) = 1
  /\ result' = IF Top.exception # None THEN Top.exception ELSE "ended"
  /\ UNCHANGED <<script, frames, outcomes, trace, crossed, overtaken>>

------------------------------------------------------------------------------
Next ==
  \/ CatchException \/ PassException
  \/ \E o \in {"ok", "true", "false"} \cup Exception : Evaluate(o)
  \/ Prepare \/ Skip \/ Enter \/ Rethrow \/ Return \/ Jump
  \/ StartScript \/ ImportPackage \/ EndScript \/ EndBlock
  \/ EndIfGroup \/ EndWhile \/ EndFor \/ EndSwitch \/ EndCase
  \/ End
  \/ result # None /\ UNCHANGED vars  \* has ended

Spec == Init /\ [][Next]_vars
FairSpec == Spec /\ WF_vars(Next)

-----------------------------------------------------------------------------
Throwable == Exception \cup {Unsupported, IllegalArgument}  \* what can be thrown
Todo == {None, "value", "call", "throw", "return", "returning", "import"}

\* The frame that is left on top when a frame has gone with those it covers
Uncovers(fs, i) == i - fs[i].popCount

\* An exception that has been passed to a frame below waits there for exactly the finally
\* block that is to run first, and that block goes down to it (consumeException()).
Awaited(fs) ==
  \A i \in 1..Len(fs) - 1 :
    fs[i].exception # None => \E j \in i + 1..Len(fs) : fs[j].node.type = "Finally" /\ Uncovers(fs, j) = i
PendingHasFinally == Awaited(frames)

\* The stack: what a frame takes with it is above the residential frame, and what is on
\* Frame::stack is known to it (stepRun()).
TypeOK ==
  /\ frames # <<>> /\ frames[1].node = Residential
  /\ \A i \in DOMAIN frames :
       /\ frames[i].popCount \in 1..(IF i = 1 THEN 1 ELSE i - 1)
       /\ frames[i].phase \in 0..Len(Body(frames[i])) \cup Special..Special + 5 + Len(Body(frames[i]))
       /\ frames[i].todo \in Todo
       /\ i < Len(frames) => frames[i].todo \in {None, "import", "returning"}
  /\ result \in {None, "ended", "abort"} \cup Throwable
  /\ PendingHasFinally

------------------------------------------------------------------------------
(* The inductive invariant of Frames_proofs, of any stack fs.              *)

Frame ==
  [node : Node \cup {Residential}, phase : Nat, popCount : Nat \ {0}, todo : Todo,
   arg : Nat \cup BOOLEAN, exception : Throwable \cup {None}, caught : Throwable \cup {None},
   forJump : BOOLEAN]

\* The phases of a node beyond those that count statements
PhasesOf(n) ==
  CASE n.type = "IfGroup" -> Special + 1..Special + Len(n.body)
    [] n.type = "While" -> Special..Special + 2
    [] n.type = "For" -> Special..Special + 5
    [] n.type = "Case" -> {Special + 1}
    [] n.type \in {"Switch", "ScriptRoot"} -> Special..Special + 1
    [] OTHER -> {}

\* A frame by itself: what is evaluated is of the statement under way, an exception leaves
\* nothing to be done, and only finally blocks take other frames with them.
FrameOK(f) ==
  /\ f.phase \in 0..Len(f.node.body) \cup PhasesOf(f.node)
  /\ f.exception # None => f.todo = None
  /\ f.todo \in {"call", "throw", "return"} => f.phase \in 1..Len(f.node.body)
  /\ f.todo = "call" => f.node.body[f.phase].type = "Call"
  /\ f.todo = "throw" => f.node.body[f.phase].type = "Throw" /\ f.node.body[f.phase].hasValue
  /\ f.todo = "import" => f.node \in Roots /\ f.arg \in Nat \ {0}
  /\ f.popCount > 1 => f.node.type = "Finally"

\* A case whose condition is evaluated is the statement under way of the switch below.
Checking(f) == f.node.type = "Case" /\ f.phase >= Special
CaseOK(f, switch) ==
  /\ switch.node.type = "Switch" /\ switch.phase \in 1..Len(switch.node.body)
  /\ f.node = switch.node.body[switch.phase]

StackOK(fs) ==
  /\ fs \in Seq(Frame) /\ fs # <<>> /\ fs[1].node = Residential /\ fs[1].popCount = 1
  /\ \A i \in 1..Len(fs) : FrameOK(fs[i])
  /\ \A i \in 2..Len(fs) : fs[i].node \in Node /\ Uncovers(fs, i) >= 1
  /\ Len(fs) > 1 => fs[2].node \in Roots
  /\ \A i \in 1..Len(fs) - 1 : fs[i].todo \in {None, "import", "returning"}
  /\ \A i \in 2..Len(fs) : Checking(fs[i]) => CaseOK(fs[i], fs[i - 1])
  /\ \A i, j \in 2..Len(fs) : i < j => Uncovers(fs, j) >= i \/ Uncovers(fs, j) <= Uncovers(fs, i)
  /\ Awaited(fs)

IndInv == StackOK(frames) /\ result \in {None, "ended", "abort"} \cup Throwable
=============================================================================
