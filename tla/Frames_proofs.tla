---------------------------- MODULE Frames_proofs ----------------------------
(***************************************************************************)
(* The stack of frames keeps its shape, whatever scripts do: what a finally*)
(* block takes with it is nested, and an exception that waits for one      *)
(* finds it above (consumeException(), pop() of chatra_core/Thread.cpp).   *)
(*                                                                         *)
(* StackOK is a predicate on any stack, so that the lemmas on pushing,     *)
(* changing and popping frames can be stated once and cited for each       *)
(* action.                                                                 *)
(***************************************************************************)
EXTENDS Frames, FiniteSetTheorems, WellFoundedInduction, TLAPS

(***************************************************************************)
(* Numbers: a bounded set has a greatest element, which LastOf chooses,    *)
(* and a least one.                                                        *)
(***************************************************************************)
LEMMA LeastExists ==
  ASSUME NEW S \in SUBSET Nat, S # {}
  PROVE  \E i \in S : \A j \in S : i <= j
<1>1. \E x \in S : \A y \in S : ~(<<y, x>> \in OpToRel(<, Nat))
  BY WFMin, NatLessThanWellFounded, Zenon
<1>2. PICK x \in S : \A y \in S : ~(<<y, x>> \in OpToRel(<, Nat))
  BY <1>1
<1>3. \A y \in S : ~(y < x)
  BY <1>2, Zenon DEF OpToRel
<1>4. \A y \in S : y \in Nat /\ x \in Nat
  OBVIOUS
<1>5. \A y \in S : x <= y
  BY <1>3, <1>4
<1>. QED BY <1>5

LEMMA GreatestExists ==
  ASSUME NEW S \in SUBSET Nat, S # {}, NEW n \in Nat, \A i \in S : i <= n
  PROVE  \E i \in S : \A j \in S : j <= i
<1>. DEFINE T == {n - i : i \in S}
<1>1. T \in SUBSET Nat /\ T # {}
  <2>1. \A i \in S : i \in Nat /\ i <= n
    OBVIOUS
  <2>2. \A i \in S : n - i \in Nat
    BY <2>1
  <2>. QED BY <2>2
<1>2. PICK t \in T : \A u \in T : t <= u
  BY <1>1, LeastExists
<1>3. PICK i \in S : t = n - i
  BY <1>2
<1>4. \A j \in S : n - j \in T
  OBVIOUS
<1>. HIDE DEF T
<1>5. \A j \in S : n - i <= n - j
  BY <1>2, <1>3, <1>4
<1>6. \A j \in S : j \in Nat /\ i \in Nat
  OBVIOUS
<1>7. \A j \in S : j <= i
  BY <1>5, <1>6
<1>. QED BY <1>5

LEMMA LastOfGreatest ==
  ASSUME NEW S \in SUBSET Nat, NEW n \in Nat, \A i \in S : i <= n
  PROVE  /\ LastOf(S) \in S \cup {0}
         /\ \A j \in S : j <= LastOf(S)
<1>1. \E i \in S \cup {0} : \A j \in S : j <= i
  <2>1. CASE S = {}
    BY <2>1
  <2>2. CASE S # {}
    BY <2>2, GreatestExists
  <2>. QED BY <2>1, <2>2
<1>. QED BY <1>1 DEF LastOf

(***************************************************************************)
(* Nodes and new frames.                                                   *)
(***************************************************************************)
LEMMA NodeFacts ==
  ASSUME NEW n \in Node
  PROVE  /\ n # Residential /\ Special \in Nat
         /\ n.body \in Seq(Node) /\ Len(n.body) \in Nat /\ Len(n.body) < Special
         /\ \A i \in 1..Len(n.body) : n.body[i] \in Node
<1>1. n.type # "Residential" /\ Special \in Nat /\ n.body \in Seq(Node) /\ Len(n.body) < Special
  BY NodeAssumption
<1>2. n # Residential
  BY <1>1 DEF Residential
<1>. QED BY <1>1, <1>2

LEMMA PhaseFacts ==
  ASSUME NEW n \in Node
  PROVE  /\ \A p \in PhasesOf(n) : p \in Nat /\ p >= Special
         /\ \A p \in 0..Len(n.body) : p \in Nat /\ p < Special
         /\ \A p \in PhasesOf(n) : p \in Special..Special + 5 + Len(n.body)
<1>1. Special \in Nat /\ Len(n.body) \in Nat /\ Len(n.body) < Special
  BY NodeFacts
<1>2. \A p \in PhasesOf(n) : p \in Special..Special + 5 + Len(n.body)
  BY <1>1 DEF PhasesOf
<1>3. ASSUME NEW p \in PhasesOf(n) PROVE p \in Nat /\ p >= Special
  <2>. DEFINE m == Special + 5 + Len(n.body)
  <2>1. p \in Special..m
    BY <1>2
  <2>2. m \in Int
    BY <1>1
  <2>. HIDE DEF m
  <2>. QED BY <1>1, <2>1, <2>2
<1>4. \A p \in 0..Len(n.body) : p \in Nat /\ p < Special
  BY <1>1
<1>. QED BY <1>2, <1>3, <1>4

LEMMA NewFrameOK ==
  ASSUME NEW n \in Node, NEW p \in 0..Len(n.body) \cup PhasesOf(n)
  PROVE  /\ NewFrame(n, p) \in Frame /\ FrameOK(NewFrame(n, p))
         /\ NewFrame(n, p).node = n /\ NewFrame(n, p).phase = p /\ NewFrame(n, p).popCount = 1
         /\ NewFrame(n, p).exception = None /\ NewFrame(n, p).todo = None
<1>1. p \in Nat
  BY PhaseFacts
<1>2. NewFrame(n, p) \in Frame
  BY <1>1 DEF NewFrame, Frame, Todo
<1>. DEFINE f == NewFrame(n, p)
<1>3. /\ f.node = n /\ f.phase = p /\ f.popCount = 1 /\ f.exception = None /\ f.todo = None
  BY DEF NewFrame
<1>4. None \notin {"call", "throw", "return", "import"}
  BY DEF None
<1>. HIDE DEF f
<1>5. FrameOK(f)
  BY <1>3, <1>4 DEF FrameOK
<1>. QED BY <1>2, <1>3, <1>5 DEF f

(***************************************************************************)
(* The lemmas on any stack.                                                *)
(***************************************************************************)
LEMMA StackFacts ==
  ASSUME NEW fs, StackOK(fs)
  PROVE  /\ Len(fs) \in Nat /\ Len(fs) >= 1
         /\ \A i \in 1..Len(fs) : fs[i] \in Frame /\ FrameOK(fs[i]) /\ fs[i].popCount \in Nat /\ fs[i].popCount >= 1
         /\ \A i \in 2..Len(fs) : fs[i].node \in Node /\ Uncovers(fs, i) \in 1..i - 1
<1>1. fs \in Seq(Frame) /\ Len(fs) \in Nat /\ Len(fs) >= 1
  BY DEF StackOK
<1>2. \A i \in 1..Len(fs) : fs[i] \in Frame
  BY <1>1
<1>3. \A i \in 1..Len(fs) : fs[i].popCount \in Nat /\ fs[i].popCount >= 1
  BY <1>2 DEF Frame
<1>4. \A i \in 2..Len(fs) : Uncovers(fs, i) \in 1..i - 1
  BY <1>3 DEF StackOK, Uncovers
<1>. QED BY <1>1, <1>2, <1>3, <1>4 DEF StackOK

\* The frame on top does something that is its own affair.
LEMMA Changed ==
  ASSUME NEW fs, StackOK(fs), NEW g \in Frame, FrameOK(g),
         g.node = fs[Len(fs)].node, g.popCount = fs[Len(fs)].popCount,
         Checking(g) => g.phase = fs[Len(fs)].phase
  PROVE  StackOK([fs EXCEPT ![Len(fs)] = g])
<1>. DEFINE L == Len(fs)  gs == [fs EXCEPT ![L] = g]
<1>1. fs \in Seq(Frame) /\ L \in Nat /\ L >= 1
  BY StackFacts DEF StackOK
<1>2. gs \in Seq(Frame) /\ Len(gs) = L /\ \A i \in 1..L : gs[i] = IF i = L THEN g ELSE fs[i]
  BY <1>1
<1>3. \A i \in 1..L : gs[i].node = fs[i].node /\ gs[i].popCount = fs[i].popCount
  BY <1>2
<1>4. \A i \in 1..L : Uncovers(gs, i) = Uncovers(fs, i)
  BY <1>3 DEF Uncovers
<1>. HIDE DEF gs, L
<1>5. \A i \in 1..L : FrameOK(gs[i])
  BY <1>1, <1>2 DEF StackOK, L
<1>6. \A i \in 2..L : Checking(gs[i]) => CaseOK(gs[i], gs[i - 1])
  <2>. SUFFICES ASSUME NEW i \in 2..L, Checking(gs[i]) PROVE CaseOK(gs[i], gs[i - 1])
    OBVIOUS
  <2>1. gs[i - 1] = fs[i - 1] /\ i - 1 \in 1..L
    BY <1>1, <1>2
  <2>2. gs[i].node = fs[i].node /\ gs[i].phase = fs[i].phase
    BY <1>1, <1>2, <1>3 DEF L
  <2>3. Checking(fs[i])
    BY <2>2 DEF Checking
  <2>4. CaseOK(fs[i], fs[i - 1])
    BY <2>3 DEF StackOK, L
  <2>. QED BY <2>1, <2>2, <2>4 DEF CaseOK
<1>7. Awaited(gs)
  <2>. SUFFICES ASSUME NEW i \in 1..L - 1, gs[i].exception # None
                PROVE  \E j \in i + 1..L : gs[j].node.type = "Finally" /\ Uncovers(gs, j) = i
    BY <1>2 DEF Awaited
  <2>1. fs[i].exception # None
    BY <1>1, <1>2
  <2>2. PICK j \in i + 1..L : fs[j].node.type = "Finally" /\ Uncovers(fs, j) = i
    BY <2>1 DEF StackOK, Awaited, L
  <2>3. j \in 1..L
    BY <1>1
  <2>. QED BY <1>3, <1>4, <2>2, <2>3
<1>8. gs # <<>> /\ gs[1].node = Residential /\ gs[1].popCount = 1
  BY <1>1, <1>2, <1>3 DEF StackOK, L
<1>9. \A i \in 2..L : gs[i].node \in Node /\ Uncovers(gs, i) >= 1
  BY <1>1, <1>3, <1>4 DEF StackOK, L
<1>10. L > 1 => gs[2].node \in Roots
  BY <1>1, <1>3 DEF StackOK, L
<1>11. \A i \in 1..L - 1 : gs[i].todo \in {None, "import", "returning"}
  BY <1>1, <1>2 DEF StackOK, L
<1>12. \A i, j \in 2..L : i < j => Uncovers(gs, j) >= i \/ Uncovers(gs, j) <= Uncovers(gs, i)
  BY <1>1, <1>4 DEF StackOK, L
<1>13. StackOK(gs)
  BY <1>2, <1>5, <1>6, <1>7, <1>8, <1>9, <1>10, <1>11, <1>12 DEF StackOK
<1>. QED BY <1>13 DEF gs, L
\* Where a new frame may go down to: it cuts through no other one.
Clear(fs, n) == n \in 1..Len(fs) /\ \A i \in 2..Len(fs) : n >= i \/ n <= Uncovers(fs, i)

LEMMA ClearTop ==
  ASSUME NEW fs, StackOK(fs)
  PROVE  /\ Clear(fs, Len(fs))
         /\ Len(fs) > 1 => Clear(fs, Uncovers(fs, Len(fs)))
<1>. DEFINE L == Len(fs)
<1>1. L \in Nat /\ L >= 1 /\ \A i \in 2..L : Uncovers(fs, i) \in 1..i - 1
  BY StackFacts
<1>2. \A i, j \in 2..L : i < j => Uncovers(fs, j) >= i \/ Uncovers(fs, j) <= Uncovers(fs, i)
  BY DEF StackOK
<1>3. Clear(fs, L)
  BY <1>1 DEF Clear
<1>4. ASSUME L > 1 PROVE Clear(fs, Uncovers(fs, L))
  <2>. DEFINE n == Uncovers(fs, L)
  <2>1. L \in 2..L /\ n \in 1..L - 1
    BY <1>1, <1>4
  <2>2. \A i \in 2..L : i < L => n >= i \/ n <= Uncovers(fs, i)
    BY <1>2, <2>1
  <2>3. \A i \in 2..L : i = L => n <= Uncovers(fs, i)
    BY <1>1
  <2>4. n \in 1..L
    BY <1>1, <2>1
  <2>. HIDE DEF n
  <2>5. \A i \in 2..L : n >= i \/ n <= Uncovers(fs, i)
    BY <1>1, <2>2, <2>3
  <2>. QED BY <2>4, <2>5 DEF Clear, n
<1>. QED BY <1>3, <1>4

\* A frame is pushed on one that is not about to evaluate or to throw anything.
LEMMA Pushed ==
  ASSUME NEW fs, StackOK(fs), Len(fs) > 1,
         fs[Len(fs)].exception = None, fs[Len(fs)].todo \in {None, "import", "returning"},
         NEW g \in Frame, FrameOK(g), g.node \in Node, Clear(fs, (Len(fs) + 1) - g.popCount),
         Checking(g) => CaseOK(g, fs[Len(fs)])
  PROVE  StackOK(fs \o <<g>>)
<1>. DEFINE L == Len(fs)  gs == fs \o <<g>>
<1>1. fs \in Seq(Frame) /\ L \in Nat /\ L >= 2
  BY StackFacts DEF StackOK
<1>2. gs \in Seq(Frame) /\ Len(gs) = L + 1
  BY <1>1
<1>3. (\A i \in 1..L : gs[i] = fs[i]) /\ gs[L + 1] = g
  BY <1>1
<1>. DEFINE m == (L + 1) - g.popCount
<1>m. m \in 1..L /\ \A i \in 2..L : m >= i \/ m <= Uncovers(fs, i)
  BY DEF Clear
<1>. HIDE DEF gs, L, m
<1>4. /\ \A i \in 1..L : Uncovers(gs, i) = Uncovers(fs, i) /\ Uncovers(gs, i) \in Int
      /\ Uncovers(gs, L + 1) = m
  <2>1. \A i \in 1..L : fs[i].popCount \in Nat
    BY StackFacts DEF L
  <2>2. \A i \in 1..L : i - fs[i].popCount \in Int
    BY <1>1, <2>1
  <2>3. \A i \in 1..L : Uncovers(gs, i) = Uncovers(fs, i) /\ Uncovers(gs, i) \in Int
    BY <1>3, <2>2 DEF Uncovers
  <2>4. Uncovers(gs, L + 1) = m
    <3>1. gs[L + 1] = g /\ g.popCount \in Nat
      BY <1>3 DEF Frame
    <3>2. Uncovers(gs, L + 1) = (L + 1) - gs[L + 1].popCount
      BY Zenon DEF Uncovers
    <3>. QED BY <3>1, <3>2, Zenon DEF m
  <2>. QED BY <2>3, <2>4
<1>5. \A i \in 1..L + 1 : FrameOK(gs[i])
  BY <1>1, <1>3 DEF StackOK, L
<1>6. \A i \in 2..L + 1 : Checking(gs[i]) => CaseOK(gs[i], gs[i - 1])
  <2>1. \A i \in 2..L : Checking(fs[i]) => CaseOK(fs[i], fs[i - 1])
    BY DEF StackOK, L
  <2>2. \A i \in 2..L : gs[i] = fs[i] /\ gs[i - 1] = fs[i - 1]
    BY <1>1, <1>3
  <2>3. (L + 1) - 1 = L /\ L \in 1..L
    BY <1>1
  <2>4. Checking(gs[L + 1]) => CaseOK(gs[L + 1], gs[(L + 1) - 1])
    BY <1>3, <2>3 DEF L
  <2>5. \A i \in 2..L + 1 : i \in 2..L \/ i = L + 1
    BY <1>1
  <2>6. \A i \in 2..L : Checking(gs[i]) => CaseOK(gs[i], gs[i - 1])
    BY <2>1, <2>2
  <2>. QED BY <2>4, <2>5, <2>6, Zenon
<1>7. Awaited(gs)
  <2>. SUFFICES ASSUME NEW i \in 1..L, gs[i].exception # None
                PROVE  \E j \in i + 1..L + 1 : gs[j].node.type = "Finally" /\ Uncovers(gs, j) = i
    BY <1>1, <1>2 DEF Awaited
  <2>1. fs[i].exception # None /\ i # L
    BY <1>3 DEF L
  <2>2. i \in 1..L - 1
    BY <1>1, <2>1
  <2>3. PICK j \in i + 1..L : fs[j].node.type = "Finally" /\ Uncovers(fs, j) = i
    BY <2>1, <2>2 DEF StackOK, Awaited, L
  <2>4. j \in 1..L /\ j \in i + 1..L + 1
    BY <1>1
  <2>. QED BY <1>3, <1>4, <2>3, <2>4
<1>8. gs # <<>> /\ gs[1].node = Residential /\ gs[1].popCount = 1
  BY <1>1, <1>2, <1>3 DEF StackOK
<1>9. \A i \in 2..L + 1 : gs[i].node \in Node /\ Uncovers(gs, i) >= 1
  <2>1. \A i \in 2..L : gs[i].node \in Node /\ Uncovers(gs, i) >= 1
    BY <1>1, <1>3, <1>4 DEF StackOK, L
  <2>2. gs[L + 1].node \in Node /\ Uncovers(gs, L + 1) >= 1
    BY <1>1, <1>3, <1>4, <1>m
  <2>. QED BY <1>1, <2>1, <2>2
<1>10. gs[2].node \in Roots
  BY <1>1, <1>3 DEF StackOK, L
<1>11. \A i \in 1..L : gs[i].todo \in {None, "import", "returning"}
  <2>1. \A i \in 1..L - 1 : fs[i].todo \in {None, "import", "returning"}
    BY DEF StackOK, L
  <2>2. fs[L].todo \in {None, "import", "returning"}
    BY DEF L
  <2>. QED BY <1>1, <1>3, <2>1, <2>2
<1>12. \A i, j \in 2..L + 1 : i < j => Uncovers(gs, j) >= i \/ Uncovers(gs, j) <= Uncovers(gs, i)
  <2>1. \A i, j \in 2..L : i < j => Uncovers(gs, j) >= i \/ Uncovers(gs, j) <= Uncovers(gs, i)
    BY <1>1, <1>4 DEF StackOK, L
  <2>2. \A i \in 2..L : Uncovers(gs, L + 1) >= i \/ Uncovers(gs, L + 1) <= Uncovers(gs, i)
    BY <1>1, <1>4, <1>m, SMTT(20)
  <2>3. \A i, j \in 2..L + 1 : i < j => i \in 2..L /\ (j \in 2..L \/ j = L + 1)
    BY <1>1
  <2>. QED BY <2>1, <2>2, <2>3
<1>13. StackOK(gs)
  BY <1>1, <1>2, <1>5, <1>6, <1>7, <1>8, <1>9, <1>10, <1>11, <1>12 DEF StackOK
<1>. QED BY <1>13 DEF gs

\* The frames above are gone: what is left waits for nothing that has gone with them.
LEMMA Cut ==
  ASSUME NEW fs, StackOK(fs), NEW n \in 1..Len(fs),
         \A i \in 1..n - 1 : \A j \in n + 1..Len(fs) : fs[j].node.type = "Finally" => Uncovers(fs, j) # i
  PROVE  /\ StackOK(SubSeq(fs, 1, n))
         /\ Len(SubSeq(fs, 1, n)) = n /\ \A i \in 1..n : SubSeq(fs, 1, n)[i] = fs[i]
<1>. DEFINE L == Len(fs)  gs == SubSeq(fs, 1, n)
<1>1. fs \in Seq(Frame) /\ L \in Nat /\ n \in 1..L
  BY StackFacts DEF StackOK
<1>2. gs \in Seq(Frame) /\ Len(gs) = n /\ \A i \in 1..n : gs[i] = fs[i]
  BY <1>1
<1>. HIDE DEF gs, L
<1>3. \A i \in 1..n : Uncovers(gs, i) = Uncovers(fs, i) /\ i \in 1..L
  BY <1>1, <1>2 DEF Uncovers
<1>4. Awaited(gs)
  <2>. SUFFICES ASSUME NEW i \in 1..n - 1, gs[i].exception # None
                PROVE  \E j \in i + 1..n : gs[j].node.type = "Finally" /\ Uncovers(gs, j) = i
    BY <1>2 DEF Awaited
  <2>1. fs[i].exception # None /\ i \in 1..L - 1
    BY <1>1, <1>2
  <2>2. PICK j \in i + 1..L : fs[j].node.type = "Finally" /\ Uncovers(fs, j) = i
    BY <2>1 DEF StackOK, Awaited, L
  <2>3. j \notin n + 1..L
    BY <2>2 DEF L
  <2>4. j \in i + 1..n /\ j \in 1..n
    BY <1>1, <2>2, <2>3
  <2>. QED BY <1>2, <1>3, <2>2, <2>4
<1>5. \A i \in 1..n : FrameOK(gs[i])
  BY <1>2, <1>3 DEF StackOK, L
<1>6. \A i \in 2..n : Checking(gs[i]) => CaseOK(gs[i], gs[i - 1])
  <2>1. \A i \in 2..n : gs[i] = fs[i] /\ gs[i - 1] = fs[i - 1] /\ i \in 2..L
    BY <1>1, <1>2
  <2>. QED BY <2>1 DEF StackOK, L
<1>7. gs # <<>> /\ gs[1].node = Residential /\ gs[1].popCount = 1
  BY <1>1, <1>2 DEF StackOK
<1>8. \A i \in 2..n : gs[i].node \in Node /\ Uncovers(gs, i) >= 1
  <2>1. \A i \in 2..n : i \in 2..L /\ i \in 1..n
    BY <1>1
  <2>. QED BY <1>2, <1>3, <2>1 DEF StackOK, L
<1>9. n > 1 => gs[2].node \in Roots
  BY <1>1, <1>2 DEF StackOK, L
<1>10. \A i \in 1..n - 1 : gs[i].todo \in {None, "import", "returning"}
  <2>1. \A i \in 1..n - 1 : i \in 1..L - 1 /\ i \in 1..n
    BY <1>1
  <2>. QED BY <1>2, <2>1 DEF StackOK, L
<1>11. \A i, j \in 2..n : i < j => Uncovers(gs, j) >= i \/ Uncovers(gs, j) <= Uncovers(gs, i)
  <2>1. \A i \in 2..n : i \in 2..L /\ i \in 1..n
    BY <1>1
  <2>. QED BY <1>3, <2>1 DEF StackOK, L
<1>12. StackOK(gs)
  BY <1>2, <1>4, <1>5, <1>6, <1>7, <1>8, <1>9, <1>10, <1>11 DEF StackOK
<1>. QED BY <1>2, <1>12 DEF gs

\* The frame on top goes with those it covers.
LEMMA PoppedOK ==
  ASSUME NEW fs, StackOK(fs), Len(fs) > 1
  PROVE  LET n == Uncovers(fs, Len(fs))
         IN  /\ n \in 1..Len(fs) - 1
             /\ StackOK(SubSeq(fs, 1, n))
             /\ Len(SubSeq(fs, 1, n)) = n /\ \A i \in 1..n : SubSeq(fs, 1, n)[i] = fs[i]
<1>. DEFINE L == Len(fs)  n == Uncovers(fs, L)
<1>1. L \in Nat /\ L >= 2 /\ \A i \in 2..L : Uncovers(fs, i) \in 1..i - 1
  BY StackFacts
<1>2. L \in 2..L /\ n \in 1..L - 1 /\ n \in 1..L
  BY <1>1
<1>3. \A j \in 2..L : j < L => n >= j \/ n <= Uncovers(fs, j)
  BY <1>2 DEF StackOK
<1>. HIDE DEF L, n
<1>4. \A i \in 1..n - 1 : \A j \in n + 1..L : Uncovers(fs, j) # i
  <2>. SUFFICES ASSUME NEW i \in 1..n - 1, NEW j \in n + 1..L, Uncovers(fs, j) = i PROVE FALSE
    OBVIOUS
  <2>1. j \in 2..L /\ j > n /\ i < n
    BY <1>1, <1>2
  <2>2. j # L
    BY <2>1 DEF n
  <2>3. j < L
    BY <1>1, <2>1, <2>2
  <2>4. n >= j \/ n <= i
    BY <1>3, <2>1, <2>3
  <2>. QED BY <1>1, <1>2, <2>1, <2>4
<1>5. StackOK(SubSeq(fs, 1, n)) /\ Len(SubSeq(fs, 1, n)) = n /\ \A i \in 1..n : SubSeq(fs, 1, n)[i] = fs[i]
  BY <1>2, <1>4, Cut DEF L
<1>. QED BY <1>2, <1>5 DEF n, L

(***************************************************************************)
(* What the actions are made of.                                           *)
(***************************************************************************)
LEMMA TopFacts ==
  ASSUME StackOK(frames), Running
  PROVE  /\ Len(frames) \in Nat /\ Len(frames) >= 2 /\ Top = frames[Len(frames)]
         /\ Top \in Frame /\ FrameOK(Top) /\ Top.node \in Node
         /\ Top.phase \in Nat /\ Special \in Nat /\ Len(Body(Top)) \in Nat /\ Len(Body(Top)) < Special
         /\ Top.phase \notin PhasesOf(Top.node) => Top.phase \in 0..Len(Body(Top))
<1>1. Len(frames) \in Nat /\ Len(frames) >= 2
  BY StackFacts DEF Running
<1>2. Len(frames) \in 1..Len(frames) /\ Len(frames) \in 2..Len(frames)
  BY <1>1
<1>3. Top \in Frame /\ FrameOK(Top) /\ Top.node \in Node
  BY <1>2, StackFacts DEF Top
<1>4. Top.phase \in Nat
  BY <1>3 DEF Frame
<1>. QED BY <1>1, <1>3, <1>4, NodeFacts DEF Top, Body, FrameOK

\* The frame on top does something that is its own affair.
LEMMA TopChanged ==
  ASSUME StackOK(frames), Running, NEW g \in Frame, FrameOK(g),
         g.node = Top.node, g.popCount = Top.popCount, Checking(g) => g.phase = Top.phase
  PROVE  /\ StackOK(WithTop(g))
         /\ Len(WithTop(g)) = Len(frames) /\ WithTop(g)[Len(frames)] = g
         /\ \A i \in 1..Len(frames) - 1 : WithTop(g)[i] = frames[i]
<1>1. StackOK(WithTop(g))
  BY Changed DEF WithTop, Top
<1>2. frames \in Seq(Frame) /\ Len(frames) \in Nat /\ Len(frames) >= 2
  BY TopFacts DEF StackOK
<1>. QED BY <1>1, <1>2 DEF WithTop

\* And one is put above it.
LEMMA TopPushed ==
  ASSUME StackOK(frames), Running, NEW g \in Frame, FrameOK(g),
         g.node = Top.node, g.popCount = Top.popCount, Checking(g) => g.phase = Top.phase,
         g.exception = None, g.todo \in {None, "import", "returning"},
         NEW h \in Frame, FrameOK(h), h.node \in Node, h.popCount = 1, Checking(h) => CaseOK(h, g)
  PROVE  StackOK(WithTop(g) \o <<h>>)
<1>. DEFINE fs == WithTop(g)
<1>1. StackOK(fs) /\ Len(fs) = Len(frames) /\ fs[Len(frames)] = g
  BY TopChanged
<1>2. Len(frames) \in Nat /\ Len(frames) >= 2
  BY TopFacts
<1>. HIDE DEF fs
<1>3. (Len(fs) + 1) - h.popCount = Len(fs)
  BY <1>1, <1>2
<1>4. Clear(fs, (Len(fs) + 1) - h.popCount)
  BY <1>1, <1>3, ClearTop
<1>5. StackOK(fs \o <<h>>)
  BY <1>1, <1>2, <1>4, Pushed
<1>. QED BY <1>5 DEF fs

\* A frame is left at its end.
LEMMA PoppedStack ==
  ASSUME StackOK(frames), Running
  PROVE  StackOK(Popped)
<1>1. Len(frames) > 1
  BY TopFacts
<1>. QED BY <1>1, PoppedOK DEF Popped, Below, Uncovers, Top

\* No case is being checked in a phase that counts statements.
LEMMA NotChecking ==
  ASSUME NEW f, f.node \in Node, f.phase \in 0..Len(f.node.body)
  PROVE  ~Checking(f)
BY PhaseFacts, NodeFacts DEF Checking

LEMMA RaiseOK ==
  ASSUME StackOK(frames), Running, NEW ex \in Throwable, Raise(ex)
  PROVE  StackOK(frames')
<1>. DEFINE g == [Top EXCEPT !.exception = ex, !.todo = None]
<1>1. Top \in Frame /\ FrameOK(Top)
  BY TopFacts
<1>2. g \in Frame
  BY <1>1 DEF Frame, Todo
<1>3. /\ g.node = Top.node /\ g.popCount = Top.popCount /\ g.phase = Top.phase
      /\ g.exception = ex /\ g.todo = None
  BY <1>1 DEF Frame
<1>. HIDE DEF g
<1>4. FrameOK(g)
  BY <1>1, <1>3 DEF FrameOK, None
<1>5. StackOK(WithTop(g))
  BY <1>2, <1>3, <1>4, TopChanged
<1>. QED BY <1>5 DEF Raise, g

\* The frame goes past its next statement, of which something may be evaluated.
LEMMA PastOK ==
  ASSUME StackOK(frames), NEW types, AtStatement(types)
  PROVE  /\ Past \in Frame /\ FrameOK(Past) /\ ~Checking(Past)
         /\ Past.node = Top.node /\ Past.popCount = Top.popCount /\ Past.phase = Top.phase + 1
         /\ Past.exception = None /\ Past.todo = None /\ Past.caught = Top.caught
         /\ Past.phase \in 1..Len(Body(Top)) /\ Next0 = Body(Top)[Past.phase]
         /\ Next0 \in Node /\ Next0.type \in types
<1>1. /\ Running /\ Top.todo = None /\ Top.exception = None
      /\ Top.phase < Len(Body(Top)) /\ Next0.type \in types
  BY DEF AtStatement, Next0
<1>2. Top \in Frame /\ FrameOK(Top) /\ Top.node \in Node /\ Top.phase \in Nat /\ Len(Body(Top)) \in Nat
  BY <1>1, TopFacts
<1>3. Past \in Frame
  BY <1>2 DEF Past, Frame
<1>4. /\ Past.node = Top.node /\ Past.popCount = Top.popCount /\ Past.phase = Top.phase + 1
      /\ Past.exception = None /\ Past.todo = None /\ Past.caught = Top.caught
  BY <1>1, <1>2 DEF Past, Frame
<1>5. Past.phase \in 1..Len(Body(Top)) /\ Past.phase \in 0..Len(Past.node.body)
  BY <1>1, <1>2, <1>4 DEF Body
<1>6. FrameOK(Past)
  BY <1>2, <1>4, <1>5 DEF FrameOK, None
<1>7. Next0 = Body(Top)[Past.phase] /\ Next0 \in Node
  BY <1>2, <1>4, <1>5, NodeFacts DEF Next0, Body
<1>8. ~Checking(Past)
  BY <1>2, <1>4, <1>5, NotChecking
<1>. QED BY <1>1, <1>3, <1>4, <1>5, <1>6, <1>7, <1>8

(***************************************************************************)
(* Statements and evaluation.                                              *)
(***************************************************************************)
LEMMA SkipOK ==
  ASSUME StackOK(frames), Skip
  PROVE  StackOK(frames')
<1>1. AtStatement({"Import", "Catch"}) /\ frames' = WithTop(Past)
  BY DEF Skip
<1>2. Running
  BY <1>1 DEF AtStatement
<1>. QED BY <1>1, <1>2, PastOK, TopChanged

LEMMA PrepareOK ==
  ASSUME StackOK(frames), Prepare
  PROVE  StackOK(frames')
<1>1. AtStatement({"Expression", "Call", "Return", "Throw"}) /\ (Next0.type \in {"Return", "Throw"} => Next0.hasValue)
  BY DEF Prepare, AtStatement, Next0
<1>. DEFINE todo == CASE Next0.type = "Expression" -> "value"
                      [] Next0.type = "Call" -> "call"
                      [] Next0.type = "Return" -> "return"
                      [] Next0.type = "Throw" -> "throw"
            g == Evaluating(Top, todo)
<1>2. Running /\ Top \in Frame
  BY <1>1, TopFacts DEF AtStatement
<1>3. g = [Past EXCEPT !.todo = todo]
  BY <1>2 DEF Evaluating, Past, Frame
<1>4. frames' = WithTop(g)
  BY DEF Prepare
<1>5. /\ Past \in Frame /\ FrameOK(Past) /\ ~Checking(Past)
      /\ Past.node = Top.node /\ Past.popCount = Top.popCount /\ Past.exception = None
      /\ Past.phase \in 1..Len(Body(Top)) /\ Next0 = Body(Top)[Past.phase]
      /\ Next0.type \in {"Expression", "Call", "Return", "Throw"}
  BY <1>1, PastOK
<1>6. /\ todo \in {"value", "call", "return", "throw"}
      /\ todo = "call" => Next0.type = "Call"
      /\ todo = "throw" => Next0.type = "Throw"
  BY <1>5
<1>. HIDE DEF todo, g
<1>7. g \in Frame
  BY <1>3, <1>5, <1>6 DEF Frame, Todo
<1>8. /\ g.node = Top.node /\ g.popCount = Top.popCount /\ g.exception = None /\ g.todo = todo
      /\ g.phase = Past.phase
  BY <1>3, <1>5 DEF Frame
<1>9. FrameOK(g)
  BY <1>1, <1>5, <1>6, <1>8 DEF FrameOK, None, Body
<1>10. ~Checking(g)
  BY <1>5, <1>8 DEF Checking
<1>. QED BY <1>2, <1>4, <1>7, <1>8, <1>9, <1>10, TopChanged

LEMMA RethrowOK ==
  ASSUME StackOK(frames), result \in {None, "ended", "abort"} \cup Throwable, Rethrow
  PROVE  StackOK(frames') /\ result' \in {None, "ended", "abort"} \cup Throwable
<1>1. CASE Top.caught = None
  BY <1>1 DEF Rethrow
<1>2. CASE Top.caught # None
  <2>. DEFINE g == [Past EXCEPT !.exception = Top.caught, !.caught = None]
  <2>1. AtStatement({"Throw"}) /\ frames' = WithTop(g) /\ result' = result
    BY <1>2 DEF Rethrow
  <2>2. Running /\ Top \in Frame
    BY <2>1, TopFacts DEF AtStatement
  <2>3. /\ Past \in Frame /\ FrameOK(Past) /\ ~Checking(Past)
        /\ Past.node = Top.node /\ Past.popCount = Top.popCount /\ Past.todo = None
    BY <2>1, PastOK
  <2>4. g \in Frame
    BY <2>2, <2>3 DEF Frame
  <2>5. /\ g.node = Top.node /\ g.popCount = Top.popCount /\ g.todo = None /\ g.phase = Past.phase
    BY <2>3 DEF Frame
  <2>. HIDE DEF g
  <2>6. FrameOK(g) /\ ~Checking(g)
    BY <2>3, <2>5 DEF FrameOK, Checking, None
  <2>. QED BY <2>1, <2>2, <2>4, <2>5, <2>6, TopChanged
<1>. QED BY <1>1, <1>2

LEMMA EvaluateOK ==
  ASSUME StackOK(frames), NEW o, Evaluate(o)
  PROVE  StackOK(frames')
<1>. DEFINE f == Top
<1>1. Running /\ f.todo \in {"value", "return", "throw", "call"}
  BY DEF Evaluate
<1>2. f \in Frame /\ FrameOK(f) /\ f.node \in Node
  BY <1>1, TopFacts
<1>3. CASE o \in Exception
  <2>1. Raise(o) /\ o \in Throwable
    BY <1>3 DEF Evaluate, Throwable
  <2>. QED BY <1>1, <2>1, RaiseOK
<1>4. CASE o \notin Exception /\ f.todo = "value"
  <2>. DEFINE g == [f EXCEPT !.todo = None, !.arg = (o = "true")]
  <2>1. frames' = WithTop(g)
    BY <1>4 DEF Evaluate
  <2>2. g \in Frame
    BY <1>2 DEF Frame, Todo
  <2>3. /\ g.node = f.node /\ g.popCount = f.popCount /\ g.todo = None /\ g.phase = f.phase
    BY <1>2 DEF Frame
  <2>. HIDE DEF g
  <2>4. FrameOK(g)
    BY <1>2, <2>3 DEF FrameOK, None
  <2>. QED BY <1>1, <2>1, <2>2, <2>3, <2>4, TopChanged
<1>5. CASE o \notin Exception /\ f.todo = "call"
  <2>. DEFINE g == [f EXCEPT !.todo = None]  h == NewFrame(Statement(f).def, 0)
  <2>1. frames' = WithTop(g) \o <<h>>
    BY <1>5 DEF Evaluate
  <2>2. g \in Frame
    BY <1>2 DEF Frame, Todo
  <2>3. /\ g.node = f.node /\ g.popCount = f.popCount /\ g.todo = None /\ g.phase = f.phase
        /\ g.exception = f.exception
    BY <1>2 DEF Frame
  <2>4. f.exception = None /\ f.phase \in 1..Len(f.node.body) /\ f.node.body[f.phase].type = "Call"
    BY <1>2, <1>5 DEF FrameOK, None
  <2>5. Statement(f) \in Node /\ Statement(f).type = "Call"
    BY <1>2, <2>4, NodeFacts DEF Statement, Body
  <2>6. Statement(f).def \in Node /\ Statement(f).def.type = "Def"
    BY <2>5, NodeAssumption DEF Methods
  <2>7. 0 \in 0..Len(Statement(f).def.body)
    BY <2>6, NodeFacts
  <2>8. h \in Frame /\ FrameOK(h) /\ h.node = Statement(f).def /\ h.popCount = 1
    BY <2>6, <2>7, NewFrameOK
  <2>. HIDE DEF g, h
  <2>9. FrameOK(g) /\ ~Checking(h)
    BY <1>2, <2>3, <2>6, <2>8 DEF FrameOK, Checking, None
  <2>. QED BY <1>1, <2>1, <2>2, <2>3, <2>4, <2>6, <2>8, <2>9, TopPushed
<1>6. CASE o \notin Exception /\ f.todo = "throw"
  <2>1. Raise(Statement(f).exception)
    BY <1>6 DEF Evaluate
  <2>2. f.phase \in 1..Len(f.node.body) /\ f.node.body[f.phase].type = "Throw" /\ f.node.body[f.phase].hasValue
    BY <1>2, <1>6 DEF FrameOK
  <2>3. Statement(f) \in Node /\ Statement(f).type = "Throw" /\ Statement(f).hasValue
    BY <1>2, <2>2, NodeFacts DEF Statement, Body
  <2>4. Statement(f).exception \in Throwable
    BY <2>3, NodeAssumption DEF Throwable
  <2>. QED BY <1>1, <2>1, <2>4, RaiseOK
<1>7. CASE o \notin Exception /\ f.todo = "return"
  <2>. DEFINE g == [f EXCEPT !.todo = "returning"]
  <2>1. frames' = WithTop(g)
    BY <1>7 DEF Evaluate
  <2>2. g \in Frame
    BY <1>2 DEF Frame, Todo
  <2>3. /\ g.node = f.node /\ g.popCount = f.popCount /\ g.todo = "returning" /\ g.phase = f.phase
        /\ g.exception = f.exception
    BY <1>2 DEF Frame
  <2>4. f.exception = None
    BY <1>2, <1>7 DEF FrameOK, None
  <2>. HIDE DEF g
  <2>5. FrameOK(g)
    BY <1>2, <2>3, <2>4 DEF FrameOK, None
  <2>. QED BY <1>1, <2>1, <2>2, <2>3, <2>5, TopChanged
<1>. QED BY <1>1, <1>3, <1>4, <1>5, <1>6, <1>7

\* A new frame that starts with the evaluation of an expression.
LEMMA EvaluatingNew ==
  ASSUME NEW n \in Node, NEW p \in Nat, p + 1 \in PhasesOf(n)
  PROVE  LET h == Evaluating(NewFrame(n, p), "value")
         IN  h \in Frame /\ FrameOK(h) /\ h.node = n /\ h.popCount = 1 /\ h.phase = p + 1
<1>. DEFINE h == Evaluating(NewFrame(n, p), "value")
<1>1. /\ h.node = n /\ h.phase = p + 1 /\ h.popCount = 1 /\ h.exception = None /\ h.todo = "value"
  BY DEF Evaluating, NewFrame
<1>2. h \in Frame
  <2>1. NewFrame(n, p) \in Frame
    BY DEF NewFrame, Frame, Todo
  <2>2. NewFrame(n, p).phase = p
    BY DEF NewFrame
  <2>. DEFINE b == NewFrame(n, p)
  <2>3. h = [b EXCEPT !.phase = b.phase + 1, !.todo = "value"]
    BY DEF Evaluating
  <2>4. b \in Frame /\ b.phase + 1 \in Nat
    BY <2>1, <2>2
  <2>. HIDE DEF b, h
  <2>5. "value" \in Todo
    BY DEF Todo
  <2>. HIDE DEF Todo
  <2>. QED BY <2>3, <2>4, <2>5 DEF Frame
<1>. HIDE DEF h
<1>3. FrameOK(h)
  BY <1>1 DEF FrameOK
<1>. QED BY <1>1, <1>2, <1>3 DEF h

LEMMA EnterOK ==
  ASSUME StackOK(frames), Enter
  PROVE  StackOK(frames')
<1>. DEFINE types == {"Sync", "Do", "Default", "Finally", "IfGroup", "While", "For", "Switch", "Case"}
            n == Next0
            h == CASE n.type = "IfGroup" -> Evaluating(NewFrame(n, IfGroup_Base0), "value")
                   [] n.type = "While" -> Evaluating(NewFrame(n, While_Condition0), "value")
                   [] n.type = "For" -> Evaluating(NewFrame(n, For_Begin), "value")
                   [] n.type = "Switch" -> Evaluating(NewFrame(n, Switch_Base0), "value")
                   [] n.type = "Case" -> Evaluating(NewFrame(n, Case_Base), "value")
                   [] OTHER -> NewFrame(n, 0)
<1>1. AtStatement(types) /\ frames' = WithTop(Past) \o <<h>>
  BY DEF Enter
<1>2. /\ Past \in Frame /\ FrameOK(Past) /\ ~Checking(Past)
      /\ Past.node = Top.node /\ Past.popCount = Top.popCount
      /\ Past.exception = None /\ Past.todo = None
      /\ Past.phase \in 1..Len(Body(Top)) /\ n = Body(Top)[Past.phase]
      /\ n \in Node
  BY <1>1, PastOK
<1>3. Running /\ Top.node \in Node
  BY <1>1, TopFacts DEF AtStatement
<1>4. Special \in Nat /\ Len(n.body) \in Nat /\ (n.type = "IfGroup" => Len(n.body) >= 1)
  <2>1. n.type = "IfGroup" => n.body # <<>>
    BY <1>2, NodeAssumption
  <2>2. n.body \in Seq(Node) /\ Special \in Nat
    BY <1>2, NodeFacts
  <2>. HIDE DEF n
  <2>. QED BY <2>1, <2>2
<1>5. \A p \in Nat : p + 1 \in PhasesOf(n) =>
        LET e == Evaluating(NewFrame(n, p), "value")
        IN  e \in Frame /\ FrameOK(e) /\ e.node = n /\ e.popCount = 1
  BY <1>2, EvaluatingNew, Zenon
<1>6. NewFrame(n, 0) \in Frame /\ FrameOK(NewFrame(n, 0)) /\ NewFrame(n, 0).node = n /\ NewFrame(n, 0).popCount = 1
  <2>1. 0 \in 0..Len(n.body)
    BY <1>4
  <2>. QED BY <1>2, <2>1, NewFrameOK
<1>. HIDE DEF n
<1>7. h \in Frame /\ FrameOK(h) /\ h.node = n /\ h.popCount = 1
  <2>1. CASE n.type = "IfGroup"
    <3>1. IfGroup_Base0 \in Nat /\ IfGroup_Base0 + 1 \in PhasesOf(n)
      BY <1>4, <2>1 DEF PhasesOf, IfGroup_Base0
    <3>. QED BY <1>5, <2>1, <3>1
  <2>2. CASE n.type = "While"
    <3>1. While_Condition0 \in Nat /\ While_Condition0 + 1 \in PhasesOf(n)
      BY <1>4, <2>2 DEF PhasesOf, While_Condition0
    <3>. QED BY <1>5, <2>2, <3>1
  <2>3. CASE n.type = "For"
    <3>1. For_Begin \in Nat /\ For_Begin + 1 \in PhasesOf(n)
      BY <1>4, <2>3 DEF PhasesOf, For_Begin
    <3>. QED BY <1>5, <2>3, <3>1
  <2>4. CASE n.type = "Switch"
    <3>1. Switch_Base0 \in Nat /\ Switch_Base0 + 1 \in PhasesOf(n)
      BY <1>4, <2>4 DEF PhasesOf, Switch_Base0
    <3>. QED BY <1>5, <2>4, <3>1
  <2>5. CASE n.type = "Case"
    <3>1. Case_Base \in Nat /\ Case_Base + 1 \in PhasesOf(n)
      BY <1>4, <2>5 DEF PhasesOf, Case_Base
    <3>. QED BY <1>5, <2>5, <3>1
  <2>6. CASE n.type \notin {"IfGroup", "While", "For", "Switch", "Case"}
    BY <1>6, <2>6
  <2>. QED BY <2>1, <2>2, <2>3, <2>4, <2>5, <2>6
<1>8. Checking(h) => CaseOK(h, Past)
  <2>1. n.type = "Case" => Top.node.type = "Switch"
    BY <1>2, <1>3, NodeAssumption DEF Body, n
  <2>. QED BY <1>2, <1>7, <2>1 DEF Checking, CaseOK, Body
<1>. HIDE DEF h
<1>. QED BY <1>1, <1>2, <1>3, <1>7, <1>8, TopPushed

LEMMA HandlerFacts ==
  ASSUME StackOK(frames), Running
  PROVE  Handler(Top) # 0 =>
           /\ Handler(Top) \in 1..Len(Body(Top)) /\ Body(Top)[Handler(Top)] \in Node
           /\ Body(Top)[Handler(Top)].type \in {"Catch", "Finally"}
<1>. DEFINE f == Top  hs == Handlers(f)
<1>. SUFFICES ASSUME Handler(f) # 0
              PROVE  /\ Handler(f) \in 1..Len(Body(f)) /\ Body(f)[Handler(f)] \in Node
                     /\ Body(f)[Handler(f)].type \in {"Catch", "Finally"}
  OBVIOUS
<1>1. f.node \in Node /\ Len(Body(f)) \in Nat /\ f.phase \in Nat
  BY TopFacts
<1>2. FirstHandler(f) \in Nat /\ FirstHandler(f) >= 1
  <2>1. HasFinally(f) => Len(Body(f)) >= 1
    <3>1. f.node.body \in Seq(Node)
      BY <1>1, NodeFacts
    <3>. QED BY <3>1 DEF HasFinally, Body
  <2>. QED BY <1>1, <2>1 DEF FirstHandler
<1>. HIDE DEF f
<1>3. hs \subseteq 1..Len(Body(f))
  BY <1>1, <1>2 DEF Handlers
<1>4. \A i \in hs : Body(f)[i].type \in {"Catch", "Finally"}
  BY DEF Handlers
<1>. HIDE DEF hs
<1>5. hs # {} /\ Handler(f) = CHOOSE i \in hs : \A j \in hs : i <= j
  BY DEF Handler, hs
<1>6. hs \in SUBSET Nat
  BY <1>1, <1>3
<1>7. \E i \in hs : \A j \in hs : i <= j
  BY <1>5, <1>6, LeastExists
<1>8. Handler(f) \in hs
  BY <1>5, <1>7
<1>9. Body(f)[Handler(f)] \in Node
  BY <1>1, <1>3, <1>8, NodeFacts DEF Body
<1>. QED BY <1>3, <1>4, <1>8, <1>9

LEMMA CatchExceptionOK ==
  ASSUME StackOK(frames), CatchException
  PROVE  StackOK(frames')
<1>. DEFINE f == Top  h == Handler(f)
            g == [f EXCEPT !.phase = h, !.exception = None]
            c == [NewFrame(Body(f)[h], 0) EXCEPT !.caught = f.exception]
<1>1. /\ Running /\ f.todo = None /\ f.exception # None
      /\ h # 0 /\ Body(f)[h].type = "Catch"
      /\ frames' = WithTop(g) \o <<c>>
  BY DEF CatchException
<1>2. h \in 1..Len(Body(f)) /\ Body(f)[h] \in Node
  BY <1>1, HandlerFacts
<1>3. f \in Frame /\ FrameOK(f) /\ f.node \in Node /\ Len(Body(f)) \in Nat
  BY <1>1, TopFacts
<1>4. NewFrame(Body(f)[h], 0) \in Frame /\ FrameOK(NewFrame(Body(f)[h], 0))
      /\ NewFrame(Body(f)[h], 0).node = Body(f)[h] /\ NewFrame(Body(f)[h], 0).popCount = 1
      /\ NewFrame(Body(f)[h], 0).exception = None
  <2>1. 0 \in 0..Len(Body(f)[h].body)
    BY <1>2, NodeFacts
  <2>. QED BY <1>2, <2>1, NewFrameOK
<1>. HIDE DEF h
<1>5. c \in Frame
  <2>. DEFINE e == f.exception  b == NewFrame(Body(f)[h], 0)
  <2>1. e \in Throwable \cup {None}
    BY <1>3 DEF Frame
  <2>2. b \in Frame
    BY <1>4
  <2>. HIDE DEF e, b
  <2>3. [b EXCEPT !.caught = e] \in Frame
    BY <2>1, <2>2 DEF Frame
  <2>. QED BY <2>3 DEF e, b
<1>6. /\ c.node = Body(f)[h] /\ c.popCount = 1 /\ c.phase = NewFrame(Body(f)[h], 0).phase
      /\ c.exception = None /\ c.todo = NewFrame(Body(f)[h], 0).todo /\ c.arg = NewFrame(Body(f)[h], 0).arg
  <2>. DEFINE b == NewFrame(Body(f)[h], 0)
  <2>1. b \in Frame /\ c = [b EXCEPT !.caught = f.exception]
    BY <1>4
  <2>. HIDE DEF b, c
  <2>2. c.node = b.node /\ c.popCount = b.popCount /\ c.phase = b.phase /\ c.exception = b.exception
    BY <2>1 DEF Frame
  <2>3. c.todo = b.todo /\ c.arg = b.arg
    BY <2>1 DEF Frame
  <2>. QED BY <1>4, <2>2, <2>3 DEF b
<1>7. g \in Frame
  <2>1. h \in Nat
    BY <1>2, <1>3
  <2>2. f \in Frame
    BY <1>3
  <2>. HIDE DEF f
  <2>. QED BY <2>1, <2>2 DEF Frame
<1>8. /\ g.node = f.node /\ g.popCount = f.popCount /\ g.phase = h /\ g.exception = None /\ g.todo = None
  BY <1>1, <1>3 DEF Frame
<1>. HIDE DEF f, g, c
<1>9. FrameOK(g) /\ ~Checking(g)
  <2>1. g.phase \in 0..Len(g.node.body)
    BY <1>2, <1>3, <1>8 DEF Body
  <2>2. FrameOK(g)
    BY <1>3, <1>8, <2>1 DEF FrameOK, None
  <2>3. ~Checking(g)
    BY <1>3, <1>8, <2>1, NotChecking
  <2>. QED BY <2>2, <2>3
<1>10. FrameOK(c) /\ ~Checking(c)
  BY <1>1, <1>4, <1>6 DEF FrameOK, Checking
<1>. QED BY <1>1, <1>2, <1>5, <1>6, <1>7, <1>8, <1>9, <1>10, TopPushed DEF f

(***************************************************************************)
(* The end of a block.                                                     *)
(***************************************************************************)
Kept(g, f) == g.node = f.node /\ g.popCount = f.popCount /\ g.exception = f.exception

LEMMA PhaseSet ==
  ASSUME NEW f \in Frame, NEW p \in Nat
  PROVE  LET g == [f EXCEPT !.phase = p]
         IN  g \in Frame /\ Kept(g, f) /\ g.phase = p /\ g.todo = f.todo /\ g.arg = f.arg
BY DEF Frame, Kept

LEMMA TodoSet ==
  ASSUME NEW f \in Frame, NEW t \in Todo
  PROVE  LET g == [f EXCEPT !.todo = t]
         IN  g \in Frame /\ Kept(g, f) /\ g.phase = f.phase /\ g.todo = t /\ g.arg = f.arg
BY DEF Frame, Kept

LEMMA ArgSet ==
  ASSUME NEW f \in Frame, NEW a \in Nat
  PROVE  LET g == [f EXCEPT !.arg = a]
         IN  g \in Frame /\ Kept(g, f) /\ g.phase = f.phase /\ g.todo = f.todo /\ g.arg = a
BY DEF Frame, Kept

\* The frame goes on, evaluating an expression or not.
LEMMA Continued ==
  ASSUME StackOK(frames), Running, Top.exception = None, Top.node.type # "Case",
         NEW g \in Frame, Kept(g, Top), g.todo \in {None, "value"},
         g.phase \in 0..Len(Body(Top)) \cup PhasesOf(Top.node)
  PROVE  FrameOK(g) /\ ~Checking(g) /\ g.node = Top.node /\ g.popCount = Top.popCount
         /\ g.exception = None /\ StackOK(WithTop(g))
<1>1. /\ g.node = Top.node /\ g.popCount = Top.popCount /\ g.exception = None
  BY DEF Kept
<1>2. FrameOK(Top)
  BY TopFacts
<1>3. FrameOK(g)
  BY <1>1, <1>2 DEF FrameOK, None, Body
<1>4. ~Checking(g)
  BY <1>1 DEF Checking
<1>. QED BY <1>1, <1>3, <1>4, TopChanged

\* And it puts a block or a method above it.
LEMMA Descends ==
  ASSUME StackOK(frames), Running, Top.exception = None, Top.node.type # "Case",
         NEW g \in Frame, Kept(g, Top), g.todo = None,
         g.phase \in 0..Len(Body(Top)) \cup PhasesOf(Top.node),
         NEW n \in Node
  PROVE  StackOK(WithTop(g) \o <<NewFrame(n, 0)>>)
<1>. DEFINE h == NewFrame(n, 0)
<1>1. 0 \in 0..Len(n.body)
  BY NodeFacts
<1>2. h \in Frame /\ FrameOK(h) /\ h.node = n /\ h.popCount = 1 /\ h.phase = 0
  BY <1>1, NewFrameOK
<1>. HIDE DEF h
<1>3. ~Checking(h)
  BY <1>1, <1>2, NotChecking
<1>4. FrameOK(g) /\ ~Checking(g) /\ g.node = Top.node /\ g.popCount = Top.popCount /\ g.exception = None
  BY Continued
<1>5. StackOK(WithTop(g) \o <<h>>)
  BY <1>2, <1>3, <1>4, TopPushed
<1>. QED BY <1>5 DEF h

LEMMA EvaluatingOK ==
  ASSUME StackOK(frames), Running, Top.exception = None, Top.node.type # "Case",
         NEW g \in Frame, Kept(g, Top), g.phase + 1 \in PhasesOf(Top.node)
  PROVE  StackOK(WithTop(Evaluating(g, "value")))
<1>. DEFINE e == Evaluating(g, "value")
<1>1. g.phase \in Nat
  BY DEF Frame
<1>. DEFINE p == g.phase + 1  c == [g EXCEPT !.phase = p]
<1>2. p \in Nat
  BY <1>1
<1>3. e = [c EXCEPT !.todo = "value"]
  BY DEF Evaluating
<1>4. "value" \in Todo
  BY DEF Todo
<1>. HIDE DEF p
<1>5. c \in Frame /\ Kept(c, g) /\ c.phase = p
  BY <1>2, PhaseSet
<1>. HIDE DEF c, e
<1>6. e \in Frame /\ Kept(e, c) /\ e.phase = p /\ e.todo = "value"
  BY <1>3, <1>4, <1>5, TodoSet
<1>7. Kept(e, Top)
  BY <1>5, <1>6 DEF Kept
<1>8. e.phase \in PhasesOf(Top.node)
  BY <1>6 DEF p
<1>9. StackOK(WithTop(e))
  BY <1>6, <1>7, <1>8, Continued
<1>. QED BY <1>9 DEF e

LEMMA AtEndFacts ==
  ASSUME StackOK(frames), NEW types, AtEnd(types)
  PROVE  /\ Running /\ Top.todo = None /\ Top.exception = None /\ Top.node.type \in types
         /\ Top \in Frame /\ FrameOK(Top) /\ Top.node \in Node /\ Kept(Top, Top)
         /\ Top.phase \in Nat /\ Special \in Nat /\ Len(Body(Top)) \in Nat /\ Len(Body(Top)) < Special
         /\ Top.phase >= Len(Body(Top))
         /\ Top.phase \in 0..Len(Body(Top)) \cup PhasesOf(Top.node)
         /\ Top.phase >= Special => Top.phase \in PhasesOf(Top.node)
<1>1. Running /\ Top.todo = None /\ Top.exception = None /\ Top.node.type \in types
      /\ Top.phase >= Len(Body(Top))
  BY DEF AtEnd
<1>2. /\ Top \in Frame /\ FrameOK(Top) /\ Top.node \in Node
      /\ Top.phase \in Nat /\ Special \in Nat /\ Len(Body(Top)) \in Nat /\ Len(Body(Top)) < Special
  BY <1>1, TopFacts
<1>3. Top.phase \in 0..Len(Body(Top)) \cup PhasesOf(Top.node)
  BY <1>2 DEF FrameOK, Body
<1>4. Top.phase >= Special => Top.phase \in PhasesOf(Top.node)
  BY <1>2, <1>3
<1>. QED BY <1>1, <1>2, <1>3, <1>4 DEF Kept

LEMMA EndBlockOK ==
  ASSUME StackOK(frames), EndBlock
  PROVE  StackOK(frames')
BY AtEndFacts, PoppedStack DEF EndBlock

LEMMA EndSwitchOK ==
  ASSUME StackOK(frames), EndSwitch
  PROVE  StackOK(frames')
<1>. DEFINE g == [Top EXCEPT !.phase = 0]
<1>1. AtEnd({"Switch"}) /\ (frames' = Popped \/ frames' = WithTop(g))
  BY DEF EndSwitch
<1>2. /\ Running /\ Top.todo = None /\ Top.exception = None /\ Top.node.type = "Switch"
      /\ Top \in Frame /\ Len(Body(Top)) \in Nat
  BY <1>1, AtEndFacts
<1>3. g \in Frame /\ Kept(g, Top) /\ g.phase = 0 /\ g.todo = None
  BY <1>2, PhaseSet
<1>. HIDE DEF g
<1>4. StackOK(WithTop(g))
  BY <1>2, <1>3, Continued
<1>. QED BY <1>1, <1>2, <1>4, PoppedStack

LEMMA EndWhileOK ==
  ASSUME StackOK(frames), EndWhile
  PROVE  StackOK(frames')
<1>. DEFINE g == [Top EXCEPT !.phase = 0]  c == [Top EXCEPT !.phase = While_Condition0]
<1>1. /\ AtEnd({"While"})
      /\ frames' = Popped \/ frames' = WithTop(g) \/ frames' = WithTop(Evaluating(c, "value"))
  BY DEF EndWhile
<1>2. /\ Running /\ Top.todo = None /\ Top.exception = None /\ Top.node.type = "While"
      /\ Top \in Frame /\ Len(Body(Top)) \in Nat /\ Special \in Nat
  BY <1>1, AtEndFacts
<1>3. g \in Frame /\ Kept(g, Top) /\ g.phase = 0 /\ g.todo = None
  BY <1>2, PhaseSet
<1>4. c \in Frame /\ Kept(c, Top) /\ c.phase = While_Condition0
  <2>1. While_Condition0 \in Nat
    BY <1>2 DEF While_Condition0
  <2>. QED BY <1>2, <2>1, PhaseSet
<1>. HIDE DEF g, c
<1>5. StackOK(WithTop(g))
  BY <1>2, <1>3, Continued
<1>6. c.phase + 1 \in PhasesOf(Top.node)
  BY <1>2, <1>4 DEF PhasesOf, While_Condition0
<1>7. StackOK(WithTop(Evaluating(c, "value")))
  BY <1>2, <1>4, <1>6, EvaluatingOK
<1>. QED BY <1>1, <1>2, <1>5, <1>7, PoppedStack

LEMMA EndForOK ==
  ASSUME StackOK(frames), EndFor
  PROVE  StackOK(frames')
<1>. DEFINE f == IF Top.phase < For_Begin THEN [Top EXCEPT !.phase = For_BeginLoop] ELSE Top
            g == [f EXCEPT !.phase = 0]
            b == [f EXCEPT !.phase = For_BeginLoop]
<1>1. /\ AtEnd({"For"})
      /\ \/ frames' = WithTop(g)
         \/ frames' = Popped
         \/ frames' = WithTop(Evaluating(b, "value"))
         \/ f.phase \notin {For_EnterLoop, For_PrepareLoop} /\ frames' = WithTop(Evaluating(f, "value"))
  BY DEF EndFor
<1>2. /\ Running /\ Top.todo = None /\ Top.exception = None /\ Top.node.type = "For"
      /\ Top \in Frame /\ Len(Body(Top)) \in Nat /\ Special \in Nat /\ Kept(Top, Top)
      /\ Top.phase \in Nat /\ (Top.phase >= Special => Top.phase \in PhasesOf(Top.node))
  BY <1>1, AtEndFacts
<1>3. PhasesOf(Top.node) = Special..Special + 5
  BY <1>2 DEF PhasesOf
<1>4. For_BeginLoop \in Nat /\ For_BeginLoop \in Special..Special + 5
  BY <1>2 DEF For_BeginLoop
<1>5. f \in Frame /\ Kept(f, Top) /\ f.phase \in Special..Special + 5 /\ f.todo = None
  <2>1. CASE Top.phase < For_Begin
    BY <1>2, <1>4, <2>1, PhaseSet
  <2>2. CASE ~(Top.phase < For_Begin)
    <3>1. Top.phase >= Special
      BY <1>2, <2>2 DEF For_Begin
    <3>. QED BY <1>2, <1>3, <2>2, <3>1
  <2>. QED BY <2>1, <2>2
<1>. HIDE DEF f
<1>6. g \in Frame /\ Kept(g, Top) /\ g.phase = 0 /\ g.todo = None
  <2>1. g \in Frame /\ Kept(g, f) /\ g.phase = 0 /\ g.todo = None
    BY <1>5, PhaseSet
  <2>. QED BY <1>5, <2>1 DEF Kept
<1>7. b \in Frame /\ Kept(b, Top) /\ b.phase = For_BeginLoop
  <2>1. b \in Frame /\ Kept(b, f) /\ b.phase = For_BeginLoop
    BY <1>4, <1>5, PhaseSet
  <2>. QED BY <1>5, <2>1 DEF Kept
<1>. HIDE DEF g, b
<1>8. StackOK(WithTop(g))
  BY <1>2, <1>6, Continued
<1>9. StackOK(WithTop(Evaluating(b, "value")))
  <2>1. b.phase + 1 \in PhasesOf(Top.node)
    BY <1>2, <1>3, <1>7 DEF For_BeginLoop
  <2>. QED BY <1>2, <1>7, <2>1, EvaluatingOK
<1>10. f.phase # For_EnterLoop => StackOK(WithTop(Evaluating(f, "value")))
  <2>1. f.phase # For_EnterLoop => f.phase + 1 \in PhasesOf(Top.node)
    BY <1>2, <1>3, <1>5 DEF For_EnterLoop
  <2>. QED BY <1>2, <1>5, <2>1, EvaluatingOK
<1>. QED BY <1>1, <1>2, <1>8, <1>9, <1>10, PoppedStack

LEMMA EndIfGroupOK ==
  ASSUME StackOK(frames), EndIfGroup
  PROVE  StackOK(frames')
<1>. DEFINE f == Top  index == f.phase - IfGroup_Base0  g == [f EXCEPT !.phase = Len(Body(f))]
<1>1. /\ AtEnd({"IfGroup"})
      /\ \/ frames' = Popped
         \/ ~(f.phase < IfGroup_Base0) /\ frames' = WithTop(g) \o <<NewFrame(Body(f)[index], 0)>>
         \/ /\ ~(f.phase < IfGroup_Base0) /\ index # Len(Body(f)) /\ index < Len(Body(f))
            /\ frames' = WithTop(g) \o <<NewFrame(Body(f)[index + 1], 0)>>
         \/ /\ ~(f.phase < IfGroup_Base0) /\ index # Len(Body(f))
            /\ frames' = WithTop(Evaluating(f, "value"))
  BY DEF EndIfGroup
<1>2. /\ Running /\ f.todo = None /\ f.exception = None /\ f.node.type = "IfGroup" /\ f.node \in Node
      /\ f \in Frame /\ Len(Body(f)) \in Nat /\ Special \in Nat /\ Kept(f, f)
      /\ f.phase \in Nat /\ (f.phase >= Special => f.phase \in PhasesOf(f.node))
  BY <1>1, AtEndFacts
<1>3. PhasesOf(f.node) = Special + 1..Special + Len(Body(f))
  BY <1>2 DEF PhasesOf, Body
<1>4. g \in Frame /\ Kept(g, f) /\ g.phase = Len(Body(f)) /\ g.todo = None
  BY <1>2, PhaseSet
<1>5. ~(f.phase < IfGroup_Base0) => index \in 1..Len(Body(f))
  <2>. DEFINE l == Len(Body(f))  p == f.phase
  <2>1. l \in Nat /\ p \in Nat /\ (p >= Special => p \in Special + 1..Special + l) /\ Special \in Nat
    BY <1>2, <1>3
  <2>. HIDE DEF l, p
  <2>2. ~(p < Special) => p - Special \in 1..l
    BY <2>1
  <2>. QED BY <2>2 DEF IfGroup_Base0, l, p
<1>6. \A i \in 1..Len(Body(f)) : Body(f)[i] \in Node
  BY <1>2, NodeFacts DEF Body
<1>. HIDE DEF g
<1>7. \A i \in 1..Len(Body(f)) : StackOK(WithTop(g) \o <<NewFrame(Body(f)[i], 0)>>)
  BY <1>2, <1>4, <1>6, Descends
<1>8. ~(f.phase < IfGroup_Base0) /\ index # Len(Body(f)) => index + 1 \in 1..Len(Body(f)) /\ f.phase + 1 \in PhasesOf(f.node)
  <2>. DEFINE l == Len(Body(f))  p == f.phase
  <2>1. l \in Nat /\ p \in Nat /\ Special \in Nat
    BY <1>2
  <2>2. ~(p < Special) => p - Special \in 1..l
    BY <1>5 DEF IfGroup_Base0
  <2>. HIDE DEF l, p
  <2>3. ~(p < Special) /\ p - Special # l => (p - Special) + 1 \in 1..l /\ p + 1 \in Special + 1..Special + l
    BY <2>1, <2>2
  <2>. QED BY <1>3, <2>3 DEF IfGroup_Base0, l, p
<1>9. ~(f.phase < IfGroup_Base0) /\ index # Len(Body(f)) => StackOK(WithTop(Evaluating(f, "value")))
  BY <1>2, <1>8, EvaluatingOK
<1>10. Running => StackOK(Popped)
  BY PoppedStack
<1>. HIDE DEF index, f
<1>. QED BY <1>1, <1>2, <1>5, <1>7, <1>8, <1>9, <1>10

LEMMA StartScriptOK ==
  ASSUME StackOK(frames), StartScript
  PROVE  StackOK(frames')
<1>. DEFINE g == [Top EXCEPT !.phase = 0, !.todo = "import", !.arg = 1]
<1>1. AtEnd({"ScriptRoot"}) /\ frames' = WithTop(g)
  BY DEF StartScript
<1>2. /\ Running /\ Top.exception = None /\ Top.node.type = "ScriptRoot" /\ Top.node \in Node
      /\ Top \in Frame /\ FrameOK(Top) /\ Len(Body(Top)) \in Nat
  BY <1>1, AtEndFacts
<1>3. /\ g \in Frame /\ g.node = Top.node /\ g.popCount = Top.popCount /\ g.exception = None
      /\ g.phase = 0 /\ g.todo = "import" /\ g.arg = 1
  BY <1>2 DEF Frame, Todo
<1>. HIDE DEF g
<1>4. FrameOK(g) /\ ~Checking(g)
  BY <1>2, <1>3 DEF FrameOK, Checking, Roots, Body
<1>. QED BY <1>1, <1>2, <1>3, <1>4, TopChanged

LEMMA ImportPackageOK ==
  ASSUME StackOK(frames), ImportPackage
  PROVE  StackOK(frames')
<1>. DEFINE f == Top  g == [f EXCEPT !.arg = f.arg + 1]  d == [f EXCEPT !.todo = None]
            h == NewFrame(f.node.imports[f.arg], ScriptRoot_Initial)
<1>1. /\ Running /\ f.todo = "import"
      /\ \/ frames' = WithTop(d)
         \/ ~(f.arg > Len(f.node.imports)) /\ frames' = WithTop(g) \o <<h>>
  BY DEF ImportPackage
<1>2. f \in Frame /\ FrameOK(f) /\ f.node \in Node
  BY <1>1, TopFacts
<1>3. f.exception = None /\ f.node.type = "ScriptRoot" /\ f.arg \in Nat /\ f.arg >= 1
  BY <1>1, <1>2 DEF FrameOK, Roots, None
<1>4. f.node.imports \in Seq(Roots) /\ Roots \subseteq Node /\ Special \in Nat
  BY <1>2, <1>3, NodeAssumption DEF Roots
<1>5. d \in Frame /\ Kept(d, f) /\ d.phase = f.phase /\ d.todo = None
  BY <1>2, TodoSet DEF Todo
<1>6. g \in Frame /\ Kept(g, f) /\ g.phase = f.phase /\ g.todo = "import" /\ g.arg = f.arg + 1
  <2>1. f.arg + 1 \in Nat
    BY <1>3
  <2>. QED BY <1>1, <1>2, <2>1, ArgSet
<1>. HIDE DEF g, d
<1>7. StackOK(WithTop(d))
  <2>1. FrameOK(d) /\ ~Checking(d)
    BY <1>2, <1>3, <1>5 DEF FrameOK, Checking, Kept, None
  <2>. QED BY <1>1, <1>5, <2>1, TopChanged DEF Kept
<1>8. FrameOK(g) /\ ~Checking(g)
  BY <1>2, <1>3, <1>6 DEF FrameOK, Checking, Kept, None, Roots
<1>9. ASSUME ~(f.arg > Len(f.node.imports))
      PROVE  h \in Frame /\ FrameOK(h) /\ h.node \in Node /\ h.popCount = 1 /\ ~Checking(h)
  <2>. DEFINE q == f.node.imports  n == q[f.arg]
  <2>1. Len(q) \in Nat /\ q \in Seq(Roots)
    BY <1>4
  <2>2. f.arg \in 1..Len(q)
    BY <1>3, <1>9, <2>1
  <2>3. n \in Roots
    BY <2>1, <2>2
  <2>4. n \in Node /\ n.type = "ScriptRoot"
    BY <2>3 DEF Roots
  <2>. HIDE DEF n
  <2>5. ScriptRoot_Initial \in PhasesOf(n)
    BY <1>4, <2>4 DEF PhasesOf, ScriptRoot_Initial
  <2>6. h \in Frame /\ FrameOK(h) /\ h.node = n /\ h.popCount = 1
    BY <2>4, <2>5, NewFrameOK, ZenonT(60) DEF n
  <2>. QED BY <2>4, <2>6 DEF Checking
<1>10. ~(f.arg > Len(f.node.imports)) => StackOK(WithTop(g) \o <<h>>)
  BY <1>1, <1>3, <1>6, <1>8, <1>9, TopPushed DEF Kept
<1>. QED BY <1>1, <1>7, <1>10

LEMMA EndScriptOK ==
  ASSUME StackOK(frames), EndScript
  PROVE  StackOK(frames')
<1>. DEFINE g == [Top EXCEPT !.phase = ScriptRoot_InitCall1]
<1>1. /\ AtEnd({"ScriptRoot"})
      /\ \/ frames' = Popped
         \/ Top.node.init # <<>> /\ frames' = WithTop(g) \o <<NewFrame(Top.node.init[1], 0)>>
  BY DEF EndScript
<1>2. /\ Running /\ Top.todo = None /\ Top.exception = None /\ Top.node.type = "ScriptRoot"
      /\ Top.node \in Node /\ Top \in Frame /\ Special \in Nat
  BY <1>1, AtEndFacts
<1>3. ScriptRoot_InitCall1 \in Nat /\ ScriptRoot_InitCall1 \in PhasesOf(Top.node)
  BY <1>2 DEF PhasesOf, ScriptRoot_InitCall1
<1>4. g \in Frame /\ Kept(g, Top) /\ g.phase = ScriptRoot_InitCall1 /\ g.todo = None
  BY <1>2, <1>3, PhaseSet
<1>. HIDE DEF g
<1>5. Top.node.init # <<>> => Top.node.init[1] \in Node
  <2>1. Top.node.init \in Seq(Methods) /\ Methods \subseteq Node
    BY <1>2, NodeAssumption DEF Methods
  <2>. QED BY <2>1
<1>6. Top.node.init # <<>> => StackOK(WithTop(g) \o <<NewFrame(Top.node.init[1], 0)>>)
  BY <1>2, <1>3, <1>4, <1>5, Descends
<1>. QED BY <1>1, <1>2, <1>6, PoppedStack

(***************************************************************************)
(* Several frames of the stack change and keep what they cover.            *)
(***************************************************************************)
Await(fs, i) == \E j \in i + 1..Len(fs) : fs[j].node.type = "Finally" /\ Uncovers(fs, j) = i

LEMMA Reshaped ==
  ASSUME NEW fs, StackOK(fs), NEW gs \in Seq(Frame), Len(gs) = Len(fs),
         \A i \in 1..Len(fs) : /\ FrameOK(gs[i]) /\ gs[i].popCount = fs[i].popCount
                               /\ fs[i].node.type = "Finally" => gs[i].node.type = "Finally",
         \A i \in 1..Len(fs) - 1 : /\ gs[i].todo \in {None, "import", "returning"}
                                   /\ gs[i].exception # None => fs[i].exception # None \/ Await(fs, i),
         gs[1].node = fs[1].node, Len(fs) > 1 => gs[2].node = fs[2].node,
         \A i \in 2..Len(fs) : gs[i].node \in Node /\ (Checking(gs[i]) => CaseOK(gs[i], gs[i - 1]))
  PROVE  StackOK(gs)
<1>. DEFINE L == Len(fs)
<1>1. L \in Nat /\ L >= 1
  BY StackFacts
<1>2. \A i \in 1..L : Uncovers(gs, i) = Uncovers(fs, i)
  BY DEF Uncovers
<1>3. Len(gs) = L
  OBVIOUS
<1>4. Awaited(gs)
  <2>. SUFFICES ASSUME NEW i \in 1..L - 1, gs[i].exception # None
                PROVE  \E j \in i + 1..L : gs[j].node.type = "Finally" /\ Uncovers(gs, j) = i
    BY DEF Awaited
  <2>1. fs[i].exception # None \/ Await(fs, i)
    OBVIOUS
  <2>2. Await(fs, i)
    BY <2>1 DEF StackOK, Awaited, Await
  <2>3. PICK j \in i + 1..L : fs[j].node.type = "Finally" /\ Uncovers(fs, j) = i
    BY <2>2 DEF Await
  <2>4. j \in 1..L
    BY <1>1
  <2>. QED BY <1>2, <2>3, <2>4
<1>5. gs # <<>> /\ gs[1].node = Residential /\ gs[1].popCount = 1
  <2>1. 1 \in 1..L
    BY <1>1
  <2>. QED BY <1>1, <2>1 DEF StackOK
<1>. HIDE DEF L
<1>6. \A i \in 2..L : gs[i].node \in Node /\ Uncovers(gs, i) >= 1
  <2>1. \A i \in 2..L : i \in 1..L /\ Uncovers(fs, i) >= 1
    BY <1>1 DEF StackOK, L
  <2>2. \A i \in 2..L : gs[i].node \in Node
    BY DEF L
  <2>. QED BY <1>2, <2>1, <2>2
<1>7. L > 1 => gs[2].node \in Roots
  BY DEF StackOK, L
<1>8. \A i, j \in 2..L : i < j => Uncovers(gs, j) >= i \/ Uncovers(gs, j) <= Uncovers(gs, i)
  <2>1. \A i \in 2..L : i \in 1..L
    BY <1>1
  <2>. QED BY <1>2, <2>1 DEF StackOK, L
<1>. QED BY <1>3, <1>4, <1>5, <1>6, <1>7, <1>8 DEF StackOK, L

LEMMA CaseChainFacts ==
  ASSUME NEW n \in Node, NEW first \in 1..Len(n.body), n.body[first].type = "Case"
  PROVE  /\ CaseChain(n, first) \in 1..Len(n.body)
         /\ n.body[CaseChain(n, first)].type \in {"Case", "Default"}
<1>. DEFINE l == Len(n.body)
            cases == {i \in first..l : n.body[i].type \in {"Case", "Default"}}
            full  == {i \in cases : n.body[i].body # <<>>}
            run   == {i \in full : i >= first}
            c == CaseChain(n, first)
<1>1. l \in Nat
  BY NodeFacts
<1>2. first \in cases /\ cases \in SUBSET Nat /\ \A i \in cases : i <= l /\ i >= first
  BY <1>1
<1>3. c = IF run # {} THEN CHOOSE i \in run : \A j \in run : i <= j ELSE LastOf(cases)
  BY DEF CaseChain
<1>4. run \subseteq cases
  OBVIOUS
<1>5. \A i \in cases : i \in 1..l /\ n.body[i].type \in {"Case", "Default"}
  BY <1>1
<1>. HIDE DEF cases, run, l, c
<1>6. CASE run # {}
  <2>1. \E i \in run : \A j \in run : i <= j
    BY <1>2, <1>4, <1>6, LeastExists
  <2>2. c \in run
    BY <1>3, <1>6, <2>1
  <2>. QED BY <1>4, <1>5, <2>2 DEF c, l
<1>7. CASE run = {}
  <2>1. LastOf(cases) \in cases \cup {0} /\ \A j \in cases : j <= LastOf(cases)
    BY <1>1, <1>2, LastOfGreatest
  <2>2. c \in cases
    BY <1>1, <1>2, <1>3, <1>7, <2>1
  <2>. QED BY <1>5, <2>2 DEF c, l
<1>. QED BY <1>6, <1>7

LEMMA CatchOrFinallyFacts ==
  ASSUME NEW f, f.node \in Node
  PROVE  CatchOrFinally(f) \in 0..Len(Body(f))
<1>. DEFINE hs == {i \in DOMAIN Body(f) : Body(f)[i].type \in {"Catch", "Finally"}}
            l == Len(Body(f))
<1>1. l \in Nat /\ DOMAIN Body(f) = 1..l
  BY NodeFacts DEF Body
<1>2. hs \in SUBSET Nat /\ hs \subseteq 1..l
  BY <1>1
<1>3. CatchOrFinally(f) = IF hs = {} THEN l ELSE (CHOOSE i \in hs : \A j \in hs : i <= j) - 1
  BY DEF CatchOrFinally
<1>. HIDE DEF hs, l
<1>4. CASE hs # {}
  <2>1. \E i \in hs : \A j \in hs : i <= j
    BY <1>2, <1>4, LeastExists
  <2>2. PICK i \in hs : i = CHOOSE k \in hs : \A j \in hs : k <= j
    BY <2>1
  <2>3. i \in 1..l
    BY <1>2
  <2>. QED BY <1>1, <1>3, <1>4, <2>2, <2>3 DEF l
<1>. QED BY <1>1, <1>3, <1>4 DEF l

LEMMA EndCaseOK ==
  ASSUME StackOK(frames), EndCase
  PROVE  StackOK(frames')
<1>. DEFINE n == Len(frames)  switch == frames[n - 1]  run == CaseChain(switch.node, switch.phase)
            p == CatchOrFinally(switch)
            t == [Top EXCEPT !.node = switch.node.body[run], !.phase = 0]
            s == [switch EXCEPT !.phase = p]
<1>1. /\ AtEnd({"Case"})
      /\ \/ frames' = Popped
         \/ /\ ~(Top.phase < Case_Base)
            /\ frames' = [frames EXCEPT ![n].node = switch.node.body[run], ![n].phase = 0, ![n - 1].phase = p]
  BY DEF EndCase
<1>2. /\ Running /\ Top.todo = None /\ Top.exception = None /\ Top.node.type = "Case"
      /\ Top \in Frame /\ FrameOK(Top) /\ Top.node \in Node /\ Top.phase \in Nat /\ Special \in Nat
  BY <1>1, AtEndFacts
<1>3. n \in Nat /\ n >= 2 /\ frames \in Seq(Frame) /\ Top = frames[n]
  BY <1>2, TopFacts DEF StackOK
<1>4. CASE frames' = Popped
  BY <1>2, <1>4, PoppedStack
<1>5. CASE /\ ~(Top.phase < Case_Base)
           /\ frames' = [frames EXCEPT ![n].node = switch.node.body[run], ![n].phase = 0, ![n - 1].phase = p]
  <2>1. Checking(Top)
    BY <1>2, <1>5 DEF Checking, Case_Base
  <2>2. CaseOK(Top, switch)
    BY <1>3, <2>1 DEF StackOK
  <2>3. /\ switch.node.type = "Switch" /\ switch.phase \in 1..Len(switch.node.body)
        /\ switch.node.body[switch.phase].type = "Case"
    BY <1>2, <2>2 DEF CaseOK
  <2>4. n - 1 # 1
    <3>1. frames[1].node.type = "Residential"
      BY DEF StackOK, Residential
    <3>2. switch = frames[n - 1]
      OBVIOUS
    <3>. HIDE DEF switch, n
    <3>. QED BY <2>3, <3>1, <3>2
  <2>5. n >= 3 /\ n - 1 \in 2..n - 1 /\ n - 1 \in 1..n - 1
    <3>1. n \in Nat /\ n >= 2 /\ n - 1 # 1
      BY <1>3, <2>4
    <3>. HIDE DEF n
    <3>2. n >= 3
      BY <3>1
    <3>. QED BY <3>1, <3>2
  <2>6. switch \in Frame /\ FrameOK(switch) /\ switch.node \in Node /\ switch.todo \in {None, "import", "returning"}
    BY <1>3, <2>5, StackFacts DEF StackOK
  <2>. HIDE DEF switch
  <2>7. run \in 1..Len(switch.node.body) /\ switch.node.body[run].type \in {"Case", "Default"}
    BY <2>3, <2>6, CaseChainFacts
  <2>8. switch.node.body[run] \in Node
    BY <2>6, <2>7, NodeFacts
  <2>. HIDE DEF run
  <2>9. p \in 0..Len(switch.node.body) /\ p \in Nat
    <3>1. Len(switch.node.body) \in Nat
      BY <2>6, NodeFacts
    <3>. QED BY <2>6, <3>1, CatchOrFinallyFacts DEF Body
  <2>. HIDE DEF p
  <2>10. /\ s \in Frame /\ Kept(s, switch) /\ s.phase = p /\ s.todo = switch.todo /\ s.arg = switch.arg
    BY <2>6, <2>9, PhaseSet
  <2>. DEFINE m == switch.node.body[run]
  <2>11. m \in Node
    BY <2>8
  <2>12. t = [Top EXCEPT !.node = m, !.phase = 0]
    OBVIOUS
  <2>. HIDE DEF m, t
  <2>13. /\ t \in Frame /\ t.node = m /\ t.phase = 0 /\ t.popCount = Top.popCount
         /\ t.exception = None /\ t.todo = None
    BY <1>2, <2>11, <2>12 DEF Frame
  <2>14. FrameOK(t) /\ ~Checking(t)
    <3>1. t.phase \in 0..Len(t.node.body)
      BY <2>11, <2>13, NodeFacts
    <3>2. Top.popCount <= 1
      BY <1>2 DEF FrameOK, Frame
    <3>3. ~(t.popCount > 1)
      BY <1>2, <2>13, <3>2 DEF Frame
    <3>4. FrameOK(t)
      BY <2>13, <3>1, <3>3 DEF FrameOK, None
    <3>5. ~Checking(t)
      BY <2>11, <2>13, <3>1, NotChecking
    <3>. QED BY <3>4, <3>5
  <2>15. FrameOK(s) /\ ~Checking(s)
    BY <2>3, <2>6, <2>9, <2>10 DEF FrameOK, Checking, Kept, None
  <2>. HIDE DEF s, n
  <2>16. frames' = [frames EXCEPT ![n] = t, ![n - 1] = s]
    <3>1. n - 1 # n /\ n \in DOMAIN frames /\ n - 1 \in DOMAIN frames
      BY <1>3, <2>5 DEF n
    <3>. QED BY <1>3, <1>5, <3>1 DEF t, s, switch
  <2>. DEFINE gs == [frames EXCEPT ![n] = t, ![n - 1] = s]
  <2>17. /\ gs \in Seq(Frame) /\ Len(gs) = Len(frames) /\ gs[n] = t /\ gs[n - 1] = s
         /\ \A i \in 1..n - 2 : gs[i] = frames[i]
    BY <1>3, <2>5, <2>10, <2>13 DEF n
  <2>. HIDE DEF gs
  <2>18. \A i \in 1..n : i = n \/ i = n - 1 \/ i \in 1..n - 2
    BY <1>3
  <2>19. \A i \in 1..n : /\ FrameOK(gs[i]) /\ gs[i].popCount = frames[i].popCount
                         /\ frames[i].node.type = "Finally" => gs[i].node.type = "Finally"
    <3>1. \A i \in 1..n - 2 : FrameOK(frames[i])
      BY <1>3, StackFacts DEF n
    <3>2. Top.node.type # "Finally" /\ switch.node = s.node /\ s.popCount = switch.popCount
      BY <1>2, <2>10 DEF Kept
    <3>. QED BY <1>3, <2>13, <2>14, <2>15, <2>17, <2>18, <3>1, <3>2 DEF switch
  <2>20. \A i \in 1..n - 1 : /\ gs[i].todo \in {None, "import", "returning"}
                             /\ gs[i].exception # None => frames[i].exception # None \/ Await(frames, i)
    <3>1. \A i \in 1..n - 2 : frames[i].todo \in {None, "import", "returning"}
      BY <1>3 DEF StackOK, n
    <3>2. \A i \in 1..n - 1 : i = n - 1 \/ i \in 1..n - 2
      BY <1>3
    <3>. QED BY <2>6, <2>10, <2>17, <3>1, <3>2 DEF switch, Kept
  <2>21. gs[1].node = frames[1].node
    <3>1. 1 \in 1..n - 2
      BY <1>3, <2>5 DEF n
    <3>. QED BY <2>17, <3>1
  <2>22. gs[2].node = frames[2].node
    <3>1. 2 \in 1..n - 2 \/ n - 1 = 2
      BY <1>3, <2>5
    <3>. QED BY <2>10, <2>17, <3>1 DEF Kept, switch
  <2>23. \A i \in 2..n : gs[i].node \in Node /\ (Checking(gs[i]) => CaseOK(gs[i], gs[i - 1]))
    <3>1. \A i \in 2..n : i = n \/ i = n - 1 \/ i \in 2..n - 2
      BY <1>3
    <3>2. \A i \in 2..n - 2 : gs[i] = frames[i] /\ gs[i - 1] = frames[i - 1] /\ i \in 2..n
      BY <1>3, <2>17
    <3>3. \A i \in 2..n : frames[i].node \in Node /\ (Checking(frames[i]) => CaseOK(frames[i], frames[i - 1]))
      BY DEF StackOK, n
    <3>4. \A i \in 2..n - 2 : gs[i].node \in Node /\ (Checking(gs[i]) => CaseOK(gs[i], gs[i - 1]))
      BY <3>2, <3>3
    <3>. QED BY <2>6, <2>10, <2>11, <2>13, <2>14, <2>15, <2>17, <3>1, <3>4 DEF Kept
  <2>24. StackOK(gs)
    BY <2>17, <2>19, <2>20, <2>21, <2>22, <2>23, Reshaped DEF n
  <2>. QED BY <2>16, <2>24 DEF gs
<1>. QED BY <1>1, <1>4, <1>5

(***************************************************************************)
(* An exception goes to the frame below, which may have to wait for the    *)
(* finally block of the one it leaves.                                     *)
(***************************************************************************)
LEMMA Passing ==
  ASSUME NEW f \in Frame, FrameOK(f), NEW e \in Throwable
  PROVE  LET g == [f EXCEPT !.exception = e, !.todo = None]
             c == [f EXCEPT !.exception = None, !.caught = None]
         IN  /\ g \in Frame /\ FrameOK(g) /\ g.node = f.node /\ g.popCount = f.popCount
             /\ g.phase = f.phase /\ g.todo = None
             /\ c \in Frame /\ FrameOK(c) /\ c.node = f.node /\ c.popCount = f.popCount
             /\ c.phase = f.phase /\ c.exception = None /\ c.todo = f.todo
<1>. DEFINE g == [f EXCEPT !.exception = e, !.todo = None]
            c == [f EXCEPT !.exception = None, !.caught = None]
<1>1. /\ g \in Frame /\ g.node = f.node /\ g.popCount = f.popCount
      /\ g.phase = f.phase /\ g.todo = None
  BY DEF Frame, Todo
<1>2. /\ c \in Frame /\ c.node = f.node /\ c.popCount = f.popCount
      /\ c.phase = f.phase /\ c.exception = None /\ c.todo = f.todo /\ c.arg = f.arg
  BY DEF Frame
<1>. HIDE DEF g, c
<1>3. FrameOK(g)
  BY <1>1 DEF FrameOK, None
<1>4. FrameOK(c)
  BY <1>2 DEF FrameOK
<1>. QED BY <1>1, <1>2, <1>3, <1>4 DEF g, c

LEMMA PassExceptionOK ==
  ASSUME StackOK(frames), result \in {None, "ended", "abort"} \cup Throwable, PassException
  PROVE  StackOK(frames') /\ result' \in {None, "ended", "abort"} \cup Throwable
<1>. DEFINE f == Top  h == Handler(f)  L == Len(frames)  n == L - f.popCount
            g == [frames[n] EXCEPT !.exception = f.exception, !.todo = None]
            c == [f EXCEPT !.exception = None, !.caught = None]
            x == [NewFrame(Body(f)[h], 0) EXCEPT !.popCount = 1 + f.popCount]
            passed == [frames EXCEPT ![n].exception = f.exception, ![n].todo = None,
                                     ![L].exception = None, ![L].caught = None]
<1>1. /\ Running /\ f.todo = None /\ f.exception # None
      /\ h # 0 => Body(f)[h].type = "Finally"
      /\ \/ result' = "abort" /\ frames' = frames
         \/ result' = result /\ frames' = IF h = 0 THEN SubSeq(passed, 1, n) ELSE passed \o <<x>>
  BY DEF PassException
<1>2. /\ f \in Frame /\ FrameOK(f) /\ f.node \in Node /\ f = frames[L] /\ L \in Nat /\ L >= 2
      /\ frames \in Seq(Frame)
  BY <1>1, TopFacts DEF StackOK
<1>3. n = Uncovers(frames, L)
  BY <1>2 DEF Uncovers
<1>4. /\ n \in 1..L - 1 /\ StackOK(SubSeq(frames, 1, n))
      /\ Len(SubSeq(frames, 1, n)) = n /\ \A i \in 1..n : SubSeq(frames, 1, n)[i] = frames[i]
  BY <1>2, <1>3, PoppedOK
<1>5. frames[n] \in Frame /\ FrameOK(frames[n]) /\ n \in Nat /\ n < L /\ n \in 1..L
  BY <1>2, <1>4, StackFacts
<1>6. f.exception \in Throwable
  BY <1>1, <1>2 DEF Frame
<1>7. /\ g \in Frame /\ FrameOK(g) /\ g.node = frames[n].node /\ g.popCount = frames[n].popCount
      /\ g.phase = frames[n].phase /\ g.todo = None
  BY <1>5, <1>6, Passing
<1>8. /\ c \in Frame /\ FrameOK(c) /\ c.node = f.node /\ c.popCount = f.popCount
      /\ c.phase = f.phase /\ c.exception = None /\ c.todo = None
  BY <1>1, <1>2, <1>6, Passing
<1>9. passed = [frames EXCEPT ![n] = g, ![L] = c]
  <2>1. n # L /\ n \in DOMAIN frames /\ L \in DOMAIN frames /\ frames[L] = f
    BY <1>2, <1>5
  <2>. HIDE DEF f, n
  <2>. QED BY <1>2, <2>1
<1>. HIDE DEF passed, g, c
<1>10. /\ passed \in Seq(Frame) /\ Len(passed) = L /\ passed[n] = g /\ passed[L] = c
       /\ \A i \in 1..L : i # n /\ i # L => passed[i] = frames[i]
  <2>1. n # L /\ n \in 1..L /\ L \in 1..L
    BY <1>2, <1>5
  <2>. HIDE DEF n, L
  <2>. QED BY <1>2, <1>7, <1>8, <1>9, <2>1 DEF L
<1>11. CASE h = 0 /\ frames' = SubSeq(passed, 1, n)
  <2>. DEFINE fs == SubSeq(frames, 1, n)  gs == [fs EXCEPT ![n] = g]
  <2>1. fs[n] = frames[n] /\ Len(fs) = n /\ StackOK(fs) /\ n \in 1..n
    BY <1>4, <1>5
  <2>2. StackOK(gs)
    <3>. HIDE DEF fs, n
    <3>1. Checking(g) => g.phase = fs[Len(fs)].phase
      BY <1>7, <2>1
    <3>. QED BY <1>7, <2>1, <3>1, Changed
  <2>3. SubSeq(passed, 1, n) = gs
    <3>1. /\ SubSeq(passed, 1, n) \in Seq(Frame) /\ Len(SubSeq(passed, 1, n)) = n
          /\ \A i \in 1..n : SubSeq(passed, 1, n)[i] = passed[i]
      BY <1>5, <1>10
    <3>2. gs \in Seq(Frame) /\ Len(gs) = n /\ \A i \in 1..n : gs[i] = IF i = n THEN g ELSE frames[i]
      <4>1. fs \in Seq(Frame) /\ Len(fs) = n /\ \A i \in 1..n : fs[i] = frames[i]
        BY <1>4, <2>1 DEF StackOK
      <4>2. g \in Frame /\ n \in Nat /\ n >= 1
        BY <1>4, <1>5, <1>7
      <4>. HIDE DEF fs, n
      <4>3. gs \in Seq(Frame)
        BY <4>1, <4>2
      <4>5. Len(gs) = Len(fs)
        BY <4>1, <4>2
      <4>4. \A i \in 1..n : gs[i] = IF i = n THEN g ELSE fs[i]
        BY <4>1, <4>2
      <4>. HIDE DEF gs
      <4>. QED BY <4>1, <4>3, <4>4, <4>5
    <3>3. \A i \in 1..n : passed[i] = IF i = n THEN g ELSE frames[i]
      BY <1>2, <1>5, <1>10
    <3>. HIDE DEF gs
    <3>. QED BY <3>1, <3>2, <3>3
  <2>. QED BY <1>1, <1>11, <2>2, <2>3
<1>12. CASE h # 0 /\ frames' = passed \o <<x>>
  <2>. DEFINE b == NewFrame(Body(f)[h], 0)  m == Body(f)[h]  q == 1 + f.popCount
  <2>1. m \in Node /\ m.type = "Finally"
    BY <1>1, <1>12, HandlerFacts
  <2>2. 0 \in 0..Len(m.body)
    BY <2>1, NodeFacts
  <2>. HIDE DEF m
  <2>3. b \in Frame /\ FrameOK(b) /\ b.node = m /\ b.popCount = 1 /\ b.phase = 0 /\ b.exception = None /\ b.todo = None
    BY <2>1, <2>2, NewFrameOK DEF m
  <2>4. f.popCount \in Nat /\ q \in Nat \ {0}
    BY <1>2 DEF Frame
  <2>5. x = [b EXCEPT !.popCount = q]
    OBVIOUS
  <2>. HIDE DEF b, x, q
  <2>6. /\ x \in Frame /\ x.node = m /\ x.popCount = q /\ x.phase = 0 /\ x.exception = None /\ x.todo = None
    BY <2>3, <2>4, <2>5 DEF Frame
  <2>7. FrameOK(x) /\ ~Checking(x)
    BY <2>1, <2>2, <2>6 DEF FrameOK, Checking, None
  <2>. DEFINE fs == [frames EXCEPT ![L] = c]
  <2>8. StackOK(fs)
    BY <1>2, <1>8, Changed
  <2>9. /\ Len(fs) = L /\ fs[L] = c /\ \A i \in 1..L : i # L => fs[i] = frames[i]
    BY <1>2
  <2>10. /\ (Len(fs) + 1) - x.popCount = n
         /\ Uncovers(fs, L) = n
    <3>1. fs[L].popCount = f.popCount
      BY <1>8, <2>9
    <3>2. Uncovers(fs, L) = n
      BY <3>1 DEF Uncovers
    <3>. HIDE DEF fs
    <3>. QED BY <1>2, <2>4, <2>6, <2>9, <3>2 DEF q
  <2>. HIDE DEF fs
  <2>11. Clear(fs, n)
    BY <1>2, <2>8, <2>9, <2>10, ClearTop
  <2>. DEFINE us == fs \o <<x>>
  <2>12. StackOK(us)
    <3>1. Clear(fs, (Len(fs) + 1) - x.popCount)
      BY <2>10, <2>11
    <3>2. fs[Len(fs)].exception = None /\ fs[Len(fs)].todo \in {None, "import", "returning"} /\ Len(fs) > 1
      BY <1>2, <1>8, <2>9
    <3>. QED BY <2>1, <2>6, <2>7, <2>8, <3>1, <3>2, Pushed
  <2>13. /\ us \in Seq(Frame) /\ Len(us) = L + 1 /\ us[L + 1] = x /\ \A i \in 1..L : us[i] = fs[i]
    <3>1. fs \in Seq(Frame)
      BY <2>8 DEF StackOK
    <3>. QED BY <1>2, <2>6, <2>9, <3>1
  <2>. HIDE DEF us
  <2>. DEFINE gs == [us EXCEPT ![n] = g]
  <2>14. /\ gs \in Seq(Frame) /\ Len(gs) = L + 1 /\ gs[n] = g /\ gs[L + 1] = x
         /\ \A i \in 1..L + 1 : i # n => gs[i] = us[i]
    <3>1. n \in 1..L + 1 /\ n # L + 1 /\ L + 1 \in 1..L + 1
      BY <1>2, <1>5
    <3>. HIDE DEF n, L
    <3>. QED BY <1>7, <2>13, <3>1
  <2>. HIDE DEF gs, n
  <2>15. us[n] = frames[n]
    BY <1>5, <2>9, <2>13
  <2>16. Await(us, n)
    <3>1. Uncovers(us, L + 1) = n
      <4>1. Uncovers(us, L + 1) = (L + 1) - us[L + 1].popCount
        BY DEF Uncovers
      <4>. QED BY <2>9, <2>10, <2>13, <4>1
    <3>2. us[L + 1].node.type = "Finally"
      BY <2>1, <2>6, <2>13
    <3>3. L + 1 \in n + 1..Len(us)
      BY <1>2, <1>5, <2>13
    <3>. QED BY <3>1, <3>2, <3>3 DEF Await
  <2>17. \A i \in 1..L + 1 : gs[i].node = us[i].node /\ gs[i].popCount = us[i].popCount /\ gs[i].phase = us[i].phase
    BY <1>7, <2>14, <2>15
  <2>18. \A i \in 1..L + 1 : FrameOK(us[i])
    BY <2>12, <2>13 DEF StackOK
  <2>19. \A i \in 1..L : us[i].todo \in {None, "import", "returning"}
    BY <1>2, <2>12, <2>13 DEF StackOK
  <2>20. /\ \A i \in 1..L + 1 : FrameOK(gs[i])
         /\ \A i \in 1..L : /\ gs[i].todo \in {None, "import", "returning"}
                            /\ gs[i].exception # None => us[i].exception # None \/ Await(us, i)
    <3>1. \A i \in 1..L + 1 : i = n \/ gs[i] = us[i]
      BY <2>14
    <3>2. \A i \in 1..L : i \in 1..L + 1
      BY <1>2
    <3>. QED BY <1>7, <2>14, <2>16, <2>18, <2>19, <3>1, <3>2
  <2>21. gs[1].node = us[1].node /\ gs[2].node = us[2].node
    BY <1>2, <2>17
  <2>22. \A i \in 2..L + 1 : gs[i].node \in Node /\ (Checking(gs[i]) => CaseOK(gs[i], gs[i - 1]))
    <3>. SUFFICES ASSUME NEW i \in 2..L + 1
                  PROVE  gs[i].node \in Node /\ (Checking(gs[i]) => CaseOK(gs[i], gs[i - 1]))
      OBVIOUS
    <3>1. i \in 1..L + 1 /\ i - 1 \in 1..L + 1
      BY <1>2
    <3>2. us[i].node \in Node /\ (Checking(us[i]) => CaseOK(us[i], us[i - 1]))
      BY <2>12, <2>13 DEF StackOK
    <3>. QED BY <2>17, <3>1, <3>2 DEF Checking, CaseOK
  <2>23. StackOK(gs)
    <3>1. Len(us) = L + 1 /\ (L + 1) - 1 = L
      BY <1>2, <2>13
    <3>. HIDE DEF L
    <3>. QED BY <2>12, <2>14, <2>17, <2>20, <2>21, <2>22, <3>1, Reshaped
  <2>24. passed \o <<x>> = gs
    <3>1. /\ passed \o <<x>> \in Seq(Frame) /\ Len(passed \o <<x>>) = L + 1
          /\ (passed \o <<x>>)[L + 1] = x /\ \A i \in 1..L : (passed \o <<x>>)[i] = passed[i]
      BY <1>2, <1>10, <2>6
    <3>2. \A i \in 1..L : gs[i] = passed[i]
      <4>1. gs[n] = passed[n]
        BY <1>10, <2>14
      <4>2. \A i \in 1..L : i # n => gs[i] = us[i] /\ us[i] = fs[i]
        BY <1>2, <2>13, <2>14
      <4>3. \A i \in 1..L : i # n => fs[i] = passed[i]
        BY <1>10, <2>9
      <4>. QED BY <4>1, <4>2, <4>3
    <3>3. \A i \in 1..L + 1 : i = L + 1 \/ i \in 1..L
      BY <1>2
    <3>4. \A i \in 1..L + 1 : gs[i] = (passed \o <<x>>)[i]
      BY <2>14, <3>1, <3>2, <3>3
    <3>. QED BY <2>14, <3>1, <3>4
  <2>. QED BY <1>1, <1>12, <2>23, <2>24
<1>13. CASE result' = "abort" /\ frames' = frames
  BY <1>13
<1>. HIDE DEF x, h, n
<1>. QED BY <1>1, <1>11, <1>12, <1>13

(***************************************************************************)
(* break, continue and return: the finally blocks on the way are put above *)
(* what is left. They are taken in their order, so each has a rank.        *)
(***************************************************************************)
LEMMA Ranks ==
  ASSUME NEW S \in SUBSET Nat, NEW n \in Nat, \A i \in S : i <= n
  PROVE  /\ IsFiniteSet(S) /\ Cardinality(S) \in Nat
         /\ \A k \in 1..Cardinality(S) : \E i \in S : Cardinality({j \in S : j < i}) = k - 1
<1>. DEFINE R(i) == {j \in S : j < i}
            c == Cardinality(S)
            r == [i \in S |-> Cardinality(R(i))]
<1>1. IsFiniteSet(S) /\ c \in Nat
  BY FS_BoundedSetOfNaturals, FS_CardinalityType
<1>2. ASSUME NEW i \in S
      PROVE  Cardinality(R(i)) \in 0..c - 1
  <2>1. R(i) \in SUBSET S /\ R(i) # S /\ i \in Nat
    OBVIOUS
  <2>. HIDE DEF R
  <2>2. IsFiniteSet(R(i)) /\ Cardinality(R(i)) <= c /\ c # Cardinality(R(i))
    BY <1>1, <2>1, FS_Subset
  <2>3. Cardinality(R(i)) \in Nat
    BY <2>2, FS_CardinalityType
  <2>. HIDE DEF c
  <2>. QED BY <1>1, <2>2, <2>3
<1>3. ASSUME NEW i \in S, NEW j \in S, i < j
      PROVE  Cardinality(R(i)) # Cardinality(R(j))
  <2>1. R(i) \in SUBSET R(j) /\ i \in R(j) /\ i \notin R(i) /\ R(j) \in SUBSET S
    <3>1. \A k \in S : k \in Int
      OBVIOUS
    <3>2. \A k \in S : k < i => k < j
      BY <1>3, <3>1
    <3>3. ~(i < i)
      BY <3>1
    <3>. QED BY <1>3, <3>2, <3>3
  <2>. HIDE DEF R
  <2>2. IsFiniteSet(R(j))
    BY <1>1, <2>1, FS_Subset
  <2>. QED BY <2>1, <2>2, FS_Subset
<1>4. r \in [S -> 0..c - 1]
  BY <1>2
<1>5. \A i, j \in S : r[i] = r[j] => i = j
  <2>. SUFFICES ASSUME NEW i \in S, NEW j \in S, r[i] = r[j], i # j PROVE FALSE
    OBVIOUS
  <2>1. r[i] = Cardinality(R(i)) /\ r[j] = Cardinality(R(j))
    OBVIOUS
  <2>2. i < j \/ j < i
    OBVIOUS
  <2>. HIDE DEF R, r
  <2>. QED BY <1>3, <2>1, <2>2
<1>. DEFINE T == 0..c - 1
<1>6. r \in Injection(S, T)
  BY <1>4, <1>5 DEF Injection, IsInjective
<1>7. IsFiniteSet(T) /\ Cardinality(T) = c
  <2>. HIDE DEF c
  <2>1. c - 1 \in Int /\ (IF 0 > c - 1 THEN 0 ELSE ((c - 1) - 0) + 1) = c
    BY <1>1
  <2>. QED BY <2>1, FS_Interval
<1>. HIDE DEF r, c, T
<1>8. r \in Surjection(S, T)
  BY <1>6, <1>7, FS_Injection DEF c
<1>9. \A m \in T : \E i \in S : r[i] = m
  BY <1>8 DEF Surjection
<1>10. ASSUME NEW k \in 1..c
       PROVE  \E i \in S : Cardinality(R(i)) = k - 1
  <2>1. k - 1 \in T
    BY <1>1 DEF T
  <2>2. PICK i \in S : r[i] = k - 1
    BY <1>9, <2>1
  <2>. HIDE DEF R
  <2>. QED BY <2>2 DEF r
<1>. QED BY <1>1, <1>10 DEF c

IsFinally(g, count) ==
  /\ g \in Frame /\ FrameOK(g) /\ ~Checking(g) /\ g.node \in Node /\ g.node.type = "Finally"
  /\ g.popCount = count /\ g.exception = None /\ g.todo = None

LEMMA FinallyFrameOK ==
  ASSUME NEW f, f.node \in Node, HasFinally(f), NEW count \in Nat \ {0}
  PROVE  IsFinally(FinallyFrame(f, count), count)
<1>. DEFINE m == Body(f)[Len(Body(f))]  b == NewFrame(m, 0)  g == [b EXCEPT !.popCount = count, !.forJump = TRUE]
<1>1. m \in Node /\ m.type = "Finally"
  <2>1. Body(f) \in Seq(Node)
    BY NodeFacts DEF Body
  <2>. QED BY <2>1 DEF HasFinally
<1>2. g = FinallyFrame(f, count)
  BY DEF FinallyFrame
<1>. HIDE DEF m
<1>3. 0 \in 0..Len(m.body)
  BY <1>1, NodeFacts
<1>4. b \in Frame /\ FrameOK(b) /\ b.node = m /\ b.phase = 0 /\ b.exception = None /\ b.todo = None
  BY <1>1, <1>3, NewFrameOK
<1>. HIDE DEF b
<1>5. g \in Frame /\ g.node = m /\ g.phase = 0 /\ g.popCount = count /\ g.exception = None /\ g.todo = None
  BY <1>4 DEF Frame
<1>. HIDE DEF g
<1>6. FrameOK(g) /\ ~Checking(g)
  BY <1>1, <1>3, <1>5 DEF FrameOK, Checking, None
<1>7. IsFinally(g, count)
  BY <1>1, <1>5, <1>6 DEF IsFinally
<1>. QED BY <1>2, <1>7

\* What pop(targetSize, scheme) leaves
LEMMA PopToFacts ==
  ASSUME StackOK(frames), NEW target \in 1..Len(frames), NEW first \in 2..target + 1
  PROVE  \E count \in target..Len(frames), K \in Nat :
           /\ PopTo(target, first) \in Seq(Frame) /\ Len(PopTo(target, first)) = count + K
           /\ K > 0 => count >= 2
           /\ \A i \in 1..count : PopTo(target, first)[i] = frames[i]
           /\ \A k \in 1..K : IsFinally(PopTo(target, first)[count + k],
                                        IF k = 1 THEN 1 + (count - target) ELSE 1)
<1>. DEFINE L == Len(frames)
            with   == {i \in target + 1..L : HasFinally(frames[i])}
            count  == LastOf({target} \cup with)
            final  == {i \in first..count : HasFinally(frames[i])}
            K      == Cardinality(final)
            finals == [k \in 1..K |-> CHOOSE i \in final : Cardinality({j \in final : j < i}) = k - 1]
            above  == [k \in DOMAIN finals |-> FinallyFrame(frames[finals[k]], IF k = 1 THEN 1 + count - target ELSE 1)]
            gs     == Below(count) \o above
<1>1. frames \in Seq(Frame) /\ L \in Nat /\ L >= 1 /\ target \in Nat /\ target >= 1 /\ target <= L /\ first \in Nat
  BY StackFacts DEF StackOK
<1>2. gs = PopTo(target, first)
  BY DEF PopTo
<1>3. \A i \in 1..L : i >= 2 => frames[i].node \in Node
  BY <1>1, StackFacts
<1>. HIDE DEF L
<1>4. count \in target..L /\ count \in Nat /\ count <= L
  <2>. DEFINE S == {target} \cup with
  <2>1. S \in SUBSET Nat /\ \A i \in S : i <= L
    BY <1>1
  <2>2. target \in S
    OBVIOUS
  <2>. HIDE DEF S
  <2>. DEFINE c == LastOf(S)
  <2>3. c \in S \cup {0} /\ \A j \in S : j <= c
    BY <1>1, <2>1, LastOfGreatest
  <2>. HIDE DEF c
  <2>4. target <= c
    BY <2>2, <2>3
  <2>5. c \in S
    BY <1>1, <2>3, <2>4
  <2>6. c \in Nat /\ c <= L
    BY <2>1, <2>5
  <2>. QED BY <1>1, <2>4, <2>6 DEF S, c
<1>. HIDE DEF with, count
<1>5. /\ final \in SUBSET Nat /\ \A i \in final : i <= count /\ i >= 2
      /\ \A i \in final : i \in 1..L /\ HasFinally(frames[i])
  BY <1>1, <1>4
<1>. HIDE DEF final
<1>6. /\ IsFiniteSet(final) /\ K \in Nat
      /\ \A k \in 1..K : \E i \in final : Cardinality({j \in final : j < i}) = k - 1
  BY <1>4, <1>5, Ranks
<1>7. K > 0 => count >= 2
  <2>1. K # 0 => final # {}
    BY FS_EmptySet
  <2>2. ASSUME NEW i \in final PROVE count >= 2
    <3>1. i \in Nat /\ i <= count /\ i >= 2
      BY <1>5
    <3>. QED BY <1>4, <3>1
  <2>. QED BY <1>6, <2>1, <2>2
<1>. HIDE DEF K
<1>8. \A k \in 1..K : finals[k] \in final
  BY <1>6
<1>9. DOMAIN finals = 1..K
  OBVIOUS
<1>. HIDE DEF finals
<1>10. ASSUME NEW k \in 1..K
       PROVE  IsFinally(above[k], IF k = 1 THEN 1 + (count - target) ELSE 1)
  <2>. DEFINE d == IF k = 1 THEN 1 + (count - target) ELSE 1
  <2>1. d \in Nat \ {0}
    BY <1>1, <1>4
  <2>2. finals[k] \in final
    BY <1>8
  <2>3. HasFinally(frames[finals[k]]) /\ frames[finals[k]].node \in Node
    BY <1>3, <1>5, <2>2
  <2>4. 1 + count - target = 1 + (count - target)
    OBVIOUS
  <2>5. above[k] = FinallyFrame(frames[finals[k]], d)
    BY <1>9, <2>4
  <2>. HIDE DEF d, above
  <2>6. IsFinally(above[k], d)
    BY <2>1, <2>3, <2>5, FinallyFrameOK
  <2>. QED BY <2>6 DEF d
<1>11. above \in Seq(Frame) /\ Len(above) = K
  <2>1. \A k \in 1..K : above[k] \in Frame
    BY <1>10 DEF IsFinally
  <2>2. above = [k \in 1..K |-> above[k]]
    BY <1>9
  <2>. HIDE DEF above
  <2>3. above \in [1..K -> Frame]
    BY <2>1, <2>2
  <2>. QED BY <1>6, <2>3
<1>. HIDE DEF above
<1>12. /\ Below(count) \in Seq(Frame) /\ Len(Below(count)) = count
       /\ \A i \in 1..count : Below(count)[i] = frames[i]
  BY <1>1, <1>4 DEF Below, L
<1>13. /\ gs \in Seq(Frame) /\ Len(gs) = count + K
       /\ \A i \in 1..count : gs[i] = frames[i]
       /\ \A k \in 1..K : gs[count + k] = above[k]
  <2>. DEFINE bs == Below(count)
  <2>. HIDE DEF bs
  <2>1. bs \in Seq(Frame) /\ Len(bs) = count /\ \A i \in 1..count : bs[i] = frames[i]
    BY <1>12 DEF bs
  <2>2. /\ bs \o above \in Seq(Frame) /\ Len(bs \o above) = count + K
        /\ \A i \in 1..count : (bs \o above)[i] = bs[i]
    BY <1>4, <1>6, <1>11, <2>1
  <2>3. \A k \in 1..K : count + k \in 1..count + K /\ count + k > count /\ (count + k) - count = k
    BY <1>4, <1>6
  <2>4. \A k \in 1..K : (bs \o above)[count + k] = above[k]
    BY <1>4, <1>6, <1>11, <2>1, <2>3
  <2>. QED BY <2>1, <2>2, <2>4 DEF bs
<1>14. \A k \in 1..K : IsFinally(gs[count + k], IF k = 1 THEN 1 + (count - target) ELSE 1)
  BY <1>10, <1>13
<1>. HIDE DEF gs
<1>15. count \in target..Len(frames)
  BY <1>4 DEF L
<1>. QED BY <1>2, <1>6, <1>7, <1>13, <1>14, <1>15

\* A jump passes no finally block that is being run, so what it passes covers nothing else.
LEMMA PopToOK ==
  ASSUME StackOK(frames), Running, Top.exception = None, Top.todo \in {None, "returning"},
         NEW target \in 1..Len(frames), NEW first \in 2..target + 1,
         \A i \in target + 1..Len(frames) : frames[i].node.type # "Finally"
  PROVE  LET gs == PopTo(target, first)
         IN  StackOK(gs) /\ Len(gs) >= target /\ \A i \in 1..target : gs[i] = frames[i]
<1>. DEFINE L == Len(frames)  gs == PopTo(target, first)
<1>1. L \in Nat /\ L >= 2 /\ target \in 1..L /\ frames[L] = Top
  BY TopFacts
<1>2. PICK c \in target..L, K \in Nat :
           /\ gs \in Seq(Frame) /\ Len(gs) = c + K
           /\ K > 0 => c >= 2
           /\ \A i \in 1..c : gs[i] = frames[i]
           /\ \A k \in 1..K : IsFinally(gs[c + k], IF k = 1 THEN 1 + (c - target) ELSE 1)
  BY PopToFacts
<1>. DEFINE n == c + K
<1>. HIDE DEF gs
<1>3. c \in Nat /\ n \in Nat /\ c >= target /\ c <= L /\ n >= c /\ (n > c => c >= 2) /\ Len(gs) = n
      /\ target \in Nat /\ target >= 1
  BY <1>1, <1>2
<1>4. /\ \A i \in 1..c : gs[i] = frames[i] /\ i \in 1..L
      /\ \A i \in 2..c : i \in 2..L
  BY <1>1, <1>2, <1>3
<1>5. ASSUME NEW i \in c + 1..n
      PROVE  IsFinally(gs[i], IF i = c + 1 THEN 1 + (c - target) ELSE 1)
  <2>. DEFINE k == i - c
  <2>1. k \in 1..K /\ c + k = i /\ (k = 1 <=> i = c + 1)
    BY <1>2, <1>3
  <2>. HIDE DEF k, n
  <2>2. IsFinally(gs[c + k], IF k = 1 THEN 1 + (c - target) ELSE 1)
    BY <1>2, <2>1
  <2>. QED BY <2>1, <2>2
<1>. HIDE DEF n, L
<1>6. /\ \A i \in 1..c : Uncovers(gs, i) = Uncovers(frames, i)
      /\ \A i \in 2..c : Uncovers(frames, i) \in 1..i - 1
  BY <1>4, StackFacts DEF Uncovers, L
<1>7. \A i \in c + 1..n : Uncovers(gs, i) = IF i = c + 1 THEN target ELSE i - 1
  <2>1. \A i \in c + 1..n : gs[i].popCount = IF i = c + 1 THEN 1 + (c - target) ELSE 1
    BY <1>5 DEF IsFinally
  <2>2. ASSUME NEW i \in c + 1..n
        PROVE  i - gs[i].popCount = IF i = c + 1 THEN target ELSE i - 1
    <3>1. i \in Int /\ gs[i].popCount = IF i = c + 1 THEN 1 + (c - target) ELSE 1
      BY <1>3, <2>1
    <3>. DEFINE q == gs[i].popCount
    <3>. HIDE DEF q
    <3>2. q = IF i = c + 1 THEN 1 + (c - target) ELSE 1
      BY <3>1 DEF q
    <3>3. i - q = IF i = c + 1 THEN target ELSE i - 1
      BY <1>3, <3>1, <3>2
    <3>. QED BY <3>3 DEF q
  <2>. QED BY <2>2 DEF Uncovers
<1>8. \A i \in target + 1..c : Uncovers(frames, i) >= target
  <2>. SUFFICES ASSUME NEW i \in target + 1..c PROVE Uncovers(frames, i) >= target
    OBVIOUS
  <2>1. i \in 1..L /\ frames[i].node.type # "Finally" /\ i \in Nat /\ i > target
    BY <1>1, <1>3 DEF L
  <2>2. FrameOK(frames[i]) /\ frames[i].popCount \in Nat /\ frames[i].popCount >= 1
    BY <2>1, StackFacts DEF L
  <2>3. frames[i].popCount = 1
    BY <2>1, <2>2 DEF FrameOK
  <2>. QED BY <1>3, <2>1, <2>3 DEF Uncovers
<1>9. \A i \in 1..n : i \in 1..c \/ i \in c + 1..n
  BY <1>3
<1>10. \A i \in 1..n : FrameOK(gs[i])
  <2>1. \A i \in 1..c : FrameOK(gs[i])
    BY <1>4, StackFacts DEF L
  <2>. QED BY <1>5, <1>9, <2>1 DEF IsFinally
<1>11. \A i \in 2..n : gs[i].node \in Node /\ Uncovers(gs, i) >= 1
  <2>1. \A i \in 2..c : gs[i].node \in Node /\ Uncovers(gs, i) >= 1
    <3>1. \A i \in 2..c : i \in 1..c /\ frames[i].node \in Node
      BY <1>3, <1>4, StackFacts DEF L
    <3>2. \A i \in 2..c : Uncovers(frames, i) >= 1
      BY <1>4 DEF StackOK, L
    <3>3. \A i \in 2..c : gs[i] = frames[i] /\ Uncovers(gs, i) = Uncovers(frames, i)
      BY <1>4, <1>6, <3>1
    <3>. QED BY <3>1, <3>2, <3>3
  <2>2. \A i \in c + 1..n : gs[i].node \in Node
    BY <1>5 DEF IsFinally
  <2>3. \A i \in c + 1..n : Uncovers(gs, i) >= 1
    BY <1>3, <1>7
  <2>4. \A i \in 2..n : i \in 2..c \/ i \in c + 1..n
    BY <1>3
  <2>. QED BY <2>1, <2>2, <2>3, <2>4
<1>12. n > 1 => gs[2].node \in Roots
  <2>1. n > 1 => c >= 2
    BY <1>3
  <2>2. c >= 2 => gs[2] = frames[2]
    BY <1>3, <1>4
  <2>. QED BY <1>1, <2>1, <2>2 DEF StackOK, L
<1>13. \A i \in 1..n - 1 : gs[i].todo \in {None, "import", "returning"}
  <2>1. \A i \in 1..c : gs[i].todo \in {None, "import", "returning"}
    <3>1. \A i \in 1..L - 1 : frames[i].todo \in {None, "import", "returning"}
      BY DEF StackOK, L
    <3>2. \A i \in 1..c : i \in 1..L - 1 \/ i = L
      BY <1>1, <1>3
    <3>. QED BY <1>1, <1>4, <3>1, <3>2
  <2>2. \A i \in c + 1..n : gs[i].todo \in {None, "import", "returning"}
    BY <1>5 DEF IsFinally
  <2>3. \A i \in 1..n - 1 : i \in 1..n
    BY <1>3
  <2>. QED BY <1>9, <2>1, <2>2, <2>3
<1>14. \A i \in 2..n : Checking(gs[i]) => CaseOK(gs[i], gs[i - 1])
  <2>1. \A i \in 2..c : gs[i] = frames[i] /\ gs[i - 1] = frames[i - 1]
    <3>1. \A i \in 2..c : i \in 1..c /\ i - 1 \in 1..c
      BY <1>3
    <3>. QED BY <1>4, <3>1
  <2>2. \A i \in 2..c : Checking(frames[i]) => CaseOK(frames[i], frames[i - 1])
    BY <1>4 DEF StackOK, L
  <2>3. \A i \in c + 1..n : ~Checking(gs[i])
    BY <1>5 DEF IsFinally
  <2>4. \A i \in 2..n : i \in 2..c \/ i \in c + 1..n
    BY <1>3
  <2>. QED BY <2>1, <2>2, <2>3, <2>4
<1>15. ASSUME NEW i \in 2..n, NEW j \in 2..n, i < j
       PROVE  Uncovers(gs, j) >= i \/ Uncovers(gs, j) <= Uncovers(gs, i)
  <2>1. CASE j \in 2..c
    <3>1. i \in 2..c /\ i \in 1..c /\ j \in 1..c
      BY <1>3, <1>15, <2>1
    <3>2. Uncovers(frames, j) >= i \/ Uncovers(frames, j) <= Uncovers(frames, i)
      BY <1>4, <1>15, <2>1, <3>1 DEF StackOK, L
    <3>. QED BY <1>6, <3>1, <3>2
  <2>2. CASE j = c + 1
    <3>1. i \in 2..c /\ i \in 1..c /\ Uncovers(gs, j) = target
      BY <1>3, <1>7, <1>15, <2>2
    <3>2. CASE i \in target + 1..c
      BY <1>6, <1>8, <3>1, <3>2
    <3>3. CASE i <= target
      BY <3>1, <3>3
    <3>4. i <= target \/ i \in target + 1..c
      BY <1>3, <3>1
    <3>. QED BY <3>2, <3>3, <3>4
  <2>3. CASE j \in c + 2..n
    <3>1. Uncovers(gs, j) = j - 1
      BY <1>3, <1>7, <2>3
    <3>2. i \in Int /\ j \in Int /\ i < j
      BY <1>3, <1>15
    <3>3. j - 1 >= i
      BY <3>2
    <3>. QED BY <3>1, <3>3
  <2>4. j \in 2..c \/ j = c + 1 \/ j \in c + 2..n
    BY <1>3
  <2>. QED BY <2>1, <2>2, <2>3, <2>4
<1>16. Awaited(gs)
  <2>. SUFFICES ASSUME NEW i \in 1..n - 1, gs[i].exception # None
                PROVE  \E j \in i + 1..n : gs[j].node.type = "Finally" /\ Uncovers(gs, j) = i
    BY <1>3 DEF Awaited
  <2>1. i \in 1..c
    <3>1. \A j \in c + 1..n : gs[j].exception = None
      BY <1>5 DEF IsFinally
    <3>2. i \in 1..n
      BY <1>3
    <3>. QED BY <1>9, <3>1, <3>2
  <2>2. frames[i].exception # None /\ i \in 1..L
    BY <1>4, <2>1
  <2>3. i \in 1..L - 1
    BY <1>1, <2>2
  <2>4. PICK j \in i + 1..L : frames[j].node.type = "Finally" /\ Uncovers(frames, j) = i
    BY <2>2, <2>3 DEF StackOK, Awaited, L
  <2>5. j \notin target + 1..L
    BY <2>4 DEF L
  <2>6. j \in 1..c /\ j \in i + 1..n
    BY <1>1, <1>3, <2>1, <2>5
  <2>. QED BY <1>4, <1>6, <2>4, <2>6
<1>17. gs # <<>> /\ gs[1].node = Residential /\ gs[1].popCount = 1
  <2>1. gs[1] = frames[1]
    BY <1>3, <1>4
  <2>2. gs # <<>>
    BY <1>2, <1>3
  <2>. QED BY <2>1, <2>2 DEF StackOK
<1>18. StackOK(gs)
  BY <1>2, <1>3, <1>10, <1>11, <1>12, <1>13, <1>14, <1>15, <1>16, <1>17 DEF StackOK
<1>19. Len(gs) >= target /\ \A i \in 1..target : gs[i] = frames[i]
  BY <1>3, <1>4
<1>. QED BY <1>18, <1>19 DEF gs

LEMMA ReturnOK ==
  ASSUME StackOK(frames), Return
  PROVE  StackOK(frames')
<1>. DEFINE L == Len(frames)  S == {i \in DOMAIN frames : ~IsBlock(frames[i])}  method == LastOf(S)
<1>1. /\ Running /\ Top.todo \in {None, "returning"} /\ (Top.todo = None => Top.exception = None)
      /\ IF \E i \in method..L : frames[i].node.type = "Finally"
           THEN Raise(Unsupported) ELSE frames' = PopTo(method - 1, method)
  BY DEF Return, AtStatement, None
<1>2. L \in Nat /\ L >= 2 /\ DOMAIN frames = 1..L /\ FrameOK(Top)
  BY <1>1, TopFacts DEF StackOK
<1>3. Top.exception = None
  BY <1>1, <1>2 DEF FrameOK, None
<1>4. method \in 2..L
  <2>1. frames[2].node \in Roots
    BY <1>2 DEF StackOK
  <2>2. 2 \in S
    BY <1>2, <2>1 DEF IsBlock, Roots
  <2>3. S \in SUBSET Nat /\ \A i \in S : i <= L
    BY <1>2
  <2>. HIDE DEF S, L
  <2>. DEFINE m == LastOf(S)
  <2>4. m \in S \cup {0} /\ \A j \in S : j <= m
    BY <1>2, <2>3, LastOfGreatest
  <2>. HIDE DEF m
  <2>5. 2 <= m
    BY <2>2, <2>4
  <2>6. m \in S
    BY <2>4, <2>5
  <2>7. m \in Nat /\ m <= L
    BY <2>3, <2>6
  <2>. QED BY <1>2, <2>5, <2>7 DEF m
<1>. HIDE DEF method
<1>5. CASE \E i \in method..L : frames[i].node.type = "Finally"
  <2>1. Raise(Unsupported) /\ Unsupported \in Throwable
    BY <1>1, <1>5 DEF Throwable
  <2>. QED BY <1>1, <2>1, RaiseOK
<1>6. CASE ~\E i \in method..L : frames[i].node.type = "Finally"
  <2>. DEFINE target == method - 1
  <2>1. frames' = PopTo(target, method)
    BY <1>1, <1>6
  <2>2. target \in 1..L /\ method \in 2..target + 1 /\ target + 1 = method
    BY <1>2, <1>4
  <2>3. \A i \in target + 1..L : frames[i].node.type # "Finally"
    BY <1>6, <2>2
  <2>. HIDE DEF target
  <2>4. StackOK(PopTo(target, method))
    BY <1>1, <1>3, <2>2, <2>3, PopToOK
  <2>. QED BY <2>1, <2>4
<1>. QED BY <1>5, <1>6

\* continue: the loop goes on where it looks for the next element or at its condition again.
LEMMA ContinueOK ==
  ASSUME StackOK(frames), Running, Top.exception = None, Top.todo = None,
         NEW target \in 2..Len(frames), IsLoop(frames[target]),
         \A i \in target + 1..Len(frames) : frames[i].node.type # "Finally"
  PROVE  StackOK([PopTo(target, target) EXCEPT ![target].phase = PhaseOnContinue(frames[target])])
<1>. DEFINE fs == PopTo(target, target)  p == PhaseOnContinue(frames[target])  f == fs[target]
            g == [f EXCEPT !.phase = p]  gs == [fs EXCEPT ![target] = g]  n == Len(fs)
<1>1. Len(frames) \in Nat /\ target \in Nat /\ target >= 2 /\ target \in 1..Len(frames) /\ target \in 2..target + 1
  <2>1. Len(frames) \in Nat
    BY TopFacts
  <2>. QED BY <2>1
<1>2. StackOK(fs) /\ n >= target /\ \A i \in 1..target : fs[i] = frames[i]
  BY <1>1, PopToOK
<1>3. fs \in Seq(Frame) /\ n \in Nat /\ f = frames[target] /\ target \in 1..target
  BY <1>1, <1>2 DEF StackOK
<1>4. gs = [fs EXCEPT ![target].phase = p]
  OBVIOUS
<1>. HIDE DEF fs, f
<1>5. target \in 1..n /\ target \in 2..n
  BY <1>1, <1>2, <1>3
<1>6. f \in Frame /\ FrameOK(f) /\ f.node \in Node /\ f.node.type \in {"For", "While"}
  BY <1>2, <1>3, <1>5, StackFacts DEF IsLoop, f
<1>7. p \in Nat /\ p \in PhasesOf(f.node)
  <2>1. p = IF f.node.type = "For" THEN For_BeginLoop ELSE While_Continue
    BY <1>3 DEF PhaseOnContinue
  <2>2. Special \in Nat
    BY NodeAssumption
  <2>. QED BY <1>6, <2>1, <2>2 DEF PhasesOf, For_BeginLoop, While_Continue
<1>. HIDE DEF p
<1>8. g \in Frame /\ Kept(g, f) /\ g.phase = p /\ g.todo = f.todo /\ g.arg = f.arg
  BY <1>6, <1>7, PhaseSet
<1>. HIDE DEF g
<1>9. f.todo \in {None, "import", "returning"}
  <2>1. \A i \in 1..Len(frames) - 1 : frames[i].todo \in {None, "import", "returning"}
    BY DEF StackOK
  <2>2. frames[Len(frames)].todo = None
    BY DEF Top
  <2>3. target \in 1..Len(frames) - 1 \/ target = Len(frames)
    BY <1>1
  <2>. QED BY <1>3, <2>1, <2>2, <2>3
<1>10. FrameOK(g) /\ ~Checking(g)
  BY <1>6, <1>7, <1>8, <1>9 DEF FrameOK, Checking, Kept, None
<1>11. /\ gs \in Seq(Frame) /\ Len(gs) = n /\ gs[target] = g
       /\ \A i \in 1..n : i # target => gs[i] = fs[i]
  BY <1>3, <1>5, <1>8
<1>. HIDE DEF gs
<1>12. \A i \in 1..n : gs[i].node = fs[i].node /\ gs[i].popCount = fs[i].popCount
                       /\ gs[i].todo = fs[i].todo /\ gs[i].exception = fs[i].exception
  BY <1>8, <1>11 DEF Kept, f
<1>13. \A i \in 1..n : /\ FrameOK(gs[i]) /\ gs[i].popCount = fs[i].popCount
                       /\ fs[i].node.type = "Finally" => gs[i].node.type = "Finally"
  <2>1. \A i \in 1..n : FrameOK(fs[i])
    BY <1>2, StackFacts
  <2>. QED BY <1>10, <1>11, <1>12, <2>1
<1>14. \A i \in 1..n - 1 : /\ gs[i].todo \in {None, "import", "returning"}
                           /\ gs[i].exception # None => fs[i].exception # None \/ Await(fs, i)
  <2>1. \A i \in 1..n - 1 : i \in 1..n
    BY <1>3
  <2>2. \A i \in 1..n - 1 : fs[i].todo \in {None, "import", "returning"}
    BY <1>2 DEF StackOK
  <2>. QED BY <1>12, <2>1, <2>2
<1>15. gs[1].node = fs[1].node /\ gs[2].node = fs[2].node
  <2>1. 1 \in 1..n /\ 2 \in 1..n
    BY <1>1, <1>2, <1>3
  <2>. QED BY <1>12, <2>1
<1>16. ASSUME NEW i \in 2..n
       PROVE  gs[i].node \in Node /\ (Checking(gs[i]) => CaseOK(gs[i], gs[i - 1]))
  <2>1. i \in 1..n /\ i - 1 \in 1..n
    BY <1>3
  <2>2. fs[i].node \in Node /\ (Checking(fs[i]) => CaseOK(fs[i], fs[i - 1]))
    BY <1>2 DEF StackOK
  <2>3. CASE i = target
    BY <1>10, <1>11, <1>12, <2>1, <2>2, <2>3
  <2>4. CASE i # target
    <3>1. gs[i] = fs[i]
      BY <1>11, <2>1, <2>4
    <3>2. Checking(fs[i]) => i - 1 # target
      <4>1. Checking(fs[i]) => fs[i - 1].node.type = "Switch"
        BY <2>2 DEF CaseOK
      <4>. QED BY <1>6, <4>1 DEF f
    <3>3. Checking(fs[i]) => gs[i - 1] = fs[i - 1]
      BY <1>11, <2>1, <3>2
    <3>. QED BY <2>2, <3>1, <3>3
  <2>. QED BY <2>3, <2>4
<1>17. StackOK(gs)
  BY <1>2, <1>11, <1>13, <1>14, <1>15, <1>16, Reshaped
<1>. QED BY <1>4, <1>17 DEF fs, p

LEMMA JumpOK ==
  ASSUME StackOK(frames), Jump
  PROVE  StackOK(frames')
<1>. DEFINE L == Len(frames)  S == JumpTargets(Next0)  target == LastOf(S)
            barred == \E i \in target + 1..L : frames[i].node.type = "Finally"
            ex == IF barred THEN Unsupported ELSE NoTarget(Next0)
            g == [Top EXCEPT !.exception = ex]
<1>1. /\ AtStatement({"Break", "Continue"}) /\ Next0.type \in {"Break", "Continue"}
      /\ Running /\ Top.todo = None /\ Top.exception = None
      /\ frames' = IF barred \/ target = 0 THEN WithTop(g)
                   ELSE IF Next0.type = "Break" THEN PopTo(target - 1, target)
                   ELSE [PopTo(target, target) EXCEPT ![target].phase = PhaseOnContinue(frames[target])]
  BY DEF Jump, AtStatement, Next0
<1>2. L \in Nat /\ L >= 2 /\ Top \in Frame /\ FrameOK(Top)
  BY <1>1, TopFacts
<1>3. S \subseteq 2..L
  BY DEF JumpTargets
<1>4. \A i \in S : frames[i].node.type \in {"For", "While", "Switch"} /\ (Next0.type # "Break" => IsLoop(frames[i]))
  BY DEF JumpTargets, IsLoop
<1>5. target # 0 => target \in S
  <2>1. S \in SUBSET Nat /\ \A i \in S : i <= L
    BY <1>2, <1>3
  <2>. HIDE DEF S
  <2>. QED BY <1>2, <2>1, LastOfGreatest
<1>. HIDE DEF S, target
<1>6. CASE barred \/ target = 0
  <2>1. ex \in Throwable
    BY DEF Throwable, NoTarget
  <2>. HIDE DEF ex
  <2>2. g \in Frame /\ g.node = Top.node /\ g.popCount = Top.popCount /\ g.phase = Top.phase /\ g.todo = None
    BY <1>1, <1>2, <2>1 DEF Frame
  <2>. HIDE DEF g
  <2>3. FrameOK(g)
    BY <1>2, <2>2 DEF FrameOK, None
  <2>4. StackOK(WithTop(g))
    BY <1>1, <2>2, <2>3, TopChanged
  <2>. QED BY <1>1, <1>6, <2>4
<1>7. CASE ~barred /\ target # 0 /\ Next0.type = "Break"
  <2>. DEFINE t == target - 1
  <2>1. frames' = PopTo(t, target)
    BY <1>1, <1>7
  <2>2. t \in 1..L /\ target \in 2..t + 1 /\ t + 1 = target
    <3>1. target \in 2..L
      BY <1>3, <1>5, <1>7
    <3>. HIDE DEF L
    <3>. QED BY <1>2, <3>1
  <2>3. \A i \in t + 1..L : i = target \/ i \in target + 1..L
    BY <1>2, <2>2
  <2>4. \A i \in t + 1..L : frames[i].node.type # "Finally"
    BY <1>4, <1>5, <1>7, <2>3
  <2>. HIDE DEF t
  <2>5. StackOK(PopTo(t, target))
    BY <1>1, <2>2, <2>4, PopToOK
  <2>. QED BY <2>1, <2>5
<1>8. CASE ~barred /\ target # 0 /\ Next0.type # "Break"
  <2>1. target \in 2..L /\ IsLoop(frames[target])
    BY <1>3, <1>4, <1>5, <1>8
  <2>2. StackOK([PopTo(target, target) EXCEPT ![target].phase = PhaseOnContinue(frames[target])])
    BY <1>1, <1>8, <2>1, ContinueOK
  <2>. QED BY <1>1, <1>8, <2>2
<1>. QED BY <1>6, <1>7, <1>8

(***************************************************************************)
(* The theorem.                                                            *)
(***************************************************************************)
LEMMA InitInd == Init => IndInv
<1>. SUFFICES ASSUME Init PROVE IndInv
  OBVIOUS
<1>. DEFINE r == NewFrame(Residential, 0)  s == NewFrame(script, ScriptRoot_Initial)
<1>1. frames = <<r, s>> /\ result = None
  BY DEF Init
<1>2. script \in Node /\ script.type = "ScriptRoot" /\ Special \in Nat
  BY NodeAssumption DEF Init, Roots
<1>3. ScriptRoot_Initial \in PhasesOf(script)
  BY <1>2 DEF PhasesOf, ScriptRoot_Initial
<1>4. s \in Frame /\ FrameOK(s) /\ s.node = script /\ s.popCount = 1 /\ s.exception = None /\ s.todo = None
  <2>1. script \in Node /\ ScriptRoot_Initial \in 0..Len(script.body) \cup PhasesOf(script)
    BY <1>2, <1>3
  <2>. QED BY ONLY <2>1, NewFrameOK
<1>5. r \in Frame /\ FrameOK(r) /\ r.node = Residential /\ r.popCount = 1 /\ r.exception = None /\ r.todo = None
  <2>1. r \in Frame
    BY DEF NewFrame, Frame, Todo
  <2>2. r.node = Residential /\ r.phase = 0 /\ r.popCount = 1 /\ r.exception = None /\ r.todo = None
    BY DEF NewFrame
  <2>. HIDE DEF r
  <2>3. Len(Residential.body) = 0
    BY DEF Residential
  <2>4. FrameOK(r)
    BY <2>2, <2>3 DEF FrameOK, None
  <2>. QED BY <2>1, <2>2, <2>4
<1>. HIDE DEF r, s
<1>6. /\ frames \in Seq(Frame) /\ Len(frames) = 2 /\ frames # <<>> /\ frames[1] = r /\ frames[2] = s
      /\ 1..2 = {1, 2} /\ 2..2 = {2} /\ 1..1 = {1}
  BY <1>1, <1>4, <1>5
<1>7. \A i \in 1..2 : FrameOK(frames[i])
  BY <1>4, <1>5, <1>6
<1>8. frames[2].node \in Node /\ frames[2].node \in Roots /\ Uncovers(frames, 2) = 1 /\ ~Checking(frames[2])
  BY <1>2, <1>4, <1>6 DEF Uncovers, Checking, Roots
<1>9. Awaited(frames)
  BY <1>5, <1>6 DEF Awaited
<1>10. StackOK(frames)
  BY <1>4, <1>5, <1>6, <1>7, <1>8, <1>9 DEF StackOK
<1>. QED BY <1>1, <1>10 DEF IndInv

LEMMA NextInd == IndInv /\ [Next]_vars => IndInv'
<1>. SUFFICES ASSUME StackOK(frames), result \in {None, "ended", "abort"} \cup Throwable, [Next]_vars
              PROVE  StackOK(frames') /\ result' \in {None, "ended", "abort"} \cup Throwable
  BY DEF IndInv, StackOK, Awaited, Uncovers
<1>1. CASE CatchException
  BY <1>1, CatchExceptionOK DEF CatchException
<1>2. CASE PassException
  BY <1>2, PassExceptionOK
<1>3. ASSUME NEW o \in {"ok", "true", "false"} \cup Exception, Evaluate(o)
      PROVE  StackOK(frames') /\ result' \in {None, "ended", "abort"} \cup Throwable
  BY <1>3, EvaluateOK DEF Evaluate
<1>4. CASE Prepare
  BY <1>4, PrepareOK DEF Prepare, Quiet
<1>5. CASE Skip
  BY <1>5, SkipOK DEF Skip, Quiet
<1>6. CASE Enter
  BY <1>6, EnterOK DEF Enter, Quiet
<1>7. CASE Rethrow
  BY <1>7, RethrowOK
<1>8. CASE Return
  BY <1>8, ReturnOK DEF Return, Quiet
<1>9. CASE Jump
  BY <1>9, JumpOK DEF Jump, Quiet
<1>10. CASE StartScript
  BY <1>10, StartScriptOK DEF StartScript, Quiet
<1>11. CASE ImportPackage
  BY <1>11, ImportPackageOK DEF ImportPackage, Quiet
<1>12. CASE EndScript
  BY <1>12, EndScriptOK DEF EndScript, Quiet
<1>13. CASE EndBlock
  BY <1>13, EndBlockOK DEF EndBlock, Quiet
<1>14. CASE EndIfGroup
  BY <1>14, EndIfGroupOK DEF EndIfGroup, Quiet
<1>15. CASE EndWhile
  BY <1>15, EndWhileOK DEF EndWhile, Quiet
<1>16. CASE EndFor
  BY <1>16, EndForOK DEF EndFor, Quiet
<1>17. CASE EndSwitch
  BY <1>17, EndSwitchOK DEF EndSwitch, Quiet
<1>18. CASE EndCase
  BY <1>18, EndCaseOK DEF EndCase, Quiet
<1>19. CASE End
  <2>1. Len(frames) \in 1..Len(frames)
    BY StackFacts
  <2>2. Top \in Frame
    BY <2>1, StackFacts DEF Top
  <2>. QED BY <1>19, <2>2 DEF End, Frame
<1>20. CASE UNCHANGED vars
  BY <1>20 DEF vars
<1>. QED BY <1>1, <1>2, <1>3, <1>4, <1>5, <1>6, <1>7, <1>8, <1>9, <1>10, <1>11, <1>12, <1>13, <1>14,
            <1>15, <1>16, <1>17, <1>18, <1>19, <1>20 DEF Next

LEMMA IndTypes == IndInv => TypeOK
<1>. SUFFICES ASSUME StackOK(frames), result \in {None, "ended", "abort"} \cup Throwable PROVE TypeOK
  BY DEF IndInv
<1>. DEFINE L == Len(frames)
<1>1. L \in Nat /\ L >= 1 /\ frames \in Seq(Frame) /\ frames # <<>> /\ frames[1].node = Residential
  BY StackFacts DEF StackOK
<1>2. ASSUME NEW i \in 1..L
      PROVE  /\ frames[i].popCount \in 1..(IF i = 1 THEN 1 ELSE i - 1)
             /\ frames[i].phase \in 0..Len(Body(frames[i])) \cup Special..Special + 5 + Len(Body(frames[i]))
             /\ frames[i].todo \in Todo
             /\ i < Len(frames) => frames[i].todo \in {None, "import", "returning"}
  <2>1. frames[i] \in Frame /\ FrameOK(frames[i]) /\ frames[i].popCount \in Nat /\ frames[i].popCount >= 1
    BY StackFacts
  <2>2. frames[i].todo \in Todo
    BY <2>1 DEF Frame
  <2>3. i < L => frames[i].todo \in {None, "import", "returning"}
    <3>1. i < L => i \in 1..L - 1
      BY <1>1
    <3>. QED BY <3>1 DEF StackOK
  <2>4. frames[i].popCount \in 1..(IF i = 1 THEN 1 ELSE i - 1)
    <3>1. CASE i = 1
      BY <2>1, <3>1 DEF StackOK
    <3>2. CASE i # 1
      <4>1. i \in 2..L /\ i \in Int
        BY <1>1, <3>2
      <4>2. i - frames[i].popCount >= 1
        BY <4>1 DEF StackOK, Uncovers
      <4>3. frames[i].popCount <= i - 1
        BY <2>1, <4>1, <4>2
      <4>. QED BY <2>1, <3>2, <4>1, <4>3
    <3>. QED BY <3>1, <3>2
  <2>5. frames[i].phase \in 0..Len(Body(frames[i])) \cup Special..Special + 5 + Len(Body(frames[i]))
    <3>1. CASE i = 1
      <4>1. frames[i].phase \in 0..Len(Body(frames[i])) \cup PhasesOf(Residential)
        BY <2>1, <3>1 DEF FrameOK, Body, StackOK
      <4>2. PhasesOf(Residential) = {}
        BY DEF PhasesOf, Residential
      <4>. QED BY <4>1, <4>2
    <3>2. CASE i # 1
      <4>1. i \in 2..L
        BY <1>1, <3>2
      <4>2. frames[i].node \in Node
        BY <4>1 DEF StackOK
      <4>. QED BY <2>1, <4>2, PhaseFacts DEF FrameOK, Body
    <3>. QED BY <3>1, <3>2
  <2>. QED BY <2>2, <2>3, <2>4, <2>5
<1>3. DOMAIN frames = 1..L
  BY <1>1
<1>4. PendingHasFinally
  BY DEF PendingHasFinally, StackOK
<1>. QED BY <1>1, <1>2, <1>3, <1>4 DEF TypeOK

\* Whatever a script does, with any classes of exceptions and any outcomes of its expressions:
\* no frame takes more with it than there is, what waits on a frame is what stepRun() knows,
\* and an exception that consumeException() has left below is waited for by a finally block
\* above that goes down to exactly its frame.
THEOREM FramesTypes == Spec => []TypeOK
<1>1. Init => IndInv
  BY InitInd
<1>2. IndInv /\ [Next]_vars => IndInv'
  BY NextInd
<1>3. IndInv => TypeOK
  BY IndTypes
<1>. QED BY <1>1, <1>2, <1>3, PTL DEF Spec
==============================================================================
