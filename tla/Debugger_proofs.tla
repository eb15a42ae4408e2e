--------------------------- MODULE Debugger_proofs ---------------------------
(***************************************************************************)
(* Proofs about the workers, the debugger and the places of the script     *)
(* threads, for any threads, workers, break points and bounds.             *)
(***************************************************************************)
EXTENDS Debugger, FiniteSetTheorems, SequenceTheorems, WellFoundedInduction, TLAPS

USE SetAssumption, CountAssumption, NoneAssumption, FiniteAssumption

LEMMA Finite ==
  /\ Cardinality(Worker) \in Nat \ {0} /\ Cardinality(Thread) \in Nat
  /\ 0 \in WaitId
<1>1. Cardinality(Worker) \in Nat /\ Cardinality(Thread) \in Nat
  BY FS_CardinalityType
<1>. QED BY <1>1 DEF WaitId

------------------------------------------------------------------------------
(* The queue.                                                              *)

QueueOnce == \A i, j \in DOMAIN queue : queue[i] = queue[j] => i = j

LEMMA EnqueueOnce ==
  ASSUME NEW t \in Thread, queue \in Seq(Thread), queue' = Append(queue, t)
  PROVE  /\ queue' \in Seq(Thread)
         /\ \A q \in Thread : InQueue(q)' <=> InQueue(q) \/ q = t
         /\ QueueOnce /\ ~InQueue(t) => QueueOnce'
<1>1. /\ queue' \in Seq(Thread)
      /\ DOMAIN queue = 1..Len(queue) /\ DOMAIN queue' = 1..Len(queue) + 1
      /\ \A i \in 1..Len(queue) : queue'[i] = queue[i]
      /\ queue'[Len(queue) + 1] = t
  BY AppendProperties
<1>2. Len(queue) \in Nat
  OBVIOUS
<1>3. \A i \in DOMAIN queue' : i \in DOMAIN queue \/ i = Len(queue) + 1
  BY <1>1, <1>2
<1>4. \A q \in Thread : InQueue(q)' <=> InQueue(q) \/ q = t
  BY <1>1, <1>2, <1>3 DEF InQueue
<1>5. QueueOnce /\ ~InQueue(t) => QueueOnce'
  BY <1>1, <1>2, <1>3 DEF InQueue, QueueOnce
<1>. QED BY <1>1, <1>4, <1>5

LEMMA DequeueOnce ==
  ASSUME queue \in Seq(Thread), queue # <<>>, queue' = Tail(queue)
  PROVE  /\ queue' \in Seq(Thread) /\ Head(queue) \in Thread /\ InQueue(Head(queue))
         /\ QueueOnce => QueueOnce' /\ \A q \in Thread : InQueue(q)' <=> InQueue(q) /\ q # Head(queue)
<1>1. /\ queue' \in Seq(Thread) /\ Head(queue) \in Thread
      /\ Len(queue) \in Nat \ {0}
      /\ DOMAIN queue = 1..Len(queue) /\ DOMAIN queue' = 1..Len(queue) - 1
      /\ Head(queue) = queue[1]
      /\ \A i \in 1..Len(queue) - 1 : queue'[i] = queue[i + 1]
  BY HeadTailProperties, EmptySeq
<1>2. InQueue(Head(queue))
  BY <1>1 DEF InQueue
<1>3. ASSUME QueueOnce
      PROVE  QueueOnce' /\ \A q \in Thread : InQueue(q)' <=> InQueue(q) /\ q # Head(queue)
  <2>1. \A i \in DOMAIN queue' : i + 1 \in DOMAIN queue /\ queue'[i] = queue[i + 1] /\ i + 1 # 1
    BY <1>1
  <2>2. ASSUME NEW i \in DOMAIN queue, i # 1
        PROVE  i - 1 \in DOMAIN queue' /\ queue'[i - 1] = queue[i]
    <3>1. i - 1 \in 1..Len(queue) - 1 /\ (i - 1) + 1 = i
      BY <1>1, <2>2
    <3>2. queue'[i - 1] = queue[(i - 1) + 1]
      BY <1>1, <3>1
    <3>. QED BY <1>1, <3>1, <3>2
  <2>3. 1 \in DOMAIN queue /\ DOMAIN queue' \subseteq Nat
    BY <1>1
  <2>4. QueueOnce'
    <3>1. SUFFICES ASSUME NEW i \in DOMAIN queue', NEW j \in DOMAIN queue', queue'[i] = queue'[j]
                   PROVE  i = j
      BY DEF QueueOnce
    <3>2. i + 1 = j + 1
      BY <1>3, <2>1, <3>1 DEF QueueOnce
    <3>. QED BY <2>3, <3>2
  <2>5. ASSUME NEW q \in Thread PROVE InQueue(q)' <=> InQueue(q) /\ q # Head(queue)
    <3>1. ASSUME InQueue(q)' PROVE InQueue(q) /\ q # Head(queue)
      <4>1. PICK i \in DOMAIN queue' : queue'[i] = q
        BY <3>1 DEF InQueue
      <4>2. i + 1 \in DOMAIN queue /\ queue[i + 1] = q /\ i + 1 # 1
        BY <2>1, <4>1
      <4>. QED BY <1>1, <1>3, <2>3, <4>2 DEF InQueue, QueueOnce
    <3>2. ASSUME InQueue(q), q # Head(queue) PROVE InQueue(q)'
      <4>1. PICK i \in DOMAIN queue : queue[i] = q
        BY <3>2 DEF InQueue
      <4>2. i - 1 \in DOMAIN queue' /\ queue'[i - 1] = q
        BY <1>1, <2>2, <3>2, <4>1
      <4>. QED BY <4>2 DEF InQueue
    <3>. QED BY <3>1, <3>2
  <2>. QED BY <2>4, <2>5
<1>. QED BY <1>1, <1>2, <1>3

\* A thread that is in the queue is first at some place.
LEMMA FirstThere ==
  ASSUME NEW t \in Thread, queue \in Seq(Thread), InQueue(t)
  PROVE  FirstAt(t) \in DOMAIN queue /\ queue[FirstAt(t)] = t
<1>. DEFINE I == {i \in DOMAIN queue : queue[i] = t}
            R == {p \in Nat \X Nat : p[1] < p[2]}
<1>1. I \subseteq Nat /\ I # {} /\ DOMAIN queue = 1..Len(queue) /\ Len(queue) \in Nat
  BY DEF InQueue
<1>2. IsWellFoundedOn(R, Nat)
  BY NatLessThanWellFounded DEF OpToRel
<1>3. PICK i \in I : \A j \in I : <<j, i>> \notin R
  <2>1. \A T : T \subseteq Nat /\ T # {} => \E i \in T : \A j \in T : <<j, i>> \notin R
    BY ONLY <1>2, WFMin
  <2>. QED BY <1>1, <2>1
<1>4. \A j \in 1..i - 1 : queue[j] # t
  <2>1. SUFFICES ASSUME NEW j \in 1..i - 1, queue[j] = t PROVE FALSE
    OBVIOUS
  <2>2. j \in I /\ i \in Nat /\ j \in Nat /\ j < i
    BY <1>1, <2>1
  <2>3. <<j, i>> \in R
    BY <2>2
  <2>. QED BY <1>3, <2>2, <2>3
<1>5. \E k \in DOMAIN queue : queue[k] = t /\ \A j \in 1..k - 1 : queue[j] # t
  BY <1>3, <1>4
<1>. QED BY <1>5 DEF FirstAt

LEMMA RemoveOnce ==
  ASSUME NEW t \in Thread, queue \in Seq(Thread), InQueue(t), queue' = Without(t)
  PROVE  /\ queue' \in Seq(Thread)
         /\ QueueOnce => QueueOnce' /\ \A q \in Thread : InQueue(q)' <=> InQueue(q) /\ q # t
<1>. DEFINE k == FirstAt(t)
            n == Len(queue)
            a == SubSeq(queue, 1, k - 1)
            b == SubSeq(queue, k + 1, n)
<1>1. n \in Nat /\ DOMAIN queue = 1..n /\ k \in 1..n /\ queue[k] = t
  BY FirstThere
<1>2. /\ a \in Seq(Thread) /\ Len(a) = k - 1
      /\ \A i \in 1..k - 1 : a[i] = queue[i]
  <2>. HIDE DEF k, n
  <2>1. \A i \in 1..k - 1 : queue[i] \in Thread
    BY <1>1
  <2>2. /\ a \in Seq(Thread) /\ Len(a) = IF 1 <= k - 1 THEN k - 1 - 1 + 1 ELSE 0
        /\ \A i \in 1..k - 1 - 1 + 1 : a[i] = queue[1 + i - 1]
    <3>1. k - 1 \in Int /\ 1 \in Int
      BY <1>1
    <3>. QED BY ONLY <2>1, <3>1, SubSeqProperties DEF a
  <2>3. k - 1 - 1 + 1 = k - 1 /\ \A i \in 1..k - 1 : 1 + i - 1 = i
    BY <1>1
  <2>. QED BY <1>1, <2>2, <2>3
<1>3. /\ b \in Seq(Thread) /\ Len(b) = n - k
      /\ \A i \in 1..n - k : b[i] = queue[i + k]
  <2>. HIDE DEF k, n
  <2>1. k + 1 \in Int /\ n \in Int /\ \A i \in k + 1..n : queue[i] \in Thread
    BY <1>1
  <2>2. /\ b \in Seq(Thread) /\ Len(b) = IF k + 1 <= n THEN n - (k + 1) + 1 ELSE 0
        /\ \A i \in 1..n - (k + 1) + 1 : b[i] = queue[k + 1 + i - 1]
    BY ONLY <2>1, SubSeqProperties DEF b
  <2>3. n - (k + 1) + 1 = n - k /\ \A i \in 1..n - k : k + 1 + i - 1 = i + k
    BY <1>1
  <2>. QED BY <1>1, <2>2, <2>3
<1>4. queue' = a \o b
  BY DEF Without
<1>. HIDE DEF a, b, k, n
<1>5. /\ queue' \in Seq(Thread) /\ DOMAIN queue' = 1..n - 1
      /\ \A i \in 1..k - 1 : queue'[i] = queue[i]
      /\ \A i \in k..n - 1 : queue'[i] = queue[i + 1]
  <2>1. queue' \in Seq(Thread) /\ Len(queue') = Len(a) + Len(b)
    BY <1>2, <1>3, <1>4, ConcatProperties, ZenonT(60)
  <2>2. \A i \in 1..Len(a) + Len(b) : queue'[i] = IF i <= Len(a) THEN a[i] ELSE b[i - Len(a)]
    BY <1>2, <1>3, <1>4, ConcatProperties
  <2>3. \A i \in k..n - 1 : i - Len(a) \in 1..n - k /\ (i - Len(a)) + k = i + 1
    BY <1>1, <1>2
  <2>4. Len(a) + Len(b) = n - 1
    BY <1>1, <1>2, <1>3
  <2>5. \A i \in 1..k - 1 : queue'[i] = queue[i]
    BY <1>1, <1>2, <2>2, <2>4, SMTT(20)
  <2>6. \A i \in k..n - 1 : queue'[i] = queue[i + 1]
    <3>1. SUFFICES ASSUME NEW i \in k..n - 1 PROVE queue'[i] = queue[i + 1]
      OBVIOUS
    <3>2. queue'[i] = b[i - Len(a)]
      BY <1>1, <1>2, <2>2, <2>4, SMTT(20)
    <3>. QED BY <1>3, <2>3, <3>2
  <2>7. DOMAIN queue' = 1..n - 1
    BY <2>1, <2>4
  <2>. QED BY <2>1, <2>5, <2>6, <2>7
<1>6. ASSUME QueueOnce
      PROVE  QueueOnce' /\ \A q \in Thread : InQueue(q)' <=> InQueue(q) /\ q # t
  <2>. DEFINE old(i) == IF i < k THEN i ELSE i + 1
  <2>1. \A i \in 1..n - 1 : old(i) \in 1..n /\ old(i) # k /\ queue'[i] = queue[old(i)]
    BY <1>1, <1>5
  <2>2. \A i, j \in 1..n - 1 : old(i) = old(j) => i = j
    BY <1>1
  <2>3. \A j \in 1..n : j = k \/ \E i \in 1..n - 1 : old(i) = j
    <3>1. SUFFICES ASSUME NEW j \in 1..n, j # k PROVE \E i \in 1..n - 1 : old(i) = j
      OBVIOUS
    <3>2. CASE j < k
      <4>1. j \in 1..n - 1 /\ old(j) = j
        BY <1>1, <3>1, <3>2
      <4>. QED BY <4>1
    <3>3. CASE j > k
      <4>1. j - 1 \in 1..n - 1 /\ old(j - 1) = j
        BY <1>1, <3>1, <3>3
      <4>. QED BY <4>1
    <3>. QED BY <1>1, <3>1, <3>2, <3>3
  <2>. HIDE DEF old
  <2>4. QueueOnce'
    BY <1>1, <1>5, <1>6, <2>1, <2>2 DEF QueueOnce
  <2>5. ASSUME NEW q \in Thread PROVE InQueue(q)' <=> InQueue(q) /\ q # t
    <3>1. ASSUME InQueue(q)' PROVE InQueue(q) /\ q # t
      <4>1. PICK i \in 1..n - 1 : queue'[i] = q
        BY <1>5, <3>1 DEF InQueue
      <4>2. old(i) \in DOMAIN queue /\ queue[old(i)] = q /\ old(i) # k
        BY <1>1, <2>1, <4>1
      <4>. QED BY <1>1, <1>6, <4>2 DEF InQueue, QueueOnce
    <3>2. ASSUME InQueue(q), q # t PROVE InQueue(q)'
      <4>1. PICK j \in 1..n : queue[j] = q
        BY <1>1, <3>2 DEF InQueue
      <4>2. PICK i \in 1..n - 1 : old(i) = j
        BY <1>1, <2>3, <3>2, <4>1
      <4>. QED BY <1>5, <2>1, <4>1, <4>2 DEF InQueue
    <3>. QED BY <3>1, <3>2
  <2>. QED BY <2>4, <2>5
<1>. QED BY <1>5, <1>6

------------------------------------------------------------------------------
(* Types.                                                                  *)

PoolType ==
  /\ workers \subseteq Worker
  /\ target \in 0..Cardinality(Worker) /\ previous \in 0..Cardinality(Worker)
  /\ paused \in BOOLEAN
  /\ wpc \in [Worker -> WorkerState]
  /\ \A w \in Worker : wpc[w] = "absent" <=> w \notin workers

RunningType ==
  /\ running \in [Worker -> Thread \cup {NoThread}]
  /\ \A w \in Worker : running[w] # NoThread <=> wpc[w] \in {"run", "break", "alone", "reached"}

HostType ==
  /\ lockDebugger \in Worker \cup {Host, NoOne}
  /\ hpc \in HostState /\ stepping \in Thread \cup {NoThread}
  /\ \A w \in Worker : wpc[w] = "alone" <=> lockDebugger = w
  /\ hpc # "idle" <=> lockDebugger = Host
  /\ pauses \in 0..MaxPause

ScriptType ==
  /\ queue \in Seq(Thread)
  /\ runs \in [Thread -> 0..MaxRun]
  /\ stopped \subseteq Thread /\ gone \subseteq Thread
  /\ waitingThreads \in [WaitId -> Thread \cup {NoThread}]
  /\ recycled \in Seq(WaitId) /\ timers \in [WaitId -> Nat]

TimerType ==
  /\ tpc \in TimerState /\ tid \in WaitId /\ tthread \in Thread \cup {NoThread}
  /\ raced \in BOOLEAN /\ hasty \in BOOLEAN

LEMMA TypeParts == TypeOK <=> PoolType /\ RunningType /\ HostType /\ ScriptType /\ TimerType
BY DEF TypeOK, PoolType, RunningType, HostType, ScriptType, TimerType

scriptPlaces == <<queue, scriptVars, waitVars>>

LEMMA RunType ==
  ASSUME ScriptType, NEW t \in Thread, Yields(t) \/ Ends(t) \/ Sleeps(t) \/ Reaches(t)
  PROVE  ScriptType'
<1>1. CASE Yields(t)
  <2>1. queue' \in Seq(Thread)
    BY <1>1, EnqueueOnce DEF ScriptType, Yields
  <2>2. runs' \in [Thread -> 0..MaxRun]
    BY <1>1 DEF ScriptType, Yields
  <2>. QED BY <1>1, <2>1, <2>2 DEF ScriptType, Yields, waitVars
<1>2. CASE Ends(t) \/ Reaches(t)
  BY <1>2 DEF ScriptType, Ends, Reaches, waitVars
<1>3. CASE Sleeps(t)
  <2>1. runs' \in [Thread -> 0..MaxRun]
    BY <1>3 DEF ScriptType, Sleeps
  <2>2. waitingThreads' \in [WaitId -> Thread \cup {NoThread}] /\ timers' \in [WaitId -> Nat]
    <3>1. PICK id : /\ waitingThreads' = [waitingThreads EXCEPT ![id] = IF @ = NoThread THEN t ELSE @]
                    /\ timers' = [timers EXCEPT ![id] = @ + 1]
      BY <1>3 DEF Sleeps
    <3>2. waitingThreads' = waitingThreads \/ waitingThreads' = [waitingThreads EXCEPT ![id] = t]
      BY <3>1 DEF ScriptType
    <3>3. timers' = [i \in WaitId |-> IF i = id THEN timers[i] + 1 ELSE timers[i]]
      BY <3>1 DEF ScriptType
    <3>4. timers' \in [WaitId -> Nat]
      BY <3>3 DEF ScriptType
    <3>. QED BY <3>2, <3>4 DEF ScriptType
  <2>3. recycled' \in Seq(WaitId)
    <3>1. CASE recycled = <<>>
      BY <1>3, <3>1 DEF Sleeps
    <3>2. CASE recycled # <<>>
      <4>1. Len(recycled) \in Nat \ {0} /\ \A i \in 1..Len(recycled) - 1 : recycled[i] \in WaitId
        BY <3>2, EmptySeq DEF ScriptType
      <4>2. Len(recycled) - 1 \in Int /\ 1 \in Int
        BY <4>1
      <4>. QED BY <1>3, <3>2, <4>1, <4>2, SubSeqProperties DEF Sleeps
    <3>. QED BY <3>1, <3>2
  <2>. QED BY <1>3, <2>1, <2>2, <2>3 DEF ScriptType, Sleeps
<1>. QED BY <1>1, <1>2, <1>3

LEMMA ScriptTypeStep ==
  ASSUME TypeOK, LocalsInv, Next
  PROVE  ScriptType'
<1>0. PoolType /\ RunningType /\ ScriptType /\ TimerType
  BY TypeParts
<1>1. CASE UNCHANGED scriptPlaces
  BY <1>0, <1>1 DEF ScriptType, scriptPlaces, scriptVars, waitVars
<1>2. ASSUME NEW w \in Worker, WorkerStep(w) PROVE ScriptType'
  <2>1. CASE Take(w)
    BY <1>0, <2>1, DequeueOnce DEF ScriptType, Take, scriptVars, waitVars
  <2>2. CASE Run(w) \/ RunToBreakPoint(w)
    <3>1. running[w] \in Thread
      BY <1>0, <2>2 DEF Run, RunToBreakPoint, Move, RunningType
    <3>. QED BY <1>0, <2>2, <3>1, RunType DEF Run, RunToBreakPoint
  <2>3. CASE BreakEnqueue(w)
    <3>1. running[w] \in Thread
      BY <1>0, <2>3 DEF BreakEnqueue, Move, RunningType
    <3>. QED BY <1>0, <2>3, <3>1, EnqueueOnce DEF ScriptType, BreakEnqueue, scriptVars, waitVars
  <2>. QED BY <1>1, <1>2, <2>1, <2>2, <2>3
       DEF WorkerStep, Detach, BreakLock, BreakAlone, OnBreakPoint, scriptPlaces
<1>3. CASE Pause \/ AllHaveLeft \/ Resume \/ StepBlocked \/ KillFails
           \/ \E t \in Thread : KillNotInQueue(t)
  BY <1>1, <1>3 DEF Pause, AllHaveLeft, Resume, StepBlocked, KillFails, KillNotInQueue, scriptPlaces
<1>4. ASSUME NEW t \in Thread, StepBegins(t) \/ KillInQueue(t) PROVE ScriptType'
  <2>1. queue' \in Seq(Thread)
    BY <1>0, <1>4, RemoveOnce DEF ScriptType, StepBegins, KillInQueue
  <2>. QED BY <1>0, <1>4, <2>1 DEF ScriptType, StepBegins, KillInQueue, scriptVars, waitVars
<1>5. CASE StepRun \/ StepFinishes \/ StepToBreakPoint
  <2>1. stepping \in Thread
    BY <1>5 DEF LocalsInv, StepRun, StepFinishes, StepToBreakPoint, HostMoves
  <2>. QED BY <1>0, <1>5, <2>1, RunType DEF StepRun, StepFinishes, StepToBreakPoint
<1>6. CASE StepGoesOn \/ StepStops
  <2>1. stepping \in Thread
    BY <1>6 DEF LocalsInv, StepGoesOn, StepStops, HostMoves
  <2>2. queue' \in Seq(Thread)
    BY <1>0, <1>6, <2>1, RemoveOnce, EnqueueOnce DEF ScriptType, StepGoesOn, StepStops
  <2>. QED BY <1>0, <1>6, <2>2 DEF ScriptType, StepGoesOn, StepStops, scriptVars, waitVars
<1>7. ASSUME NEW i \in WaitId, KillInTable(i) PROVE ScriptType'
  <2>1. stepping \in Thread
    BY <1>7 DEF LocalsInv, KillInTable, HostMoves
  <2>2. recycled' \in Seq(WaitId)
    BY <1>0, <1>7, AppendProperties DEF ScriptType, KillInTable
  <2>. QED BY <1>0, <1>7, <2>1, <2>2 DEF ScriptType, KillInTable
<1>8. CASE Wake
  BY <1>0, <1>8, EnqueueOnce DEF ScriptType, Wake, LocalsInv, scriptVars, waitVars
<1>9. CASE Erase
  <2>1. recycled' \in Seq(WaitId)
    BY <1>0, <1>9, AppendProperties DEF ScriptType, TimerType, Erase
  <2>. QED BY <1>0, <1>9, <2>1 DEF ScriptType, Erase, scriptVars
<1>10. ASSUME NEW i \in WaitId, Fire(i) PROVE ScriptType'
  BY <1>0, <1>10 DEF ScriptType, Fire, scriptVars
<1>. QED BY <1>2, <1>3, <1>4, <1>5, <1>6, <1>7, <1>8, <1>9, <1>10 DEF Next, HostStep, TimerStep

\* The steps that leave the workers alone
poolSame == UNCHANGED <<workers, target, previous, paused, wpc, running>>

LEMMA OthersSame ==
  ASSUME Next
  PROVE  \/ \E w \in Worker : WorkerStep(w)
         \/ Pause \/ AllHaveLeft \/ Resume
         \/ poolSame
BY DEF Next, HostStep, TimerStep, StepBegins, KillInQueue, KillNotInQueue, StepRun, StepFinishes,
   StepToBreakPoint, StepGoesOn, StepBlocked, StepStops, KillInTable, KillFails, Wake, Erase,
   Fire, poolSame, poolVars

\* Only resume() can be hasty.
LEMMA HastySame ==
  ASSUME Next
  PROVE  hasty' = hasty \/ Resume
<1>1. CASE UNCHANGED accidents
  BY <1>1 DEF accidents
<1>2. ASSUME NEW i \in WaitId, KillInTable(i) PROVE hasty' = hasty
  BY <1>2 DEF KillInTable
<1>. QED BY <1>1, <1>2 DEF Next, HostStep, TimerStep, WorkerStep, Take, Detach, Run, RunToBreakPoint,
     BreakLock, BreakAlone, BreakEnqueue, OnBreakPoint, Pause, AllHaveLeft, StepBegins,
     KillInQueue, KillNotInQueue, StepRun, StepFinishes, StepToBreakPoint, StepGoesOn, StepBlocked,
     StepStops, KillFails, Wake, Erase, Fire

LEMMA PoolTypeStep ==
  ASSUME TypeOK, Next
  PROVE  PoolType' /\ RunningType'
<1>. USE DEF WorkerState
<1>0. PoolType /\ RunningType /\ ScriptType
  BY TypeParts
<1>1. CASE poolSame
  BY <1>0, <1>1 DEF poolSame, PoolType, RunningType
<1>2. ASSUME NEW w \in Worker, WorkerStep(w) PROVE PoolType' /\ RunningType'
  <2>. USE DEF PoolType, RunningType, Move
  <2>1. CASE Take(w)
    <3>1. Head(queue) \in Thread
      BY <1>0, <2>1, DequeueOnce DEF ScriptType, Take
    <3>. QED BY <1>0, <2>1, <3>1 DEF Take, poolVars
  <2>2. CASE Detach(w)
    BY <1>0, <2>2 DEF Detach
  <2>3. CASE Run(w) \/ RunToBreakPoint(w)
    BY <1>0, <2>3 DEF Run, RunToBreakPoint, poolVars
  <2>4. CASE BreakLock(w)
    BY <1>0, <2>4, Finite DEF BreakLock
  <2>5. CASE BreakAlone(w)
    BY <1>0, <2>5, Finite DEF BreakAlone
  <2>6. CASE BreakEnqueue(w) \/ OnBreakPoint(w)
    BY <1>0, <2>6 DEF BreakEnqueue, OnBreakPoint, poolVars
  <2>. QED BY <1>2, <2>1, <2>2, <2>3, <2>4, <2>5, <2>6 DEF WorkerStep
<1>3. CASE Pause \/ AllHaveLeft
  <2>1. UNCHANGED <<workers, wpc, running>>
    BY <1>3 DEF Pause, AllHaveLeft
  <2>2. /\ target' = target \/ target' = 0
        /\ previous' = target \/ previous' = previous
        /\ paused' = paused \/ paused' = TRUE
    BY <1>3 DEF Pause, AllHaveLeft
  <2>3. paused' \in BOOLEAN
    BY <1>0, <2>2 DEF PoolType
  <2>4. target' \in 0..Cardinality(Worker) /\ previous' \in 0..Cardinality(Worker)
    BY <1>0, <2>2, Finite DEF PoolType
  <2>. QED BY <1>0, <2>1, <2>3, <2>4 DEF PoolType, RunningType
<1>4. CASE Resume
  <2>1. PICK ws \in SUBSET (Worker \ workers) :
          /\ workers' = workers \cup ws
          /\ wpc' = [w \in Worker |-> IF w \in ws THEN "idle" ELSE wpc[w]]
    BY <1>4 DEF Resume, SetWorkers
  <2>2. target' = previous /\ UNCHANGED <<previous, running>> /\ paused' = FALSE
    BY <1>4 DEF Resume, SetWorkers
  <2>3. \A w \in ws : wpc[w] = "absent"
    BY <1>0 DEF PoolType
  <2>4. /\ wpc' \in [Worker -> WorkerState]
        /\ \A w \in Worker : IF w \in ws THEN wpc'[w] = "idle" ELSE wpc'[w] = wpc[w]
    BY <1>0, <2>1 DEF PoolType
  <2>5. \A w \in Worker : wpc'[w] = "absent" <=> w \notin workers'
    BY <1>0, <2>1, <2>4 DEF PoolType
  <2>6. PoolType'
    BY <1>0, <2>1, <2>2, <2>4, <2>5 DEF PoolType
  <2>7. RunningType'
    BY <1>0, <2>2, <2>3, <2>4 DEF RunningType
  <2>. QED BY <2>6, <2>7
<1>. QED BY <1>1, <1>2, <1>3, <1>4, OthersSame

LEMMA HostTypeStep ==
  ASSUME TypeOK, Next
  PROVE  HostType'
<1>. USE DEF HostType
<1>0. HostType /\ PoolType /\ HostState = {"idle", "pausing", "stepping", "looking", "relock", "killing"}
  BY TypeParts DEF HostState
<1>1. ASSUME NEW w \in Worker, WorkerStep(w) PROVE HostType'
  <2>1. wpc \in [Worker -> WorkerState]
    BY <1>0 DEF PoolType
  <2>2. CASE Take(w) \/ Detach(w) \/ Run(w) \/ RunToBreakPoint(w) \/ BreakEnqueue(w) \/ OnBreakPoint(w)
    <3>1. \E from, to \in WorkerState \ {"alone"} : Move(w, from, to)
      BY <2>2 DEF Take, Detach, Run, RunToBreakPoint, BreakEnqueue, OnBreakPoint, WorkerState
    <3>2. UNCHANGED <<lockDebugger, hpc, stepping, pauses>>
      BY <2>2 DEF Take, Detach, Run, RunToBreakPoint, BreakEnqueue, OnBreakPoint, poolVars
    <3>. QED BY <1>0, <2>1, <3>1, <3>2 DEF Move
  <2>3. CASE BreakLock(w)
    BY <1>0, <2>1, <2>3 DEF BreakLock, Move
  <2>4. CASE BreakAlone(w)
    BY <1>0, <2>1, <2>4 DEF BreakAlone, Move
  <2>. QED BY <1>1, <2>2, <2>3, <2>4 DEF WorkerStep
<1>2. CASE Pause
  BY <1>0, <1>2 DEF Pause, HostMoves, Lock
<1>3. CASE AllHaveLeft \/ StepFinishes \/ StepBlocked \/ StepStops \/ KillFails
           \/ \E i \in WaitId : KillInTable(i)
  <2>1. \E l \in HostState \ {"idle"} : HostMoves(l, "idle", NoThread)
    BY <1>0, <1>3 DEF AllHaveLeft, StepFinishes, StepBlocked, StepStops, KillFails, KillInTable
  <2>2. Unlock /\ UNCHANGED <<wpc, pauses>>
    BY <1>3 DEF AllHaveLeft, StepFinishes, StepBlocked, StepStops, KillFails, KillInTable
  <2>. QED BY <1>0, <2>1, <2>2 DEF HostMoves, Unlock
<1>4. CASE Resume
  <2>1. PICK ws \in SUBSET (Worker \ workers) :
          wpc' = [w \in Worker |-> IF w \in ws THEN "idle" ELSE wpc[w]]
    BY <1>4 DEF Resume, SetWorkers
  <2>2. \A w \in Worker : wpc'[w] = "alone" <=> wpc[w] = "alone"
    BY <1>0, <2>1 DEF PoolType
  <2>. QED BY <1>0, <1>4, <2>2 DEF Resume
<1>5. ASSUME NEW t \in Thread, StepBegins(t) \/ KillNotInQueue(t) PROVE HostType'
  BY <1>0, <1>5 DEF StepBegins, KillNotInQueue, HostMoves, Lock
<1>6. CASE StepRun \/ StepToBreakPoint \/ StepGoesOn
  BY <1>0, <1>6 DEF StepRun, StepToBreakPoint, StepGoesOn, HostMoves, poolVars
<1>7. CASE UNCHANGED <<lockDebugger, hpc, stepping, wpc, pauses>>
  BY <1>0, <1>7
<1>8. TimerStep \/ (\E t \in Thread : KillInQueue(t)) => UNCHANGED <<lockDebugger, hpc, stepping, wpc, pauses>>
  BY DEF TimerStep, Wake, Erase, Fire, KillInQueue, poolVars
<1>. QED BY <1>1, <1>2, <1>3, <1>4, <1>5, <1>6, <1>7, <1>8 DEF Next, HostStep

LEMMA TimerTypeStep ==
  ASSUME TypeOK, LocalsInv, Next
  PROVE  TimerType' /\ LocalsInv'
<1>0. TimerType /\ HostType /\ ScriptType
  BY TypeParts
<1>1. hasty' \in BOOLEAN
  <2>1. Resume => hasty' \in BOOLEAN
    BY <1>0 DEF Resume, TimerType
  <2>. QED BY <1>0, <2>1, HastySame DEF TimerType
<1>2. TimerType' /\ (tpc' # "idle" => tthread' \in Thread)
  <2>1. CASE UNCHANGED <<timerVars, raced>>
    BY <1>0, <1>1, <2>1 DEF TimerType, timerVars, LocalsInv
  <2>2. ASSUME NEW i \in WaitId, KillInTable(i) PROVE TimerType' /\ (tpc' # "idle" => tthread' \in Thread)
    BY <1>0, <1>1, <2>2 DEF TimerType, KillInTable, timerVars, LocalsInv
  <2>3. ASSUME NEW i \in WaitId, Fire(i) PROVE TimerType' /\ (tpc' # "idle" => tthread' \in Thread)
    BY <1>0, <1>1, <2>1, <2>3 DEF TimerType, ScriptType, Fire, timerVars, TimerState, accidents
  <2>4. CASE Wake
    BY <1>0, <1>1, <2>4 DEF TimerType, Wake, LocalsInv, TimerState, accidents
  <2>5. CASE Erase
    BY <1>0, <1>1, <2>5, Finite DEF TimerType, Erase, TimerState, accidents
  <2>6. CASE \E w \in Worker : WorkerStep(w)
    BY <2>1, <2>6 DEF WorkerStep, Take, Detach, Run, RunToBreakPoint, BreakLock, BreakAlone,
       BreakEnqueue, OnBreakPoint, accidents
  <2>7. CASE HostStep /\ ~ \E i \in WaitId : KillInTable(i)
    BY <2>1, <2>7 DEF HostStep, Pause, AllHaveLeft, Resume, StepBegins, KillInQueue, KillNotInQueue,
       StepRun, StepFinishes, StepToBreakPoint, StepGoesOn, StepBlocked, StepStops, KillFails, accidents
  <2>. QED BY <2>2, <2>3, <2>4, <2>5, <2>6, <2>7 DEF Next, TimerStep
<1>3. hpc' \in {"stepping", "looking", "relock", "killing"} => stepping' \in Thread
  <2>1. CASE UNCHANGED <<hpc, stepping>>
    BY <2>1 DEF LocalsInv
  <2>2. CASE \E w \in Worker : WorkerStep(w)
    BY <2>1, <2>2 DEF WorkerStep, Take, Detach, Run, RunToBreakPoint, BreakLock, BreakAlone,
       BreakEnqueue, OnBreakPoint
  <2>3. CASE TimerStep \/ Resume \/ \E t \in Thread : KillInQueue(t)
    BY <2>1, <2>3 DEF TimerStep, Wake, Erase, Fire, Resume, KillInQueue
  <2>4. CASE Pause \/ AllHaveLeft \/ StepFinishes \/ StepBlocked \/ StepStops \/ KillFails
             \/ \E i \in WaitId : KillInTable(i)
    BY <2>4 DEF Pause, AllHaveLeft, StepFinishes, StepBlocked, StepStops, KillFails, KillInTable,
       HostMoves
  <2>5. CASE \E t \in Thread : StepBegins(t) \/ KillNotInQueue(t)
    BY <2>5 DEF StepBegins, KillNotInQueue, HostMoves
  <2>6. CASE StepRun \/ StepToBreakPoint \/ StepGoesOn
    BY <2>6 DEF StepRun, StepToBreakPoint, StepGoesOn, HostMoves, LocalsInv
  <2>. QED BY <2>2, <2>3, <2>4, <2>5, <2>6 DEF Next, HostStep
<1>. QED BY <1>2, <1>3 DEF LocalsInv

LEMMA TypeStep ==
  ASSUME TypeOK, LocalsInv, Next
  PROVE  TypeOK' /\ LocalsInv'
<1>1. PoolType' /\ RunningType' /\ HostType' /\ ScriptType' /\ TimerType' /\ LocalsInv'
  BY PoolTypeStep, HostTypeStep, ScriptTypeStep, TimerTypeStep
<1>. QED BY <1>1 DEF TypeOK, PoolType, RunningType, HostType, ScriptType, TimerType

------------------------------------------------------------------------------
(* Workers.                                                                *)

LEMMA WorkersCount ==
  ASSUME TypeOK
  PROVE  /\ IsFiniteSet(workers) /\ Cardinality(workers) \in Nat
         /\ Cardinality(workers) = 0 <=> workers = {}
         /\ \A w \in workers : /\ Cardinality(workers) \in Nat \ {0}
                               /\ Cardinality(workers \ {w}) = Cardinality(workers) - 1
                               /\ Cardinality(workers) = 1 => workers = {w}
<1>1. IsFiniteSet(workers) /\ Cardinality(workers) \in Nat
  BY FS_Subset, FS_CardinalityType DEF TypeOK
<1>2. Cardinality(workers) = 0 <=> workers = {}
  BY <1>1, FS_EmptySet
<1>3. ASSUME NEW w \in workers
      PROVE  /\ Cardinality(workers) \in Nat \ {0}
             /\ Cardinality(workers \ {w}) = Cardinality(workers) - 1
             /\ Cardinality(workers) = 1 => workers = {w}
  <2>1. Cardinality(workers \ {w}) = Cardinality(workers) - 1
    BY <1>1, FS_RemoveElement
  <2>2. Cardinality(workers) = 1 => workers = {w}
    BY <1>1, FS_Singleton
  <2>. QED BY <1>1, <1>2, <2>1, <2>2
<1>. QED BY <1>1, <1>2, <1>3

\* Nothing that the workers are told or counted by changes.
LEMMA WorkersFrame ==
  ASSUME TypeOK, WorkersInv, NEW w \in Worker, NEW from \in WorkerState, NEW to \in WorkerState,
         UNCHANGED <<workers, target, previous, paused, lockDebugger, hpc, hasty>>,
         wpc[w] = from, wpc' = [wpc EXCEPT ![w] = to],
         \/ from \in {"idle", "run", "break"} /\ to \in {"idle", "run", "break"}
         \/ from \in {"reached", "callback", "stop"} /\ to \in {"reached", "callback", "stop"}
  PROVE  WorkersInv'
BY DEF WorkersInv, TypeOK

LEMMA WorkersStep ==
  ASSUME TypeOK, WorkersInv, Next
  PROVE  WorkersInv'
<1>. USE DEF WorkersInv
<1>0. /\ wpc \in [Worker -> WorkerState] /\ target \in Nat /\ previous \in Nat
      /\ paused \in BOOLEAN
      /\ \A w \in Worker : wpc[w] = "absent" <=> w \notin workers
      /\ \A w \in Worker : wpc[w] = "alone" <=> lockDebugger = w
      /\ hpc # "idle" <=> lockDebugger = Host
      /\ workers \subseteq Worker
  BY Finite DEF TypeOK
<1>2. ASSUME NEW w \in Worker, WorkerStep(w) PROVE WorkersInv'
  <2>1. CASE Take(w) \/ Run(w) \/ RunToBreakPoint(w) \/ BreakEnqueue(w) \/ OnBreakPoint(w)
    <3>1. PICK from, to \in WorkerState :
            /\ wpc[w] = from /\ wpc' = [wpc EXCEPT ![w] = to]
            /\ \/ from \in {"idle", "run", "break"} /\ to \in {"idle", "run", "break"}
               \/ from \in {"reached", "callback", "stop"} /\ to \in {"reached", "callback", "stop"}
      BY <2>1 DEF Take, Run, RunToBreakPoint, BreakEnqueue, OnBreakPoint, Move, WorkerState
    <3>2. UNCHANGED <<workers, target, previous, paused, lockDebugger, hpc, hasty>>
      BY <2>1 DEF Take, Run, RunToBreakPoint, BreakEnqueue, OnBreakPoint, poolVars, accidents
    <3>. QED BY <3>1, <3>2, WorkersFrame
  <2>2. CASE Detach(w)
    <3>1. w \in workers /\ workers' = workers \ {w} /\ wpc' = [wpc EXCEPT ![w] = "absent"]
      BY <1>0, <2>2 DEF Detach, Move
    <3>2. UNCHANGED <<target, previous, paused, lockDebugger, hpc, hasty>>
      BY <2>2 DEF Detach, accidents
    <3>3. wpc[w] \in {"stop", "idle"} /\ (wpc[w] = "idle" => Cardinality(workers) > target)
      BY <2>2 DEF Detach, Move
    <3>4. Cardinality(workers') = Cardinality(workers) - 1 /\ Cardinality(workers) \in Nat
      BY <3>1, WorkersCount
    <3>5. /\ ~paused /\ lockDebugger = NoOne => wpc[w] # "idle"
          /\ ~paused /\ ~hasty => wpc[w] = "idle"
      BY <1>0, <3>3, <3>4
    <3>6. \A v \in Worker : wpc'[v] = wpc[v] \/ wpc'[v] = "absent"
      BY <1>0, <3>1
    <3>7. \A n \in Nat : Cardinality(workers) <= n => Cardinality(workers') <= n
      BY <3>4
    <3>8. CASE paused
      BY <1>0, <3>2, <3>6, <3>7, <3>8
    <3>9. CASE ~paused
      <4>1. ~hasty' => lockDebugger' # NoOne
        BY <3>2, <3>5, <3>9
      <4>. QED BY <1>0, <3>2, <3>6, <3>7, <3>9, <4>1
    <3>. QED BY <1>0, <3>8, <3>9
  <2>3. CASE BreakLock(w)
    <3>1. ~paused /\ lockDebugger = NoOne /\ previous' = target /\ target' = 1 /\ lockDebugger' = w
      BY <2>3 DEF BreakLock
    <3>2. UNCHANGED <<workers, paused, hpc, hasty>> /\ wpc[w] = "break" /\ wpc' = [wpc EXCEPT ![w] = "alone"]
      BY <2>3 DEF BreakLock, Move, accidents
    <3>3. hpc = "idle" /\ \A v \in Worker : wpc[v] # "alone"
      BY <1>0, <3>1
    <3>. QED BY <1>0, <3>1, <3>2, <3>3
  <2>4. CASE BreakAlone(w)
    <3>1. target' = 0 /\ paused' = TRUE /\ lockDebugger' = NoOne /\ UNCHANGED <<workers, previous, hpc>>
      BY <2>4 DEF BreakAlone
    <3>2. wpc[w] = "alone" /\ wpc' = [wpc EXCEPT ![w] = "reached"] /\ lockDebugger = w /\ hpc = "idle"
      BY <1>0, <2>4 DEF BreakAlone, Move
    <3>3. workers = {w}
      <4>1. w \in workers
        BY <1>0, <3>2
      <4>2. Cardinality(workers) <= previous /\ (previous = 1 \/ Cardinality(workers) = 1)
        BY <2>4, <3>2 DEF BreakAlone
      <4>3. Cardinality(workers) = 1
        BY <4>1, <4>2, WorkersCount
      <4>. QED BY <4>1, <4>3, WorkersCount
    <3>4. \A v \in Worker \ {w} : wpc'[v] = "absent"
      BY <1>0, <3>2, <3>3
    <3>5. Cardinality(workers') <= previous'
      BY <2>4, <3>1, <3>2 DEF BreakAlone
    <3>. QED BY <1>0, <3>1, <3>2, <3>4, <3>5
  <2>. QED BY <1>2, <2>1, <2>2, <2>3, <2>4 DEF WorkerStep
<1>3. CASE Pause
  <2>1. ~paused /\ hpc = "idle" /\ hpc' = "pausing" /\ lockDebugger = NoOne /\ lockDebugger' = Host
    BY <1>3 DEF Pause, HostMoves, Lock
  <2>2. previous' = target /\ target' = 0 /\ UNCHANGED <<workers, paused, wpc, hasty>>
    BY <1>3 DEF Pause, accidents
  <2>. QED BY <1>0, <2>1, <2>2
<1>4. CASE AllHaveLeft
  <2>1. workers = {} /\ hpc = "pausing" /\ hpc' = "idle" /\ lockDebugger' = NoOne /\ paused' = TRUE
    BY <1>4 DEF AllHaveLeft, HostMoves, Unlock
  <2>2. UNCHANGED <<workers, target, previous, wpc>> /\ \A w \in Worker : wpc[w] = "absent"
    BY <1>0, <1>4, <2>1 DEF AllHaveLeft
  <2>3. Cardinality(workers') = 0
    BY <2>1, <2>2, FS_EmptySet
  <2>. QED BY <1>0, <2>1, <2>2, <2>3
<1>5. CASE Resume
  <2>1. paused /\ paused' = FALSE /\ UNCHANGED <<previous, lockDebugger, hpc>> /\ hpc = "idle"
    BY <1>5 DEF Resume
  <2>2. \A w \in Worker : wpc[w] \in {"absent", "reached", "callback", "stop"}
    BY <1>0, <2>1 DEF WorkerState
  <2>3. Cardinality(workers) \in Nat /\ IsFiniteSet(workers) /\ Cardinality(workers) <= previous
    BY <2>1, WorkersCount
  <2>4. PICK ws \in SUBSET (Worker \ workers) :
          /\ Cardinality(ws) = previous - Cardinality(workers)
          /\ workers' = workers \cup ws /\ target' = previous
          /\ wpc' = [w \in Worker |-> IF w \in ws THEN "idle" ELSE wpc[w]]
    BY <1>0, <1>5, <2>3 DEF Resume, SetWorkers
  <2>5. Cardinality(workers') = target'
    <3>1. IsFiniteSet(ws) /\ workers \cap ws = {}
      BY FS_Subset
    <3>2. Cardinality(workers \cup ws) = Cardinality(workers) + Cardinality(ws) - 0
      BY <2>3, <3>1, FS_Union, FS_EmptySet
    <3>. QED BY <1>0, <2>3, <2>4, <3>2
  <2>6. \A w \in Worker : wpc'[w] \in {"idle", "absent", "reached", "callback", "stop"}
    BY <2>2, <2>4
  <2>7. ~hasty' => \A w \in Worker : wpc'[w] \in {"idle", "absent"}
    BY <1>5, <2>2, <2>4 DEF Resume
  <2>. QED BY <1>0, <2>1, <2>4, <2>5, <2>6, <2>7
<1>6. CASE poolSame /\ UNCHANGED <<lockDebugger, hpc, hasty>>
  BY <1>6 DEF poolSame
<1>7. CASE poolSame /\ paused /\ hpc' # "pausing"
  BY <1>7 DEF poolSame
<1>8. ASSUME TimerStep \/ \E t \in Thread : KillInQueue(t)
      PROVE  poolSame /\ UNCHANGED <<lockDebugger, hpc, hasty>>
  BY <1>8 DEF TimerStep, Wake, Erase, Fire, KillInQueue, poolSame, poolVars, accidents
<1>9. ASSUME NEW t \in Thread, StepBegins(t) \/ KillNotInQueue(t)
      PROVE  poolSame /\ paused /\ hpc' # "pausing"
  BY <1>9 DEF StepBegins, KillNotInQueue, HostMoves, poolSame
<1>10. ASSUME \/ StepRun \/ StepFinishes \/ StepToBreakPoint \/ StepGoesOn \/ StepBlocked \/ StepStops
              \/ KillFails \/ \E i \in WaitId : KillInTable(i)
       PROVE  poolSame /\ paused /\ hpc' # "pausing"
  <2>1. hpc \notin {"idle", "pausing"} /\ hpc' # "pausing"
    BY <1>10 DEF StepRun, StepFinishes, StepToBreakPoint, StepGoesOn, StepBlocked, StepStops, KillFails,
       KillInTable, HostMoves
  <2>2. poolSame
    BY <1>10 DEF StepRun, StepFinishes, StepToBreakPoint, StepGoesOn, StepBlocked, StepStops, KillFails,
       KillInTable, poolSame, poolVars
  <2>. QED BY <1>0, <2>1, <2>2
<1>. QED BY <1>2, <1>3, <1>4, <1>5, <1>6, <1>7, <1>8, <1>9, <1>10 DEF Next, HostStep

------------------------------------------------------------------------------
(* The ids of waiting threads.                                             *)

Recycled(i) == \E k \in 1..Len(recycled) : recycled[k] = i

\* The part of IdsInv about the table alone
TableInv ==
  /\ \A j, k \in 1..Len(recycled) : recycled[j] = recycled[k] => j = k
  /\ \A i \in WaitId : Recycled(i) => i \notin InTable
  /\ \E n \in 0..Cardinality(Thread) + 1 :
       \A i \in WaitId : i < n <=> i \in InTable \/ Recycled(i)

TimerInv == tpc # "idle" => waitingThreads[tid] = tthread

LEMMA IdsParts == ASSUME TypeOK PROVE IdsInv <=> TableInv /\ TimerInv
<1>1. \A k \in 1..Len(recycled) : recycled[k] \in WaitId
  BY DEF TypeOK
<1>2. (\A k \in 1..Len(recycled) : recycled[k] \notin InTable)
        <=> (\A i \in WaitId : Recycled(i) => i \notin InTable)
  BY <1>1 DEF Recycled
<1>. QED BY <1>2 DEF IdsInv, TableInv, TimerInv, Recycled

\* An id is given back.
LEMMA IdReturned ==
  ASSUME TypeOK, TableInv, NEW i \in WaitId, i \in InTable,
         waitingThreads' = [waitingThreads EXCEPT ![i] = NoThread],
         recycled' = Append(recycled, i)
  PROVE  TableInv'
<1>1. /\ Len(recycled) \in Nat /\ Len(recycled') = Len(recycled) + 1
      /\ \A k \in 1..Len(recycled) : recycled'[k] = recycled[k]
      /\ recycled'[Len(recycled) + 1] = i
  BY AppendProperties DEF TypeOK
<1>2. \A j \in WaitId : j \in InTable' <=> j \in InTable /\ j # i
  BY DEF InTable, TypeOK
<1>3. \A k \in 1..Len(recycled') : k \in 1..Len(recycled) \/ k = Len(recycled) + 1
  BY <1>1
<1>4. \A j \in WaitId : Recycled(j)' <=> Recycled(j) \/ j = i
  <2>1. SUFFICES ASSUME NEW j \in WaitId PROVE Recycled(j)' <=> Recycled(j) \/ j = i
    OBVIOUS
  <2>2. Recycled(j)' => Recycled(j) \/ j = i
    BY <1>1, <1>3 DEF Recycled
  <2>3. Recycled(j) => Recycled(j)'
    BY <1>1 DEF Recycled
  <2>4. Recycled(i)'
    BY <1>1 DEF Recycled
  <2>. QED BY <2>2, <2>3, <2>4
<1>5. ~ Recycled(i)
  BY DEF TableInv
<1>6. \A j, k \in 1..Len(recycled') : recycled'[j] = recycled'[k] => j = k
  BY <1>1, <1>3, <1>5 DEF TableInv, Recycled
<1>7. PICK n \in 0..Cardinality(Thread) + 1 :
        \A j \in WaitId : j < n <=> j \in InTable \/ Recycled(j)
  BY DEF TableInv
<1>8. \A j \in WaitId : j < n <=> j \in InTable' \/ Recycled(j)'
  BY <1>2, <1>4, <1>7
<1>. QED BY <1>2, <1>4, <1>6, <1>7, <1>8 DEF TableInv

\* The last recycled id is used again.
LEMMA IdReused ==
  ASSUME TypeOK, TableInv, recycled # <<>>, NEW i, i = recycled[Len(recycled)], NEW t \in Thread,
         waitingThreads' = [waitingThreads EXCEPT ![i] = IF @ = NoThread THEN t ELSE @],
         recycled' = SubSeq(recycled, 1, Len(recycled) - 1)
  PROVE  /\ TableInv' /\ i \in WaitId /\ waitingThreads[i] = NoThread
         /\ waitingThreads' = [waitingThreads EXCEPT ![i] = t]
<1>1. Len(recycled) \in Nat \ {0} /\ \A k \in 1..Len(recycled) - 1 : recycled[k] \in WaitId
  BY EmptySeq DEF TypeOK
<1>2. Len(recycled') = Len(recycled) - 1 /\ \A k \in 1..Len(recycled) - 1 : recycled'[k] = recycled[k]
  <2>. DEFINE m == Len(recycled) - 1
  <2>1. m \in Nat /\ \A k \in 1..m : recycled[k] \in WaitId
    BY <1>1
  <2>. HIDE DEF m
  <2>2. /\ Len(SubSeq(recycled, 1, m)) = IF 1 <= m THEN m - 1 + 1 ELSE 0
        /\ \A k \in 1..m - 1 + 1 : SubSeq(recycled, 1, m)[k] = recycled[1 + k - 1]
    BY ONLY <2>1, SubSeqProperties
  <2>3. m - 1 + 1 = m /\ \A k \in 1..m : 1 + k - 1 = k
    BY <2>1
  <2>4. recycled' = SubSeq(recycled, 1, m)
    BY DEF m
  <2>5. Len(recycled') = m /\ \A k \in 1..m : recycled'[k] = recycled[k]
    BY ONLY <2>1, <2>2, <2>3, <2>4
  <2>. QED BY <2>5 DEF m
<1>3. i \in WaitId /\ Recycled(i)
  BY <1>1 DEF Recycled, TypeOK
<1>4. i \notin InTable /\ waitingThreads[i] = NoThread
  BY <1>3 DEF TableInv, InTable
<1>11. waitingThreads' = [waitingThreads EXCEPT ![i] = t]
  BY <1>4
<1>5. \A j \in WaitId : j \in InTable' <=> j \in InTable \/ j = i
  BY <1>3, <1>11 DEF InTable, TypeOK
<1>6. \A j \in WaitId : Recycled(j)' <=> Recycled(j) /\ j # i
  <2>1. \A k \in 1..Len(recycled) : k \in 1..Len(recycled) - 1 \/ k = Len(recycled)
    BY <1>1
  <2>2. \A k \in 1..Len(recycled) - 1 : k \in 1..Len(recycled) /\ recycled[k] # i
    BY <1>1 DEF TableInv
  <2>3. ASSUME NEW j \in WaitId PROVE Recycled(j)' => Recycled(j) /\ j # i
    BY <1>2, <2>2 DEF Recycled
  <2>4. ASSUME NEW j \in WaitId PROVE Recycled(j) /\ j # i => Recycled(j)'
    BY <1>2, <2>1 DEF Recycled
  <2>. QED BY <2>3, <2>4
<1>7. \A j, k \in 1..Len(recycled') : recycled'[j] = recycled'[k] => j = k
  BY <1>1, <1>2 DEF TableInv
<1>8. PICK n \in 0..Cardinality(Thread) + 1 :
        \A j \in WaitId : j < n <=> j \in InTable \/ Recycled(j)
  BY DEF TableInv
<1>9. \A j \in WaitId : j < n <=> j \in InTable' \/ Recycled(j)'
  BY <1>3, <1>5, <1>6, <1>8
<1>10. \A j \in WaitId : Recycled(j)' => j \notin InTable'
  BY <1>5, <1>6 DEF TableInv
<1>. QED BY <1>3, <1>4, <1>11, <1>7, <1>8, <1>9, <1>10 DEF TableInv

\* Each id in the table has a waiting thread of its own, but for the one resume() is
\* about to take out.
LEMMA TableBounded ==
  ASSUME TypeOK, PlacesInv, NEW t \in Thread, ~ Waiting(t)
  PROVE  IsFiniteSet(InTable) /\ Cardinality(InTable) <= Cardinality(Thread)
<1>. DEFINE J == {i \in InTable : ~(tpc = "erase" /\ tid = i)}
            f == [i \in J |-> waitingThreads[i]]
<1>1. \A i \in J : i \in WaitId /\ waitingThreads[i] \in Thread /\ i \in Waits(waitingThreads[i])
  BY DEF InTable, Waits, TypeOK
<1>2. \A i \in J : waitingThreads[i] # t
  BY <1>1 DEF Waiting
<1>3. f \in Injection(J, Thread \ {t})
  <2>1. f \in [J -> Thread \ {t}]
    BY <1>1, <1>2
  <2>2. \A i, j \in J : waitingThreads[i] = waitingThreads[j] => i = j
    BY <1>1 DEF PlacesInv
  <2>3. \A i, j \in J : f[i] = f[j] => i = j
    BY <2>2
  <2>. HIDE DEF J, f
  <2>. QED BY <2>1, <2>3 DEF Injection, IsInjective
<1>4. /\ IsFiniteSet(Thread \ {t})
      /\ Cardinality(Thread \ {t}) = Cardinality(Thread) - 1
  BY FS_RemoveElement
<1>5. IsFiniteSet(J) /\ Cardinality(J) <= Cardinality(Thread) - 1 /\ Cardinality(J) \in Nat
  BY <1>3, <1>4, FS_Injection, FS_CardinalityType
<1>6. /\ IsFiniteSet(J \cup {tid}) /\ Cardinality(J \cup {tid}) <= Cardinality(J) + 1
      /\ Cardinality(J \cup {tid}) \in Nat
  <2>. HIDE DEF J
  <2>1. /\ IsFiniteSet(J \cup {tid})
        /\ Cardinality(J \cup {tid}) = IF tid \in J THEN Cardinality(J) ELSE Cardinality(J) + 1
    BY ONLY <1>5, FS_AddElement
  <2>2. Cardinality(J \cup {tid}) \in Nat
    BY ONLY <2>1, FS_CardinalityType
  <2>. QED BY <1>5, <2>1, <2>2
<1>7. InTable \in SUBSET (J \cup {tid})
  OBVIOUS
<1>8. /\ IsFiniteSet(InTable) /\ Cardinality(InTable) <= Cardinality(J \cup {tid})
      /\ Cardinality(InTable) \in Nat
  <2>. HIDE DEF J
  <2>. QED BY <1>6, <1>7, FS_Subset, FS_CardinalityType
<1>9. Cardinality(Thread) \in Nat
  BY Finite
<1>. HIDE DEF J
<1>. QED BY <1>5, <1>6, <1>8, <1>9

\* With no recycled id the size of the table is a new one.
LEMMA IdIsNew ==
  ASSUME TypeOK, PlacesInv, TableInv, recycled = <<>>, NEW i, i = Cardinality(InTable),
         NEW t \in Thread, ~ Waiting(t),
         waitingThreads' = [waitingThreads EXCEPT ![i] = IF @ = NoThread THEN t ELSE @],
         recycled' = <<>>
  PROVE  /\ TableInv' /\ i \in WaitId /\ waitingThreads[i] = NoThread
         /\ waitingThreads' = [waitingThreads EXCEPT ![i] = t]
<1>1. \A j \in WaitId : ~ Recycled(j) /\ ~ Recycled(j)'
  BY DEF Recycled
<1>2. PICK n \in 0..Cardinality(Thread) + 1 : \A j \in WaitId : j < n <=> j \in InTable
  BY <1>1 DEF TableInv
<1>3. InTable = 0..n - 1
  BY <1>2, Finite DEF InTable, WaitId
<1>4. i = n /\ n \in Nat /\ n <= Cardinality(Thread)
  <2>1. n \in Nat /\ 0 \in Int /\ n - 1 \in Int
    BY Finite
  <2>2. Cardinality(0..n - 1) = n
    BY <2>1, FS_Interval, SMTT(20)
  <2>. QED BY <1>3, <2>1, <2>2, TableBounded
<1>5. i \in WaitId /\ i \notin InTable /\ waitingThreads[i] = NoThread
  BY <1>3, <1>4, Finite DEF WaitId, InTable
<1>11. waitingThreads' = [waitingThreads EXCEPT ![i] = t]
  BY <1>5
<1>6. \A j \in WaitId : j \in InTable' <=> j \in InTable \/ j = i
  BY <1>5, <1>11 DEF InTable, TypeOK
<1>7. \A j \in WaitId : j < n + 1 <=> j \in InTable' \/ Recycled(j)'
  BY <1>1, <1>2, <1>4, <1>6 DEF WaitId
<1>8. n + 1 \in 0..Cardinality(Thread) + 1
  BY <1>4, Finite
<1>. QED BY <1>1, <1>5, <1>11, <1>7, <1>8 DEF TableInv

------------------------------------------------------------------------------
(* The places of a script thread.                                          *)

RunOnce == \A w, v \in Worker, t \in Thread : running[w] = t /\ running[v] = t => w = v
WaitOnce == \A i, j \in WaitId, t \in Thread : i \in Waits(t) /\ j \in Waits(t) => i = j

LEMMA PlacesParts ==
  PlacesInv <=> (\A t \in Thread : OnePlace(t)) /\ QueueOnce /\ RunOnce /\ WaitOnce
BY DEF PlacesInv, QueueOnce, RunOnce, WaitOnce

LEMMA RunBegins ==
  ASSUME TypeOK, NEW w \in Worker, NEW t \in Thread, running[w] = NoThread, ~ Running(t), RunOnce,
         running' = [running EXCEPT ![w] = t]
  PROVE  RunOnce' /\ \A q \in Thread : Running(q)' <=> Running(q) \/ q = t
BY DEF TypeOK, RunOnce, Running

LEMMA RunEnds ==
  ASSUME TypeOK, NEW w \in Worker, running[w] \in Thread, RunOnce,
         running' = [running EXCEPT ![w] = NoThread]
  PROVE  RunOnce' /\ \A q \in Thread : Running(q)' <=> Running(q) /\ q # running[w]
BY DEF TypeOK, RunOnce, Running

LEMMA WaitBegins ==
  ASSUME TypeOK, NEW i \in WaitId, NEW t \in Thread, waitingThreads[i] = NoThread, ~ Waiting(t),
         tpc = "erase" => tid # i, WaitOnce, UNCHANGED <<tpc, tid>>,
         waitingThreads' = [waitingThreads EXCEPT ![i] = t]
  PROVE  WaitOnce' /\ \A q \in Thread : Waiting(q)' <=> Waiting(q) \/ q = t
<1>1. \A j \in WaitId, q \in Thread : (j \in Waits(q))' <=> j \in Waits(q) \/ (j = i /\ q = t)
  <2>1. \A j \in WaitId : waitingThreads'[j] = IF j = i THEN t ELSE waitingThreads[j]
    BY DEF TypeOK
  <2>2. ASSUME NEW j \in WaitId, NEW q \in Thread
        PROVE  (j \in Waits(q))' <=> j \in Waits(q) \/ (j = i /\ q = t)
    <3>1. (j \in Waits(q))' <=> waitingThreads'[j] = q /\ ~(tpc = "erase" /\ tid = j)
      BY DEF Waits
    <3>2. j \in Waits(q) <=> waitingThreads[j] = q /\ ~(tpc = "erase" /\ tid = j)
      BY DEF Waits
    <3>3. CASE j = i
      <4>1. waitingThreads'[j] = t /\ waitingThreads[j] # q /\ ~(tpc = "erase" /\ tid = j)
        BY <2>1, <3>3
      <4>. QED BY <3>1, <3>2, <3>3, <4>1
    <3>4. CASE j # i
      <4>1. waitingThreads'[j] = waitingThreads[j]
        BY <2>1, <3>4
      <4>. QED BY <3>1, <3>2, <3>4, <4>1
    <3>. QED BY <3>3, <3>4
  <2>. QED BY <2>2
<1>2. \A j \in WaitId : j \notin Waits(t)
  BY DEF Waiting
<1>3. WaitOnce'
  <2>1. SUFFICES ASSUME NEW j \in WaitId, NEW k \in WaitId, NEW q \in Thread,
                        (j \in Waits(q))', (k \in Waits(q))'
                 PROVE  j = k
    BY DEF WaitOnce
  <2>2. (j \in Waits(q) \/ (j = i /\ q = t)) /\ (k \in Waits(q) \/ (k = i /\ q = t))
    BY <1>1, <2>1
  <2>. QED BY <1>2, <2>2 DEF WaitOnce
<1>4. ASSUME NEW q \in Thread PROVE Waiting(q)' <=> Waiting(q) \/ q = t
  <2>1. ASSUME Waiting(q)' PROVE Waiting(q) \/ q = t
    <3>1. PICK j \in WaitId : (j \in Waits(q))'
      BY <2>1 DEF Waiting
    <3>2. j \in Waits(q) \/ q = t
      BY <1>1, <3>1
    <3>. QED BY <3>2 DEF Waiting
  <2>2. ASSUME Waiting(q) PROVE Waiting(q)'
    <3>1. PICK j \in WaitId : j \in Waits(q)
      BY <2>2 DEF Waiting
    <3>2. (j \in Waits(q))'
      BY <1>1, <3>1
    <3>. QED BY <3>2 DEF Waiting
  <2>3. Waiting(t)'
    BY <1>1 DEF Waiting
  <2>. QED BY <2>1, <2>2, <2>3
<1>. QED BY <1>3, <1>4

LEMMA WaitFrame ==
  ASSUME WaitOnce, \A j \in WaitId, q \in Thread : j \in Waits(q)' <=> j \in Waits(q)
  PROVE  WaitOnce' /\ \A q \in Thread : Waiting(q)' <=> Waiting(q)
<1>1. WaitOnce'
  <2>1. SUFFICES ASSUME NEW j \in WaitId, NEW k \in WaitId, NEW q \in Thread,
                        (j \in Waits(q))', (k \in Waits(q))'
                 PROVE  j = k
    BY DEF WaitOnce
  <2>2. j \in Waits(q) /\ k \in Waits(q)
    BY <2>1
  <2>. QED BY <2>2 DEF WaitOnce
<1>2. \A q \in Thread : Waiting(q)' <=> Waiting(q)
  BY DEF Waiting
<1>. QED BY <1>1, <1>2

LEMMA WaitEnds ==
  ASSUME WaitOnce, NEW i \in WaitId, NEW t \in Thread, i \in Waits(t),
         \A j \in WaitId, q \in Thread : (j \in Waits(q))' <=> j \in Waits(q) /\ j # i
  PROVE  WaitOnce' /\ \A q \in Thread : Waiting(q)' <=> Waiting(q) /\ q # t
<1>1. \A q \in Thread : i \in Waits(q) => q = t
  BY DEF Waits
<1>2. WaitOnce'
  <2>1. \A j \in WaitId, q \in Thread : j \in Waits(q)' => j \in Waits(q)
    OBVIOUS
  <2>. QED BY <2>1 DEF WaitOnce
<1>3. ASSUME NEW q \in Thread PROVE Waiting(q)' <=> Waiting(q) /\ q # t
  <2>1. CASE q = t
    <3>1. \A j \in WaitId : j \in Waits(t) => j = i
      BY DEF WaitOnce
    <3>. QED BY <2>1, <3>1 DEF Waiting
  <2>2. CASE q # t
    <3>1. \A j \in WaitId : j \in Waits(q)' <=> j \in Waits(q)
      BY <1>1, <2>2
    <3>. QED BY <2>2, <3>1 DEF Waiting
  <2>. QED BY <2>1, <2>2
<1>. QED BY <1>2, <1>3

------------------------------------------------------------------------------
(* What a step of a script does to the place of its thread.                *)

LEMMA Sleeping ==
  ASSUME TypeOK, LocalsInv, PlacesInv, TableInv, TimerInv, UNCHANGED timerVars,
         NEW t \in Thread, ~ Waiting(t), Sleeps(t)
  PROVE  /\ TableInv' /\ TimerInv' /\ WaitOnce'
         /\ \A q \in Thread : Waiting(q)' <=> Waiting(q) \/ q = t
<1>. DEFINE i == IF recycled = <<>> THEN Cardinality(InTable) ELSE recycled[Len(recycled)]
<1>1. waitingThreads' = [waitingThreads EXCEPT ![i] = IF @ = NoThread THEN t ELSE @]
  BY DEF Sleeps
<1>2. recycled' = IF recycled = <<>> THEN <<>> ELSE SubSeq(recycled, 1, Len(recycled) - 1)
  BY DEF Sleeps
<1>3. IF recycled = <<>> THEN i = Cardinality(InTable) ELSE i = recycled[Len(recycled)]
  OBVIOUS
<1>. HIDE DEF i
<1>4. /\ TableInv' /\ i \in WaitId /\ waitingThreads[i] = NoThread
      /\ waitingThreads' = [waitingThreads EXCEPT ![i] = t]
  <2>1. CASE recycled = <<>>
    BY <1>1, <1>2, <1>3, <2>1, IdIsNew
  <2>2. CASE recycled # <<>>
    BY <1>1, <1>2, <1>3, <2>2, IdReused
  <2>. QED BY <2>1, <2>2
<1>5. tpc # "idle" => tid # i
  BY <1>4 DEF TimerInv, LocalsInv
<1>6. TimerInv'
  BY <1>4, <1>5 DEF TimerInv, timerVars, TypeOK
<1>7. UNCHANGED <<tpc, tid>> /\ WaitOnce /\ (tpc = "erase" => tid # i)
  BY <1>5, PlacesParts DEF timerVars
<1>. QED BY <1>4, <1>6, <1>7, WaitBegins

\* A thread that is in nobody's hands any more goes to the queue, to the table, or ends.
LEMMA RunPlaces ==
  ASSUME TypeOK, LocalsInv, PlacesInv, TableInv, TimerInv, UNCHANGED timerVars,
         NEW t \in Thread, ~ InQueue(t), ~ Waiting(t), t \notin gone,
         Yields(t) \/ Ends(t) \/ Sleeps(t)
  PROVE  /\ TableInv' /\ TimerInv' /\ WaitOnce' /\ QueueOnce'
         /\ \A q \in Thread : q # t => /\ InQueue(q)' <=> InQueue(q)
                                       /\ Waiting(q)' <=> Waiting(q)
                                       /\ q \in gone' <=> q \in gone
         /\ InQueue(t)' => ~ Waiting(t)'
         /\ t \notin gone' <=> InQueue(t)' \/ Waiting(t)'
<1>0. QueueOnce /\ WaitOnce
  BY PlacesParts
<1>1. ASSUME UNCHANGED waitVars
      PROVE  /\ TableInv' /\ TimerInv' /\ WaitOnce'
             /\ \A q \in Thread : Waiting(q)' <=> Waiting(q)
  BY <1>0, <1>1 DEF TableInv, TimerInv, WaitOnce, Waiting, Waits, Recycled, InTable, waitVars, timerVars
<1>2. ASSUME UNCHANGED queue PROVE QueueOnce' /\ \A q \in Thread : InQueue(q)' <=> InQueue(q)
  BY <1>0, <1>2 DEF QueueOnce, InQueue
<1>3. CASE Yields(t)
  <2>1. QueueOnce' /\ \A q \in Thread : InQueue(q)' <=> InQueue(q) \/ q = t
    BY <1>0, <1>3, EnqueueOnce DEF Yields, TypeOK
  <2>2. UNCHANGED waitVars /\ UNCHANGED gone
    BY <1>3 DEF Yields
  <2>. QED BY <1>1, <2>1, <2>2
<1>4. CASE Ends(t)
  <2>1. UNCHANGED waitVars /\ UNCHANGED queue /\ gone' = gone \cup {t}
    BY <1>4 DEF Ends
  <2>. QED BY <1>1, <1>2, <2>1
<1>5. CASE Sleeps(t)
  <2>1. UNCHANGED queue /\ UNCHANGED gone
    BY <1>5 DEF Sleeps
  <2>. QED BY <1>2, <1>5, <2>1, Sleeping
<1>. QED BY <1>3, <1>4, <1>5

\* Nothing that is read about places changes.
LEMMA PlacesFrame ==
  ASSUME PlacesInv, TableInv, TimerInv, UNCHANGED <<queue, running, gone, waitVars, timerVars>>,
         \A t \in Thread : Stepping(t)' <=> Stepping(t)
  PROVE  PlacesInv' /\ TableInv' /\ TimerInv'
<1>1. TableInv' /\ TimerInv' /\ WaitOnce' /\ \A q \in Thread : Waiting(q)' <=> Waiting(q)
  BY PlacesParts DEF TableInv, TimerInv, WaitOnce, Waiting, Waits, Recycled, InTable, waitVars, timerVars
<1>2. /\ QueueOnce' /\ RunOnce'
      /\ \A q \in Thread : InQueue(q)' <=> InQueue(q)
      /\ \A q \in Thread : Running(q)' <=> Running(q)
  BY PlacesParts DEF QueueOnce, RunOnce, InQueue, Running
<1>3. \A q \in Thread : OnePlace(q)'
  BY <1>1, <1>2 DEF PlacesInv, OnePlace
<1>. QED BY <1>1, <1>2, <1>3 DEF PlacesInv, QueueOnce, RunOnce, WaitOnce

LEMMA QueueFrame ==
  ASSUME PlacesInv, UNCHANGED queue
  PROVE  QueueOnce' /\ \A q \in Thread : InQueue(q)' <=> InQueue(q)
BY PlacesParts DEF QueueOnce, InQueue

LEMMA RunFrame ==
  ASSUME PlacesInv, UNCHANGED running
  PROVE  RunOnce' /\ \A q \in Thread : Running(q)' <=> Running(q)
BY PlacesParts DEF RunOnce, Running

LEMMA TableFrame ==
  ASSUME PlacesInv, TableInv, TimerInv, UNCHANGED <<waitVars, timerVars>>
  PROVE  /\ TableInv' /\ TimerInv' /\ WaitOnce'
         /\ \A q \in Thread : Waiting(q)' <=> Waiting(q)
BY PlacesParts DEF TableInv, TimerInv, WaitOnce, Waiting, Waits, Recycled, InTable, waitVars, timerVars

\* Only one thread changes its place.
LEMMA Moved ==
  ASSUME PlacesInv, NEW t \in Thread, QueueOnce', RunOnce', WaitOnce', OnePlace(t)',
         \A q \in Thread : q # t => /\ InQueue(q)' <=> InQueue(q)
                                    /\ Running(q)' <=> Running(q)
                                    /\ Stepping(q)' <=> Stepping(q)
                                    /\ Waiting(q)' <=> Waiting(q)
                                    /\ q \in gone' <=> q \in gone
  PROVE  PlacesInv'
<1>1. ASSUME NEW q \in Thread, q # t PROVE OnePlace(q)'
  <2>1. OnePlace(q)
    BY DEF PlacesInv
  <2>2. /\ InQueue(q)' <=> InQueue(q)
        /\ Running(q)' <=> Running(q)
        /\ Stepping(q)' <=> Stepping(q)
        /\ Waiting(q)' <=> Waiting(q)
        /\ q \in gone' <=> q \in gone
    BY <1>1
  <2>. QED BY <2>1, <2>2 DEF OnePlace
<1>2. \A q \in Thread : OnePlace(q)'
  BY <1>1
<1>. QED BY <1>2 DEF PlacesInv, QueueOnce, RunOnce, WaitOnce

\* The steps of a worker
LEMMA WorkerPlaces ==
  ASSUME TypeOK, LocalsInv, PlacesInv, TableInv, TimerInv, NEW w \in Worker, WorkerStep(w)
  PROVE  PlacesInv' /\ TableInv' /\ TimerInv'
<1>0. /\ QueueOnce /\ RunOnce /\ \A q \in Thread : OnePlace(q)
      /\ queue \in Seq(Thread) /\ running \in [Worker -> Thread \cup {NoThread}]
      /\ \A v \in Worker : running[v] # NoThread <=> wpc[v] \in {"run", "break", "alone", "reached"}
  BY PlacesParts DEF TypeOK
<1>1. UNCHANGED <<hpc, stepping, timerVars>>
  BY DEF WorkerStep, Take, Detach, Run, RunToBreakPoint, BreakLock, BreakAlone, BreakEnqueue, OnBreakPoint
<1>2. \A q \in Thread : Stepping(q)' <=> Stepping(q)
  BY <1>1 DEF Stepping
<1>3. CASE Take(w)
  <2>1. UNCHANGED <<gone, waitVars>> /\ queue # <<>> /\ queue' = Tail(queue)
    BY <1>3 DEF Take, scriptVars
  <2>. PICK t \in Thread : t = Head(queue)
    BY <1>0, <2>1, DequeueOnce
  <2>2. InQueue(t) /\ QueueOnce' /\ \A q \in Thread : InQueue(q)' <=> InQueue(q) /\ q # t
    BY <1>0, <2>1, DequeueOnce
  <2>3. running' = [running EXCEPT ![w] = t] /\ running[w] = NoThread
    BY <1>0, <1>3 DEF Take, Move
  <2>4. ~ Running(t) /\ ~ Stepping(t) /\ ~ Waiting(t) /\ t \notin gone
    BY <1>0, <2>2 DEF OnePlace
  <2>5. RunOnce' /\ \A q \in Thread : Running(q)' <=> Running(q) \/ q = t
    BY <1>0, <2>2, <2>3, <2>4, RunBegins
  <2>6. TableInv' /\ TimerInv' /\ WaitOnce' /\ \A q \in Thread : Waiting(q)' <=> Waiting(q)
    BY <1>1, <2>1, TableFrame
  <2>7. OnePlace(t)'
    BY <1>2, <2>1, <2>2, <2>4, <2>5, <2>6 DEF OnePlace
  <2>. QED BY <1>2, <2>1, <2>2, <2>5, <2>6, <2>7, Moved
<1>4. CASE Run(w)
  <2>1. PICK t \in Thread : t = running[w]
    BY <1>0, <1>4 DEF Run, Move
  <2>2. Yields(t) \/ Ends(t) \/ Sleeps(t)
    BY <1>4, <2>1 DEF Run
  <2>3. RunOnce' /\ \A q \in Thread : Running(q)' <=> Running(q) /\ q # t
    BY <1>0, <1>4, <2>1, RunEnds DEF Run
  <2>4. Running(t) /\ ~ InQueue(t) /\ ~ Stepping(t) /\ ~ Waiting(t) /\ t \notin gone
    BY <1>0, <2>1 DEF OnePlace, Running
  <2>5. /\ TableInv' /\ TimerInv' /\ WaitOnce' /\ QueueOnce'
        /\ \A q \in Thread : q # t => /\ InQueue(q)' <=> InQueue(q)
                                      /\ Waiting(q)' <=> Waiting(q)
                                      /\ q \in gone' <=> q \in gone
        /\ InQueue(t)' => ~ Waiting(t)'
        /\ t \notin gone' <=> InQueue(t)' \/ Waiting(t)'
    BY <1>1, <2>2, <2>4, RunPlaces
  <2>6. OnePlace(t)'
    BY <1>2, <2>3, <2>4, <2>5 DEF OnePlace
  <2>. QED BY <1>2, <2>3, <2>5, <2>6, Moved
<1>5. CASE BreakEnqueue(w)
  <2>1. PICK t \in Thread : t = running[w]
    BY <1>0, <1>5 DEF BreakEnqueue, Move
  <2>2. UNCHANGED <<gone, waitVars>> /\ queue' = Append(queue, t)
    BY <1>5, <2>1 DEF BreakEnqueue, scriptVars
  <2>3. RunOnce' /\ \A q \in Thread : Running(q)' <=> Running(q) /\ q # t
    BY <1>0, <1>5, <2>1, RunEnds DEF BreakEnqueue
  <2>4. Running(t) /\ ~ InQueue(t) /\ ~ Stepping(t) /\ ~ Waiting(t) /\ t \notin gone
    BY <1>0, <2>1 DEF OnePlace, Running
  <2>5. QueueOnce' /\ \A q \in Thread : InQueue(q)' <=> InQueue(q) \/ q = t
    BY <1>0, <2>2, <2>4, EnqueueOnce
  <2>6. TableInv' /\ TimerInv' /\ WaitOnce' /\ \A q \in Thread : Waiting(q)' <=> Waiting(q)
    BY <1>1, <2>2, TableFrame
  <2>7. OnePlace(t)'
    BY <1>2, <2>2, <2>3, <2>4, <2>5, <2>6 DEF OnePlace
  <2>. QED BY <1>2, <2>2, <2>3, <2>5, <2>6, <2>7, Moved
<1>6. CASE Detach(w) \/ RunToBreakPoint(w) \/ BreakLock(w) \/ BreakAlone(w) \/ OnBreakPoint(w)
  <2>1. UNCHANGED <<queue, running, gone, waitVars, timerVars>>
    BY <1>6 DEF Detach, RunToBreakPoint, Reaches, BreakLock, BreakAlone, OnBreakPoint, scriptVars
  <2>. QED BY <1>2, <2>1, PlacesFrame
<1>. QED BY <1>3, <1>4, <1>5, <1>6 DEF WorkerStep

\* The steps of the host
LEMMA HostPlaces ==
  ASSUME TypeOK, LocalsInv, PlacesInv, TableInv, TimerInv, HostStep, raced' = FALSE
  PROVE  PlacesInv' /\ TableInv' /\ TimerInv'
<1>0. /\ QueueOnce /\ RunOnce /\ WaitOnce /\ \A q \in Thread : OnePlace(q)
      /\ queue \in Seq(Thread)
  BY PlacesParts DEF TypeOK
<1>1. CASE Pause \/ AllHaveLeft \/ Resume \/ StepBlocked \/ KillFails
           \/ \E t \in Thread : KillNotInQueue(t)
  <2>1. UNCHANGED <<queue, running, gone, waitVars, timerVars>>
    BY <1>1 DEF Pause, AllHaveLeft, Resume, StepBlocked, KillFails, KillNotInQueue, scriptVars
  <2>2. UNCHANGED <<hpc, stepping>> \/ {hpc, hpc'} \cap {"stepping", "relock"} = {}
    BY <1>1 DEF Pause, AllHaveLeft, Resume, StepBlocked, KillFails, KillNotInQueue, HostMoves
  <2>3. \A q \in Thread : Stepping(q)' <=> Stepping(q)
    BY <2>2 DEF Stepping
  <2>. QED BY <2>1, <2>3, PlacesFrame
\* Out of the queue
<1>2. ASSUME NEW t \in Thread, StepBegins(t) \/ KillInQueue(t) \/ (StepGoesOn /\ t = stepping)
      PROVE  PlacesInv' /\ TableInv' /\ TimerInv'
  <2>1. InQueue(t) /\ queue' = Without(t) /\ UNCHANGED <<running, waitVars, timerVars>>
    BY <1>2 DEF StepBegins, KillInQueue, StepGoesOn, scriptVars
  <2>2. QueueOnce' /\ \A q \in Thread : InQueue(q)' <=> InQueue(q) /\ q # t
    BY <1>0, <2>1, RemoveOnce
  <2>3. ~ Running(t) /\ ~ Stepping(t) /\ ~ Waiting(t) /\ t \notin gone
    BY <1>0, <2>1 DEF OnePlace
  <2>4. RunOnce' /\ \A q \in Thread : Running(q)' <=> Running(q)
    BY <2>1, RunFrame
  <2>5. TableInv' /\ TimerInv' /\ WaitOnce' /\ \A q \in Thread : Waiting(q)' <=> Waiting(q)
    BY <2>1, TableFrame
  <2>6. /\ \A q \in Thread : q # t => /\ Stepping(q)' <=> Stepping(q)
                                      /\ q \in gone' <=> q \in gone
        /\ t \notin gone' <=> Stepping(t)'
    <3>1. CASE StepBegins(t)
      BY <2>3, <3>1 DEF StepBegins, HostMoves, Stepping, scriptVars
    <3>2. CASE KillInQueue(t)
      BY <2>3, <3>2 DEF KillInQueue, Stepping
    <3>3. CASE StepGoesOn /\ t = stepping
      BY <2>3, <3>3 DEF StepGoesOn, HostMoves, Stepping, scriptVars
    <3>. QED BY <1>2, <3>1, <3>2, <3>3
  <2>7. OnePlace(t)'
    BY <2>2, <2>3, <2>4, <2>5, <2>6 DEF OnePlace
  <2>. QED BY <2>2, <2>4, <2>5, <2>6, <2>7, Moved
\* In the hands of a step before
<1>3. CASE StepRun \/ StepFinishes \/ StepToBreakPoint \/ StepStops
  <2>. PICK t \in Thread : t = stepping
    BY <1>3 DEF StepRun, StepFinishes, StepToBreakPoint, StepStops, HostMoves, LocalsInv
  <2>1. hpc = "stepping" /\ Stepping(t) /\ ~ InQueue(t) /\ ~ Running(t) /\ ~ Waiting(t) /\ t \notin gone
    BY <1>0, <1>3 DEF StepRun, StepFinishes, StepToBreakPoint, StepStops, HostMoves, Stepping, OnePlace
  <2>2. UNCHANGED <<running, timerVars>>
    BY <1>3 DEF StepRun, StepFinishes, StepToBreakPoint, StepStops
  <2>3. RunOnce' /\ \A q \in Thread : Running(q)' <=> Running(q)
    BY <2>2, RunFrame
  <2>4. CASE StepToBreakPoint
    <3>1. UNCHANGED <<queue, gone, waitVars>>
      BY <2>4 DEF StepToBreakPoint, Reaches
    <3>2. \A q \in Thread : Stepping(q)' <=> Stepping(q)
      BY <2>4 DEF StepToBreakPoint, HostMoves, Stepping
    <3>. QED BY <2>2, <3>1, <3>2, PlacesFrame
  <2>5. CASE StepStops
    <3>1. UNCHANGED <<gone, waitVars>> /\ queue' = Append(queue, t)
      BY <2>5 DEF StepStops, scriptVars
    <3>2. QueueOnce' /\ \A q \in Thread : InQueue(q)' <=> InQueue(q) \/ q = t
      BY <1>0, <2>1, <3>1, EnqueueOnce
    <3>3. TableInv' /\ TimerInv' /\ WaitOnce' /\ \A q \in Thread : Waiting(q)' <=> Waiting(q)
      BY <2>2, <3>1, TableFrame
    <3>4. \A q \in Thread : ~ Stepping(q)' /\ (q # t => ~ Stepping(q))
      BY <2>5 DEF StepStops, HostMoves, Stepping
    <3>5. OnePlace(t)'
      BY <2>1, <2>3, <3>1, <3>2, <3>3, <3>4 DEF OnePlace
    <3>. QED BY <2>3, <3>1, <3>2, <3>3, <3>4, <3>5, Moved
  <2>6. CASE StepRun \/ StepFinishes
    <3>1. Yields(t) \/ Ends(t) \/ Sleeps(t)
      BY <2>6 DEF StepRun, StepFinishes
    <3>2. \A q \in Thread : ~ Stepping(q)' /\ (q # t => ~ Stepping(q))
      BY <2>6 DEF StepRun, StepFinishes, HostMoves, Stepping
    <3>3. /\ TableInv' /\ TimerInv' /\ WaitOnce' /\ QueueOnce'
          /\ \A q \in Thread : q # t => /\ InQueue(q)' <=> InQueue(q)
                                        /\ Waiting(q)' <=> Waiting(q)
                                        /\ q \in gone' <=> q \in gone
          /\ InQueue(t)' => ~ Waiting(t)'
          /\ t \notin gone' <=> InQueue(t)' \/ Waiting(t)'
      BY <2>1, <2>2, <3>1, RunPlaces
    <3>4. OnePlace(t)'
      BY <2>1, <2>3, <3>2, <3>3 DEF OnePlace
    <3>. QED BY <2>3, <3>2, <3>3, <3>4, Moved
  <2>. QED BY <1>3, <2>4, <2>5, <2>6
\* Out of the table
<1>4. ASSUME NEW i \in WaitId, KillInTable(i) PROVE PlacesInv' /\ TableInv' /\ TimerInv'
  <2>. PICK t \in Thread : t = stepping
    BY <1>4 DEF KillInTable, HostMoves, LocalsInv
  <2>1. /\ waitingThreads[i] = t /\ tthread # t /\ gone' = gone \cup {t}
        /\ waitingThreads' = [waitingThreads EXCEPT ![i] = NoThread]
        /\ recycled' = Append(recycled, i)
        /\ UNCHANGED <<queue, running, tpc, tid, tthread>>
    BY <1>4 DEF KillInTable, timerVars
  <2>2. tpc # "idle" => tid # i
    BY <2>1 DEF TimerInv
  <2>3. TableInv'
    BY <2>1, IdReturned DEF InTable
  <2>4. TimerInv'
    BY <2>1, <2>2 DEF TimerInv, TypeOK
  <2>5. i \in Waits(t) /\ Waiting(t)
    BY <2>1, <2>2 DEF Waits, Waiting
  <2>6. \A j \in WaitId, q \in Thread : (j \in Waits(q))' <=> j \in Waits(q) /\ j # i
    <3>1. \A j \in WaitId : waitingThreads'[j] = IF j = i THEN NoThread ELSE waitingThreads[j]
      BY <2>1 DEF TypeOK
    <3>. QED BY <2>1, <3>1 DEF Waits
  <2>7. WaitOnce' /\ \A q \in Thread : Waiting(q)' <=> Waiting(q) /\ q # t
    BY <1>0, <2>5, <2>6, WaitEnds
  <2>8. QueueOnce' /\ \A q \in Thread : InQueue(q)' <=> InQueue(q)
    BY <2>1, QueueFrame
  <2>9. RunOnce' /\ \A q \in Thread : Running(q)' <=> Running(q)
    BY <2>1, RunFrame
  <2>10. \A q \in Thread : ~ Stepping(q)' /\ ~ Stepping(q)
    BY <1>4 DEF KillInTable, HostMoves, Stepping
  <2>11. OnePlace(t)'
    BY <1>0, <2>1, <2>5, <2>7, <2>8, <2>9, <2>10 DEF OnePlace
  <2>. QED BY <2>1, <2>3, <2>4, <2>7, <2>8, <2>9, <2>10, <2>11, Moved
<1>5. StepGoesOn => stepping \in Thread
  BY DEF StepGoesOn, HostMoves, LocalsInv
<1>. QED BY <1>1, <1>2, <1>3, <1>4, <1>5 DEF HostStep

\* The steps of the timer thread in resume()
LEMMA TimerPlaces ==
  ASSUME TypeOK, LocalsInv, PlacesInv, TableInv, TimerInv, TimerStep
  PROVE  PlacesInv' /\ TableInv' /\ TimerInv'
<1>0. /\ QueueOnce /\ RunOnce /\ WaitOnce /\ \A q \in Thread : OnePlace(q)
      /\ queue \in Seq(Thread)
  BY PlacesParts DEF TypeOK
<1>1. /\ UNCHANGED <<running, gone>>
      /\ \A q \in Thread : Stepping(q)' <=> Stepping(q)
  BY DEF TimerStep, Fire, Wake, Erase, scriptVars, Stepping
<1>2. RunOnce' /\ \A q \in Thread : Running(q)' <=> Running(q)
  BY <1>1, RunFrame
<1>3. ASSUME NEW i \in WaitId, Fire(i) PROVE PlacesInv' /\ TableInv' /\ TimerInv'
  <2>1. UNCHANGED <<queue, waitingThreads, recycled>> /\ tpc = "idle" /\ tpc' # "erase"
    BY <1>3 DEF Fire, timerVars
  <2>2. TableInv'
    BY <2>1 DEF TableInv, Recycled, InTable
  <2>3. TimerInv'
    BY <1>3 DEF Fire, TimerInv, timerVars
  <2>4. \A j \in WaitId, q \in Thread : (j \in Waits(q))' <=> j \in Waits(q)
    BY <2>1 DEF Waits
  <2>5. WaitOnce' /\ \A q \in Thread : Waiting(q)' <=> Waiting(q)
    BY <1>0, <2>4, WaitFrame
  <2>6. QueueOnce' /\ \A q \in Thread : InQueue(q)' <=> InQueue(q)
    BY <2>1, QueueFrame
  <2>7. \A q \in Thread : OnePlace(q)'
    BY <1>0, <1>1, <1>2, <2>5, <2>6 DEF OnePlace
  <2>. QED BY <1>2, <2>2, <2>3, <2>5, <2>6, <2>7 DEF PlacesInv, QueueOnce, RunOnce, WaitOnce
<1>4. CASE Wake
  <2>. PICK t \in Thread : t = tthread
    BY <1>4 DEF Wake, LocalsInv
  <2>1. /\ tpc = "wake" /\ tpc' = "erase" /\ t \notin gone /\ queue' = Append(queue, t)
        /\ UNCHANGED <<waitingThreads, recycled, tid, tthread>>
    BY <1>4 DEF Wake, waitVars
  <2>2. waitingThreads[tid] = t /\ tid \in WaitId
    BY <2>1 DEF TimerInv, TypeOK
  <2>. PICK i \in WaitId : i = tid
    BY <2>2
  <2>3. TableInv' /\ TimerInv'
    BY <2>1, <2>2 DEF TableInv, TimerInv, Recycled, InTable
  <2>4. i \in Waits(t) /\ Waiting(t)
    BY <2>1, <2>2 DEF Waits, Waiting
  <2>5. \A j \in WaitId, q \in Thread : (j \in Waits(q))' <=> j \in Waits(q) /\ j # i
    BY <2>1 DEF Waits
  <2>6. WaitOnce' /\ \A q \in Thread : Waiting(q)' <=> Waiting(q) /\ q # t
    BY <1>0, <2>4, <2>5, WaitEnds
  <2>7. ~ InQueue(t) /\ ~ Running(t) /\ ~ Stepping(t)
    BY <1>0, <2>4 DEF OnePlace
  <2>8. QueueOnce' /\ \A q \in Thread : InQueue(q)' <=> InQueue(q) \/ q = t
    BY <1>0, <2>1, <2>7, EnqueueOnce
  <2>9. OnePlace(t)'
    BY <1>1, <1>2, <2>1, <2>6, <2>7, <2>8 DEF OnePlace
  <2>. QED BY <1>1, <1>2, <2>3, <2>6, <2>8, <2>9, Moved
<1>5. CASE Erase
  <2>. PICK i \in WaitId : i = tid
    BY DEF TypeOK
  <2>1. /\ tpc = "erase" /\ tpc' = "idle" /\ UNCHANGED queue
        /\ waitingThreads' = [waitingThreads EXCEPT ![i] = NoThread]
        /\ recycled' = Append(recycled, i)
    BY <1>5 DEF Erase
  <2>2. i \in InTable
    BY <2>1 DEF TimerInv, LocalsInv, InTable
  <2>3. TableInv' /\ TimerInv'
    BY <2>1, <2>2, IdReturned DEF TimerInv
  <2>4. \A j \in WaitId, q \in Thread : (j \in Waits(q))' <=> j \in Waits(q)
    <3>1. \A j \in WaitId : waitingThreads'[j] = IF j = i THEN NoThread ELSE waitingThreads[j]
      BY <2>1 DEF TypeOK
    <3>. QED BY <2>1, <3>1 DEF Waits
  <2>5. WaitOnce' /\ \A q \in Thread : Waiting(q)' <=> Waiting(q)
    BY <1>0, <2>4, WaitFrame
  <2>6. QueueOnce' /\ \A q \in Thread : InQueue(q)' <=> InQueue(q)
    BY <2>1, QueueFrame
  <2>7. \A q \in Thread : OnePlace(q)'
    BY <1>0, <1>1, <1>2, <2>5, <2>6 DEF OnePlace
  <2>. QED BY <1>2, <2>3, <2>5, <2>6, <2>7 DEF PlacesInv, QueueOnce, RunOnce, WaitOnce
<1>. QED BY <1>3, <1>4, <1>5 DEF TimerStep

LEMMA RacedStays == ASSUME TypeOK, Next, ~ raced' PROVE ~ raced
<1>1. CASE UNCHANGED raced
  BY <1>1
<1>2. ASSUME NEW i \in WaitId, KillInTable(i) PROVE ~ raced
  BY <1>2 DEF KillInTable
<1>. QED BY <1>1, <1>2 DEF Next, HostStep, TimerStep, WorkerStep, Take, Detach, Run, RunToBreakPoint,
     BreakLock, BreakAlone, BreakEnqueue, OnBreakPoint, Pause, AllHaveLeft, Resume, StepBegins,
     KillInQueue, KillNotInQueue, StepRun, StepFinishes, StepToBreakPoint, StepGoesOn, StepBlocked,
     StepStops, KillFails, Wake, Erase, Fire, accidents

------------------------------------------------------------------------------
(* The invariant holds at the start, and always.                           *)

LEMMA NextInd == ASSUME IndInv, Next PROVE IndInv'
<1>1. TypeOK' /\ LocalsInv'
  BY TypeStep DEF IndInv
<1>2. WorkersInv'
  BY WorkersStep DEF IndInv
<1>3. ASSUME ~ raced' PROVE PlacesInv' /\ IdsInv'
  <2>1. PlacesInv /\ TableInv /\ TimerInv /\ TypeOK /\ LocalsInv
    BY <1>3, RacedStays, IdsParts DEF IndInv
  <2>2. raced' = FALSE
    BY <1>1, <1>3 DEF TypeOK
  <2>3. PlacesInv' /\ TableInv' /\ TimerInv'
    BY <2>1, <2>2, WorkerPlaces, HostPlaces, TimerPlaces DEF Next
  <2>4. \A k \in 1..Len(recycled') : recycled'[k] \in WaitId
    BY <1>1 DEF TypeOK
  <2>5. IdsInv'
    BY <2>3, <2>4 DEF IdsInv, TableInv, TimerInv, Recycled
  <2>. QED BY <2>3, <2>5
<1>. QED BY <1>1, <1>2, <1>3 DEF IndInv

LEMMA StutterInd == ASSUME IndInv, UNCHANGED vars PROVE IndInv'
<1>. USE DEF vars, poolVars, scriptVars, waitVars, timerVars, accidents
<1>1. TypeOK' /\ LocalsInv'
  BY DEF IndInv, TypeOK, LocalsInv
<1>2. WorkersInv => WorkersInv'
  BY DEF WorkersInv
<1>3. PlacesInv => PlacesInv'
  BY DEF PlacesInv, OnePlace, InQueue, Running, Stepping, Waiting, Waits
<1>4. IdsInv => IdsInv'
  BY DEF IdsInv, InTable
<1>. QED BY <1>1, <1>2, <1>3, <1>4 DEF IndInv

LEMMA InitInd == Init => IndInv
<1>. SUFFICES ASSUME Init PROVE IndInv
  OBVIOUS
<1>. USE DEF Init
<1>1. PICK s \in [1..Cardinality(Thread) -> Thread] :
        queue = s /\ \A i, j \in DOMAIN s : s[i] = s[j] => i = j
  OBVIOUS
<1>2. PICK ws \in SUBSET Worker :
        /\ Cardinality(ws) = Workers /\ workers = ws
        /\ wpc = [w \in Worker |-> IF w \in ws THEN "idle" ELSE "absent"]
  OBVIOUS
<1>3. \A w \in Worker : wpc[w] = IF w \in ws THEN "idle" ELSE "absent"
  BY <1>2
<1>4. PoolType /\ RunningType
  <2>1. wpc \in [Worker -> WorkerState]
    BY <1>2 DEF WorkerState
  <2>2. Workers \in 0..Cardinality(Worker) /\ 0 \in 0..Cardinality(Worker)
    BY Finite
  <2>. QED BY <1>2, <1>3, <2>1, <2>2 DEF PoolType, RunningType
<1>5. HostType /\ TimerType /\ LocalsInv
  <2>1. hpc \in HostState /\ pauses \in 0..MaxPause
    BY DEF HostState
  <2>2. \A w \in Worker : wpc[w] # "alone" /\ w # NoOne
    BY <1>3
  <2>3. HostType
    BY <2>1, <2>2 DEF HostType
  <2>4. TimerType /\ LocalsInv
    BY Finite DEF TimerType, LocalsInv, TimerState
  <2>. QED BY <2>3, <2>4
<1>6. ScriptType
  <2>1. queue \in Seq(Thread)
    BY <1>1, Finite
  <2>2. recycled \in Seq(WaitId) /\ MaxRun \in 0..MaxRun
    OBVIOUS
  <2>. QED BY <2>1, <2>2 DEF ScriptType
<1>7. WorkersInv
  BY <1>2, <1>3 DEF WorkersInv
<1>8. PlacesInv
  <2>1. \A t \in Thread : InQueue(t)
    <3>1. s \in Injection(1..Cardinality(Thread), Thread)
      BY <1>1 DEF Injection, IsInjective
    <3>2. IsFiniteSet(1..Cardinality(Thread)) /\ Cardinality(1..Cardinality(Thread)) = Cardinality(Thread)
      BY Finite, FS_Interval
    <3>3. s \in Surjection(1..Cardinality(Thread), Thread)
      BY <3>1, <3>2, FS_Injection
    <3>. QED BY <1>1, <3>3 DEF Surjection, InQueue
  <2>2. \A t \in Thread : ~ Running(t) /\ ~ Stepping(t) /\ ~ Waiting(t)
    BY DEF Running, Stepping, Waiting, Waits
  <2>3. WaitOnce /\ RunOnce
    BY <2>2 DEF WaitOnce, RunOnce, Waiting
  <2>. QED BY <1>1, <2>1, <2>2, <2>3 DEF PlacesInv, OnePlace, WaitOnce, RunOnce
<1>9. IdsInv
  <2>1. 1..Len(recycled) = {} /\ InTable = {}
    BY DEF InTable
  <2>2. 0 \in 0..Cardinality(Thread) + 1 /\ \A i \in WaitId : ~ (i < 0)
    BY Finite DEF WaitId
  <2>3. \E n \in 0..Cardinality(Thread) + 1 :
          \A i \in WaitId : i < n <=> i \in InTable \/ \E k \in 1..Len(recycled) : recycled[k] = i
    BY <2>1, <2>2
  <2>. QED BY <2>1, <2>3 DEF IdsInv
<1>. QED BY <1>4, <1>5, <1>6, <1>7, <1>8, <1>9, TypeParts DEF IndInv

LEMMA Invariance == Spec => []IndInv
<1>1. IndInv /\ [Next]_vars => IndInv'
  BY NextInd, StutterInd
<1>. QED BY InitInd, <1>1, PTL DEF Spec

------------------------------------------------------------------------------
(* The theorems.                                                           *)

\* The sets and tables of the runtime keep their types: debugBreak() holds lockDebugger
\* exactly while it waits for the other workers, and the calls of the host that use a
\* thread hold it for as long as they do.
THEOREM DebuggerTypes == Spec => []TypeOK
<1>1. IndInv => TypeOK
  BY DEF IndInv
<1>. QED BY <1>1, Invariance, PTL

LEMMA ObeyingWorkers == ASSUME IndInv PROVE WorkersObey
<1>. DEFINE S == {w \in workers : wpc[w] # "stop"}
<1>1. TypeOK /\ WorkersInv
  BY DEF IndInv
<1>2. ASSUME ~paused, lockDebugger = NoOne
      PROVE  Cardinality(S) <= target /\ (~hasty => Cardinality(S) = target)
  <2>1. workers \subseteq Worker /\ target \in Nat
    BY <1>1, Finite DEF TypeOK
  <2>2. Cardinality(workers) <= target /\ (~hasty => Cardinality(workers) = target)
    BY <1>1, <1>2 DEF WorkersInv
  <2>3. IsFiniteSet(workers) /\ Cardinality(workers) \in Nat
    BY <1>1, WorkersCount
  <2>4. Cardinality(S) <= Cardinality(workers) /\ Cardinality(S) \in Nat
    BY <2>3, FS_Subset, FS_CardinalityType
  <2>5. ~hasty => S = workers
    BY <1>1, <1>2, <2>1 DEF WorkersInv
  <2>6. Cardinality(S) <= target
    BY <2>1, <2>2, <2>3, <2>4
  <2>. QED BY <2>2, <2>5, <2>6
<1>3. ASSUME paused, NEW w \in Worker PROVE wpc[w] \notin {"run", "break", "alone"}
  BY <1>1, <1>3 DEF WorkersInv
<1>. QED BY <1>2, <1>3 DEF WorkersObey

\* While the runtime is paused no worker runs a script or is about to enter debugBreak(),
\* so that the debugger may read frames without a lock. While it is not, no more workers are
\* there than setWorkers() was told; and as many, unless the host has resumed before the
\* worker that called onBreakPoint() had left.
THEOREM WorkersAreObeyed == Spec => []WorkersObey
<1>1. IndInv => WorkersObey
  BY ObeyingWorkers
<1>. QED BY <1>1, Invariance, PTL

LEMMA AtMostOne ==
  ASSUME NEW S, \A x, y \in S : x = y
  PROVE  Cardinality(S) = IF S = {} THEN 0 ELSE 1
<1>1. CASE S = {}
  BY <1>1, FS_EmptySet
<1>2. CASE S # {}
  <2>1. PICK x : x \in S
    BY <1>2
  <2>2. S = {x}
    BY <2>1
  <2>. QED BY <1>2, <2>2, FS_Singleton
<1>. QED BY <1>1, <1>2

LEMMA CountedOnce ==
  ASSUME TypeOK, PlacesInv, NEW t \in Thread
  PROVE  Cardinality(HeldBy(t)) + Cardinality(Entries(t)) + Cardinality(Waits(t))
           = IF t \in gone THEN 0 ELSE 1
<1>1. OnePlace(t)
  BY DEF PlacesInv
<1>2. HeldBy(t) # {} <=> Running(t) \/ Stepping(t)
  BY DEF HeldBy, Running, Stepping
<1>3. Entries(t) # {} <=> InQueue(t)
  BY DEF Entries, InQueue
<1>4. Waits(t) # {} <=> Waiting(t)
  BY DEF Waits, Waiting
<1>5. \A x, y \in HeldBy(t) : x = y
  <2>1. CASE Running(t)
    <3>1. ~Stepping(t) /\ \A w, v \in Worker : running[w] = t /\ running[v] = t => w = v
      BY <1>1, <2>1 DEF OnePlace, PlacesInv
    <3>. QED BY <3>1 DEF HeldBy, Stepping
  <2>2. CASE ~Running(t)
    BY <2>2 DEF HeldBy, Running
  <2>. QED BY <2>1, <2>2
<1>6. \A x, y \in Entries(t) : x = y
  BY DEF Entries, PlacesInv
<1>7. \A x, y \in Waits(t) : x = y
  <2>1. \A x \in Waits(t) : x \in WaitId
    BY DEF Waits
  <2>. QED BY <2>1 DEF PlacesInv
<1>8. /\ Cardinality(HeldBy(t)) = IF Running(t) \/ Stepping(t) THEN 1 ELSE 0
      /\ Cardinality(Entries(t)) = IF InQueue(t) THEN 1 ELSE 0
      /\ Cardinality(Waits(t)) = IF Waiting(t) THEN 1 ELSE 0
  BY <1>2, <1>3, <1>4, <1>5, <1>6, <1>7, AtMostOne
<1>. QED BY <1>1, <1>8 DEF OnePlace

\* A script thread is in exactly one place - the queue, the table of waiting threads, a
\* worker or a step of the debugger - and in none once it has ended, whatever pause(),
\* stepRun(), killThread() and the timers do; except for killThread() on a thread that
\* resume() has just looked up.
THEOREM ThreadsOnce == Spec => []ThreadOnce
<1>1. IndInv => ThreadOnce
  BY CountedOnce DEF IndInv, ThreadOnce
<1>. QED BY <1>1, Invariance, PTL
=============================================================================
