-------------------------- MODULE WaitContext_proofs --------------------------
(***************************************************************************)
(* Proofs about wait(), pause() and resume(), for any threads, workers and *)
(* async calls, whatever each thread waits for.                            *)
(***************************************************************************)
EXTENDS WaitContext, FiniteSetTheorems, SequenceTheorems, TLAPS

USE MainAssumption, BoundAssumption, NoneAssumption, AsyncAssumption

------------------------------------------------------------------------------
(* Who runs a thread.                                                      *)

\* A worker goes on with its thread.
GoesOn(w, l) ==
  /\ UNCHANGED <<queue, running, gone>>
  /\ pc[w] \notin {"idle", "unlock"} /\ l \in WorkerState \ {"idle", "unlock"}
  /\ GoTo(w, l)

\* What the steps do to the threads in the queue and on the workers.
RunCases ==
  \/ UNCHANGED <<queue, running, gone, pc>>
  \/ \E w \in Worker : \E l \in WorkerState : GoesOn(w, l)
  \/ \E w \in Worker : \E t \in Thread : Dispatch(w, t)
  \/ \E w \in Worker : Yield(w) \/ FinishScript(w) \/ PostProcess(w) \/ UnlockNative(w)
  \/ \E o \in Process : ResumeEnqueue(o)

LEMMA RunSplit == ASSUME Next PROVE RunCases
<1>1. CASE WaitingNext /\ UNCHANGED <<eventVars, contextVars, watcherVars>>
  <2>1. CASE LoopEnds
    BY <2>1 DEF LoopEnds, RunCases
  <2>2. ASSUME NEW w \in Worker,
               \/ EnterNative(w) \/ LockNative(w) \/ RequestToPause(w) \/ Pause(w) \/ Arm(w)
               \/ NativeThrows(w) \/ LeaveNative(w)
        PROVE  RunCases
    <3>1. \E l \in WorkerState : GoesOn(w, l)
      BY <2>2 DEF EnterNative, LockNative, RequestToPause, Pause, Arm, NativeThrows,
                  LeaveNative, GoesOn, GoTo, WorkerState
    <3>. QED BY <3>1 DEF RunCases
  <2>3. ASSUME NEW o \in Process, Resume(o), ~ ResumeEnqueue(o) PROVE RunCases
    BY <2>3 DEF Resume, Unlock, ResumeLookUp, ResumeAtOnce, ResumeErase, RunCases, runVars
  <2>. QED BY <1>1, <2>1, <2>2, <2>3 DEF WaitingNext, NativeCall, RunCases
<1>2. ASSUME NEW w \in Worker, Watcher(w) PROVE RunCases
  BY <1>2 DEF Watcher, LockTriggered, Unregister, Trigger, Resumed, ReleaseTriggered,
              Recycle, RunCases, waitVars, runVars
<1>3. ASSUME NEW w \in Worker, Wait(w) PROVE RunCases
  <2>1. CASE Deploy(w) \/ Deployed(w)
    <3>1. \E l \in WorkerState : GoesOn(w, l)
      BY <2>1 DEF Deploy, Deployed, GoesOn, GoTo, WorkerState
    <3>. QED BY <3>1 DEF RunCases
  <2>2. ASSUME NEW e \in Async, Activate(w, e) PROVE RunCases
    BY <2>2 DEF Activate, RunCases, waitVars, runVars
  <2>. QED BY <1>3, <2>1, <2>2 DEF Wait
<1>4. ASSUME NEW w \in Worker, EndOfScript(w) PROVE RunCases
  <2>1. CASE UpdateResult(w)
    <3>1. \E l \in WorkerState : GoesOn(w, l)
      BY <2>1 DEF UpdateResult, GoesOn, GoTo, WorkerState
    <3>. QED BY <3>1 DEF RunCases
  <2>2. ASSUME NEW t \in Thread, NotifyNext(w, t) PROVE RunCases
    BY <2>2 DEF NotifyNext, RunCases, waitVars, runVars
  <2>. QED BY <1>4, <2>1, <2>2 DEF EndOfScript, RunCases
<1>. QED BY <1>1, <1>2, <1>3, <1>4 DEF Next

\* The thread that resume() has found has stopped, or will.
LEMMA WakeStops ==
  ASSUME ContextTypeOK, LocalsInv, OwnedInv, LiveInv, NEW o \in Process, rpc[o] = "wake"
  PROVE  /\ rid[o] \in WaitId /\ rthread[o] \in Thread
         /\ Live(rid[o]) /\ waitingThreads[rid[o]] = rthread[o] /\ Stops(rthread[o])
<1>1. rid[o] \in WaitId /\ Resuming(o, rid[o])
  BY DEF ContextTypeOK, TypeOK, Resuming
<1>2. rthread[o] = waitingThreads[rid[o]]
  BY <1>1 DEF OwnedInv
<1>3. Live(rid[o])
  BY DEF Live
<1>. QED BY <1>1, <1>2, <1>3 DEF LiveInv

\* ... and no worker runs a thread that is enqueued by resume().
LEMMA EnqueuedRests ==
  ASSUME ContextTypeOK, LocalsInv, NativeInv, OwnedInv, LiveInv,
         NEW o \in Process, ResumeEnqueue(o)
  PROVE  /\ rthread[o] \in Thread /\ rthread[o] \notin gone /\ queue[rthread[o]] = 0
         /\ \A w \in Worker : ~ Runs(w, rthread[o])
<1>1. rthread[o] \in Thread /\ Stops(rthread[o])
  BY WakeStops DEF ResumeEnqueue
<1>2. ASSUME NEW w \in Worker, Runs(w, rthread[o]) PROVE FALSE
  <2>1. pc[w] \in {"native", "deploy", "left"} /\ running[w] = rthread[o]
    BY <1>1, <1>2 DEF Stops, Runs
  <2>2. lockNative[rthread[o]] = w
    BY <2>1 DEF NativeInv
  <2>. QED BY <2>2 DEF ResumeEnqueue, Process
<1>. QED BY <1>1, <1>2 DEF Stops

LEMMA RunStep ==
  ASSUME ContextTypeOK, LocalsInv, RunInv, NativeInv, OwnedInv, LiveInv, Next
  PROVE  RunInv'
<1>. USE DEF RunInv, Runs
<1>0. RunCases
  BY RunSplit
<1>1. CASE UNCHANGED <<queue, running, gone, pc>>
  BY <1>1
<1>2. ASSUME NEW w \in Worker, NEW l \in WorkerState, GoesOn(w, l) PROVE RunInv'
  BY <1>2 DEF GoesOn, GoTo, ContextTypeOK, TypeOK
<1>3. ASSUME NEW w \in Worker, NEW t \in Thread, Dispatch(w, t) PROVE RunInv'
  BY <1>3 DEF Dispatch, GoTo, ContextTypeOK, TypeOK
<1>4. ASSUME NEW w \in Worker, Yield(w) PROVE RunInv'
  BY <1>4 DEF Yield, Enqueue, GoTo, ContextTypeOK, TypeOK
<1>5. ASSUME NEW w \in Worker, FinishScript(w) PROVE RunInv'
  BY <1>5 DEF FinishScript, Finish, GoTo, ContextTypeOK, TypeOK
<1>6. ASSUME NEW w \in Worker, PostProcess(w) PROVE RunInv'
  BY <1>6 DEF PostProcess, Enqueue, GoTo, ContextTypeOK, TypeOK
<1>7. ASSUME NEW w \in Worker, UnlockNative(w) PROVE RunInv'
  BY <1>7 DEF UnlockNative, GoTo, ContextTypeOK, TypeOK
<1>8. ASSUME NEW o \in Process, ResumeEnqueue(o) PROVE RunInv'
  <2>1. /\ rthread[o] \in Thread /\ rthread[o] \notin gone /\ queue[rthread[o]] = 0
        /\ \A w \in Worker : ~ Runs(w, rthread[o])
    BY <1>8, EnqueuedRests
  <2>. QED BY <1>8, <2>1 DEF ResumeEnqueue, Enqueue, ContextTypeOK, TypeOK
<1>. QED BY <1>0, <1>1, <1>2, <1>3, <1>4, <1>5, <1>6, <1>7, <1>8 DEF RunCases

------------------------------------------------------------------------------
(* lockNative and nativeCallThreadId.                                      *)

InNative == {"native", "pausing", "asked", "deploy", "left", "unlock"}

LEMMA NativeStep ==
  ASSUME ContextTypeOK, LocalsInv, RunInv, NativeInv, OwnedInv, LiveInv, Next
  PROVE  NativeInv'
<1>. USE DEF NativeInv, ContextTypeOK, TypeOK
<1>1. CASE UNCHANGED <<nativeBy, lockNative, pauseRequested, running, pc, queue, gone>>
  BY <1>1 DEF Runs
<1>2. ASSUME NEW w \in Worker, NEW t \in Thread, Dispatch(w, t) PROVE NativeInv'
  BY <1>2 DEF Dispatch, GoTo, nativeVars, Runs, LocalsInv
<1>3. ASSUME NEW w \in Worker, Yield(w) PROVE NativeInv'
  BY <1>3 DEF Yield, GoTo, Enqueue, nativeVars, Runs, LocalsInv
<1>4. ASSUME NEW w \in Worker, EnterNative(w) PROVE NativeInv'
  BY <1>4 DEF EnterNative, GoTo, RunInv, Runs, LocalsInv
<1>5. ASSUME NEW w \in Worker, LockNative(w) PROVE NativeInv'
  <2>1. running[w] \in Thread /\ lockNative[running[w]] = NoOne
    BY <1>5 DEF LockNative, LocalsInv
  <2>2. \A v \in Worker : pc[v] \in InNative => running[v] # running[w]
    BY <2>1 DEF InNative, Process
  <2>. QED BY <1>5, <2>1, <2>2 DEF LockNative, GoTo, Runs, InNative
<1>6. ASSUME NEW w \in Worker, RequestToPause(w) PROVE NativeInv'
  BY <1>6 DEF RequestToPause, GoTo, Runs, LocalsInv
<1>7. ASSUME NEW w \in Worker, Pause(w) \/ Arm(w) \/ Deployed(w) \/ Deploy(w) PROVE NativeInv'
  BY <1>7, SMTT(20) DEF Pause, Arm, Deployed, Deploy, GoTo, nativeVars, Runs
<1>8. ASSUME NEW w \in Worker, NativeThrows(w) PROVE NativeInv'
  BY <1>8 DEF NativeThrows, GoTo, Runs, LocalsInv
<1>9. ASSUME NEW w \in Worker, LeaveNative(w) PROVE NativeInv'
  BY <1>9 DEF LeaveNative, GoTo, Runs, LocalsInv
<1>10. ASSUME NEW w \in Worker, PostProcess(w) PROVE NativeInv'
  BY <1>10 DEF PostProcess, GoTo, Enqueue, nativeVars, Runs, LocalsInv
<1>11. ASSUME NEW w \in Worker, UnlockNative(w) PROVE NativeInv'
  BY <1>11 DEF UnlockNative, GoTo, Runs, LocalsInv
<1>12. ASSUME NEW w \in Worker, FinishScript(w) PROVE NativeInv'
  BY <1>12 DEF FinishScript, Finish, GoTo, nativeVars, Runs, LocalsInv
<1>13. ASSUME NEW w \in Worker, UpdateResult(w) PROVE NativeInv'
  BY <1>13 DEF UpdateResult, GoTo, nativeVars, Runs
<1>14. ASSUME NEW o \in Process, ResumeAtOnce(o) PROVE NativeInv'
  <2>1. rthread[o] \in Thread /\ Stops(rthread[o])
    BY <1>14, WakeStops DEF ResumeAtOnce
  <2>2. \A w \in Worker : pc[w] \in {"pausing", "asked"} => running[w] # rthread[o]
    BY <2>1 DEF Stops, Runs
  <2>. QED BY <1>14, <2>2 DEF ResumeAtOnce, runVars, Runs
<1>15. ASSUME NEW o \in Process, ResumeEnqueue(o) PROVE NativeInv'
  <2>1. rthread[o] \in Thread
    BY <1>15, WakeStops DEF ResumeEnqueue
  <2>. QED BY <1>15, <2>1 DEF ResumeEnqueue, Enqueue, nativeVars, Runs
<1>16. CASE UNCHANGED <<runVars, nativeVars>>
  BY <1>1, <1>16 DEF runVars, nativeVars
<1>17. ASSUME NEW o \in Process, Resume(o) PROVE NativeInv'
  BY <1>17, <1>14, <1>15, <1>16 DEF Resume, Unlock, ResumeLookUp, ResumeErase
<1>18. ASSUME NEW w \in Worker, NativeCall(w) PROVE NativeInv'
  BY <1>18, <1>4, <1>5, <1>6, <1>7, <1>8, <1>9, <1>10, <1>11 DEF NativeCall
<1>19. CASE WaitingNext
  BY <1>19, <1>1, <1>2, <1>3, <1>17, <1>18 DEF WaitingNext, LoopEnds, nativeVars
<1>20. ASSUME NEW w \in Worker, Watcher(w) PROVE NativeInv'
  BY <1>20, <1>16 DEF Watcher, LockTriggered, Unregister, Trigger, Resumed, ReleaseTriggered,
                      Recycle, waitVars
<1>21. ASSUME NEW w \in Worker, Wait(w) PROVE NativeInv'
  BY <1>21, <1>7, <1>16 DEF Wait, Activate, waitVars
<1>22. ASSUME NEW w \in Worker, EndOfScript(w) PROVE NativeInv'
  BY <1>22, <1>12, <1>13, <1>16 DEF EndOfScript, NotifyNext, waitVars
<1>. QED BY <1>19, <1>20, <1>21, <1>22 DEF Next

------------------------------------------------------------------------------
(* The ids.                                                                *)

\* What pause() does to the tables, whichever of the two ways it gets the id.
LEMMA PauseTakes ==
  ASSUME ContextTypeOK, LocalsInv, IdsInv, NEW w \in Worker, Pause(w)
  PROVE  /\ newId'[w] \in WaitId /\ newId'[w] \notin InTable
         /\ newId' = [newId EXCEPT ![w] = newId'[w]]
         /\ running[w] \in Thread
         /\ waitingThreads' = [waitingThreads EXCEPT ![newId'[w]] = running[w]]
         /\ IdsInv'
<1>. DEFINE id == IF recycled = <<>> THEN Cardinality(InTable) ELSE recycled[Len(recycled)]
            L  == Len(recycled)
<1>1. /\ id \in WaitId /\ newId' = [newId EXCEPT ![w] = id]
      /\ recycled' = IF recycled = <<>> THEN recycled ELSE SubSeq(recycled, 1, L - 1)
      /\ waitingThreads' = IF id \in InTable THEN waitingThreads
                           ELSE [waitingThreads EXCEPT ![id] = running[w]]
  BY DEF Pause
<1>2. newId'[w] = id
  BY <1>1 DEF ContextTypeOK, TypeOK
<1>3. running[w] \in Thread /\ running[w] # NoThread
  BY DEF Pause, LocalsInv
<1>4. recycled \in Seq(WaitId) /\ L \in Nat /\ waitingThreads \in [WaitId -> Thread \cup {NoThread}]
  BY LenProperties DEF ContextTypeOK, TypeOK
<1>5. PICK n \in 0..MaxId + 1 : Free \cup InTable = 0..n - 1
  BY DEF IdsInv
<1>6. n \in Nat
  OBVIOUS
<1>7. CASE recycled = <<>>
  <2>1. L = 0 /\ Free = {}
    BY <1>7 DEF Free
  <2>2. InTable = 0..n - 1
    BY <2>1, <1>5
  <2>3. Cardinality(0..n - 1) = n
    <3>1. 0 \in Int /\ n - 1 \in Int
      BY <1>6
    <3>2. Cardinality(0..n - 1) = IF 0 > n - 1 THEN 0 ELSE n - 1 - 0 + 1
      BY <3>1, FS_Interval
    <3>. QED BY <3>2, <1>6
  <2>4. id = n
    BY <2>2, <2>3, <1>7
  <2>5. id \notin InTable
    BY <2>2, <2>4, <1>6
  <2>6. waitingThreads' = [waitingThreads EXCEPT ![id] = running[w]]
    BY <1>1, <2>5
  <2>7. InTable' = InTable \cup {id}
    BY <2>6, <1>1, <1>3, <1>4 DEF InTable
  <2>8. recycled' = <<>> /\ Free' = {}
    BY <1>1, <1>7 DEF Free
  <2>9. n + 1 \in 0..MaxId + 1 /\ Free' \cup InTable' = 0..(n + 1) - 1
    BY <2>2, <2>4, <2>7, <2>8, <1>1, <1>6 DEF WaitId
  <2>10. IdsInv'
    BY <2>8, <2>9 DEF IdsInv
  <2>. QED BY <1>1, <1>2, <1>3, <2>5, <2>6, <2>10
<1>8. CASE recycled # <<>>
  <2>1. L \in Nat \ {0} /\ id = recycled[L]
    BY <1>4, <1>8, EmptySeq
  <2>2. id \in Free
    BY <2>1 DEF Free
  <2>3. id \notin InTable
    BY <2>2 DEF IdsInv
  <2>4. waitingThreads' = [waitingThreads EXCEPT ![id] = running[w]]
    BY <1>1, <2>3
  <2>5. InTable' = InTable \cup {id}
    BY <2>4, <1>1, <1>3, <1>4 DEF InTable
  <2>6. /\ Len(recycled') = L - 1
        /\ \A i \in 1..L - 1 : recycled'[i] = recycled[i]
    <3>1. 1 \in Int /\ L - 1 \in Int /\ \A i \in 1..L - 1 : recycled[i] \in WaitId
      BY <1>4, <2>1, ElementOfSeq
    <3>2. recycled' = SubSeq(recycled, 1, L - 1)
      BY <1>1, <1>8
    <3>3. /\ Len(SubSeq(recycled, 1, L - 1)) = IF 1 <= L - 1 THEN L - 1 - 1 + 1 ELSE 0
          /\ \A i \in 1..(L - 1 - 1 + 1) : SubSeq(recycled, 1, L - 1)[i] = recycled[1 + i - 1]
      BY <3>1, SubSeqProperties
    <3>4. L - 1 - 1 + 1 = L - 1 /\ \A i \in 1..L - 1 : (1 + i) - 1 = i
      BY <2>1
    <3>. HIDE DEF L
    <3>. QED BY <3>2, <3>3, <3>4, <2>1
  <2>7. Free' = Free \ {id}
    BY <2>1, <2>6, <1>4 DEF Free, IdsInv
  <2>8. Free' \cap InTable' = {} /\ Free' \cup InTable' = 0..n - 1
    BY <2>2, <2>3, <2>5, <2>7, <1>5 DEF IdsInv
  <2>9. \A j, k \in 1..Len(recycled') : recycled'[j] = recycled'[k] => j = k
    BY <2>1, <2>6 DEF IdsInv
  <2>10. IdsInv'
    BY <2>8, <2>9 DEF IdsInv
  <2>. QED BY <1>1, <1>2, <1>3, <2>3, <2>4, <2>10
<1>. QED BY <1>7, <1>8

\* resume() gives an id in the table back.
LEMMA EraseGives ==
  ASSUME ContextTypeOK, IdsInv, NEW o \in Process, ResumeErase(o), rid[o] \in InTable
  PROVE  IdsInv'
<1>. DEFINE L == Len(recycled)
<1>1. rid[o] \in WaitId /\ recycled \in Seq(WaitId) /\ L \in Nat
  BY LenProperties DEF ContextTypeOK, TypeOK
<1>2. /\ Len(recycled') = L + 1
      /\ \A i \in 1..L + 1 : recycled'[i] = IF i = L + 1 THEN rid[o] ELSE recycled[i]
  BY <1>1 DEF ResumeErase
<1>3. Free' = Free \cup {rid[o]}
  BY <1>1, <1>2 DEF Free
<1>4. InTable' = InTable \ {rid[o]}
  BY <1>1 DEF ResumeErase, InTable, ContextTypeOK, TypeOK
<1>5. rid[o] \notin Free
  BY DEF IdsInv
<1>6. \A i \in 1..L : recycled[i] # rid[o]
  BY <1>5 DEF Free
<1>7. \A j, k \in 1..Len(recycled') : recycled'[j] = recycled'[k] => j = k
  BY <1>1, <1>2, <1>6 DEF IdsInv
<1>8. Free' \cap InTable' = {} /\ Free' \cup InTable' = Free \cup InTable
  BY <1>3, <1>4 DEF IdsInv
<1>. QED BY <1>7, <1>8 DEF IdsInv

LEMMA IdsStep ==
  ASSUME ContextTypeOK, LocalsInv, IdsInv, OwnedInv, Next
  PROVE  IdsInv'
<1>1. CASE UNCHANGED <<waitingThreads, recycled>>
  BY <1>1 DEF IdsInv, Free, InTable
<1>2. ASSUME NEW w \in Worker, Pause(w) PROVE IdsInv'
  BY <1>2, PauseTakes
<1>3. ASSUME NEW o \in Process, ResumeErase(o) PROVE IdsInv'
  <2>1. rid[o] \in WaitId /\ Resuming(o, rid[o])
    BY <1>3 DEF ResumeErase, Resuming, ContextTypeOK, TypeOK
  <2>2. rid[o] \in InTable
    BY <2>1 DEF OwnedInv
  <2>. QED BY <1>3, <2>2, EraseGives
<1>4. ASSUME NEW w \in Worker, NativeCall(w) PROVE IdsInv'
  BY <1>4, <1>1, <1>2 DEF NativeCall, EnterNative, LockNative, RequestToPause, Arm,
     NativeThrows, LeaveNative, PostProcess, UnlockNative, tableVars
<1>5. ASSUME NEW o \in Process, Resume(o) PROVE IdsInv'
  BY <1>5, <1>1, <1>3 DEF Resume, Unlock, ResumeLookUp, ResumeAtOnce, ResumeEnqueue, tableVars
<1>6. CASE WaitingNext
  BY <1>6, <1>1, <1>4, <1>5 DEF WaitingNext, LoopEnds, Dispatch, Yield, tableVars
<1>7. ASSUME NEW w \in Worker, Watcher(w) \/ Wait(w) \/ EndOfScript(w) PROVE IdsInv'
  BY <1>7, <1>1 DEF Watcher, LockTriggered, Unregister, Trigger, Resumed, ReleaseTriggered,
     Recycle, Wait, Deploy, Activate, Deployed, EndOfScript, UpdateResult, FinishScript,
     Finish, NotifyNext, waitVars, tableVars
<1>. QED BY <1>6, <1>7 DEF Next

------------------------------------------------------------------------------
(* Who holds an id.                                                        *)

ownedVars == <<pc, newId, waitingThreads, running, armed, rpc, rid, rthread,
               waitingId, result>>

\* A worker that has got no id goes on, or gives up the one it has got.
LEMMA OwnedMoves ==
  ASSUME ContextTypeOK, LocalsInv, OwnedInv, NEW w \in Worker, pc'[w] # "asked",
         \A v \in Worker : v # w =>
           pc'[v] = pc[v] /\ running'[v] = running[v] /\ newId'[v] = newId[v],
         UNCHANGED <<waitingThreads, armed, rpc, rid, rthread, waitingId, result>>
  PROVE  OwnedInv'
<1>1. ASSUME NEW v \in Worker, NEW i \in WaitId, Asked(v, i)'
      PROVE  /\ (waitingThreads[i] = running[v])' /\ (i \notin armed)'
             /\ \A o \in Process : ~ Resuming(o, i)'
             /\ \A t \in Thread : ~ Awaiting(t, i)'
  <2>1. v # w /\ Asked(v, i)
    BY <1>1 DEF Asked
  <2>. QED BY <2>1 DEF OwnedInv, Resuming, Awaiting
<1>. QED BY <1>1 DEF OwnedInv, Resuming, Awaiting, InTable

\* Triggering a context hands its id over to resume().
LEMMA TriggerOwned ==
  ASSUME ContextTypeOK, LocalsInv, OwnedInv, ContextInv, NEW w \in Worker, Trigger(w)
  PROVE  LET t == wthread[w] IN
         /\ t \in Thread /\ waitingId[t] \in WaitId /\ Awaiting(t, waitingId[t])
         /\ rpc[w] = "none" /\ rpc' = [rpc EXCEPT ![w] = "lookup"]
         /\ rid' = [rid EXCEPT ![w] = waitingId[t]] /\ rthread' = rthread
         /\ result' = [result EXCEPT ![t] = wtarget[w]] /\ wtarget[w] \in Async
         /\ OwnedInv'
<1>. DEFINE t == wthread[w]
            i == waitingId[t]
<1>1. /\ wpc[w] = "unregister" /\ rpc[w] = "none" /\ rpc' = [rpc EXCEPT ![w] = "lookup"]
      /\ rid' = [rid EXCEPT ![w] = i] /\ rthread' = rthread
      /\ result' = [result EXCEPT ![t] = wtarget[w]]
      /\ UNCHANGED <<pc, newId, waitingThreads, running, armed, waitingId>>
  BY DEF Trigger, CallResume, runVars, nativeVars, tableVars
<1>2. t \in Thread /\ wtarget[w] \in Async /\ wtarget[w] # NoThread /\ t # NoThread
  BY <1>1 DEF LocalsInv
<1>4. i # NotDeployed /\ i \in WaitId
  BY <1>1, <1>2 DEF ContextInv, FreshInv, ContextTypeOK, NotDeployed, WaitId
<1>5. Awaiting(t, i)
  BY <1>1, <1>2 DEF ContextInv, FirstInv, Awaiting
<1>6. waitingThreads[i] = t /\ i \notin armed
  BY <1>2, <1>4, <1>5 DEF OwnedInv
<1>7. \A o \in Process : ~ Resuming(o, i)
  BY <1>2, <1>4, <1>5 DEF OwnedInv
<1>8. \A v \in Worker : ~ Asked(v, i)
  BY <1>2, <1>4, <1>5 DEF OwnedInv
<1>9. \A q \in Thread, j \in WaitId :
        Awaiting(q, j)' <=> Awaiting(q, j) /\ q # t
  BY <1>1, <1>2 DEF Awaiting, ContextTypeOK
<1>10. w \in Process
  BY DEF Process
<1>11. \A o \in Process, j \in WaitId :
        Resuming(o, j)' <=> (o = w /\ j = i) \/ (o # w /\ Resuming(o, j))
  BY <1>1, <1>4, <1>10 DEF Resuming, ContextTypeOK, TypeOK
<1>12. \A j \in WaitId : Awaiting(t, j) => j = i
  BY DEF Awaiting
<1>13. \A v \in Worker, j \in WaitId : Asked(v, j)' <=> Asked(v, j)
  BY <1>1 DEF Asked
<1>14. \A q \in Thread : Awaiting(q, i) => q = t
  BY <1>4, <1>6 DEF OwnedInv
<1>15. ASSUME NEW v \in Worker, NEW j \in WaitId, Asked(v, j)'
       PROVE  /\ (waitingThreads[j] = running[v])' /\ (j \notin armed)'
              /\ \A o \in Process : ~ Resuming(o, j)'
              /\ \A q \in Thread : ~ Awaiting(q, j)'
  BY <1>1, <1>8, <1>9, <1>11, <1>13, <1>15 DEF OwnedInv
<1>16. ASSUME NEW j \in armed'
       PROVE  /\ (j \in InTable)'
              /\ \A o \in Process : ~ Resuming(o, j)'
              /\ \A q \in Thread : ~ Awaiting(q, j)'
  <2>1. j \in armed /\ j \in WaitId
    BY <1>1 DEF ContextTypeOK, TypeOK
  <2>. QED BY <2>1, <1>1, <1>6, <1>9, <1>11 DEF OwnedInv, InTable
<1>17. ASSUME NEW o \in Process, NEW j \in WaitId, Resuming(o, j)'
       PROVE  /\ (j \in InTable)'
              /\ (rpc[o] = "wake" => rthread[o] = waitingThreads[j])'
              /\ \A q \in Process : Resuming(q, j)' => q = o
              /\ \A q \in Thread : ~ Awaiting(q, j)'
  <2>1. CASE o = w /\ j = i
    BY <2>1, <1>1, <1>2, <1>4, <1>6, <1>7, <1>9, <1>10, <1>11, <1>14
       DEF InTable, ContextTypeOK, TypeOK
  <2>2. CASE o # w /\ Resuming(o, j)
    BY <2>2, <1>1, <1>7, <1>9, <1>10, <1>11 DEF OwnedInv, InTable, ContextTypeOK, TypeOK
  <2>. QED BY <2>1, <2>2, <1>11, <1>17
<1>18. ASSUME NEW q \in Thread, NEW j \in WaitId, Awaiting(q, j)'
       PROVE  (waitingThreads[j] = q)'
  BY <1>1, <1>9, <1>18 DEF OwnedInv
<1>19. OwnedInv'
  BY <1>15, <1>16, <1>17, <1>18 DEF OwnedInv
<1>. QED BY <1>1, <1>2, <1>4, <1>5, <1>19

LEMMA OwnedStep ==
  ASSUME ContextTypeOK, LocalsInv, RunInv, IdsInv, OwnedInv, LiveInv, ContextInv, Next
  PROVE  OwnedInv'
<1>. USE DEF ContextTypeOK, TypeOK
<1>0. CASE UNCHANGED ownedVars
  BY <1>0 DEF ownedVars, OwnedInv, Asked, Resuming, Awaiting, InTable
<1>1. ASSUME NEW w \in Worker,
             \/ \E t \in Thread : Dispatch(w, t)
             \/ Yield(w) \/ EnterNative(w) \/ LockNative(w) \/ RequestToPause(w)
             \/ NativeThrows(w) \/ LeaveNative(w) \/ PostProcess(w) \/ UnlockNative(w),
             UNCHANGED <<waitingId, result>>
      PROVE  OwnedInv'
  <2>1. /\ pc'[w] # "asked"
        /\ \A v \in Worker : v # w =>
             pc'[v] = pc[v] /\ running'[v] = running[v] /\ newId'[v] = newId[v]
        /\ UNCHANGED <<waitingThreads, armed, rpc, rid, rthread>>
    BY <1>1 DEF Dispatch, Yield, EnterNative, LockNative, RequestToPause, NativeThrows,
       LeaveNative, PostProcess, UnlockNative, GoTo, nativeVars, tableVars, resumeVars
  <2>. QED BY <1>1, <2>1, OwnedMoves
<1>2. ASSUME NEW w \in Worker, Deployed(w) \/ UpdateResult(w) \/ FinishScript(w) PROVE OwnedInv'
  <2>1. /\ pc'[w] # "asked"
        /\ \A v \in Worker : v # w =>
             pc'[v] = pc[v] /\ running'[v] = running[v] /\ newId'[v] = newId[v]
        /\ UNCHANGED <<waitingThreads, armed, rpc, rid, rthread, waitingId, result>>
    BY <1>2 DEF Deployed, UpdateResult, FinishScript, Finish, GoTo, nativeVars, tableVars,
       resumeVars, contextVars
  <2>. QED BY <1>2, <2>1, OwnedMoves
<1>3. ASSUME NEW w \in Worker, Pause(w), UNCHANGED <<waitingId, result>> PROVE OwnedInv'
  <2>. DEFINE i == newId'[w]
  <2>1. /\ i \in WaitId /\ i \notin InTable
        /\ newId' = [newId EXCEPT ![w] = i]
        /\ running[w] \in Thread
        /\ waitingThreads' = [waitingThreads EXCEPT ![i] = running[w]]
    BY <1>3, PauseTakes
  <2>2. /\ pc' = [pc EXCEPT ![w] = "asked"]
        /\ UNCHANGED <<running, armed, rpc, rid, rthread>>
    BY <1>3 DEF Pause, GoTo, resumeVars
  <2>3. waitingThreads[i] = NoThread
    BY <2>1 DEF InTable
  <2>. HIDE DEF i
  <2>4. /\ i \notin armed /\ \A o \in Process : ~ Resuming(o, i)
        /\ \A t \in Thread : ~ Awaiting(t, i)
    BY <2>1, <2>3 DEF OwnedInv
  <2>5. \A v \in Worker : ~ Asked(v, i)
    <3>1. ASSUME NEW v \in Worker, Asked(v, i) PROVE FALSE
      <4>1. waitingThreads[i] = running[v] /\ running[v] \in Thread
        BY <2>1, <3>1 DEF OwnedInv, Asked, LocalsInv
      <4>. QED BY <4>1, <2>3
    <3>. QED BY <3>1
  <2>6. \A v \in Worker, j \in WaitId :
          Asked(v, j)' <=> (v = w /\ j = i) \/ (v # w /\ Asked(v, j))
    BY <2>1, <2>2 DEF Asked
  <2>7. \A j \in WaitId : waitingThreads'[j] = IF j = i THEN running[w] ELSE waitingThreads[j]
    BY <2>1
  <2>8. \A j \in WaitId : (j \in InTable)' <=> j = i \/ j \in InTable
    BY <2>1, <2>7 DEF InTable
  <2>9. /\ \A o \in Process, j \in WaitId : Resuming(o, j)' <=> Resuming(o, j)
        /\ \A t \in Thread, j \in WaitId : Awaiting(t, j)' <=> Awaiting(t, j)
    BY <1>3, <2>2 DEF Resuming, Awaiting
  <2>10. i \in WaitId /\ armed \subseteq WaitId
    BY <2>1
  <2>11. \A o \in Process, j \in WaitId : Resuming(o, j) => j # i
    BY <2>4
  <2>12. \A t \in Thread, j \in WaitId : Awaiting(t, j) => j # i
    BY <2>4
  <2>13. ASSUME NEW v \in Worker, NEW j \in WaitId, Asked(v, j)'
         PROVE  /\ (waitingThreads[j] = running[v])' /\ (j \notin armed)'
                /\ \A o \in Process : ~ Resuming(o, j)'
                /\ \A t \in Thread : ~ Awaiting(t, j)'
    <3>1. CASE v = w /\ j = i
      BY <3>1, <2>2, <2>4, <2>7, <2>9, <2>10
    <3>2. CASE v # w /\ Asked(v, j)
      BY <3>2, <2>2, <2>5, <2>7, <2>9 DEF OwnedInv
    <3>. QED BY <2>6, <2>13, <3>1, <3>2
  <2>14. ASSUME NEW j \in armed'
         PROVE  /\ (j \in InTable)'
                /\ \A o \in Process : ~ Resuming(o, j)'
                /\ \A t \in Thread : ~ Awaiting(t, j)'
    BY <2>2, <2>8, <2>9, <2>10 DEF OwnedInv
  <2>15. ASSUME NEW o \in Process, NEW j \in WaitId, Resuming(o, j)'
         PROVE  /\ (j \in InTable)'
                /\ (rpc[o] = "wake" => rthread[o] = waitingThreads[j])'
                /\ \A q \in Process : Resuming(q, j)' => q = o
                /\ \A q \in Thread : ~ Awaiting(q, j)'
    <3>1. Resuming(o, j) /\ j # i
      BY <2>9, <2>11, <2>15
    <3>2. waitingThreads'[j] = waitingThreads[j] /\ (j \in InTable)'
      BY <3>1, <2>7, <2>8 DEF OwnedInv
    <3>. QED BY <3>1, <3>2, <2>2, <2>9 DEF OwnedInv
  <2>16. ASSUME NEW t \in Thread, NEW j \in WaitId, Awaiting(t, j)'
         PROVE  (waitingThreads[j] = t)'
    BY <2>7, <2>9, <2>12, <2>16 DEF OwnedInv
  <2>. QED BY <2>13, <2>14, <2>15, <2>16 DEF OwnedInv
<1>4. ASSUME NEW w \in Worker, Arm(w), UNCHANGED <<waitingId, result>> PROVE OwnedInv'
  <2>1. /\ pc[w] = "asked" /\ pc' = [pc EXCEPT ![w] = "native"]
        /\ armed' = armed \cup {newId[w]}
        /\ UNCHANGED <<running, newId, waitingThreads, rpc, rid, rthread>>
    BY <1>4 DEF Arm, GoTo, nativeVars, resumeVars
  <2>2. newId[w] \in WaitId /\ Asked(w, newId[w])
    BY <2>1 DEF Asked
  <2>3. running[w] \in Thread /\ waitingThreads[newId[w]] = running[w]
    BY <2>1, <2>2 DEF OwnedInv, LocalsInv
  <2>4. \A v \in Worker : v # w => ~ Asked(v, newId[w])
    <3>1. ASSUME NEW v \in Worker, v # w, Asked(v, newId[w]) PROVE FALSE
      <4>1. running[v] = running[w]
        BY <2>2, <2>3, <3>1 DEF OwnedInv
      <4>2. Runs(v, running[w]) /\ Runs(w, running[w])
        BY <2>1, <3>1, <4>1 DEF Runs, Asked
      <4>. QED BY <3>1, <4>2, <2>3 DEF RunInv
    <3>. QED BY <3>1
  <2>5. \A v \in Worker, j \in WaitId : Asked(v, j)' <=> v # w /\ Asked(v, j)
    BY <2>1 DEF Asked
  <2>6. /\ \A o \in Process, j \in WaitId : Resuming(o, j)' <=> Resuming(o, j)
        /\ \A t \in Thread, j \in WaitId : Awaiting(t, j)' <=> Awaiting(t, j)
        /\ InTable' = InTable /\ newId[w] \in InTable
    BY <1>4, <2>1, <2>2, <2>3 DEF Resuming, Awaiting, InTable
  <2>. QED BY <2>1, <2>2, <2>4, <2>5, <2>6 DEF OwnedInv
<1>5. ASSUME NEW w \in Worker, Deploy(w) PROVE OwnedInv'
  <2>. DEFINE t == running[w]
  <2>1. /\ pc[w] = "asked" /\ pc' = [pc EXCEPT ![w] = "deploy"]
        /\ waitingId[t] = NotDeployed
        /\ waitingId' = [waitingId EXCEPT ![t] = newId[w]]
        /\ UNCHANGED <<running, newId, waitingThreads, armed, rpc, rid, rthread, result>>
    BY <1>5 DEF Deploy, GoTo, nativeVars, tableVars, resumeVars
  <2>2. newId[w] \in WaitId /\ Asked(w, newId[w])
    BY <2>1 DEF Asked
  <2>3. t \in Thread /\ waitingThreads[newId[w]] = t
    BY <2>1, <2>2 DEF OwnedInv, LocalsInv
  <2>4. \A v \in Worker : v # w => ~ Asked(v, newId[w])
    <3>1. ASSUME NEW v \in Worker, v # w, Asked(v, newId[w]) PROVE FALSE
      <4>1. running[v] = running[w]
        BY <2>2, <2>3, <3>1 DEF OwnedInv
      <4>2. Runs(v, running[w]) /\ Runs(w, running[w])
        BY <2>1, <3>1, <4>1 DEF Runs, Asked
      <4>. QED BY <3>1, <4>2, <2>3 DEF RunInv
    <3>. QED BY <3>1
  <2>5. \A v \in Worker, j \in WaitId : Asked(v, j)' <=> v # w /\ Asked(v, j)
    BY <2>1 DEF Asked
  <2>6. \A q \in Thread, j \in WaitId :
          Awaiting(q, j)' => (q = t /\ j = newId[w]) \/ (q # t /\ Awaiting(q, j))
    BY <2>1, <2>3 DEF Awaiting
  <2>7. /\ \A o \in Process, j \in WaitId : Resuming(o, j)' <=> Resuming(o, j)
        /\ InTable' = InTable
    BY <2>1 DEF Resuming, InTable
  <2>. QED BY <2>1, <2>2, <2>3, <2>4, <2>5, <2>6, <2>7 DEF OwnedInv
<1>6. ASSUME NEW o \in Process, NEW i \in WaitId, Unlock(o, i), UNCHANGED <<waitingId, result>>
      PROVE  OwnedInv'
  <2>1. /\ i \in armed /\ rpc[o] = "none" /\ rpc' = [rpc EXCEPT ![o] = "lookup"]
        /\ rid' = [rid EXCEPT ![o] = i] /\ armed' = armed \ {i}
        /\ UNCHANGED <<pc, newId, waitingThreads, running, rthread>>
    BY <1>6 DEF Unlock, CallResume, runVars, nativeVars
  <2>2. \A q \in Process, j \in WaitId :
          Resuming(q, j)' <=> (q = o /\ j = i) \/ (q # o /\ Resuming(q, j))
    BY <2>1 DEF Resuming
  <2>3. /\ \A v \in Worker, j \in WaitId : Asked(v, j)' <=> Asked(v, j)
        /\ \A t \in Thread, j \in WaitId : Awaiting(t, j)' <=> Awaiting(t, j)
        /\ InTable' = InTable
    BY <1>6, <2>1 DEF Asked, Awaiting, InTable
  <2>. QED BY <2>1, <2>2, <2>3 DEF OwnedInv
<1>7. ASSUME NEW o \in Process, ResumeLookUp(o), UNCHANGED <<waitingId, result>> PROVE OwnedInv'
  <2>1. /\ rpc[o] = "lookup"
        /\ rpc' = [rpc EXCEPT ![o] = IF waitingThreads[rid[o]] = NoThread THEN "none" ELSE "wake"]
        /\ rthread' = [rthread EXCEPT ![o] = waitingThreads[rid[o]]]
        /\ UNCHANGED <<pc, newId, waitingThreads, running, armed, rid>>
    BY <1>7 DEF ResumeLookUp, runVars, nativeVars, tableVars
  <2>2. \A q \in Process, j \in WaitId : Resuming(q, j)' => Resuming(q, j)
    BY <2>1 DEF Resuming
  <2>3. \A q \in Process, j \in WaitId :
          Resuming(q, j)' /\ rpc'[q] = "wake" =>
            rthread'[q] = IF q = o THEN waitingThreads[j] ELSE rthread[q]
    BY <2>1 DEF Resuming
  <2>4. /\ \A v \in Worker, j \in WaitId : Asked(v, j)' <=> Asked(v, j)
        /\ \A t \in Thread, j \in WaitId : Awaiting(t, j)' <=> Awaiting(t, j)
        /\ InTable' = InTable
    BY <1>7, <2>1 DEF Asked, Awaiting, InTable
  <2>. QED BY <2>1, <2>2, <2>3, <2>4 DEF OwnedInv
<1>8. ASSUME NEW o \in Process, ResumeAtOnce(o) \/ ResumeEnqueue(o), UNCHANGED <<waitingId, result>>
      PROVE  OwnedInv'
  <2>1. /\ rpc[o] = "wake" /\ rpc' = [rpc EXCEPT ![o] = "erase"]
        /\ UNCHANGED <<pc, newId, waitingThreads, running, armed, rid, rthread>>
    BY <1>8 DEF ResumeAtOnce, ResumeEnqueue, runVars, nativeVars, tableVars
  <2>2. \A q \in Process, j \in WaitId : Resuming(q, j)' <=> Resuming(q, j)
    BY <2>1 DEF Resuming
  <2>3. /\ \A v \in Worker, j \in WaitId : Asked(v, j)' <=> Asked(v, j)
        /\ \A t \in Thread, j \in WaitId : Awaiting(t, j)' <=> Awaiting(t, j)
        /\ InTable' = InTable
    BY <1>8, <2>1 DEF Asked, Awaiting, InTable
  <2>. QED BY <2>1, <2>2, <2>3 DEF OwnedInv
<1>9. ASSUME NEW o \in Process, ResumeErase(o), UNCHANGED <<waitingId, result>> PROVE OwnedInv'
  <2>. DEFINE i == rid[o]
  <2>1. /\ rpc[o] = "erase" /\ rpc' = [rpc EXCEPT ![o] = "none"]
        /\ waitingThreads' = [waitingThreads EXCEPT ![i] = NoThread]
        /\ rid' = [rid EXCEPT ![o] = 0] /\ rthread' = [rthread EXCEPT ![o] = NoThread]
        /\ UNCHANGED <<pc, newId, running, armed>>
    BY <1>9 DEF ResumeErase, runVars, nativeVars
  <2>2. i \in WaitId /\ Resuming(o, i)
    BY <2>1 DEF Resuming
  <2>. HIDE DEF i
  <2>3. \A q \in Process, j \in WaitId : Resuming(q, j)' <=> q # o /\ Resuming(q, j)
    BY <2>1 DEF Resuming
  <2>4. \A q \in Process : q # o => ~ Resuming(q, i)
    BY <2>2 DEF OwnedInv
  <2>5. /\ \A t \in Thread : ~ Awaiting(t, i)
        /\ i \notin armed /\ \A v \in Worker : ~ Asked(v, i)
    BY <2>2 DEF OwnedInv
  <2>6. /\ \A v \in Worker, j \in WaitId : Asked(v, j)' <=> Asked(v, j)
        /\ \A t \in Thread, j \in WaitId : Awaiting(t, j)' <=> Awaiting(t, j)
        /\ \A j \in WaitId : j # i => waitingThreads'[j] = waitingThreads[j]
        /\ \A j \in WaitId : j # i => ((j \in InTable)' <=> j \in InTable)
    BY <1>9, <2>1 DEF Asked, Awaiting, InTable
  <2>7. \A q \in Process : q # o => rpc'[q] = rpc[q] /\ rthread'[q] = rthread[q]
    BY <2>1
  <2>8. armed' = armed /\ running' = running /\ armed \subseteq WaitId
    BY <2>1
  <2>. QED BY <2>3, <2>4, <2>5, <2>6, <2>7, <2>8 DEF OwnedInv
<1>10. ASSUME NEW w \in Worker, Trigger(w) PROVE OwnedInv'
  BY <1>10, TriggerOwned
<1>11. ASSUME NEW w \in Worker, NativeCall(w), UNCHANGED <<waitingId, result>> PROVE OwnedInv'
  BY <1>11, <1>1, <1>3, <1>4 DEF NativeCall
<1>12. ASSUME NEW o \in Process, Resume(o), UNCHANGED <<waitingId, result>> PROVE OwnedInv'
  BY <1>12, <1>6, <1>7, <1>8, <1>9 DEF Resume
<1>13. CASE WaitingNext /\ UNCHANGED <<eventVars, contextVars, watcherVars>>
  <2>1. UNCHANGED <<waitingId, result>>
    BY <1>13 DEF contextVars
  <2>2. CASE LoopEnds
    BY <2>1, <2>2, <1>0 DEF LoopEnds, ownedVars, nativeVars, tableVars, resumeVars
  <2>. QED BY <1>13, <2>1, <2>2, <1>1, <1>11, <1>12 DEF WaitingNext
<1>14. ASSUME NEW w \in Worker, Watcher(w) PROVE OwnedInv'
  BY <1>14, <1>0, <1>10 DEF Watcher, LockTriggered, Unregister, Resumed, ReleaseTriggered, Recycle,
     ownedVars, waitVars, runVars, nativeVars, tableVars, resumeVars, contextVars
<1>15. ASSUME NEW w \in Worker, Wait(w) PROVE OwnedInv'
  BY <1>15, <1>0, <1>2, <1>5 DEF Wait, Activate, ownedVars, waitVars, runVars, nativeVars,
     tableVars, resumeVars
<1>16. ASSUME NEW w \in Worker, EndOfScript(w) PROVE OwnedInv'
  BY <1>16, <1>0, <1>2 DEF EndOfScript, NotifyNext, ownedVars, waitVars, runVars, nativeVars,
     tableVars, resumeVars, contextVars
<1>. QED BY <1>13, <1>14, <1>15, <1>16 DEF Next

------------------------------------------------------------------------------
(* Every thread that stops has an id of its own, with which it is resumed.  *)

LEMMA LiveFrame ==
  ASSUME LiveInv,
         \A i \in WaitId : Live(i)' <=> Live(i),
         \A i \in WaitId : Live(i) => waitingThreads'[i] = waitingThreads[i],
         \A t \in Thread : Stops(t)' <=> Stops(t)
  PROVE  LiveInv'
BY DEF LiveInv

LEMMA LiveBegins ==
  ASSUME LiveInv, NEW t \in Thread, NEW i \in WaitId,
         waitingThreads[i] = t, waitingThreads' = waitingThreads, ~ Stops(t), ~ Live(i),
         \A j \in WaitId : Live(j)' <=> Live(j) \/ j = i,
         \A q \in Thread : Stops(q)' <=> Stops(q) \/ q = t
  PROVE  LiveInv'
BY DEF LiveInv

LEMMA LiveEnds ==
  ASSUME LiveInv, NEW t \in Thread, NEW i \in WaitId,
         waitingThreads[i] = t, waitingThreads' = waitingThreads, Live(i),
         \A j \in WaitId : Live(j)' <=> Live(j) /\ j # i,
         \A q \in Thread : Stops(q)' <=> Stops(q) /\ q # t
  PROVE  LiveInv'
BY DEF LiveInv

\* An id that is to wake a thread is neither new nor about to be erased.
LEMMA LiveOwned ==
  ASSUME ContextTypeOK, OwnedInv, NEW i \in WaitId, Live(i)
  PROVE  /\ i \in InTable \/ \E t \in Thread : waitingThreads[i] = t
         /\ \A w \in Worker : ~ Asked(w, i)
         /\ \A o \in Process : rpc[o] = "erase" => rid[o] # i
<1>1. CASE i \in armed
  BY <1>1 DEF OwnedInv, Resuming
<1>2. ASSUME NEW o \in Process, rpc[o] \in {"lookup", "wake"}, rid[o] = i
      PROVE  /\ i \in InTable
             /\ \A w \in Worker : ~ Asked(w, i)
             /\ \A q \in Process : rpc[q] = "erase" => rid[q] # i
  <2>1. Resuming(o, i)
    BY <1>2 DEF Resuming
  <2>2. \A q \in Process : rpc[q] = "erase" /\ rid[q] = i => Resuming(q, i) /\ q # o
    BY <1>2 DEF Resuming
  <2>. QED BY <2>1, <2>2 DEF OwnedInv
<1>3. ASSUME NEW t \in Thread, Awaiting(t, i)
      PROVE  /\ waitingThreads[i] = t
             /\ \A w \in Worker : ~ Asked(w, i)
             /\ \A q \in Process : rpc[q] = "erase" => rid[q] # i
  BY <1>3 DEF OwnedInv, Resuming
<1>. QED BY <1>1, <1>2, <1>3 DEF Live

LEMMA StopsFrame ==
  ASSUME UNCHANGED <<queue, gone, running, pc, pauseRequested>>
  PROVE  \A t \in Thread : Stops(t)' <=> Stops(t)
BY DEF Stops, Runs

\* A worker that goes on does not change whether a thread stops, unless by asking for
\* the pause, or by handing the id over that it has got for it.
StopState(w) == pc[w] \in {"native", "deploy", "left"} /\ pauseRequested[running[w]]

LEMMA StopsGoesOn ==
  ASSUME ContextTypeOK, LocalsInv, RunInv, NEW w \in Worker, NEW l \in WorkerState,
         GoesOn(w, l), StopState(w)' <=> StopState(w),
         \A t \in Thread : t # running[w] => pauseRequested'[t] = pauseRequested[t]
  PROVE  \A t \in Thread : Stops(t)' <=> Stops(t)
<1>1. /\ pc' = [pc EXCEPT ![w] = l] /\ running[w] \in Thread
      /\ pc[w] \notin {"idle", "unlock"} /\ l \notin {"idle", "unlock"}
      /\ queue' = queue /\ gone' = gone /\ running' = running
  BY DEF GoesOn, GoTo, LocalsInv
<1>2. \A v \in Worker, t \in Thread : Runs(v, t)' <=> Runs(v, t)
  BY <1>1 DEF Runs, ContextTypeOK, TypeOK
<1>3. Runs(w, running[w])
  BY <1>1 DEF Runs
<1>4. \A v \in Worker : Runs(v, running[w]) => v = w
  BY <1>1, <1>3 DEF RunInv
<1>5. \A v \in Worker : v # w => pc'[v] = pc[v]
  BY <1>1 DEF ContextTypeOK, TypeOK
<1>6. ASSUME NEW t \in Thread, t # running[w] PROVE Stops(t)' <=> Stops(t)
  <2>1. \A v \in Worker : Runs(v, t) => v # w
    BY <1>6 DEF Runs
  <2>. QED BY <1>1, <1>2, <1>5, <1>6, <2>1 DEF Stops
<1>7. ASSUME NEW t \in Thread, t = running[w] PROVE Stops(t)' <=> Stops(t)
  BY <1>1, <1>2, <1>3, <1>4, <1>7 DEF Stops, StopState
<1>. QED BY <1>6, <1>7

\* A step that neither begins nor ends a pause.
LEMMA StopsSplit ==
  ASSUME ContextTypeOK, LocalsInv, RunInv, NativeInv, Next,
         \A w \in Worker : ~ Arm(w) /\ ~ Deploy(w),
         \A o \in Process : ~ ResumeAtOnce(o) /\ ~ ResumeEnqueue(o)
  PROVE  \A t \in Thread : Stops(t)' <=> Stops(t)
<1>. DEFINE Same == \A t \in Thread : Stops(t)' <=> Stops(t)
<1>. USE DEF ContextTypeOK, TypeOK
<1>. SUFFICES Same
  OBVIOUS
<1>1. ASSUME UNCHANGED <<queue, gone, running, pc, pauseRequested>> PROVE Same
  BY <1>1, StopsFrame
<1>2. ASSUME NEW w \in Worker, NEW t \in Thread, Dispatch(w, t) PROVE Same
  <2>1. /\ pc[w] = "idle" /\ pc' = [pc EXCEPT ![w] = "script"] /\ running[w] = NoThread
        /\ queue[t] # 0 /\ queue' = [queue EXCEPT ![t] = @ - 1]
        /\ running' = [running EXCEPT ![w] = t] /\ UNCHANGED <<gone, pauseRequested>>
    BY <1>2 DEF Dispatch, GoTo, nativeVars, LocalsInv
  <2>2. ~ Stops(t) /\ ~ Stops(t)'
    BY <2>1 DEF Stops, Runs
  <2>3. ASSUME NEW q \in Thread, q # t PROVE Stops(q)' <=> Stops(q)
    <3>1. queue'[q] = queue[q]
      BY <2>1, <2>3
    <3>2. /\ \A v \in Worker : Runs(v, q)' <=> Runs(v, q)
          /\ \A v \in Worker : Runs(v, q) => pc'[v] = pc[v]
      BY <2>1, <2>3 DEF Runs
    <3>. QED BY <2>1, <3>1, <3>2 DEF Stops
  <2>. QED BY <2>2, <2>3
<1>3. ASSUME NEW w \in Worker, Yield(w) PROVE Same
  <2>. DEFINE t == running[w]
  <2>1. /\ pc[w] = "script" /\ pc' = [pc EXCEPT ![w] = "idle"] /\ t \in Thread
        /\ queue' = [queue EXCEPT ![t] = @ + 1]
        /\ running' = [running EXCEPT ![w] = NoThread] /\ UNCHANGED <<gone, pauseRequested>>
    BY <1>3 DEF Yield, Enqueue, GoTo, nativeVars, LocalsInv
  <2>2. ASSUME NEW q \in Thread, q = t PROVE ~ Stops(q) /\ ~ Stops(q)'
    <3>1. queue'[q] # 0
      BY <2>1, <2>2
    <3>2. Runs(w, q) /\ pc[w] = "script"
      BY <2>1, <2>2 DEF Runs
    <3>. QED BY <3>1, <3>2 DEF Stops
  <2>3. ASSUME NEW q \in Thread, q # t PROVE Stops(q)' <=> Stops(q)
    <3>1. queue'[q] = queue[q]
      BY <2>1, <2>3
    <3>2. /\ \A v \in Worker : Runs(v, q)' <=> Runs(v, q)
          /\ \A v \in Worker : Runs(v, q) => pc'[v] = pc[v]
      BY <2>1, <2>3 DEF Runs
    <3>. QED BY <2>1, <3>1, <3>2 DEF Stops
  <2>. QED BY <2>2, <2>3
<1>4. ASSUME NEW w \in Worker, FinishScript(w) PROVE Same
  BY <1>4 DEF FinishScript, Finish, GoTo, nativeVars, Stops, Runs, LocalsInv
<1>5. ASSUME NEW w \in Worker, UnlockNative(w) PROVE Same
  BY <1>5 DEF UnlockNative, GoTo, Stops, Runs, LocalsInv
<1>6. ASSUME NEW w \in Worker, PostProcess(w) PROVE Same
  <2>1. /\ pc[w] = "left" /\ running[w] \in Thread /\ pc' = [pc EXCEPT ![w] = "unlock"]
        /\ queue' = IF pauseRequested[running[w]] THEN queue
                    ELSE [queue EXCEPT ![running[w]] = @ + 1]
        /\ UNCHANGED <<gone, running, pauseRequested>>
    BY <1>6 DEF PostProcess, Enqueue, GoTo, nativeVars, LocalsInv
  <2>2. \A v \in Worker, t \in Thread : Runs(v, t)' <=> v # w /\ Runs(v, t)
    BY <2>1 DEF Runs, LocalsInv
  <2>3. Runs(w, running[w])
    BY <2>1 DEF Runs
  <2>4. \A v \in Worker : Runs(v, running[w]) => v = w
    BY <2>1, <2>3 DEF RunInv
  <2>5. queue[running[w]] = 0 /\ running[w] \notin gone
    BY <2>1, <2>3 DEF RunInv
  <2>6. ASSUME NEW t \in Thread, t = running[w] PROVE Stops(t)' <=> Stops(t)
    BY <2>1, <2>2, <2>3, <2>4, <2>5, <2>6 DEF Stops
  <2>7. ASSUME NEW t \in Thread, t # running[w] PROVE Stops(t)' <=> Stops(t)
    <3>1. ~ Runs(w, t) /\ queue'[t] = queue[t]
      BY <2>1, <2>7 DEF Runs
    <3>2. \A v \in Worker : v # w => pc'[v] = pc[v]
      BY <2>1
    <3>. QED BY <2>1, <2>2, <3>1, <3>2 DEF Stops
  <2>. QED BY <2>6, <2>7
<1>7. ASSUME NEW w \in Worker, NEW l \in WorkerState, GoesOn(w, l),
             StopState(w)' <=> StopState(w),
             \A t \in Thread : t # running[w] => pauseRequested'[t] = pauseRequested[t]
      PROVE  Same
  BY <1>7, StopsGoesOn
<1>8. ASSUME NEW w \in Worker, EnterNative(w) \/ Pause(w) \/ UpdateResult(w) PROVE Same
  <2>1. GoesOn(w, "enter") \/ GoesOn(w, "asked") \/ GoesOn(w, "notify")
    BY <1>8 DEF EnterNative, Pause, UpdateResult, GoesOn, GoTo, WorkerState
  <2>2. ~ StopState(w) /\ ~ StopState(w)' /\ pauseRequested' = pauseRequested
    BY <1>8 DEF EnterNative, Pause, UpdateResult, StopState, GoTo, nativeVars
  <2>. QED BY <2>1, <2>2, <1>7 DEF WorkerState
<1>9. ASSUME NEW w \in Worker, LockNative(w) \/ RequestToPause(w) PROVE Same
  <2>1. GoesOn(w, "native") \/ GoesOn(w, "pausing")
    BY <1>9 DEF LockNative, RequestToPause, GoesOn, GoTo, WorkerState
  <2>2. /\ ~ StopState(w) /\ ~ StopState(w)'
        /\ \A t \in Thread : t # running[w] => pauseRequested'[t] = pauseRequested[t]
    BY <1>9 DEF LockNative, RequestToPause, StopState, GoTo, LocalsInv
  <2>. QED BY <2>1, <2>2, <1>7 DEF WorkerState
<1>10. ASSUME NEW w \in Worker, NativeThrows(w) \/ LeaveNative(w) \/ Deployed(w) PROVE Same
  <2>1. GoesOn(w, "script") \/ GoesOn(w, "left") \/ GoesOn(w, "native")
    BY <1>10 DEF NativeThrows, LeaveNative, Deployed, GoesOn, GoTo, WorkerState
  <2>2. (StopState(w)' <=> StopState(w)) /\ pauseRequested' = pauseRequested
    BY <1>10 DEF NativeThrows, LeaveNative, Deployed, StopState, GoTo, nativeVars
  <2>. QED BY <2>1, <2>2, <1>7 DEF WorkerState
<1>11. ASSUME NEW w \in Worker, NativeCall(w) PROVE Same
  BY <1>11, <1>5, <1>6, <1>8, <1>9, <1>10 DEF NativeCall
<1>12. ASSUME NEW o \in Process, Resume(o) PROVE Same
  BY <1>12, <1>1 DEF Resume, Unlock, ResumeLookUp, ResumeErase, runVars, nativeVars
<1>13. CASE WaitingNext
  BY <1>13, <1>1, <1>2, <1>3, <1>11, <1>12 DEF WaitingNext, LoopEnds, nativeVars
<1>14. ASSUME NEW w \in Worker, Watcher(w) PROVE Same
  BY <1>14, <1>1 DEF Watcher, LockTriggered, Unregister, Trigger, Resumed, ReleaseTriggered,
     Recycle, waitVars, runVars, nativeVars
<1>15. ASSUME NEW w \in Worker, Wait(w) PROVE Same
  BY <1>15, <1>1, <1>10 DEF Wait, Activate, waitVars, runVars, nativeVars
<1>16. ASSUME NEW w \in Worker, EndOfScript(w) PROVE Same
  BY <1>16, <1>1, <1>4, <1>8 DEF EndOfScript, NotifyNext, waitVars, runVars, nativeVars
<1>. QED BY <1>13, <1>14, <1>15, <1>16 DEF Next

\* ... leaves the ids that are to wake a thread as they are, and so does every other one.
LEMMA LiveSame ==
  ASSUME ContextTypeOK, LocalsInv, IdsInv, OwnedInv, ContextInv, Next,
         \A w \in Worker : ~ Arm(w) /\ ~ Deploy(w),
         \A o \in Process : ~ ResumeAtOnce(o) /\ ~ ResumeEnqueue(o)
  PROVE  /\ \A i \in WaitId : Live(i)' <=> Live(i)
         /\ \A i \in WaitId : Live(i) => waitingThreads'[i] = waitingThreads[i]
<1>. DEFINE Same == /\ \A i \in WaitId : Live(i)' <=> Live(i)
                    /\ \A i \in WaitId : Live(i) => waitingThreads'[i] = waitingThreads[i]
<1>. USE DEF ContextTypeOK, TypeOK
<1>. SUFFICES Same
  OBVIOUS
<1>1. ASSUME UNCHANGED <<waitingThreads, armed, rpc, rid, waitingId, result>> PROVE Same
  BY <1>1 DEF Live, Awaiting
<1>2. ASSUME NEW w \in Worker, Pause(w), UNCHANGED <<waitingId, result>> PROVE Same
  <2>1. /\ newId'[w] \in WaitId /\ newId'[w] \notin InTable
        /\ waitingThreads' = [waitingThreads EXCEPT ![newId'[w]] = running[w]]
    BY <1>2, PauseTakes
  <2>2. \A i \in WaitId : Live(i)' <=> Live(i)
    BY <1>2 DEF Pause, resumeVars, Live, Awaiting
  <2>3. ASSUME NEW i \in WaitId, Live(i) PROVE i # newId'[w]
    BY <2>1, <2>3, LiveOwned DEF InTable
  <2>. QED BY <2>1, <2>2, <2>3
<1>3. ASSUME NEW o \in Process, NEW i \in WaitId, Unlock(o, i), UNCHANGED <<waitingId, result>>
      PROVE  Same
  <2>1. /\ i \in armed /\ rpc[o] = "none" /\ rpc' = [rpc EXCEPT ![o] = "lookup"]
        /\ rid' = [rid EXCEPT ![o] = i] /\ armed' = armed \ {i}
        /\ waitingThreads' = waitingThreads
    BY <1>3 DEF Unlock, CallResume
  <2>2. \A q \in Process, j \in WaitId :
          (rpc[q] \in {"lookup", "wake"} /\ rid[q] = j)' <=>
            (q = o /\ j = i) \/ (rpc[q] \in {"lookup", "wake"} /\ rid[q] = j)
    BY <2>1
  <2>3. ASSUME NEW j \in WaitId PROVE Live(j)' <=> Live(j)
    BY <1>3, <2>1, <2>2 DEF Live, Awaiting
  <2>. QED BY <2>1, <2>3
<1>4. ASSUME NEW o \in Process, ResumeLookUp(o), UNCHANGED <<waitingId, result>> PROVE Same
  <2>1. Resuming(o, rid[o]) /\ rid[o] \in WaitId
    BY <1>4 DEF ResumeLookUp, Resuming
  <2>2. waitingThreads[rid[o]] # NoThread
    BY <2>1 DEF OwnedInv, InTable
  <2>3. /\ rpc[o] = "lookup" /\ rpc' = [rpc EXCEPT ![o] = "wake"]
        /\ UNCHANGED <<waitingThreads, armed, rid>>
    BY <1>4, <2>2 DEF ResumeLookUp, tableVars
  <2>4. \A q \in Process : rpc'[q] \in {"lookup", "wake"} <=> rpc[q] \in {"lookup", "wake"}
    BY <2>3
  <2>. QED BY <1>4, <2>3, <2>4 DEF Live, Awaiting
<1>5. ASSUME NEW o \in Process, ResumeErase(o), UNCHANGED <<waitingId, result>> PROVE Same
  <2>1. /\ rpc[o] = "erase" /\ rpc' = [rpc EXCEPT ![o] = "none"]
        /\ waitingThreads' = [waitingThreads EXCEPT ![rid[o]] = NoThread]
        /\ rid' = [rid EXCEPT ![o] = 0] /\ armed' = armed
    BY <1>5 DEF ResumeErase
  <2>2. \A q \in Process, j \in WaitId :
          (rpc[q] \in {"lookup", "wake"} /\ rid[q] = j)' <=>
            (rpc[q] \in {"lookup", "wake"} /\ rid[q] = j)
    BY <2>1
  <2>3. ASSUME NEW j \in WaitId PROVE Live(j)' <=> Live(j)
    BY <1>5, <2>1, <2>2 DEF Live, Awaiting
  <2>4. ASSUME NEW j \in WaitId, Live(j) PROVE j # rid[o]
    BY <2>1, <2>4, LiveOwned
  <2>. QED BY <2>1, <2>3, <2>4
<1>6. ASSUME NEW w \in Worker, Trigger(w) PROVE Same
  <2>. DEFINE t == wthread[w]
              i == waitingId[t]
  <2>1. /\ t \in Thread /\ i \in WaitId /\ Awaiting(t, i) /\ wtarget[w] \in Async
        /\ rpc[w] = "none" /\ rpc' = [rpc EXCEPT ![w] = "lookup"]
        /\ rid' = [rid EXCEPT ![w] = i]
        /\ result' = [result EXCEPT ![t] = wtarget[w]]
    BY <1>6, TriggerOwned
  <2>2. w \in Process /\ UNCHANGED <<armed, waitingThreads, waitingId>>
    BY <1>6 DEF Trigger, tableVars, Process
  <2>3. \A q \in Process, j \in WaitId :
          (rpc[q] \in {"lookup", "wake"} /\ rid[q] = j)' <=>
            (q = w /\ j = i) \/ (rpc[q] \in {"lookup", "wake"} /\ rid[q] = j)
    BY <2>1, <2>2
  <2>4. \A q \in Thread, j \in WaitId : Awaiting(q, j)' <=> Awaiting(q, j) /\ q # t
    BY <2>1, <2>2 DEF Awaiting
  <2>5. \A j \in WaitId : Awaiting(t, j) => j = i
    BY DEF Awaiting
  <2>6. ASSUME NEW j \in WaitId PROVE Live(j)' <=> Live(j)
    BY <2>1, <2>2, <2>3, <2>4, <2>5 DEF Live
  <2>. QED BY <2>2, <2>6
<1>7. ASSUME NEW w \in Worker, NativeCall(w), UNCHANGED <<waitingId, result>> PROVE Same
  BY <1>7, <1>1, <1>2 DEF NativeCall, EnterNative, LockNative, RequestToPause, NativeThrows,
     LeaveNative, PostProcess, UnlockNative, tableVars, resumeVars
<1>8. ASSUME NEW o \in Process, Resume(o), UNCHANGED <<waitingId, result>> PROVE Same
  BY <1>8, <1>3, <1>4, <1>5 DEF Resume
<1>9. CASE WaitingNext /\ UNCHANGED <<eventVars, contextVars, watcherVars>>
  <2>1. UNCHANGED <<waitingId, result>>
    BY <1>9 DEF contextVars
  <2>. QED BY <1>9, <2>1, <1>1, <1>7, <1>8 DEF WaitingNext, LoopEnds, Dispatch, Yield,
       tableVars, resumeVars
<1>10. ASSUME NEW w \in Worker, Watcher(w) PROVE Same
  BY <1>10, <1>1, <1>6 DEF Watcher, LockTriggered, Unregister, Resumed, ReleaseTriggered,
     Recycle, waitVars, tableVars, resumeVars, contextVars
<1>11. ASSUME NEW w \in Worker, Wait(w) \/ EndOfScript(w) PROVE Same
  BY <1>11, <1>1 DEF Wait, Activate, Deployed, EndOfScript, UpdateResult, FinishScript, Finish,
     NotifyNext, waitVars, tableVars, resumeVars, contextVars
<1>. QED BY <1>9, <1>10, <1>11 DEF Next

\* With the id handed over the thread of the worker is to stop.
LEMMA StopsBegins ==
  ASSUME ContextTypeOK, LocalsInv, RunInv, NativeInv, NEW w \in Worker,
         NEW l \in {"native", "deploy"}, pc[w] = "asked", GoTo(w, l),
         UNCHANGED <<queue, gone, running, pauseRequested>>
  PROVE  /\ running[w] \in Thread /\ ~ Stops(running[w])
         /\ \A q \in Thread : Stops(q)' <=> Stops(q) \/ q = running[w]
<1>1. running[w] \in Thread /\ Runs(w, running[w]) /\ pauseRequested[running[w]]
  BY DEF LocalsInv, Runs, NativeInv
<1>2. queue[running[w]] = 0 /\ running[w] \notin gone
  BY <1>1 DEF RunInv
<1>3. \A v \in Worker : Runs(v, running[w]) => v = w
  BY <1>1 DEF RunInv
<1>4. pc' = [pc EXCEPT ![w] = l] /\ l # "unlock" /\ l # "idle"
  BY DEF GoTo
<1>5. \A v \in Worker, q \in Thread : Runs(v, q)' <=> Runs(v, q)
  BY <1>4 DEF Runs, ContextTypeOK, TypeOK
<1>6. pc'[w] = l /\ \A v \in Worker : v # w => pc'[v] = pc[v]
  BY <1>4 DEF ContextTypeOK, TypeOK
<1>7. ~ Stops(running[w])
  BY <1>1 DEF Stops
<1>8. ASSUME NEW q \in Thread, q = running[w] PROVE Stops(q)'
  BY <1>1, <1>2, <1>3, <1>5, <1>6, <1>8 DEF Stops
<1>9. ASSUME NEW q \in Thread, q # running[w] PROVE Stops(q)' <=> Stops(q)
  <2>1. \A v \in Worker : Runs(v, q) => v # w
    BY <1>9 DEF Runs
  <2>. QED BY <1>5, <1>6, <2>1 DEF Stops
<1>. QED BY <1>1, <1>7, <1>8, <1>9

LEMMA LiveStep ==
  ASSUME ContextTypeOK, LocalsInv, RunInv, NativeInv, IdsInv, OwnedInv, LiveInv, ContextInv,
         Next
  PROVE  LiveInv'
<1>. USE DEF ContextTypeOK, TypeOK
<1>1. ASSUME NEW w \in Worker, Arm(w), UNCHANGED <<waitingId, result>> PROVE LiveInv'
  <2>1. /\ pc[w] = "asked" /\ GoTo(w, "native") /\ armed' = armed \cup {newId[w]}
        /\ UNCHANGED <<queue, gone, running, pauseRequested, waitingThreads, rpc, rid>>
    BY <1>1 DEF Arm, nativeVars, resumeVars
  <2>2. newId[w] \in WaitId /\ Asked(w, newId[w])
    BY <2>1 DEF Asked
  <2>3. waitingThreads[newId[w]] = running[w] /\ ~ Live(newId[w])
    BY <2>2, LiveOwned DEF OwnedInv
  <2>4. /\ running[w] \in Thread /\ ~ Stops(running[w])
        /\ \A q \in Thread : Stops(q)' <=> Stops(q) \/ q = running[w]
    BY <2>1, StopsBegins
  <2>5. \A j \in WaitId : Live(j)' <=> Live(j) \/ j = newId[w]
    BY <1>1, <2>1 DEF Live, Awaiting
  <2>. QED BY <2>1, <2>2, <2>3, <2>4, <2>5, LiveBegins
<1>2. ASSUME NEW w \in Worker, Deploy(w) PROVE LiveInv'
  <2>. DEFINE t == running[w]
  <2>1. /\ pc[w] = "asked" /\ GoTo(w, "deploy") /\ waitingId[t] = NotDeployed
        /\ waitingId' = [waitingId EXCEPT ![t] = newId[w]]
        /\ UNCHANGED <<queue, gone, running, pauseRequested, waitingThreads, armed, rpc, rid,
                       result>>
    BY <1>2 DEF Deploy, nativeVars, tableVars, resumeVars
  <2>2. newId[w] \in WaitId /\ Asked(w, newId[w])
    BY <2>1 DEF Asked
  <2>3. waitingThreads[newId[w]] = t /\ ~ Live(newId[w])
    BY <2>2, LiveOwned DEF OwnedInv
  <2>4. /\ t \in Thread /\ ~ Stops(t)
        /\ \A q \in Thread : Stops(q)' <=> Stops(q) \/ q = t
    BY <2>1, StopsBegins
  <2>5. result[t] = NoThread
    BY <2>1, <2>4 DEF ContextInv, FreshInv
  <2>6. \A j \in WaitId : j # NotDeployed
    BY DEF WaitId, NotDeployed
  <2>7. \A q \in Thread, j \in WaitId :
          Awaiting(q, j)' <=> (q = t /\ j = newId[w]) \/ Awaiting(q, j)
    BY <2>1, <2>2, <2>4, <2>5, <2>6 DEF Awaiting
  <2>8. \A j \in WaitId : Live(j)' <=> Live(j) \/ j = newId[w]
    BY <2>1, <2>4, <2>7 DEF Live
  <2>. QED BY <2>1, <2>2, <2>3, <2>4, <2>8, LiveBegins
<1>3. ASSUME NEW o \in Process, rpc[o] = "wake", rpc' = [rpc EXCEPT ![o] = "erase"],
             UNCHANGED <<rid, armed, waitingThreads, waitingId, result>>
      PROVE  \A j \in WaitId : Live(j)' <=> Live(j) /\ j # rid[o]
  <2>1. Resuming(o, rid[o]) /\ rid[o] \in WaitId
    BY <1>3 DEF Resuming
  <2>2. /\ rid[o] \notin armed
        /\ \A t \in Thread : ~ Awaiting(t, rid[o])
        /\ \A q \in Process : q # o => ~ Resuming(q, rid[o])
    BY <2>1 DEF OwnedInv
  <2>3. \A q \in Process : q # o /\ rpc[q] \in {"lookup", "wake"} => rid[q] # rid[o]
    BY <2>2 DEF Resuming
  <2>4. \A q \in Process : rpc'[q] = IF q = o THEN "erase" ELSE rpc[q]
    BY <1>3
  <2>5. ASSUME NEW j \in WaitId PROVE Live(j)' <=> Live(j) /\ j # rid[o]
    <3>1. \A t \in Thread : Awaiting(t, j)' <=> Awaiting(t, j)
      BY <1>3 DEF Awaiting
    <3>2. (\E q \in Process : rpc'[q] \in {"lookup", "wake"} /\ rid'[q] = j) <=>
            j # rid[o] /\ \E q \in Process : rpc[q] \in {"lookup", "wake"} /\ rid[q] = j
      BY <1>3, <2>3, <2>4
    <3>3. armed' = armed
      BY <1>3
    <3>. QED BY <2>2, <3>1, <3>2, <3>3 DEF Live
  <2>. QED BY <2>5
<1>4. ASSUME NEW o \in Process, ResumeAtOnce(o), UNCHANGED <<waitingId, result>> PROVE LiveInv'
  <2>. DEFINE t == rthread[o]
  <2>1. /\ rpc[o] = "wake" /\ rpc' = [rpc EXCEPT ![o] = "erase"]
        /\ nativeBy[t] = o /\ pauseRequested' = [pauseRequested EXCEPT ![t] = FALSE]
        /\ UNCHANGED <<queue, gone, running, pc, rid, armed, waitingThreads>>
    BY <1>4 DEF ResumeAtOnce, runVars, tableVars
  <2>2. /\ rid[o] \in WaitId /\ t \in Thread
        /\ Live(rid[o]) /\ waitingThreads[rid[o]] = t /\ Stops(t)
    BY <2>1, WakeStops
  <2>3. PICK w \in Worker : Runs(w, t)
    BY <2>1, <2>2 DEF NativeInv, Stops, Process
  <2>4. \A v \in Worker, q \in Thread : Runs(v, q)' <=> Runs(v, q)
    BY <2>1 DEF Runs
  <2>5. ASSUME NEW q \in Thread, q = t PROVE ~ Stops(q)'
    BY <2>1, <2>2, <2>3, <2>4, <2>5 DEF Stops
  <2>6. ASSUME NEW q \in Thread, q # t PROVE Stops(q)' <=> Stops(q)
    BY <2>1, <2>4, <2>6 DEF Stops
  <2>7. \A j \in WaitId : Live(j)' <=> Live(j) /\ j # rid[o]
    BY <1>4, <2>1, <1>3
  <2>8. \A q \in Thread : Stops(q)' <=> Stops(q) /\ q # t
    BY <2>5, <2>6
  <2>9. waitingThreads' = waitingThreads
    BY <2>1
  <2>. QED BY <2>2, <2>7, <2>8, <2>9, LiveEnds
<1>5. ASSUME NEW o \in Process, ResumeEnqueue(o), UNCHANGED <<waitingId, result>> PROVE LiveInv'
  <2>. DEFINE t == rthread[o]
  <2>1. /\ rpc[o] = "wake" /\ rpc' = [rpc EXCEPT ![o] = "erase"]
        /\ queue' = [queue EXCEPT ![t] = @ + 1]
        /\ UNCHANGED <<gone, running, pc, pauseRequested, rid, armed, waitingThreads>>
    BY <1>5 DEF ResumeEnqueue, Enqueue, nativeVars, tableVars
  <2>2. /\ rid[o] \in WaitId /\ t \in Thread
        /\ Live(rid[o]) /\ waitingThreads[rid[o]] = t /\ Stops(t)
    BY <2>1, WakeStops
  <2>3. \A v \in Worker, q \in Thread : Runs(v, q)' <=> Runs(v, q)
    BY <2>1 DEF Runs
  <2>4. queue'[t] # 0 /\ \A q \in Thread : q # t => queue'[q] = queue[q]
    BY <2>1, <2>2
  <2>5. ASSUME NEW q \in Thread, q = t PROVE ~ Stops(q)'
    BY <2>4, <2>5 DEF Stops
  <2>6. ASSUME NEW q \in Thread, q # t PROVE Stops(q)' <=> Stops(q)
    BY <2>1, <2>3, <2>4, <2>6 DEF Stops
  <2>7. \A j \in WaitId : Live(j)' <=> Live(j) /\ j # rid[o]
    BY <1>5, <2>1, <1>3
  <2>8. \A q \in Thread : Stops(q)' <=> Stops(q) /\ q # t
    BY <2>5, <2>6
  <2>9. waitingThreads' = waitingThreads
    BY <2>1
  <2>. QED BY <2>2, <2>7, <2>8, <2>9, LiveEnds
<1>6. CASE /\ \A w \in Worker : ~ Arm(w) /\ ~ Deploy(w)
           /\ \A o \in Process : ~ ResumeAtOnce(o) /\ ~ ResumeEnqueue(o)
  <2>1. \A t \in Thread : Stops(t)' <=> Stops(t)
    BY <1>6, StopsSplit
  <2>2. /\ \A i \in WaitId : Live(i)' <=> Live(i)
        /\ \A i \in WaitId : Live(i) => waitingThreads'[i] = waitingThreads[i]
    BY <1>6, LiveSame
  <2>. QED BY <2>1, <2>2, LiveFrame
<1>7. ASSUME NEW w \in Worker, Trigger(w), \A v \in Worker : ~ Deploy(v) PROVE LiveInv'
  <2>1. w \in Process /\ rpc[w] = "none" /\ rpc' = [rpc EXCEPT ![w] = "lookup"]
    BY <1>7 DEF Trigger, CallResume, Process
  <2>2. \A v \in Worker : ~ Arm(v)
    BY <2>1 DEF Arm, resumeVars
  <2>3. \A o \in Process : ~ ResumeAtOnce(o) /\ ~ ResumeEnqueue(o)
    BY <2>1 DEF ResumeAtOnce, ResumeEnqueue
  <2>. QED BY <1>6, <1>7, <2>2, <2>3
<1>8. \/ UNCHANGED <<waitingId, result>> \/ \E w \in Worker : Trigger(w) \/ Deploy(w)
  <2>1. ASSUME NEW w \in Worker, Watcher(w), ~ Trigger(w) PROVE UNCHANGED <<waitingId, result>>
    BY <2>1 DEF Watcher, LockTriggered, Unregister, Resumed, ReleaseTriggered, Recycle, contextVars
  <2>2. ASSUME NEW w \in Worker, Wait(w), ~ Deploy(w) PROVE UNCHANGED <<waitingId, result>>
    BY <2>2 DEF Wait, Activate, Deployed, contextVars
  <2>3. ASSUME NEW w \in Worker, EndOfScript(w) PROVE UNCHANGED <<waitingId, result>>
    BY <2>3 DEF EndOfScript, UpdateResult, FinishScript, NotifyNext, contextVars
  <2>. QED BY <2>1, <2>2, <2>3 DEF Next, contextVars
<1>. QED BY <1>1, <1>2, <1>4, <1>5, <1>6, <1>7, <1>8

------------------------------------------------------------------------------
(* The locals of the workers.                                              *)

RunningLocal ==
  \A w \in Worker : IF pc[w] = "idle" THEN running[w] = NoThread ELSE running[w] \in Thread

NotifyLocal == \A w \in Worker : pc[w] = "notify" => running[w] \in updated

ResumeLocal == \A o \in Process : rpc[o] = "wake" => rthread[o] \in Thread

WatcherLocal ==
  \A w \in Worker : wpc[w] # "none" =>
     /\ wthread[w] \in Thread /\ wtarget[w] \in Async
     /\ wtarget[w] \in updated \cap Targets[wthread[w]]

LEMMA LocalParts == LocalsInv <=> RunningLocal /\ NotifyLocal /\ ResumeLocal /\ WatcherLocal
BY DEF LocalsInv, RunningLocal, NotifyLocal, ResumeLocal, WatcherLocal

LEMMA RunningLocalStep ==
  ASSUME ContextTypeOK, RunningLocal, Next
  PROVE  RunningLocal'
<1>. USE DEF ContextTypeOK, TypeOK, RunningLocal
<1>1. CASE UNCHANGED <<queue, running, gone, pc>>
  BY <1>1
<1>2. ASSUME NEW w \in Worker, NEW l \in WorkerState, GoesOn(w, l) PROVE RunningLocal'
  BY <1>2 DEF GoesOn, GoTo
<1>3. ASSUME NEW w \in Worker, NEW t \in Thread, Dispatch(w, t) PROVE RunningLocal'
  BY <1>3 DEF Dispatch, GoTo
<1>4. ASSUME NEW w \in Worker, Yield(w) \/ FinishScript(w) \/ UnlockNative(w) PROVE RunningLocal'
  BY <1>4, ZenonT(60) DEF Yield, FinishScript, Finish, UnlockNative, GoTo
<1>5. ASSUME NEW w \in Worker, PostProcess(w) PROVE RunningLocal'
  BY <1>5 DEF PostProcess, GoTo
<1>6. ASSUME NEW o \in Process, ResumeEnqueue(o) PROVE RunningLocal'
  BY <1>6 DEF ResumeEnqueue
<1>. QED BY RunSplit, <1>1, <1>2, <1>3, <1>4, <1>5, <1>6 DEF RunCases

\* A worker goes to notifyAll() of an async call that has just got its result.
LEMMA NotifyLocalStep ==
  ASSUME ContextTypeOK, NotifyLocal, Next
  PROVE  NotifyLocal'
<1>. USE DEF ContextTypeOK, TypeOK, NotifyLocal
<1>1. CASE UNCHANGED <<pc, running, updated>>
  BY <1>1
<1>2. ASSUME NEW w \in Worker, NEW l \in WorkerState \ {"notify"}, GoTo(w, l),
             updated' = updated, \A v \in Worker : v # w => running'[v] = running[v]
      PROVE  NotifyLocal'
  BY <1>2 DEF GoTo
<1>3. ASSUME NEW w \in Worker, NEW t \in Thread, Dispatch(w, t), updated' = updated
      PROVE  NotifyLocal'
  BY <1>3, <1>2 DEF Dispatch, WorkerState
<1>4. ASSUME NEW w \in Worker, Yield(w) \/ NativeCall(w), updated' = updated PROVE NotifyLocal'
  BY <1>4, <1>2 DEF Yield, NativeCall, EnterNative, LockNative, RequestToPause, Pause, Arm,
     NativeThrows, LeaveNative, PostProcess, UnlockNative, WorkerState
<1>5. CASE WaitingNext /\ UNCHANGED <<eventVars, contextVars, watcherVars>>
  BY <1>5, <1>1, <1>3, <1>4 DEF WaitingNext, LoopEnds, Resume, Unlock, ResumeLookUp,
     ResumeAtOnce, ResumeEnqueue, ResumeErase, runVars, eventVars
<1>6. ASSUME NEW w \in Worker, Watcher(w) PROVE NotifyLocal'
  BY <1>6, <1>1 DEF Watcher, LockTriggered, Unregister, Trigger, Resumed, ReleaseTriggered,
     Recycle, waitVars, runVars, eventVars
<1>7. ASSUME NEW w \in Worker, Wait(w) PROVE NotifyLocal'
  BY <1>7, <1>1, <1>2 DEF Wait, Deploy, Activate, Deployed, waitVars, runVars, eventVars,
     WorkerState
<1>8. ASSUME NEW w \in Worker, UpdateResult(w) PROVE NotifyLocal'
  BY <1>8 DEF UpdateResult, GoTo
<1>9. ASSUME NEW w \in Worker, EndOfScript(w) PROVE NotifyLocal'
  BY <1>9, <1>1, <1>2, <1>8 DEF EndOfScript, FinishScript, Finish, NotifyNext, waitVars, runVars,
     eventVars, WorkerState
<1>. QED BY <1>5, <1>6, <1>7, <1>9 DEF Next

LEMMA ResumeLocalStep ==
  ASSUME ContextTypeOK, ResumeLocal, Next
  PROVE  ResumeLocal'
<1>. USE DEF ContextTypeOK, TypeOK, ResumeLocal
<1>1. ASSUME UNCHANGED <<rpc, rthread>> PROVE ResumeLocal'
  BY <1>1
<1>2. ASSUME NEW o \in Process, Resume(o) PROVE ResumeLocal'
  BY <1>2 DEF Resume, Unlock, CallResume, ResumeLookUp, ResumeAtOnce, ResumeEnqueue, ResumeErase
<1>3. CASE WaitingNext
  BY <1>3, <1>1, <1>2 DEF WaitingNext, LoopEnds, Dispatch, Yield, NativeCall, EnterNative,
     LockNative, RequestToPause, Pause, Arm, NativeThrows, LeaveNative, PostProcess,
     UnlockNative, resumeVars
<1>4. ASSUME NEW w \in Worker, Trigger(w) PROVE ResumeLocal'
  BY <1>4 DEF Trigger, CallResume, Process
<1>5. ASSUME NEW w \in Worker, Watcher(w) \/ Wait(w) \/ EndOfScript(w) PROVE ResumeLocal'
  BY <1>1, <1>4, <1>5 DEF Watcher, LockTriggered, Unregister, Resumed, ReleaseTriggered, Recycle,
     Wait, Deploy, Activate, Deployed, EndOfScript, UpdateResult, FinishScript, Finish, NotifyNext,
     waitVars, resumeVars
<1>. QED BY <1>3, <1>5 DEF Next

\* A watcher is called for a target that has ended.
LEMMA WatcherLocalStep ==
  ASSUME ContextTypeOK, RunningLocal, NotifyLocal, WatcherLocal, EventInv, Next
  PROVE  WatcherLocal'
<1>. USE DEF ContextTypeOK, TypeOK, WatcherLocal
<1>0. updated \subseteq updated'
  <2>1. ASSUME NEW w \in Worker, Watcher(w) PROVE updated' = updated
    BY <2>1 DEF Watcher, LockTriggered, Unregister, Trigger, Resumed, ReleaseTriggered, Recycle,
       eventVars
  <2>2. ASSUME NEW w \in Worker, Wait(w) PROVE updated' = updated
    BY <2>2 DEF Wait, Deploy, Activate, Deployed, eventVars
  <2>3. ASSUME NEW w \in Worker, EndOfScript(w) PROVE updated \subseteq updated'
    BY <2>3 DEF EndOfScript, UpdateResult, FinishScript, NotifyNext, eventVars
  <2>. QED BY <2>1, <2>2, <2>3 DEF Next, eventVars
<1>1. ASSUME UNCHANGED <<wthread, wtarget>>,
             \A w \in Worker : wpc'[w] # "none" => wpc[w] # "none"
      PROVE  WatcherLocal'
  BY <1>0, <1>1
<1>2. ASSUME NEW w \in Worker, WatcherReturns(w) PROVE WatcherLocal'
  BY <1>0, <1>2 DEF WatcherReturns
<1>3. ASSUME NEW w \in Worker, NEW t \in Thread, NEW e \in Async, CallWatcher(w, t, e),
             e \in updated \cap Targets[t]
      PROVE  WatcherLocal'
  BY <1>0, <1>3 DEF CallWatcher
<1>4. ASSUME NEW w \in Worker, LockTriggered(w) \/ Trigger(w) \/ Resumed(w) PROVE WatcherLocal'
  <2>1. /\ wpc[w] # "none" /\ \A v \in Worker : v # w => wpc'[v] = wpc[v]
        /\ UNCHANGED <<wthread, wtarget>>
    BY <1>4 DEF LockTriggered, Trigger, Resumed
  <2>. QED BY <1>1, <2>1
<1>5. ASSUME NEW w \in Worker, NEW e \in Async, Unregister(w, e) PROVE WatcherLocal'
  BY <1>1, <1>5 DEF Unregister
<1>6. ASSUME NEW w \in Worker, ReleaseTriggered(w) PROVE WatcherLocal'
  BY <1>1, <1>2, <1>6 DEF ReleaseTriggered
<1>7. ASSUME NEW w \in Worker, Recycle(w) PROVE WatcherLocal'
  BY <1>2, <1>7 DEF Recycle
<1>8. ASSUME UNCHANGED watcherVars PROVE WatcherLocal'
  BY <1>1, <1>8 DEF watcherVars
<1>9. ASSUME NEW w \in Worker, NEW e \in Async, Activate(w, e) PROVE WatcherLocal'
  <2>1. CASE UNCHANGED watcherVars
    BY <2>1, <1>8
  <2>2. CASE running[w] \in registered[e] /\ e \in updated /\ CallWatcher(w, running[w], e)
    <3>1. running[w] \in Thread
      BY <1>9 DEF Activate, RunningLocal
    <3>2. e \in Targets[running[w]]
      BY <2>2, <3>1 DEF EventInv, RegisteredInv
    <3>. QED BY <2>2, <3>1, <3>2, <1>3
  <2>. QED BY <1>9, <2>1, <2>2 DEF Activate
<1>10. ASSUME NEW w \in Worker, NEW t \in Thread, NotifyNext(w, t) PROVE WatcherLocal'
  <2>1. /\ running[w] \in updated /\ running[w] \in Async
        /\ t \in watchersCopy[running[w]] /\ CallWatcher(w, t, running[w])
    BY <1>10 DEF NotifyNext, NotifyLocal
  <2>2. running[w] \in Targets[t]
    BY <2>1 DEF EventInv, RegisteredInv
  <2>. QED BY <2>1, <2>2, <1>3
<1>11. ASSUME NEW w \in Worker, Watcher(w) PROVE WatcherLocal'
  BY <1>11, <1>4, <1>5, <1>6, <1>7 DEF Watcher
<1>12. ASSUME NEW w \in Worker, Wait(w) \/ EndOfScript(w) PROVE WatcherLocal'
  BY <1>12, <1>8, <1>9, <1>10 DEF Wait, Deploy, Deployed, EndOfScript, UpdateResult, FinishScript
<1>. QED BY <1>8, <1>11, <1>12 DEF Next

LEMMA LocalsStep ==
  ASSUME ContextTypeOK, LocalsInv, EventInv, Next
  PROVE  LocalsInv'
<1>1. RunningLocal /\ NotifyLocal /\ ResumeLocal /\ WatcherLocal
  BY LocalParts
<1>2. RunningLocal' /\ NotifyLocal' /\ ResumeLocal' /\ WatcherLocal'
  BY <1>1, RunningLocalStep, NotifyLocalStep, ResumeLocalStep, WatcherLocalStep
<1>. QED BY <1>2 DEF LocalsInv, RunningLocal, NotifyLocal, ResumeLocal, WatcherLocal

------------------------------------------------------------------------------
(* The event objects.                                                      *)

\* Workers in deploy() or notifyAll() stay there.
StayThere ==
  /\ gone \subseteq gone'
  /\ \A w \in Worker : pc[w] \in {"notify", "deploy"} => pc'[w] = pc[w] /\ running'[w] = running[w]

LEMMA EventFrame ==
  ASSUME ContextTypeOK, EventInv, StayThere, UNCHANGED <<eventVars, toActivate, waitingId>>
  PROVE  EventInv'
<1>1. RegisteredInv' /\ PhasesInv'
  BY DEF EventInv, RegisteredInv, PhasesInv, eventVars
<1>2. EndedInv'
  BY DEF EventInv, EndedInv, StayThere, eventVars
<1>3. DeployInv'
  BY DEF EventInv, DeployInv, StayThere
<1>. QED BY <1>1, <1>2, <1>3 DEF EventInv

LEMMA WaitingStays ==
  ASSUME ContextTypeOK, WaitingNext
  PROVE  StayThere
<1>. USE DEF ContextTypeOK, TypeOK, StayThere
<1>1. CASE UNCHANGED <<pc, running, gone>>
  BY <1>1
<1>2. ASSUME NEW w \in Worker, pc[w] \notin {"notify", "deploy"}, gone' = gone,
             \A v \in Worker : v # w => pc'[v] = pc[v] /\ running'[v] = running[v]
      PROVE  StayThere
  BY <1>2
<1>3. ASSUME NEW w \in Worker, \/ \E t \in Thread : Dispatch(w, t)
                               \/ Yield(w) \/ NativeCall(w)
      PROVE  StayThere
  BY <1>3, <1>2 DEF Dispatch, Yield, NativeCall, EnterNative, LockNative, RequestToPause, Pause,
     Arm, NativeThrows, LeaveNative, PostProcess, UnlockNative, GoTo
<1>. QED BY <1>1, <1>3 DEF WaitingNext, LoopEnds, Resume, Unlock, ResumeLookUp, ResumeAtOnce,
     ResumeEnqueue, ResumeErase, runVars

\* No async call ends while it has a result already, or its worker notifies of it.
LEMMA UpdatesOnce ==
  ASSUME ContextTypeOK, LocalsInv, RunInv, EventInv, NEW w \in Worker, UpdateResult(w)
  PROVE  running[w] \in Async /\ running[w] \notin updated /\ watchersCopy[running[w]] = {}
<1>1. running[w] \in Async /\ running[w] \in Thread /\ Runs(w, running[w]) /\ pc[w] = "script"
  BY DEF UpdateResult, Runs, LocalsInv
<1>2. ASSUME running[w] \in updated PROVE FALSE
  <2>1. running[w] \notin gone
    BY <1>1 DEF RunInv
  <2>2. PICK v \in Worker : running[v] = running[w] /\ pc[v] = "notify"
    BY <1>1, <1>2, <2>1 DEF EventInv, EndedInv
  <2>3. Runs(v, running[w])
    BY <2>2 DEF Runs
  <2>. QED BY <1>1, <2>2, <2>3 DEF RunInv
<1>. QED BY <1>1, <1>2 DEF EventInv, PhasesInv, ContextTypeOK

LEMMA EventStep ==
  ASSUME ContextTypeOK, LocalsInv, RunInv, EventInv, ContextInv, Next
  PROVE  EventInv'
<1>. USE DEF EventInv
<1>0. updated \subseteq Async /\ \A w \in Worker : pc[w] \in WorkerState
  BY DEF ContextTypeOK, TypeOK
<1>1. ASSUME NEW w \in Worker, NEW e \in Async, Unregister(w, e) PROVE EventInv'
  <2>1. /\ \A d \in Async : registered'[d] \subseteq registered[d] /\ activated'[d] \subseteq activated[d]
        /\ UNCHANGED <<updated, watchersCopy, toActivate, waitingId, pc, running, gone>>
    BY <1>1 DEF Unregister, waitVars, runVars, ContextTypeOK
  <2>2. RegisteredInv'
    BY <2>1 DEF RegisteredInv
  <2>3. PhasesInv'
    BY <2>1 DEF PhasesInv
  <2>4. EndedInv'
    BY <2>1 DEF EndedInv
  <2>5. DeployInv'
    BY <2>1 DEF DeployInv
  <2>. QED BY <2>2, <2>3, <2>4, <2>5
<1>2. ASSUME NEW w \in Worker, Deploy(w) PROVE EventInv'
  <2>. DEFINE t == running[w]
  <2>1. /\ t \in Thread /\ waitingId[t] = NotDeployed /\ pc[w] = "asked"
        /\ waitingId' = [waitingId EXCEPT ![t] = newId[w]] /\ newId[w] # NotDeployed
        /\ \A e \in Async : registered'[e] = registered[e] \cup (IF e \in Targets[t] THEN {t} ELSE {})
        /\ toActivate' = [toActivate EXCEPT ![t] = Targets[t]]
        /\ pc' = [pc EXCEPT ![w] = "deploy"]
        /\ UNCHANGED <<running, gone, updated, activated, watchersCopy>>
    BY <1>2 DEF Deploy, GoTo, LocalsInv, NotDeployed, WaitId, ContextTypeOK, TypeOK
  <2>2. \A e \in Async : t \notin registered[e] \cup activated[e] \cup watchersCopy[e]
    BY <2>1 DEF RegisteredInv
  <2>3. \A e \in Async, q \in Thread :
          q \in registered'[e] <=> q \in registered[e] \/ (q = t /\ e \in Targets[t])
    BY <2>1
  <2>4. \A q \in Thread : q # t => waitingId'[q] = waitingId[q] /\ toActivate'[q] = toActivate[q]
    BY <2>1 DEF ContextTypeOK
  <2>5. waitingId'[t] # NotDeployed /\ toActivate'[t] = Targets[t]
    BY <2>1 DEF ContextTypeOK
  <2>6. pc'[w] = "deploy" /\ \A v \in Worker : v # w => pc'[v] = pc[v]
    BY <2>1 DEF ContextTypeOK, TypeOK
  <2>7. RegisteredInv'
    BY <2>1, <2>2, <2>3, <2>4, <2>5 DEF RegisteredInv
  <2>8. PhasesInv'
    BY <2>1, <2>2, <2>3 DEF PhasesInv
  <2>9. EndedInv'
    BY <2>1, <2>6 DEF EndedInv
  <2>10. DeployInv'
    BY <2>1, <2>4, <2>6 DEF DeployInv
  <2>. QED BY <2>7, <2>8, <2>9, <2>10
<1>3. ASSUME NEW w \in Worker, NEW e \in Async, Activate(w, e) PROVE EventInv'
  <2>. DEFINE t == running[w]
  <2>1. /\ t \in Thread
        /\ toActivate' = [toActivate EXCEPT ![t] = @ \ {e}]
        /\ registered' = [registered EXCEPT ![e] = @ \ {t}]
        /\ UNCHANGED <<waitingId, pc, running, gone, updated, watchersCopy>>
    BY <1>3 DEF Activate, LocalsInv, waitVars, runVars
  <2>2. \/ activated' = activated
        \/ ~ (t \in registered[e] /\ e \in updated)
             /\ activated' = [activated EXCEPT ![e] = @ \cup (IF t \in registered[e] THEN {t} ELSE {})]
    BY <1>3 DEF Activate
  <2>3. \A d \in Async, q \in Thread :
          q \in registered'[d] <=> q \in registered[d] /\ ~ (q = t /\ d = e)
    BY <2>1 DEF ContextTypeOK
  <2>4. \A d \in Async, q \in Thread :
          d \in toActivate'[q] <=> d \in toActivate[q] /\ ~ (q = t /\ d = e)
    BY <2>1 DEF ContextTypeOK
  <2>5. \A d \in Async, q \in Thread :
          q \in activated'[d] =>
            q \in activated[d] \/ (q = t /\ d = e /\ e \notin updated /\ t \in registered[e])
    BY <2>2 DEF ContextTypeOK
  <2>6. RegisteredInv'
    BY <2>1, <2>3, <2>4, <2>5 DEF RegisteredInv
  <2>7. PhasesInv'
    BY <2>1, <2>3, <2>5 DEF PhasesInv
  <2>8. EndedInv'
    BY <2>1 DEF EndedInv
  <2>9. \A q \in Thread : toActivate'[q] # {} => toActivate[q] # {}
    BY <2>1 DEF ContextTypeOK
  <2>10. DeployInv'
    BY <2>1, <2>9 DEF DeployInv
  <2>. QED BY <2>6, <2>7, <2>8, <2>10
<1>4. ASSUME NEW w \in Worker, Deployed(w) PROVE EventInv'
  <2>1. /\ pc[w] = "deploy" /\ toActivate[running[w]] = {}
        /\ pc' = [pc EXCEPT ![w] = "native"]
        /\ UNCHANGED <<eventVars, toActivate, waitingId, running, gone>>
    BY <1>4 DEF Deployed, GoTo, contextVars
  <2>2. \A v \in Worker : v # w => pc'[v] = pc[v]
    BY <2>1 DEF ContextTypeOK, TypeOK
  <2>3. RegisteredInv' /\ PhasesInv'
    BY <2>1 DEF RegisteredInv, PhasesInv, eventVars
  <2>4. EndedInv'
    BY <2>1, <2>2 DEF EndedInv, eventVars
  <2>5. DeployInv'
    BY <2>1, <2>2 DEF DeployInv
  <2>. QED BY <2>3, <2>4, <2>5
<1>5. ASSUME NEW w \in Worker, UpdateResult(w) PROVE EventInv'
  <2>. DEFINE e == running[w]
  <2>1. e \in Async /\ e \notin updated /\ watchersCopy[e] = {}
    BY <1>5, UpdatesOnce
  <2>2. /\ updated' = updated \cup {e} /\ pc[w] = "script" /\ pc' = [pc EXCEPT ![w] = "notify"]
        /\ watchersCopy' = [watchersCopy EXCEPT ![e] = activated[e]]
        /\ activated' = [activated EXCEPT ![e] = {}]
        /\ UNCHANGED <<registered, toActivate, waitingId, running, gone>>
    BY <1>5 DEF UpdateResult, GoTo, contextVars
  <2>3. pc'[w] = "notify" /\ \A v \in Worker : v # w => pc'[v] = pc[v]
    BY <2>2 DEF ContextTypeOK, TypeOK
  <2>4. \A d \in Async, q \in Thread :
          /\ q \in activated'[d] <=> q \in activated[d] /\ d # e
          /\ q \in watchersCopy'[d] <=> q \in watchersCopy[d] \/ (d = e /\ q \in activated[e])
    BY <2>1, <2>2 DEF ContextTypeOK
  <2>5. RegisteredInv'
    BY <2>2, <2>4 DEF RegisteredInv
  <2>6. PhasesInv'
    BY <2>2, <2>4 DEF PhasesInv
  <2>7. EndedInv'
    BY <2>2, <2>3 DEF EndedInv
  <2>8. DeployInv'
    BY <2>2, <2>3 DEF DeployInv
  <2>. QED BY <2>5, <2>6, <2>7, <2>8
<1>6. ASSUME NEW w \in Worker, NEW t \in Thread, NotifyNext(w, t) PROVE EventInv'
  <2>1. /\ \A d \in Async : watchersCopy'[d] \subseteq watchersCopy[d]
        /\ UNCHANGED <<updated, registered, activated, toActivate, waitingId, pc, running, gone>>
    BY <1>6 DEF NotifyNext, waitVars, runVars, contextVars, ContextTypeOK
  <2>2. RegisteredInv'
    BY <2>1 DEF RegisteredInv
  <2>3. PhasesInv'
    BY <2>1 DEF PhasesInv
  <2>4. EndedInv'
    BY <2>1 DEF EndedInv
  <2>5. DeployInv'
    BY <2>1 DEF DeployInv
  <2>. QED BY <2>2, <2>3, <2>4, <2>5
<1>7. ASSUME NEW w \in Worker, FinishScript(w) PROVE EventInv'
  <2>1. /\ running[w] \in gone' /\ gone \subseteq gone' /\ pc[w] # "deploy"
        /\ \A v \in Worker : v # w => pc'[v] = pc[v] /\ running'[v] = running[v]
        /\ UNCHANGED <<eventVars, toActivate, waitingId>>
    BY <1>7 DEF FinishScript, Finish, GoTo, contextVars, ContextTypeOK, TypeOK
  <2>2. RegisteredInv' /\ PhasesInv'
    BY <2>1 DEF RegisteredInv, PhasesInv, eventVars
  <2>3. EndedInv'
    BY <2>1 DEF EndedInv, eventVars
  <2>4. \A v \in Worker : pc[v] = "deploy" => v # w
    BY <2>1
  <2>5. DeployInv'
    BY <2>1, <2>4 DEF DeployInv
  <2>. QED BY <2>2, <2>3, <2>5
<1>8. CASE WaitingNext /\ UNCHANGED <<eventVars, contextVars, watcherVars>>
  BY <1>8, WaitingStays, EventFrame DEF contextVars
<1>9. ASSUME NEW w \in Worker, Watcher(w) PROVE EventInv'
  <2>1. CASE UNCHANGED <<eventVars, toActivate, waitingId, pc, running, gone>>
    <3>1. StayThere
      BY <2>1 DEF StayThere
    <3>. QED BY <2>1, <3>1, EventFrame
  <2>. QED BY <1>9, <1>1, <2>1 DEF Watcher, LockTriggered, Trigger, Resumed, ReleaseTriggered,
       Recycle, waitVars, runVars, contextVars
<1>10. ASSUME NEW w \in Worker, Wait(w) \/ EndOfScript(w) PROVE EventInv'
  BY <1>10, <1>2, <1>3, <1>4, <1>5, <1>6, <1>7 DEF Wait, EndOfScript
<1>. QED BY <1>8, <1>9, <1>10 DEF Next

------------------------------------------------------------------------------
(* remainingCount.                                                         *)

USE TargetsAssumption, WorkerAssumption

\* What is counted is finite, so that nothing is left when the count is 0.
LEMMA CountFacts ==
  ASSUME ContextTypeOK, EventInv, RemainingCounted, NEW t \in Thread
  PROVE  /\ IsFiniteSet(Outstanding(t)) /\ IsFiniteSet(Locking(t))
         /\ Cardinality(Outstanding(t)) \in Nat /\ Cardinality(Locking(t)) \in Nat
         /\ remainingCount[t] = Cardinality(Outstanding(t)) + Cardinality(Locking(t))
         /\ remainingCount[t] = 0 => Outstanding(t) = {} /\ Locking(t) = {}
<1>1. Outstanding(t) \in SUBSET Targets[t] /\ IsFiniteSet(Targets[t])
  BY DEF Outstanding, EventInv, RegisteredInv
<1>2. Locking(t) \in SUBSET Worker
  BY DEF Locking, Watching
<1>3. IsFiniteSet(Outstanding(t)) /\ IsFiniteSet(Locking(t))
  BY <1>1, <1>2, FS_Subset
<1>4. Cardinality(Outstanding(t)) \in Nat /\ Cardinality(Locking(t)) \in Nat
  BY <1>3, FS_CardinalityType
<1>5. remainingCount[t] = Cardinality(Outstanding(t)) + Cardinality(Locking(t))
  BY DEF RemainingCounted
<1>6. ASSUME remainingCount[t] = 0 PROVE Outstanding(t) = {} /\ Locking(t) = {}
  <2>1. Cardinality(Outstanding(t)) = 0 /\ Cardinality(Locking(t)) = 0
    BY <1>4, <1>5, <1>6
  <2>. QED BY <2>1, <1>3, FS_EmptySet
<1>. QED BY <1>3, <1>4, <1>5, <1>6

Counted(t) == remainingCount[t] = Cardinality(Outstanding(t)) + Cardinality(Locking(t))

\* A watcher that goes from one of the sets to the other.
LEMMA CountMove ==
  ASSUME ContextTypeOK, EventInv, RemainingCounted, NEW t \in Thread,
         NEW w \in Worker, NEW e \in Async,
         remainingCount'[t] = remainingCount[t],
         e \in Outstanding(t), w \notin Locking(t),
         Outstanding(t)' = Outstanding(t) \ {e}, Locking(t)' = Locking(t) \cup {w}
  PROVE  Counted(t)'
<1>1. Cardinality(Outstanding(t)') = Cardinality(Outstanding(t)) - 1
  BY CountFacts, FS_RemoveElement, ZenonT(60)
<1>2. Cardinality(Locking(t)') = Cardinality(Locking(t)) + 1
  BY CountFacts, FS_AddElement
<1>. QED BY <1>1, <1>2, CountFacts DEF Counted

\* A watcher that has taken lockTriggered, or has been unregistered.
LEMMA CountDown ==
  ASSUME ContextTypeOK, EventInv, RemainingCounted, NEW t \in Thread,
         remainingCount'[t] = remainingCount[t] - 1,
         \/ \E w \in Locking(t) : Outstanding(t)' = Outstanding(t) /\ Locking(t)' = Locking(t) \ {w}
         \/ \E e \in Outstanding(t) : Outstanding(t)' = Outstanding(t) \ {e} /\ Locking(t)' = Locking(t)
  PROVE  Counted(t)' /\ remainingCount[t] - 1 \in Nat
<1>1. ASSUME NEW w \in Locking(t), Outstanding(t)' = Outstanding(t),
             Locking(t)' = Locking(t) \ {w}
      PROVE  Counted(t)' /\ remainingCount[t] - 1 \in Nat
  <2>1. /\ Cardinality(Locking(t)') = Cardinality(Locking(t)) - 1
        /\ Cardinality(Locking(t)') \in Nat
    BY <1>1, CountFacts, FS_RemoveElement, FS_CardinalityType
  <2>. QED BY <1>1, <2>1, CountFacts DEF Counted
<1>2. ASSUME NEW e \in Outstanding(t), Outstanding(t)' = Outstanding(t) \ {e},
             Locking(t)' = Locking(t)
      PROVE  Counted(t)' /\ remainingCount[t] - 1 \in Nat
  <2>1. /\ Cardinality(Outstanding(t)') = Cardinality(Outstanding(t)) - 1
        /\ Cardinality(Outstanding(t)') \in Nat
    BY <1>2, CountFacts, FS_RemoveElement, FS_CardinalityType
  <2>. QED BY <1>2, <2>1, CountFacts DEF Counted
<1>. QED BY <1>1, <1>2

LEMMA CountFrame ==
  ASSUME RemainingCounted, NEW t \in Thread, remainingCount'[t] = remainingCount[t],
         Outstanding(t)' = Outstanding(t), Locking(t)' = Locking(t)
  PROVE  Counted(t)'
BY DEF RemainingCounted, Counted

\* What each step of the watchers and of deploy() does to the two sets.
LEMMA TriggeredCounts ==
  ASSUME ContextTypeOK, LocalsInv, EventInv, RemainingCounted, NEW w \in Worker, LockTriggered(w)
  PROVE  RemainingCounted' /\ remainingCount[wthread[w]] - 1 \in Nat
<1>. DEFINE t == wthread[w]
<1>1. /\ wpc[w] = "lock" /\ t \in Thread
      /\ remainingCount' = [remainingCount EXCEPT ![t] = @ - 1]
      /\ UNCHANGED <<registered, activated, watchersCopy, wthread>>
      /\ wpc'[w] \notin {"none", "lock"}
      /\ \A v \in Worker : v # w => wpc'[v] = wpc[v]
  BY DEF LockTriggered, LocalsInv, eventVars, ContextTypeOK
<1>2. \A q \in Thread : Outstanding(q)' = Outstanding(q)
  BY <1>1 DEF Outstanding
<1>3. \A q \in Thread : q # t => Locking(q)' = Locking(q)
  BY <1>1 DEF Locking, Watching
<1>4. \A q \in Thread : q = t => w \in Locking(q) /\ Locking(q)' = Locking(q) \ {w}
  BY <1>1 DEF Locking, Watching
<1>5. /\ \A q \in Thread : q # t => remainingCount'[q] = remainingCount[q]
      /\ remainingCount'[t] = remainingCount[t] - 1
  BY <1>1 DEF ContextTypeOK
<1>6. ASSUME NEW q \in Thread, q # t PROVE Counted(q)'
  BY <1>2, <1>3, <1>5, <1>6, CountFrame
<1>7. ASSUME NEW q \in Thread, q = t PROVE Counted(q)' /\ remainingCount[q] - 1 \in Nat
  BY <1>2, <1>4, <1>5, <1>7, CountDown
<1>. QED BY <1>1, <1>6, <1>7 DEF RemainingCounted, Counted

LEMMA UnregisterCounts ==
  ASSUME ContextTypeOK, LocalsInv, EventInv, RemainingCounted,
         NEW w \in Worker, NEW e \in Async, Unregister(w, e)
  PROVE  /\ RemainingCounted'
         /\ remainingCount' = remainingCount \/ remainingCount[wthread[w]] - 1 \in Nat
<1>. DEFINE t == wthread[w]
<1>1. /\ t \in Thread
      /\ registered' = [registered EXCEPT ![e] = @ \ {t}]
      /\ activated' = [activated EXCEPT ![e] = @ \ {t}]
      /\ UNCHANGED <<watchersCopy, wthread, wpc>>
  BY DEF Unregister, LocalsInv
<1>2. remainingCount' = IF t \in registered[e] \cup activated[e]
                        THEN [remainingCount EXCEPT ![t] = @ - 1] ELSE remainingCount
  BY DEF Unregister
<1>3. \A q \in Thread : Locking(q)' = Locking(q)
  BY <1>1 DEF Locking, Watching
<1>4. \A d \in Async, q \in Thread :
        /\ q \in registered'[d] <=> q \in registered[d] /\ ~ (q = t /\ d = e)
        /\ q \in activated'[d] <=> q \in activated[d] /\ ~ (q = t /\ d = e)
  BY <1>1 DEF ContextTypeOK
<1>5. \A q \in Thread : q # t => Outstanding(q)' = Outstanding(q)
  BY <1>1, <1>4 DEF Outstanding
<1>6. CASE t \in registered[e] \cup activated[e]
  <2>1. \A q \in Thread : q = t => t \notin watchersCopy[e]
    BY <1>6 DEF EventInv, PhasesInv
  <2>2. \A q \in Thread : q = t =>
          e \in Outstanding(q) /\ Outstanding(q)' = Outstanding(q) \ {e}
    BY <1>1, <1>4, <1>6, <2>1 DEF Outstanding
  <2>3. /\ \A q \in Thread : q # t => remainingCount'[q] = remainingCount[q]
        /\ remainingCount'[t] = remainingCount[t] - 1
    BY <1>1, <1>2, <1>6 DEF ContextTypeOK
  <2>4. ASSUME NEW q \in Thread, q # t PROVE Counted(q)'
    BY <1>3, <1>5, <2>3, <2>4, CountFrame
  <2>5. ASSUME NEW q \in Thread, q = t PROVE Counted(q)' /\ remainingCount[q] - 1 \in Nat
    BY <1>3, <2>2, <2>3, <2>5, CountDown
  <2>. QED BY <1>1, <2>4, <2>5 DEF RemainingCounted, Counted
<1>7. CASE t \notin registered[e] \cup activated[e]
  <2>1. \A q \in Thread : q = t => Outstanding(q)' = Outstanding(q)
    BY <1>1, <1>4, <1>7 DEF Outstanding
  <2>2. ASSUME NEW q \in Thread PROVE Counted(q)'
    BY <1>2, <1>3, <1>5, <1>7, <2>1, CountFrame
  <2>. QED BY <1>2, <1>7, <2>2 DEF RemainingCounted, Counted
<1>. QED BY <1>6, <1>7

LEMMA DeployCounts ==
  ASSUME ContextTypeOK, LocalsInv, EventInv, ContextInv, RemainingCounted,
         NEW w \in Worker, Deploy(w)
  PROVE  RemainingCounted'
<1>. DEFINE t == running[w]
<1>1. /\ t \in Thread /\ waitingId[t] = NotDeployed
      /\ remainingCount' = [remainingCount EXCEPT ![t] = Cardinality(Targets[t])]
      /\ \A e \in Async : registered'[e] = registered[e] \cup (IF e \in Targets[t] THEN {t} ELSE {})
      /\ UNCHANGED <<activated, watchersCopy, wpc, wthread>>
  BY DEF Deploy, LocalsInv, watcherVars
<1>2. \A q \in Thread : Locking(q)' = Locking(q)
  BY <1>1 DEF Locking, Watching
<1>3. \A q \in Thread : q # t => Outstanding(q)' = Outstanding(q)
  BY <1>1 DEF Outstanding
<1>4. \A q \in Thread : q # t => remainingCount'[q] = remainingCount[q]
  BY <1>1 DEF ContextTypeOK
<1>5. ASSUME NEW q \in Thread, q # t PROVE Counted(q)'
  BY <1>2, <1>3, <1>4, <1>5, CountFrame
<1>6. ASSUME NEW q \in Thread, q = t PROVE Counted(q)'
  <2>1. \A e \in Async : q \notin registered[e] \cup activated[e] \cup watchersCopy[e]
    BY <1>1, <1>6 DEF EventInv, RegisteredInv
  <2>2. Outstanding(q)' = Targets[q]
    BY <1>1, <1>6, <2>1 DEF Outstanding
  <2>3. Locking(q)' = {}
    BY <1>1, <1>2, <1>6 DEF Locking, Watching, ContextInv, FreshInv
  <2>4. remainingCount'[q] = Cardinality(Targets[q]) /\ Cardinality(Targets[q]) \in Nat
    BY <1>1, <1>6, FS_CardinalityType DEF ContextTypeOK
  <2>. QED BY <2>2, <2>3, <2>4, FS_EmptySet DEF Counted
<1>. QED BY <1>5, <1>6 DEF RemainingCounted, Counted

\* A watcher is called: it is not to be counted before, and has not been counted down.
Called(w, t, e) ==
  /\ wpc[w] = "none" /\ CallWatcher(w, t, e)
  /\ t \in Thread /\ e \in Outstanding(t)
  /\ waitingId[t] # NotDeployed /\ remainingCount[t] # 0

LEMMA CalledCounts ==
  ASSUME ContextTypeOK, EventInv, RemainingCounted,
         NEW w \in Worker, NEW t \in Thread, NEW e \in Async,
         wpc[w] = "none", CallWatcher(w, t, e), e \in Outstanding(t), e \in Targets[t],
         waitingId[t] # NotDeployed, remainingCount' = remainingCount,
         \A q \in Thread : Outstanding(q)' = IF q = t THEN Outstanding(q) \ {e} ELSE Outstanding(q)
  PROVE  RemainingCounted' /\ Called(w, t, e)
<1>1. wpc'[w] = "lock" /\ wthread'[w] = t
      /\ \A v \in Worker : v # w => wpc'[v] = wpc[v] /\ wthread'[v] = wthread[v]
  BY DEF CallWatcher, ContextTypeOK
<1>2. \A q \in Thread : Locking(q)' = IF q = t THEN Locking(q) \cup {w} ELSE Locking(q)
  BY <1>1 DEF Locking, Watching
<1>3. \A q \in Thread : w \notin Locking(q)
  BY DEF Locking, Watching
<1>4. ASSUME NEW q \in Thread, q # t PROVE Counted(q)'
  BY <1>2, <1>4, CountFrame
<1>5. ASSUME NEW q \in Thread, q = t PROVE Counted(q)'
  BY <1>2, <1>3, <1>5, CountMove
<1>6. remainingCount[t] # 0
  BY CountFacts
<1>. QED BY <1>4, <1>5, <1>6 DEF RemainingCounted, Counted, Called

LEMMA ActivateCounts ==
  ASSUME ContextTypeOK, LocalsInv, EventInv, RemainingCounted,
         NEW w \in Worker, NEW e \in Async, Activate(w, e)
  PROVE  RemainingCounted' /\ (UNCHANGED watcherVars \/ Called(w, running[w], e))
<1>. DEFINE t == running[w]
<1>1. /\ t \in Thread /\ wpc[w] = "none"
      /\ registered' = [registered EXCEPT ![e] = @ \ {t}]
      /\ UNCHANGED <<watchersCopy, remainingCount>>
  BY DEF Activate, LocalsInv
<1>2. \A d \in Async, q \in Thread :
        q \in registered'[d] <=> q \in registered[d] /\ ~ (q = t /\ d = e)
  BY <1>1 DEF ContextTypeOK
<1>3. CASE t \in registered[e] /\ e \in updated
  <2>1. CallWatcher(w, t, e) /\ activated' = activated
    BY <1>3 DEF Activate
  <2>2. t \notin activated[e] \cup watchersCopy[e]
    BY <1>1, <1>3 DEF EventInv, PhasesInv
  <2>3. /\ e \in Outstanding(t) /\ e \in Targets[t] /\ waitingId[t] # NotDeployed
    BY <1>1, <1>3 DEF Outstanding, EventInv, RegisteredInv
  <2>4. ASSUME NEW q \in Thread
        PROVE  Outstanding(q)' = IF q = t THEN Outstanding(q) \ {e} ELSE Outstanding(q)
    BY <1>1, <1>2, <1>3, <2>1, <2>2 DEF Outstanding
  <2>. QED BY <1>1, <2>1, <2>3, <2>4, CalledCounts
<1>4. CASE ~ (t \in registered[e] /\ e \in updated)
  <2>1. /\ UNCHANGED watcherVars
        /\ activated' = [activated EXCEPT ![e] = @ \cup (IF t \in registered[e] THEN {t} ELSE {})]
    BY <1>4 DEF Activate
  <2>2. \A d \in Async, q \in Thread :
          q \in activated'[d] <=> q \in activated[d] \/ (q = t /\ d = e /\ t \in registered[e])
    BY <1>1, <2>1 DEF ContextTypeOK
  <2>3. \A q \in Thread : Outstanding(q)' = Outstanding(q)
    BY <1>1, <1>2, <2>2 DEF Outstanding
  <2>4. \A q \in Thread : Locking(q)' = Locking(q)
    BY <2>1 DEF Locking, Watching, watcherVars
  <2>5. ASSUME NEW q \in Thread PROVE Counted(q)'
    BY <1>1, <2>3, <2>4, CountFrame
  <2>. QED BY <2>1, <2>5 DEF RemainingCounted, Counted
<1>. QED BY <1>3, <1>4

LEMMA NotifyCounts ==
  ASSUME ContextTypeOK, LocalsInv, EventInv, RemainingCounted,
         NEW w \in Worker, NEW t \in Thread, NotifyNext(w, t)
  PROVE  RemainingCounted' /\ Called(w, t, running[w])
<1>. DEFINE e == running[w]
<1>1. /\ e \in Async /\ wpc[w] = "none" /\ t \in watchersCopy[e] /\ CallWatcher(w, t, e)
      /\ watchersCopy' = [watchersCopy EXCEPT ![e] = @ \ {t}]
      /\ UNCHANGED <<registered, activated, remainingCount>>
  BY DEF NotifyNext, LocalsInv, CallWatcher, ContextTypeOK, contextVars
<1>2. \A d \in Async, q \in Thread :
        q \in watchersCopy'[d] <=> q \in watchersCopy[d] /\ ~ (q = t /\ d = e)
  BY <1>1 DEF ContextTypeOK
<1>3. t \notin activated[e] \cup registered[e]
  BY <1>1 DEF EventInv, PhasesInv
<1>4. e \in Outstanding(t) /\ e \in Targets[t] /\ waitingId[t] # NotDeployed
  BY <1>1 DEF Outstanding, EventInv, RegisteredInv
<1>5. ASSUME NEW q \in Thread
      PROVE  Outstanding(q)' = IF q = t THEN Outstanding(q) \ {e} ELSE Outstanding(q)
  BY <1>1, <1>2, <1>3 DEF Outstanding
<1>. QED BY <1>1, <1>4, <1>5, CalledCounts

LEMMA CountStep ==
  ASSUME ContextTypeOK, LocalsInv, RunInv, EventInv, ContextInv, RemainingCounted, Next
  PROVE  RemainingCounted'
<1>1. ASSUME UNCHANGED <<registered, activated, watchersCopy, remainingCount>>,
             \A q \in Thread : Locking(q)' = Locking(q)
      PROVE  RemainingCounted'
  <2>1. \A q \in Thread : Outstanding(q)' = Outstanding(q)
    BY <1>1 DEF Outstanding
  <2>2. ASSUME NEW q \in Thread PROVE Counted(q)'
    BY <1>1, <2>1, CountFrame
  <2>. QED BY <2>2 DEF RemainingCounted, Counted
<1>2. ASSUME UNCHANGED <<registered, activated, watchersCopy, remainingCount, wpc, wthread>>
      PROVE  RemainingCounted'
  <2>1. \A q \in Thread : Locking(q)' = Locking(q)
    BY <1>2 DEF Locking, Watching
  <2>. QED BY <1>1, <1>2, <2>1
<1>3. ASSUME NEW w \in Worker, Trigger(w) \/ Resumed(w) \/ ReleaseTriggered(w) \/ Recycle(w)
      PROVE  RemainingCounted'
  <2>1. /\ UNCHANGED <<registered, activated, watchersCopy, remainingCount>>
        /\ wpc[w] # "lock" /\ wpc'[w] # "lock"
        /\ \A v \in Worker : v # w => wpc'[v] = wpc[v] /\ wthread'[v] = wthread[v]
    BY <1>3 DEF Trigger, Resumed, ReleaseTriggered, Recycle, WatcherReturns, eventVars, contextVars,
       ContextTypeOK
  <2>2. \A q \in Thread : Locking(q)' = Locking(q)
    BY <2>1 DEF Locking, Watching
  <2>. QED BY <1>1, <2>1, <2>2
<1>4. ASSUME NEW w \in Worker, UpdateResult(w) PROVE RemainingCounted'
  <2>. DEFINE e == running[w]
  <2>1. /\ e \in Async /\ watchersCopy[e] = {}
        /\ watchersCopy' = [watchersCopy EXCEPT ![e] = activated[e]]
        /\ activated' = [activated EXCEPT ![e] = {}]
        /\ UNCHANGED <<registered, remainingCount, wpc, wthread>>
    BY <1>4, UpdatesOnce DEF UpdateResult, contextVars, watcherVars
  <2>2. \A d \in Async, q \in Thread :
          q \in activated'[d] \cup watchersCopy'[d] <=> q \in activated[d] \cup watchersCopy[d]
    BY <2>1 DEF ContextTypeOK
  <2>3. \A q \in Thread : Outstanding(q)' = Outstanding(q)
    BY <2>1, <2>2 DEF Outstanding
  <2>4. \A q \in Thread : Locking(q)' = Locking(q)
    BY <2>1 DEF Locking, Watching
  <2>5. ASSUME NEW q \in Thread PROVE Counted(q)'
    BY <2>1, <2>3, <2>4, CountFrame
  <2>. QED BY <2>5 DEF RemainingCounted, Counted
<1>5. CASE WaitingNext /\ UNCHANGED <<eventVars, contextVars, watcherVars>>
  BY <1>2, <1>5 DEF eventVars, contextVars, watcherVars
<1>6. ASSUME NEW w \in Worker, Watcher(w) PROVE RemainingCounted'
  BY <1>3, <1>6, TriggeredCounts, UnregisterCounts DEF Watcher
<1>7. ASSUME NEW w \in Worker, Wait(w) PROVE RemainingCounted'
  <2>1. CASE Deployed(w)
    BY <1>2, <2>1 DEF Deployed, eventVars, contextVars, watcherVars
  <2>. QED BY <1>7, <2>1, DeployCounts, ActivateCounts DEF Wait
<1>8. ASSUME NEW w \in Worker, EndOfScript(w) PROVE RemainingCounted'
  <2>1. CASE FinishScript(w)
    BY <1>2, <2>1 DEF FinishScript, eventVars, contextVars, watcherVars
  <2>. QED BY <1>4, <1>8, <2>1, NotifyCounts DEF EndOfScript
<1>. QED BY <1>5, <1>6, <1>7, <1>8 DEF Next

------------------------------------------------------------------------------
(* The contexts.                                                           *)

LEMMA ContextFrame ==
  ASSUME ContextInv, updated \subseteq updated',
         UNCHANGED <<waitingId, remainingCount, lockTriggered, result, recycledRef, wpc, wthread>>
  PROVE  ContextInv'
<1>1. FreshInv'
  BY DEF ContextInv, FreshInv
<1>2. TriggeredInv'
  BY DEF ContextInv, TriggeredInv
<1>3. FirstInv'
  BY DEF ContextInv, FirstInv
<1>4. LastInv'
  BY DEF ContextInv, LastInv
<1>. QED BY <1>1, <1>2, <1>3, <1>4 DEF ContextInv

LEMMA CalledContext ==
  ASSUME ContextTypeOK, ContextInv, updated' = updated,
         UNCHANGED <<waitingId, remainingCount, lockTriggered, result, recycledRef>>,
         NEW w \in Worker, NEW t \in Thread, NEW e \in Async, Called(w, t, e)
  PROVE  ContextInv'
<1>1. /\ wpc[w] = "none" /\ wpc'[w] = "lock" /\ wthread'[w] = t
      /\ \A v \in Worker : v # w => wpc'[v] = wpc[v] /\ wthread'[v] = wthread[v]
      /\ waitingId[t] # NotDeployed /\ remainingCount[t] # 0
  BY DEF Called, CallWatcher, ContextTypeOK
<1>2. FreshInv'
  BY <1>1 DEF ContextInv, FreshInv
<1>3. TriggeredInv'
  BY <1>1 DEF ContextInv, TriggeredInv
<1>4. FirstInv'
  BY <1>1 DEF ContextInv, FirstInv
<1>5. LastInv'
  BY <1>1 DEF ContextInv, LastInv
<1>. QED BY <1>2, <1>3, <1>4, <1>5 DEF ContextInv

LEMMA TargetCount ==
  \A t \in Thread : Cardinality(Targets[t]) \in Nat /\ (Targets[t] # {} => Cardinality(Targets[t]) # 0)
BY FS_CardinalityType, FS_EmptySet

LEMMA TriggeredContext ==
  ASSUME ContextTypeOK, LocalsInv, EventInv, ContextInv, RemainingCounted,
         NEW w \in Worker, LockTriggered(w)
  PROVE  ContextInv'
<1>. DEFINE t == wthread[w]
            first == remainingCount[t] = Cardinality(Targets[t])
<1>1. /\ t \in Thread /\ wpc[w] = "lock" /\ lockTriggered[t] = NoOne
      /\ lockTriggered' = [lockTriggered EXCEPT ![t] = w]
      /\ remainingCount' = [remainingCount EXCEPT ![t] = @ - 1]
      /\ wpc'[w] = IF first THEN "unregister" ELSE "release"
      /\ \A v \in Worker : v # w => wpc'[v] = wpc[v]
      /\ UNCHANGED <<updated, waitingId, result, recycledRef, wthread>>
  BY DEF LockTriggered, LocalsInv, eventVars, ContextTypeOK
<1>2. /\ lockTriggered'[t] = w /\ remainingCount'[t] = remainingCount[t] - 1
      /\ \A q \in Thread : q # t =>
           lockTriggered'[q] = lockTriggered[q] /\ remainingCount'[q] = remainingCount[q]
  BY <1>1 DEF ContextTypeOK
<1>3. remainingCount[t] \in Nat /\ remainingCount[t] - 1 \in Nat /\ Cardinality(Targets[t]) \in Nat
  BY <1>1, TriggeredCounts, TargetCount DEF ContextTypeOK
<1>4. remainingCount[t] <= Cardinality(Targets[t])
  BY <1>1 DEF ContextInv, FirstInv
<1>5. remainingCount'[t] # Cardinality(Targets[t]) /\ remainingCount'[t] <= Cardinality(Targets[t])
  BY <1>2, <1>3, <1>4
<1>6. waitingId[t] # NotDeployed
  BY <1>1 DEF ContextInv, FreshInv
<1>7. \A v \in Worker : v # w /\ wthread[v] = t => wpc[v] \in {"none", "lock", "recycle"}
  BY <1>1, NoneAssumption DEF ContextInv, TriggeredInv, Process, ContextTypeOK, WatcherState
<1>8. \A v \in Worker : wpc[v] = "recycle" => wthread[v] # t
  BY <1>1 DEF ContextInv, LastInv
<1>9. t \notin recycledRef
  BY <1>1 DEF ContextInv, LastInv
<1>10. FreshInv'
  BY <1>1, <1>2, <1>6 DEF ContextInv, FreshInv
<1>11. TriggeredInv'
  BY <1>1, <1>2, <1>7 DEF ContextInv, TriggeredInv
<1>12. FirstInv'
  <2>. USE <1>1, <1>2 DEF ContextInv
  <2>. HIDE DEF first
  <2>1. ASSUME NEW q \in Thread
        PROVE  /\ remainingCount'[q] <= Cardinality(Targets[q])
               /\ result'[q] # NoThread =>
                    /\ remainingCount'[q] # Cardinality(Targets[q])
                    /\ result'[q] \in updated' \cap Targets[q]
    BY <1>5 DEF FirstInv
  <2>2. ASSUME NEW v \in Worker, wpc'[v] \notin {"none", "lock"}
        PROVE  remainingCount'[wthread'[v]] # Cardinality(Targets[wthread'[v]])
    <3>1. CASE v = w
      BY <1>5, <3>1
    <3>2. CASE v # w
      <4>1. wthread[v] \in Thread
        BY <2>2, <3>2 DEF LocalsInv
      <4>. QED BY <1>5, <2>2, <3>2, <4>1 DEF FirstInv
    <3>. QED BY <3>1, <3>2
  <2>3. ASSUME NEW v \in Worker, wpc'[v] = "unregister"
        PROVE  result'[wthread'[v]] = NoThread
    BY <2>3 DEF FirstInv, first
  <2>4. ASSUME NEW q \in Thread, waitingId'[q] # NotDeployed, result'[q] = NoThread,
               remainingCount'[q] # Cardinality(Targets[q])
        PROVE  \E v \in Worker : wpc'[v] = "unregister" /\ wthread'[v] = q
    <3>1. CASE q = t /\ first
      BY <3>1
    <3>2. CASE q # t \/ ~ first
      <4>1. remainingCount[q] # Cardinality(Targets[q])
        BY <2>4, <3>2 DEF first
      <4>2. PICK v \in Worker : wpc[v] = "unregister" /\ wthread[v] = q
        BY <2>4, <4>1 DEF FirstInv
      <4>. QED BY <4>2
    <3>. QED BY <3>1, <3>2
  <2>. QED BY <2>1, <2>2, <2>3, <2>4 DEF FirstInv
<1>13. LastInv'
  <2>1. \A q \in recycledRef : q \in Thread /\ q # t
    BY <1>9 DEF ContextTypeOK
  <2>2. \A v \in Worker : wpc'[v] = "recycle" =>
          v # w /\ wpc[v] = "recycle" /\ wthread[v] \in Thread /\ wthread[v] # t
    BY <1>1, <1>8 DEF LocalsInv
  <2>. QED BY <1>1, <1>2, <2>1, <2>2 DEF ContextInv, LastInv
<1>. QED BY <1>10, <1>11, <1>12, <1>13 DEF ContextInv

LEMMA UnregisterContext ==
  ASSUME ContextTypeOK, LocalsInv, EventInv, ContextInv, RemainingCounted,
         NEW w \in Worker, NEW e \in Async, Unregister(w, e)
  PROVE  ContextInv'
<1>. DEFINE t == wthread[w]
<1>1. /\ t \in Thread /\ wpc[w] = "unregister"
      /\ UNCHANGED <<updated, waitingId, lockTriggered, result, recycledRef, wpc, wthread>>
  BY DEF Unregister, LocalsInv
<1>2. /\ \/ remainingCount'[t] = remainingCount[t]
         \/ remainingCount'[t] = remainingCount[t] - 1 /\ remainingCount[t] - 1 \in Nat
      /\ \A q \in Thread : q # t => remainingCount'[q] = remainingCount[q]
  BY <1>1, UnregisterCounts DEF Unregister, ContextTypeOK
<1>3. remainingCount[t] \in Nat /\ Cardinality(Targets[t]) \in Nat
  BY <1>1, TargetCount DEF ContextTypeOK
<1>4. /\ remainingCount[t] <= Cardinality(Targets[t])
      /\ remainingCount[t] # Cardinality(Targets[t])
  BY <1>1 DEF ContextInv, FirstInv
<1>5. remainingCount'[t] # Cardinality(Targets[t]) /\ remainingCount'[t] <= Cardinality(Targets[t])
  BY <1>2, <1>3, <1>4
<1>6. waitingId[t] # NotDeployed /\ t \notin recycledRef
  BY <1>1 DEF ContextInv, FreshInv, LastInv
<1>7. \A v \in Worker : wpc[v] = "recycle" => wthread[v] # t
  BY <1>1 DEF ContextInv, LastInv
<1>8. FreshInv'
  BY <1>1, <1>2, <1>6 DEF ContextInv, FreshInv
<1>9. TriggeredInv'
  BY <1>1 DEF ContextInv, TriggeredInv
<1>10. FirstInv'
  <2>. USE <1>1, <1>2 DEF ContextInv
  <2>1. ASSUME NEW q \in Thread
        PROVE  /\ remainingCount'[q] <= Cardinality(Targets[q])
               /\ result'[q] # NoThread =>
                    /\ remainingCount'[q] # Cardinality(Targets[q])
                    /\ result'[q] \in updated' \cap Targets[q]
    BY <1>5 DEF FirstInv
  <2>2. ASSUME NEW v \in Worker, wpc'[v] \notin {"none", "lock"}
        PROVE  remainingCount'[wthread'[v]] # Cardinality(Targets[wthread'[v]])
    <3>1. wthread[v] \in Thread
      BY <2>2 DEF LocalsInv
    <3>. QED BY <1>5, <2>2, <3>1 DEF FirstInv
  <2>3. ASSUME NEW v \in Worker, wpc'[v] = "unregister"
        PROVE  result'[wthread'[v]] = NoThread
    BY <2>3 DEF FirstInv
  <2>4. ASSUME NEW q \in Thread, waitingId'[q] # NotDeployed, result'[q] = NoThread,
               remainingCount'[q] # Cardinality(Targets[q])
        PROVE  \E v \in Worker : wpc'[v] = "unregister" /\ wthread'[v] = q
    <3>1. CASE q = t
      BY <3>1
    <3>2. CASE q # t
      BY <2>4, <3>2 DEF FirstInv
    <3>. QED BY <3>1, <3>2
  <2>. QED BY <2>1, <2>2, <2>3, <2>4 DEF FirstInv
<1>11. LastInv'
  <2>1. \A q \in recycledRef : q \in Thread /\ q # t
    BY <1>6 DEF ContextTypeOK
  <2>2. \A v \in Worker : wpc'[v] = "recycle" =>
          wpc[v] = "recycle" /\ wthread[v] \in Thread /\ wthread[v] # t
    BY <1>1, <1>7 DEF LocalsInv
  <2>. QED BY <1>1, <1>2, <2>1, <2>2 DEF ContextInv, LastInv
<1>. QED BY <1>8, <1>9, <1>10, <1>11 DEF ContextInv

LEMMA TriggerContext ==
  ASSUME ContextTypeOK, LocalsInv, ContextInv, NEW w \in Worker, Trigger(w)
  PROVE  ContextInv'
<1>. DEFINE t == wthread[w]
<1>1. /\ t \in Thread /\ wpc[w] = "unregister" /\ wpc'[w] = "resume"
      /\ \A v \in Worker : v # w => wpc'[v] = wpc[v]
      /\ result' = [result EXCEPT ![t] = wtarget[w]]
      /\ wtarget[w] \in updated \cap Targets[t] /\ wtarget[w] # NoThread
      /\ UNCHANGED <<updated, waitingId, remainingCount, lockTriggered, recycledRef, wthread>>
  BY DEF Trigger, LocalsInv, ContextTypeOK, eventVars
<1>2. result'[t] = wtarget[w] /\ \A q \in Thread : q # t => result'[q] = result[q]
  BY <1>1 DEF ContextTypeOK
<1>3. waitingId[t] # NotDeployed
  BY <1>1 DEF ContextInv, FreshInv
<1>4. \A v \in Worker : v # w /\ wthread[v] = t => wpc[v] # "unregister"
  BY <1>1 DEF ContextInv, TriggeredInv
<1>5. FreshInv'
  BY <1>1, <1>2, <1>3 DEF ContextInv, FreshInv
<1>6. TriggeredInv'
  BY <1>1 DEF ContextInv, TriggeredInv
<1>7. FirstInv'
  <2>. USE <1>1, <1>2 DEF ContextInv
  <2>1. ASSUME NEW q \in Thread
        PROVE  /\ remainingCount'[q] <= Cardinality(Targets[q])
               /\ result'[q] # NoThread =>
                    /\ remainingCount'[q] # Cardinality(Targets[q])
                    /\ result'[q] \in updated' \cap Targets[q]
    BY DEF FirstInv
  <2>2. ASSUME NEW v \in Worker, wpc'[v] \notin {"none", "lock"}
        PROVE  remainingCount'[wthread'[v]] # Cardinality(Targets[wthread'[v]])
    BY <2>2 DEF FirstInv
  <2>3. ASSUME NEW v \in Worker, wpc'[v] = "unregister"
        PROVE  result'[wthread'[v]] = NoThread
    <3>1. v # w /\ wpc[v] = "unregister" /\ wthread[v] \in Thread
      BY <2>3 DEF LocalsInv
    <3>. QED BY <1>4, <3>1 DEF FirstInv
  <2>4. ASSUME NEW q \in Thread, waitingId'[q] # NotDeployed, result'[q] = NoThread,
               remainingCount'[q] # Cardinality(Targets[q])
        PROVE  \E v \in Worker : wpc'[v] = "unregister" /\ wthread'[v] = q
    BY <2>4 DEF FirstInv
  <2>. QED BY <2>1, <2>2, <2>3, <2>4 DEF FirstInv
<1>8. LastInv'
  BY <1>1 DEF ContextInv, LastInv
<1>. QED BY <1>5, <1>6, <1>7, <1>8 DEF ContextInv

LEMMA ReleaseContext ==
  ASSUME ContextTypeOK, LocalsInv, EventInv, ContextInv, RemainingCounted,
         NEW w \in Worker, ReleaseTriggered(w)
  PROVE  ContextInv'
<1>. DEFINE t == wthread[w]
<1>1. /\ t \in Thread /\ wpc[w] = "release"
      /\ lockTriggered' = [lockTriggered EXCEPT ![t] = NoOne]
      /\ \A v \in Worker : v # w => wpc'[v] = wpc[v] /\ wthread'[v] = wthread[v]
      /\ \/ remainingCount[t] = 0 /\ wpc'[w] = "recycle" /\ wthread'[w] = t
         \/ wpc'[w] = "none"
      /\ UNCHANGED <<updated, waitingId, remainingCount, result, recycledRef>>
  BY DEF ReleaseTriggered, WatcherReturns, LocalsInv, ContextTypeOK, eventVars
<1>2. \A v \in Worker : wpc[v] \in {"unregister", "resume", "release"} /\ v # w => wthread[v] # t
  BY <1>1 DEF ContextInv, TriggeredInv
<1>3. \A q \in Thread : q # t => lockTriggered'[q] = lockTriggered[q]
  BY <1>1 DEF ContextTypeOK
<1>4. FreshInv'
  BY <1>1 DEF ContextInv, FreshInv
<1>5. TriggeredInv'
  BY <1>1, <1>2, <1>3 DEF ContextInv, TriggeredInv, LocalsInv
<1>6. FirstInv'
  BY <1>1 DEF ContextInv, FirstInv
<1>7. LastInv'
  <2>1. ASSUME wpc'[w] = "recycle", NEW v \in Worker, v # w, wpc[v] # "none"
        PROVE  wthread[v] # t
    <3>1. remainingCount[t] = 0
      BY <1>1, <2>1
    <3>2. wpc[v] = "lock" => wthread[v] # t
      BY <1>1, <3>1, CountFacts DEF Locking, Watching
    <3>3. wpc[v] = "recycle" => wthread[v] # t
      BY <1>1, <2>1 DEF ContextInv, LastInv
    <3>. QED BY <1>2, <2>1, <3>2, <3>3 DEF ContextTypeOK, WatcherState
  <2>2. \A q \in recycledRef : q # t
    BY <1>1 DEF ContextInv, LastInv
  <2>3. \A v \in Worker : wpc[v] = "recycle" => wthread[v] # t
    BY <1>1 DEF ContextInv, LastInv
  <2>. QED BY <1>1, <2>1, <2>2, <2>3 DEF ContextInv, LastInv
<1>. QED BY <1>4, <1>5, <1>6, <1>7 DEF ContextInv

LEMMA RecycleContext ==
  ASSUME ContextTypeOK, LocalsInv, ContextInv, NEW w \in Worker, Recycle(w)
  PROVE  ContextInv'
<1>. DEFINE t == wthread[w]
<1>1. /\ t \in Thread /\ wpc[w] = "recycle" /\ wpc'[w] = "none"
      /\ recycledRef' = recycledRef \cup {t}
      /\ \A v \in Worker : v # w => wpc'[v] = wpc[v] /\ wthread'[v] = wthread[v]
      /\ UNCHANGED <<updated, waitingId, remainingCount, lockTriggered, result>>
  BY DEF Recycle, WatcherReturns, LocalsInv, ContextTypeOK, eventVars
<1>2. /\ waitingId[t] # NotDeployed /\ remainingCount[t] = 0
      /\ \A v \in Worker : v # w /\ wpc[v] # "none" => wthread[v] # t
  BY <1>1 DEF ContextInv, FreshInv, LastInv
<1>3. FreshInv'
  BY <1>1, <1>2 DEF ContextInv, FreshInv
<1>4. TriggeredInv'
  BY <1>1 DEF ContextInv, TriggeredInv
<1>5. FirstInv'
  BY <1>1 DEF ContextInv, FirstInv
<1>6. LastInv'
  BY <1>1, <1>2 DEF ContextInv, LastInv
<1>. QED BY <1>3, <1>4, <1>5, <1>6 DEF ContextInv

LEMMA DeployContext ==
  ASSUME ContextTypeOK, LocalsInv, ContextInv, NEW w \in Worker, Deploy(w)
  PROVE  ContextInv'
<1>. DEFINE t == running[w]
<1>1. /\ t \in Thread /\ Targets[t] # {} /\ waitingId[t] = NotDeployed
      /\ waitingId' = [waitingId EXCEPT ![t] = newId[w]]
      /\ remainingCount' = [remainingCount EXCEPT ![t] = Cardinality(Targets[t])]
      /\ UNCHANGED <<updated, lockTriggered, result, recycledRef, wpc, wthread>>
  BY DEF Deploy, LocalsInv, watcherVars
<1>2. /\ remainingCount'[t] = Cardinality(Targets[t])
      /\ \A q \in Thread : q # t =>
           remainingCount'[q] = remainingCount[q] /\ waitingId'[q] = waitingId[q]
      /\ waitingId'[t] # NotDeployed
  BY <1>1 DEF ContextTypeOK, TypeOK, NotDeployed, WaitId
<1>3. /\ result[t] = NoThread /\ t \notin recycledRef
      /\ \A v \in Worker : wpc[v] # "none" => wthread[v] # t
  BY <1>1 DEF ContextInv, FreshInv
<1>4. Cardinality(Targets[t]) \in Nat
  BY <1>1, TargetCount
<1>5. FreshInv'
  BY <1>1, <1>2 DEF ContextInv, FreshInv
<1>6. TriggeredInv'
  BY <1>1 DEF ContextInv, TriggeredInv
<1>7. FirstInv'
  <2>1. \A v \in Worker : wpc[v] # "none" => wthread[v] \in Thread
    BY DEF LocalsInv
  <2>. QED BY <1>1, <1>2, <1>3, <1>4, <2>1 DEF ContextInv, FirstInv
<1>8. LastInv'
  <2>1. \A v \in Worker : wpc[v] # "none" => wthread[v] \in Thread
    BY DEF LocalsInv
  <2>2. recycledRef \subseteq Thread
    BY DEF ContextTypeOK
  <2>. QED BY <1>1, <1>2, <1>3, <2>1, <2>2 DEF ContextInv, LastInv
<1>. QED BY <1>5, <1>6, <1>7, <1>8 DEF ContextInv

LEMMA ResumedContext ==
  ASSUME ContextTypeOK, ContextInv, NEW w \in Worker, Resumed(w)
  PROVE  ContextInv'
<1>1. /\ wpc[w] = "resume" /\ wpc'[w] = "release"
      /\ \A v \in Worker : v # w => wpc'[v] = wpc[v]
      /\ UNCHANGED <<updated, waitingId, remainingCount, lockTriggered, result, recycledRef, wthread>>
  BY DEF Resumed, ContextTypeOK, eventVars, contextVars
<1>2. FreshInv'
  BY <1>1 DEF ContextInv, FreshInv
<1>3. TriggeredInv'
  BY <1>1 DEF ContextInv, TriggeredInv
<1>4. FirstInv'
  BY <1>1 DEF ContextInv, FirstInv
<1>5. LastInv'
  BY <1>1 DEF ContextInv, LastInv
<1>. QED BY <1>2, <1>3, <1>4, <1>5 DEF ContextInv

LEMMA ContextStep ==
  ASSUME ContextTypeOK, LocalsInv, EventInv, ContextInv, RemainingCounted, Next
  PROVE  ContextInv'
<1>1. CASE WaitingNext /\ UNCHANGED <<eventVars, contextVars, watcherVars>>
  BY <1>1, ContextFrame DEF eventVars, contextVars, watcherVars
<1>2. ASSUME NEW w \in Worker, Watcher(w) PROVE ContextInv'
  BY <1>2, TriggeredContext, UnregisterContext, TriggerContext, ResumedContext, ReleaseContext,
     RecycleContext DEF Watcher
<1>3. ASSUME NEW w \in Worker, Deploy(w) \/ Deployed(w) \/ UpdateResult(w) \/ FinishScript(w)
      PROVE  ContextInv'
  <2>1. CASE Deploy(w)
    BY <2>1, DeployContext
  <2>2. CASE Deployed(w) \/ UpdateResult(w) \/ FinishScript(w)
    <3>1. /\ updated \subseteq updated'
          /\ UNCHANGED <<waitingId, remainingCount, lockTriggered, result, recycledRef, wpc, wthread>>
      BY <2>2 DEF Deployed, UpdateResult, FinishScript, eventVars, contextVars, watcherVars
    <3>. QED BY <3>1, ContextFrame
  <2>. QED BY <1>3, <2>1, <2>2
<1>4. ASSUME NEW w \in Worker, NEW e \in Async, Activate(w, e) PROVE ContextInv'
  <2>1. UNCHANGED <<updated, waitingId, remainingCount, lockTriggered, result, recycledRef>>
    BY <1>4 DEF Activate
  <2>2. CASE UNCHANGED watcherVars
    BY <2>1, <2>2, ContextFrame DEF watcherVars
  <2>3. CASE Called(w, running[w], e)
    BY <2>1, <2>3, CalledContext DEF Called
  <2>. QED BY <1>4, <2>2, <2>3, ActivateCounts
<1>5. ASSUME NEW w \in Worker, NEW t \in Thread, NotifyNext(w, t) PROVE ContextInv'
  <2>1. UNCHANGED <<updated, waitingId, remainingCount, lockTriggered, result, recycledRef>>
    BY <1>5 DEF NotifyNext, contextVars
  <2>2. Called(w, t, running[w]) /\ running[w] \in Async
    BY <1>5, NotifyCounts DEF NotifyNext, LocalsInv, ContextTypeOK
  <2>. QED BY <2>1, <2>2, CalledContext
<1>. QED BY <1>1, <1>2, <1>3, <1>4, <1>5 DEF Next, Wait, EndOfScript

------------------------------------------------------------------------------
(* Types.                                                                  *)

LEMMA RecycledType ==
  ASSUME NEW s \in Seq(WaitId), NEW i \in WaitId
  PROVE  Append(s, i) \in Seq(WaitId) /\ (s # <<>> => SubSeq(s, 1, Len(s) - 1) \in Seq(WaitId))
<1>1. Len(s) \in Nat /\ \A k \in 1..Len(s) : s[k] \in WaitId
  BY ElementOfSeq, LenProperties
<1>2. ASSUME s # <<>> PROVE SubSeq(s, 1, Len(s) - 1) \in Seq(WaitId)
  <2>1. 1 \in Int /\ Len(s) - 1 \in Int /\ \A k \in 1..Len(s) - 1 : s[k] \in WaitId
    BY <1>1
  <2>. QED BY <2>1, SubSeqProperties
<1>. QED BY <1>2

LEMMA WorkersType ==
  ASSUME TypeOK, LocalsInv, Next
  PROVE  /\ multiThread' \in BOOLEAN /\ ended' \in BOOLEAN
         /\ calls' \in [Thread -> Nat] /\ \A t \in Thread : calls'[t] <= MaxCall[t]
<1>. USE DEF TypeOK
<1>1. CASE UNCHANGED <<multiThread, ended, calls>>
  BY <1>1
<1>2. CASE LoopEnds
  BY <1>2 DEF LoopEnds
<1>3. ASSUME NEW w \in Worker, EnterNative(w)
      PROVE  /\ multiThread' \in BOOLEAN /\ ended' \in BOOLEAN
             /\ calls' \in [Thread -> Nat] /\ \A t \in Thread : calls'[t] <= MaxCall[t]
  <2>1. /\ running[w] \in Thread /\ calls[running[w]] < MaxCall[running[w]]
        /\ calls' = [calls EXCEPT ![running[w]] = @ + 1]
        /\ UNCHANGED <<multiThread, ended>>
    BY <1>3 DEF EnterNative, LocalsInv
  <2>. QED BY <2>1
<1>4. CASE WaitingNext
  BY <1>4, <1>1, <1>2, <1>3 DEF WaitingNext, Dispatch, Yield, NativeCall, LockNative,
     RequestToPause, Pause, Arm, NativeThrows, LeaveNative, PostProcess, UnlockNative, Resume,
     Unlock, ResumeLookUp, ResumeAtOnce, ResumeEnqueue, ResumeErase, runVars
<1>5. ASSUME NEW w \in Worker, Watcher(w) \/ Wait(w) \/ EndOfScript(w)
      PROVE  UNCHANGED <<multiThread, ended, calls>>
  BY <1>5 DEF Watcher, LockTriggered, Unregister, Trigger, Resumed, ReleaseTriggered, Recycle,
     Wait, Deploy, Activate, Deployed, EndOfScript, UpdateResult, FinishScript, Finish, NotifyNext,
     waitVars, runVars
<1>. QED BY <1>1, <1>4, <1>5 DEF Next

RunsType ==
  /\ queue \in [Thread -> Nat] /\ pc \in [Worker -> WorkerState]
  /\ running \in [Worker -> Thread \cup {NoThread}] /\ gone \subseteq Thread

LEMMA RunsTypeStep ==
  ASSUME TypeOK, LocalsInv, ResumeLocal, Next
  PROVE  RunsType'
<1>. USE DEF TypeOK, RunsType
<1>1. CASE UNCHANGED <<queue, running, gone, pc>>
  BY <1>1
<1>2. ASSUME NEW w \in Worker, NEW l \in WorkerState, GoesOn(w, l) PROVE RunsType'
  BY <1>2 DEF GoesOn, GoTo
<1>3. ASSUME NEW w \in Worker, NEW t \in Thread, Dispatch(w, t) PROVE RunsType'
  BY <1>3 DEF Dispatch, GoTo, WorkerState
<1>4. ASSUME NEW w \in Worker, Yield(w) PROVE RunsType'
  BY <1>4 DEF Yield, Enqueue, GoTo, WorkerState, LocalsInv
<1>5. ASSUME NEW w \in Worker, FinishScript(w) PROVE RunsType'
  BY <1>5 DEF FinishScript, Finish, GoTo, WorkerState, LocalsInv
<1>6. ASSUME NEW w \in Worker, PostProcess(w) PROVE RunsType'
  <2>1. running[w] \in Thread /\ pc' = [pc EXCEPT ![w] = "unlock"]
        /\ UNCHANGED <<running, gone>>
    BY <1>6 DEF PostProcess, GoTo, LocalsInv
  <2>2. queue' = queue \/ queue' = [queue EXCEPT ![running[w]] = @ + 1]
    BY <1>6 DEF PostProcess, Enqueue
  <2>3. queue \in [Thread -> Nat] /\ queue[running[w]] + 1 \in Nat
    BY <2>1
  <2>4. queue' \in [Thread -> Nat]
    BY <2>2, <2>3, ZenonT(60)
  <2>. QED BY <2>1, <2>4 DEF WorkerState
<1>7. ASSUME NEW w \in Worker, UnlockNative(w) PROVE RunsType'
  BY <1>7 DEF UnlockNative, GoTo, WorkerState
<1>8. ASSUME NEW o \in Process, ResumeEnqueue(o) PROVE RunsType'
  <2>1. rthread[o] \in Thread /\ queue' = [queue EXCEPT ![rthread[o]] = @ + 1]
        /\ UNCHANGED <<pc, running, gone>>
    BY <1>8 DEF ResumeEnqueue, Enqueue, ResumeLocal
  <2>. QED BY <2>1
<1>. QED BY RunSplit, <1>1, <1>2, <1>3, <1>4, <1>5, <1>6, <1>7, <1>8 DEF RunCases

NativeType ==
  /\ nativeBy \in [Thread -> Process \cup {NoOne}]
  /\ lockNative \in [Thread -> Process \cup {NoOne}]
  /\ pauseRequested \in [Thread -> BOOLEAN]
  /\ newId \in [Worker -> WaitId]

LEMMA NativeTypeStep ==
  ASSUME TypeOK, LocalsInv, Next
  PROVE  NativeType'
<1>. USE DEF TypeOK, NativeType
<1>0. 0 \in WaitId /\ Worker \subseteq Process
  BY DEF WaitId, Process
<1>1. CASE UNCHANGED nativeVars
  BY <1>1 DEF nativeVars
<1>2. ASSUME NEW w \in Worker, EnterNative(w) \/ LockNative(w) \/ RequestToPause(w) PROVE NativeType'
  BY <1>0, <1>2, ZenonT(60) DEF EnterNative, LockNative, RequestToPause
<1>3. ASSUME NEW w \in Worker, Pause(w) PROVE NativeType'
  BY <1>3 DEF Pause
<1>4. ASSUME NEW w \in Worker, NativeThrows(w) \/ LeaveNative(w) \/ UnlockNative(w) PROVE NativeType'
  <2>1. CASE NativeThrows(w)
    BY <1>0, <2>1 DEF NativeThrows
  <2>2. CASE LeaveNative(w)
    BY <1>0, <2>2 DEF LeaveNative
  <2>3. CASE UnlockNative(w)
    BY <2>3 DEF UnlockNative
  <2>. QED BY <1>4, <2>1, <2>2, <2>3
<1>5. ASSUME NEW o \in Process, ResumeAtOnce(o) PROVE NativeType'
  BY <1>5 DEF ResumeAtOnce
<1>6. ASSUME NEW w \in Worker, NativeCall(w) PROVE NativeType'
  BY <1>1, <1>2, <1>3, <1>4, <1>6 DEF NativeCall, Arm, PostProcess
<1>7. ASSUME NEW o \in Process, Resume(o) PROVE NativeType'
  BY <1>1, <1>5, <1>7 DEF Resume, Unlock, ResumeLookUp, ResumeEnqueue, ResumeErase
<1>8. CASE WaitingNext
  BY <1>1, <1>6, <1>7, <1>8 DEF WaitingNext, LoopEnds, Dispatch, Yield
<1>9. ASSUME NEW w \in Worker, Watcher(w) \/ Wait(w) \/ EndOfScript(w) PROVE UNCHANGED nativeVars
  BY <1>9 DEF Watcher, LockTriggered, Unregister, Trigger, Resumed, ReleaseTriggered, Recycle,
     Wait, Deploy, Activate, Deployed, EndOfScript, UpdateResult, FinishScript, Finish, NotifyNext,
     waitVars
<1>. QED BY <1>1, <1>8, <1>9 DEF Next

TableType ==
  /\ waitingThreads \in [WaitId -> Thread \cup {NoThread}]
  /\ recycled \in Seq(WaitId) /\ hasWaiting \in BOOLEAN /\ armed \subseteq WaitId

LEMMA TableTypeStep ==
  ASSUME TypeOK, LocalsInv, Next
  PROVE  TableType'
<1>. USE DEF TypeOK, TableType
<1>1. CASE UNCHANGED tableVars
  BY <1>1 DEF tableVars
<1>2. ASSUME NEW w \in Worker, RequestToPause(w) \/ Arm(w) PROVE TableType'
  BY <1>2 DEF RequestToPause, Arm
<1>3. ASSUME NEW w \in Worker, Pause(w) PROVE TableType'
  <2>. DEFINE id == IF recycled = <<>> THEN Cardinality(InTable) ELSE recycled[Len(recycled)]
  <2>1. /\ recycled' = IF recycled = <<>> THEN recycled ELSE SubSeq(recycled, 1, Len(recycled) - 1)
        /\ id \in WaitId /\ running[w] \in Thread
        /\ waitingThreads' = IF id \in InTable THEN waitingThreads
                             ELSE [waitingThreads EXCEPT ![id] = running[w]]
        /\ UNCHANGED <<hasWaiting, armed>>
    BY <1>3 DEF Pause, LocalsInv
  <2>. HIDE DEF id
  <2>2. recycled' \in Seq(WaitId)
    <3>1. CASE recycled = <<>>
      BY <2>1, <3>1
    <3>2. CASE recycled # <<>>
      <4>1. 0 \in WaitId
        BY DEF WaitId
      <4>. QED BY <2>1, <3>2, <4>1, RecycledType
    <3>. QED BY <3>1, <3>2
  <2>3. waitingThreads' \in [WaitId -> Thread \cup {NoThread}]
    BY <2>1
  <2>. QED BY <2>1, <2>2, <2>3
<1>4. ASSUME NEW o \in Process, NEW i \in WaitId, Unlock(o, i) PROVE TableType'
  BY <1>4 DEF Unlock
<1>5. ASSUME NEW o \in Process, ResumeErase(o) PROVE TableType'
  BY <1>5, RecycledType DEF ResumeErase
<1>6. ASSUME NEW w \in Worker, NativeCall(w) PROVE TableType'
  BY <1>1, <1>2, <1>3, <1>6 DEF NativeCall, EnterNative, LockNative, NativeThrows, LeaveNative,
     PostProcess, UnlockNative
<1>7. ASSUME NEW o \in Process, Resume(o) PROVE TableType'
  BY <1>1, <1>4, <1>5, <1>7 DEF Resume, ResumeLookUp, ResumeAtOnce, ResumeEnqueue
<1>8. CASE WaitingNext
  BY <1>1, <1>6, <1>7, <1>8 DEF WaitingNext, LoopEnds, Dispatch, Yield
<1>9. ASSUME NEW w \in Worker, Watcher(w) \/ Wait(w) \/ EndOfScript(w) PROVE UNCHANGED tableVars
  BY <1>9 DEF Watcher, LockTriggered, Unregister, Trigger, Resumed, ReleaseTriggered, Recycle,
     Wait, Deploy, Activate, Deployed, EndOfScript, UpdateResult, FinishScript, Finish, NotifyNext,
     waitVars
<1>. QED BY <1>1, <1>8, <1>9 DEF Next

ResumeType ==
  /\ rpc \in [Process -> ResumeState] /\ rid \in [Process -> WaitId]
  /\ rthread \in [Process -> Thread \cup {NoThread}]

LEMMA ResumeTypeStep ==
  ASSUME ContextTypeOK, LocalsInv, ContextInv, Next
  PROVE  ResumeType'
<1>. USE DEF ContextTypeOK, TypeOK, ResumeType
<1>0. 0 \in WaitId /\ Worker \subseteq Process
  BY DEF WaitId, Process
<1>1. CASE UNCHANGED resumeVars
  BY <1>1 DEF resumeVars
<1>2. ASSUME NEW o \in Process, NEW i \in WaitId, CallResume(o, i) PROVE ResumeType'
  BY <1>2 DEF CallResume, ResumeState
<1>3. ASSUME NEW o \in Process,
             ResumeLookUp(o) \/ ResumeAtOnce(o) \/ ResumeEnqueue(o) \/ ResumeErase(o)
      PROVE  ResumeType'
  <2>1. CASE ResumeLookUp(o)
    <3>1. /\ rpc' = [rpc EXCEPT ![o] = "none"] \/ rpc' = [rpc EXCEPT ![o] = "wake"]
          /\ rthread' = [rthread EXCEPT ![o] = waitingThreads[rid[o]]] /\ rid' = rid
      BY <2>1 DEF ResumeLookUp
    <3>2. waitingThreads[rid[o]] \in Thread \cup {NoThread}
      OBVIOUS
    <3>. QED BY <3>1, <3>2 DEF ResumeState
  <2>2. CASE ResumeAtOnce(o) \/ ResumeEnqueue(o)
    BY <2>2 DEF ResumeAtOnce, ResumeEnqueue, ResumeState
  <2>3. CASE ResumeErase(o)
    BY <1>0, <2>3 DEF ResumeErase, ResumeState
  <2>. QED BY <1>3, <2>1, <2>2, <2>3
<1>4. ASSUME NEW o \in Process, Resume(o) PROVE ResumeType'
  BY <1>2, <1>3, <1>4 DEF Resume, Unlock
<1>5. CASE WaitingNext
  BY <1>1, <1>4, <1>5 DEF WaitingNext, LoopEnds, Dispatch, Yield, NativeCall, EnterNative,
     LockNative, RequestToPause, Pause, Arm, NativeThrows, LeaveNative, PostProcess, UnlockNative
<1>6. ASSUME NEW w \in Worker, Trigger(w) PROVE ResumeType'
  <2>1. CallResume(w, waitingId[wthread[w]]) /\ wpc[w] = "unregister" /\ wthread[w] \in Thread
    BY <1>6 DEF Trigger, LocalsInv
  <2>2. waitingId[wthread[w]] \in WaitId
    BY <2>1 DEF ContextInv, FreshInv, NotDeployed, WaitId
  <2>. QED BY <1>0, <1>2, <2>1, <2>2
<1>7. ASSUME NEW w \in Worker, Watcher(w) \/ Wait(w) \/ EndOfScript(w), ~ Trigger(w)
      PROVE  UNCHANGED resumeVars
  BY <1>7 DEF Watcher, LockTriggered, Unregister, Resumed, ReleaseTriggered, Recycle,
     Wait, Deploy, Activate, Deployed, EndOfScript, UpdateResult, FinishScript, Finish, NotifyNext,
     waitVars
<1>. QED BY <1>1, <1>5, <1>6, <1>7 DEF Next

EventType ==
  /\ updated \subseteq Async /\ registered \in [Async -> SUBSET Thread]
  /\ activated \in [Async -> SUBSET Thread] /\ watchersCopy \in [Async -> SUBSET Thread]

LEMMA EventTypeStep ==
  ASSUME ContextTypeOK, LocalsInv, Next
  PROVE  EventType'
<1>. USE DEF EventType
<1>0. EventType
  BY DEF ContextTypeOK
<1>1. CASE UNCHANGED eventVars
  BY <1>0, <1>1 DEF eventVars
<1>2. ASSUME NEW w \in Worker, NEW e \in Async, Unregister(w, e) PROVE EventType'
  BY <1>0, <1>2 DEF Unregister
<1>3. ASSUME NEW w \in Worker, Deploy(w) PROVE EventType'
  <2>1. running[w] \in Thread
    BY <1>3 DEF Deploy, LocalsInv
  <2>. QED BY <1>0, <1>3, <2>1 DEF Deploy
<1>4. ASSUME NEW w \in Worker, NEW e \in Async, Activate(w, e) PROVE EventType'
  <2>1. /\ running[w] \in Thread /\ UNCHANGED <<updated, watchersCopy>>
        /\ registered' = [registered EXCEPT ![e] = @ \ {running[w]}]
    BY <1>4 DEF Activate, LocalsInv
  <2>2. \/ activated' = activated
        \/ activated' = [activated EXCEPT
             ![e] = @ \cup (IF running[w] \in registered[e] THEN {running[w]} ELSE {})]
    BY <1>4 DEF Activate
  <2>3. activated' \in [Async -> SUBSET Thread]
    BY <1>0, <2>1, <2>2
  <2>. QED BY <1>0, <2>1, <2>3
<1>5. ASSUME NEW w \in Worker, UpdateResult(w) PROVE EventType'
  BY <1>0, <1>5 DEF UpdateResult
<1>6. ASSUME NEW w \in Worker, NEW t \in Thread, NotifyNext(w, t) PROVE EventType'
  BY <1>0, <1>6 DEF NotifyNext
<1>7. ASSUME NEW w \in Worker, Watcher(w) PROVE EventType'
  BY <1>1, <1>2, <1>7 DEF Watcher, LockTriggered, Trigger, Resumed, ReleaseTriggered, Recycle
<1>8. ASSUME NEW w \in Worker, Wait(w) \/ EndOfScript(w) PROVE EventType'
  BY <1>1, <1>3, <1>4, <1>5, <1>6, <1>8 DEF Wait, Deployed, EndOfScript, FinishScript
<1>. QED BY <1>1, <1>7, <1>8 DEF Next

ContextType ==
  /\ waitingId \in [Thread -> 0..NotDeployed] /\ toActivate \in [Thread -> SUBSET Async]
  /\ remainingCount \in [Thread -> Nat] /\ lockTriggered \in [Thread -> Process \cup {NoOne}]
  /\ result \in [Thread -> Async \cup {NoThread}] /\ recycledRef \subseteq Thread

LEMMA ContextTypeStep ==
  ASSUME ContextTypeOK, LocalsInv, EventInv, RemainingCounted, Next
  PROVE  ContextType'
<1>. USE DEF ContextType
<1>0. ContextType /\ Worker \subseteq Process
  BY DEF ContextTypeOK, Process
<1>1. ASSUME UNCHANGED contextVars PROVE ContextType'
  BY <1>0, <1>1 DEF contextVars
<1>2. ASSUME NEW w \in Worker, LockTriggered(w) PROVE ContextType'
  <2>. DEFINE t == wthread[w]
  <2>1. /\ t \in Thread /\ lockTriggered' = [lockTriggered EXCEPT ![t] = w]
        /\ remainingCount' = [remainingCount EXCEPT ![t] = remainingCount[t] - 1]
        /\ UNCHANGED <<waitingId, toActivate, result, recycledRef>>
    BY <1>2 DEF LockTriggered, LocalsInv
  <2>2. remainingCount[t] - 1 \in Nat
    BY <1>2, TriggeredCounts
  <2>. QED BY <1>0, <2>1, <2>2
<1>3. ASSUME NEW w \in Worker, NEW e \in Async, Unregister(w, e) PROVE ContextType'
  <2>. DEFINE t == wthread[w]
  <2>1. UNCHANGED <<waitingId, toActivate, lockTriggered, result, recycledRef>>
    BY <1>3 DEF Unregister
  <2>2. remainingCount' = remainingCount
        \/ remainingCount' = [remainingCount EXCEPT ![t] = remainingCount[t] - 1]
    BY <1>3 DEF Unregister
  <2>3. remainingCount' = remainingCount \/ remainingCount[t] - 1 \in Nat
    BY <1>3, UnregisterCounts
  <2>4. remainingCount' \in [Thread -> Nat]
    BY <1>0, <2>2, <2>3
  <2>. QED BY <1>0, <2>1, <2>4
<1>4. ASSUME NEW w \in Worker, Trigger(w) PROVE ContextType'
  BY <1>0, <1>4 DEF Trigger, LocalsInv
<1>5. ASSUME NEW w \in Worker, ReleaseTriggered(w) PROVE ContextType'
  BY <1>0, <1>5 DEF ReleaseTriggered
<1>6. ASSUME NEW w \in Worker, Recycle(w) PROVE ContextType'
  BY <1>0, <1>6 DEF Recycle, LocalsInv
<1>7. ASSUME NEW w \in Worker, Deploy(w) PROVE ContextType'
  <2>. DEFINE t == running[w]
  <2>1. /\ t \in Thread /\ waitingId' = [waitingId EXCEPT ![t] = newId[w]]
        /\ remainingCount' = [remainingCount EXCEPT ![t] = Cardinality(Targets[t])]
        /\ toActivate' = [toActivate EXCEPT ![t] = Targets[t]]
        /\ UNCHANGED <<lockTriggered, result, recycledRef>>
    BY <1>7 DEF Deploy, LocalsInv
  <2>2. newId[w] \in 0..NotDeployed
    BY DEF ContextTypeOK, TypeOK, WaitId, NotDeployed
  <2>3. Cardinality(Targets[t]) \in Nat
    BY <2>1, TargetCount
  <2>. QED BY <1>0, <2>1, <2>2, <2>3
<1>8. ASSUME NEW w \in Worker, NEW e \in Async, Activate(w, e) PROVE ContextType'
  BY <1>0, <1>8 DEF Activate
<1>9. ASSUME NEW w \in Worker, Watcher(w) PROVE ContextType'
  BY <1>1, <1>2, <1>3, <1>4, <1>5, <1>6, <1>9 DEF Watcher, Resumed
<1>10. ASSUME NEW w \in Worker, Wait(w) \/ EndOfScript(w) PROVE ContextType'
  BY <1>1, <1>7, <1>8, <1>10 DEF Wait, Deployed, EndOfScript, UpdateResult, FinishScript, NotifyNext
<1>. QED BY <1>1, <1>9, <1>10 DEF Next

WatcherType ==
  /\ wpc \in [Worker -> WatcherState] /\ wthread \in [Worker -> Thread \cup {NoThread}]
  /\ wtarget \in [Worker -> Async \cup {NoThread}] /\ toUnregister \in [Worker -> SUBSET Async]

LEMMA WatcherTypeStep ==
  ASSUME ContextTypeOK, LocalsInv, EventInv, RemainingCounted, Next
  PROVE  WatcherType'
<1>. USE DEF WatcherType
<1>0. WatcherType /\ WatcherState = {"none", "lock", "unregister", "resume", "release", "recycle"}
  BY DEF ContextTypeOK, WatcherState
<1>1. ASSUME UNCHANGED watcherVars PROVE WatcherType'
  BY <1>0, <1>1 DEF watcherVars
<1>2. ASSUME NEW w \in Worker, WatcherReturns(w), UNCHANGED toUnregister PROVE WatcherType'
  BY <1>0, <1>2 DEF WatcherReturns
<1>3. ASSUME NEW w \in Worker, NEW t \in Thread, NEW e \in Async, CallWatcher(w, t, e)
      PROVE  WatcherType'
  BY <1>0, <1>3 DEF CallWatcher
<1>4. ASSUME NEW w \in Worker, LockTriggered(w) PROVE WatcherType'
  <2>1. wthread[w] \in Thread /\ UNCHANGED <<wthread, wtarget>>
    BY <1>4 DEF LockTriggered, LocalsInv
  <2>2. \/ wpc' = [wpc EXCEPT ![w] = "unregister"]
        \/ wpc' = [wpc EXCEPT ![w] = "release"]
    BY <1>4 DEF LockTriggered
  <2>3. \/ toUnregister' = [toUnregister EXCEPT ![w] = Targets[wthread[w]]]
        \/ toUnregister' = [toUnregister EXCEPT ![w] = {}]
    BY <1>4 DEF LockTriggered
  <2>. QED BY <1>0, <2>1, <2>2, <2>3
<1>5. ASSUME NEW w \in Worker, NEW e \in Async, Unregister(w, e) PROVE WatcherType'
  BY <1>0, <1>5 DEF Unregister
<1>6. ASSUME NEW w \in Worker, Trigger(w) \/ Resumed(w) PROVE WatcherType'
  BY <1>0, <1>6 DEF Trigger, Resumed
<1>7. ASSUME NEW w \in Worker, ReleaseTriggered(w) PROVE WatcherType'
  <2>1. CASE WatcherReturns(w)
    BY <1>2, <1>7, <2>1 DEF ReleaseTriggered
  <2>2. CASE ~ WatcherReturns(w)
    BY <1>0, <1>7, <2>2 DEF ReleaseTriggered
  <2>. QED BY <2>1, <2>2
<1>8. ASSUME NEW w \in Worker, Recycle(w) PROVE WatcherType'
  BY <1>2, <1>8 DEF Recycle
<1>9. ASSUME NEW w \in Worker, NEW e \in Async, Activate(w, e) PROVE WatcherType'
  BY <1>1, <1>3, <1>9, ActivateCounts DEF Called
<1>10. ASSUME NEW w \in Worker, NEW t \in Thread, NotifyNext(w, t) PROVE WatcherType'
  <2>1. running[w] \in Async /\ CallWatcher(w, t, running[w])
    BY <1>10 DEF NotifyNext, LocalsInv, ContextTypeOK
  <2>. QED BY <1>3, <2>1
<1>11. ASSUME NEW w \in Worker, Watcher(w) PROVE WatcherType'
  BY <1>4, <1>5, <1>6, <1>7, <1>8, <1>11 DEF Watcher
<1>12. ASSUME NEW w \in Worker, Wait(w) \/ EndOfScript(w) PROVE WatcherType'
  BY <1>1, <1>9, <1>10, <1>12 DEF Wait, Deploy, Deployed, EndOfScript, UpdateResult, FinishScript
<1>. QED BY <1>1, <1>11, <1>12 DEF Next

LEMMA TypeStep ==
  ASSUME ContextTypeOK, LocalsInv, EventInv, ContextInv, RemainingCounted, Next
  PROVE  ContextTypeOK'
<1>1. TypeOK /\ ResumeLocal
  BY LocalParts DEF ContextTypeOK
<1>2. RunsType' /\ NativeType' /\ TableType' /\ ResumeType' /\ EventType' /\ ContextType' /\ WatcherType'
  BY <1>1, RunsTypeStep, NativeTypeStep, TableTypeStep, ResumeTypeStep, EventTypeStep,
     ContextTypeStep, WatcherTypeStep
<1>3. /\ multiThread' \in BOOLEAN /\ ended' \in BOOLEAN
      /\ calls' \in [Thread -> Nat] /\ \A t \in Thread : calls'[t] <= MaxCall[t]
  BY <1>1, WorkersType
<1>. QED BY <1>2, <1>3 DEF ContextTypeOK, TypeOK, RunsType, NativeType, TableType, ResumeType,
     EventType, ContextType, WatcherType

------------------------------------------------------------------------------
(* The invariant holds at the start, and always.                           *)

LEMMA InitInd == Init => IndInv
<1>. SUFFICES ASSUME Init PROVE IndInv
  OBVIOUS
<1>. USE DEF Init, WaitingInit
<1>1. ContextTypeOK
  <2>1. /\ "idle" \in WorkerState /\ "none" \in ResumeState /\ "none" \in WatcherState
        /\ 0 \in WaitId /\ NotDeployed \in 0..NotDeployed
    BY DEF WorkerState, ResumeState, WatcherState, WaitId, NotDeployed
  <2>2. \A t \in Thread : 0 <= MaxCall[t]
    OBVIOUS
  <2>3. recycled \in Seq(WaitId)
    OBVIOUS
  <2>4. TypeOK
    BY <2>1, <2>2, <2>3 DEF TypeOK
  <2>. QED BY <2>1, <2>4 DEF ContextTypeOK
<1>2. LocalsInv
  BY DEF LocalsInv, Process
<1>3. RunInv
  BY NoneAssumption DEF RunInv, Runs
<1>4. NativeInv
  BY DEF NativeInv
<1>5. IdsInv
  <2>1. Free = {} /\ InTable = {} /\ 1..Len(recycled) = {}
    BY DEF Free, InTable
  <2>2. 0 \in 0..MaxId + 1 /\ 0..0 - 1 = {}
    BY BoundAssumption
  <2>3. \A j, k \in 1..Len(recycled) : recycled[j] = recycled[k] => j = k
    BY <2>1
  <2>4. \E n \in 0..MaxId + 1 : Free \cup InTable = 0..n - 1
    BY <2>1, <2>2
  <2>5. Free \cap InTable = {}
    BY <2>1
  <2>. QED BY <2>3, <2>4, <2>5 DEF IdsInv
<1>6. \A t \in Thread, i \in WaitId : ~ Awaiting(t, i)
  BY BoundAssumption DEF Awaiting, WaitId, NotDeployed
<1>7. OwnedInv
  BY <1>6 DEF OwnedInv, Asked, Resuming
<1>8. LiveInv
  <2>1. \A i \in WaitId : ~ Live(i)
    BY <1>6 DEF Live
  <2>2. \A t \in Thread : ~ Stops(t)
    BY DEF Stops
  <2>. QED BY <2>1, <2>2 DEF LiveInv
<1>9. EventInv
  BY DEF EventInv, RegisteredInv, PhasesInv, EndedInv, DeployInv
<1>10. ContextInv
  <2>1. \A t \in Thread : Cardinality(Targets[t]) \in Nat
    BY TargetsAssumption, FS_CardinalityType
  <2>2. FreshInv
    BY DEF FreshInv
  <2>3. TriggeredInv
    BY DEF TriggeredInv
  <2>4. FirstInv
    BY <2>1 DEF FirstInv
  <2>5. LastInv
    BY DEF LastInv
  <2>. QED BY <2>2, <2>3, <2>4, <2>5 DEF ContextInv
<1>11. RemainingCounted
  <2>. SUFFICES ASSUME NEW t \in Thread
                PROVE  remainingCount[t] = Cardinality(Outstanding(t)) + Cardinality(Locking(t))
    BY DEF RemainingCounted
  <2>1. Outstanding(t) = {} /\ Locking(t) = {}
    BY DEF Outstanding, Locking, Watching
  <2>2. Cardinality({}) = 0
    BY FS_EmptySet
  <2>3. remainingCount[t] = 0
    OBVIOUS
  <2>4. Cardinality(Outstanding(t)) = 0 /\ Cardinality(Locking(t)) = 0
    BY ONLY <2>1, <2>2
  <2>. QED BY ONLY <2>3, <2>4
<1>. QED BY <1>1, <1>2, <1>3, <1>4, <1>5, <1>7, <1>8, <1>9, <1>10, <1>11 DEF IndInv

LEMMA NextInd ==
  ASSUME IndInv, Next
  PROVE  IndInv'
<1>. USE DEF IndInv
<1>1. ContextTypeOK' /\ LocalsInv' /\ EventInv'
  BY TypeStep, LocalsStep, EventStep
<1>2. RunInv' /\ NativeInv'
  BY RunStep, NativeStep
<1>3. IdsInv' /\ OwnedInv' /\ LiveInv'
  BY IdsStep, OwnedStep, LiveStep
<1>4. ContextInv' /\ RemainingCounted'
  BY ContextStep, CountStep
<1>. QED BY <1>1, <1>2, <1>3, <1>4

LEMMA StutterInd ==
  ASSUME IndInv, UNCHANGED vars
  PROVE  IndInv'
<1>. USE DEF IndInv, vars, waitVars, runVars, nativeVars, tableVars, resumeVars, eventVars,
     contextVars, watcherVars
<1>1. ContextTypeOK'
  BY DEF ContextTypeOK, TypeOK
<1>2. LocalsInv'
  BY DEF LocalsInv
<1>3. RunInv' /\ NativeInv'
  BY DEF RunInv, NativeInv, Runs
<1>4. IdsInv'
  BY DEF IdsInv, Free, InTable
<1>5. OwnedInv' /\ LiveInv'
  <2>1. OwnedInv'
    BY DEF OwnedInv, Asked, Resuming, Awaiting, InTable
  <2>2. /\ \A i \in WaitId : Live(i)' <=> Live(i)
        /\ \A t \in Thread : Stops(t)' <=> Stops(t)
    BY DEF Live, Awaiting, Stops, Runs
  <2>. QED BY <2>1, <2>2, LiveFrame
<1>6. EventInv' /\ ContextInv'
  BY DEF EventInv, RegisteredInv, PhasesInv, EndedInv, DeployInv, ContextInv, FreshInv,
     TriggeredInv, FirstInv, LastInv
<1>7. RemainingCounted'
  BY DEF RemainingCounted, Outstanding, Locking, Watching
<1>. QED BY <1>1, <1>2, <1>3, <1>4, <1>5, <1>6, <1>7

LEMMA Invariance == Spec => []IndInv
<1>1. IndInv /\ [Next]_vars => IndInv'
  BY NextInd, StutterInd
<1>. QED BY InitInd, <1>1, PTL DEF Spec

------------------------------------------------------------------------------
(* What follows from it.                                                   *)

LEMMA RunsOnce == ContextTypeOK /\ RunInv => OneRunner
<1>. SUFFICES ASSUME ContextTypeOK, RunInv, NEW t \in Thread
              PROVE  queue[t] + Cardinality({w \in Worker : Runs(w, t)})
                       <= (IF t \in gone THEN 0 ELSE 1)
  BY DEF OneRunner
<1>0. queue[t] \in Nat
  BY DEF ContextTypeOK, TypeOK
<1>. DEFINE S == {w \in Worker : Runs(w, t)}
<1>1. CASE S = {}
  <2>1. Cardinality(S) = 0
    BY <1>1, FS_EmptySet
  <2>2. queue[t] + 0 <= (IF t \in gone THEN 0 ELSE 1)
    BY <1>0 DEF RunInv
  <2>. QED BY <2>1, <2>2
<1>2. CASE S # {}
  <2>1. PICK w \in S : TRUE
    BY <1>2
  <2>2. S = {w} /\ queue[t] = 0 /\ t \notin gone
    BY <2>1 DEF RunInv
  <2>3. Cardinality(S) = 1
    BY <2>2, FS_Singleton
  <2>. QED BY <2>2, <2>3
<1>. QED BY <1>1, <1>2

LEMMA FreeOnce == ContextTypeOK /\ IdsInv => WaitingIdsOnce
<1>. SUFFICES ASSUME ContextTypeOK, IdsInv PROVE WaitingIdsOnce
  OBVIOUS
<1>. DEFINE d == 1..Len(recycled)
            f == [k \in d |-> recycled[k]]
<1>1. Len(recycled) \in Nat /\ Cardinality(d) = Len(recycled) /\ IsFiniteSet(d)
  <2>1. Len(recycled) \in Nat
    BY DEF ContextTypeOK, TypeOK
  <2>2. Cardinality(1..Len(recycled)) = Len(recycled) /\ IsFiniteSet(1..Len(recycled))
    BY ONLY <2>1, FS_Interval, SMTT(20)
  <2>. QED BY <2>1, <2>2
<1>2. f \in Bijection(d, Free)
  <2>1. f \in Surjection(d, Free)
    <3>1. f \in [d -> Free] /\ \A i \in Free : \E k \in d : f[k] = i
      BY DEF Free
    <3>. QED BY <3>1 DEF Surjection
  <2>2. f \in Injection(d, Free)
    BY <2>1 DEF Surjection, Injection, IsInjective, IdsInv
  <2>. QED BY <2>1, <2>2 DEF Bijection
<1>3. Cardinality(Free) = Len(recycled)
  BY <1>1, <1>2, FS_Bijection DEF ExistsBijection
<1>4. Free \cup InTable = 0..(Cardinality(Free \cup InTable) - 1)
  <2>1. PICK n \in 0..MaxId + 1 : Free \cup InTable = 0..n - 1
    BY DEF IdsInv
  <2>2. n \in Int /\ n - 1 \in Int /\ n >= 0
    OBVIOUS
  <2>3. Cardinality(0..n - 1) = n
    BY <2>2, FS_Interval
  <2>. QED BY <2>1, <2>3
<1>. QED BY <1>3, <1>4 DEF WaitingIdsOnce, Free, IdsInv

\* The wait() of a thread that awaits its result has a target that is still to call its
\* watcher, or a watcher at work.
LEMMA AwaitedByTarget ==
  ASSUME IndInv, NEW t \in Thread, waitingId[t] # NotDeployed, result[t] = NoThread,
         \A w \in Worker : ~ Runs(w, t)
  PROVE  \/ \E e \in Async \ updated : t \in activated[e]
         \/ \E e \in Async : t \in watchersCopy[e]
         \/ \E w \in Watching(t) : wpc[w] \in {"lock", "unregister"}
<1>1. CASE remainingCount[t] # Cardinality(Targets[t])
  BY <1>1 DEF IndInv, ContextInv, FirstInv, Watching
<1>2. CASE remainingCount[t] = Cardinality(Targets[t])
  <2>1. Targets[t] # {} /\ IsFiniteSet(Targets[t])
    BY DEF IndInv, ContextInv, FreshInv
  <2>2. remainingCount[t] # 0
    BY <1>2, <2>1, FS_EmptySet
  <2>3. remainingCount[t] = Cardinality(Outstanding(t)) + Cardinality(Locking(t))
    BY CountFacts DEF IndInv
  <2>4. Outstanding(t) # {} \/ Locking(t) # {}
    <3>1. SUFFICES ASSUME Outstanding(t) = {}, Locking(t) = {} PROVE FALSE
      OBVIOUS
    <3>2. Cardinality(Outstanding(t)) = 0 /\ Cardinality(Locking(t)) = 0
      BY <3>1, FS_EmptySet
    <3>. QED BY <2>2, <2>3, <3>2
  <2>5. CASE Locking(t) # {}
    BY <2>5 DEF Locking
  <2>6. ASSUME NEW e \in Outstanding(t)
        PROVE  \/ \E c \in Async \ updated : t \in activated[c]
               \/ \E c \in Async : t \in watchersCopy[c]
    <3>1. e \in Async /\ t \in registered[e] \cup activated[e] \cup watchersCopy[e]
      BY DEF Outstanding
    <3>2. t \notin registered[e]
      <4>1. SUFFICES ASSUME t \in registered[e] PROVE FALSE
        OBVIOUS
      <4>2. \E w \in Worker : running[w] = t /\ pc[w] = "deploy"
        BY <3>1, <4>1 DEF IndInv, EventInv, RegisteredInv, DeployInv
      <4>. QED BY <4>2 DEF Runs
    <3>3. t \in activated[e] => e \notin updated
      BY <3>1 DEF IndInv, EventInv, PhasesInv
    <3>. QED BY <3>1, <3>2, <3>3
  <2>. QED BY <2>4, <2>5, <2>6
<1>. QED BY <1>1, <1>2

LEMMA AlwaysAWaker == IndInv => WaiterHasWaker
<1>. SUFFICES ASSUME IndInv, NEW t \in Thread, queue[t] = 0, t \notin gone,
                     \A w \in Worker : ~ Runs(w, t)
              PROVE  \/ \E i \in armed : waitingThreads[i] = t
                     \/ \E o \in Process : rpc[o] = "lookup" /\ waitingThreads[rid[o]] = t
                     \/ \E o \in Process : rpc[o] = "wake" /\ rthread[o] = t
                     \/ \E e \in Async \ updated : t \in activated[e]
                     \/ \E e \in Async : t \in watchersCopy[e]
                     \/ \E w \in Watching(t) : wpc[w] \in {"lock", "unregister"}
  BY DEF WaiterHasWaker
<1>1. PICK i \in WaitId : Live(i) /\ waitingThreads[i] = t
  <2>1. Stops(t)
    BY DEF Stops
  <2>. QED BY <2>1 DEF IndInv, LiveInv
<1>2. ASSUME NEW o \in Process, rpc[o] \in {"lookup", "wake"}, rid[o] = i
      PROVE  \/ rpc[o] = "lookup" /\ waitingThreads[rid[o]] = t
             \/ rpc[o] = "wake" /\ rthread[o] = t
  BY <1>1, <1>2 DEF IndInv, OwnedInv, Resuming
<1>3. ASSUME NEW q \in Thread, Awaiting(q, i)
      PROVE  waitingId[t] # NotDeployed /\ result[t] = NoThread
  <2>1. q = t
    BY <1>1, <1>3 DEF IndInv, OwnedInv
  <2>. QED BY <1>3, <2>1 DEF Awaiting, WaitId, NotDeployed
<1>4. CASE waitingId[t] # NotDeployed /\ result[t] = NoThread
  BY <1>4, AwaitedByTarget
<1>. QED BY <1>1, <1>2, <1>3, <1>4 DEF Live

LEMMA RemovedWhenDone == IndInv => SafeToRemove
<1>. SUFFICES ASSUME IndInv, NEW t \in recycledRef PROVE Outstanding(t) = {} /\ Watching(t) = {}
  BY DEF SafeToRemove, IndInv
<1>1. t \in Thread
  BY DEF IndInv, ContextTypeOK
<1>2. remainingCount[t] = 0 /\ \A w \in Worker : wpc[w] # "none" => wthread[w] # t
  BY DEF IndInv, ContextInv, LastInv
<1>. QED BY <1>1, <1>2, CountFacts DEF IndInv, Watching

LEMMA RunsWithResult == IndInv => WaitReturns
<1>. SUFFICES ASSUME IndInv, NEW t \in Thread, waitingId[t] # NotDeployed,
                     queue[t] > 0 \/ \E w \in Worker : running[w] = t /\ pc[w] = "script"
              PROVE  result[t] \in updated \cap Targets[t]
  BY DEF WaitReturns
<1>1. ~ Stops(t)
  BY DEF Stops, Runs
<1>2. result[t] # NoThread
  <2>1. SUFFICES ASSUME result[t] = NoThread PROVE Stops(t)
    BY <1>1
  <2>2. waitingId[t] \in WaitId
    BY DEF IndInv, ContextTypeOK, WaitId, NotDeployed
  <2>3. Awaiting(t, waitingId[t])
    BY <2>1 DEF Awaiting
  <2>4. Live(waitingId[t]) /\ waitingThreads[waitingId[t]] = t
    BY <2>2, <2>3 DEF Live, IndInv, OwnedInv
  <2>. QED BY <2>2, <2>4 DEF IndInv, LiveInv
<1>. QED BY <1>2 DEF IndInv, ContextInv, FirstInv

\* Trigger alone sets the result, and no worker is about to call it with one set.
LEMMA ResultSetOnce ==
  ASSUME IndInv, [Next]_vars, NEW t \in Thread, result'[t] # result[t]
  PROVE  result[t] = NoThread
<1>1. PICK w \in Worker : Trigger(w)
  <2>1. result' # result
    OBVIOUS
  <2>2. ~ UNCHANGED vars /\ ~ UNCHANGED contextVars
    BY <2>1 DEF vars, contextVars
  <2>3. PICK w \in Worker : Watcher(w) \/ Wait(w) \/ EndOfScript(w)
    BY <2>2 DEF Next
  <2>4. ~ Wait(w)
    BY <2>1, <2>2 DEF Wait, Deploy, Deployed, Activate
  <2>5. ~ EndOfScript(w)
    BY <2>2 DEF EndOfScript, UpdateResult, FinishScript, NotifyNext
  <2>6. Trigger(w)
    BY <2>1, <2>2, <2>3, <2>4, <2>5
    DEF Watcher, LockTriggered, Unregister, Resumed, ReleaseTriggered, Recycle
  <2>. QED BY <2>6
<1>2. wthread[w] = t
  BY <1>1 DEF Trigger, IndInv, ContextTypeOK
<1>. QED BY <1>1, <1>2 DEF Trigger, IndInv, ContextInv, FirstInv

\* Workers, processes and tables stay in their types; in particular the count of the
\* watchers a context still expects never goes below zero.
THEOREM ContextTypes == Spec => []ContextTypeOK
<1>1. IndInv => ContextTypeOK
  BY DEF IndInv
<1>. QED BY <1>1, Invariance, PTL

\* "This is required for avoiding conflicts with resuming this thread and postProcess()"
\* (Thread.cpp): however pause(), resume() and postProcess() interleave, a thread is in
\* the queue or on one worker, never in two places.
THEOREM OnlyOneRunner == Spec => []OneRunner
<1>1. IndInv => OneRunner
  BY RunsOnce DEF IndInv
<1>. QED BY <1>1, Invariance, PTL

\* pause() gives no waitingId to two threads at a time, though it takes it from
\* recycledWaitingIds or, when there is none, from the size of waitingThreads.
THEOREM IdsOnce == Spec => []WaitingIdsOnce
<1>1. IndInv => WaitingIdsOnce
  BY FreeOnce DEF IndInv
<1>. QED BY <1>1, Invariance, PTL

\* No wakeup is lost: a thread that has stopped in pause() or wait() is known to an event
\* object, a timer, a resume() or a watcher that will enqueue it again.
THEOREM WakerKnown == Spec => []WaiterHasWaker
<1>. QED BY AlwaysAWaker, Invariance, PTL

\* safeToRemove of WaitContextEventWatcher(): remainingCount counts the watchers that are
\* still to come, and a context whose reference is recycled has none at work.
THEOREM SafelyRemoved == Spec => []SafeToRemove
<1>. QED BY RemovedWhenDone, Invariance, PTL

\* A thread runs on after wait() only with a result: one of its targets that has ended.
THEOREM WaitReturnsResult == Spec => []WaitReturns
<1>. QED BY RunsWithResult, Invariance, PTL

\* Of the watchers of one wait() only the first sets the result, though several targets
\* may end at the same time.
THEOREM TriggersOnce == Spec => TriggeredOnce
<1>1. IndInv /\ [Next]_vars => \A t \in Thread : result'[t] # result[t] => result[t] = NoThread
  BY ResultSetOnce
<1>2. IndInv /\ [Next]_vars =>
        [\A t \in Thread : result'[t] # result[t] => result[t] = NoThread]_vars
  BY <1>1
<1>. QED BY <1>2, Invariance, PTL DEF Spec, TriggeredOnce
=============================================================================
