------------------------ MODULE ReferenceLock_proofs ------------------------
(***************************************************************************)
(* Proofs about the reference locks, for any number of threads and         *)
(* references, any assignment of lock types and any call depth.            *)
(***************************************************************************)
EXTENDS ReferenceLock, TLAPS

\* Put() keeps the type of a lock table, also where depth[t] is 0 and there is
\* no frame to change (an empty stack).
LEMMA PutType ==
  ASSUME NEW F \in LockTable, NEW t \in Thread, NEW d, NEW A,
         d \in Frame => A \in SUBSET Ref
  PROVE  Put(F, t, d, A) \in LockTable
<1>1. [F[t] EXCEPT ![d] = A] \in [Frame -> SUBSET Ref]
  BY DEF LockTable
<1>2. Put(F, t, d, A) = [F EXCEPT ![t] = [F[t] EXCEPT ![d] = A]]
  BY DEF Put, LockTable
<1>. QED BY <1>1, <1>2 DEF LockTable

\* Put() changes one entry of a lock table.
LEMMA PutValue ==
  ASSUME NEW F \in LockTable, NEW t \in Thread, NEW d \in Frame, NEW A
  PROVE  \A u \in Thread : \A c \in Frame :
           Put(F, t, d, A)[u][c] = IF u = t /\ c = d THEN A ELSE F[u][c]
<1>. TAKE u \in Thread
<1>. TAKE c \in Frame
<1>1. F[t] \in [Frame -> SUBSET Ref]
  BY DEF LockTable
<1>. QED BY <1>1 DEF Put, LockTable

------------------------------------------------------------------------------
(* Types.                                                                  *)

\* Lock::add() puts a reference into one of the three tables.
LEMMA AddType ==
  ASSUME TypeOK, NEW t \in Thread, NEW r \in Ref, AddToTop(t, r)
  PROVE  hard' \in LockTable /\ soft' \in LockTable /\ temp' \in LockTable
<1>1. ASSUME NEW F \in LockTable, NEW k PROVE Added(F, k, t, r) \in LockTable
  <2>1. depth[t] \in Frame => F[t][depth[t]] \cup {r} \in SUBSET Ref
    BY DEF LockTable
  <2>2. Put(F, t, depth[t], F[t][depth[t]] \cup {r}) \in LockTable
    BY <2>1, PutType
  <2>. QED BY <2>2 DEF Added
<1>. QED BY <1>1 DEF AddToTop, TypeOK

\* The two actions of the run queue keep the types.
LEMMA QueueType ==
  ASSUME TypeInv, NEW t \in Thread, Dispatch(t) \/ Resume(t)
  PROVE  TypeInv'
<1>1. UNCHANGED <<owner, hard, soft, temp, calling, depth, dropping, after, want,
                  holder, poolLock, alive, transferReq, serving, forwarding>>
  BY DEF Dispatch, Resume, lockVars, lockSets, requestVars
<1>2. pc' \in [Thread -> State] /\ pc'[t] \in {"run", "restore", "ready"}
  BY DEF Dispatch, Resume, Running, TypeInv, TypeOK, State
<1>3. queue' \in [Thread -> Nat]
  BY DEF Dispatch, Resume, Enqueue, TypeInv, TypeOK
<1>4. \A u \in Thread : u # t => pc'[u] = pc[u]
  BY DEF Dispatch, Resume, TypeInv, TypeOK
<1>. QED BY <1>1, <1>2, <1>3, <1>4 DEF TypeInv, TypeOK, LocalsInv, Stopping

\* The steps of lockReference() and restoreTemporaryLock() keep the types.
LEMMA LockReferenceType ==
  ASSUME TypeInv, NEW t \in Thread, LockReference(t)
  PROVE  TypeInv'
<1>. USE DEF TypeInv
<1>1. ASSUME NEW r \in Ref, AccessOwned(t, r) PROVE TypeInv'
  <2>1. UNCHANGED <<owner, hard, calling, depth, pc, after, dropping, want,
                    holder, poolLock, alive, transferReq, serving, forwarding, queue>>
    BY <1>1 DEF AccessOwned, requestVars
  <2>2. soft[t][depth[t]] \ {r} \in SUBSET Ref \/ depth[t] \notin Frame
    BY DEF TypeOK, LockTable
  <2>3. temp[t][depth[t]] \cup {r} \in SUBSET Ref \/ depth[t] \notin Frame
    BY DEF TypeOK, LockTable
  <2>4. soft \in LockTable /\ temp \in LockTable
    BY DEF TypeOK
  <2>5. soft' \in LockTable
    BY <1>1, <2>2, <2>4, PutType DEF AccessOwned
  <2>6. temp' \in LockTable
    BY <1>1, <2>3, <2>4, PutType DEF AccessOwned
  <2>. QED BY <2>1, <2>5, <2>6 DEF TypeOK, LocalsInv
<1>2. ASSUME NEW r \in Ref, AccessFree(t, r) PROVE TypeInv'
  <2>1. UNCHANGED <<calling, depth, pc, after, dropping, want,
                    holder, poolLock, alive, transferReq, serving, forwarding, queue>>
    BY <1>2 DEF AccessFree, requestVars
  <2>2. owner' \in [Ref -> Thread \cup {NoThread}]
    BY <1>2 DEF AccessFree, TypeOK
  <2>3. hard' \in LockTable /\ soft' \in LockTable /\ temp' \in LockTable
    BY <1>2, AddType DEF AccessFree
  <2>. QED BY <2>1, <2>2, <2>3 DEF TypeOK, LocalsInv
<1>3. ASSUME NEW r \in Ref, AccessHeld(t, r) \/ RestoreHeld(t, r) PROVE TypeInv'
  <2>1. UNCHANGED <<owner, hard, soft, temp, calling, depth, after, dropping,
                    holder, poolLock, alive, transferReq, serving, forwarding, queue>>
    BY <1>3 DEF AccessHeld, RestoreHeld, lockVars, lockSets, requestVars
  <2>2. want' \in [Thread -> Ref \cup {NoRef}] /\ want' = [want EXCEPT ![t] = r]
    BY <1>3 DEF AccessHeld, RestoreHeld, TypeOK
  <2>3. pc' \in [Thread -> State] /\ pc' = [pc EXCEPT ![t] = "lock"]
    BY <1>3 DEF AccessHeld, RestoreHeld, TypeOK, State
  <2>. QED BY <2>1, <2>2, <2>3 DEF TypeOK, LocalsInv
<1>4. ASSUME SlowAcquire(t) PROVE TypeInv'
  <2>1. UNCHANGED <<calling, depth, after, dropping,
                    holder, poolLock, alive, transferReq, serving, forwarding, queue>>
    BY <1>4 DEF SlowAcquire, requestVars
  <2>2. want[t] \in Ref
    BY <1>4 DEF SlowAcquire, LocalsInv, Stopping
  <2>3. owner' \in [Ref -> Thread \cup {NoThread}]
    BY <1>4, <2>2 DEF SlowAcquire, TypeOK
  <2>4. hard' \in LockTable /\ soft' \in LockTable /\ temp' \in LockTable
    BY <1>4, <2>2, AddType DEF SlowAcquire
  <2>5. want' \in [Thread -> Ref \cup {NoRef}] /\ want' = [want EXCEPT ![t] = NoRef]
    BY <1>4 DEF SlowAcquire, TypeOK
  <2>6. pc' \in [Thread -> State] /\ pc' = [pc EXCEPT ![t] = Running(t)]
        /\ Running(t) \in {"run", "restore"}
    BY <1>4 DEF SlowAcquire, TypeOK, State, Running
  <2>7. LocalsInv'
    BY <2>1, <2>5, <2>6 DEF LocalsInv, Stopping, TypeOK
  <2>. QED BY <2>1, <2>3, <2>4, <2>5, <2>6, <2>7 DEF TypeOK
<1>5. ASSUME SlowRead(t) PROVE TypeInv'
  <2>1. UNCHANGED <<owner, hard, soft, temp, calling, depth, after, dropping,
                    want, alive, transferReq, serving, forwarding, queue>>
    BY <1>5 DEF SlowRead, lockVars, lockSets, requestVars
  <2>2. want[t] \in Ref /\ owner[want[t]] \in Thread
    BY <1>5 DEF SlowRead, LocalsInv, Stopping, TypeOK
  <2>3. /\ poolLock' = t
        /\ holder' = [holder EXCEPT ![t] = owner[want[t]]]
        /\ pc' = [pc EXCEPT ![t] = "send"]
    BY <1>5 DEF SlowRead
  <2>4. TypeOK'
    BY <2>1, <2>2, <2>3 DEF TypeOK, State
  <2>5. LocalsInv'
    BY <2>1, <2>2, <2>3 DEF LocalsInv, Stopping, TypeOK
  <2>. QED BY <2>4, <2>5
<1>6. ASSUME SendTransferReq(t) PROVE TypeInv'
  <2>1. UNCHANGED <<owner, hard, soft, temp, calling, depth, after, dropping,
                    want, alive, serving, forwarding, queue>>
    BY <1>6 DEF SendTransferReq, lockVars, lockSets
  <2>2. want[t] \in Ref
    BY <1>6 DEF SendTransferReq, LocalsInv, Stopping
  <2>3. [requester |-> t, ref |-> want[t]] \in Request
    BY <2>2 DEF Request
  <2>4. transferReq' \in [Thread -> SUBSET Request]
    BY <1>6, <2>3 DEF SendTransferReq, TypeOK
  <2>5. holder' = [holder EXCEPT ![t] = NoThread] /\ poolLock' = NoThread
        /\ pc' = [pc EXCEPT ![t] = "wait"]
    BY <1>6 DEF SendTransferReq
  <2>6. TypeOK'
    BY <2>1, <2>4, <2>5 DEF TypeOK, State
  <2>7. LocalsInv'
    BY <2>1, <2>2, <2>5 DEF LocalsInv, Stopping, TypeOK
  <2>. QED BY <2>6, <2>7
<1>7. ASSUME NEW r \in Ref, RestoreFree(t, r) PROVE TypeInv'
  <2>1. UNCHANGED <<hard, soft, temp, calling, depth, pc, after, dropping, want,
                    holder, poolLock, alive, transferReq, serving, forwarding, queue>>
    BY <1>7 DEF RestoreFree, lockSets, requestVars
  <2>2. owner' \in [Ref -> Thread \cup {NoThread}]
    BY <1>7 DEF RestoreFree, TypeOK
  <2>. QED BY <2>1, <2>2 DEF TypeOK, LocalsInv
<1>8. ASSUME Restored(t) PROVE TypeInv'
  <2>1. UNCHANGED <<owner, hard, soft, temp, depth, after, dropping, want,
                    holder, poolLock, alive, transferReq, serving, forwarding, queue>>
    BY <1>8 DEF Restored, lockSets, requestVars
  <2>2. calling' \in [Thread -> SUBSET Frame]
    BY <1>8 DEF Restored, TypeOK
  <2>3. pc' \in [Thread -> State] /\ pc' = [pc EXCEPT ![t] = "run"]
    BY <1>8 DEF Restored, TypeOK, State
  <2>. QED BY <2>1, <2>2, <2>3 DEF TypeOK, LocalsInv, Stopping
<1>9. ASSUME HolderGone(t) PROVE TypeInv'
  <2>1. UNCHANGED <<owner, hard, soft, temp, calling, depth, after, dropping,
                    holder, poolLock, alive, transferReq, serving, forwarding, queue>>
    BY <1>9 DEF HolderGone, lockVars, lockSets, requestVars
  <2>2. want' \in [Thread -> Ref \cup {NoRef}] /\ want' = [want EXCEPT ![t] = NoRef]
    BY <1>9 DEF HolderGone, TypeOK
  <2>3. pc' \in [Thread -> State] /\ pc' = [pc EXCEPT ![t] = "finish"]
    BY <1>9 DEF HolderGone, TypeOK, State
  <2>. QED BY <2>1, <2>2, <2>3 DEF TypeOK, LocalsInv, Stopping
<1>. QED
  BY <1>1, <1>2, <1>3, <1>4, <1>5, <1>6, <1>7, <1>8, <1>9 DEF LockReference

\* The steps of checkTransferReq() and its unlock loop keep the types.
LEMMA CheckTransferReqType ==
  ASSUME TypeInv, NEW t \in Thread, CheckTransferReq(t)
  PROVE  TypeInv'
<1>. USE DEF TypeInv
<1>1. ASSUME NEW r \in Ref, Unlock(t, r) PROVE TypeInv'
  <2>1. UNCHANGED <<hard, soft, temp, calling, depth, pc, after, want, holder,
                    poolLock, alive, transferReq, serving, forwarding, queue>>
    BY <1>1 DEF Unlock, lockSets, requestVars
  <2>2. /\ owner' \in [Ref -> Thread \cup {NoThread}]
        /\ dropping' \in [Thread -> SUBSET Ref]
    BY <1>1 DEF Unlock, TypeOK
  <2>. QED BY <2>1, <2>2 DEF TypeOK, LocalsInv
<1>2. ASSUME TakeRequests(t) PROVE TypeInv'
  <2>1. UNCHANGED <<owner, hard, soft, temp, calling, depth, dropping, after, want,
                    holder, poolLock, alive, forwarding, queue>>
    BY <1>2 DEF TakeRequests, lockVars, lockSets
  <2>2. /\ serving' \in [Thread -> SUBSET Request]
        /\ transferReq' \in [Thread -> SUBSET Request]
    BY <1>2 DEF TakeRequests, TypeOK
  <2>3. pc' \in [Thread -> State] /\ pc' = [pc EXCEPT ![t] = "serve"]
    BY <1>2 DEF TakeRequests, TypeOK, State
  <2>4. after[t] # "queue"
    BY <1>2 DEF TakeRequests
  <2>. QED BY <2>1, <2>2, <2>3, <2>4 DEF TypeOK, LocalsInv, Stopping
<1>3. ASSUME NEW q \in Request, Grant(t, q) PROVE TypeInv'
  <2>. DEFINE u == q.requester
  <2>1. u \in Thread /\ q.ref \in Ref
    BY DEF Request
  <2>2. UNCHANGED <<calling, depth, after, dropping, holder, poolLock, alive,
                    transferReq, forwarding>>
    BY <1>3 DEF Grant
  <2>3. /\ owner' \in [Ref -> Thread \cup {NoThread}]
        /\ serving' \in [Thread -> SUBSET Request]
        /\ want' \in [Thread -> Ref \cup {NoRef}]
        /\ queue' \in [Thread -> Nat]
    BY <1>3, <2>1 DEF Grant, TypeOK, Enqueue
  <2>4. hard' \in LockTable /\ soft' \in LockTable /\ temp' \in LockTable
    BY <1>3, <2>1, AddType DEF Grant
  <2>5. /\ pc' \in [Thread -> State]
        /\ pc' = [pc EXCEPT ![u] = "ready"]
        /\ want' = [want EXCEPT ![u] = NoRef]
    BY <1>3, <2>1 DEF Grant, TypeOK, State
  <2>6. LocalsInv'
    BY <2>1, <2>2, <2>5 DEF LocalsInv, Stopping, TypeOK
  <2>. QED BY <2>2, <2>3, <2>4, <2>5, <2>6 DEF TypeOK
<1>4. ASSUME NEW q \in Request, ReadNewHolder(t, q) PROVE TypeInv'
  <2>1. UNCHANGED <<owner, hard, soft, temp, calling, depth, dropping, after, want,
                    poolLock, alive, transferReq, queue>>
    BY <1>4 DEF ReadNewHolder, lockVars, lockSets
  <2>2. q.ref \in Ref /\ owner[q.ref] \in Thread
    BY <1>4 DEF ReadNewHolder, Request, TypeOK
  <2>3. /\ holder' \in [Thread -> Thread \cup {NoThread}]
        /\ serving' \in [Thread -> SUBSET Request]
        /\ forwarding' \in [Thread -> SUBSET Request]
        /\ pc' \in [Thread -> State]
    BY <1>4, <2>2 DEF ReadNewHolder, TypeOK, State
  <2>4. LocalsInv'
    BY <1>4, <2>1, <2>2 DEF ReadNewHolder, LocalsInv, Stopping, TypeOK
  <2>. QED BY <2>1, <2>3, <2>4 DEF TypeOK
<1>5. ASSUME LookUpNewHolder(t) PROVE TypeInv'
  <2>1. UNCHANGED <<owner, hard, soft, temp, calling, depth, dropping, after, want,
                    holder, poolLock, alive, transferReq, serving, forwarding, queue>>
    BY <1>5 DEF LookUpNewHolder, lockVars, lockSets, requestVars
  <2>2. pc' \in [Thread -> State]
    BY <1>5 DEF LookUpNewHolder, TypeOK, State
  <2>3. LocalsInv'
    BY <1>5, <2>1 DEF LookUpNewHolder, LocalsInv, Stopping, TypeOK
  <2>. QED BY <2>1, <2>2, <2>3 DEF TypeOK
<1>6. ASSUME ForwardRequest(t) PROVE TypeInv'
  <2>1. UNCHANGED <<owner, hard, soft, temp, calling, depth, dropping, after, want,
                    poolLock, alive, serving, queue>>
    BY <1>6 DEF ForwardRequest, lockVars, lockSets
  <2>2. forwarding[t] \in SUBSET Request
    BY DEF TypeOK
  <2>3. /\ transferReq' \in [Thread -> SUBSET Request]
        /\ forwarding' \in [Thread -> SUBSET Request]
        /\ holder' \in [Thread -> Thread \cup {NoThread}]
        /\ pc' \in [Thread -> State]
    BY <1>6, <2>2 DEF ForwardRequest, TypeOK, State
  <2>4. LocalsInv'
    BY <1>6, <2>1 DEF ForwardRequest, LocalsInv, Stopping, TypeOK
  <2>. QED BY <2>1, <2>3, <2>4 DEF TypeOK
<1>7. ASSUME EndOfRequests(t) PROVE TypeInv'
  <2>1. UNCHANGED <<owner, hard, soft, temp, calling, depth, dropping, want,
                    holder, poolLock, alive, transferReq, serving, forwarding>>
    BY <1>7 DEF EndOfRequests, lockVars, lockSets, requestVars
  <2>2. queue' \in [Thread -> Nat]
    BY <1>7 DEF EndOfRequests, TypeOK, Enqueue
  <2>3. after[t] \in Continuation \ {"queue"}
    BY <1>7 DEF EndOfRequests, LocalsInv, TypeOK
  <2>4. pc' \in [Thread -> State]
    BY <1>7, <2>3 DEF EndOfRequests, TypeOK, Running, State, Continuation
  <2>5. after' \in [Thread -> Continuation] /\ \A u \in Thread : u # t => after'[u] = after[u]
    BY <1>7 DEF EndOfRequests, TypeOK, Continuation
  <2>6. pc'[t] \notin Stopping \cup {"serve", "forward", "push", "crash"}
        /\ \A u \in Thread : u # t => pc'[u] = pc[u]
    BY <1>7, <2>3 DEF EndOfRequests, TypeOK, Running, Continuation, Stopping
  <2>7. LocalsInv'
    BY <2>1, <2>5, <2>6 DEF LocalsInv, Stopping
  <2>. QED BY <2>1, <2>2, <2>4, <2>5, <2>7 DEF TypeOK
<1>. QED
  BY <1>1, <1>2, <1>3, <1>4, <1>5, <1>6, <1>7 DEF CheckTransferReq

\* Popping a frame keeps the types.
LEMMA PopFrameType ==
  ASSUME TypeOK, NEW t \in Thread, depth[t] > 0, NEW rs \in SUBSET Ref, PopFrame(t, rs)
  PROVE  /\ hard' \in LockTable /\ soft' \in LockTable /\ temp' \in LockTable
         /\ dropping' \in [Thread -> SUBSET Ref]
         /\ calling' \in [Thread -> SUBSET Frame]
         /\ depth' \in [Thread -> 0..MaxFrame]
<1>1. depth[t] \in Frame /\ {} \in SUBSET Ref
  BY FrameAssumption DEF TypeOK, Frame
<1>2. hard \in LockTable /\ soft \in LockTable /\ temp \in LockTable
  BY DEF TypeOK
<1>3. hard' = Put(hard, t, depth[t], {}) /\ soft' = Put(soft, t, depth[t], {})
      /\ temp' = Put(temp, t, depth[t], {})
  BY DEF PopFrame
<1>4. hard' \in LockTable /\ soft' \in LockTable /\ temp' \in LockTable
  BY <1>1, <1>2, <1>3, PutType
<1>6. dropping' \in [Thread -> SUBSET Ref] /\ calling' \in [Thread -> SUBSET Frame]
  BY DEF PopFrame, TypeOK
<1>7. depth' \in [Thread -> 0..MaxFrame]
  BY FrameAssumption DEF PopFrame, TypeOK
<1>. QED BY <1>4, <1>6, <1>7

\* What a frame holds, and what it forgets when its thread is aborted.
LEMMA HeldType ==
  ASSUME TypeOK, NEW t \in Thread, depth[t] > 0
  PROVE  /\ depth[t] \in Frame
         /\ Held(t, depth[t]) \in SUBSET Ref
         /\ Forgotten(t) \in SUBSET Ref
<1>1. depth[t] \in Frame
  BY FrameAssumption DEF TypeOK, Frame
<1>2. hard \in LockTable /\ soft \in LockTable /\ temp \in LockTable
  BY DEF TypeOK
<1>3. temp[t][depth[t]] \in SUBSET Ref
  BY <1>1, <1>2 DEF LockTable
<1>. QED BY <1>1, <1>2, <1>3 DEF Held, Forgotten, LockTable

\* So does giving the references of the topmost frame up.
LEMMA PrepareToMethodCallType ==
  ASSUME TypeOK, NEW t \in Thread, PrepareToMethodCall(t), depth[t] \in Frame
  PROVE  /\ hard' \in LockTable /\ soft' \in LockTable /\ temp' \in LockTable
         /\ dropping' \in [Thread -> SUBSET Ref]
         /\ calling' \in [Thread -> SUBSET Frame]
<1>1. soft \in LockTable /\ {} \in SUBSET Ref
  BY DEF TypeOK
<1>2. soft' = Put(soft, t, depth[t], {})
  BY DEF PrepareToMethodCall
<1>3. soft' \in LockTable
  BY <1>1, <1>2, PutType
<1>4. soft[t][depth[t]] \cup temp[t][depth[t]] \in SUBSET Ref
  BY DEF TypeOK, LockTable
<1>5. dropping' \in [Thread -> SUBSET Ref] /\ calling' \in [Thread -> SUBSET Frame]
  BY <1>4 DEF PrepareToMethodCall, TypeOK
<1>. QED BY <1>3, <1>5 DEF PrepareToMethodCall, TypeOK

\* The other steps of a script keep the types; a running thread has a frame.
LEMMA RunScriptType ==
  ASSUME TypeInv, BlockTypeOK, StackInv, NEW t \in Thread, RunScript(t)
  PROVE  TypeInv'
<1>. USE DEF TypeInv
<1>1. pc[t] = "run" => depth[t] \in Frame
  BY FrameAssumption DEF StackInv, Ending, TypeOK, Frame, Checking
<1>2. ASSUME NEW s \in State, s \notin Stopping \cup {"serve", "forward", "push", "crash"},
             pc' = [pc EXCEPT ![t] = s], UNCHANGED <<want, holder>>,
             \A u \in Thread : u # t => after'[u] = after[u]
      PROVE  LocalsInv'
  BY <1>2 DEF LocalsInv, TypeOK, Stopping
<1>3. ASSUME NextStatement(t) PROVE TypeInv'
  <2>1. UNCHANGED <<owner, hard, calling, depth, pc, after, dropping, want,
                    holder, poolLock, alive, transferReq, serving, forwarding, queue>>
    BY <1>3 DEF NextStatement, requestVars
  <2>2. depth[t] \in Frame
    BY <1>1, <1>3 DEF NextStatement
  <2>3. soft[t][depth[t]] \cup temp[t][depth[t]] \in SUBSET Ref
    BY <2>2 DEF TypeOK, LockTable
  <2>4. soft \in LockTable /\ temp \in LockTable /\ {} \in SUBSET Ref
    BY DEF TypeOK
  <2>5. soft' \in LockTable
    BY <1>3, <2>3, <2>4, PutType DEF NextStatement
  <2>6. temp' \in LockTable
    BY <1>3, <2>4, PutType DEF NextStatement
  <2>. QED BY <2>1, <2>5, <2>6 DEF TypeOK, LocalsInv
<1>4. ASSUME Call(t) \/ Construct(t) PROVE TypeInv'
  <2>1. UNCHANGED <<owner, want, holder, poolLock, alive, transferReq, serving,
                    forwarding, queue>>
    BY <1>4 DEF Call, Construct, requestVars
  <2>2. /\ depth' \in [Thread -> 0..MaxFrame] /\ after' \in [Thread -> Continuation]
        /\ \A u \in Thread : u # t => after'[u] = after[u]
    BY <1>4, FrameAssumption DEF Call, Construct, TypeOK, Continuation
  <2>3. "drop" \in State /\ pc' = [pc EXCEPT ![t] = "drop"]
    BY <1>4 DEF Call, Construct, State
  <2>4. PrepareToMethodCall(t) /\ depth[t] \in Frame
    BY <1>1, <1>4 DEF Call, Construct
  <2>5. LocalsInv'
    BY <1>2, <2>1, <2>2, <2>3 DEF Stopping
  <2>. QED BY <2>1, <2>2, <2>3, <2>4, <2>5, PrepareToMethodCallType DEF TypeOK
<1>5. ASSUME NativeWait(t) PROVE TypeInv'
  <2>1. UNCHANGED <<owner, depth, want, holder, poolLock, alive, transferReq,
                    serving, forwarding, queue>>
    BY <1>5 DEF NativeWait, requestVars
  <2>2. /\ after' \in [Thread -> Continuation]
        /\ \A u \in Thread : u # t => after'[u] = after[u]
    BY <1>5 DEF NativeWait, TypeOK, Continuation
  <2>3. "drop" \in State /\ pc' = [pc EXCEPT ![t] = "drop"]
    BY <1>5 DEF NativeWait, State
  <2>4. PrepareToMethodCall(t) /\ depth[t] \in Frame
    BY <1>1, <1>5 DEF NativeWait
  <2>5. LocalsInv'
    BY <1>2, <2>1, <2>2, <2>3 DEF Stopping
  <2>. QED BY <2>1, <2>2, <2>3, <2>4, <2>5, PrepareToMethodCallType DEF TypeOK
<1>6. ASSUME Return(t) \/ PopForFinish(t) PROVE TypeInv'
  <2>1. UNCHANGED <<want, holder, poolLock, alive, transferReq, serving,
                    forwarding, queue>>
    BY <1>6 DEF Return, PopForFinish, requestVars
  <2>2. /\ after' \in [Thread -> Continuation]
        /\ \A u \in Thread : u # t => after'[u] = after[u]
    BY <1>6 DEF Return, PopForFinish, TypeOK, Continuation
  <2>3. "drop" \in State /\ pc' = [pc EXCEPT ![t] = "drop"]
    BY <1>6 DEF Return, PopForFinish, State
  <2>4. depth[t] > 0
    BY <1>6 DEF Return, PopForFinish
  <2>5. PICK rs \in SUBSET Ref : PopFrame(t, rs)
    BY <1>6, <2>4, HeldType DEF Return, PopForFinish
  <2>6. LocalsInv'
    BY <1>2, <2>1, <2>2, <2>3 DEF Stopping
  <2>7. owner' \in [Ref -> Thread \cup {NoThread}]
    BY <1>6 DEF Return, PopForFinish, TypeOK
  <2>. QED BY <2>1, <2>2, <2>3, <2>4, <2>5, <2>6, <2>7, PopFrameType DEF TypeOK
<1>7. ASSUME NEW r \in Ref, ReleaseTransient(t, r) PROVE TypeInv'
  <2>1. UNCHANGED <<owner, temp, calling, depth, want, holder, poolLock, alive,
                    transferReq, serving, forwarding, queue>>
    BY <1>7 DEF ReleaseTransient, requestVars
  <2>2. depth[t] \in Frame
    BY <1>1, <1>7 DEF ReleaseTransient
  <2>3. hard[t][depth[t]] \ {r} \in SUBSET Ref /\ soft[t][depth[t]] \ {r} \in SUBSET Ref
    BY <2>2 DEF TypeOK, LockTable
  <2>4. hard \in LockTable /\ soft \in LockTable
    BY DEF TypeOK
  <2>5. hard' \in LockTable
    BY <1>7, <2>3, <2>4, PutType DEF ReleaseTransient
  <2>6. soft' \in LockTable
    BY <1>7, <2>3, <2>4, PutType DEF ReleaseTransient
  <2>7. /\ after' \in [Thread -> Continuation]
        /\ \A u \in Thread : u # t => after'[u] = after[u]
        /\ dropping' \in [Thread -> SUBSET Ref]
    BY <1>7 DEF ReleaseTransient, TypeOK, Continuation
  <2>8. "drop" \in State /\ pc' = [pc EXCEPT ![t] = "drop"]
    BY <1>7 DEF ReleaseTransient, State
  <2>9. LocalsInv'
    BY <1>2, <2>1, <2>7, <2>8 DEF Stopping
  <2>. QED BY <2>1, <2>5, <2>6, <2>7, <2>8, <2>9 DEF TypeOK
<1>8. ASSUME Remove(t) \/ Exit(t) PROVE TypeInv'
  <2>1. UNCHANGED <<owner, hard, soft, temp, calling, depth, dropping, want,
                    holder, poolLock, transferReq, serving, forwarding, queue>>
    BY <1>8 DEF Remove, Exit, lockVars, lockSets, requestVars
  <2>2. /\ alive' \subseteq Thread /\ after' \in [Thread -> Continuation]
        /\ \A u \in Thread : u # t => after'[u] = after[u]
    BY <1>8 DEF Remove, Exit, TypeOK, Continuation
  <2>3. \E s \in {"drop", "gone"} : pc' = [pc EXCEPT ![t] = s]
    BY <1>8 DEF Remove, Exit
  <2>4. PICK s \in {"drop", "gone"} : pc' = [pc EXCEPT ![t] = s]
    BY <2>3
  <2>5. s \in State /\ s \notin Stopping \cup {"serve", "forward", "push", "crash"}
    BY DEF State, Stopping
  <2>6. LocalsInv'
    BY <1>2, <2>1, <2>2, <2>4, <2>5
  <2>. QED BY <2>1, <2>2, <2>4, <2>5, <2>6 DEF TypeOK
<1>9. ASSUME NEW r \in Ref, Declare(t, r) PROVE TypeInv'
  <2>1. UNCHANGED <<hard, temp, calling, depth, pc, after, dropping, want,
                    holder, poolLock, alive, transferReq, serving, forwarding, queue>>
    BY <1>9 DEF Declare, requestVars
  <2>2. owner' \in [Ref -> Thread \cup {NoThread}]
    BY <1>9 DEF Declare, TypeOK
  <2>3. soft \in LockTable /\ soft[t][depth[t]] \cup {r} \in SUBSET Ref
    BY <1>1, <1>9 DEF Declare, TypeOK, LockTable
  <2>4. soft' \in LockTable
    BY <1>9, <2>3, PutType DEF Declare
  <2>. QED BY <2>1, <2>2, <2>4 DEF TypeOK, LocalsInv
<1>10. ASSUME NEW rs \in SUBSET Captured, PopBlock(t, rs) PROVE TypeInv'
  <2>1. UNCHANGED <<owner, hard, calling, depth, pc, after, dropping, want,
                    holder, poolLock, alive, transferReq, serving, forwarding, queue>>
    BY <1>10 DEF PopBlock, requestVars
  <2>2. /\ soft \in LockTable /\ soft[t][depth[t]] \ rs \in SUBSET Ref
        /\ temp \in LockTable /\ temp[t][depth[t]] \ rs \in SUBSET Ref
    BY <1>1, <1>10 DEF PopBlock, TypeOK, LockTable
  <2>3. soft' \in LockTable
    BY <1>10, <2>2, PutType DEF PopBlock
  <2>4. temp' \in LockTable
    BY <1>10, <2>2, PutType DEF PopBlock
  <2>. QED BY <2>1, <2>3, <2>4 DEF TypeOK, LocalsInv
<1>11. ASSUME PopBlockForFinish(t) PROVE TypeInv'
  <2>1. UNCHANGED <<owner, calling, depth, want, holder, poolLock, alive,
                    transferReq, serving, forwarding, queue>>
    BY <1>11 DEF PopBlockForFinish, requestVars
  <2>2. /\ after' \in [Thread -> Continuation]
        /\ \A u \in Thread : u # t => after'[u] = after[u]
    BY <1>11 DEF PopBlockForFinish, TypeOK, Continuation
  <2>3. "drop" \in State /\ pc' = [pc EXCEPT ![t] = "drop"]
    BY <1>11 DEF PopBlockForFinish, State
  <2>4. depth[t] > 0 /\ Held(t, depth[t]) \in SUBSET Ref
    BY <1>11, HeldType DEF PopBlockForFinish
  <2>5. dropping' \in [Thread -> SUBSET Ref]
    BY <1>11, <2>4 DEF PopBlockForFinish, TypeOK
  <2>6. hard \in LockTable /\ soft \in LockTable /\ temp \in LockTable /\ {} \in SUBSET Ref
    BY DEF TypeOK
  <2>7. hard' \in LockTable /\ soft' \in LockTable /\ temp' \in LockTable
    BY <1>11, <2>6, PutType DEF PopBlockForFinish
  <2>8. LocalsInv'
    BY <1>2, <2>1, <2>2, <2>3 DEF Stopping
  <2>. QED BY <2>1, <2>2, <2>3, <2>5, <2>7, <2>8 DEF TypeOK
<1>12. ASSUME Constructed(t) \/ CallOfNothing(t) PROVE TypeInv'
  <2>1. UNCHANGED <<owner, hard, soft, temp, calling, depth, dropping, want,
                    holder, poolLock, alive, transferReq, serving, forwarding>>
    BY <1>12 DEF Constructed, CallOfNothing, lockVars, lockSets, requestVars
  <2>2. /\ after' \in [Thread -> Continuation] /\ queue' \in [Thread -> Nat]
        /\ \A u \in Thread : u # t => after'[u] = after[u]
    BY <1>12 DEF Constructed, CallOfNothing, Enqueue, TypeOK, Continuation
  <2>3. "ready" \in State /\ pc' = [pc EXCEPT ![t] = "ready"]
    BY <1>12 DEF Constructed, CallOfNothing, State
  <2>4. LocalsInv'
    BY <1>2, <2>1, <2>2, <2>3 DEF Stopping
  <2>. QED BY <2>1, <2>2, <2>3, <2>4 DEF TypeOK
<1>. QED
  BY <1>3, <1>4, <1>5, <1>6, <1>7, <1>8, <1>9, <1>10, <1>11, <1>12 DEF RunScript

\* No other step touches the variables of blocks.
LEMMA BlockTypes ==
  ASSUME TypeInv, BlockTypeOK, StackInv, Next
  PROVE  BlockTypeOK'
<1>. TypeOK
  BY DEF TypeInv
<1>1. ASSUME UNCHANGED blockState PROVE BlockTypeOK'
  BY <1>1 DEF BlockTypeOK, blockState
<1>2. ASSUME NEW t \in Thread, NEW r \in Ref, Declare(t, r) PROVE BlockTypeOK'
  <2>1. blockVars \in LockTable /\ UNCHANGED <<stale, lost, robbed>>
    BY <1>2 DEF Declare, BlockTypeOK
  <2>2. depth[t] \in Frame => blockVars[t][depth[t]] \cup {r} \in SUBSET Ref
    BY <2>1 DEF LockTable
  <2>3. blockVars' \in LockTable
    BY <1>2, <2>1, <2>2, PutType DEF Declare
  <2>. QED BY <1>2, <2>1, <2>3 DEF Declare, BlockTypeOK
<1>3. ASSUME NEW t \in Thread, NEW rs \in SUBSET Captured, PopBlock(t, rs)
      PROVE  BlockTypeOK'
  <2>1. blockVars \in LockTable /\ UNCHANGED <<undeclared, stale, robbed>>
    BY <1>3 DEF PopBlock, BlockTypeOK
  <2>2. depth[t] \in Frame => blockVars[t][depth[t]] \ rs \in SUBSET Ref
    BY <2>1 DEF LockTable
  <2>3. blockVars' \in LockTable
    BY <1>3, <2>1, <2>2, PutType DEF PopBlock
  <2>4. lost' \subseteq Ref
    BY <1>3, CapturedAssumption DEF PopBlock, BlockTypeOK
  <2>. QED BY <2>1, <2>3, <2>4 DEF BlockTypeOK
<1>4. ASSUME NEW t \in Thread, Return(t) \/ PopForFinish(t) PROVE BlockTypeOK'
  <2>1. depth[t] > 0 /\ undeclared' = undeclared
        /\ blockVars' = Put(blockVars, t, depth[t], {})
    BY <1>4 DEF Return, PopForFinish, PopFrame
  <2>2. blockVars \in LockTable /\ {} \in SUBSET Ref
    BY DEF BlockTypeOK
  <2>3. blockVars' \in LockTable
    BY <2>1, <2>2, PutType
  <2>4. Held(t, depth[t]) \in SUBSET Ref /\ Forgotten(t) \in SUBSET Ref
    BY <2>1, HeldType
  <2>5. lost' \subseteq Ref /\ stale' \in [Thread -> SUBSET Ref] /\ robbed' \in BOOLEAN
    <3>1. CASE Return(t)
      BY <3>1, <2>4 DEF Return, BlockTypeOK
    <3>2. CASE PopForFinish(t)
      <4>1. robbed' \in BOOLEAN
        BY <3>2, ZenonT(30) DEF PopForFinish, BlockTypeOK
      <4>2. lost' \subseteq Ref /\ stale' \in [Thread -> SUBSET Ref]
        BY <3>2, <2>4 DEF PopForFinish, BlockTypeOK
      <4>. QED BY <4>1, <4>2
    <3>. QED BY <1>4, <3>1, <3>2
  <2>. QED BY <2>1, <2>3, <2>5 DEF BlockTypeOK
<1>5. ASSUME NEW t \in Thread, PopBlockForFinish(t) PROVE BlockTypeOK'
  <2>1. Held(t, depth[t]) \in SUBSET Ref /\ Forgotten(t) \in SUBSET Ref
    BY <1>5, HeldType DEF PopBlockForFinish
  <2>. QED BY <1>5, <2>1 DEF PopBlockForFinish, BlockTypeOK
<1>6. ASSUME NEW t \in Thread, Dispatch(t) \/ Resume(t) \/ LockReference(t)
      PROVE  UNCHANGED blockState
  BY <1>6 DEF Dispatch, Resume, LockReference, AccessOwned, AccessFree, AccessHeld,
              SlowAcquire, SlowRead, HolderGone, SendTransferReq, RestoreFree, RestoreHeld,
              Restored, lockVars
<1>7. ASSUME NEW t \in Thread, CheckTransferReq(t) PROVE UNCHANGED blockState
  BY <1>7 DEF CheckTransferReq, Unlock, TakeRequests, Grant, ReadNewHolder,
              LookUpNewHolder, ForwardRequest, EndOfRequests, lockVars
<1>8. ASSUME NEW t \in Thread,
             \/ NextStatement(t) \/ NativeWait(t) \/ Call(t) \/ Construct(t)
             \/ Constructed(t) \/ CallOfNothing(t) \/ Remove(t) \/ Exit(t)
             \/ \E r \in Ref : ReleaseTransient(t, r)
      PROVE  UNCHANGED blockState
  BY <1>8 DEF NextStatement, NativeWait, Call, Construct, Constructed, CallOfNothing,
              Remove, Exit, ReleaseTransient, lockVars
<1>. QED
  BY <1>1, <1>2, <1>3, <1>4, <1>5, <1>6, <1>7, <1>8 DEF Next, RunScript

\* A thread whose stack is empty is in finish(), after its last frame.
LEMMA Stacks ==
  ASSUME TypeInv, RequestInv, StackInv, Next
  PROVE  StackInv'
<1>. TypeOK
  BY DEF TypeInv
<1>1. ASSUME NEW t \in Thread,
             \A u \in Thread : u # t =>
               pc'[u] = pc[u] /\ after'[u] = after[u] /\ depth'[u] = depth[u],
             depth'[t] = 0 => Ending(t)'
      PROVE  StackInv'
  BY <1>1 DEF StackInv, Ending
<1>2. ASSUME NEW t \in Thread, Dispatch(t) \/ Resume(t) \/ LockReference(t)
      PROVE  StackInv'
  <2>1. /\ pc[t] \in {"ready", "paused", "run", "lock", "send", "restore"}
        /\ UNCHANGED <<after, depth>>
    <3>1. CASE Dispatch(t) \/ Resume(t)
      BY <3>1 DEF Dispatch, Resume, lockVars, RequestInv, QueuedOnce
    <3>2. CASE LockReference(t)
      BY <3>2 DEF LockReference, AccessOwned, AccessFree, AccessHeld, SlowAcquire,
                  SlowRead, HolderGone, SendTransferReq, RestoreFree, RestoreHeld,
                  Restored, lockVars
    <3>. QED BY <1>2, <3>1, <3>2
  <2>2. \A u \in Thread : u # t => pc'[u] = pc[u]
    BY <1>2 DEF Dispatch, Resume, LockReference, AccessOwned, AccessFree, AccessHeld,
                SlowAcquire, SlowRead, HolderGone, SendTransferReq, RestoreFree,
                RestoreHeld, Restored, TypeOK
  <2>3. depth[t] # 0
    BY <2>1 DEF StackInv, Ending, Checking
  <2>. QED BY <1>1, <2>1, <2>2, <2>3
<1>3. ASSUME NEW t \in Thread, NEW q \in Request, Grant(t, q) PROVE StackInv'
  <2>1. PICK w \in Thread : w = q.requester
    BY DEF Request
  <2>2. pc[w] = "wait"
    BY <1>3, <2>1 DEF Grant, Posted, RequestInv, OneRequestPerWait
  <2>3. UNCHANGED <<after, depth>> /\ \A u \in Thread : u # w => pc'[u] = pc[u]
    BY <1>3, <2>1 DEF Grant, TypeOK
  <2>4. depth[w] # 0
    BY <2>2 DEF StackInv, Ending, Checking
  <2>. QED BY <1>1, <2>3, <2>4
<1>4. ASSUME NEW t \in Thread,
             \/ TakeRequests(t) \/ LookUpNewHolder(t) \/ ForwardRequest(t)
             \/ \E r \in Ref : Unlock(t, r)
             \/ \E q \in Request : ReadNewHolder(t, q)
      PROVE  StackInv'
  <2>1. pc[t] \in Checking /\ UNCHANGED <<after, depth>>
    BY <1>4 DEF TakeRequests, LookUpNewHolder, ForwardRequest, Unlock, ReadNewHolder,
                lockVars, Checking
  <2>2. pc'[t] \in Checking /\ \A u \in Thread : u # t => pc'[u] = pc[u]
    BY <1>4, <2>1 DEF TakeRequests, LookUpNewHolder, ForwardRequest, Unlock,
                      ReadNewHolder, TypeOK, Checking
  <2>3. depth[t] = 0 => after[t] \in {"remove", "exit"}
    BY <2>1 DEF StackInv, Ending, Checking
  <2>. QED BY <1>1, <2>1, <2>2, <2>3 DEF Ending
<1>5. ASSUME NEW t \in Thread, EndOfRequests(t) PROVE StackInv'
  <2>1. pc[t] = "serve" /\ UNCHANGED depth
    BY <1>5 DEF EndOfRequests, lockVars
  <2>2. /\ after[t] # "run" => pc'[t] = after[t]
        /\ \A u \in Thread : u # t => pc'[u] = pc[u] /\ after'[u] = after[u]
    BY <1>5 DEF EndOfRequests, TypeOK
  <2>3. depth[t] = 0 => after[t] \in {"remove", "exit"}
    BY <2>1 DEF StackInv, Ending
  <2>. QED BY <1>1, <2>1, <2>2, <2>3 DEF Ending
<1>6. ASSUME NEW t \in Thread, Return(t) \/ PopForFinish(t) PROVE StackInv'
  <2>1. /\ depth[t] > 0 /\ depth[t] \in Nat /\ depth' = [depth EXCEPT ![t] = depth[t] - 1]
        /\ pc' = [pc EXCEPT ![t] = "drop"]
    BY <1>6 DEF Return, PopForFinish, PopFrame, TypeOK
  <2>2. /\ depth[t] = 1 => after'[t] = "remove"
        /\ \A u \in Thread : u # t => after'[u] = after[u]
    BY <1>6 DEF Return, PopForFinish, TypeOK
  <2>3. depth'[t] = depth[t] - 1 /\ pc'[t] = "drop"
        /\ \A u \in Thread : u # t => pc'[u] = pc[u] /\ depth'[u] = depth[u]
    BY <2>1 DEF TypeOK
  <2>. QED BY <1>1, <2>1, <2>2, <2>3 DEF Ending, Checking
<1>7. ASSUME NEW t \in Thread, Remove(t) \/ Exit(t) PROVE StackInv'
  <2>1. UNCHANGED depth /\ \A u \in Thread : u # t => pc'[u] = pc[u] /\ after'[u] = after[u]
    BY <1>7 DEF Remove, Exit, TypeOK, lockVars
  <2>2. pc'[t] = "gone" \/ (pc'[t] = "drop" /\ after'[t] = "exit")
    BY <1>7 DEF Remove, Exit, TypeOK
  <2>. QED BY <1>1, <2>1, <2>2 DEF Ending, Checking
<1>8. ASSUME NEW t \in Thread,
             \/ NextStatement(t) \/ NativeWait(t) \/ Call(t) \/ Construct(t)
             \/ Constructed(t) \/ CallOfNothing(t) \/ PopBlockForFinish(t)
             \/ \E r \in Ref : Declare(t, r) \/ ReleaseTransient(t, r)
             \/ \E rs \in SUBSET Captured : PopBlock(t, rs)
      PROVE  StackInv'
  <2>1. \/ pc[t] \in {"run", "finish"}
        \/ pc[t] = "drop" /\ after[t] = "queue"
    BY <1>8 DEF NextStatement, NativeWait, Call, Construct, Constructed, CallOfNothing,
                PopBlockForFinish, Declare, ReleaseTransient, PopBlock
  <2>2. depth[t] # 0 /\ depth[t] \in Nat
    BY <2>1 DEF StackInv, Ending, Checking, TypeOK
  <2>3. depth' = depth \/ depth' = [depth EXCEPT ![t] = @ + 1]
    BY <1>8 DEF NextStatement, NativeWait, Call, Construct, Constructed, CallOfNothing,
                PopBlockForFinish, Declare, ReleaseTransient, PopBlock, lockVars
  <2>4. depth'[t] # 0 /\ \A u \in Thread : u # t => depth'[u] = depth[u]
    BY <2>2, <2>3 DEF TypeOK
  <2>5. \A u \in Thread : u # t => pc'[u] = pc[u] /\ after'[u] = after[u]
    BY <1>8 DEF NextStatement, NativeWait, Call, Construct, Constructed, CallOfNothing,
                PopBlockForFinish, Declare, ReleaseTransient, PopBlock, TypeOK
  <2>. QED BY <1>1, <2>4, <2>5
<1>. QED
  BY <1>2, <1>3, <1>4, <1>5, <1>6, <1>7, <1>8 DEF Next, CheckTransferReq, RunScript

------------------------------------------------------------------------------
(* Requests.                                                               *)

\* A step that neither touches a request nor starts or ends a wait.
LEMMA RequestFrame ==
  ASSUME TypeInv, RequestInv, NEW t \in Thread, NEW s \in State,
         pc[t] \notin {"wait", "ready"}, s \notin {"wait", "ready"},
         pc' = [pc EXCEPT ![t] = s],
         UNCHANGED <<transferReq, serving, forwarding, queue>>,
         \A u \in Thread : u # t => want'[u] = want[u],
         serving[t] # {} => s \in {"serve", "forward", "push", "crash"},
         forwarding[t] # {} => s \in {"forward", "push", "crash"}
  PROVE  RequestInv'
<1>1. \A u \in Thread : pc'[u] = IF u = t THEN s ELSE pc[u]
  BY DEF TypeInv, TypeOK
<1>2. \A u \in Thread : Posted(u)' = Posted(u)
  BY DEF Posted
<1>3. \A u \in Thread : \A q \in Posted(u) : q \in Request
  BY DEF Posted, TypeInv, TypeOK
<1>4. \A u \in Thread : \A q \in Posted(u) :
        pc'[q.requester] = "wait" /\ want'[q.requester] = q.ref
  BY <1>1, <1>3 DEF RequestInv, OneRequestPerWait, Request
<1>5. \A u \in Thread : pc'[u] = "wait" => pc[u] = "wait" /\ want'[u] = want[u]
  BY <1>1
<1>6. OneRequestPerWait'
  BY <1>2, <1>4, <1>5 DEF RequestInv, OneRequestPerWait
<1>7. QueuedOnce'
  BY <1>1 DEF RequestInv, QueuedOnce
<1>. QED BY <1>1, <1>6, <1>7 DEF RequestInv

\* A thread with no request of its own, nor of others to serve, enqueues.
LEMMA RequestEnqueue ==
  ASSUME TypeInv, RequestInv, NEW t \in Thread,
         pc[t] \notin {"wait", "ready"}, serving[t] = {}, forwarding[t] = {},
         pc' = [pc EXCEPT ![t] = "ready"], queue' = [queue EXCEPT ![t] = @ + 1],
         UNCHANGED <<want, transferReq, serving, forwarding>>
  PROVE  RequestInv'
<1>1. \A u \in Thread : \A p \in Posted(u) : p \in Request
  BY DEF Posted, TypeInv, TypeOK
<1>2. \A u \in Thread : /\ pc'[u] = IF u = t THEN "ready" ELSE pc[u]
                        /\ queue'[u] = IF u = t THEN queue[u] + 1 ELSE queue[u]
  BY DEF TypeInv, TypeOK
<1>3. QueuedOnce'
  BY <1>2 DEF RequestInv, QueuedOnce
<1>4. \A u \in Thread : pc[u] = "wait" <=> pc'[u] = "wait"
  BY <1>2
<1>5. OneRequestPerWait'
  BY <1>1, <1>4 DEF RequestInv, OneRequestPerWait, Posted, Request
<1>. QED BY <1>2, <1>3, <1>5 DEF RequestInv

\* Nothing is queued twice, and a queued thread has no request.
LEMMA QueueRequest ==
  ASSUME TypeInv, RequestInv, NEW t \in Thread, Dispatch(t) \/ Resume(t)
  PROVE  RequestInv'
<1>1. UNCHANGED <<want, transferReq, serving, forwarding>>
  BY DEF Dispatch, Resume, requestVars
<1>2. pc[t] \in {"ready", "paused"}
  BY DEF Dispatch, Resume, RequestInv, QueuedOnce
<1>3. \A u \in Thread : u # t => pc'[u] = pc[u] /\ queue'[u] = queue[u]
  BY DEF Dispatch, Resume, Enqueue, TypeInv, TypeOK
<1>4. pc'[t] \in {"run", "restore", "ready"}
  BY DEF Dispatch, Resume, Running, TypeInv, TypeOK
<1>5. queue'[t] = IF pc'[t] = "ready" THEN 1 ELSE 0
  <2>1. CASE Dispatch(t)
    <3>1. queue[t] = 1 /\ queue'[t] = queue[t] - 1
      BY <2>1 DEF Dispatch, RequestInv, QueuedOnce, TypeInv, TypeOK
    <3>2. pc'[t] # "ready"
      BY <2>1 DEF Dispatch, Running, TypeInv, TypeOK
    <3>. QED BY <3>1, <3>2
  <2>2. CASE Resume(t)
    <3>1. queue[t] = 0 /\ queue'[t] = queue[t] + 1 /\ pc'[t] = "ready"
      BY <2>2 DEF Resume, Enqueue, RequestInv, QueuedOnce, TypeInv, TypeOK
    <3>. QED BY <3>1
  <2>. QED BY <2>1, <2>2
<1>6. QueuedOnce'
  BY <1>3, <1>5 DEF RequestInv, QueuedOnce
<1>7. \A u \in Thread : Posted(u)' = Posted(u)
  BY <1>1 DEF Posted
<1>8. \A u \in Thread : \A q \in Posted(u) : q \in Request
  BY DEF Posted, TypeInv, TypeOK
<1>9. \A u \in Thread : pc[u] = "wait" <=> pc'[u] = "wait"
  BY <1>2, <1>3, <1>4
<1>10. OneRequestPerWait'
  BY <1>1, <1>7, <1>8, <1>9 DEF RequestInv, OneRequestPerWait, Request
<1>11. serving[t] = {} /\ forwarding[t] = {}
  BY <1>2 DEF RequestInv
<1>. QED BY <1>1, <1>3, <1>6, <1>10, <1>11 DEF RequestInv

\* Only sendTransferReq() posts a request, of a thread that has none.
LEMMA LockReferenceRequest ==
  ASSUME TypeInv, RequestInv, NEW t \in Thread, LockReference(t)
  PROVE  RequestInv'
<1>1. ASSUME NEW r \in Ref, AccessOwned(t, r) \/ AccessFree(t, r) \/ RestoreFree(t, r)
      PROVE  RequestInv'
  BY <1>1 DEF AccessOwned, AccessFree, RestoreFree, requestVars, RequestInv,
              OneRequestPerWait, QueuedOnce, Posted
<1>2. ASSUME NEW r \in Ref, AccessHeld(t, r) \/ RestoreHeld(t, r) PROVE RequestInv'
  <2>1. UNCHANGED <<transferReq, serving, forwarding, queue>>
    BY <1>2 DEF AccessHeld, RestoreHeld, requestVars
  <2>2. /\ pc[t] \in {"run", "restore"}
        /\ pc' = [pc EXCEPT ![t] = "lock"]
        /\ \A u \in Thread : u # t => want'[u] = want[u]
    BY <1>2 DEF AccessHeld, RestoreHeld, TypeInv, TypeOK
  <2>3. serving[t] = {} /\ forwarding[t] = {}
    BY <2>2 DEF RequestInv
  <2>4. "lock" \in State
    BY DEF State
  <2>. QED BY <2>1, <2>2, <2>3, <2>4, RequestFrame
<1>3. ASSUME SlowAcquire(t) \/ SlowRead(t) \/ HolderGone(t) \/ Restored(t)
      PROVE  RequestInv'
  <2>1. UNCHANGED <<transferReq, serving, forwarding, queue>>
    BY <1>3 DEF SlowAcquire, SlowRead, HolderGone, Restored, requestVars
  <2>2. \E s \in {"run", "restore", "send", "finish"} : pc' = [pc EXCEPT ![t] = s]
    BY <1>3 DEF SlowAcquire, SlowRead, HolderGone, Restored, Running
  <2>3. PICK s \in {"run", "restore", "send", "finish"} : pc' = [pc EXCEPT ![t] = s]
    BY <2>2
  <2>4. /\ pc[t] \in {"lock", "restore"}
        /\ \A u \in Thread : u # t => want'[u] = want[u]
    BY <1>3 DEF SlowAcquire, SlowRead, HolderGone, Restored, TypeInv, TypeOK
  <2>5. serving[t] = {} /\ forwarding[t] = {}
    BY <2>4 DEF RequestInv
  <2>6. s \in State /\ s \notin {"wait", "ready"}
    BY DEF State
  <2>. QED BY <2>1, <2>3, <2>4, <2>5, <2>6, RequestFrame
<1>4. ASSUME SendTransferReq(t) PROVE RequestInv'
  <2>. DEFINE q == [requester |-> t, ref |-> want[t]]
              h == holder[t]
  <2>1. /\ UNCHANGED <<want, serving, forwarding, queue>>
        /\ pc[t] = "send" /\ pc' = [pc EXCEPT ![t] = "wait"]
        /\ transferReq' = [transferReq EXCEPT ![h] = @ \cup {q}]
    BY <1>4 DEF SendTransferReq
  <2>2. want[t] \in Ref /\ h \in Thread
    BY <2>1 DEF TypeInv, LocalsInv, Stopping
  <2>3. q \in Request /\ q.requester = t /\ q.ref = want[t]
    BY <2>2 DEF Request
  <2>4. \A u \in Thread : pc'[u] = IF u = t THEN "wait" ELSE pc[u]
    BY <2>1 DEF TypeInv, TypeOK
  <2>5. \A u \in Thread :
          transferReq'[u] = IF u = h THEN transferReq[u] \cup {q} ELSE transferReq[u]
    BY <2>1 DEF TypeInv, TypeOK
  <2>6. \A u \in Thread : Posted(u)' = IF u = h THEN Posted(u) \cup {q} ELSE Posted(u)
    BY <2>1, <2>5 DEF Posted
  <2>7. \A u \in Thread : q \notin Posted(u)
    BY <2>1, <2>3 DEF RequestInv, OneRequestPerWait
  <2>8. \A u \in Thread : \A p \in Posted(u) : p \in Request /\ p.requester # t
    BY <2>1 DEF RequestInv, OneRequestPerWait, Posted, TypeInv, TypeOK
  <2>9. \A u \in Thread : \A p \in Posted(u)' :
          pc'[p.requester] = "wait" /\ want'[p.requester] = p.ref
    BY <2>1, <2>3, <2>4, <2>6, <2>8 DEF RequestInv, OneRequestPerWait, Request
  <2>10. \A u \in Thread : pc'[u] = "wait" =>
           \E v \in Thread : [requester |-> u, ref |-> want'[u]] \in Posted(v)'
    <3>. TAKE u \in Thread
    <3>1. CASE u = t
      BY <3>1, <2>1, <2>2, <2>6
    <3>2. CASE u # t
      BY <3>2, <2>1, <2>4, <2>6 DEF RequestInv, OneRequestPerWait
    <3>. QED BY <3>1, <3>2
  <2>11. \A u, v \in Thread : Posted(u)' \cap Posted(v)' # {} => u = v
    BY <2>6, <2>7 DEF RequestInv, OneRequestPerWait
  <2>12. \A u \in Thread : /\ transferReq'[u] \cap serving'[u] = {}
                           /\ transferReq'[u] \cap forwarding'[u] = {}
                           /\ serving'[u] \cap forwarding'[u] = {}
    <3>1. \A u \in Thread : q \notin serving[u] /\ q \notin forwarding[u]
      BY <2>7 DEF Posted
    <3>. QED BY <3>1, <2>1, <2>5 DEF RequestInv, OneRequestPerWait
  <2>13. OneRequestPerWait'
    BY <2>9, <2>10, <2>11, <2>12 DEF OneRequestPerWait
  <2>14. QueuedOnce'
    BY <2>1, <2>4 DEF RequestInv, QueuedOnce
  <2>15. serving[t] = {} /\ forwarding[t] = {}
    BY <2>1 DEF RequestInv
  <2>. QED BY <2>1, <2>4, <2>13, <2>14, <2>15 DEF RequestInv
<1>. QED BY <1>1, <1>2, <1>3, <1>4 DEF LockReference

\* checkTransferReq() keeps each request in one place until it grants it.
LEMMA CheckTransferReqRequest ==
  ASSUME TypeInv, RequestInv, NEW t \in Thread, CheckTransferReq(t)
  PROVE  RequestInv'
<1>0. \A u \in Thread : \A p \in Posted(u) : p \in Request
  BY DEF Posted, TypeInv, TypeOK
<1>1. ASSUME NEW r \in Ref, Unlock(t, r) PROVE RequestInv'
  BY <1>1 DEF Unlock, requestVars, RequestInv, OneRequestPerWait, QueuedOnce, Posted
<1>2. ASSUME LookUpNewHolder(t) PROVE RequestInv'
  <2>1. UNCHANGED <<want, transferReq, serving, forwarding, queue>>
    BY <1>2 DEF LookUpNewHolder, requestVars
  <2>2. pc[t] = "forward" /\ \E s \in {"push", "crash"} : pc' = [pc EXCEPT ![t] = s]
    BY <1>2 DEF LookUpNewHolder
  <2>3. PICK s \in {"push", "crash"} : pc' = [pc EXCEPT ![t] = s]
    BY <2>2
  <2>4. s \in State
    BY DEF State
  <2>. QED BY <2>1, <2>2, <2>3, <2>4, RequestFrame
<1>3. ASSUME EndOfRequests(t) PROVE RequestInv'
  <2>1. /\ UNCHANGED <<want, transferReq, serving, forwarding>>
        /\ pc[t] = "serve" /\ serving[t] = {}
    BY <1>3 DEF EndOfRequests, requestVars
  <2>2. forwarding[t] = {}
    BY <2>1 DEF RequestInv
  <2>3. CASE after[t] = "ready"
    <3>1. pc' = [pc EXCEPT ![t] = "ready"] /\ queue' = [queue EXCEPT ![t] = @ + 1]
      BY <1>3, <2>3 DEF EndOfRequests, Enqueue
    <3>. QED BY <2>1, <2>2, <3>1, RequestEnqueue
  <2>4. CASE after[t] # "ready"
    <3>. DEFINE s == IF after[t] = "run" THEN Running(t) ELSE after[t]
    <3>1. s \in State /\ s \notin {"wait", "ready"}
      BY <2>1, <2>4 DEF Running, TypeInv, TypeOK, LocalsInv, Continuation, State
    <3>2. pc' = [pc EXCEPT ![t] = s] /\ UNCHANGED queue
      BY <1>3, <2>4 DEF EndOfRequests
    <3>. HIDE DEF s
    <3>. QED BY <2>1, <2>2, <3>1, <3>2, RequestFrame
  <2>. QED BY <2>3, <2>4
<1>4. ASSUME TakeRequests(t) PROVE RequestInv'
  <2>1. /\ UNCHANGED <<want, forwarding, queue>>
        /\ pc[t] = "drop" /\ pc' = [pc EXCEPT ![t] = "serve"]
        /\ serving' = [serving EXCEPT ![t] = transferReq[t]]
        /\ transferReq' = [transferReq EXCEPT ![t] = {}]
    BY <1>4 DEF TakeRequests
  <2>2. serving[t] = {} /\ forwarding[t] = {}
    BY <2>1 DEF RequestInv
  <2>3. \A u \in Thread :
          /\ pc'[u] = IF u = t THEN "serve" ELSE pc[u]
          /\ serving'[u] = IF u = t THEN transferReq[u] ELSE serving[u]
          /\ transferReq'[u] = IF u = t THEN {} ELSE transferReq[u]
    BY <2>1 DEF TypeInv, TypeOK
  <2>4. \A u \in Thread : Posted(u)' = Posted(u)
    BY <2>1, <2>2, <2>3 DEF Posted
  <2>5. \A u \in Thread : pc[u] = "wait" <=> pc'[u] = "wait"
    BY <2>1, <2>3
  <2>6. \A u \in Thread : /\ transferReq'[u] \cap serving'[u] = {}
                          /\ transferReq'[u] \cap forwarding'[u] = {}
                          /\ serving'[u] \cap forwarding'[u] = {}
    BY <2>1, <2>2, <2>3 DEF RequestInv, OneRequestPerWait
  <2>7. OneRequestPerWait'
    BY <1>0, <2>1, <2>4, <2>5, <2>6 DEF RequestInv, OneRequestPerWait, Request
  <2>8. QueuedOnce'
    BY <2>1, <2>3 DEF RequestInv, QueuedOnce
  <2>. QED BY <2>1, <2>2, <2>3, <2>7, <2>8 DEF RequestInv
<1>5. ASSUME NEW q \in Request, ReadNewHolder(t, q) PROVE RequestInv'
  <2>1. /\ UNCHANGED <<want, transferReq, queue>>
        /\ pc[t] = "serve" /\ pc' = [pc EXCEPT ![t] = "forward"]
        /\ q \in serving[t]
        /\ serving' = [serving EXCEPT ![t] = @ \ {q}]
        /\ forwarding' = [forwarding EXCEPT ![t] = {q}]
    BY <1>5 DEF ReadNewHolder
  <2>2. forwarding[t] = {}
    BY <2>1 DEF RequestInv
  <2>3. \A u \in Thread :
          /\ pc'[u] = IF u = t THEN "forward" ELSE pc[u]
          /\ serving'[u] = IF u = t THEN serving[u] \ {q} ELSE serving[u]
          /\ forwarding'[u] = IF u = t THEN {q} ELSE forwarding[u]
    BY <2>1 DEF TypeInv, TypeOK
  <2>4. \A u \in Thread : Posted(u)' = Posted(u)
    BY <2>1, <2>2, <2>3 DEF Posted
  <2>5. \A u \in Thread : pc[u] = "wait" <=> pc'[u] = "wait"
    BY <2>1, <2>3
  <2>6. \A u \in Thread : /\ transferReq'[u] \cap serving'[u] = {}
                          /\ transferReq'[u] \cap forwarding'[u] = {}
                          /\ serving'[u] \cap forwarding'[u] = {}
    BY <2>1, <2>2, <2>3, SMTT(20) DEF RequestInv, OneRequestPerWait
  <2>7. OneRequestPerWait'
    BY <1>0, <2>1, <2>4, <2>5, <2>6 DEF RequestInv, OneRequestPerWait, Request
  <2>8. QueuedOnce'
    BY <2>1, <2>3 DEF RequestInv, QueuedOnce
  <2>. QED BY <2>1, <2>2, <2>3, <2>7, <2>8 DEF RequestInv
<1>6. ASSUME ForwardRequest(t) PROVE RequestInv'
  <2>1. pc[t] = "push" /\ holder[t] \in Thread /\ UNCHANGED <<want, serving, queue>>
    BY <1>6 DEF ForwardRequest, TypeInv, LocalsInv
  <2>2. CASE UNCHANGED <<transferReq, forwarding>> /\ pc' = [pc EXCEPT ![t] = "crash"]
    <3>1. "crash" \in State
      BY DEF State
    <3>. QED BY <2>1, <2>2, <3>1, RequestFrame
  <2>3. CASE /\ transferReq' = [transferReq EXCEPT ![holder[t]] = @ \cup forwarding[t]]
             /\ forwarding' = [forwarding EXCEPT ![t] = {}]
             /\ pc' = [pc EXCEPT ![t] = "serve"]
    <3>. DEFINE F == forwarding[t]
    <3>0. PICK h \in Thread : h = holder[t]
      BY <2>1
    <3>1. \A u \in Thread :
            /\ pc'[u] = IF u = t THEN "serve" ELSE pc[u]
            /\ transferReq'[u] = IF u = h THEN transferReq[u] \cup F ELSE transferReq[u]
            /\ forwarding'[u] = IF u = t THEN {} ELSE forwarding[u]
      BY <2>3, <3>0 DEF TypeInv, TypeOK
    <3>2. \A u \in Thread : Posted(u)' =
            ((IF u = h THEN transferReq[u] \cup F ELSE transferReq[u])
               \cup serving[u] \cup (IF u = t THEN {} ELSE forwarding[u]))
      BY <2>1, <3>1 DEF Posted
    <3>3. F \subseteq Posted(t) /\ F \cap serving[t] = {} /\ F \cap transferReq[t] = {}
      BY DEF Posted, RequestInv, OneRequestPerWait
    <3>4. \A u \in Thread : u # t => F \cap Posted(u) = {}
      BY <3>3 DEF RequestInv, OneRequestPerWait
    <3>5. \A u \in Thread : \A p \in Posted(u)' : p \in Posted(u) \/ p \in F
      BY <3>2 DEF Posted
    <3>6. \A u \in Thread : \A p \in Posted(u) :
            p \in Posted(u)' \/ p \in Posted(h)'
      <4>. TAKE u \in Thread
      <4>. TAKE p \in Posted(u)
      <4>1. CASE p \in forwarding[u] /\ u = t
        <5>1. Posted(h)' = transferReq[h] \cup F \cup serving[h]
                             \cup (IF h = t THEN {} ELSE forwarding[h])
          BY <2>1, <3>2
        <5>. QED BY <5>1, <4>1
      <4>2. CASE p \in transferReq[u] \cup serving[u] \/ u # t
        BY <4>2, <3>2 DEF Posted
      <4>. QED BY <4>1, <4>2 DEF Posted
    <3>7. \A u, v \in Thread : Posted(u)' \cap Posted(v)' # {} => u = v
      <4>1. SUFFICES ASSUME NEW u \in Thread, NEW v \in Thread,
                            NEW p \in Posted(u)', p \in Posted(v)', u # v
                     PROVE  FALSE
        OBVIOUS
      <4>2. CASE p \notin F
        BY <4>1, <4>2, <3>5 DEF RequestInv, OneRequestPerWait
      <4>3. CASE p \in F
        <5>1. \A w \in Thread : p \in Posted(w)' => w = h
          BY <4>3, <3>2, <3>3, <3>4 DEF Posted
        <5>. QED BY <4>1, <5>1
      <4>. QED BY <4>2, <4>3
    <3>8. \A u \in Thread : /\ transferReq'[u] \cap serving'[u] = {}
                            /\ transferReq'[u] \cap forwarding'[u] = {}
                            /\ serving'[u] \cap forwarding'[u] = {}
      <4>. TAKE u \in Thread
      <4>1. u # t => F \cap serving[u] = {} /\ F \cap forwarding[u] = {}
        BY <3>4 DEF Posted
      <4>2. /\ transferReq[u] \cap serving[u] = {}
            /\ transferReq[u] \cap forwarding[u] = {}
            /\ serving[u] \cap forwarding[u] = {}
        BY DEF RequestInv, OneRequestPerWait
      <4>. QED BY <2>1, <3>1, <3>3, <4>1, <4>2
    <3>9. \A u \in Thread : \A p \in Posted(u)' :
            pc'[p.requester] = "wait" /\ want'[p.requester] = p.ref
      <4>. TAKE u \in Thread
      <4>. TAKE p \in Posted(u)'
      <4>1. PICK v \in Thread : p \in Posted(v)
        BY <3>3, <3>5
      <4>2. pc[p.requester] = "wait" /\ want[p.requester] = p.ref /\ p \in Request
        BY <4>1, <1>0 DEF RequestInv, OneRequestPerWait
      <4>. QED BY <4>2, <2>1, <3>1 DEF Request
    <3>10. \A u \in Thread : pc'[u] = "wait" =>
             \E v \in Thread : [requester |-> u, ref |-> want'[u]] \in Posted(v)'
      <4>. TAKE u \in Thread
      <4>. HAVE pc'[u] = "wait"
      <4>1. PICK v \in Thread : [requester |-> u, ref |-> want[u]] \in Posted(v)
        BY <3>1 DEF RequestInv, OneRequestPerWait
      <4>2. want'[u] = want[u]
        BY <2>1
      <4>3. [requester |-> u, ref |-> want[u]] \in Posted(v)'
              \/ [requester |-> u, ref |-> want[u]] \in Posted(h)'
        BY <4>1, <3>6
      <4>. QED BY <4>2, <4>3
    <3>11. OneRequestPerWait'
      BY <3>7, <3>8, <3>9, <3>10 DEF OneRequestPerWait
    <3>12. QueuedOnce'
      <4>1. \A u \in Thread : (pc'[u] = "ready") <=> (pc[u] = "ready")
        BY <2>1, <3>1
      <4>. QED BY <2>1, <4>1 DEF RequestInv, QueuedOnce
    <3>. QED BY <2>1, <3>1, <3>11, <3>12 DEF RequestInv
  <2>. QED BY <1>6, <2>2, <2>3 DEF ForwardRequest
<1>7. ASSUME NEW q \in Request, Grant(t, q) PROVE RequestInv'
  <2>. DEFINE w == q.requester
  <2>1. /\ UNCHANGED <<transferReq, forwarding>>
        /\ pc[t] = "serve" /\ pc' = [pc EXCEPT ![w] = "ready"]
        /\ q \in serving[t]
        /\ serving' = [serving EXCEPT ![t] = @ \ {q}]
        /\ want' = [want EXCEPT ![w] = NoRef]
        /\ queue' = [queue EXCEPT ![w] = @ + 1]
    BY <1>7 DEF Grant, Enqueue
  <2>2. w \in Thread /\ q \in Posted(t) /\ pc[w] = "wait" /\ want[w] = q.ref /\ w # t
    BY <2>1 DEF Request, Posted, RequestInv, OneRequestPerWait
  <2>3. \A u \in Thread :
          /\ pc'[u] = IF u = w THEN "ready" ELSE pc[u]
          /\ serving'[u] = IF u = t THEN serving[u] \ {q} ELSE serving[u]
          /\ want'[u] = IF u = w THEN NoRef ELSE want[u]
          /\ queue'[u] = IF u = w THEN queue[u] + 1 ELSE queue[u]
    BY <2>1, <2>2 DEF TypeInv, TypeOK
  <2>4. q \notin transferReq[t] /\ q \notin forwarding[t]
    BY <2>1 DEF RequestInv, OneRequestPerWait
  <2>5. \A u \in Thread : u # t => q \notin Posted(u)
    BY <2>2 DEF RequestInv, OneRequestPerWait
  <2>6. \A u \in Thread : Posted(u)' = Posted(u) \ {q}
    <3>. TAKE u \in Thread
    <3>1. CASE u = t
      BY <3>1, <2>1, <2>3, <2>4 DEF Posted
    <3>2. CASE u # t
      BY <3>2, <2>1, <2>3, <2>5 DEF Posted
    <3>. QED BY <3>1, <3>2
  <2>7. \A u \in Thread : \A p \in Posted(u) \ {q} : p.requester # w
    <3>. TAKE u \in Thread
    <3>. TAKE p \in Posted(u) \ {q}
    <3>1. p \in Request /\ want[p.requester] = p.ref
      BY <1>0 DEF RequestInv, OneRequestPerWait
    <3>. QED BY <3>1, <2>2 DEF Request
  <2>8. \A u \in Thread : \A p \in Posted(u)' :
          pc'[p.requester] = "wait" /\ want'[p.requester] = p.ref
    <3>. TAKE u \in Thread
    <3>. TAKE p \in Posted(u)'
    <3>1. p \in Posted(u) \ {q} /\ p.requester # w
      BY <2>6, <2>7
    <3>2. /\ p \in Request
          /\ pc[p.requester] = "wait" /\ want[p.requester] = p.ref
      BY <3>1, <1>0 DEF RequestInv, OneRequestPerWait
    <3>3. p.requester \in Thread
      BY <3>2 DEF Request
    <3>. QED BY <3>1, <3>2, <3>3, <2>3
  <2>9. \A u \in Thread : pc'[u] = "wait" =>
          \E v \in Thread : [requester |-> u, ref |-> want'[u]] \in Posted(v)'
    <3>. TAKE u \in Thread
    <3>. HAVE pc'[u] = "wait"
    <3>1. u # w /\ pc[u] = "wait" /\ want'[u] = want[u]
      BY <2>2, <2>3
    <3>2. PICK v \in Thread : [requester |-> u, ref |-> want[u]] \in Posted(v)
      BY <3>1 DEF RequestInv, OneRequestPerWait
    <3>3. [requester |-> u, ref |-> want[u]] # q
      BY <3>1
    <3>. QED BY <3>1, <3>2, <3>3, <2>6
  <2>10. \A u, v \in Thread : Posted(u)' \cap Posted(v)' # {} => u = v
    BY <2>6 DEF RequestInv, OneRequestPerWait
  <2>11. \A u \in Thread : /\ transferReq'[u] \cap serving'[u] = {}
                           /\ transferReq'[u] \cap forwarding'[u] = {}
                           /\ serving'[u] \cap forwarding'[u] = {}
    BY <2>1, <2>3 DEF RequestInv, OneRequestPerWait
  <2>12. OneRequestPerWait'
    BY <2>8, <2>9, <2>10, <2>11 DEF OneRequestPerWait
  <2>13. QueuedOnce'
    <3>1. queue[w] = 0
      BY <2>2 DEF RequestInv, QueuedOnce
    <3>2. queue'[w] = queue[w] + 1 /\ pc'[w] = "ready"
      BY <2>2, <2>3
    <3>3. \A u \in Thread : u # w => queue'[u] = queue[u] /\ pc'[u] = pc[u]
      BY <2>3
    <3>. QED BY <3>1, <3>2, <3>3 DEF RequestInv, QueuedOnce
  <2>. QED BY <2>1, <2>2, <2>3, <2>12, <2>13 DEF RequestInv
<1>. QED
  BY <1>1, <1>2, <1>3, <1>4, <1>5, <1>6, <1>7 DEF CheckTransferReq

\* Nothing else a script does concerns requests.
LEMMA RunScriptRequest ==
  ASSUME TypeInv, RequestInv, NEW t \in Thread, RunScript(t)
  PROVE  RequestInv'
<1>1. ASSUME Constructed(t) \/ CallOfNothing(t) PROVE RequestInv'
  <2>1. /\ UNCHANGED <<want, transferReq, serving, forwarding>>
        /\ pc[t] \in {"run", "drop"}
        /\ pc' = [pc EXCEPT ![t] = "ready"] /\ queue' = [queue EXCEPT ![t] = @ + 1]
    BY <1>1 DEF Constructed, CallOfNothing, Enqueue, requestVars
  <2>2. serving[t] = {} /\ forwarding[t] = {}
    BY <2>1 DEF RequestInv
  <2>. QED BY <2>1, <2>2, RequestEnqueue
<1>2. ASSUME \/ NextStatement(t) \/ NativeWait(t) \/ Call(t) \/ Construct(t) \/ Return(t)
             \/ PopBlockForFinish(t) \/ PopForFinish(t) \/ Remove(t) \/ Exit(t)
             \/ \E r \in Ref : Declare(t, r) \/ ReleaseTransient(t, r)
             \/ \E rs \in SUBSET Captured : PopBlock(t, rs)
      PROVE  RequestInv'
  <2>1. UNCHANGED <<want, transferReq, serving, forwarding, queue>>
    BY <1>2 DEF NextStatement, NativeWait, Call, Construct, Return, PopBlockForFinish,
                PopForFinish, Remove, Exit, Declare, ReleaseTransient, PopBlock, requestVars
  <2>2. pc[t] \in {"run", "finish", "remove", "exit"}
    BY <1>2 DEF NextStatement, NativeWait, Call, Construct, Return, PopBlockForFinish,
                PopForFinish, Remove, Exit, Declare, ReleaseTransient, PopBlock
  <2>3. \E s \in {"run", "drop", "gone"} : pc' = [pc EXCEPT ![t] = s]
    BY <1>2 DEF NextStatement, NativeWait, Call, Construct, Return, PopBlockForFinish,
                PopForFinish, Remove, Exit, Declare, ReleaseTransient, PopBlock, TypeInv,
                TypeOK
  <2>4. PICK s \in {"run", "drop", "gone"} : pc' = [pc EXCEPT ![t] = s]
    BY <2>3
  <2>5. serving[t] = {} /\ forwarding[t] = {} /\ s \in State
    BY <2>2 DEF RequestInv, State
  <2>. QED BY <2>1, <2>2, <2>4, <2>5, RequestFrame
<1>. QED BY <1>1, <1>2 DEF RunScript

------------------------------------------------------------------------------
(* Locks.                                                                  *)

\* A step that changes no lock: only where t is, what it wants, or what it
\* does after checkTransferReq().
LEMMA LockFrame ==
  ASSUME IndInv, NEW t \in Thread, NEW s, UNCHANGED lockVars,
         pc' = [pc EXCEPT ![t] = s],
         \A u \in Thread : u # t => want'[u] = want[u] /\ after'[u] = after[u],
         s = "run" => depth[t] \notin calling[t],
         depth[t] = 0 => \/ s \in {"remove", "exit", "gone"}
                         \/ s \in Checking /\ after'[t] \in {"remove", "exit"},
         dropping[t] # {} => s = "drop",
         s \in Stopping => /\ owner[want'[t]] # t
                           /\ depth[t] \in calling[t] => want'[t] \in temp[t][depth[t]],
         pc[t] \in Stopping \cup {"ready", "restore", "finish"} =>
           s \in Stopping \cup {"ready", "restore", "finish"} \/ depth[t] \notin calling[t]
  PROVE  LockInv' /\ AccountedInv'
<1>1. \A u \in Thread : pc'[u] = IF u = t THEN s ELSE pc[u]
  BY DEF IndInv, TypeInv, TypeOK
<1>2. UNCHANGED <<owner, hard, soft, temp, calling, depth, dropping, lost>>
  BY DEF lockVars, lockSets, blockState
<1>3. \A u \in Thread : \A d \in Frame : Held(u, d)' = Held(u, d)
  BY <1>2 DEF Held
<1>4. HeldInv' /\ SetsInv'
  BY <1>2, <1>3 DEF IndInv, LockInv, HeldInv, SetsInv
<1>5. FrameInv'
  BY <1>1, <1>2 DEF IndInv, LockInv, FrameInv
<1>6. DroppingInv'
  BY <1>1, <1>2, <1>3 DEF IndInv, LockInv, DroppingInv
<1>7. WantInv'
  BY <1>1, <1>2 DEF IndInv, LockInv, WantInv
<1>8. AccountedInv'
  <2>1. SUFFICES ASSUME NEW u \in Thread, NEW r \in Ref, owner[r] = u,
                        r \notin dropping[u], r \notin lost,
                        \A d \in Frame : r \notin Held(u, d)
                 PROVE  /\ depth[u] > 0 /\ r \in temp[u][depth[u]]
                        /\ pc'[u] \in Stopping \cup {"ready", "restore", "finish"}
    BY <1>2, <1>3 DEF AccountedInv
  <2>2. /\ depth[u] > 0 /\ r \in temp[u][depth[u]]
        /\ pc[u] \in Stopping \cup {"ready", "restore", "finish"}
    BY <2>1 DEF IndInv, AccountedInv
  <2>3. depth[u] \in Frame
    BY <2>2, FrameAssumption DEF IndInv, TypeInv, TypeOK, Frame
  <2>4. depth[u] \in calling[u]
    BY <2>1, <2>2, <2>3 DEF Held
  <2>. QED BY <1>1, <2>2, <2>4
<1>. QED BY <1>4, <1>5, <1>6, <1>7, <1>8 DEF LockInv

\* A thread that is not on its way out has a frame.
LEMMA TopFrame ==
  ASSUME IndInv, NEW t \in Thread,
         pc[t] \in Stopping \cup {"ready", "run", "restore", "paused", "finish"}
  PROVE  depth[t] \in Frame
BY FrameAssumption, SMTT(20)
   DEF IndInv, TypeInv, TypeOK, Frame, LockInv, FrameInv, Stopping, Checking

\* What a thread holds in a frame below the topmost one was locked Hard.
LEMMA HeldBelow ==
  ASSUME IndInv, NEW t \in Thread, NEW d \in Frame, d # depth[t]
  PROVE  Held(t, d) = hard[t][d] /\ soft[t][d] = {}
<1>1. d < depth[t] \/ d > depth[t]
  BY FrameAssumption DEF IndInv, TypeInv, TypeOK, Frame
<1>2. CASE d < depth[t]
  BY <1>2 DEF IndInv, LockInv, FrameInv, SetsInv, Held
<1>3. CASE d > depth[t]
  BY <1>3 DEF IndInv, LockInv, FrameInv, Held
<1>. QED BY <1>1, <1>2, <1>3

\* Lock::add() with a type that may be another than the usual one of the reference.
AddAs(k, t, r) ==
  LET Plus(refs, j) ==
        IF k = j THEN Put(refs, t, depth[t], refs[t][depth[t]] \cup {r}) ELSE refs
  IN /\ hard' = Plus(hard, "Hard")
     /\ soft' = Plus(soft, "Soft")
     /\ temp' = Plus(temp, "Temporary")

\* It changes the topmost frame of the thread only.
AddsOnly(k, t, r) ==
  \A u \in Thread : \A d \in Frame :
    /\ hard'[u][d] = IF u = t /\ d = depth[t] /\ k = "Hard"
                       THEN hard[u][d] \cup {r} ELSE hard[u][d]
    /\ soft'[u][d] = IF u = t /\ d = depth[t] /\ k = "Soft"
                       THEN soft[u][d] \cup {r} ELSE soft[u][d]
    /\ temp'[u][d] = IF u = t /\ d = depth[t] /\ k = "Temporary"
                       THEN temp[u][d] \cup {r} ELSE temp[u][d]

LEMMA AddValue ==
  ASSUME TypeOK, NEW t \in Thread, NEW r \in Ref, NEW k \in LockType,
         AddAs(k, t, r), depth[t] \in Frame
  PROVE  AddsOnly(k, t, r)
<1>. USE DEF AddsOnly
<1>1. ASSUME NEW A \in LockTable, NEW B, NEW j,
             B = IF k = j THEN Put(A, t, depth[t], A[t][depth[t]] \cup {r}) ELSE A
      PROVE  \A u \in Thread : \A d \in Frame : B[u][d] =
               IF u = t /\ d = depth[t] /\ k = j THEN A[u][d] \cup {r} ELSE A[u][d]
  <2>1. \A u \in Thread : \A d \in Frame :
          Put(A, t, depth[t], A[t][depth[t]] \cup {r})[u][d] =
            IF u = t /\ d = depth[t] THEN A[t][depth[t]] \cup {r} ELSE A[u][d]
    BY PutValue
  <2>2. CASE k = j
    BY <2>1, <2>2, <1>1
  <2>3. CASE k # j
    BY <2>3, <1>1
  <2>. QED BY <2>2, <2>3
<1>2. hard \in LockTable /\ soft \in LockTable /\ temp \in LockTable
  BY DEF TypeOK
<1>3. \A u \in Thread : \A d \in Frame : hard'[u][d] =
        IF u = t /\ d = depth[t] /\ k = "Hard" THEN hard[u][d] \cup {r} ELSE hard[u][d]
  BY <1>1, <1>2 DEF AddAs
<1>4. \A u \in Thread : \A d \in Frame : soft'[u][d] =
        IF u = t /\ d = depth[t] /\ k = "Soft" THEN soft[u][d] \cup {r} ELSE soft[u][d]
  BY <1>1, <1>2 DEF AddAs
<1>5. \A u \in Thread : \A d \in Frame : temp'[u][d] =
        IF u = t /\ d = depth[t] /\ k = "Temporary"
          THEN temp[u][d] \cup {r} ELSE temp[u][d]
  BY <1>1, <1>2 DEF AddAs
<1>. QED BY <1>3, <1>4, <1>5

\* A thread gets a reference nobody has: it declares it, runs into it, finds it free
\* after all, or is granted it.  On return to a frame the Lock remembers it already.
LEMMA AcquireAs ==
  ASSUME IndInv, NEW t \in Thread, NEW r \in Ref, NEW s \in {"run", "restore", "ready"},
         owner[r] = NoThread, owner' = [owner EXCEPT ![r] = t],
         NEW k \in LockType, AddAs(k, t, r),
         \/ k = Kind[r]
         \/ k = "Soft" /\ Kind[r] = "Temporary" /\ depth[t] \notin calling[t],
         UNCHANGED <<calling, depth, dropping, after, lost>>,
         pc' = [pc EXCEPT ![t] = s],
         \A u \in Thread : u # t => want'[u] = want[u],
         depth[t] \in Frame, dropping[t] = {},
         depth[t] \in calling[t] => s # "run" /\ r \in temp[t][depth[t]]
  PROVE  LockInv' /\ AccountedInv'
<1>. DEFINE top == depth[t]
<1>1. \A u \in Thread : pc'[u] = IF u = t THEN s ELSE pc[u]
  BY DEF IndInv, TypeInv, TypeOK
<1>2. \A q \in Ref : owner'[q] = IF q = r THEN t ELSE owner[q]
  BY DEF IndInv, TypeInv, TypeOK
<1>3. \A u \in Thread : \A d \in Frame :
        /\ hard'[u][d] = IF u = t /\ d = top /\ k = "Hard"
                           THEN hard[u][d] \cup {r} ELSE hard[u][d]
        /\ soft'[u][d] = IF u = t /\ d = top /\ k = "Soft"
                           THEN soft[u][d] \cup {r} ELSE soft[u][d]
        /\ temp'[u][d] = IF u = t /\ d = top /\ k = "Temporary"
                           THEN temp[u][d] \cup {r} ELSE temp[u][d]
  <2>1. TypeOK /\ AddAs(k, t, r) /\ depth[t] \in Frame
    BY DEF IndInv, TypeInv
  <2>2. AddsOnly(k, t, r)
    BY <2>1, AddValue
  <2>. QED BY <2>2 DEF AddsOnly
<1>4. k \in LockType /\ (Kind[r] = "Hard" <=> k = "Hard")
        /\ (k = "Temporary" => Kind[r] = "Temporary")
  BY KindAssumption DEF LockType
<1>5. \A u \in Thread : u # NoThread
  BY NullAssumption
<1>6. \A u \in Thread : \A d \in Frame : r \notin Held(u, d)
  BY <1>5 DEF IndInv, LockInv, HeldInv
<1>7. \A u \in Thread : r \notin dropping[u]
  BY <1>5 DEF IndInv, LockInv, DroppingInv
<1>8. top \in calling[t] => k = "Temporary" /\ temp' = temp
  <2>. HAVE top \in calling[t]
  <2>1. r \in temp[t][top] /\ k = "Temporary"
    BY DEF IndInv, LockInv, SetsInv
  <2>2. temp' = Put(temp, t, top, temp[t][top])
    <3>1. temp[t][top] \cup {r} = temp[t][top]
      BY <2>1
    <3>. QED BY <2>1, <3>1 DEF AddAs
  <2>3. Put(temp, t, top, temp[t][top]) = temp
    BY DEF Put, IndInv, TypeInv, TypeOK, LockTable
  <2>. QED BY <2>1, <2>2, <2>3
<1>9. \A u \in Thread : \A d \in Frame :
        Held(u, d)' = IF u = t /\ d = top /\ top \notin calling[t]
                        THEN Held(u, d) \cup {r} ELSE Held(u, d)
  <2>. TAKE u \in Thread
  <2>. TAKE d \in Frame
  <2>1. CASE ~(u = t /\ d = top)
    BY <1>3, <2>1, ZenonT(60) DEF Held
  <2>2. CASE u = t /\ d = top /\ top \notin calling[t]
    BY <1>3, <1>4, <2>2 DEF Held, LockType
  <2>3. CASE u = t /\ d = top /\ top \in calling[t]
    BY <1>3, <1>8, <2>3 DEF Held
  <2>. QED BY <2>1, <2>2, <2>3
<1>. HIDE DEF top
<1>10. HeldInv'
  <2>1. SUFFICES ASSUME NEW u \in Thread, NEW d \in Frame, NEW q \in Held(u, d)'
                 PROVE  owner'[q] = u
    BY DEF HeldInv
  <2>2. CASE q \in Held(u, d)
    <3>1. q \in Ref /\ q # r /\ owner[q] = u
      BY <2>2, <1>6 DEF Held, IndInv, LockInv, HeldInv, TypeInv, TypeOK, LockTable
    <3>. QED BY <3>1, <1>2
  <2>3. CASE q \notin Held(u, d)
    <3>1. q = r /\ u = t
      BY <2>1, <2>3, <1>9
    <3>. QED BY <3>1, <1>2
  <2>. QED BY <2>2, <2>3
<1>11. SetsInv'
  <2>1. SUFFICES ASSUME NEW u \in Thread, NEW d \in Frame
                 PROVE  /\ \A q \in hard'[u][d] : Kind[q] = "Hard"
                        /\ \A q \in soft'[u][d] : Kind[q] # "Hard"
                        /\ \A q \in temp'[u][d] : Kind[q] = "Temporary"
                        /\ soft'[u][d] \cap temp'[u][d] = {}
                        /\ d \in calling[u] => soft'[u][d] = {}
                        /\ \A c \in Frame : hard'[u][c] \cap hard'[u][d] # {} => c = d
    BY DEF SetsInv
  <2>2. /\ \A q \in hard[u][d] : Kind[q] = "Hard"
        /\ \A q \in soft[u][d] : Kind[q] # "Hard"
        /\ \A q \in temp[u][d] : Kind[q] = "Temporary"
        /\ soft[u][d] \cap temp[u][d] = {}
        /\ d \in calling[u] => soft[u][d] = {}
        /\ \A c \in Frame : hard[u][c] \cap hard[u][d] # {} => c = d
    BY DEF IndInv, LockInv, SetsInv
  <2>3. r \notin hard[u][d] /\ r \notin soft[u][d]
        /\ \A c \in Frame : r \notin hard[u][c]
    BY <1>6 DEF Held
  <2>4. d \in calling[u] => soft'[u][d] = {}
    BY <1>3, <1>8, <2>2
  <2>5. ASSUME ~(u = t /\ d = top)
        PROVE  /\ \A q \in hard'[u][d] : Kind[q] = "Hard"
               /\ \A q \in soft'[u][d] : Kind[q] # "Hard"
               /\ \A q \in temp'[u][d] : Kind[q] = "Temporary"
               /\ soft'[u][d] \cap temp'[u][d] = {}
    <3>1. hard'[u][d] = hard[u][d] /\ soft'[u][d] = soft[u][d] /\ temp'[u][d] = temp[u][d]
      BY <2>5, <1>3
    <3>. QED BY <3>1, <2>2
  <2>6. ASSUME u = t /\ d = top
        PROVE  /\ \A q \in hard'[u][d] : Kind[q] = "Hard"
               /\ \A q \in soft'[u][d] : Kind[q] # "Hard"
               /\ \A q \in temp'[u][d] : Kind[q] = "Temporary"
               /\ soft'[u][d] \cap temp'[u][d] = {}
    <3>1. CASE k = "Hard"
      <4>1. hard'[u][d] = hard[u][d] \cup {r} /\ soft'[u][d] = soft[u][d]
            /\ temp'[u][d] = temp[u][d]
        BY <3>1, <2>6, <1>3
      <4>. QED BY <4>1, <3>1, <2>2, <1>4
    <3>2. CASE k = "Soft"
      <4>1. hard'[u][d] = hard[u][d] /\ soft'[u][d] = soft[u][d] \cup {r}
            /\ temp'[u][d] = temp[u][d]
        BY <3>2, <2>6, <1>3
      <4>2. r \notin temp[u][d]
        <5>1. CASE k = Kind[r]
          BY <5>1, <2>2, <3>2
        <5>2. CASE k # Kind[r]
          <6>1. d \notin calling[u]
            BY <5>2, <2>6 DEF top
          <6>. QED BY <6>1, <1>6 DEF Held
        <5>. QED BY <5>1, <5>2
      <4>. QED BY <4>1, <4>2, <3>2, <2>2, <1>4
    <3>3. CASE k = "Temporary"
      <4>1. hard'[u][d] = hard[u][d] /\ soft'[u][d] = soft[u][d]
            /\ temp'[u][d] = temp[u][d] \cup {r}
        BY <3>3, <2>6, <1>3
      <4>. QED BY <4>1, <3>3, <2>2, <2>3, <1>4
    <3>. QED BY <3>1, <3>2, <3>3, <1>4 DEF LockType
  <2>7. \A c \in Frame : hard'[u][c] \cap hard'[u][d] # {} => c = d
    <3>. TAKE c \in Frame
    <3>1. CASE c = d
      BY <3>1
    <3>2. CASE c # d
      <4>1. hard'[u][c] = IF u = t /\ c = top /\ k = "Hard"
                            THEN hard[u][c] \cup {r} ELSE hard[u][c]
        BY <1>3
      <4>2. hard'[u][d] = IF u = t /\ d = top /\ k = "Hard"
                            THEN hard[u][d] \cup {r} ELSE hard[u][d]
        BY <1>3
      <4>. QED BY <4>1, <4>2, <3>2, <2>2, <2>3
    <3>. QED BY <3>1, <3>2
  <2>. QED BY <2>4, <2>5, <2>6, <2>7
<1>12. FrameInv'
  <2>1. \A u \in Thread :
          /\ pc'[u] = "run" => depth[u] \notin calling[u]
          /\ depth[u] = 0 => \/ pc'[u] \in {"remove", "exit", "gone"}
                             \/ pc'[u] \in Checking /\ after'[u] \in {"remove", "exit"}
    BY <1>1 DEF IndInv, LockInv, FrameInv, Frame, top
  <2>2. ASSUME NEW u \in Thread, NEW d \in Frame
        PROVE  /\ d < depth[u] => d \in calling[u]
               /\ d > depth[u] => /\ d \notin calling[u]
                                  /\ hard'[u][d] \cup soft'[u][d] \cup temp'[u][d] = {}
    <3>1. /\ d < depth[u] => d \in calling[u]
          /\ d > depth[u] => /\ d \notin calling[u]
                             /\ hard[u][d] \cup soft[u][d] \cup temp[u][d] = {}
      BY DEF IndInv, LockInv, FrameInv
    <3>2. d > depth[u] => ~(u = t /\ d = top)
      BY FrameAssumption DEF top, Frame
    <3>. QED BY <3>1, <3>2, <1>3
  <2>. QED BY <2>1, <2>2 DEF FrameInv
<1>13. DroppingInv'
  <2>1. SUFFICES ASSUME NEW u \in Thread, NEW q \in dropping[u]
                 PROVE  /\ pc'[u] = "drop" /\ owner'[q] = u
                        /\ \A d \in Frame : q \notin Held(u, d)'
    BY DEF DroppingInv
  <2>2. u # t /\ q # r /\ q \in Ref
    BY <1>7 DEF IndInv, TypeInv, TypeOK
  <2>. QED BY <2>2, <1>1, <1>2, <1>9 DEF IndInv, LockInv, DroppingInv
<1>14. WantInv'
  <2>1. SUFFICES ASSUME NEW u \in Thread, pc'[u] \in Stopping
                 PROVE  /\ owner'[want'[u]] # u
                        /\ depth[u] \in calling[u] => want'[u] \in temp'[u][depth[u]]
    BY DEF WantInv
  <2>2. u # t /\ pc[u] \in Stopping /\ want'[u] = want[u]
    BY <2>1, <1>1 DEF Stopping
  <2>3. want[u] \in Ref /\ depth[u] \in Frame
    BY <2>2, TopFrame DEF IndInv, TypeInv, LocalsInv
  <2>4. owner[want[u]] # u
        /\ (depth[u] \in calling[u] => want[u] \in temp[u][depth[u]])
    BY <2>2 DEF IndInv, LockInv, WantInv
  <2>5. owner'[want[u]] # u
    BY <2>2, <2>3, <2>4, <1>2
  <2>6. temp'[u][depth[u]] = temp[u][depth[u]]
    BY <2>2, <2>3, <1>3
  <2>. QED BY <2>2, <2>4, <2>5, <2>6
<1>15. AccountedInv'
  <2>1. SUFFICES ASSUME NEW u \in Thread, NEW q \in Ref, owner'[q] = u,
                        q \notin dropping[u], q \notin lost,
                        \A d \in Frame : q \notin Held(u, d)'
                 PROVE  /\ depth[u] > 0 /\ q \in temp'[u][depth[u]]
                        /\ pc'[u] \in Stopping \cup {"ready", "restore", "finish"}
    BY DEF AccountedInv
  <2>2. CASE q = r
    <3>1. u = t /\ top \in calling[t]
      BY <2>1, <2>2, <1>2, <1>9 DEF top
    <3>2. depth[t] > 0
      BY FrameAssumption DEF Frame
    <3>. QED BY <3>1, <3>2, <2>2, <1>1, <1>8 DEF top
  <2>3. CASE q # r
    <3>1. owner[q] = u /\ \A d \in Frame : q \notin Held(u, d)
      BY <2>1, <2>3, <1>2, <1>9
    <3>2. /\ depth[u] > 0 /\ q \in temp[u][depth[u]]
          /\ pc[u] \in Stopping \cup {"ready", "restore", "finish"}
      BY <3>1, <2>1 DEF IndInv, AccountedInv
    <3>3. depth[u] \in Frame
      BY <3>2, TopFrame
    <3>4. depth[u] \in calling[u]
      BY <3>1, <3>2, <3>3 DEF Held
    <3>5. q \in temp'[u][depth[u]]
      BY <3>2, <3>3, <1>3
    <3>. QED BY <3>2, <3>4, <3>5, <1>1
  <2>. QED BY <2>2, <2>3
<1>. QED BY <1>10, <1>11, <1>12, <1>13, <1>14, <1>15 DEF LockInv

\* The usual way: Lock::add() with the type of the reference.
LEMMA Acquire ==
  ASSUME IndInv, NEW t \in Thread, NEW r \in Ref, NEW s \in {"run", "restore", "ready"},
         owner[r] = NoThread, owner' = [owner EXCEPT ![r] = t], AddToTop(t, r),
         UNCHANGED <<calling, depth, dropping, after, lost>>,
         pc' = [pc EXCEPT ![t] = s],
         \A u \in Thread : u # t => want'[u] = want[u],
         depth[t] \in Frame, dropping[t] = {},
         depth[t] \in calling[t] => s # "run" /\ r \in temp[t][depth[t]]
  PROVE  LockInv' /\ AccountedInv'
<1>1. AddAs(Kind[r], t, r) /\ Kind[r] \in LockType
  BY KindAssumption DEF AddToTop, Added, AddAs
<1>. QED BY <1>1, AcquireAs

\* The run queue.
LEMMA QueueLock ==
  ASSUME IndInv, NEW t \in Thread, Dispatch(t) \/ Resume(t)
  PROVE  LockInv' /\ AccountedInv'
<1>1. UNCHANGED <<lockVars, want, after>>
  BY DEF Dispatch, Resume
<1>2. CASE Dispatch(t)
  <2>1. pc[t] = "ready" /\ pc' = [pc EXCEPT ![t] = Running(t)]
    BY <1>2 DEF Dispatch, IndInv, RequestInv, QueuedOnce
  <2>2. depth[t] # 0 /\ dropping[t] = {}
    BY <2>1, TopFrame DEF Frame, IndInv, LockInv, DroppingInv
  <2>3. (Running(t) = "run" /\ depth[t] \notin calling[t]) \/ Running(t) = "restore"
    BY DEF Running
  <2>. QED BY <1>1, <2>1, <2>2, <2>3, LockFrame DEF Stopping
<1>3. CASE Resume(t)
  <2>1. pc[t] = "paused" /\ pc' = [pc EXCEPT ![t] = "ready"]
    BY <1>3 DEF Resume
  <2>2. depth[t] # 0 /\ dropping[t] = {}
    BY <2>1, TopFrame DEF Frame, IndInv, LockInv, DroppingInv
  <2>. QED BY <1>1, <2>1, <2>2, LockFrame DEF Stopping
<1>. QED BY <1>2, <1>3

\* lockReference() and restoreTemporaryLock().
LEMMA LockReferenceLock ==
  ASSUME IndInv, NEW t \in Thread, LockReference(t)
  PROVE  LockInv' /\ AccountedInv'
<1>0. pc[t] \in {"run", "lock", "send", "restore"} => depth[t] \in Frame /\ dropping[t] = {}
  BY TopFrame DEF IndInv, LockInv, DroppingInv, Stopping
<1>1. ASSUME NEW r \in Ref, AccessHeld(t, r) \/ RestoreHeld(t, r)
      PROVE  LockInv' /\ AccountedInv'
  <2>1. /\ UNCHANGED <<lockVars, after>>
        /\ pc[t] \in {"run", "restore"} /\ pc' = [pc EXCEPT ![t] = "lock"]
        /\ owner[r] # t
        /\ want' = [want EXCEPT ![t] = r]
        /\ pc[t] = "restore" => r \in temp[t][depth[t]]
    BY <1>1 DEF AccessHeld, RestoreHeld
  <2>2. want'[t] = r /\ \A u \in Thread : u # t => want'[u] = want[u]
    BY <2>1 DEF IndInv, TypeInv, TypeOK
  <2>3. depth[t] # 0 /\ dropping[t] = {}
    BY <1>0, <2>1 DEF Frame
  <2>4. pc[t] = "run" => depth[t] \notin calling[t]
    BY DEF IndInv, LockInv, FrameInv
  <2>. QED BY <2>1, <2>2, <2>3, <2>4, LockFrame DEF Stopping
<1>2. ASSUME SlowRead(t) \/ SendTransferReq(t) PROVE LockInv' /\ AccountedInv'
  <2>1. /\ UNCHANGED <<lockVars, after, want>>
        /\ pc[t] \in {"lock", "send"}
        /\ pc' = [pc EXCEPT ![t] = "send"] \/ pc' = [pc EXCEPT ![t] = "wait"]
    BY <1>2 DEF SlowRead, SendTransferReq
  <2>2. PICK s \in {"send", "wait"} : pc' = [pc EXCEPT ![t] = s]
    BY <2>1
  <2>3. depth[t] # 0 /\ dropping[t] = {}
    BY <1>0, <2>1 DEF Frame
  <2>4. /\ owner[want[t]] # t
        /\ depth[t] \in calling[t] => want[t] \in temp[t][depth[t]]
    BY <2>1 DEF IndInv, LockInv, WantInv, Stopping
  <2>. QED BY <2>1, <2>2, <2>3, <2>4, LockFrame DEF Stopping
<1>3. ASSUME NEW r \in Ref, AccessFree(t, r) PROVE LockInv' /\ AccountedInv'
  <2>1. /\ UNCHANGED <<calling, depth, dropping, after, want, pc, lost>>
        /\ pc[t] = "run" /\ owner[r] = NoThread
        /\ owner' = [owner EXCEPT ![r] = t] /\ AddToTop(t, r)
    BY <1>3 DEF AccessFree, blockState
  <2>2. pc' = [pc EXCEPT ![t] = "run"]
    BY <2>1 DEF IndInv, TypeInv, TypeOK
  <2>3. depth[t] \notin calling[t]
    BY <2>1 DEF IndInv, LockInv, FrameInv
  <2>. QED BY <1>0, <2>1, <2>2, <2>3, Acquire
<1>4. ASSUME SlowAcquire(t) PROVE LockInv' /\ AccountedInv'
  <2>. DEFINE r == want[t]
  <2>1. /\ UNCHANGED <<calling, depth, dropping, after, lost>>
        /\ pc[t] = "lock" /\ owner[r] = NoThread
        /\ owner' = [owner EXCEPT ![r] = t] /\ AddToTop(t, r)
        /\ want' = [want EXCEPT ![t] = NoRef]
        /\ pc' = [pc EXCEPT ![t] = Running(t)]
    BY <1>4 DEF SlowAcquire, blockState
  <2>2. r \in Ref /\ (depth[t] \in calling[t] => r \in temp[t][depth[t]])
    BY <2>1 DEF IndInv, TypeInv, LocalsInv, LockInv, WantInv, Stopping
  <2>3. /\ Running(t) \in {"run", "restore", "ready"}
        /\ depth[t] \in calling[t] => Running(t) # "run"
    BY DEF Running
  <2>4. \A u \in Thread : u # t => want'[u] = want[u]
    BY <2>1 DEF IndInv, TypeInv, TypeOK
  <2>5. PICK q \in Ref : q = r
    BY <2>2
  <2>6. PICK s \in {"run", "restore", "ready"} : s = Running(t)
    BY <2>3
  <2>7. pc' = [pc EXCEPT ![t] = s] /\ owner' = [owner EXCEPT ![q] = t] /\ owner[q] = NoThread
        /\ AddToTop(t, q) /\ (depth[t] \in calling[t] => s # "run" /\ q \in temp[t][depth[t]])
    BY <2>1, <2>2, <2>3, <2>5, <2>6
  <2>. QED BY <1>0, <2>1, <2>4, <2>7, Acquire
<1>5. ASSUME NEW r \in Ref, AccessOwned(t, r) PROVE LockInv' /\ AccountedInv'
  <2>b. pc[t] = "run"
    BY <1>5 DEF AccessOwned
  <2>a. PICK top \in Frame : top = depth[t]
    BY <1>0, <2>b
  <2>1. /\ UNCHANGED <<owner, hard, calling, depth, pc, after, dropping, want, lost>>
        /\ pc[t] = "run" /\ Kind[r] = "Temporary" /\ r \in soft[t][top]
        /\ soft' = Put(soft, t, top, soft[t][top] \ {r})
        /\ temp' = Put(temp, t, top, temp[t][top] \cup {r})
    BY <1>5, <2>a DEF AccessOwned, blockState
  <2>2. top \in Frame /\ soft \in LockTable /\ temp \in LockTable
    BY DEF IndInv, TypeInv, TypeOK
  <2>3. \A u \in Thread : \A d \in Frame :
          /\ soft'[u][d] = IF u = t /\ d = top THEN soft[u][d] \ {r} ELSE soft[u][d]
          /\ temp'[u][d] = IF u = t /\ d = top THEN temp[u][d] \cup {r} ELSE temp[u][d]
    <3>1. \A u \in Thread : \A d \in Frame :
            soft'[u][d] = IF u = t /\ d = top THEN soft[t][top] \ {r} ELSE soft[u][d]
      BY <2>1, <2>2, PutValue
    <3>2. \A u \in Thread : \A d \in Frame :
            temp'[u][d] = IF u = t /\ d = top THEN temp[t][top] \cup {r} ELSE temp[u][d]
      BY <2>1, <2>2, PutValue
    <3>. QED BY <3>1, <3>2
  <2>4. top \notin calling[t]
    BY <2>1, <2>a DEF IndInv, LockInv, FrameInv
  <2>5. \A u \in Thread : \A d \in Frame : Held(u, d)' = Held(u, d)
    <3>. TAKE u \in Thread
    <3>. TAKE d \in Frame
    <3>1. CASE u = t /\ d = top
      <4>1. soft'[u][d] = soft[u][d] \ {r} /\ temp'[u][d] = temp[u][d] \cup {r}
            /\ r \in soft[u][d] /\ d \notin calling[u]
        BY <3>1, <2>1, <2>3, <2>4
      <4>. QED BY <4>1, <2>1 DEF Held
    <3>2. CASE ~(u = t /\ d = top)
      <4>1. soft'[u][d] = soft[u][d] /\ temp'[u][d] = temp[u][d]
        BY <3>2, <2>3
      <4>. QED BY <4>1, <2>1 DEF Held
    <3>. QED BY <3>1, <3>2
  <2>6. HeldInv' /\ DroppingInv'
    BY <2>1, <2>5 DEF IndInv, LockInv, HeldInv, DroppingInv
  <2>7. WantInv'
    <3>1. \A u \in Thread : pc[u] \in Stopping => depth[u] \in Frame
      BY TopFrame
    <3>2. \A u \in Thread : \A d \in Frame : temp[u][d] \subseteq temp'[u][d]
      BY <2>3
    <3>. QED BY <3>1, <3>2, <2>1 DEF IndInv, LockInv, WantInv
  <2>8. SetsInv'
    <3>1. SUFFICES ASSUME NEW u \in Thread, NEW d \in Frame
                   PROVE  /\ \A q \in soft'[u][d] : Kind[q] # "Hard"
                          /\ \A q \in temp'[u][d] : Kind[q] = "Temporary"
                          /\ soft'[u][d] \cap temp'[u][d] = {}
                          /\ d \in calling[u] => soft'[u][d] = {}
      BY <2>1, ZenonT(60) DEF SetsInv, IndInv, LockInv
    <3>2. /\ \A q \in soft[u][d] : Kind[q] # "Hard"
          /\ \A q \in temp[u][d] : Kind[q] = "Temporary"
          /\ soft[u][d] \cap temp[u][d] = {}
          /\ d \in calling[u] => soft[u][d] = {}
      BY DEF IndInv, LockInv, SetsInv
    <3>3. CASE u = t /\ d = top
      <4>1. soft'[u][d] = soft[u][d] \ {r} /\ temp'[u][d] = temp[u][d] \cup {r}
        BY <3>3, <2>3
      <4>. QED BY <4>1, <3>2, <2>1
    <3>4. CASE ~(u = t /\ d = top)
      <4>1. soft'[u][d] = soft[u][d] /\ temp'[u][d] = temp[u][d]
        BY <3>4, <2>3
      <4>. QED BY <4>1, <3>2
    <3>. QED BY <3>3, <3>4
  <2>9. FrameInv'
    <3>1. ASSUME NEW u \in Thread, NEW d \in Frame, d > depth[u]
          PROVE  soft'[u][d] = soft[u][d] /\ temp'[u][d] = temp[u][d]
      <4>1. ~(u = t /\ d = top)
        BY <2>a, <3>1, FrameAssumption DEF Frame
      <4>. QED BY <4>1, <2>3
    <3>. QED BY <3>1, <2>1, ZenonT(60) DEF IndInv, LockInv, FrameInv
  <2>10. AccountedInv'
    <3>1. SUFFICES ASSUME NEW u \in Thread, NEW q \in Ref, owner[q] = u,
                          q \notin dropping[u], q \notin lost,
                          \A d \in Frame : q \notin Held(u, d)
                   PROVE  /\ depth[u] > 0 /\ q \in temp'[u][depth[u]]
                          /\ pc[u] \in Stopping \cup {"ready", "restore", "finish"}
      BY <2>1, <2>5, ZenonT(60) DEF AccountedInv
    <3>2. /\ depth[u] > 0 /\ q \in temp[u][depth[u]]
          /\ pc[u] \in Stopping \cup {"ready", "restore", "finish"}
      BY <3>1 DEF IndInv, AccountedInv
    <3>3. depth[u] \in Frame
      BY <3>2, TopFrame
    <3>. QED BY <3>2, <3>3, <2>3
  <2>. QED BY <2>6, <2>7, <2>8, <2>9, <2>10 DEF LockInv
<1>6. ASSUME NEW r \in Ref, RestoreFree(t, r) PROVE LockInv' /\ AccountedInv'
  <2>1. /\ UNCHANGED <<hard, soft, temp, calling, depth, pc, after, dropping, want,
                       lost>>
        /\ pc[t] = "restore" /\ owner[r] = NoThread /\ r \in temp[t][depth[t]]
        /\ owner' = [owner EXCEPT ![r] = t]
    BY <1>6 DEF RestoreFree, lockSets, blockState
  <2>2. \A q \in Ref : owner'[q] = IF q = r THEN t ELSE owner[q]
    BY <2>1 DEF IndInv, TypeInv, TypeOK
  <2>3. \A u \in Thread : \A d \in Frame : Held(u, d)' = Held(u, d)
    BY <2>1 DEF Held
  <2>4. \A u \in Thread : u # NoThread
    BY NullAssumption
  <2>5. HeldInv'
    <3>1. \A u \in Thread : \A d \in Frame : \A q \in Held(u, d) :
            q \in Ref /\ q # r /\ owner[q] = u
      BY <2>1, <2>4 DEF Held, IndInv, LockInv, HeldInv, TypeInv, TypeOK, LockTable
    <3>. QED BY <3>1, <2>2, <2>3 DEF HeldInv
  <2>6. DroppingInv'
    <3>1. \A u \in Thread : \A q \in dropping[u] : q \in Ref /\ q # r /\ owner[q] = u
      BY <2>1, <2>4 DEF IndInv, LockInv, DroppingInv, TypeInv, TypeOK
    <3>. QED BY <3>1, <2>1, <2>2, <2>3 DEF IndInv, LockInv, DroppingInv
  <2>7. WantInv'
    <3>1. \A u \in Thread : pc[u] \in Stopping => want[u] \in Ref /\ u # t
      BY <2>1 DEF IndInv, TypeInv, LocalsInv, Stopping
    <3>. QED BY <3>1, <2>1, <2>2 DEF IndInv, LockInv, WantInv
  <2>8. SetsInv' /\ FrameInv'
    BY <2>1 DEF IndInv, LockInv, SetsInv, FrameInv
  <2>9. AccountedInv'
    <3>1. depth[t] > 0
      BY <1>0, <2>1, FrameAssumption DEF Frame
    <3>2. ASSUME NEW u \in Thread, NEW q \in Ref, owner'[q] = u
          PROVE  \/ q \in dropping[u]
                 \/ \E d \in Frame : q \in Held(u, d)
                 \/ /\ depth[u] > 0 /\ q \in temp[u][depth[u]]
                    /\ pc[u] \in Stopping \cup {"ready", "restore", "finish"}
                 \/ q \in lost
      <4>1. CASE q = r
        BY <3>1, <3>2, <4>1, <2>1, <2>2
      <4>2. CASE q # r
        BY <3>2, <4>2, <2>2 DEF IndInv, AccountedInv
      <4>. QED BY <4>1, <4>2
    <3>. QED BY <3>2, <2>1, <2>3 DEF AccountedInv
  <2>. QED BY <2>5, <2>6, <2>7, <2>8, <2>9 DEF LockInv
<1>7. ASSUME Restored(t) PROVE LockInv' /\ AccountedInv'
  <2>b. pc[t] = "restore"
    BY <1>7 DEF Restored
  <2>a. PICK top \in Frame : top = depth[t]
    BY <1>0, <2>b
  <2>1. /\ UNCHANGED <<owner, hard, soft, temp, depth, after, dropping, want, lost>>
        /\ pc[t] = "restore" /\ \A r \in temp[t][top] : owner[r] = t
        /\ calling' = [calling EXCEPT ![t] = @ \ {top}]
        /\ pc' = [pc EXCEPT ![t] = "run"]
    BY <1>7, <2>a DEF Restored, lockSets, blockState
  <2>2. dropping[t] = {}
    BY <1>0, <2>1
  <2>3. \A u \in Thread : /\ calling'[u] = IF u = t THEN calling[u] \ {top} ELSE calling[u]
                          /\ pc'[u] = IF u = t THEN "run" ELSE pc[u]
    BY <2>1 DEF IndInv, TypeInv, TypeOK
  <2>4. \A u \in Thread : \A d \in Frame :
          Held(u, d)' = IF u = t /\ d = top THEN Held(u, d) \cup temp[u][d] ELSE Held(u, d)
    BY <2>1, <2>3 DEF Held
  <2>5. HeldInv'
    BY <2>1, <2>4 DEF IndInv, LockInv, HeldInv
  <2>6. SetsInv'
    BY <2>1, <2>3 DEF IndInv, LockInv, SetsInv
  <2>7. DroppingInv'
    <3>1. \A u \in Thread : u # t => pc'[u] = pc[u] /\ \A d \in Frame : Held(u, d)' = Held(u, d)
      BY <2>3, <2>4
    <3>. QED BY <3>1, <2>1, <2>2 DEF IndInv, LockInv, DroppingInv
  <2>8. WantInv'
    BY <2>1, <2>3 DEF IndInv, LockInv, WantInv, Stopping
  <2>9. FrameInv'
    <3>1. \A d \in Frame : d < depth[t] => d # top
      BY <2>a, FrameAssumption DEF Frame
    <3>2. depth[t] # 0 /\ depth[t] = top
      BY <2>a, FrameAssumption DEF Frame
    <3>. QED BY <3>1, <3>2, <2>1, <2>3 DEF IndInv, LockInv, FrameInv
  <2>10. AccountedInv'
    <3>1. \A u \in Thread : \A d \in Frame : \A q \in Held(u, d) : q \in Held(u, d)'
      BY <2>4
    <3>2. \A q \in temp[t][top] : q \in Held(t, top)'
      BY <2>4
    <3>3. ASSUME NEW u \in Thread, NEW q \in Ref, owner[q] = u,
                 q \notin dropping[u], q \notin lost, \A d \in Frame : q \notin Held(u, d)'
          PROVE  /\ depth[u] > 0 /\ q \in temp[u][depth[u]]
                 /\ pc'[u] \in Stopping \cup {"ready", "restore", "finish"}
      <4>1. /\ depth[u] > 0 /\ q \in temp[u][depth[u]]
            /\ pc[u] \in Stopping \cup {"ready", "restore", "finish"}
        BY <3>1, <3>3 DEF IndInv, AccountedInv
      <4>2. u # t
        BY <4>1, <3>2, <3>3, <2>a
      <4>. QED BY <4>1, <4>2, <2>3
    <3>. QED BY <3>3, <2>1 DEF AccountedInv
  <2>. QED BY <2>5, <2>6, <2>7, <2>8, <2>9, <2>10 DEF LockInv
<1>8. ASSUME HolderGone(t) PROVE LockInv' /\ AccountedInv'
  <2>1. /\ UNCHANGED <<lockVars, after>>
        /\ pc[t] = "lock" /\ pc' = [pc EXCEPT ![t] = "finish"]
        /\ want' = [want EXCEPT ![t] = NoRef]
    BY <1>8 DEF HolderGone
  <2>2. \A u \in Thread : u # t => want'[u] = want[u]
    BY <2>1 DEF IndInv, TypeInv, TypeOK
  <2>3. depth[t] # 0 /\ dropping[t] = {}
    BY <1>0, <2>1 DEF Frame
  <2>. QED BY <2>1, <2>2, <2>3, LockFrame DEF Stopping
<1>. QED BY <1>1, <1>2, <1>3, <1>4, <1>5, <1>6, <1>7, <1>8 DEF LockReference

\* checkTransferReq() and its unlock loop.
LEMMA CheckTransferReqLock ==
  ASSUME IndInv, NEW t \in Thread, CheckTransferReq(t)
  PROVE  LockInv' /\ AccountedInv'
<1>0. pc[t] \in Checking => (depth[t] = 0 => after[t] \in {"remove", "exit"})
  BY DEF IndInv, LockInv, FrameInv, Checking
<1>1. ASSUME NEW r \in Ref, Unlock(t, r) PROVE LockInv' /\ AccountedInv'
  <2>1. /\ UNCHANGED <<hard, soft, temp, calling, depth, pc, after, want, lost>>
        /\ pc[t] = "drop" /\ r \in dropping[t]
        /\ owner' = [owner EXCEPT ![r] = NoThread]
        /\ dropping' = [dropping EXCEPT ![t] = @ \ {r}]
    BY <1>1 DEF Unlock, lockSets, blockState
  <2>2. /\ \A q \in Ref : owner'[q] = IF q = r THEN NoThread ELSE owner[q]
        /\ \A u \in Thread :
             dropping'[u] = IF u = t THEN dropping[u] \ {r} ELSE dropping[u]
    BY <2>1 DEF IndInv, TypeInv, TypeOK
  <2>3. \A u \in Thread : \A d \in Frame : Held(u, d)' = Held(u, d)
    BY <2>1 DEF Held
  <2>4. owner[r] = t /\ \A u \in Thread : u # NoThread
    BY <2>1, NullAssumption DEF IndInv, LockInv, DroppingInv
  <2>5. HeldInv'
    <3>1. ASSUME NEW u \in Thread, NEW d \in Frame, NEW q \in Held(u, d)
          PROVE  owner'[q] = u
      <4>1. q \in Ref /\ owner[q] = u
        BY <3>1 DEF Held, IndInv, LockInv, HeldInv, TypeInv, TypeOK, LockTable
      <4>2. q # r
        BY <2>1, <2>4, <4>1 DEF IndInv, LockInv, DroppingInv
      <4>. QED BY <4>1, <4>2, <2>2
    <3>. QED BY <3>1, <2>3 DEF HeldInv
  <2>6. DroppingInv'
    <3>1. ASSUME NEW u \in Thread, NEW q \in dropping'[u]
          PROVE  /\ pc[u] = "drop" /\ owner'[q] = u
                 /\ \A d \in Frame : q \notin Held(u, d)
      <4>1. q \in dropping[u] /\ q \in Ref /\ owner[q] = u
        BY <3>1, <2>2 DEF IndInv, LockInv, DroppingInv, TypeInv, TypeOK
      <4>2. q # r
        BY <3>1, <4>1, <2>2, <2>4
      <4>. QED BY <4>1, <4>2, <2>2 DEF IndInv, LockInv, DroppingInv
    <3>. QED BY <3>1, <2>1, <2>3 DEF DroppingInv
  <2>7. WantInv'
    <3>1. \A u \in Thread : pc[u] \in Stopping => want[u] \in Ref
      BY DEF IndInv, TypeInv, LocalsInv
    <3>. QED BY <3>1, <2>1, <2>2, <2>4 DEF IndInv, LockInv, WantInv
  <2>8. SetsInv' /\ FrameInv'
    BY <2>1 DEF IndInv, LockInv, SetsInv, FrameInv
  <2>9. AccountedInv'
    <3>1. ASSUME NEW u \in Thread, NEW q \in Ref, owner'[q] = u
          PROVE  \/ q \in dropping'[u]
                 \/ \E d \in Frame : q \in Held(u, d)
                 \/ /\ depth[u] > 0 /\ q \in temp[u][depth[u]]
                    /\ pc[u] \in Stopping \cup {"ready", "restore", "finish"}
                 \/ q \in lost
      <4>1. q # r /\ owner[q] = u
        BY <3>1, <2>2, <2>4
      <4>2. q \in dropping[u] => q \in dropping'[u]
        BY <4>1, <2>2
      <4>. QED BY <4>1, <4>2 DEF IndInv, AccountedInv
    <3>. QED BY <3>1, <2>1, <2>3 DEF AccountedInv
  <2>. QED BY <2>5, <2>6, <2>7, <2>8, <2>9 DEF LockInv
<1>2. ASSUME TakeRequests(t) PROVE LockInv' /\ AccountedInv'
  <2>1. /\ UNCHANGED <<lockVars, want, after>>
        /\ pc[t] = "drop" /\ dropping[t] = {} /\ pc' = [pc EXCEPT ![t] = "serve"]
    BY <1>2 DEF TakeRequests
  <2>. QED BY <1>0, <2>1, LockFrame DEF Stopping, Checking
<1>3. ASSUME NEW q \in Request, Grant(t, q) PROVE LockInv' /\ AccountedInv'
  <2>1. q \in serving[t] /\ q \in Posted(t)
    BY <1>3 DEF Grant, Posted
  <2>2. PICK w \in Thread : w = q.requester
    BY DEF Request
  <2>3. PICK r \in Ref : r = q.ref
    BY DEF Request
  <2>4. pc[w] = "wait" /\ want[w] = r
    BY <2>1, <2>2, <2>3 DEF IndInv, RequestInv, OneRequestPerWait
  <2>5. /\ UNCHANGED <<calling, depth, dropping, after, lost>>
        /\ owner[r] \in {NoThread, w} /\ owner' = [owner EXCEPT ![r] = w]
        /\ AddToTop(w, r)
        /\ want' = [want EXCEPT ![w] = NoRef]
        /\ pc' = [pc EXCEPT ![w] = "ready"]
    BY <1>3, <2>2, <2>3 DEF Grant, blockState
  <2>6. /\ owner[r] # w
        /\ depth[w] \in calling[w] => r \in temp[w][depth[w]]
    BY <2>4 DEF IndInv, LockInv, WantInv, Stopping
  <2>7. depth[w] \in Frame /\ dropping[w] = {}
    BY <2>4, TopFrame DEF IndInv, LockInv, DroppingInv, Stopping
  <2>8. \A u \in Thread : u # w => want'[u] = want[u]
    BY <2>5 DEF IndInv, TypeInv, TypeOK
  <2>9. owner[r] = NoThread
    BY <2>5, <2>6
  <2>. QED BY <2>5, <2>6, <2>7, <2>8, <2>9, Acquire
<1>4. ASSUME (\E q \in Request : ReadNewHolder(t, q)) \/ LookUpNewHolder(t)
               \/ ForwardRequest(t)
      PROVE  LockInv' /\ AccountedInv'
  <2>1. /\ UNCHANGED <<lockVars, want, after>>
        /\ pc[t] \in {"serve", "forward", "push"}
        /\ \E s \in {"forward", "push", "crash", "serve"} : pc' = [pc EXCEPT ![t] = s]
    BY <1>4 DEF ReadNewHolder, LookUpNewHolder, ForwardRequest
  <2>2. PICK s \in {"forward", "push", "crash", "serve"} : pc' = [pc EXCEPT ![t] = s]
    BY <2>1
  <2>3. dropping[t] = {} /\ pc[t] \in Checking /\ s \in Checking /\ s \notin Stopping
    BY <2>1 DEF IndInv, LockInv, DroppingInv, Checking, Stopping
  <2>. QED BY <1>0, <2>1, <2>2, <2>3, LockFrame DEF Stopping
<1>5. ASSUME EndOfRequests(t) PROVE LockInv' /\ AccountedInv'
  <2>1. /\ UNCHANGED <<lockVars, want>>
        /\ pc[t] = "serve"
        /\ pc' = [pc EXCEPT ![t] = IF after[t] = "run" THEN Running(t) ELSE after[t]]
        /\ after' = [after EXCEPT ![t] = "run"]
    BY <1>5 DEF EndOfRequests
  <2>2. PICK s : s = IF after[t] = "run" THEN Running(t) ELSE after[t]
    OBVIOUS
  <2>3. after[t] \in Continuation /\ \A u \in Thread : u # t => after'[u] = after[u]
    BY <2>1 DEF IndInv, TypeInv, TypeOK
  <2>4. s = "run" => depth[t] \notin calling[t]
    BY <2>2, <2>3 DEF Running, Continuation
  <2>5. s \notin Stopping
    BY <2>2, <2>3 DEF Running, Continuation, Stopping
  <2>6. depth[t] = 0 => s \in {"remove", "exit"}
    BY <1>0, <2>1, <2>2 DEF Checking
  <2>7. dropping[t] = {}
    BY <2>1 DEF IndInv, LockInv, DroppingInv
  <2>8. pc' = [pc EXCEPT ![t] = s]
    BY <2>1, <2>2
  <2>9. /\ UNCHANGED lockVars /\ pc[t] \notin Stopping \cup {"ready", "restore", "finish"}
        /\ \A u \in Thread : u # t => want'[u] = want[u] /\ after'[u] = after[u]
    BY <2>1, <2>3 DEF Stopping
  <2>. QED BY <2>4, <2>5, <2>6, <2>7, <2>8, <2>9, LockFrame
<1>. QED BY <1>1, <1>2, <1>3, <1>4, <1>5 DEF CheckTransferReq

\* A reference held in the topmost frame is held in no other frame.
LEMMA HeldOnce ==
  ASSUME IndInv, NEW t \in Thread, NEW top \in Frame, top = depth[t],
         NEW r \in Held(t, top), NEW c \in Frame, c # top
  PROVE  r \notin Held(t, c)
<1>1. SUFFICES ASSUME r \in hard[t][c] PROVE FALSE
  BY HeldBelow
<1>2. Kind[r] = "Hard"
  BY <1>1 DEF IndInv, LockInv, SetsInv
<1>3. r \in hard[t][top]
  BY <1>2 DEF Held, IndInv, LockInv, SetsInv
<1>. QED BY <1>1, <1>3 DEF IndInv, LockInv, SetsInv

\* A step that takes references out of the tables of the topmost frame of t,
\* leaves those of them in rs to the unlock loop and loses the others the frame held,
\* and those restored so far if the thread is aborted.
Releases(t, top, rs, gs) ==
  /\ top = depth[t]
  /\ rs \subseteq gs /\ gs \subseteq Held(t, top)
  /\ lost \subseteq lost' /\ gs \ rs \subseteq lost'
  /\ pc[t] = "finish" => Forgotten(t) \subseteq lost'
  /\ pc[t] \in {"run", "finish"} /\ pc' = [pc EXCEPT ![t] = "drop"]
  /\ UNCHANGED <<owner, want>>
  /\ dropping' = [dropping EXCEPT ![t] = rs]
  /\ \A u \in Thread : \A d \in Frame : Held(u, d)' =
       IF u = t /\ d = top THEN Held(u, d) \ gs ELSE Held(u, d)
  /\ \A u \in Thread : u # t => /\ depth'[u] = depth[u] /\ after'[u] = after[u]
                                 /\ calling'[u] = calling[u]
  /\ \A u \in Thread : \A d \in Frame :
       /\ hard'[u][d] \subseteq hard[u][d]
       /\ soft'[u][d] \subseteq soft[u][d]
       /\ temp'[u][d] \subseteq temp[u][d]
       /\ u # t => temp'[u][d] = temp[u][d]
  /\ \A d \in Frame : d \in calling'[t] => soft'[t][d] = {}
  /\ depth'[t] = 0 => after'[t] = "remove"
  /\ \A d \in Frame :
       /\ d < depth'[t] => d \in calling'[t]
       /\ d > depth'[t] => /\ d \notin calling'[t]
                           /\ hard'[t][d] \cup soft'[t][d] \cup temp'[t][d] = {}

\* Such a step keeps the locks consistent, whatever it releases.
LEMMA Releasing ==
  ASSUME IndInv, NEW t \in Thread, NEW top \in Frame, NEW rs, NEW gs,
         Releases(t, top, rs, gs)
  PROVE  LockInv' /\ AccountedInv'
<1>. USE DEF Releases
<1>1. \A u \in Thread : /\ pc'[u] = IF u = t THEN "drop" ELSE pc[u]
                        /\ dropping'[u] = IF u = t THEN rs ELSE dropping[u]
  BY DEF IndInv, TypeInv, TypeOK
<1>2. dropping[t] = {}
  BY DEF IndInv, LockInv, DroppingInv
<1>3. HeldInv'
  BY DEF IndInv, LockInv, HeldInv
<1>4. SetsInv'
  <2>1. SUFFICES ASSUME NEW u \in Thread, NEW d \in Frame
                 PROVE  /\ \A r \in hard'[u][d] : Kind[r] = "Hard"
                        /\ \A r \in soft'[u][d] : Kind[r] # "Hard"
                        /\ \A r \in temp'[u][d] : Kind[r] = "Temporary"
                        /\ soft'[u][d] \cap temp'[u][d] = {}
                        /\ d \in calling'[u] => soft'[u][d] = {}
                        /\ \A c \in Frame : hard'[u][c] \cap hard'[u][d] # {} => c = d
    BY DEF SetsInv
  <2>2. /\ \A r \in hard[u][d] : Kind[r] = "Hard"
        /\ \A r \in soft[u][d] : Kind[r] # "Hard"
        /\ \A r \in temp[u][d] : Kind[r] = "Temporary"
        /\ soft[u][d] \cap temp[u][d] = {}
        /\ d \in calling[u] => soft[u][d] = {}
        /\ \A c \in Frame : hard[u][c] \cap hard[u][d] # {} => c = d
    BY DEF IndInv, LockInv, SetsInv
  <2>3. /\ hard'[u][d] \subseteq hard[u][d]
        /\ soft'[u][d] \subseteq soft[u][d]
        /\ temp'[u][d] \subseteq temp[u][d]
        /\ \A c \in Frame : hard'[u][c] \subseteq hard[u][c]
    OBVIOUS
  <2>4. \A c \in Frame : hard'[u][c] \cap hard'[u][d] # {} => c = d
    BY <2>2, <2>3
  <2>5. d \in calling'[u] => soft'[u][d] = {}
    <3>1. CASE u = t
      BY <3>1
    <3>2. CASE u # t
      <4>1. d \in calling'[u] => soft[u][d] = {}
        BY <3>2, <2>2
      <4>. QED BY <4>1, <2>3
    <3>. QED BY <3>1, <3>2
  <2>. QED BY <2>2, <2>3, <2>4, <2>5
<1>5. DroppingInv'
  <2>1. SUFFICES ASSUME NEW u \in Thread, NEW r \in dropping'[u]
                 PROVE  /\ pc'[u] = "drop" /\ owner[r] = u
                        /\ \A d \in Frame : r \notin Held(u, d)'
    BY DEF DroppingInv
  <2>2. CASE u = t
    <3>1. r \in rs /\ r \in Held(t, top)
      BY <2>1, <2>2, <1>1
    <3>2. owner[r] = t
      BY <3>1 DEF IndInv, LockInv, HeldInv
    <3>3. \A d \in Frame : d # top => r \notin Held(t, d)
      BY <3>1, HeldOnce
    <3>. QED BY <2>2, <3>1, <3>2, <3>3, <1>1
  <2>3. CASE u # t
    <3>1. r \in dropping[u]
      BY <2>1, <2>3, <1>1
    <3>. QED BY <2>3, <3>1, <1>1 DEF IndInv, LockInv, DroppingInv
  <2>. QED BY <2>2, <2>3
<1>6. WantInv'
  <2>1. SUFFICES ASSUME NEW u \in Thread, pc'[u] \in Stopping
                 PROVE  /\ owner'[want'[u]] # u
                        /\ depth'[u] \in calling'[u] => want'[u] \in temp'[u][depth'[u]]
    BY DEF WantInv
  <2>2. u # t /\ pc[u] \in Stopping
    BY <2>1, <1>1 DEF Stopping
  <2>3. depth[u] \in Frame
    BY <2>2, TopFrame
  <2>4. temp'[u][depth[u]] = temp[u][depth[u]]
    BY <2>2, <2>3
  <2>. QED BY <2>2, <2>4 DEF IndInv, LockInv, WantInv
<1>7. FrameInv'
  <2>1. SUFFICES ASSUME NEW u \in Thread
                 PROVE  /\ pc'[u] = "run" => depth'[u] \notin calling'[u]
                        /\ depth'[u] = 0 =>
                             \/ pc'[u] \in {"remove", "exit", "gone"}
                             \/ pc'[u] \in Checking /\ after'[u] \in {"remove", "exit"}
                        /\ \A d \in Frame :
                             /\ d < depth'[u] => d \in calling'[u]
                             /\ d > depth'[u] =>
                                  /\ d \notin calling'[u]
                                  /\ hard'[u][d] \cup soft'[u][d] \cup temp'[u][d] = {}
    BY DEF FrameInv
  <2>2. CASE u = t
    BY <2>2, <1>1 DEF Checking
  <2>3. CASE u # t
    <3>1. /\ pc[u] = "run" => depth[u] \notin calling[u]
          /\ depth[u] = 0 => \/ pc[u] \in {"remove", "exit", "gone"}
                             \/ pc[u] \in Checking /\ after[u] \in {"remove", "exit"}
      BY DEF IndInv, LockInv, FrameInv
    <3>2. \A d \in Frame :
            /\ d < depth[u] => d \in calling[u]
            /\ d > depth[u] => /\ d \notin calling[u]
                               /\ hard[u][d] \cup soft[u][d] \cup temp[u][d] = {}
      BY DEF IndInv, LockInv, FrameInv
    <3>3. \A d \in Frame : d > depth[u] => hard'[u][d] \cup soft'[u][d] \cup temp'[u][d] = {}
      BY <3>2
    <3>. QED BY <2>3, <3>1, <3>2, <3>3, <1>1
  <2>. QED BY <2>2, <2>3
<1>8. AccountedInv'
  <2>1. SUFFICES ASSUME NEW u \in Thread, NEW r \in Ref, owner[r] = u,
                        r \notin dropping'[u], r \notin lost',
                        \A d \in Frame : r \notin Held(u, d)'
                 PROVE  /\ depth'[u] > 0 /\ r \in temp'[u][depth'[u]]
                        /\ pc'[u] \in Stopping \cup {"ready", "restore", "finish"}
    BY DEF AccountedInv
  <2>2. \A d \in Frame : r \notin Held(u, d)
    <3>1. CASE u = t
      <4>1. \A d \in Frame : d # top => r \notin Held(t, d)
        BY <2>1, <3>1
      <4>2. r \notin rs
        BY <2>1, <3>1, <1>1
      <4>3. r \notin gs
        BY <2>1, <4>2
      <4>4. r \notin Held(t, top)
        BY <2>1, <3>1, <4>3
      <4>. QED BY <3>1, <4>1, <4>4
    <3>2. CASE u # t
      BY <2>1, <3>2
    <3>. QED BY <3>1, <3>2
  <2>3. r \notin dropping[u]
    BY <2>1, <1>1, <1>2
  <2>4. /\ depth[u] > 0 /\ r \in temp[u][depth[u]]
        /\ pc[u] \in Stopping \cup {"ready", "restore", "finish"}
    BY <2>1, <2>2, <2>3 DEF IndInv, AccountedInv
  <2>5. u # t
    <3>1. SUFFICES ASSUME u = t PROVE FALSE
      OBVIOUS
    <3>2. pc[t] = "finish" /\ r \in temp[t][top]
      BY <2>4, <3>1 DEF Stopping
    <3>3. top \in calling[t]
      BY <2>2, <3>1, <3>2 DEF Held
    <3>4. r \in Forgotten(t)
      BY <2>1, <3>1, <3>2, <3>3 DEF Forgotten
    <3>. QED BY <2>1, <3>2, <3>4
  <2>6. depth[u] \in Frame
    BY <2>4, TopFrame
  <2>. QED BY <2>4, <2>5, <2>6, <1>1
<1>. QED BY <1>3, <1>4, <1>5, <1>6, <1>7, <1>8 DEF LockInv

\* What a script does with the references it has.
LEMMA RunScriptLock ==
  ASSUME IndInv, NEW t \in Thread, RunScript(t), ~ robbed'
  PROVE  LockInv' /\ AccountedInv'
<1>1. pc[t] = "run" => depth[t] \in Frame /\ depth[t] \notin calling[t]
  BY TopFrame DEF IndInv, LockInv, FrameInv
<1>2. hard \in LockTable /\ soft \in LockTable /\ temp \in LockTable
  BY DEF IndInv, TypeInv, TypeOK
<1>3. \A d \in Frame : /\ \A r \in hard[t][d] : Kind[r] = "Hard"
                       /\ \A r \in soft[t][d] : Kind[r] # "Hard"
                       /\ \A r \in temp[t][d] : Kind[r] = "Temporary"
                       /\ soft[t][d] \cap temp[t][d] = {}
  BY DEF IndInv, LockInv, SetsInv
<1>4. \A d \in Frame : /\ d < depth[t] => d \in calling[t]
                       /\ d > depth[t] => /\ d \notin calling[t]
                                          /\ hard[t][d] \cup soft[t][d] \cup temp[t][d] = {}
  BY DEF IndInv, LockInv, FrameInv
<1>5. \A d \in Frame : d \in calling[t] => soft[t][d] = {}
  BY DEF IndInv, LockInv, SetsInv
<1>6. depth[t] \in 0..MaxFrame /\ depth \in [Thread -> 0..MaxFrame]
  BY DEF IndInv, TypeInv, TypeOK
<1>7. ASSUME NextStatement(t) PROVE LockInv' /\ AccountedInv'
  <2>1. pc[t] = "run"
    BY <1>7 DEF NextStatement
  <2>2. PICK top \in Frame : top = depth[t]
    BY <1>1, <2>1
  <2>3. /\ UNCHANGED <<owner, hard, calling, depth, pc, after, dropping, want, lost>>
        /\ soft' = Put(soft, t, top, soft[t][top] \cup temp[t][top])
        /\ temp' = Put(temp, t, top, {})
    BY <1>7, <2>2 DEF NextStatement, blockState
  <2>4. /\ \A u \in Thread : \A d \in Frame : soft'[u][d] =
             IF u = t /\ d = top THEN soft[t][top] \cup temp[t][top] ELSE soft[u][d]
        /\ \A u \in Thread : \A d \in Frame : temp'[u][d] =
             IF u = t /\ d = top THEN {} ELSE temp[u][d]
    BY <1>2, <2>3, PutValue
  <2>5. top \notin calling[t]
    BY <1>1, <2>1, <2>2
  <2>6. \A u \in Thread : \A d \in Frame : Held(u, d)' = Held(u, d)
    <3>. TAKE u \in Thread
    <3>. TAKE d \in Frame
    <3>1. CASE u = t /\ d = top
      <4>1. soft'[u][d] = soft[u][d] \cup temp[u][d] /\ temp'[u][d] = {} /\ d \notin calling[u]
        BY <3>1, <2>4, <2>5
      <4>. QED BY <4>1, <2>3 DEF Held
    <3>2. CASE ~(u = t /\ d = top)
      <4>1. soft'[u][d] = soft[u][d] /\ temp'[u][d] = temp[u][d]
        BY <3>2, <2>4
      <4>. QED BY <4>1, <2>3 DEF Held
    <3>. QED BY <3>1, <3>2
  <2>7. HeldInv' /\ DroppingInv'
    BY <2>3, <2>6 DEF IndInv, LockInv, HeldInv, DroppingInv
  <2>8. WantInv'
    <3>1. \A u \in Thread : pc[u] \in Stopping => u # t /\ depth[u] \in Frame
      BY <2>1, TopFrame DEF Stopping
    <3>2. \A u \in Thread : \A d \in Frame : u # t => temp'[u][d] = temp[u][d]
      BY <2>4
    <3>. QED BY <3>1, <3>2, <2>3 DEF IndInv, LockInv, WantInv
  <2>9. SetsInv'
    <3>1. \A u \in Thread : \A d \in Frame :
            /\ \A q \in soft'[u][d] : q \in soft[u][d] \/ q \in temp[u][d]
            /\ temp'[u][d] \subseteq temp[u][d]
            /\ soft'[u][d] \cap temp'[u][d] \subseteq soft[u][d] \cap temp[u][d]
            /\ d \in calling[u] => soft'[u][d] = soft[u][d]
      BY <2>4, <2>5
    <3>2. ASSUME NEW u \in Thread, NEW d \in Frame
          PROVE  /\ \A q \in soft'[u][d] : Kind[q] # "Hard"
                 /\ \A q \in temp'[u][d] : Kind[q] = "Temporary"
                 /\ soft'[u][d] \cap temp'[u][d] = {}
                 /\ d \in calling[u] => soft'[u][d] = {}
      BY <3>1 DEF IndInv, LockInv, SetsInv
    <3>. QED BY <3>2, <2>3, ZenonT(60) DEF IndInv, LockInv, SetsInv
  <2>10. FrameInv'
    <3>1. ASSUME NEW u \in Thread, NEW d \in Frame, d > depth[u]
          PROVE  soft'[u][d] = soft[u][d] /\ temp'[u][d] = temp[u][d]
      <4>1. ~(u = t /\ d = top)
        BY <2>2, <3>1, FrameAssumption DEF Frame
      <4>. QED BY <4>1, <2>4
    <3>. QED BY <3>1, <2>3, ZenonT(60) DEF IndInv, LockInv, FrameInv
  <2>11. AccountedInv'
    <3>1. SUFFICES ASSUME NEW u \in Thread, NEW q \in Ref, owner[q] = u,
                          q \notin dropping[u], q \notin lost,
                          \A d \in Frame : q \notin Held(u, d)
                   PROVE  /\ depth[u] > 0 /\ q \in temp'[u][depth[u]]
                          /\ pc[u] \in Stopping \cup {"ready", "restore", "finish"}
      BY <2>3, <2>6 DEF AccountedInv
    <3>2. /\ depth[u] > 0 /\ q \in temp[u][depth[u]]
          /\ pc[u] \in Stopping \cup {"ready", "restore", "finish"}
      BY <3>1 DEF IndInv, AccountedInv
    <3>3. depth[u] \in Frame /\ u # t
      BY <3>2, <2>1, TopFrame DEF Stopping
    <3>. QED BY <3>2, <3>3, <2>4
  <2>. QED BY <2>7, <2>8, <2>9, <2>10, <2>11 DEF LockInv
<1>8. ASSUME Call(t) \/ Construct(t) \/ NativeWait(t) PROVE LockInv' /\ AccountedInv'
  <2>1. pc[t] = "run"
    BY <1>8 DEF Call, Construct, NativeWait
  <2>2. PICK top \in Frame : top = depth[t]
    BY <1>1, <2>1
  <2>3. PICK rs : rs = soft[t][top] \cup temp[t][top]
    OBVIOUS
  <2>4. /\ UNCHANGED <<owner, hard, temp, want, lost>>
        /\ pc' = [pc EXCEPT ![t] = "drop"]
        /\ soft' = Put(soft, t, top, {})
        /\ dropping' = [dropping EXCEPT ![t] = rs]
        /\ calling' = [calling EXCEPT ![t] = @ \cup {top}]
    BY <1>8, <2>2, <2>3 DEF Call, Construct, NativeWait, PrepareToMethodCall, blockState
  <2>5. /\ depth'[t] \in {top, top + 1}
        /\ \A u \in Thread : u # t => depth'[u] = depth[u] /\ after'[u] = after[u]
    BY <1>8, <2>2 DEF Call, Construct, NativeWait, IndInv, TypeInv, TypeOK
  <2>6. \A u \in Thread : calling'[u] = IF u = t THEN calling[u] \cup {top} ELSE calling[u]
    BY <2>4 DEF IndInv, TypeInv, TypeOK
  <2>7. \A u \in Thread : \A d \in Frame :
          soft'[u][d] = IF u = t /\ d = top THEN {} ELSE soft[u][d]
    BY <1>2, <2>4, PutValue
  <2>8. top \notin calling[t]
    BY <1>1, <2>1, <2>2
  <2>9. rs \subseteq Held(t, top)
    BY <2>3, <2>8 DEF Held
  <2>10. \A u \in Thread : \A d \in Frame : Held(u, d)' =
           IF u = t /\ d = top THEN Held(u, d) \ rs ELSE Held(u, d)
    <3>. TAKE u \in Thread
    <3>. TAKE d \in Frame
    <3>1. CASE u = t /\ d = top
      <4>1. Held(u, d)' = hard[u][d]
        BY <3>1, <2>4, <2>6, <2>7 DEF Held
      <4>2. Held(u, d) = hard[u][d] \cup rs
        BY <3>1, <2>3, <2>8 DEF Held
      <4>3. hard[u][d] \cap rs = {}
        BY <3>1, <2>3, <1>3
      <4>. QED BY <3>1, <4>1, <4>2, <4>3
    <3>2. CASE ~(u = t /\ d = top)
      <4>1. soft'[u][d] = soft[u][d] /\ (d \in calling'[u] <=> d \in calling[u])
        BY <3>2, <2>6, <2>7
      <4>2. Held(u, d)' = Held(u, d)
        BY <4>1, <2>4 DEF Held
      <4>. QED BY <3>2, <4>2
    <3>. QED BY <3>1, <3>2
  <2>11. \A d \in Frame : d \in calling'[t] => soft'[t][d] = {}
    BY <2>6, <2>7, <1>5
  <2>12. \A d \in Frame : /\ d < depth'[t] => d \in calling'[t]
                          /\ d > depth'[t] => d \notin calling'[t] /\ d > depth[t]
    <3>. TAKE d \in Frame
    <3>1. d \in Nat /\ top \in Nat
      BY FrameAssumption DEF Frame
    <3>2. d < depth'[t] => d < top \/ d = top
      BY <3>1, <2>5
    <3>3. d > depth'[t] => d > top /\ d # top
      BY <3>1, <2>5
    <3>. QED BY <3>2, <3>3, <2>2, <2>6, <1>4
  <2>13. \A d \in Frame : d > depth'[t] =>
           hard'[t][d] \cup soft'[t][d] \cup temp'[t][d] = {}
    BY <2>4, <2>7, <2>12, <1>4
  <2>14. depth'[t] # 0
    BY <2>5, FrameAssumption DEF Frame
  <2>15. \A u \in Thread : \A d \in Frame :
           /\ hard'[u][d] \subseteq hard[u][d]
           /\ soft'[u][d] \subseteq soft[u][d]
           /\ temp'[u][d] \subseteq temp[u][d]
           /\ u # t => temp'[u][d] = temp[u][d]
    BY <2>4, <2>7
  <2>16. \A u \in Thread : u # t => /\ depth'[u] = depth[u] /\ after'[u] = after[u]
                                     /\ calling'[u] = calling[u]
    BY <2>5, <2>6
  <2>17. \A d \in Frame :
           /\ d < depth'[t] => d \in calling'[t]
           /\ d > depth'[t] => /\ d \notin calling'[t]
                               /\ hard'[t][d] \cup soft'[t][d] \cup temp'[t][d] = {}
    BY <2>12, <2>13
  <2>18. depth'[t] = 0 => after'[t] = "remove"
    BY <2>14
  <2>19. pc[t] \in {"run", "finish"} /\ UNCHANGED <<owner, want>>
    BY <2>1, <2>4
  <2>20. Releases(t, top, rs, rs)
    BY <2>1, <2>2, <2>4, <2>9, <2>10, <2>11, <2>15, <2>16, <2>17, <2>18, <2>19 DEF Releases
  <2>. QED BY <2>20, Releasing
<1>9. ASSUME Return(t) \/ PopForFinish(t) PROVE LockInv' /\ AccountedInv'
  <2>1. pc[t] \in {"run", "finish"} /\ depth[t] > 0
    BY <1>9, <1>6 DEF Return, PopForFinish
  <2>2. PICK top \in Frame : top = depth[t]
    BY <1>6, <2>1, FrameAssumption DEF Frame
  <2>g. PICK gs : gs = Held(t, top)
    OBVIOUS
  <2>o. owner' = owner
    <3>1. CASE Return(t)
      BY <3>1 DEF Return
    <3>2. CASE PopForFinish(t)
      <4>1. \A r \in Ref : r \in stale[t] => owner[r] = NoThread
        BY <3>2 DEF PopForFinish, IndInv, BlockTypeOK
      <4>2. owner \in [Ref -> Thread \cup {NoThread}]
        BY DEF IndInv, TypeInv, TypeOK
      <4>3. owner' = [r \in Ref |-> IF r \in stale[t] THEN NoThread ELSE owner[r]]
        BY <3>2 DEF PopForFinish
      <4>. QED BY <4>1, <4>2, <4>3
    <3>. QED BY <1>9, <3>1, <3>2
  <2>3. PICK rs : /\ PopFrame(t, rs) /\ rs \subseteq gs
                  /\ lost \subseteq lost' /\ gs \ rs \subseteq lost'
                  /\ pc[t] = "finish" => Forgotten(t) \subseteq lost'
    <3>1. CASE Return(t)
      <4>1. PICK rs : rs = Held(t, top) \ blockVars[t][top]
        OBVIOUS
      <4>2. /\ PopFrame(t, rs) /\ pc[t] = "run"
            /\ lost' = lost \cup (Held(t, top) \cap blockVars[t][top])
        BY <3>1, <4>1, <2>2 DEF Return
      <4>. QED BY <4>1, <4>2, <2>g
    <3>2. CASE PopForFinish(t)
      BY <3>2, <2>2, <2>g DEF PopForFinish
    <3>. QED BY <1>9, <3>1, <3>2
  <2>4. /\ UNCHANGED <<owner, want>>
        /\ pc' = [pc EXCEPT ![t] = "drop"]
        /\ hard' = Put(hard, t, top, {})
        /\ soft' = Put(soft, t, top, {})
        /\ temp' = Put(temp, t, top, {})
        /\ dropping' = [dropping EXCEPT ![t] = rs]
        /\ calling' = [calling EXCEPT ![t] = @ \ {top}]
        /\ depth' = [depth EXCEPT ![t] = top - 1]
    BY <1>9, <2>o, <2>2, <2>3 DEF Return, PopForFinish, PopFrame
  <2>5. /\ \A u \in Thread : depth'[u] = IF u = t THEN top - 1 ELSE depth[u]
        /\ \A u \in Thread : calling'[u] = IF u = t THEN calling[u] \ {top} ELSE calling[u]
    BY <2>4, <1>6 DEF IndInv, TypeInv, TypeOK
  <2>6. /\ \A u \in Thread : u # t => after'[u] = after[u]
        /\ top = 1 => after'[t] = "remove"
    BY <1>9, <2>2 DEF Return, PopForFinish, IndInv, TypeInv, TypeOK
  <2>7. /\ \A u \in Thread : \A d \in Frame :
             hard'[u][d] = IF u = t /\ d = top THEN {} ELSE hard[u][d]
        /\ \A u \in Thread : \A d \in Frame :
             soft'[u][d] = IF u = t /\ d = top THEN {} ELSE soft[u][d]
        /\ \A u \in Thread : \A d \in Frame :
             temp'[u][d] = IF u = t /\ d = top THEN {} ELSE temp[u][d]
    BY <1>2, <2>4, PutValue
  <2>8. \A u \in Thread : \A d \in Frame : Held(u, d)' =
          IF u = t /\ d = top THEN Held(u, d) \ gs ELSE Held(u, d)
    <3>. TAKE u \in Thread
    <3>. TAKE d \in Frame
    <3>1. CASE u = t /\ d = top
      <4>1. Held(u, d)' = {}
        BY <3>1, <2>7 DEF Held
      <4>. QED BY <3>1, <4>1, <2>g
    <3>2. CASE ~(u = t /\ d = top)
      <4>1. /\ hard'[u][d] = hard[u][d] /\ soft'[u][d] = soft[u][d]
            /\ temp'[u][d] = temp[u][d] /\ (d \in calling'[u] <=> d \in calling[u])
        BY <3>2, <2>5, <2>7
      <4>2. Held(u, d)' = Held(u, d)
        BY <4>1 DEF Held
      <4>. QED BY <3>2, <4>2
    <3>. QED BY <3>1, <3>2
  <2>9. \A d \in Frame : d \in calling'[t] => soft'[t][d] = {}
    BY <2>5, <2>7, <1>5
  <2>10. \A d \in Frame : /\ d < depth'[t] => d \in calling'[t]
                          /\ d > depth'[t] => d \notin calling'[t] /\ (d > depth[t] \/ d = top)
    <3>. TAKE d \in Frame
    <3>1. d \in Nat /\ top \in Nat \ {0} /\ depth'[t] = top - 1
      BY <2>5, FrameAssumption DEF Frame
    <3>2. d < depth'[t] => d < top /\ d # top
      BY <3>1
    <3>3. d > depth'[t] => d > top \/ d = top
      BY <3>1
    <3>. QED BY <3>2, <3>3, <2>2, <2>5, <1>4
  <2>11. \A d \in Frame : d > depth'[t] =>
           hard'[t][d] \cup soft'[t][d] \cup temp'[t][d] = {}
    BY <2>7, <2>10, <1>4
  <2>12. depth'[t] = 0 => after'[t] = "remove"
    BY <2>5, <2>6, FrameAssumption DEF Frame
  <2>13. \A u \in Thread : \A d \in Frame :
           /\ hard'[u][d] \subseteq hard[u][d]
           /\ soft'[u][d] \subseteq soft[u][d]
           /\ temp'[u][d] \subseteq temp[u][d]
           /\ u # t => temp'[u][d] = temp[u][d]
    BY <2>7
  <2>14. \A u \in Thread : u # t => /\ depth'[u] = depth[u] /\ after'[u] = after[u]
                                     /\ calling'[u] = calling[u]
    BY <2>5, <2>6
  <2>15. \A d \in Frame :
           /\ d < depth'[t] => d \in calling'[t]
           /\ d > depth'[t] => /\ d \notin calling'[t]
                               /\ hard'[t][d] \cup soft'[t][d] \cup temp'[t][d] = {}
    BY <2>10, <2>11
  <2>16. gs \subseteq Held(t, top)
    BY <2>g
  <2>20. Releases(t, top, rs, gs)
    BY <2>1, <2>2, <2>3, <2>4, <2>8, <2>9, <2>12, <2>13, <2>14, <2>15, <2>16 DEF Releases
  <2>. QED BY <2>20, Releasing
<1>10. ASSUME NEW r \in Ref, ReleaseTransient(t, r) PROVE LockInv' /\ AccountedInv'
  <2>1. pc[t] = "run"
    BY <1>10 DEF ReleaseTransient
  <2>2. PICK top \in Frame : top = depth[t]
    BY <1>1, <2>1
  <2>3. /\ UNCHANGED <<owner, temp, calling, depth, want, lost>>
        /\ pc' = [pc EXCEPT ![t] = "drop"]
        /\ hard' = Put(hard, t, top, hard[t][top] \ {r})
        /\ soft' = Put(soft, t, top, soft[t][top] \ {r})
        /\ dropping' = [dropping EXCEPT
             ![t] = {r} \cap (hard[t][top] \cup soft[t][top])]
        /\ after' = [after EXCEPT ![t] = "run"]
    BY <1>10, <2>2 DEF ReleaseTransient, blockState
  <2>17. PICK rs \in SUBSET Ref : rs = {r} \cap (hard[t][top] \cup soft[t][top])
    OBVIOUS
  <2>4. /\ \A u \in Thread : \A d \in Frame :
             hard'[u][d] = IF u = t /\ d = top THEN hard[t][top] \ {r} ELSE hard[u][d]
        /\ \A u \in Thread : \A d \in Frame :
             soft'[u][d] = IF u = t /\ d = top THEN soft[t][top] \ {r} ELSE soft[u][d]
    BY <1>2, <2>3, PutValue
  <2>5. r \in rs => r \notin temp[t][top]
    BY <2>17, <1>3
  <2>6. \A u \in Thread : \A d \in Frame : Held(u, d)' =
          IF u = t /\ d = top THEN Held(u, d) \ rs ELSE Held(u, d)
    <3>. TAKE u \in Thread
    <3>. TAKE d \in Frame
    <3>1. CASE u = t /\ d = top
      <4>1. hard'[u][d] = hard[u][d] \ {r} /\ soft'[u][d] = soft[u][d] \ {r}
        BY <3>1, <2>4
      <4>2. (hard[u][d] \cup soft[u][d]) \ {r} = (hard[u][d] \cup soft[u][d]) \ rs
        BY <3>1, <2>17
      <4>3. CASE r \in rs
        BY <3>1, <4>1, <4>2, <4>3, <2>3, <2>5, <2>17 DEF Held
      <4>4. CASE r \notin rs
        <5>1. rs = {} /\ r \notin hard[u][d] /\ r \notin soft[u][d]
          BY <3>1, <4>4, <2>17
        <5>. QED BY <3>1, <4>1, <5>1, <2>3 DEF Held
      <4>. QED BY <4>3, <4>4
    <3>2. CASE ~(u = t /\ d = top)
      <4>1. hard'[u][d] = hard[u][d] /\ soft'[u][d] = soft[u][d]
        BY <3>2, <2>4
      <4>2. Held(u, d)' = Held(u, d)
        BY <4>1, <2>3 DEF Held
      <4>. QED BY <3>2, <4>2
    <3>. QED BY <3>1, <3>2
  <2>7. \A u \in Thread : \A d \in Frame :
          /\ hard'[u][d] \subseteq hard[u][d]
          /\ soft'[u][d] \subseteq soft[u][d]
    BY <2>4
  <2>8. \A u \in Thread : u # t => after'[u] = after[u]
    BY <2>3 DEF IndInv, TypeInv, TypeOK
  <2>9. depth[t] # 0
    BY <2>2, FrameAssumption DEF Frame
  <2>10. rs \subseteq Held(t, top)
    BY <2>17 DEF Held
  <2>11. \A d \in Frame : d \in calling'[t] => soft'[t][d] = {}
    BY <2>3, <2>7, <1>5
  <2>12. \A d \in Frame :
           /\ d < depth'[t] => d \in calling'[t]
           /\ d > depth'[t] => /\ d \notin calling'[t]
                               /\ hard'[t][d] \cup soft'[t][d] \cup temp'[t][d] = {}
    BY <2>3, <2>7, <1>4
  <2>13. \A u \in Thread : u # t => /\ depth'[u] = depth[u] /\ after'[u] = after[u]
                                     /\ calling'[u] = calling[u]
    BY <2>3, <2>8
  <2>14. \A u \in Thread : \A d \in Frame :
           /\ hard'[u][d] \subseteq hard[u][d]
           /\ soft'[u][d] \subseteq soft[u][d]
           /\ temp'[u][d] \subseteq temp[u][d]
           /\ u # t => temp'[u][d] = temp[u][d]
    BY <2>3, <2>7
  <2>15. depth'[t] = 0 => after'[t] = "remove"
    BY <2>3, <2>9
  <2>16. pc[t] \in {"run", "finish"} /\ UNCHANGED <<owner, want>>
    BY <2>1, <2>3
  <2>20. Releases(t, top, rs, rs)
    BY <2>1, <2>2, <2>3, <2>17, <2>6, <2>10, <2>11, <2>12, <2>13, <2>14, <2>15, <2>16 DEF Releases
  <2>. QED BY <2>20, Releasing
<1>11. ASSUME Remove(t) \/ Exit(t) PROVE LockInv' /\ AccountedInv'
  <2>1. /\ UNCHANGED <<lockVars, want>>
        /\ pc[t] \in {"remove", "exit"}
        /\ \/ pc' = [pc EXCEPT ![t] = "drop"] /\ after' = [after EXCEPT ![t] = "exit"]
           \/ pc' = [pc EXCEPT ![t] = "gone"] /\ after' = after
    BY <1>11 DEF Remove, Exit
  <2>2. dropping[t] = {}
    BY <2>1 DEF IndInv, LockInv, DroppingInv
  <2>3. CASE pc' = [pc EXCEPT ![t] = "drop"] /\ after' = [after EXCEPT ![t] = "exit"]
    <3>1. after'[t] = "exit" /\ \A u \in Thread : u # t => after'[u] = after[u]
      BY <2>3 DEF IndInv, TypeInv, TypeOK
    <3>. QED BY <2>1, <2>2, <2>3, <3>1, LockFrame DEF Stopping, Checking
  <2>4. CASE pc' = [pc EXCEPT ![t] = "gone"] /\ after' = after
    BY <2>1, <2>2, <2>4, LockFrame DEF Stopping
  <2>. QED BY <2>1, <2>3, <2>4
<1>12. ASSUME Constructed(t) \/ CallOfNothing(t) PROVE LockInv' /\ AccountedInv'
  <2>1. /\ UNCHANGED <<lockVars, want>>
        /\ pc[t] = "run" \/ (pc[t] = "drop" /\ after[t] = "queue" /\ dropping[t] = {})
        /\ pc' = [pc EXCEPT ![t] = "ready"]
    BY <1>12 DEF Constructed, CallOfNothing
  <2>2. \A u \in Thread : u # t => after'[u] = after[u]
    BY <1>12 DEF Constructed, CallOfNothing, IndInv, TypeInv, TypeOK
  <2>3. depth[t] # 0 /\ dropping[t] = {}
    BY <2>1 DEF IndInv, LockInv, FrameInv, DroppingInv, Checking
  <2>. QED BY <2>1, <2>2, <2>3, LockFrame DEF Stopping
<1>13. ASSUME NEW r \in Ref, Declare(t, r) PROVE LockInv' /\ AccountedInv'
  <2>1. /\ UNCHANGED <<hard, temp, calling, depth, pc, dropping, after, want, lost>>
        /\ pc[t] = "run" /\ r \in undeclared /\ owner[r] = NoThread
        /\ owner' = [owner EXCEPT ![r] = t]
        /\ soft' = Put(soft, t, depth[t], soft[t][depth[t]] \cup {r})
    BY <1>13 DEF Declare
  <2>2. Kind[r] = "Temporary"
    BY <2>1, CapturedAssumption DEF IndInv, BlockTypeOK
  <2>3. AddAs("Soft", t, r) /\ "Soft" \in LockType
    BY <2>1 DEF AddAs, LockType
  <2>4. pc' = [pc EXCEPT ![t] = "run"]
    BY <2>1 DEF IndInv, TypeInv, TypeOK
  <2>5. dropping[t] = {}
    BY <2>1 DEF IndInv, LockInv, DroppingInv
  <2>. QED BY <1>1, <2>1, <2>2, <2>3, <2>4, <2>5, AcquireAs
<1>14. ASSUME NEW rs \in SUBSET Captured, PopBlock(t, rs) PROVE LockInv' /\ AccountedInv'
  <2>1. pc[t] = "run"
    BY <1>14 DEF PopBlock
  <2>2. PICK top \in Frame : top = depth[t]
    BY <1>1, <2>1
  <2>3. /\ UNCHANGED <<owner, hard, calling, depth, pc, after, dropping, want>>
        /\ soft' = Put(soft, t, top, soft[t][top] \ rs)
        /\ temp' = Put(temp, t, top, temp[t][top] \ rs)
        /\ lost' = lost \cup (rs \cap Held(t, top))
    BY <1>14, <2>2 DEF PopBlock
  <2>4. \A u \in Thread : \A d \in Frame :
          /\ soft'[u][d] = IF u = t /\ d = top THEN soft[u][d] \ rs ELSE soft[u][d]
          /\ temp'[u][d] = IF u = t /\ d = top THEN temp[u][d] \ rs ELSE temp[u][d]
    <3>1. \A u \in Thread : \A d \in Frame :
            soft'[u][d] = IF u = t /\ d = top THEN soft[t][top] \ rs ELSE soft[u][d]
      BY <1>2, <2>3, PutValue
    <3>2. \A u \in Thread : \A d \in Frame :
            temp'[u][d] = IF u = t /\ d = top THEN temp[t][top] \ rs ELSE temp[u][d]
      BY <1>2, <2>3, PutValue
    <3>. QED BY <3>1, <3>2
  <2>5. top \notin calling[t] /\ \A r \in rs : r \notin hard[t][top]
    BY <1>1, <1>3, <2>1, <2>2, CapturedAssumption
  <2>6. \A u \in Thread : \A d \in Frame :
          Held(u, d)' = IF u = t /\ d = top THEN Held(u, d) \ rs ELSE Held(u, d)
    <3>. TAKE u \in Thread
    <3>. TAKE d \in Frame
    <3>1. CASE u = t /\ d = top
      <4>1. /\ soft'[u][d] = soft[u][d] \ rs /\ temp'[u][d] = temp[u][d] \ rs
            /\ d \notin calling[u] /\ hard[u][d] = hard[u][d] \ rs
        BY <3>1, <2>4, <2>5
      <4>. QED BY <3>1, <4>1, <2>3 DEF Held
    <3>2. CASE ~(u = t /\ d = top)
      <4>1. soft'[u][d] = soft[u][d] /\ temp'[u][d] = temp[u][d]
        BY <3>2, <2>4
      <4>2. Held(u, d)' = Held(u, d)
        BY <4>1, <2>3 DEF Held
      <4>. QED BY <3>2, <4>2
    <3>. QED BY <3>1, <3>2
  <2>7. HeldInv' /\ DroppingInv'
    BY <2>3, <2>6 DEF IndInv, LockInv, HeldInv, DroppingInv
  <2>8. WantInv'
    <3>1. \A u \in Thread : pc[u] \in Stopping => u # t /\ depth[u] \in Frame
      BY <2>1, TopFrame DEF Stopping
    <3>2. \A u \in Thread : \A d \in Frame : u # t => temp'[u][d] = temp[u][d]
      BY <2>4
    <3>. QED BY <3>1, <3>2, <2>3 DEF IndInv, LockInv, WantInv
  <2>9. \A u \in Thread : \A d \in Frame :
          soft'[u][d] \subseteq soft[u][d] /\ temp'[u][d] \subseteq temp[u][d]
    BY <2>4
  <2>10. SetsInv'
    <3>1. ASSUME NEW u \in Thread, NEW d \in Frame
          PROVE  /\ \A q \in soft'[u][d] : Kind[q] # "Hard"
                 /\ \A q \in temp'[u][d] : Kind[q] = "Temporary"
                 /\ soft'[u][d] \cap temp'[u][d] = {}
                 /\ d \in calling[u] => soft'[u][d] = {}
      BY <2>9 DEF IndInv, LockInv, SetsInv
    <3>. QED BY <3>1, <2>3, ZenonT(60) DEF IndInv, LockInv, SetsInv
  <2>11. FrameInv'
    <3>1. \A u \in Thread : \A d \in Frame :
            hard[u][d] \cup soft[u][d] \cup temp[u][d] = {}
              => hard'[u][d] \cup soft'[u][d] \cup temp'[u][d] = {}
      BY <2>3, <2>9
    <3>. QED BY <3>1, <2>3, ZenonT(60) DEF IndInv, LockInv, FrameInv
  <2>12. AccountedInv'
    <3>1. SUFFICES ASSUME NEW u \in Thread, NEW q \in Ref, owner[q] = u,
                          q \notin dropping[u], q \notin lost',
                          \A d \in Frame : q \notin Held(u, d)'
                   PROVE  /\ depth[u] > 0 /\ q \in temp'[u][depth[u]]
                          /\ pc[u] \in Stopping \cup {"ready", "restore", "finish"}
      BY <2>3 DEF AccountedInv
    <3>2. \A d \in Frame : q \notin Held(u, d)
      BY <3>1, <2>3, <2>6
    <3>3. /\ depth[u] > 0 /\ q \in temp[u][depth[u]]
          /\ pc[u] \in Stopping \cup {"ready", "restore", "finish"}
      BY <3>1, <3>2, <2>3 DEF IndInv, AccountedInv
    <3>4. depth[u] \in Frame /\ u # t
      BY <3>3, <2>1, TopFrame DEF Stopping
    <3>. QED BY <3>3, <3>4, <2>4
  <2>. QED BY <2>7, <2>8, <2>10, <2>11, <2>12 DEF LockInv
<1>15. ASSUME PopBlockForFinish(t) PROVE LockInv' /\ AccountedInv'
  <2>1. pc[t] \in {"run", "finish"} /\ depth[t] > 0
    BY <1>15 DEF PopBlockForFinish
  <2>2. PICK top \in Frame : top = depth[t]
    BY <1>6, <2>1, FrameAssumption DEF Frame
  <2>3. PICK rs : rs = Held(t, top)
    OBVIOUS
  <2>4. /\ UNCHANGED <<owner, want, calling, depth>>
        /\ pc' = [pc EXCEPT ![t] = "drop"]
        /\ hard' = Put(hard, t, top, {})
        /\ soft' = Put(soft, t, top, {})
        /\ temp' = Put(temp, t, top, {})
        /\ dropping' = [dropping EXCEPT ![t] = rs]
        /\ lost' = lost \cup Forgotten(t)
    BY <1>15, <2>2, <2>3 DEF PopBlockForFinish
  <2>5. \A u \in Thread : u # t => after'[u] = after[u]
    BY <1>15 DEF PopBlockForFinish, IndInv, TypeInv, TypeOK
  <2>6. /\ \A u \in Thread : \A d \in Frame :
             hard'[u][d] = IF u = t /\ d = top THEN {} ELSE hard[u][d]
        /\ \A u \in Thread : \A d \in Frame :
             soft'[u][d] = IF u = t /\ d = top THEN {} ELSE soft[u][d]
        /\ \A u \in Thread : \A d \in Frame :
             temp'[u][d] = IF u = t /\ d = top THEN {} ELSE temp[u][d]
    BY <1>2, <2>4, PutValue
  <2>7. \A u \in Thread : \A d \in Frame : Held(u, d)' =
          IF u = t /\ d = top THEN Held(u, d) \ rs ELSE Held(u, d)
    <3>. TAKE u \in Thread
    <3>. TAKE d \in Frame
    <3>1. CASE u = t /\ d = top
      <4>1. Held(u, d)' = {}
        BY <3>1, <2>6 DEF Held
      <4>. QED BY <3>1, <4>1, <2>3
    <3>2. CASE ~(u = t /\ d = top)
      <4>1. /\ hard'[u][d] = hard[u][d] /\ soft'[u][d] = soft[u][d]
            /\ temp'[u][d] = temp[u][d]
        BY <3>2, <2>6
      <4>2. Held(u, d)' = Held(u, d)
        BY <4>1, <2>4 DEF Held
      <4>. QED BY <3>2, <4>2
    <3>. QED BY <3>1, <3>2
  <2>8. \A u \in Thread : \A d \in Frame :
          /\ hard'[u][d] \subseteq hard[u][d]
          /\ soft'[u][d] \subseteq soft[u][d]
          /\ temp'[u][d] \subseteq temp[u][d]
          /\ u # t => temp'[u][d] = temp[u][d]
    BY <2>6
  <2>9. \A d \in Frame : d \in calling'[t] => soft'[t][d] = {}
    BY <2>4, <2>6, <1>5
  <2>10. \A d \in Frame :
           /\ d < depth'[t] => d \in calling'[t]
           /\ d > depth'[t] => /\ d \notin calling'[t]
                               /\ hard'[t][d] \cup soft'[t][d] \cup temp'[t][d] = {}
    BY <2>4, <2>8, <1>4
  <2>11. depth'[t] # 0
    BY <2>1, <2>4
  <2>20. Releases(t, top, rs, rs)
    BY <2>1, <2>2, <2>3, <2>4, <2>5, <2>7, <2>8, <2>9, <2>10, <2>11 DEF Releases
  <2>. QED BY <2>20, Releasing
<1>. QED
  BY <1>7, <1>8, <1>9, <1>10, <1>11, <1>12, <1>13, <1>14, <1>15 DEF RunScript

------------------------------------------------------------------------------
(* The invariants.                                                         *)

\* A runtime starts with no lock and no request, and every thread queued.
LEMMA InitiallyIndInv == Init => IndInv /\ StackInv
<1>. SUFFICES ASSUME Init PROVE IndInv /\ StackInv
  OBVIOUS
<1>1. hard \in LockTable /\ soft \in LockTable /\ temp \in LockTable
  BY DEF Init, LockTable
<1>2. TypeOK
  BY <1>1, FrameAssumption DEF Init, TypeOK, State, Continuation
<1>3. LocalsInv
  BY DEF Init, LocalsInv, Stopping
<1>4. RequestInv
  <2>1. \A t \in Thread : Posted(t) = {} /\ pc[t] = "ready" /\ queue[t] = 1
    BY DEF Init, Posted
  <2>2. OneRequestPerWait
    BY <2>1 DEF Init, OneRequestPerWait
  <2>3. QueuedOnce
    BY <2>1 DEF QueuedOnce
  <2>. QED BY <2>2, <2>3 DEF Init, RequestInv
<1>5. \A t \in Thread : \A d \in Frame :
        hard[t][d] = {} /\ soft[t][d] = {} /\ temp[t][d] = {} /\ Held(t, d) = {}
  BY DEF Init, Held
<1>6. FrameInv
  <2>1. \A d \in Frame : ~(d < 1)
    BY FrameAssumption DEF Frame
  <2>. QED BY <2>1, <1>5 DEF Init, FrameInv
<1>7. SetsInv /\ HeldInv
  BY <1>5 DEF SetsInv, HeldInv
<1>8. DroppingInv /\ WantInv
  BY DEF Init, DroppingInv, WantInv, Stopping
<1>9. AccountedInv
  BY NullAssumption DEF Init, AccountedInv
<1>10. BlockTypeOK
  <2>1. blockVars \in LockTable /\ stale \in [Thread -> SUBSET Ref]
    BY <1>1, <1>2 DEF Init, TypeOK
  <2>2. undeclared = Captured /\ lost = {} /\ robbed = FALSE
    BY DEF Init
  <2>. QED BY <2>1, <2>2 DEF BlockTypeOK
<1>11. StackInv
  BY DEF Init, StackInv
<1>. QED
  BY <1>2, <1>3, <1>4, <1>6, <1>7, <1>8, <1>9, <1>10, <1>11 DEF IndInv, TypeInv, LockInv

\* What the requests and the run queue rest on holds whatever becomes of the locks.
SafeInv == TypeInv /\ BlockTypeOK /\ RequestInv /\ StackInv

\* Every step of every thread keeps types, requests and the run queue.
LEMMA StepSafeInv == SafeInv /\ [Next]_vars => SafeInv'
<1>. SUFFICES ASSUME SafeInv, [Next]_vars PROVE SafeInv'
  OBVIOUS
<1>. USE DEF SafeInv
<1>1. CASE UNCHANGED vars
  <2>1. UNCHANGED <<owner, hard, soft, temp, calling, depth, pc, after, dropping, want,
                    holder, poolLock, alive, transferReq, serving, forwarding, queue,
                    undeclared, blockVars, stale, lost, robbed>>
    BY <1>1 DEF vars, lockVars, lockSets, blockState, requestVars
  <2>2. TypeInv' /\ BlockTypeOK'
    BY <2>1 DEF TypeInv, TypeOK, LocalsInv, BlockTypeOK
  <2>3. RequestInv'
    BY <2>1 DEF RequestInv, OneRequestPerWait, Posted, QueuedOnce
  <2>4. StackInv'
    BY <2>1 DEF StackInv, Ending
  <2>. QED BY <2>2, <2>3, <2>4
<1>2. ASSUME Next PROVE BlockTypeOK' /\ StackInv'
  BY <1>2, BlockTypes, Stacks
<1>3. ASSUME NEW t \in Thread, Dispatch(t) \/ Resume(t) PROVE TypeInv' /\ RequestInv'
  BY <1>3, QueueType, QueueRequest
<1>4. ASSUME NEW t \in Thread, LockReference(t) PROVE TypeInv' /\ RequestInv'
  BY <1>4, LockReferenceType, LockReferenceRequest
<1>5. ASSUME NEW t \in Thread, CheckTransferReq(t) PROVE TypeInv' /\ RequestInv'
  BY <1>5, CheckTransferReqType, CheckTransferReqRequest
<1>6. ASSUME NEW t \in Thread, RunScript(t) PROVE TypeInv' /\ RequestInv'
  BY <1>6, RunScriptType, RunScriptRequest
<1>. QED BY <1>1, <1>2, <1>3, <1>4, <1>5, <1>6 DEF Next

\* It holds in every reachable state.
LEMMA SafeInvariance == Spec => []SafeInv
<1>1. Init => SafeInv
  BY InitiallyIndInv DEF SafeInv, IndInv
<1>. QED BY <1>1, StepSafeInv, PTL DEF Spec

\* robbed is history.
LEMMA RobbedStays ==
  ASSUME robbed, [Next]_vars
  PROVE  robbed'
<1>1. CASE UNCHANGED vars
  BY <1>1 DEF vars, lockVars, blockState
<1>2. ASSUME NEW t \in Thread, PopForFinish(t) PROVE robbed'
  BY <1>2 DEF PopForFinish
<1>3. ASSUME NEW t \in Thread, Dispatch(t) \/ Resume(t) PROVE robbed'
  BY <1>3 DEF Dispatch, Resume, lockVars, blockState
<1>4. ASSUME NEW t \in Thread, LockReference(t) PROVE robbed'
  BY <1>4 DEF LockReference, AccessOwned, AccessFree, AccessHeld, SlowAcquire, SlowRead,
              HolderGone, SendTransferReq, RestoreFree, RestoreHeld, Restored, lockVars,
              blockState
<1>5. ASSUME NEW t \in Thread, CheckTransferReq(t) PROVE robbed'
  BY <1>5 DEF CheckTransferReq, Unlock, TakeRequests, Grant, ReadNewHolder,
              LookUpNewHolder, ForwardRequest, EndOfRequests, lockVars, blockState
<1>6. ASSUME NEW t \in Thread, RunScript(t), ~ PopForFinish(t) PROVE robbed'
  BY <1>6 DEF RunScript, NextStatement, NativeWait, Call, Construct, Constructed,
              CallOfNothing, Declare, ReleaseTransient, PopBlock, Return,
              PopBlockForFinish, Remove, Exit, lockVars, blockState
<1>. QED BY <1>1, <1>2, <1>3, <1>4, <1>5, <1>6 DEF Next

\* Every step of every thread keeps the inductive invariant, unless popForFinish()
\* unlocks what another frame or thread has taken.
LEMMA StepIndInv == IndInv /\ StackInv /\ [Next]_vars => robbed' \/ IndInv'
<1>. SUFFICES ASSUME IndInv, StackInv, [Next]_vars, ~ robbed' PROVE IndInv'
  OBVIOUS
<1>0. TypeInv' /\ BlockTypeOK' /\ RequestInv'
  BY StepSafeInv DEF SafeInv, IndInv
<1>1. CASE UNCHANGED vars
  <2>1. UNCHANGED <<owner, hard, soft, temp, calling, depth, pc, after, dropping, want,
                    lost>>
    BY <1>1 DEF vars, lockVars, lockSets, blockState
  <2>4. \A t \in Thread : \A d \in Frame : Held(t, d)' = Held(t, d)
    BY <2>1 DEF Held
  <2>5. FrameInv' /\ SetsInv' /\ WantInv'
    BY <2>1 DEF IndInv, LockInv, FrameInv, SetsInv, WantInv
  <2>6. DroppingInv' /\ HeldInv'
    BY <2>1, <2>4 DEF IndInv, LockInv, DroppingInv, HeldInv
  <2>7. AccountedInv'
    BY <2>1, <2>4 DEF IndInv, AccountedInv
  <2>. QED BY <1>0, <2>5, <2>6, <2>7 DEF IndInv, LockInv
<1>2. ASSUME NEW t \in Thread, Dispatch(t) \/ Resume(t) PROVE LockInv' /\ AccountedInv'
  BY <1>2, QueueLock
<1>3. ASSUME NEW t \in Thread, LockReference(t) PROVE LockInv' /\ AccountedInv'
  BY <1>3, LockReferenceLock
<1>4. ASSUME NEW t \in Thread, CheckTransferReq(t) PROVE LockInv' /\ AccountedInv'
  BY <1>4, CheckTransferReqLock
<1>5. ASSUME NEW t \in Thread, RunScript(t) PROVE LockInv' /\ AccountedInv'
  BY <1>5, RunScriptLock
<1>. QED BY <1>0, <1>1, <1>2, <1>3, <1>4, <1>5 DEF Next, IndInv

\* The inductive invariant holds in every reachable state before that.
LEMMA Invariance == Spec => [](robbed \/ IndInv)
<1>1. Init => IndInv
  BY InitiallyIndInv
<1>2. (robbed \/ IndInv) /\ SafeInv /\ [Next]_vars => (robbed \/ IndInv)'
  BY StepIndInv, RobbedStays DEF SafeInv
<1>. QED BY <1>1, <1>2, SafeInvariance, PTL DEF Spec

\* What lockReference(), checkTransferReq(), finish() and pop() store in a thread is
\* what their readers expect.
THEOREM TypeCorrect == Spec => [](TypeOK /\ BlockTypeOK)
<1>1. SafeInv => TypeOK /\ BlockTypeOK
  BY DEF SafeInv, TypeInv
<1>. QED BY <1>1, SafeInvariance, PTL

\* README.md, "can be owned by only one thread at the same time": no reference
\* is in the Lock of a frame of two threads, as long as no abort has robbed a thread.
THEOREM MutuallyExclusive == Spec => []MutualExclusion
<1>1. robbed \/ IndInv => MutualExclusion
  <2>1. SUFFICES ASSUME IndInv, NEW t \in Thread, NEW u \in Thread,
                        NEW c \in Frame, NEW d \in Frame,
                        NEW r \in Held(t, c), r \in Held(u, d)
                 PROVE  t = u
    BY DEF MutualExclusion
  <2>. QED BY <2>1 DEF IndInv, LockInv, HeldInv
<1>. QED BY <1>1, Invariance, PTL

\* Lock::audit() never finds a mismatch, and what stays locked that no Lock accounts
\* for has been dropped by pop() of a block or by an abort.
THEOREM OwnersMatchLocks == Spec => []OwnerMatchesLocks
<1>1. robbed \/ IndInv => OwnerMatchesLocks
  <2>. SUFFICES ASSUME IndInv PROVE OwnerMatchesLocks
    BY DEF OwnerMatchesLocks
  <2>1. \A t \in Thread : \A d \in Frame : \A r \in Held(t, d) : owner[r] = t
    BY DEF IndInv, LockInv, HeldInv
  <2>2. \A t \in Thread : \A r \in dropping[t] : owner[r] = t
    BY DEF IndInv, LockInv, DroppingInv
  <2>3. \A t \in Thread : \A r \in Ref :
          owner[r] = t => \/ r \in dropping[t]
                          \/ \E d \in Frame : r \in Held(t, d)
                          \/ depth[t] > 0 /\ r \in temp[t][depth[t]]
                          \/ r \in lost
    BY DEF IndInv, AccountedInv
  <2>. QED BY <2>1, <2>2, <2>3 DEF OwnerMatchesLocks
<1>. QED BY <1>1, Invariance, PTL

\* The assertion of lockReference() about references the thread has already, for all
\* but those it has lost.
THEOREM OwnedOnTop == Spec => []OwnedIsOnTop
<1>1. robbed \/ IndInv => OwnedIsOnTop
  <2>1. SUFFICES ASSUME IndInv, NEW t \in Thread, NEW r \in Ref \ lost,
                        pc[t] = "run", owner[r] = t, Kind[r] # "Hard"
                 PROVE  r \in soft[t][depth[t]] \cup temp[t][depth[t]]
    BY DEF OwnedIsOnTop
  <2>2. dropping[t] = {}
    BY <2>1 DEF IndInv, LockInv, DroppingInv
  <2>3. PICK d \in Frame : r \in Held(t, d)
    BY <2>1, <2>2 DEF IndInv, AccountedInv, Stopping
  <2>4. r \notin hard[t][d]
    BY <2>1 DEF IndInv, LockInv, SetsInv
  <2>5. d # depth[t] => Held(t, d) = hard[t][d]
    BY <2>1, HeldBelow
  <2>. QED BY <2>3, <2>4, <2>5 DEF Held
<1>. QED BY <1>1, Invariance, PTL

\* The request a stopped thread depends on is never lost, duplicated or left
\* over, wherever checkTransferReq() sends it, robbed or not.
THEOREM RequestsOncePerWait == Spec => []OneRequestPerWait
<1>1. SafeInv => OneRequestPerWait
  BY DEF SafeInv, RequestInv
<1>. QED BY <1>1, SafeInvariance, PTL

\* No two workers run the same thread, robbed or not.
THEOREM ThreadsQueuedOnce == Spec => []QueuedOnce
<1>1. SafeInv => QueuedOnce
  BY DEF SafeInv, RequestInv
<1>. QED BY <1>1, SafeInvariance, PTL

------------------------------------------------------------------------------
(* What a step may not do.                                                 *)

\* A Hard lock stays in the Lock of its frame in every step but the removal of
\* the frame, the release of a transient reference and that of an aborted block.
LEMMA HardKept ==
  ASSUME IndInv, Next, NEW u \in Thread, NEW d \in Frame, NEW r \in Ref \ Transient,
         r \in hard[u][d], d <= depth'[u], stale'[u] = {}
  PROVE  r \in hard'[u][d]
<1>1. hard \in LockTable
  BY DEF IndInv, TypeInv, TypeOK
<1>2. CASE hard' = hard
  BY <1>2
<1>3. ASSUME NEW t \in Thread, NEW q \in Ref, AddToTop(t, q), depth[t] \in Frame
      PROVE  r \in hard'[u][d]
  <2>1. PICK k \in LockType : k = Kind[q]
    BY KindAssumption
  <2>2. AddAs(k, t, q) /\ TypeOK
    BY <1>3, <2>1 DEF AddAs, AddToTop, Added, IndInv, TypeInv
  <2>3. AddsOnly(k, t, q)
    BY <1>3, <2>2, AddValue
  <2>. QED BY <2>3 DEF AddsOnly
<1>4. ASSUME NEW t \in Thread, LockReference(t) PROVE r \in hard'[u][d]
  <2>1. CASE SlowAcquire(t)
    <3>1. want[t] \in Ref /\ AddToTop(t, want[t]) /\ depth[t] \in Frame
      BY <2>1, TopFrame DEF SlowAcquire, IndInv, TypeInv, LocalsInv, Stopping
    <3>. QED BY <3>1, <1>3
  <2>2. ASSUME NEW q \in Ref, AccessFree(t, q) PROVE r \in hard'[u][d]
    <3>1. AddToTop(t, q) /\ depth[t] \in Frame
      BY <2>2, TopFrame DEF AccessFree
    <3>. QED BY <3>1, <1>3
  <2>3. CASE ~SlowAcquire(t) /\ ~\E q \in Ref : AccessFree(t, q)
    BY <1>2, <1>4, <2>3
       DEF LockReference, AccessOwned, AccessHeld, SlowRead, HolderGone,
           SendTransferReq, RestoreFree, RestoreHeld, Restored, lockVars, lockSets
  <2>. QED BY <2>1, <2>2, <2>3
<1>5. ASSUME NEW t \in Thread, CheckTransferReq(t) PROVE r \in hard'[u][d]
  <2>1. ASSUME NEW q \in Request, Grant(t, q) PROVE r \in hard'[u][d]
    <3>1. PICK w \in Thread : w = q.requester
      BY DEF Request
    <3>2. q.ref \in Ref
      BY DEF Request
    <3>3. AddToTop(w, q.ref) /\ pc[w] = "wait"
      BY <2>1, <3>1 DEF Grant, Posted, IndInv, RequestInv, OneRequestPerWait
    <3>4. depth[w] \in Frame
      BY <3>3, TopFrame DEF Stopping
    <3>. QED BY <3>2, <3>3, <3>4, <1>3
  <2>2. CASE ~\E q \in Request : Grant(t, q)
    BY <1>2, <1>5, <2>2
       DEF CheckTransferReq, Unlock, TakeRequests, ReadNewHolder, LookUpNewHolder,
           ForwardRequest, EndOfRequests, lockVars, lockSets
  <2>. QED BY <2>1, <2>2
<1>6. ASSUME NEW t \in Thread, Dispatch(t) \/ Resume(t) PROVE r \in hard'[u][d]
  BY <1>2, <1>6 DEF Dispatch, Resume, lockVars, lockSets
<1>7. ASSUME NEW t \in Thread, RunScript(t) PROVE r \in hard'[u][d]
  <2>1. CASE Return(t) \/ PopForFinish(t)
    <3>1. depth[t] \in Frame /\ depth \in [Thread -> 0..MaxFrame]
      BY <2>1, TopFrame DEF Return, PopForFinish, IndInv, TypeInv, TypeOK
    <3>2. hard' = Put(hard, t, depth[t], {}) /\ depth' = [depth EXCEPT ![t] = depth[t] - 1]
      BY <2>1 DEF Return, PopForFinish, PopFrame
    <3>3. ~(u = t /\ d = depth[t])
      BY <3>1, <3>2, FrameAssumption DEF Frame
    <3>4. hard'[u][d] = IF u = t /\ d = depth[t] THEN {} ELSE hard[u][d]
      BY <1>1, <3>1, <3>2, PutValue
    <3>. QED BY <3>3, <3>4
  <2>2. ASSUME NEW q \in Ref, ReleaseTransient(t, q) PROVE r \in hard'[u][d]
    <3>1. q \in Transient /\ depth[t] \in Frame
          /\ hard' = Put(hard, t, depth[t], hard[t][depth[t]] \ {q})
      BY <2>2, TopFrame DEF ReleaseTransient
    <3>2. hard'[u][d] =
            IF u = t /\ d = depth[t] THEN hard[t][depth[t]] \ {q} ELSE hard[u][d]
      BY <1>1, <3>1, PutValue
    <3>. QED BY <3>1, <3>2
  <2>3. CASE \/ NextStatement(t) \/ NativeWait(t) \/ Call(t) \/ Construct(t)
             \/ Constructed(t) \/ CallOfNothing(t) \/ Remove(t) \/ Exit(t)
             \/ \E q \in Ref : Declare(t, q) \/ \E rs \in SUBSET Captured : PopBlock(t, rs)
    BY <1>2, <2>3 DEF NextStatement, NativeWait, Call, Construct, Constructed,
                      CallOfNothing, PrepareToMethodCall, Declare, PopBlock, Remove,
                      Exit, lockVars, lockSets
  <2>4. CASE PopBlockForFinish(t)
    <3>1. depth[t] \in Frame /\ Held(t, depth[t]) # {}
      BY <2>4, TopFrame DEF PopBlockForFinish
    <3>2. /\ hard' = Put(hard, t, depth[t], {})
          /\ stale' = [stale EXCEPT ![t] = Held(t, depth[t])]
      BY <2>4 DEF PopBlockForFinish
    <3>3. u # t
      BY <3>1, <3>2 DEF IndInv, BlockTypeOK
    <3>4. hard'[u][d] = IF u = t /\ d = depth[t] THEN {} ELSE hard[u][d]
      BY <1>1, <3>1, <3>2, PutValue
    <3>. QED BY <3>3, <3>4
  <2>. QED BY <1>7, <2>1, <2>2, <2>3, <2>4 DEF RunScript
<1>. QED BY <1>4, <1>5, <1>6, <1>7 DEF Next

\* README.md, "ownership to a sync block is never released until its owned
\* function returns".
THEOREM SyncNeverReleasedEarly == Spec => SyncHeldUntilReturn
<1>. DEFINE Kept == robbed' \/ \A t \in Thread : \A d \in Frame : \A r \in Ref \ Transient :
                      r \in hard[t][d] /\ d <= depth'[t] /\ stale'[t] = {}
                        => r \in hard'[t][d] /\ owner'[r] = t
<1>1. (robbed \/ IndInv) /\ (robbed \/ IndInv)' /\ [Next]_vars => [Kept]_vars
  <2>1. SUFFICES ASSUME robbed \/ IndInv, (robbed \/ IndInv)', Next, ~ robbed',
                        NEW t \in Thread, NEW d \in Frame, NEW r \in Ref \ Transient,
                        r \in hard[t][d], d <= depth'[t], stale'[t] = {}
                 PROVE  r \in hard'[t][d] /\ owner'[r] = t
    OBVIOUS
  <2>2. IndInv /\ IndInv'
    BY <2>1, RobbedStays
  <2>3. r \in hard'[t][d]
    BY <2>1, <2>2, HardKept
  <2>4. r \in Held(t, d)'
    BY <2>3 DEF Held
  <2>. QED BY <2>2, <2>3, <2>4 DEF IndInv, LockInv, HeldInv
<1>2. Spec => [][Kept]_vars
  BY <1>1, Invariance, PTL DEF Spec
<1>. QED BY <1>2 DEF SyncHeldUntilReturn

------------------------------------------------------------------------------
(* Refinement.                                                             *)

\* Waiting for the same references as before.
LEMMA SameWaits ==
  ASSUME \A t \in Thread : /\ pc'[t] = "wait" <=> pc[t] = "wait"
                           /\ pc[t] = "wait" => want'[t] = want[t]
  PROVE  waitingFor' = waitingFor
BY DEF waitingFor

\* A step of one thread, which neither starts nor ends a wait.
LEMMA OwnStepSameWaits ==
  ASSUME TypeOK, NEW t \in Thread, pc[t] # "wait", pc'[t] # "wait",
         \A u \in Thread : u # t => pc'[u] = pc[u] /\ want'[u] = want[u]
  PROVE  waitingFor' = waitingFor /\ waitingFor[t] = NoRef
<1>1. waitingFor[t] = NoRef
  BY DEF waitingFor
<1>2. \A u \in Thread : /\ pc'[u] = "wait" <=> pc[u] = "wait"
                        /\ pc[u] = "wait" => want'[u] = want[u]
  OBVIOUS
<1>. QED BY <1>1, <1>2, SameWaits

\* Every step takes, gives up or hands over one reference, stops one thread, or
\* changes neither the owners nor who is stopped.
LEMMA StepImplementsOwnership ==
  ASSUME IndInv, Next, ~ robbed'
  PROVE  Promise!OwnershipNext \/ UNCHANGED <<owner, waitingFor>>
<1>0. TypeOK /\ \A r \in Ref, t \in Thread : r # NoRef /\ t # NoThread
  BY NullAssumption DEF IndInv, TypeInv
<1>1. ASSUME NEW t \in Thread, Dispatch(t) \/ Resume(t)
      PROVE  UNCHANGED <<owner, waitingFor>>
  <2>1. pc[t] \in {"ready", "paused"} /\ UNCHANGED <<owner, want>>
    BY <1>1 DEF Dispatch, Resume, lockVars, IndInv, RequestInv, QueuedOnce
  <2>2. pc'[t] # "wait" /\ \A u \in Thread : u # t => pc'[u] = pc[u]
    BY <1>1, <1>0 DEF Dispatch, Resume, Running, TypeOK
  <2>. QED BY <2>1, <2>2, <1>0, OwnStepSameWaits
<1>2. ASSUME NEW t \in Thread, RunScript(t)
      PROVE  Promise!OwnershipNext \/ UNCHANGED <<owner, waitingFor>>
  <2>1. want' = want /\ pc[t] \in {"run", "drop", "finish", "remove", "exit"}
    BY <1>2 DEF RunScript, NextStatement, NativeWait, Call, Construct, Constructed,
                CallOfNothing, Declare, ReleaseTransient, PopBlock, Return,
                PopBlockForFinish, PopForFinish, Remove, Exit, lockVars
  <2>2. pc' \in {pc, [pc EXCEPT ![t] = "ready"], [pc EXCEPT ![t] = "drop"],
                [pc EXCEPT ![t] = "gone"]}
    BY <1>2
       DEF RunScript, NextStatement, NativeWait, Call, Construct, Constructed,
           CallOfNothing, Declare, ReleaseTransient, PopBlock, Return,
           PopBlockForFinish, PopForFinish, Remove, Exit, lockVars
  <2>3. pc[t] # "wait" /\ pc'[t] # "wait" /\ \A u \in Thread : u # t => pc'[u] = pc[u]
    BY <2>1, <2>2, <1>0 DEF TypeOK
  <2>4. waitingFor' = waitingFor /\ waitingFor[t] = NoRef
    BY <2>1, <2>3, <1>0, OwnStepSameWaits
  <2>5. ASSUME NEW r \in Ref, Declare(t, r) PROVE Promise!OwnershipNext
    <3>1. Promise!Take(t, r)
      BY <2>4, <2>5 DEF Declare, Promise!Take
    <3>. QED BY <3>1 DEF Promise!OwnershipNext
  <2>6. CASE PopForFinish(t)
    <3>1. \A r \in stale[t] : owner[r] = NoThread
      BY <2>6 DEF PopForFinish
    <3>2. owner' = [r \in Ref |-> IF r \in stale[t] THEN NoThread ELSE owner[r]]
      BY <2>6 DEF PopForFinish
    <3>3. \A r \in Ref : (IF r \in stale[t] THEN NoThread ELSE owner[r]) = owner[r]
      BY <3>1
    <3>4. owner' = [r \in Ref |-> owner[r]]
      BY <3>2, <3>3
    <3>5. owner' = owner
      BY <3>4, <1>0 DEF TypeOK
    <3>. QED BY <2>4, <3>5
  <2>7. CASE ~ PopForFinish(t) /\ ~ \E r \in Ref : Declare(t, r)
    <3>1. owner' = owner
      BY <1>2, <2>7
         DEF RunScript, NextStatement, NativeWait, Call, Construct, Constructed,
             CallOfNothing, ReleaseTransient, PopBlock, Return, PopBlockForFinish,
             Remove, Exit, lockVars
    <3>. QED BY <2>4, <3>1
  <2>. QED BY <2>5, <2>6, <2>7
<1>3. ASSUME NEW t \in Thread, LockReference(t)
      PROVE  Promise!OwnershipNext \/ UNCHANGED <<owner, waitingFor>>
  <2>1. CASE SendTransferReq(t)
    <3>1. pc[t] = "send" /\ pc' = [pc EXCEPT ![t] = "wait"] /\ UNCHANGED <<owner, want>>
      BY <2>1 DEF SendTransferReq, lockVars
    <3>2. want[t] \in Ref /\ owner[want[t]] # t
      BY <3>1 DEF IndInv, TypeInv, LocalsInv, LockInv, WantInv, Stopping
    <3>3. waitingFor[t] = NoRef
      BY <3>1 DEF waitingFor
    <3>4. waitingFor' = [waitingFor EXCEPT ![t] = want[t]]
      BY <3>1, <1>0 DEF waitingFor, TypeOK
    <3>5. Promise!Stop(t, want[t])
      BY <3>1, <3>2, <3>3, <3>4 DEF Promise!Stop
    <3>. QED BY <3>2, <3>5 DEF Promise!OwnershipNext
  <2>2. ASSUME NEW r \in Ref, owner[r] = NoThread, owner' = [owner EXCEPT ![r] = t],
               pc[t] # "wait", pc'[t] # "wait",
               \A u \in Thread : u # t => pc'[u] = pc[u] /\ want'[u] = want[u]
        PROVE  Promise!OwnershipNext
    <3>1. waitingFor' = waitingFor /\ waitingFor[t] = NoRef
      BY <2>2, <1>0, OwnStepSameWaits
    <3>2. Promise!Take(t, r)
      BY <2>2, <3>1 DEF Promise!Take
    <3>. QED BY <3>2 DEF Promise!OwnershipNext
  <2>3. CASE SlowAcquire(t)
    <3>1. want[t] \in Ref
      BY <2>3 DEF SlowAcquire, IndInv, TypeInv, LocalsInv, Stopping
    <3>2. /\ owner[want[t]] = NoThread /\ owner' = [owner EXCEPT ![want[t]] = t]
          /\ pc[t] # "wait" /\ pc'[t] # "wait"
      BY <2>3, <1>0 DEF SlowAcquire, Running, TypeOK
    <3>3. \A u \in Thread : u # t => pc'[u] = pc[u] /\ want'[u] = want[u]
      BY <2>3, <1>0 DEF SlowAcquire, TypeOK
    <3>. QED BY <3>1, <3>2, <3>3, <2>2
  <2>4. ASSUME NEW r \in Ref, AccessFree(t, r) \/ RestoreFree(t, r)
        PROVE  Promise!OwnershipNext
    BY <2>2, <2>4 DEF AccessFree, RestoreFree
  <2>5. CASE SlowRead(t) \/ HolderGone(t) \/ Restored(t)
             \/ \E r \in Ref : AccessOwned(t, r) \/ AccessHeld(t, r) \/ RestoreHeld(t, r)
    <3>1. /\ owner' = owner /\ pc[t] \in {"lock", "restore", "run"}
          /\ pc' \in {pc, [pc EXCEPT ![t] = "send"], [pc EXCEPT ![t] = "run"],
                      [pc EXCEPT ![t] = "lock"], [pc EXCEPT ![t] = "finish"]}
      BY <2>5 DEF SlowRead, HolderGone, Restored, AccessOwned, AccessHeld, RestoreHeld,
                  lockVars
    <3>2. \A u \in Thread : u # t => want'[u] = want[u]
      BY <2>5, <1>0 DEF SlowRead, HolderGone, Restored, AccessOwned, AccessHeld,
                        RestoreHeld, TypeOK
    <3>3. pc'[t] # "wait" /\ \A u \in Thread : u # t => pc'[u] = pc[u]
      BY <3>1, <1>0 DEF TypeOK
    <3>. QED BY <3>1, <3>2, <3>3, <1>0, OwnStepSameWaits
  <2>. QED BY <1>3, <2>1, <2>3, <2>4, <2>5 DEF LockReference
<1>4. ASSUME NEW t \in Thread, CheckTransferReq(t)
      PROVE  Promise!OwnershipNext \/ UNCHANGED <<owner, waitingFor>>
  <2>1. ASSUME NEW r \in Ref, Unlock(t, r) PROVE Promise!OwnershipNext
    <3>1. /\ UNCHANGED <<pc, want>> /\ owner' = [owner EXCEPT ![r] = NoThread]
          /\ pc[t] = "drop" /\ r \in dropping[t]
      BY <2>1 DEF Unlock
    <3>2. owner[r] = t
      BY <3>1 DEF IndInv, LockInv, DroppingInv
    <3>3. waitingFor' = waitingFor /\ waitingFor[t] = NoRef
      BY <3>1, <1>0, OwnStepSameWaits
    <3>4. Promise!GiveUp(t, r)
      BY <3>1, <3>2, <3>3 DEF Promise!GiveUp
    <3>. QED BY <3>4 DEF Promise!OwnershipNext
  <2>2. ASSUME NEW q \in Request, Grant(t, q) PROVE Promise!OwnershipNext
    <3>1. PICK w \in Thread : w = q.requester
      BY DEF Request
    <3>2. PICK r \in Ref : r = q.ref
      BY DEF Request
    <3>3. pc[w] = "wait" /\ want[w] = r
      BY <2>2, <3>1, <3>2 DEF Grant, Posted, IndInv, RequestInv, OneRequestPerWait
    <3>4. /\ owner[r] \in {NoThread, w} /\ owner' = [owner EXCEPT ![r] = w]
          /\ pc' = [pc EXCEPT ![w] = "ready"] /\ want' = [want EXCEPT ![w] = NoRef]
      BY <2>2, <3>1, <3>2 DEF Grant
    <3>5. owner[r] = NoThread
      BY <3>3, <3>4 DEF IndInv, LockInv, WantInv, Stopping
    <3>6. waitingFor[w] = r
      BY <3>3 DEF waitingFor
    <3>7. waitingFor' = [waitingFor EXCEPT ![w] = NoRef]
      BY <3>4, <1>0 DEF waitingFor, TypeOK
    <3>8. Promise!HandOver(w, r)
      BY <3>4, <3>5, <3>6, <3>7 DEF Promise!HandOver
    <3>. QED BY <3>8 DEF Promise!OwnershipNext
  <2>3. CASE TakeRequests(t) \/ LookUpNewHolder(t) \/ ForwardRequest(t)
             \/ EndOfRequests(t) \/ \E q \in Request : ReadNewHolder(t, q)
    <3>1. /\ UNCHANGED <<owner, want>> /\ pc[t] \in {"drop", "serve", "forward", "push"}
      BY <2>3 DEF TakeRequests, LookUpNewHolder, ForwardRequest, EndOfRequests,
                  ReadNewHolder, lockVars
    <3>2. \E s \in {"serve", "push", "crash", "forward", "restore"} \cup Continuation :
            pc' = [pc EXCEPT ![t] = s]
      BY <2>3, <1>0 DEF TakeRequests, LookUpNewHolder, ForwardRequest, EndOfRequests,
                        ReadNewHolder, Running, Continuation, TypeOK
    <3>3. pc'[t] # "wait" /\ \A u \in Thread : u # t => pc'[u] = pc[u]
      BY <3>2, <1>0 DEF TypeOK, Continuation
    <3>. QED BY <3>1, <3>3, <1>0, OwnStepSameWaits
  <2>. QED BY <1>4, <2>1, <2>2, <2>3 DEF CheckTransferReq
<1>. QED BY <1>1, <1>2, <1>3, <1>4 DEF Next

\* The locks, frames, requests and queues together keep the promise of module
\* Ownership to the script.
THEOREM KeepsPromise == Spec => ImplementsOwnership
<1>1. Init => Promise!OwnershipInit
  <2>1. Init => waitingFor = [t \in Thread |-> NoRef]
    BY DEF Init, waitingFor
  <2>. QED BY <2>1 DEF Init, Promise!OwnershipInit
<1>2. (robbed \/ IndInv) /\ [Next]_vars
        => [Promise!OwnershipNext \/ robbed']_(Promise!ownershipVars)
  <2>1. UNCHANGED vars => UNCHANGED <<owner, waitingFor>>
    BY DEF vars, lockVars, waitingFor
  <2>. QED BY <2>1, StepImplementsOwnership, RobbedStays DEF Promise!ownershipVars
<1>. QED
  BY <1>1, <1>2, Invariance, PTL DEF Spec, ImplementsOwnership

------------------------------------------------------------------------------
(* Who is registered in threadIds.                                         *)

\* A step that is one thread's own, leaves threadIds and its lock alone and neither
\* begins nor ends sendTransferReq().
LEMMA AliveFrame ==
  ASSUME AliveInv, NEW t \in Thread, UNCHANGED <<poolLock, alive>>,
         \A u \in Thread : u # t =>
           /\ pc'[u] = pc[u] /\ after'[u] = after[u] /\ depth'[u] = depth[u]
           /\ dropping'[u] = dropping[u] /\ holder'[u] = holder[u],
         pc[t] # "send", pc'[t] # "send",
         Ending(t)' => depth'[t] = 0,
         t \notin alive => Leaving(t)' /\ dropping'[t] = {}
  PROVE  AliveInv'
BY DEF AliveInv, Ending, Leaving

\* Only a thread that is registered owns references, other than lost ones.
LEMMA OwnersAlive ==
  ASSUME IndInv, AliveInv, NEW t \in Thread, NEW r \in Ref \ lost, owner[r] = t
  PROVE  t \in alive
<1>. SUFFICES ASSUME t \notin alive PROVE FALSE
  OBVIOUS
<1>1. Leaving(t) /\ dropping[t] = {} /\ depth[t] = 0
  BY DEF AliveInv, Leaving, Ending
<1>2. PICK d \in Frame : r \in Held(t, d)
  BY <1>1 DEF IndInv, AccountedInv
<1>3. d > depth[t]
  BY <1>1, FrameAssumption DEF Frame
<1>. QED BY <1>2, <1>3 DEF IndInv, LockInv, FrameInv, Held

\* The run queue and lockReference() keep it: sendTransferReq() holds the lock of
\* threadIds all the time.
LEMMA LockReferenceAlive ==
  ASSUME IndInv, AliveInv, NEW t \in Thread,
         Dispatch(t) \/ Resume(t) \/ LockReference(t)
  PROVE  AliveInv'
<1>. TypeOK /\ t # NoThread
  BY NullAssumption DEF IndInv, TypeInv
<1>1. CASE Dispatch(t) \/ Resume(t)
  <2>1. pc[t] \in {"ready", "paused"}
    BY <1>1 DEF Dispatch, Resume, IndInv, RequestInv, QueuedOnce
  <2>2. t \in alive
    BY <2>1 DEF AliveInv, Leaving, Checking
  <2>3. pc'[t] \in {"ready", "run", "restore"}
    BY <1>1 DEF Dispatch, Resume, Running, TypeOK
  <2>4. /\ UNCHANGED <<poolLock, alive, after, depth, dropping, holder>>
        /\ \A u \in Thread : u # t => pc'[u] = pc[u]
    BY <1>1 DEF Dispatch, Resume, TypeOK, lockVars
  <2>5. ~ Ending(t)'
    BY <2>3 DEF Ending, Checking
  <2>. QED BY <2>1, <2>2, <2>3, <2>4, <2>5, AliveFrame
<1>2. CASE SlowRead(t)
  <2>2. owner[want[t]] \in alive
    BY <1>2 DEF SlowRead
  <2>3. \A u \in Thread : pc'[u] = "send" <=> u = t
    BY <1>2, NullAssumption DEF SlowRead, TypeOK, AliveInv
  <2>4. holder'[t] = owner[want[t]] /\ poolLock' = t /\ pc[t] = "lock" /\ pc'[t] = "send"
        /\ UNCHANGED <<alive, after, depth, dropping>>
    BY <1>2 DEF SlowRead, TypeOK, lockVars
  <2>5. \A u \in Thread : u # t => pc'[u] = pc[u]
    BY <1>2 DEF SlowRead, TypeOK
  <2>6. t \in alive
    BY <2>4 DEF AliveInv, Leaving, Checking
  <2>. QED
    BY <2>2, <2>3, <2>4, <2>5, <2>6 DEF AliveInv, Leaving, Ending, Checking
<1>3. CASE SendTransferReq(t)
  <2>1. \A u \in Thread : pc'[u] # "send"
    BY <1>3 DEF SendTransferReq, AliveInv, TypeOK
  <2>2. poolLock' = NoThread /\ pc[t] = "send" /\ pc'[t] = "wait"
        /\ UNCHANGED <<alive, after, depth, dropping>>
    BY <1>3 DEF SendTransferReq, TypeOK, lockVars
  <2>3. \A u \in Thread : u # t => pc'[u] = pc[u]
    BY <1>3 DEF SendTransferReq, TypeOK
  <2>4. t \in alive
    BY <2>2 DEF AliveInv, Leaving, Checking
  <2>. QED
    BY <2>1, <2>2, <2>3, <2>4, NullAssumption DEF AliveInv, Leaving, Ending, Checking
<1>4. CASE \/ SlowAcquire(t) \/ HolderGone(t) \/ Restored(t)
           \/ \E r \in Ref : \/ AccessOwned(t, r) \/ AccessFree(t, r) \/ AccessHeld(t, r)
                             \/ RestoreFree(t, r) \/ RestoreHeld(t, r)
  <2>1. /\ pc[t] \in {"run", "lock", "restore"}
        /\ UNCHANGED <<poolLock, alive, after, depth, dropping, holder>>
        /\ pc' \in {pc, [pc EXCEPT ![t] = Running(t)], [pc EXCEPT ![t] = "run"],
                    [pc EXCEPT ![t] = "lock"], [pc EXCEPT ![t] = "finish"]}
    BY <1>4 DEF SlowAcquire, HolderGone, Restored, AccessOwned, AccessFree, AccessHeld,
                RestoreFree, RestoreHeld, lockVars
  <2>2. /\ pc'[t] \in {"run", "lock", "restore", "finish"}
        /\ \A u \in Thread : u # t => pc'[u] = pc[u]
    BY <2>1 DEF Running, TypeOK
  <2>3. t \in alive /\ ~ Ending(t)'
    BY <2>1, <2>2 DEF AliveInv, Leaving, Ending, Checking
  <2>. QED BY <2>1, <2>2, <2>3, AliveFrame
<1>. QED BY <1>1, <1>2, <1>3, <1>4 DEF LockReference

\* checkTransferReq() keeps it: a thread that has left threadIds is in it for the last
\* time.
LEMMA CheckTransferReqAlive ==
  ASSUME IndInv, AliveInv, NEW t \in Thread, CheckTransferReq(t)
  PROVE  AliveInv'
<1>. TypeOK
  BY DEF IndInv, TypeInv
<1>1. ASSUME NEW r \in Ref, Unlock(t, r) PROVE AliveInv'
  <2>1. /\ pc[t] = "drop" /\ dropping[t] # {}
        /\ UNCHANGED <<poolLock, alive, after, depth, holder, pc>>
        /\ \A u \in Thread : u # t => dropping'[u] = dropping[u]
    BY <1>1 DEF Unlock, TypeOK
  <2>2. t \in alive
    BY <2>1 DEF AliveInv
  <2>. QED BY <2>1, <2>2, AliveFrame DEF AliveInv, Ending, Checking
<1>2. ASSUME NEW q \in Request, Grant(t, q) PROVE AliveInv'
  <2>1. PICK w \in Thread : w = q.requester
    BY DEF Request
  <2>2. pc[w] = "wait"
    BY <1>2, <2>1 DEF Grant, Posted, IndInv, RequestInv, OneRequestPerWait
  <2>3. /\ UNCHANGED <<poolLock, alive, after, depth, dropping, holder>>
        /\ pc'[w] = "ready" /\ \A u \in Thread : u # w => pc'[u] = pc[u]
    BY <1>2, <2>1 DEF Grant, TypeOK
  <2>4. w \in alive /\ ~ Ending(w)'
    BY <2>2, <2>3 DEF AliveInv, Leaving, Ending, Checking
  <2>. QED BY <2>2, <2>3, <2>4, AliveFrame
<1>3. CASE TakeRequests(t) \/ LookUpNewHolder(t) \/ ForwardRequest(t)
           \/ \E q \in Request : ReadNewHolder(t, q)
  <2>1. /\ pc[t] \in {"drop", "serve", "forward", "push"}
        /\ UNCHANGED <<poolLock, alive, after, depth, dropping>>
    BY <1>3 DEF TakeRequests, LookUpNewHolder, ForwardRequest, ReadNewHolder, lockVars
  <2>2. pc'[t] \in {"serve", "forward", "push", "crash"}
    BY <1>3 DEF TakeRequests, LookUpNewHolder, ForwardRequest, ReadNewHolder, TypeOK
  <2>3. \A u \in Thread : u # t => pc'[u] = pc[u]
    BY <1>3 DEF TakeRequests, LookUpNewHolder, ForwardRequest, ReadNewHolder, TypeOK
  <2>4. \A u \in Thread : u # t => holder'[u] = holder[u]
    BY <1>3 DEF TakeRequests, LookUpNewHolder, ForwardRequest, ReadNewHolder, TypeOK
  <2>5. Ending(t)' => depth'[t] = 0
    BY <2>1, <2>2 DEF AliveInv, Ending, Checking
  <2>6. t \notin alive => Leaving(t)' /\ dropping'[t] = {}
    BY <2>1, <2>2 DEF AliveInv, Leaving, Checking
  <2>. QED BY <2>1, <2>2, <2>3, <2>4, <2>5, <2>6, AliveFrame
<1>4. CASE EndOfRequests(t)
  <2>1. /\ pc[t] = "serve"
        /\ UNCHANGED <<poolLock, alive, depth, dropping, holder>>
        /\ \A u \in Thread : u # t => pc'[u] = pc[u] /\ after'[u] = after[u]
        /\ pc'[t] = IF after[t] = "run" THEN Running(t) ELSE after[t]
    BY <1>4 DEF EndOfRequests, TypeOK, lockVars
  <2>2. /\ after[t] \in Continuation
        /\ after[t] = "run" => pc'[t] \in {"run", "restore"}
        /\ after[t] # "run" => pc'[t] = after[t]
    BY <2>1 DEF TypeOK, Running
  <2>3. Ending(t)' => depth'[t] = 0
    BY <2>1, <2>2 DEF AliveInv, Ending, Checking, Continuation
  <2>4. t \notin alive => Leaving(t)' /\ dropping'[t] = {}
    BY <2>1, <2>2 DEF AliveInv, Leaving, Checking
  <2>. QED BY <2>1, <2>2, <2>3, <2>4, AliveFrame DEF Continuation
<1>. QED BY <1>1, <1>2, <1>3, <1>4 DEF CheckTransferReq

\* The script keeps it: finish() leaves threadIds after its last frame, and not while
\* somebody has looked a thread up there.
LEMMA RunScriptAlive ==
  ASSUME IndInv, AliveInv, NEW t \in Thread, RunScript(t)
  PROVE  AliveInv'
<1>. TypeOK
  BY DEF IndInv, TypeInv
<1>1. CASE Remove(t)
  <2>1. /\ pc[t] = "remove" /\ pc'[t] = "drop" /\ after'[t] = "exit"
        /\ poolLock = NoThread /\ alive' = alive \ {t}
        /\ UNCHANGED <<depth, dropping, holder, poolLock>>
        /\ \A u \in Thread : u # t => pc'[u] = pc[u] /\ after'[u] = after[u]
    BY <1>1 DEF Remove, TypeOK, lockVars
  <2>2. depth[t] = 0 /\ dropping[t] = {}
    BY <2>1 DEF AliveInv, Ending, IndInv, LockInv, DroppingInv
  <2>3. \A u \in Thread : pc[u] # "send" /\ pc'[u] # "send"
    BY <2>1, NullAssumption DEF AliveInv
  <2>. QED BY <2>1, <2>2, <2>3, NullAssumption DEF AliveInv, Leaving, Ending, Checking
<1>2. CASE Exit(t)
  <2>1. /\ pc[t] = "exit" /\ pc'[t] = "gone"
        /\ UNCHANGED <<poolLock, alive, after, depth, dropping, holder>>
        /\ \A u \in Thread : u # t => pc'[u] = pc[u]
    BY <1>2 DEF Exit, TypeOK, lockVars
  <2>2. depth[t] = 0
    BY <2>1 DEF AliveInv, Ending
  <2>3. t \notin alive => Leaving(t)' /\ dropping'[t] = {}
    BY <2>1 DEF AliveInv, Leaving
  <2>. QED BY <2>1, <2>2, <2>3, AliveFrame
<1>3. CASE PopForFinish(t)
  <2>1. /\ pc[t] \in {"run", "finish"} /\ pc'[t] = "drop"
        /\ UNCHANGED <<poolLock, alive, holder>>
        /\ after'[t] = (IF depth[t] = 1 THEN "remove" ELSE "finish")
        /\ depth'[t] = depth[t] - 1
    BY <1>3 DEF PopForFinish, PopFrame, TypeOK
  <2>2. \A u \in Thread : u # t =>
          /\ pc'[u] = pc[u] /\ after'[u] = after[u] /\ depth'[u] = depth[u]
          /\ dropping'[u] = dropping[u]
    BY <1>3 DEF PopForFinish, PopFrame, TypeOK
  <2>3. t \in alive
    BY <2>1 DEF AliveInv, Leaving, Checking
  <2>4. Ending(t)' => depth'[t] = 0
    BY <2>1 DEF Ending, TypeOK
  <2>. QED BY <2>1, <2>2, <2>3, <2>4, AliveFrame
<1>4. CASE PopBlockForFinish(t)
  <2>1. /\ pc[t] \in {"run", "finish"} /\ pc'[t] = "drop" /\ after'[t] = "finish"
        /\ UNCHANGED <<poolLock, alive, holder, depth>>
        /\ \A u \in Thread : u # t =>
             pc'[u] = pc[u] /\ after'[u] = after[u] /\ dropping'[u] = dropping[u]
    BY <1>4 DEF PopBlockForFinish, TypeOK
  <2>2. t \in alive /\ ~ Ending(t)'
    BY <2>1 DEF AliveInv, Leaving, Ending, Checking
  <2>. QED BY <2>1, <2>2, AliveFrame
<1>5. CASE Return(t)
  <2>1. /\ pc[t] = "run" /\ pc'[t] = "drop" /\ depth'[t] = depth[t] - 1
        /\ after'[t] \in IF depth[t] = 1 THEN {"remove"} ELSE {"ready", "run"}
        /\ UNCHANGED <<poolLock, alive, holder>>
        /\ \A u \in Thread : u # t =>
             /\ pc'[u] = pc[u] /\ after'[u] = after[u] /\ depth'[u] = depth[u]
             /\ dropping'[u] = dropping[u]
    BY <1>5 DEF Return, PopFrame, TypeOK
  <2>2. t \in alive
    BY <2>1 DEF AliveInv, Leaving, Checking
  <2>3. Ending(t)' => depth'[t] = 0
    BY <2>1 DEF Ending, Checking, TypeOK
  <2>. QED BY <2>1, <2>2, <2>3, AliveFrame
<1>6. CASE Constructed(t)
  <2>1. /\ pc[t] = "drop" /\ after[t] = "queue" /\ pc'[t] = "ready"
        /\ UNCHANGED <<poolLock, alive, holder, depth, dropping>>
        /\ \A u \in Thread : u # t => pc'[u] = pc[u] /\ after'[u] = after[u]
    BY <1>6 DEF Constructed, TypeOK, lockVars
  <2>2. t \in alive /\ ~ Ending(t)'
    BY <2>1 DEF AliveInv, Leaving, Ending, Checking
  <2>. QED BY <2>1, <2>2, AliveFrame
<1>7. CASE \/ NextStatement(t) \/ Call(t) \/ Construct(t) \/ CallOfNothing(t)
           \/ NativeWait(t)
           \/ \E r \in Ref : Declare(t, r) \/ ReleaseTransient(t, r)
           \/ \E rs \in SUBSET Captured : PopBlock(t, rs)
  <2>1. /\ pc[t] = "run"
        /\ pc' \in {pc, [pc EXCEPT ![t] = "drop"], [pc EXCEPT ![t] = "ready"]}
        /\ UNCHANGED <<poolLock, alive, holder>>
    BY <1>7 DEF NextStatement, Call, Construct, CallOfNothing, NativeWait, Declare,
                ReleaseTransient, PopBlock
  <2>2. pc'[t] \in {"run", "ready", "drop"} /\ \A u \in Thread : u # t => pc'[u] = pc[u]
    BY <2>1 DEF TypeOK
  <2>3. after'[t] \in {"run", "ready", "paused", "queue"} \/ pc'[t] \in {"run", "ready"}
    BY <1>7 DEF NextStatement, Call, Construct, CallOfNothing, NativeWait, Declare,
                ReleaseTransient, PopBlock, TypeOK
  <2>4. \A u \in Thread : u # t =>
          after'[u] = after[u] /\ depth'[u] = depth[u] /\ dropping'[u] = dropping[u]
    BY <1>7 DEF NextStatement, Call, Construct, CallOfNothing, NativeWait, Declare,
                ReleaseTransient, PopBlock, PrepareToMethodCall, lockVars, TypeOK
  <2>5. t \in alive
    BY <2>1 DEF AliveInv, Leaving, Checking
  <2>6. ~ Ending(t)'
    BY <2>2, <2>3 DEF Ending, Checking
  <2>. QED BY <2>1, <2>2, <2>4, <2>5, <2>6, AliveFrame
<1>. QED BY <1>1, <1>2, <1>3, <1>4, <1>5, <1>6, <1>7 DEF RunScript

\* The thread lockReference() sends a request to is in threadIds, whose lock keeps it
\* there; and a thread is in threadIds while it owns a reference it has not lost.
THEOREM HoldersAlive == Spec => []HolderIsAlive
<1>1. Init => AliveInv
  BY NullAssumption DEF Init, AliveInv, Ending, Checking
<1>2. (robbed \/ IndInv) /\ (robbed \/ AliveInv) /\ [Next]_vars => (robbed \/ AliveInv)'
  <2>1. AliveInv /\ UNCHANGED vars => AliveInv'
    BY DEF AliveInv, Ending, Leaving, vars, lockVars
  <2>2. IndInv /\ AliveInv /\ Next => AliveInv'
    BY LockReferenceAlive, CheckTransferReqAlive, RunScriptAlive DEF Next
  <2>. QED BY <2>1, <2>2, RobbedStays
<1>3. (robbed \/ IndInv) /\ (robbed \/ AliveInv) => HolderIsAlive
  <2>1. SUFFICES ASSUME IndInv, AliveInv PROVE HolderIsAlive
    BY DEF HolderIsAlive
  <2>2. \A t \in Thread : pc[t] = "send" => holder[t] \in alive
    BY <2>1 DEF AliveInv
  <2>3. \A r \in Ref \ lost : owner[r] \in alive \cup {NoThread}
    BY <2>1, OwnersAlive DEF IndInv, TypeInv, TypeOK
  <2>. QED BY <2>2, <2>3 DEF HolderIsAlive
<1>. QED BY <1>1, <1>2, <1>3, Invariance, PTL DEF Spec
=============================================================================
