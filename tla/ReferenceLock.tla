--------------------------- MODULE ReferenceLock ---------------------------
(***************************************************************************)
(* Reference-based mutual exclusion of the chatra interpreter: how the     *)
(* script threads of one runtime take, keep, give up and hand over the     *)
(* locks of references (chatra_core/Thread.cpp, the Lock class of          *)
(* Miscellaneous.cpp and the Lockable class of MemoryManagement.h).        *)
(*                                                                         *)
(* A Ref is a lock group (ReferenceGroup): a variable, or all the          *)
(* variables of one "sync" block.  Every frame of a thread has a Lock,     *)
(* three sets of references by LockType.  A thread that finds a reference  *)
(* held posts a TransferRequest to the holder and stops; the holder serves *)
(* the requests it has got in checkTransferReq(), at call and return       *)
(* boundaries.  The order of a request queue is abstracted to a set.       *)
(***************************************************************************)
EXTENDS Naturals, FiniteSets

CONSTANTS
  Thread,     \* script threads, all of them registered in threadIds at first
  Ref,        \* lock groups
  Kind,       \* the LockType the interpreter takes each of them with
  Transient,  \* those released by a statement of the interpreter itself:
              \* StringId::Parser (Soft), StringId::PackageInitializer (Hard)
  Captured,   \* variables declared in a block (of an if, a loop, a do, ...) that
              \* closures capture: they outlive the block
  MaxFrame,   \* bound on the call depth of a thread
  NoThread,   \* InvalidRequester
  NoRef

LockType == {"Hard", "Soft", "Temporary"}
Frame    == 1..MaxFrame

ASSUME KindAssumption  == Kind \in [Ref -> LockType]
ASSUME TransientAssumption == Transient \subseteq Ref
ASSUME CapturedAssumption ==
  Captured \subseteq Ref /\ \A r \in Captured : Kind[r] = "Temporary"
ASSUME FrameAssumption == MaxFrame \in Nat \ {0}
ASSUME NullAssumption  == NoThread \notin Thread /\ NoRef \notin Ref

VARIABLES
  owner,       \* Lockable::lockRequester of every reference
  hard,        \* Lock::refs[LockType::Hard] of every frame of every thread
  soft,        \* Lock::refs[LockType::Soft]
  temp,        \* Lock::refs[LockType::Temporary]
  calling,     \* the frames whose Lock::methodCall is set
  depth,       \* number of frames above the residential ones
  pc,          \* where the thread is, see State
  after,       \* what the thread does once checkTransferReq() returns
  dropping,    \* references an unlock loop of Lock has yet to unlock
  want,        \* the reference lockReference() is working on
  holder,      \* the local "holder" of lockReference() and checkTransferReq()
  poolLock,    \* who holds the spin lock of runtime.threadIds
  alive,       \* threads registered in runtime.threadIds
  transferReq, \* Thread::transferReq
  serving,     \* Thread::transferReqCopy, what is left of it
  forwarding,  \* the requests taken from it and on their way to a new holder
  queue,       \* number of entries of each thread in RuntimeImp::queue
  undeclared,  \* captured variables whose block has not declared them yet
  blockVars,   \* those declared in the blocks that share the Lock of a frame
  stale,       \* what the Lock of an aborted frame still lists after its release
  lost,        \* history: references a thread has dropped from its Lock and left
               \* locked
  robbed       \* history: some reference has been unlocked under a thread that had
               \* taken it since

lockSets    == <<hard, soft, temp>>
blockState  == <<undeclared, blockVars, stale, lost, robbed>>
lockVars    == <<owner, lockSets, calling, depth, dropping, blockState>>
requestVars == <<transferReq, serving, forwarding>>

vars == <<lockVars, pc, after, want, holder, poolLock, alive, requestVars, queue>>

State == {"ready",    \* in the run queue
          "run",      \* a worker evaluates the script
          "restore",  \* a worker is in restoreTemporaryLock()
          "lock",     \* lockReference() about to lock threadIds
          "send",     \* ... holds it and has read who holds the reference
          "wait",     \* stopped until the reference is handed over
          "drop",     \* unlocking references, then checkTransferReq()
          "serve",    \* in the loop of checkTransferReq()
          "forward",  \* ... has read the new holder of the reference
          "push",     \* ... has looked its Thread object up
          "crash",    \* threadIds.ref() threw, or a destroyed Thread was used
          "paused",   \* a native method waits for an event
          "finish",   \* in the loop of finish()
          "remove",   \* finish() about to leave threadIds
          "exit",     \* finish() at its last assertion
          "gone"}     \* the Thread object has been destroyed

\* What may follow checkTransferReq().
Continuation == {"ready", "run", "paused", "finish", "remove", "exit",
                 "queue"}  \* none: the caller enqueues without it

Request   == [requester : Thread, ref : Ref]
LockTable == [Thread -> [Frame -> SUBSET Ref]]

------------------------------------------------------------------------------
(* The Lock of a frame.                                                    *)

\* References the Lock of frame d of t keeps locked: between
\* prepareToMethodCall() and temporaryLockRestored() the temporary ones are
\* only remembered.
Held(t, d) ==
  hard[t][d] \cup soft[t][d] \cup (IF d \in calling[t] THEN {} ELSE temp[t][d])

\* The set of one LockType in the Lock of frame d of t becomes rs.
Put(refs, t, d, rs) == [refs EXCEPT ![t][d] = rs]

\* Lock::add on the topmost frame, to the set of one LockType
Added(refs, k, t, r) ==
  IF Kind[r] = k THEN Put(refs, t, depth[t], refs[t][depth[t]] \cup {r}) ELSE refs

AddToTop(t, r) ==
  /\ hard' = Added(hard, "Hard", t, r)
  /\ soft' = Added(soft, "Soft", t, r)
  /\ temp' = Added(temp, "Temporary", t, r)

\* Where run() goes on: restoreTemporaryLockNode is on top of the stack of a
\* frame that has come back from a call.
Running(t) == IF depth[t] \in calling[t] THEN "restore" ELSE "run"

Enqueue(t) == queue' = [queue EXCEPT ![t] = @ + 1]

------------------------------------------------------------------------------
Init ==
  /\ owner = [r \in Ref |-> NoThread]
  /\ hard = [t \in Thread |-> [d \in Frame |-> {}]]
  /\ soft = hard /\ temp = hard
  /\ calling = [t \in Thread |-> {}]
  /\ depth = [t \in Thread |-> 1]
  /\ pc = [t \in Thread |-> "ready"]
  /\ after = [t \in Thread |-> "run"]
  /\ dropping = [t \in Thread |-> {}]
  /\ want = [t \in Thread |-> NoRef]
  /\ holder = [t \in Thread |-> NoThread]
  /\ poolLock = NoThread
  /\ alive = Thread
  /\ transferReq = [t \in Thread |-> {}]
  /\ serving = [t \in Thread |-> {}]
  /\ forwarding = [t \in Thread |-> {}]
  /\ queue = [t \in Thread |-> 1]
  /\ undeclared = Captured
  /\ blockVars = hard
  /\ stale = dropping
  /\ lost = {}
  /\ robbed = FALSE

------------------------------------------------------------------------------
(* The run queue.                                                          *)

\* A worker takes t from the queue and calls run().
Dispatch(t) ==
  /\ queue[t] > 0
  /\ queue' = [queue EXCEPT ![t] = @ - 1]
  /\ pc' = [pc EXCEPT ![t] = Running(t)]
  /\ UNCHANGED <<lockVars, requestVars, after, want, holder, poolLock, alive>>

\* The event a native method of t waits for: RuntimeImp::resume().
Resume(t) ==
  /\ pc[t] = "paused"
  /\ Enqueue(t)
  /\ pc' = [pc EXCEPT ![t] = "ready"]
  /\ UNCHANGED <<lockVars, requestVars, after, want, holder, poolLock, alive>>

------------------------------------------------------------------------------
(* lockReference().                                                        *)

\* allocateReference(): a variable of a block is new, and locked as it is declared.
Declare(t, r) ==
  LET d == depth[t] IN
  /\ pc[t] = "run"
  /\ r \in undeclared
  /\ owner[r] = NoThread
  /\ owner' = [owner EXCEPT ![r] = t]
  /\ soft' = Put(soft, t, d, soft[t][d] \cup {r})
  /\ undeclared' = undeclared \ {r}
  /\ blockVars' = Put(blockVars, t, d, blockVars[t][d] \cup {r})
  /\ UNCHANGED <<hard, temp, calling, depth, dropping, stale, lost, robbed, pc, after,
                 want, holder, poolLock, alive, requestVars, queue>>

\* An operand that t has locked already.  One it has lost, too, counts as locked,
\* and as there is nothing to move, no state changes.
AccessOwned(t, r) ==
  /\ pc[t] = "run"
  /\ owner[r] = t
  /\ Kind[r] = "Temporary"
  /\ r \in soft[t][depth[t]]
  /\ soft' = Put(soft, t, depth[t], soft[t][depth[t]] \ {r})
  /\ temp' = Put(temp, t, depth[t], temp[t][depth[t]] \cup {r})
  /\ UNCHANGED <<blockState, owner, hard, calling, depth, pc, after, dropping, want,
                 holder, poolLock, alive, requestVars, queue>>

\* One that nobody has locked: lockOnce() succeeds.
AccessFree(t, r) ==
  /\ pc[t] = "run"
  /\ r \notin undeclared
  /\ owner[r] = NoThread
  /\ owner' = [owner EXCEPT ![r] = t]
  /\ AddToTop(t, r)
  /\ UNCHANGED <<blockState, calling, depth, pc, after, dropping, want, holder,
                 poolLock, alive, requestVars, queue>>

\* lockOnce() fails; it may do so spuriously (compare_exchange_weak).
AccessHeld(t, r) ==
  /\ pc[t] = "run"
  /\ r \notin undeclared
  /\ owner[r] # t
  /\ want' = [want EXCEPT ![t] = r]
  /\ pc' = [pc EXCEPT ![t] = "lock"]
  /\ UNCHANGED <<lockVars, after, holder, poolLock, alive, requestVars, queue>>

\* Under the lock of threadIds, lockReference() reads the owner again and
\* either takes the reference ...
SlowAcquire(t) ==
  /\ pc[t] = "lock"
  /\ poolLock = NoThread
  /\ owner[want[t]] = NoThread
  /\ owner' = [owner EXCEPT ![want[t]] = t]
  /\ AddToTop(t, want[t])
  /\ want' = [want EXCEPT ![t] = NoRef]
  /\ pc' = [pc EXCEPT ![t] = Running(t)]
  /\ UNCHANGED <<blockState, calling, depth, after, dropping, holder, poolLock,
                 alive, requestVars, queue>>

\* Mutant of SlowRead: the lock of threadIds is released before the holder's
\* Thread object is looked up.
SlowReadUnlocked(t) ==
  /\ pc[t] = "lock"
  /\ poolLock = NoThread
  /\ owner[want[t]] \in alive
  /\ holder' = [holder EXCEPT ![t] = owner[want[t]]]
  /\ pc' = [pc EXCEPT ![t] = "send"]
  /\ UNCHANGED <<lockVars, after, want, poolLock, alive, requestVars, queue>>

\* ... or remembers who holds it.
SlowRead(t) ==
  /\ pc[t] = "lock"
  /\ poolLock = NoThread
  /\ owner[want[t]] \in alive
  /\ poolLock' = t
  /\ holder' = [holder EXCEPT ![t] = owner[want[t]]]
  /\ pc' = [pc EXCEPT ![t] = "send"]
  /\ UNCHANGED <<lockVars, after, want, alive, requestVars, queue>>

\* ... unless he has finished and left it locked: threadIds.ref() throws, and the
\* thread is aborted with an internal error.
HolderGone(t) ==
  /\ pc[t] = "lock"
  /\ poolLock = NoThread
  /\ owner[want[t]] \notin alive \cup {NoThread}
  /\ want' = [want EXCEPT ![t] = NoRef]
  /\ pc' = [pc EXCEPT ![t] = "finish"]
  /\ UNCHANGED <<lockVars, after, holder, poolLock, alive, requestVars, queue>>

\* sendTransferReq() to the holder just read, which may have unlocked the
\* reference by now; t leaves run() and is in no queue of the runtime.
SendTransferReq(t) ==
  /\ pc[t] = "send"
  /\ transferReq' = [transferReq EXCEPT ![holder[t]] =
                       @ \cup {[requester |-> t, ref |-> want[t]]}]
  /\ holder' = [holder EXCEPT ![t] = NoThread]
  /\ poolLock' = NoThread
  /\ pc' = [pc EXCEPT ![t] = "wait"]
  /\ UNCHANGED <<lockVars, after, want, alive, serving, forwarding, queue>>

------------------------------------------------------------------------------
(* What a running thread does with the references it has.                  *)

\* The next statement: Lock::moveTemporaryToSoftLock().
NextStatement(t) ==
  LET d == depth[t] IN
  /\ pc[t] = "run"
  /\ temp[t][d] # {}
  /\ soft' = Put(soft, t, d, soft[t][d] \cup temp[t][d])
  /\ temp' = Put(temp, t, d, {})
  /\ UNCHANGED <<blockState, owner, hard, calling, depth, pc, after, dropping, want,
                 holder, poolLock, alive, requestVars, queue>>

\* Mutants of PrepareToMethodCall: it forgets the flag methodCall, leaves the
\* Soft references locked during the call, or unlocks the Hard ones too.
PrepareWithoutFlag(t) ==
  LET d == depth[t] IN
  /\ dropping' = [dropping EXCEPT ![t] = soft[t][d] \cup temp[t][d]]
  /\ soft' = Put(soft, t, d, {})
  /\ UNCHANGED <<hard, temp, calling>>

PrepareKeepingSoft(t) ==
  LET d == depth[t] IN
  /\ calling' = [calling EXCEPT ![t] = @ \cup {d}]
  /\ dropping' = [dropping EXCEPT ![t] = temp[t][d]]
  /\ UNCHANGED <<hard, soft, temp>>

PrepareReleasingHard(t) ==
  LET d == depth[t] IN
  /\ calling' = [calling EXCEPT ![t] = @ \cup {d}]
  /\ dropping' = [dropping EXCEPT ![t] = Held(t, d)]
  /\ hard' = Put(hard, t, d, {})
  /\ soft' = Put(soft, t, d, {})
  /\ UNCHANGED temp

\* Lock::prepareToMethodCall() of the topmost frame, up to its unlock loop.
PrepareToMethodCall(t) ==
  LET d == depth[t] IN
  /\ calling' = [calling EXCEPT ![t] = @ \cup {d}]
  /\ dropping' = [dropping EXCEPT ![t] = soft[t][d] \cup temp[t][d]]
  /\ soft' = Put(soft, t, d, {})
  /\ UNCHANGED <<hard, temp>>

\* methodCall(), operatorMethodCall(), methodCallViaFunctionObject(),
\* initializeVars() and the import branch of initializePackage() (which has no
\* Soft or Temporary reference yet): a frame for the callee, then the caller
\* gives its references up.
Call(t) ==
  /\ pc[t] = "run"
  /\ depth[t] < MaxFrame
  /\ PrepareToMethodCall(t)
  /\ depth' = [depth EXCEPT ![t] = @ + 1]
  /\ pc' = [pc EXCEPT ![t] = "drop"]
  /\ after' = [after EXCEPT ![t] = "ready"]
  /\ UNCHANGED <<blockState, owner, want, holder, poolLock, alive, requestVars,
                 queue>>

\* The constructor branch of methodCall() gives the references up as well, but
\* enqueues the thread without looking for requests ...
Construct(t) ==
  /\ pc[t] = "run"
  /\ depth[t] < MaxFrame
  /\ PrepareToMethodCall(t)
  /\ depth' = [depth EXCEPT ![t] = @ + 1]
  /\ pc' = [pc EXCEPT ![t] = "drop"]
  /\ after' = [after EXCEPT ![t] = "queue"]
  /\ UNCHANGED <<blockState, owner, want, holder, poolLock, alive, requestVars,
                 queue>>

\* ... when the unlock loop is over.
Constructed(t) ==
  /\ pc[t] = "drop"
  /\ after[t] = "queue"
  /\ dropping[t] = {}
  /\ pc' = [pc EXCEPT ![t] = "ready"]
  /\ after' = [after EXCEPT ![t] = "run"]
  /\ Enqueue(t)
  /\ UNCHANGED <<lockVars, want, holder, poolLock, alive, requestVars>>

\* A call that is over at once (of the constructor of a Bool, an Int or a Float,
\* or a second time of that of a parent class) enqueues and gives nothing up.
CallOfNothing(t) ==
  /\ pc[t] = "run"
  /\ pc' = [pc EXCEPT ![t] = "ready"]
  /\ Enqueue(t)
  /\ UNCHANGED <<lockVars, after, want, holder, poolLock, alive, requestVars>>

\* invokeNativeMethod() of a method that has requested a pause.
NativeWait(t) ==
  /\ pc[t] = "run"
  /\ PrepareToMethodCall(t)
  /\ pc' = [pc EXCEPT ![t] = "drop"]
  /\ after' = [after EXCEPT ![t] = "paused"]
  /\ UNCHANGED <<blockState, owner, depth, want, holder, poolLock, alive,
                 requestVars, queue>>

\* Mutant of ReleaseTransient: unlocks without taking the reference out of the
\* Lock.
ReleaseWithoutErase(t, r) ==
  /\ pc[t] = "run"
  /\ r \in Transient
  /\ r \in hard[t][depth[t]] \cup soft[t][depth[t]]
  /\ dropping' = [dropping EXCEPT ![t] = {r}]
  /\ pc' = [pc EXCEPT ![t] = "drop"]
  /\ after' = [after EXCEPT ![t] = "run"]
  /\ UNCHANGED <<blockState, owner, lockSets, calling, depth, want, holder,
                 poolLock, alive, requestVars, queue>>

\* parse() and initializePackage() release the one reference they locked, if
\* they have locked it: a package may be initialized already.
ReleaseTransient(t, r) ==
  LET d == depth[t] IN
  /\ pc[t] = "run"
  /\ r \in Transient
  /\ hard' = Put(hard, t, d, hard[t][d] \ {r})
  /\ soft' = Put(soft, t, d, soft[t][d] \ {r})
  /\ dropping' = [dropping EXCEPT ![t] = {r} \cap (hard[t][d] \cup soft[t][d])]
  /\ pc' = [pc EXCEPT ![t] = "drop"]
  /\ after' = [after EXCEPT ![t] = "run"]
  /\ UNCHANGED <<blockState, owner, temp, calling, depth, want, holder, poolLock,
                 alive, requestVars, queue>>

\* releaseAll() of a Lock in a call clears the temporary references first, those
\* restored so far included.
Forgotten(t) ==
  LET d == depth[t] IN
  IF d \in calling[t] THEN {r \in temp[t][d] : owner[r] = t} ELSE {}

\* pop() of blocks, whose frames share the Lock of their method: the Lock forgets
\* the variables of the blocks and does not unlock them (Lock::releaseIfExists()),
\* although those captured go on.  Which block each is of is left out.
PopBlock(t, rs) ==
  LET d == depth[t] IN
  /\ pc[t] = "run"
  /\ rs # {} /\ rs \subseteq blockVars[t][d]
  /\ soft' = Put(soft, t, d, soft[t][d] \ rs)
  /\ temp' = Put(temp, t, d, temp[t][d] \ rs)
  /\ blockVars' = Put(blockVars, t, d, blockVars[t][d] \ rs)
  /\ lost' = lost \cup (rs \cap Held(t, d))
  /\ UNCHANGED <<owner, hard, calling, depth, dropping, undeclared, stale, robbed, pc,
                 after, want, holder, poolLock, alive, requestVars, queue>>

\* The topmost frame goes with its Lock; rs is what the Lock unlocks before.
PopFrame(t, rs) ==
  LET d == depth[t] IN
  /\ dropping' = [dropping EXCEPT ![t] = rs]
  /\ hard' = Put(hard, t, d, {})
  /\ soft' = Put(soft, t, d, {})
  /\ temp' = Put(temp, t, d, {})
  /\ calling' = [calling EXCEPT ![t] = @ \ {d}]
  /\ depth' = [depth EXCEPT ![t] = d - 1]
  /\ blockVars' = Put(blockVars, t, d, {})
  /\ UNCHANGED undeclared

\* pop() of the frame of a method and of the blocks left in it, on a return
\* statement, which enqueues the thread, or at the end of the method and when an
\* exception leaves it, which go on at once; finish() follows that of the script.
Return(t) ==
  LET d == depth[t]
      next == IF d = 1 THEN {"remove"} ELSE {"ready", "run"} IN
  /\ pc[t] = "run"
  /\ d > 0
  /\ PopFrame(t, Held(t, d) \ blockVars[t][d])
  /\ lost' = lost \cup (Held(t, d) \cap blockVars[t][d])
  /\ pc' = [pc EXCEPT ![t] = "drop"]
  /\ \E a \in next : after' = [after EXCEPT ![t] = a]
  /\ UNCHANGED <<owner, stale, robbed, want, holder, poolLock, alive, requestVars,
                 queue>>

\* An aborted thread (stack overflow, internal error, ...) pops its frames in
\* finish().  popForFinish() of a block calls releaseAll() of the Lock it shares,
\* which unlocks every reference and keeps the list ...
PopBlockForFinish(t) ==
  LET d == depth[t] IN
  /\ pc[t] \in {"run", "finish"}
  /\ d > 0
  /\ Held(t, d) # {}
  /\ dropping' = [dropping EXCEPT ![t] = Held(t, d)]
  /\ stale' = [stale EXCEPT ![t] = Held(t, d)]
  /\ hard' = Put(hard, t, d, {})
  /\ soft' = Put(soft, t, d, {})
  /\ temp' = Put(temp, t, d, {})
  /\ lost' = lost \cup Forgotten(t)
  /\ pc' = [pc EXCEPT ![t] = "drop"]
  /\ after' = [after EXCEPT ![t] = "finish"]
  /\ UNCHANGED <<owner, calling, depth, undeclared, blockVars, robbed, want, holder,
                 poolLock, alive, requestVars, queue>>

\* ... and popForFinish() of the method unlocks the list (again), whoever has got
\* the references since.
PopForFinish(t) ==
  LET d == depth[t] IN
  /\ pc[t] \in {"run", "finish"}
  /\ d > 0
  /\ owner' = [r \in Ref |-> IF r \in stale[t] THEN NoThread ELSE owner[r]]
  /\ robbed' = (robbed \/ \E r \in stale[t] : owner[r] # NoThread)
  /\ stale' = [stale EXCEPT ![t] = {}]
  /\ PopFrame(t, Held(t, d))
  /\ lost' = lost \cup Forgotten(t)
  /\ pc' = [pc EXCEPT ![t] = "drop"]
  /\ after' = [after EXCEPT ![t] = IF d = 1 THEN "remove" ELSE "finish"]
  /\ UNCHANGED <<want, holder, poolLock, alive, requestVars, queue>>

\* Mutant of Remove: finish() does not look for requests once it has left
\* threadIds.
RemoveWithoutCheck(t) ==
  /\ pc[t] = "remove"
  /\ poolLock = NoThread
  /\ alive' = alive \ {t}
  /\ pc' = [pc EXCEPT ![t] = "exit"]
  /\ UNCHANGED <<lockVars, after, want, holder, poolLock, requestVars, queue>>

\* finish() leaves threadIds, and checks for requests a last time.
Remove(t) ==
  /\ pc[t] = "remove"
  /\ poolLock = NoThread
  /\ alive' = alive \ {t}
  /\ pc' = [pc EXCEPT ![t] = "drop"]
  /\ after' = [after EXCEPT ![t] = "exit"]
  /\ UNCHANGED <<lockVars, want, holder, poolLock, requestVars, queue>>

\* finish() returns and destroys the thread.
Exit(t) ==
  /\ pc[t] = "exit"
  /\ pc' = [pc EXCEPT ![t] = "gone"]
  /\ UNCHANGED <<lockVars, after, want, holder, poolLock, alive, requestVars, queue>>

------------------------------------------------------------------------------
(* checkTransferReq().                                                     *)

\* One turn of the unlock loop before it: Lockable::unlock().
Unlock(t, r) ==
  /\ pc[t] = "drop"
  /\ r \in dropping[t]
  /\ owner' = [owner EXCEPT ![r] = NoThread]
  /\ dropping' = [dropping EXCEPT ![t] = @ \ {r}]
  /\ UNCHANGED <<blockState, lockSets, calling, depth, pc, after, want, holder,
                 poolLock, alive, requestVars, queue>>

\* Mutant of TakeRequests: copies transferReq instead of swapping it out.
CopyRequests(t) ==
  /\ pc[t] = "drop"
  /\ after[t] # "queue"
  /\ dropping[t] = {}
  /\ serving' = [serving EXCEPT ![t] = transferReq[t]]
  /\ pc' = [pc EXCEPT ![t] = "serve"]
  /\ UNCHANGED <<lockVars, after, want, holder, poolLock, alive, transferReq,
                 forwarding, queue>>

\* The requests posted so far are swapped out; hasTransferReq is TRUE iff
\* there are any.
TakeRequests(t) ==
  /\ pc[t] = "drop"
  /\ after[t] # "queue"
  /\ dropping[t] = {}
  /\ serving' = [serving EXCEPT ![t] = transferReq[t]]
  /\ transferReq' = [transferReq EXCEPT ![t] = {}]
  /\ pc' = [pc EXCEPT ![t] = "serve"]
  /\ UNCHANGED <<lockVars, after, want, holder, poolLock, alive, forwarding, queue>>

\* Mutant of Grant: does not look whether lockOnce() has succeeded.
GrantUnchecked(t, q) ==
  LET u == q.requester IN
  /\ pc[t] = "serve"
  /\ q \in serving[t]
  /\ poolLock = NoThread
  /\ owner' = [owner EXCEPT ![q.ref] = u]
  /\ AddToTop(u, q.ref)
  /\ want' = [want EXCEPT ![u] = NoRef]
  /\ serving' = [serving EXCEPT ![t] = @ \ {q}]
  /\ pc' = [pc EXCEPT ![u] = "ready"]
  /\ Enqueue(u)
  /\ UNCHANGED <<blockState, calling, depth, after, dropping, holder, poolLock,
                 alive, transferReq, forwarding>>

\* lockOnce() on behalf of the requester succeeds: the reference is its own,
\* and it runs again.  lockAndRef() takes the lock of threadIds.
Grant(t, q) ==
  LET u == q.requester IN
  /\ pc[t] = "serve"
  /\ q \in serving[t]
  /\ owner[q.ref] \in {NoThread, u}
  /\ poolLock = NoThread
  /\ owner' = [owner EXCEPT ![q.ref] = u]
  /\ AddToTop(u, q.ref)
  /\ want' = [want EXCEPT ![u] = NoRef]
  /\ serving' = [serving EXCEPT ![t] = @ \ {q}]
  /\ pc' = [pc EXCEPT ![u] = "ready"]
  /\ Enqueue(u)
  /\ UNCHANGED <<blockState, calling, depth, after, dropping, holder, poolLock,
                 alive, transferReq, forwarding>>

\* Somebody else holds the reference: the request is for him ...
ReadNewHolder(t, q) ==
  /\ pc[t] = "serve"
  /\ q \in serving[t]
  /\ owner[q.ref] \notin {NoThread, q.requester}
  /\ holder' = [holder EXCEPT ![t] = owner[q.ref]]
  /\ serving' = [serving EXCEPT ![t] = @ \ {q}]
  /\ forwarding' = [forwarding EXCEPT ![t] = {q}]
  /\ pc' = [pc EXCEPT ![t] = "forward"]
  /\ UNCHANGED <<lockVars, after, want, poolLock, alive, transferReq, queue>>

\* ... threadIds.ref() throws if he has finished since (this caller does not
\* hold the lock of threadIds) ...
LookUpNewHolder(t) ==
  /\ pc[t] = "forward"
  /\ pc' = [pc EXCEPT ![t] = IF holder[t] \in alive THEN "push" ELSE "crash"]
  /\ UNCHANGED <<lockVars, after, want, holder, poolLock, alive, requestVars, queue>>

\* ... and the request is pushed to his transferReq.  If he has been destroyed
\* the memory is no longer his, and the build may do anything.
ForwardRequest(t) ==
  /\ pc[t] = "push"
  /\ \/ /\ transferReq' = [transferReq EXCEPT ![holder[t]] = @ \cup forwarding[t]]
        /\ forwarding' = [forwarding EXCEPT ![t] = {}]
        /\ holder' = [holder EXCEPT ![t] = NoThread]
        /\ pc' = [pc EXCEPT ![t] = "serve"]
     \/ /\ pc[holder[t]] = "gone"
        /\ pc' = [pc EXCEPT ![t] = "crash"]
        /\ UNCHANGED <<transferReq, forwarding, holder>>
  /\ UNCHANGED <<lockVars, after, want, poolLock, alive, serving, queue>>

\* Mutant of EndOfRequests: every caller of checkTransferReq() enqueues.
EndOfRequestsQueued(t) ==
  /\ pc[t] = "serve"
  /\ serving[t] = {}
  /\ pc' = [pc EXCEPT ![t] = IF after[t] = "run" THEN Running(t) ELSE after[t]]
  /\ after' = [after EXCEPT ![t] = "run"]
  /\ Enqueue(t)
  /\ UNCHANGED <<lockVars, want, holder, poolLock, alive, requestVars>>

\* All requests are served: the caller of checkTransferReq() goes on.
EndOfRequests(t) ==
  /\ pc[t] = "serve"
  /\ serving[t] = {}
  /\ pc' = [pc EXCEPT ![t] = IF after[t] = "run" THEN Running(t) ELSE after[t]]
  /\ after' = [after EXCEPT ![t] = "run"]
  /\ IF after[t] = "ready" THEN Enqueue(t) ELSE UNCHANGED queue
  /\ UNCHANGED <<lockVars, want, holder, poolLock, alive, requestVars>>

------------------------------------------------------------------------------
(* restoreTemporaryLock(), on return to a frame.                           *)

RestoreFree(t, r) ==
  /\ pc[t] = "restore"
  /\ r \in temp[t][depth[t]]
  /\ owner[r] = NoThread
  /\ owner' = [owner EXCEPT ![r] = t]
  /\ UNCHANGED <<blockState, lockSets, calling, depth, pc, after, dropping, want,
                 holder, poolLock, alive, requestVars, queue>>

RestoreHeld(t, r) ==
  /\ pc[t] = "restore"
  /\ r \in temp[t][depth[t]]
  /\ owner[r] # t
  /\ want' = [want EXCEPT ![t] = r]
  /\ pc' = [pc EXCEPT ![t] = "lock"]
  /\ UNCHANGED <<lockVars, after, holder, poolLock, alive, requestVars, queue>>

\* temporaryLockRestored()
Restored(t) ==
  /\ pc[t] = "restore"
  /\ \A r \in temp[t][depth[t]] : owner[r] = t
  /\ calling' = [calling EXCEPT ![t] = @ \ {depth[t]}]
  /\ pc' = [pc EXCEPT ![t] = "run"]
  /\ UNCHANGED <<blockState, owner, lockSets, depth, after, dropping, want, holder,
                 poolLock, alive, requestVars, queue>>

------------------------------------------------------------------------------
LockReference(t) ==
  \/ \E r \in Ref : AccessOwned(t, r) \/ AccessFree(t, r) \/ AccessHeld(t, r)
  \/ SlowAcquire(t) \/ SlowRead(t) \/ HolderGone(t) \/ SendTransferReq(t)
  \/ \E r \in Ref : RestoreFree(t, r) \/ RestoreHeld(t, r)
  \/ Restored(t)

CheckTransferReq(t) ==
  \/ \E r \in Ref : Unlock(t, r)
  \/ TakeRequests(t)
  \/ \E q \in Request : Grant(t, q) \/ ReadNewHolder(t, q)
  \/ LookUpNewHolder(t) \/ ForwardRequest(t) \/ EndOfRequests(t)

RunScript(t) ==
  \/ NextStatement(t) \/ NativeWait(t)
  \/ Call(t) \/ Construct(t) \/ Constructed(t) \/ CallOfNothing(t)
  \/ \E r \in Ref : Declare(t, r) \/ ReleaseTransient(t, r)
  \/ \E rs \in SUBSET Captured : PopBlock(t, rs)
  \/ Return(t) \/ PopBlockForFinish(t) \/ PopForFinish(t) \/ Remove(t) \/ Exit(t)

Next == \E t \in Thread :
  Dispatch(t) \/ Resume(t) \/ LockReference(t) \/ CheckTransferReq(t) \/ RunScript(t)

Spec == Init /\ [][Next]_vars

------------------------------------------------------------------------------
TypeOK ==
  /\ owner \in [Ref -> Thread \cup {NoThread}]
  /\ hard \in LockTable
  /\ soft \in LockTable
  /\ temp \in LockTable
  /\ calling \in [Thread -> SUBSET Frame]
  /\ depth \in [Thread -> 0..MaxFrame]
  /\ pc \in [Thread -> State]
  /\ after \in [Thread -> Continuation]
  /\ dropping \in [Thread -> SUBSET Ref]
  /\ want \in [Thread -> Ref \cup {NoRef}]
  /\ holder \in [Thread -> Thread \cup {NoThread}]
  /\ poolLock \in Thread \cup {NoThread}
  /\ alive \subseteq Thread
  /\ transferReq \in [Thread -> SUBSET Request]
  /\ serving \in [Thread -> SUBSET Request]
  /\ forwarding \in [Thread -> SUBSET Request]
  /\ queue \in [Thread -> Nat]

BlockTypeOK ==
  /\ undeclared \subseteq Captured
  /\ blockVars \in LockTable
  /\ stale \in [Thread -> SUBSET Ref]
  /\ lost \subseteq Ref
  /\ robbed \in BOOLEAN

\* README.md, "Any reference (variables and class members) can be owned by
\* only one thread at the same time": whatever frames two threads are in, no
\* reference is kept locked by a frame of each.  popForFinish() breaks this, and all
\* that rests on it, when it releases a Lock twice and the reference has been taken
\* in between: here and below, robbed says that it has.
MutualExclusion ==
  robbed \/ \A t, u \in Thread : \A c, d \in Frame :
              Held(t, c) \cap Held(u, d) # {} => t = u

\* What Lock::audit() checks before every operation of a Lock, for every
\* thread at once, and its converse: a reference is locked by a thread iff a
\* Lock of the thread accounts for it.  The one way to leave a reference locked
\* behind is to lose it: a captured variable of a block with the block, and
\* what an aborted thread had restored so far.
OwnerMatchesLocks ==
  robbed \/
    /\ \A t \in Thread : \A d \in Frame : \A r \in Held(t, d) : owner[r] = t
    /\ \A t \in Thread : \A r \in dropping[t] : owner[r] = t
    /\ \A t \in Thread : \A r \in Ref :
         owner[r] = t => \/ r \in dropping[t]
                         \/ \E d \in Frame : r \in Held(t, d)
                         \/ depth[t] > 0 /\ r \in temp[t][depth[t]]
                         \/ r \in lost

\* The assertion of lockReference(): a reference the thread has locked already
\* is, unless it was locked Hard, in the Lock of the topmost frame, because
\* every frame below has given its own up.  Lost references alone fail it.
OwnedIsOnTop ==
  robbed \/ \A t \in Thread : \A r \in Ref \ lost :
              pc[t] = "run" /\ owner[r] = t /\ Kind[r] # "Hard"
                => r \in soft[t][depth[t]] \cup temp[t][depth[t]]

\* The same assertion without that exception, as Thread.cpp:408 has it: the closure
\* that captured a variable may be called by the thread that ran the block.
LockHasOwned ==
  \A t \in Thread : \A r \in Ref :
    pc[t] = "run" /\ owner[r] = t /\ Kind[r] # "Hard"
      => r \in soft[t][depth[t]] \cup temp[t][depth[t]]

Posted(t) == transferReq[t] \cup serving[t] \cup forwarding[t]

\* A stopped thread depends on its one request: it is never lost between two
\* holders, never duplicated, and none outlives the wait it was sent for.
OneRequestPerWait ==
  /\ \A t \in Thread : \A q \in Posted(t) :
       pc[q.requester] = "wait" /\ want[q.requester] = q.ref
  /\ \A t \in Thread : pc[t] = "wait" =>
       \E u \in Thread : [requester |-> t, ref |-> want[t]] \in Posted(u)
  /\ \A t, u \in Thread : Posted(t) \cap Posted(u) # {} => t = u
  /\ \A t \in Thread : /\ transferReq[t] \cap serving[t] = {}
                       /\ transferReq[t] \cap forwarding[t] = {}
                       /\ serving[t] \cap forwarding[t] = {}

\* A thread is in the run queue once, and only when no worker runs it and it
\* waits for nothing: two workers never run the same thread (the check left
\* commented out in RuntimeImp::enqueue()).
QueuedOnce ==
  \A t \in Thread : queue[t] = IF pc[t] = "ready" THEN 1 ELSE 0

\* The thread lockReference() sends a request to is registered until the request
\* is posted, even if it gives the reference up and finishes meanwhile; and who
\* has finished owns nothing but references he has lost, so that no other look at
\* an owner under the lock of threadIds can throw.  (checkTransferReq() looks
\* without that lock: state crash.)
HolderIsAlive ==
  robbed \/ /\ \A t \in Thread : pc[t] = "send" => holder[t] \in alive
            /\ \A r \in Ref \ lost : owner[r] \in alive \cup {NoThread}

\* README.md, "ownership to a sync block is never released until its owned
\* function returns": a Hard lock goes when its frame does.  (A thread aborted in
\* a block never returns.)
SyncHeldUntilReturn ==
  [][robbed' \/ \A t \in Thread : \A d \in Frame : \A r \in Ref \ Transient :
       r \in hard[t][d] /\ d <= depth'[t] /\ stale'[t] = {}
         => r \in hard'[t][d] /\ owner'[r] = t]_vars

------------------------------------------------------------------------------
\* The promise of module Ownership: a stopped thread is one that waits.
waitingFor == [t \in Thread |-> IF pc[t] = "wait" THEN want[t] ELSE NoRef]

Promise == INSTANCE Ownership WITH waiting <- waitingFor

\* Whatever the interleaving of lockReference() and checkTransferReq(), the
\* owners of the references and the stopped threads change as Ownership allows.
ImplementsOwnership ==
  Promise!OwnershipInit /\ [][Promise!OwnershipNext \/ robbed']_(Promise!ownershipVars)

------------------------------------------------------------------------------
(* Progress.  Workers take every queued thread in turn and carry on with    *)
(* what they run (first conjuncts); a script goes on calling, returning or  *)
(* ending, and the events it waits for happen (last two).                   *)
Boundary(t) == Call(t) \/ Construct(t) \/ Return(t) \/ PopForFinish(t)

Fairness ==
  \A t \in Thread :
    /\ WF_vars(Dispatch(t))
    /\ WF_vars(SlowAcquire(t) \/ SlowRead(t) \/ HolderGone(t))
    /\ WF_vars(SendTransferReq(t))
    /\ WF_vars(\E r \in Ref : RestoreFree(t, r) \/ RestoreHeld(t, r))
    /\ WF_vars(Restored(t))
    /\ WF_vars(CheckTransferReq(t) \/ Constructed(t))
    /\ WF_vars(Remove(t))
    /\ WF_vars(Exit(t))
    /\ SF_vars(Boundary(t))
    /\ WF_vars(Resume(t))

FairSpec == Spec /\ Fairness

\* What t waits for is lost, or a sync block that its owner may keep for ever, or
\* its request is with a thread that waits itself for such a thing, or in a circle.
Stuck(t) ==
  \E S \in SUBSET Thread :
    /\ t \in S
    /\ \A u \in S :
         /\ pc[u] = "wait"
         /\ \/ want[u] \in lost \/ Kind[want[u]] = "Hard"
            \/ \E v \in S : [requester |-> u, ref |-> want[u]] \in transferReq[v]

\* A thread stopped at a reference is handed it in the end, the late requests
\* included that reach a holder after it has given the reference up, unless it is
\* stuck with others that wait.
EveryWaitEnds ==
  \A t \in Thread : pc[t] = "wait" ~> pc[t] # "wait" \/ Stuck(t) \/ robbed
------------------------------------------------------------------------------
(* Inductive invariants: what the locks and the requests look like between  *)
(* any two steps, so that the properties above hold (ReferenceLock_proofs). *)

Stopping == {"lock", "send", "wait"}
Checking == {"drop", "serve", "forward", "push", "crash"}

\* Locals of lockReference() and checkTransferReq() are set while they are used.
LocalsInv ==
  \A t \in Thread :
    /\ pc[t] \in Stopping => want[t] \in Ref
    /\ pc[t] \in {"send", "forward", "push"} => holder[t] \in Thread
    /\ pc[t] \in {"serve", "forward", "push", "crash"} => after[t] # "queue"

TypeInv == TypeOK /\ LocalsInv

\* Besides, checkTransferReq() leaves no request behind in its locals.
RequestInv ==
  /\ OneRequestPerWait
  /\ QueuedOnce
  /\ \A t \in Thread :
       /\ serving[t] # {} => pc[t] \in {"serve", "forward", "push", "crash"}
       /\ forwarding[t] # {} => pc[t] \in {"forward", "push", "crash"}

\* Only the topmost frame may be outside a call.
FrameInv ==
  \A t \in Thread :
    /\ pc[t] = "run" => depth[t] \notin calling[t]
    /\ depth[t] = 0 => \/ pc[t] \in {"remove", "exit", "gone"}
                       \/ pc[t] \in Checking /\ after[t] \in {"remove", "exit"}
    /\ \A d \in Frame :
         /\ d < depth[t] => d \in calling[t]
         /\ d > depth[t] => /\ d \notin calling[t]
                            /\ hard[t][d] \cup soft[t][d] \cup temp[t][d] = {}

\* The sets of a Lock: by type, disjoint, and no Soft one during a call.
SetsInv ==
  \A t \in Thread : \A d \in Frame :
    /\ \A r \in hard[t][d] : Kind[r] = "Hard"
    /\ \A r \in soft[t][d] : Kind[r] # "Hard"
    /\ \A r \in temp[t][d] : Kind[r] = "Temporary"
    /\ soft[t][d] \cap temp[t][d] = {}
    /\ d \in calling[t] => soft[t][d] = {}
    /\ \A c \in Frame : hard[t][c] \cap hard[t][d] # {} => c = d

\* A reference is unlocked by the Lock that accounts for it, once.
DroppingInv ==
  \A t \in Thread :
    /\ dropping[t] # {} => pc[t] = "drop"
    /\ \A r \in dropping[t] : owner[r] = t
    /\ \A r \in dropping[t] : \A d \in Frame : r \notin Held(t, d)

\* What a stopping thread wants is not its own already, and is one of the
\* references to restore if it stops on return to a frame.
WantInv ==
  \A t \in Thread : pc[t] \in Stopping =>
    /\ owner[want[t]] # t
    /\ depth[t] \in calling[t] => want[t] \in temp[t][depth[t]]

HeldInv ==
  \A t \in Thread : \A d \in Frame : \A r \in Held(t, d) : owner[r] = t

LockInv == FrameInv /\ SetsInv /\ DroppingInv /\ WantInv /\ HeldInv

\* The converse of HeldInv, with the references restored so far.
AccountedInv ==
  \A t \in Thread : \A r \in Ref : owner[r] = t =>
    \/ r \in dropping[t]
    \/ \E d \in Frame : r \in Held(t, d)
    \/ /\ depth[t] > 0 /\ r \in temp[t][depth[t]]
       /\ pc[t] \in Stopping \cup {"ready", "restore", "finish"}
    \/ r \in lost

IndInv == TypeInv /\ BlockTypeOK /\ RequestInv /\ LockInv /\ AccountedInv

\* In finish(), when the last frame has been popped.
Ending(t) ==
  \/ pc[t] \in {"remove", "exit", "gone"}
  \/ pc[t] \in Checking /\ after[t] \in {"remove", "exit"}

\* Every other thread has a frame.
StackInv == \A t \in Thread : depth[t] = 0 => Ending(t)

\* finish() has left threadIds.
Leaving(t) ==
  \/ pc[t] \in {"exit", "gone"}
  \/ pc[t] \in Checking /\ after[t] = "exit"

\* The lock of threadIds is held by who is about to send a request; a thread that has
\* left threadIds has given everything up before, and has no frame.
AliveInv ==
  /\ \A t \in Thread : pc[t] = "send" <=> poolLock = t
  /\ \A t \in Thread : pc[t] = "send" => holder[t] \in alive
  /\ \A t \in Thread : Ending(t) => depth[t] = 0
  /\ \A t \in Thread \ alive : Leaving(t) /\ dropping[t] = {}
=============================================================================
