----------------------------- MODULE WaitContext -----------------------------
(***************************************************************************)
(* wait(e0, e1, ...) of chatra: a script thread stops until one of several *)
(* Async objects has got its result.  WaitContext::deploy() registers and  *)
(* activates a watcher with each of them, Async::updateResult() calls the  *)
(* activated ones from the worker that ends the async call, and the first  *)
(* watcher resumes the thread (chatra_core/Miscellaneous.cpp,              *)
(* EmbeddedClasses.cpp, on top of WaitingThreads).                         *)
(*                                                                         *)
(* A thread calls wait() at most once here, so that its WaitContext has    *)
(* its name.  An async call is the script thread that executes it.         *)
(***************************************************************************)
EXTENDS WaitingThreads

CONSTANTS
  Async,     \* the threads that execute async calls
  Targets    \* the async calls each thread waits for, {} if it does not

ASSUME AsyncAssumption   == Async \subseteq Thread
ASSUME TargetsAssumption ==
  Targets \in [Thread -> SUBSET Async] /\ \A t \in Thread : IsFiniteSet(Targets[t])

VARIABLES
  updated,        \* the async calls with a result: EventObject::count is not 0
  registered,     \* EventObject::registered of each of them
  activated,      \* EventObject::activated
  watchersCopy,   \* the watchers notifyAll() of each has yet to call
  waitingId,      \* WaitContext::waitingId, MaxId + 1 before deploy()
  toActivate,     \* the targets deploy() has yet to activate
  remainingCount, \* WaitContext::remainingCount
  lockTriggered,  \* who holds WaitContext::lockTriggered
  result,         \* what wait() returns: the target that woke the thread
  recycledRef,    \* the contexts whose reference is back in recycledRefs
  wpc,            \* where each worker is in WaitContextEventWatcher()
  wthread,        \* ... whose context it works on
  wtarget,        \* ... for which target
  toUnregister    \* ... and the targets it has yet to unregister

eventVars   == <<updated, registered, activated, watchersCopy>>
contextVars == <<waitingId, toActivate, remainingCount, lockTriggered, result, recycledRef>>
watcherVars == <<wpc, wthread, wtarget, toUnregister>>
vars == <<waitVars, eventVars, contextVars, watcherVars>>

WatcherState == {"none",        \* not in the watcher
                 "lock",        \* about to take lockTriggered
                 "unregister",  \* the first one: unregistering the others
                 "resume",      \* ... in resume()
                 "release",     \* about to release lockTriggered
                 "recycle"}     \* the last one: the context is safe to remove

NotDeployed == MaxId + 1

Init ==
  /\ WaitingInit
  /\ updated = {}
  /\ registered = [e \in Async |-> {}]
  /\ activated = [e \in Async |-> {}]
  /\ watchersCopy = [e \in Async |-> {}]
  /\ waitingId = [t \in Thread |-> NotDeployed]
  /\ toActivate = [t \in Thread |-> {}]
  /\ remainingCount = [t \in Thread |-> 0]
  /\ lockTriggered = [t \in Thread |-> NoOne]
  /\ result = [t \in Thread |-> NoThread]
  /\ recycledRef = {}
  /\ wpc = [w \in Worker |-> "none"]
  /\ wthread = [w \in Worker |-> NoThread]
  /\ wtarget = [w \in Worker |-> NoThread]
  /\ toUnregister = [w \in Worker |-> {}]

------------------------------------------------------------------------------
(* WaitContextEventWatcher().                                              *)

CallWatcher(w, t, e) ==
  /\ wpc[w] = "none"
  /\ wpc' = [wpc EXCEPT ![w] = "lock"]
  /\ wthread' = [wthread EXCEPT ![w] = t]
  /\ wtarget' = [wtarget EXCEPT ![w] = e]
  /\ UNCHANGED toUnregister

WatcherReturns(w) ==
  /\ wpc' = [wpc EXCEPT ![w] = "none"]
  /\ wthread' = [wthread EXCEPT ![w] = NoThread]
  /\ wtarget' = [wtarget EXCEPT ![w] = NoThread]

\* Mutant of LockTriggered: every watcher takes itself for the first one.
LockTriggeredEach(w) ==
  LET t == wthread[w] IN
  /\ wpc[w] = "lock"
  /\ lockTriggered[t] = NoOne
  /\ lockTriggered' = [lockTriggered EXCEPT ![t] = w]
  /\ remainingCount' = [remainingCount EXCEPT ![t] = @ - 1]
  /\ wpc' = [wpc EXCEPT ![w] = "unregister"]
  /\ toUnregister' = [toUnregister EXCEPT ![w] = Targets[t]]
  /\ UNCHANGED <<waitVars, eventVars, waitingId, toActivate, result, recycledRef,
                 wthread, wtarget>>

\* Only the first watcher of a context finds all of them outstanding.
LockTriggered(w) ==
  LET t == wthread[w]
      first == remainingCount[t] = Cardinality(Targets[t])
  IN
  /\ wpc[w] = "lock"
  /\ lockTriggered[t] = NoOne
  /\ lockTriggered' = [lockTriggered EXCEPT ![t] = w]
  /\ remainingCount' = [remainingCount EXCEPT ![t] = @ - 1]
  /\ wpc' = [wpc EXCEPT ![w] = IF first THEN "unregister" ELSE "release"]
  /\ toUnregister' = [toUnregister EXCEPT ![w] = IF first THEN Targets[t] ELSE {}]
  /\ UNCHANGED <<waitVars, eventVars, waitingId, toActivate, result, recycledRef,
                 wthread, wtarget>>

\* Mutant of Unregister: the first watcher counts down the targets it cannot
\* unregister, too.
UnregisterCountingAll(w, e) ==
  LET t == wthread[w] IN
  /\ wpc[w] = "unregister"
  /\ e \in toUnregister[w]
  /\ registered' = [registered EXCEPT ![e] = @ \ {t}]
  /\ activated' = [activated EXCEPT ![e] = @ \ {t}]
  /\ remainingCount' = [remainingCount EXCEPT ![t] = @ - 1]
  /\ toUnregister' = [toUnregister EXCEPT ![w] = @ \ {e}]
  /\ UNCHANGED <<waitVars, updated, watchersCopy, waitingId, toActivate, lockTriggered,
                 result, recycledRef, wpc, wthread, wtarget>>

\* unregisterWatcher() of one target
Unregister(w, e) ==
  LET t == wthread[w] IN
  /\ wpc[w] = "unregister"
  /\ e \in toUnregister[w]
  /\ registered' = [registered EXCEPT ![e] = @ \ {t}]
  /\ activated' = [activated EXCEPT ![e] = @ \ {t}]
  /\ IF t \in registered[e] \cup activated[e]
     THEN remainingCount' = [remainingCount EXCEPT ![t] = @ - 1]
     ELSE UNCHANGED remainingCount
  /\ toUnregister' = [toUnregister EXCEPT ![w] = @ \ {e}]
  /\ UNCHANGED <<waitVars, updated, watchersCopy, waitingId, toActivate, lockTriggered,
                 result, recycledRef, wpc, wthread, wtarget>>

\* The result of wait() is set, and resume() called with lockTriggered held.
Trigger(w) ==
  LET t == wthread[w] IN
  /\ wpc[w] = "unregister"
  /\ toUnregister[w] = {}
  /\ result' = [result EXCEPT ![t] = wtarget[w]]
  /\ CallResume(w, waitingId[t])
  /\ wpc' = [wpc EXCEPT ![w] = "resume"]
  /\ UNCHANGED <<runVars, nativeVars, tableVars, eventVars, waitingId, toActivate,
                 remainingCount, lockTriggered, recycledRef, wthread, wtarget,
                 toUnregister>>

Resumed(w) ==
  /\ wpc[w] = "resume"
  /\ rpc[w] = "none"
  /\ wpc' = [wpc EXCEPT ![w] = "release"]
  /\ UNCHANGED <<waitVars, eventVars, contextVars, wthread, wtarget, toUnregister>>

\* Mutant of ReleaseTriggered: the first watcher gives the context back.
ReleaseByFirst(w) ==
  LET t == wthread[w] IN
  /\ wpc[w] = "release"
  /\ lockTriggered' = [lockTriggered EXCEPT ![t] = NoOne]
  /\ IF t \notin recycledRef
     THEN wpc' = [wpc EXCEPT ![w] = "recycle"] /\ UNCHANGED <<wthread, wtarget>>
     ELSE WatcherReturns(w)
  /\ UNCHANGED <<waitVars, eventVars, waitingId, toActivate, remainingCount, result,
                 recycledRef, toUnregister>>

\* safeToRemove is read before lockTriggered is released.
ReleaseTriggered(w) ==
  LET t == wthread[w] IN
  /\ wpc[w] = "release"
  /\ lockTriggered' = [lockTriggered EXCEPT ![t] = NoOne]
  /\ IF remainingCount[t] = 0
     THEN wpc' = [wpc EXCEPT ![w] = "recycle"] /\ UNCHANGED <<wthread, wtarget>>
     ELSE WatcherReturns(w)
  /\ UNCHANGED <<waitVars, eventVars, waitingId, toActivate, remainingCount, result,
                 recycledRef, toUnregister>>

Recycle(w) ==
  /\ wpc[w] = "recycle"
  /\ recycledRef' = recycledRef \cup {wthread[w]}
  /\ WatcherReturns(w)
  /\ UNCHANGED <<waitVars, eventVars, waitingId, toActivate, remainingCount,
                 lockTriggered, result, toUnregister>>

------------------------------------------------------------------------------
(* native_wait().                                                          *)

\* The first half of deploy(), with the waitingId just got: nobody calls a
\* watcher that is registered but not activated.
Deploy(w) ==
  LET t == running[w] IN
  /\ pc[w] = "asked"
  /\ Targets[t] # {} /\ waitingId[t] = NotDeployed
  /\ waitingId' = [waitingId EXCEPT ![t] = newId[w]]
  /\ remainingCount' = [remainingCount EXCEPT ![t] = Cardinality(Targets[t])]
  /\ registered' = [e \in Async |->
                      registered[e] \cup (IF e \in Targets[t] THEN {t} ELSE {})]
  /\ toActivate' = [toActivate EXCEPT ![t] = Targets[t]]
  /\ GoTo(w, "deploy")
  /\ UNCHANGED <<multiThread, queue, running, gone, calls, ended, nativeVars, tableVars,
                 resumeVars, updated, activated, watchersCopy, lockTriggered, result,
                 recycledRef, watcherVars>>

\* Mutant of Activate: does not look whether the async call has ended.
ActivateOnly(w, e) ==
  LET t == running[w] IN
  /\ pc[w] = "deploy" /\ wpc[w] = "none"
  /\ e \in toActivate[t]
  /\ toActivate' = [toActivate EXCEPT ![t] = @ \ {e}]
  /\ registered' = [registered EXCEPT ![e] = @ \ {t}]
  /\ activated' = [activated EXCEPT
       ![e] = @ \cup (IF t \in registered[e] THEN {t} ELSE {})]
  /\ UNCHANGED <<waitVars, updated, watchersCopy, waitingId, remainingCount,
                 lockTriggered, result, recycledRef, watcherVars>>

\* activateWatcher(): the watcher of an async call that has ended already is
\* called at once, in the middle of deploy().
Activate(w, e) ==
  LET t == running[w]
      there == t \in registered[e]
  IN
  /\ pc[w] = "deploy" /\ wpc[w] = "none"
  /\ e \in toActivate[t]
  /\ toActivate' = [toActivate EXCEPT ![t] = @ \ {e}]
  /\ registered' = [registered EXCEPT ![e] = @ \ {t}]
  /\ IF there /\ e \in updated
     THEN CallWatcher(w, t, e) /\ UNCHANGED activated
     ELSE /\ activated' = [activated EXCEPT ![e] = @ \cup (IF there THEN {t} ELSE {})]
          /\ UNCHANGED watcherVars
  /\ UNCHANGED <<waitVars, updated, watchersCopy, waitingId, remainingCount,
                 lockTriggered, result, recycledRef>>

Deployed(w) ==
  /\ pc[w] = "deploy" /\ wpc[w] = "none"
  /\ toActivate[running[w]] = {}
  /\ GoTo(w, "native")
  /\ UNCHANGED <<multiThread, queue, running, gone, calls, ended, nativeVars, tableVars,
                 resumeVars, eventVars, contextVars, watcherVars>>

------------------------------------------------------------------------------
(* The end of an async call: Async::updateResult(), then finish().         *)

UpdateResult(w) ==
  LET e == running[w] IN
  /\ pc[w] = "script"
  /\ e \in Async
  /\ updated' = updated \cup {e}
  /\ watchersCopy' = [watchersCopy EXCEPT ![e] = activated[e]]
  /\ activated' = [activated EXCEPT ![e] = {}]
  /\ GoTo(w, "notify")
  /\ UNCHANGED <<multiThread, queue, running, gone, calls, ended, nativeVars, tableVars,
                 resumeVars, registered, contextVars, watcherVars>>

NotifyNext(w, t) ==
  LET e == running[w] IN
  /\ pc[w] = "notify"
  /\ t \in watchersCopy[e]
  /\ watchersCopy' = [watchersCopy EXCEPT ![e] = @ \ {t}]
  /\ CallWatcher(w, t, e)
  /\ UNCHANGED <<waitVars, updated, registered, activated, contextVars>>

FinishScript(w) ==
  /\ \/ pc[w] = "script" /\ running[w] \notin Async
     \/ pc[w] = "notify" /\ watchersCopy[running[w]] = {} /\ wpc[w] = "none"
  /\ Finish(w)
  /\ UNCHANGED <<eventVars, contextVars, watcherVars>>

------------------------------------------------------------------------------
Watcher(w) ==
  \/ LockTriggered(w) \/ \E e \in Async : Unregister(w, e)
  \/ Trigger(w) \/ Resumed(w) \/ ReleaseTriggered(w) \/ Recycle(w)

Wait(w) ==
  \/ Deploy(w) \/ Deployed(w)
  \/ \E e \in Async : Activate(w, e)

EndOfScript(w) ==
  \/ UpdateResult(w) \/ FinishScript(w)
  \/ \E t \in Thread : NotifyNext(w, t)

Next ==
  \/ WaitingNext /\ UNCHANGED <<eventVars, contextVars, watcherVars>>
  \/ \E w \in Worker : Watcher(w) \/ Wait(w) \/ EndOfScript(w)

Spec == Init /\ [][Next]_vars

------------------------------------------------------------------------------
ContextTypeOK ==
  /\ TypeOK
  /\ updated \subseteq Async
  /\ registered \in [Async -> SUBSET Thread]
  /\ activated \in [Async -> SUBSET Thread]
  /\ watchersCopy \in [Async -> SUBSET Thread]
  /\ waitingId \in [Thread -> 0..NotDeployed]
  /\ toActivate \in [Thread -> SUBSET Async]
  /\ remainingCount \in [Thread -> Nat]
  /\ lockTriggered \in [Thread -> Process \cup {NoOne}]
  /\ result \in [Thread -> Async \cup {NoThread}]
  /\ recycledRef \subseteq Thread
  /\ wpc \in [Worker -> WatcherState]
  /\ wthread \in [Worker -> Thread \cup {NoThread}]
  /\ wtarget \in [Worker -> Async \cup {NoThread}]
  /\ toUnregister \in [Worker -> SUBSET Async]

\* A worker that has enqueued its thread, or left it paused, only has to release
\* lockNative.
Runs(w, t) == running[w] = t /\ pc[w] # "unlock"

\* "This is required for avoiding conflicts with resuming this thread and
\* postProcess()" (Thread.cpp): no thread is enqueued while a worker still runs
\* it, and none is enqueued twice for one pause.
OneRunner ==
  \A t \in Thread :
    LET places == queue[t] + Cardinality({w \in Worker : Runs(w, t)}) IN
    places <= (IF t \in gone THEN 0 ELSE 1)

\* Ids are taken from the end of recycledWaitingIds or, if there are none, from
\* the size of waitingThreads: no id is given to two pauses at a time.
WaitingIdsOnce ==
  LET free == {recycled[k] : k \in 1..Len(recycled)} IN
  /\ Cardinality(free) = Len(recycled)
  /\ free \cap InTable = {}
  /\ free \cup InTable = 0..(Cardinality(free \cup InTable) - 1)

Outstanding(t) ==
  {e \in Async : t \in registered[e] \cup activated[e] \cup watchersCopy[e]}

Watching(t) == {w \in Worker : wpc[w] # "none" /\ wthread[w] = t}
Locking(t)  == {w \in Watching(t) : wpc[w] = "lock"}

\* A thread that has stopped is known to somebody who will resume it: whatever
\* wakes it before it has stopped is not lost.
WaiterHasWaker ==
  \A t \in Thread : queue[t] = 0 /\ t \notin gone /\ (\A w \in Worker : ~Runs(w, t)) =>
    \/ \E i \in armed : waitingThreads[i] = t
    \/ \E o \in Process : rpc[o] = "lookup" /\ waitingThreads[rid[o]] = t
    \/ \E o \in Process : rpc[o] = "wake" /\ rthread[o] = t
    \/ \E e \in Async \ updated : t \in activated[e]
    \/ \E e \in Async : t \in watchersCopy[e]
    \/ \E w \in Watching(t) : wpc[w] \in {"lock", "unregister"}

\* remainingCount is what decides who is first and who is last: it is at any time
\* the number of watchers that have not been counted down yet.
RemainingCounted ==
  \A t \in Thread :
    remainingCount[t] = Cardinality(Outstanding(t)) + Cardinality(Locking(t))

\* safeToRemove: once a WaitContext is given back, no watcher of it is called, or
\* still at work; until then the count that decides so is right.
SafeToRemove ==
  /\ RemainingCounted
  /\ \A t \in recycledRef : Outstanding(t) = {} /\ Watching(t) = {}

\* wait() returns one of its targets, one that has ended, and runs on only then.
WaitReturns ==
  \A t \in Thread :
    waitingId[t] # NotDeployed /\ (queue[t] > 0 \/ \E w \in Worker : running[w] = t /\ pc[w] = "script")
      => result[t] \in updated \cap Targets[t]

\* ... and is woken by one of them only.
TriggeredOnce ==
  [][\A t \in Thread : result'[t] # result[t] => result[t] = NoThread]_vars

------------------------------------------------------------------------------
(* Inductive invariants: what holds between any two steps, so that the      *)
(* properties above do (WaitContext_proofs).                                *)

\* Locals of the workers are set while they are used.
LocalsInv ==
  /\ \A w \in Worker : IF pc[w] = "idle" THEN running[w] = NoThread ELSE running[w] \in Thread
  /\ \A w \in Worker : pc[w] = "notify" => running[w] \in updated
  /\ \A o \in Process : rpc[o] = "wake" => rthread[o] \in Thread
  /\ \A w \in Worker : wpc[w] # "none" =>
       /\ wthread[w] \in Thread /\ wtarget[w] \in Async
       /\ wtarget[w] \in updated \cap Targets[wthread[w]]

\* A thread is in one place: the queue, one worker or neither.
RunInv ==
  /\ \A t \in Thread : queue[t] <= 1 /\ (t \in gone => queue[t] = 0)
  /\ \A w \in Worker, t \in Thread : Runs(w, t) => queue[t] = 0 /\ t \notin gone
  /\ \A w, v \in Worker, t \in Thread : Runs(w, t) /\ Runs(v, t) => w = v

\* From the lock of lockNative on, a native method has it; nativeCallThreadId is reset
\* when it has returned.
NativeInv ==
  /\ \A w \in Worker :
       /\ pc[w] \in {"native", "pausing", "asked", "deploy", "left", "unlock"}
            => lockNative[running[w]] = w
       /\ pc[w] \in {"pausing", "asked"} => pauseRequested[running[w]]
       /\ pc[w] = "left" => nativeBy[running[w]] = NoOne
  /\ \A t \in Thread : queue[t] = 0 /\ t \notin gone /\ (\A w \in Worker : ~ Runs(w, t)) =>
       nativeBy[t] = NoOne

\* The ids are those below some n, each of them in use or recycled once.
Free == {recycled[k] : k \in 1..Len(recycled)}

IdsInv ==
  /\ \A j, k \in 1..Len(recycled) : recycled[j] = recycled[k] => j = k
  /\ Free \cap InTable = {}
  /\ \E n \in 0..MaxId + 1 : Free \cup InTable = 0..n - 1

\* Who may use an id: the native method that has got it, an event object or a timer, a
\* process in resume(), or the context of a wait() that has not been triggered.
Asked(w, i)    == pc[w] = "asked" /\ newId[w] = i
Resuming(o, i) == rpc[o] # "none" /\ rid[o] = i
Awaiting(t, i) == waitingId[t] = i /\ result[t] = NoThread

\* An id is in the hands of one of them only, and is in the table.
OwnedInv ==
  /\ \A w \in Worker, i \in WaitId : Asked(w, i) =>
       /\ waitingThreads[i] = running[w] /\ i \notin armed
       /\ \A o \in Process : ~ Resuming(o, i)
       /\ \A t \in Thread : ~ Awaiting(t, i)
  /\ \A i \in armed :
       /\ i \in InTable
       /\ \A o \in Process : ~ Resuming(o, i)
       /\ \A t \in Thread : ~ Awaiting(t, i)
  /\ \A o \in Process, i \in WaitId : Resuming(o, i) =>
       /\ i \in InTable
       /\ rpc[o] = "wake" => rthread[o] = waitingThreads[i]
       /\ \A q \in Process : Resuming(q, i) => q = o
       /\ \A t \in Thread : ~ Awaiting(t, i)
  /\ \A t \in Thread, i \in WaitId : Awaiting(t, i) => waitingThreads[i] = t

\* A resume() with this id is still to wake a thread ...
Live(i) ==
  \/ i \in armed
  \/ \E o \in Process : rpc[o] \in {"lookup", "wake"} /\ rid[o] = i
  \/ \E t \in Thread : Awaiting(t, i)

\* ... that has stopped, or will when the native method it is in returns.
Stops(t) ==
  /\ queue[t] = 0 /\ t \notin gone
  /\ \A w \in Worker : Runs(w, t) =>
       pc[w] \in {"native", "deploy", "left"} /\ pauseRequested[t]

LiveInv ==
  /\ \A i \in WaitId : Live(i) => waitingThreads[i] \in Thread /\ Stops(waitingThreads[i])
  /\ \A t \in Thread : Stops(t) => \E i \in WaitId : Live(i) /\ waitingThreads[i] = t
  /\ \A i, j \in WaitId : Live(i) /\ Live(j) /\ waitingThreads[i] = waitingThreads[j] => i = j

\* A watcher is first registered, by deploy(), then activated, then about to be called;
\* it is called only once its target has ended.
RegisteredInv ==
  \A e \in Async, t \in Thread :
    /\ t \in registered[e] \cup activated[e] \cup watchersCopy[e] =>
         e \in Targets[t] /\ waitingId[t] # NotDeployed
    /\ t \in registered[e] => e \in toActivate[t]

PhasesInv ==
  \A e \in Async, t \in Thread :
    /\ t \in registered[e] => t \notin activated[e] \cup watchersCopy[e]
    /\ t \in activated[e] => e \notin updated
    /\ t \in watchersCopy[e] => e \in updated

\* An async call ends once.
EndedInv ==
  \A e \in updated : e \in gone \/ \E w \in Worker : running[w] = e /\ pc[w] = "notify"

DeployInv ==
  \A t \in Thread : toActivate[t] # {} => \E w \in Worker : running[w] = t /\ pc[w] = "deploy"

EventInv == RegisteredInv /\ PhasesInv /\ EndedInv /\ DeployInv

\* Before deploy() a context is as it was made.
FreshInv ==
  \A t \in Thread :
    IF waitingId[t] = NotDeployed
    THEN /\ remainingCount[t] = 0 /\ result[t] = NoThread /\ t \notin recycledRef
         /\ \A w \in Worker : wpc[w] # "none" => wthread[w] # t
    ELSE Targets[t] # {}

\* Watchers of one context are at work one after another ...
TriggeredInv ==
  \A w \in Worker : wpc[w] \in {"unregister", "resume", "release"} => lockTriggered[wthread[w]] = w

\* ... the first one alone sets the result ...
FirstInv ==
  /\ \A t \in Thread :
       /\ remainingCount[t] <= Cardinality(Targets[t])
       /\ result[t] # NoThread =>
            /\ remainingCount[t] # Cardinality(Targets[t])
            /\ result[t] \in updated \cap Targets[t]
       /\ waitingId[t] # NotDeployed /\ result[t] = NoThread
            /\ remainingCount[t] # Cardinality(Targets[t]) =>
          \E w \in Worker : wpc[w] = "unregister" /\ wthread[w] = t
  /\ \A w \in Worker :
       /\ wpc[w] \notin {"none", "lock"} =>
            remainingCount[wthread[w]] # Cardinality(Targets[wthread[w]])
       /\ wpc[w] = "unregister" => result[wthread[w]] = NoThread

\* ... and the last one gives the context back.
LastInv ==
  /\ \A w, v \in Worker : wpc[w] = "recycle" =>
       /\ remainingCount[wthread[w]] = 0
       /\ wpc[v] # "none" /\ wthread[v] = wthread[w] => v = w
  /\ \A t \in recycledRef :
       /\ remainingCount[t] = 0
       /\ \A w \in Worker : wpc[w] # "none" => wthread[w] # t

ContextInv == FreshInv /\ TriggeredInv /\ FirstInv /\ LastInv

IndInv ==
  /\ ContextTypeOK /\ LocalsInv /\ RunInv /\ NativeInv /\ IdsInv /\ OwnedInv /\ LiveInv
  /\ EventInv /\ ContextInv /\ RemainingCounted
=============================================================================
