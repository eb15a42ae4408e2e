--------------------------- MODULE WaitingThreads ---------------------------
(***************************************************************************)
(* How a script thread of chatra stops in a native method and goes on      *)
(* again: Thread::invokeNativeMethod(), RuntimeImp::pause() and            *)
(* RuntimeImp::resume(), the table waitingThreads with its recycled ids,   *)
(* the workers and handleQueue() (chatra_core/Thread.cpp, Runtime.cpp).    *)
(*                                                                         *)
(* The processes are threads of the operating system: the Workers run      *)
(* script threads, the Outside ones are those of timers and of the host,   *)
(* which call resume() for the events they were given.  Without multi-     *)
(* threading the host calls handleQueue() on one worker, Main.             *)
(***************************************************************************)
EXTENDS Naturals, Sequences, FiniteSets

CONSTANTS
  Thread,    \* script threads
  Worker,    \* threads of the runtime that run them
  Main,      \* the one that calls handleQueue()
  Outside,   \* threads of timers and of the host
  MaxId,     \* bound on waitingId
  MaxCall,   \* bound on the native methods each script thread calls
  NoThread,
  NoOne      \* std::thread::id(), and the owner of a free spin lock

Process == Worker \cup Outside
WaitId  == 0..MaxId

ASSUME MainAssumption  == Main \in Worker
ASSUME BoundAssumption == MaxId \in Nat /\ MaxCall \in [Thread -> Nat]
ASSUME WorkerAssumption == IsFiniteSet(Worker)
ASSUME NoneAssumption  == NoThread \notin Thread /\ NoOne \notin Process

VARIABLES
  multiThread,     \* RuntimeImp::multiThread
  queue,           \* number of entries of each thread in RuntimeImp::queue
  pc,              \* where each worker is, see WorkerState
  running,         \* the script thread each worker runs
  gone,            \* the script threads that have ended
  calls,           \* how many native methods each thread has called
  nativeBy,        \* Thread::nativeCallThreadId
  lockNative,      \* who holds Thread::lockNative
  pauseRequested,  \* Thread::pauseRequested
  newId,           \* the waitingId a native method of each worker has got
  waitingThreads,  \* RuntimeImp::waitingThreads
  recycled,        \* RuntimeImp::recycledWaitingIds
  hasWaiting,      \* RuntimeImp::hasWaitingThreads
  armed,           \* waitingIds of timers and event objects not yet used
  rpc,             \* where each process is in resume(), see ResumeState
  rid,             \* ... its argument
  rthread,         \* ... and the thread it has found
  ended            \* handleQueue() has returned FALSE

runVars    == <<multiThread, queue, pc, running, gone, calls, ended>>
nativeVars == <<nativeBy, lockNative, pauseRequested, newId>>
tableVars  == <<waitingThreads, recycled, hasWaiting, armed>>
resumeVars == <<rpc, rid, rthread>>
waitVars   == <<runVars, nativeVars, tableVars, resumeVars>>

WorkerState == {"idle",     \* waits for the queue
                "script",   \* in run(), between native calls
                "enter",    \* invokeNativeMethod() about to take lockNative
                "native",   \* in the native method
                "pausing",  \* ... in pause(), before lockWaitingThreads
                "asked",    \* ... has got a waitingId nobody else knows
                "deploy",   \* ... in WaitContext::deploy()
                "left",     \* back in invokeNativeMethod()
                "unlock",   \* ... about to leave it
                "notify"}   \* in notifyAll() of the Async of its thread

ResumeState == {"none",     \* not in resume()
                "lookup",   \* about to look the waitingId up
                "wake",     \* has found the thread
                "erase"}    \* about to take the waitingId out

------------------------------------------------------------------------------
WaitingInit ==
  /\ multiThread \in BOOLEAN
  /\ queue = [t \in Thread |-> 1]
  /\ pc = [w \in Worker |-> "idle"]
  /\ running = [w \in Worker |-> NoThread]
  /\ gone = {}
  /\ calls = [t \in Thread |-> 0]
  /\ nativeBy = [t \in Thread |-> NoOne]
  /\ lockNative = [t \in Thread |-> NoOne]
  /\ pauseRequested = [t \in Thread |-> FALSE]
  /\ newId = [w \in Worker |-> 0]
  /\ waitingThreads = [i \in WaitId |-> NoThread]
  /\ recycled = <<>>
  /\ hasWaiting = FALSE
  /\ armed = {}
  /\ rpc = [o \in Process |-> "none"]
  /\ rid = [o \in Process |-> 0]
  /\ rthread = [o \in Process |-> NoThread]
  /\ ended = FALSE

InTable   == {i \in WaitId : waitingThreads[i] # NoThread}
Enqueue(t) == queue' = [queue EXCEPT ![t] = @ + 1]
GoTo(w, l) == pc' = [pc EXCEPT ![w] = l]

------------------------------------------------------------------------------
(* Workers and handleQueue().                                              *)

Dispatch(w, t) ==
  /\ pc[w] = "idle"
  /\ queue[t] > 0
  /\ ~multiThread => w = Main /\ ~ended
  /\ queue' = [queue EXCEPT ![t] = @ - 1]
  /\ running' = [running EXCEPT ![w] = t]
  /\ GoTo(w, "script")
  /\ UNCHANGED <<multiThread, gone, calls, ended, nativeVars, tableVars, resumeVars>>

\* handleQueue() returns FALSE, and loop() with it.
LoopEnds ==
  /\ ~multiThread /\ ~ended
  /\ pc[Main] = "idle"
  /\ \A t \in Thread : queue[t] = 0
  /\ ~hasWaiting
  /\ ended' = TRUE
  /\ UNCHANGED <<multiThread, queue, pc, running, gone, calls, nativeVars,
                 tableVars, resumeVars>>

\* A call or a return of the script: the thread goes to the end of the queue.
Yield(w) ==
  /\ pc[w] = "script"
  /\ Enqueue(running[w])
  /\ running' = [running EXCEPT ![w] = NoThread]
  /\ GoTo(w, "idle")
  /\ UNCHANGED <<multiThread, gone, calls, ended, nativeVars, tableVars, resumeVars>>

\* finish(): the thread leaves the runtime.
Finish(w) ==
  /\ gone' = gone \cup {running[w]}
  /\ running' = [running EXCEPT ![w] = NoThread]
  /\ GoTo(w, "idle")
  /\ UNCHANGED <<multiThread, queue, calls, ended, nativeVars, tableVars, resumeVars>>

------------------------------------------------------------------------------
(* invokeNativeMethod().                                                   *)

EnterNative(w) ==
  /\ pc[w] = "script"
  /\ calls[running[w]] < MaxCall[running[w]]
  /\ calls' = [calls EXCEPT ![running[w]] = @ + 1]
  /\ nativeBy' = [nativeBy EXCEPT ![running[w]] = w]
  /\ GoTo(w, "enter")
  /\ UNCHANGED <<multiThread, queue, running, gone, ended, lockNative,
                 pauseRequested, newId, tableVars, resumeVars>>

LockNative(w) ==
  LET t == running[w] IN
  /\ pc[w] = "enter"
  /\ lockNative[t] = NoOne
  /\ lockNative' = [lockNative EXCEPT ![t] = w]
  /\ pauseRequested' = [pauseRequested EXCEPT ![t] = FALSE]
  /\ GoTo(w, "native")
  /\ UNCHANGED <<multiThread, queue, running, gone, calls, ended, nativeBy, newId,
                 tableVars, resumeVars>>

\* requestToPause(), and the first statement of pause()
RequestToPause(w) ==
  LET t == running[w] IN
  /\ pc[w] = "native"
  /\ rpc[w] = "none"
  /\ ~pauseRequested[t]
  /\ pauseRequested' = [pauseRequested EXCEPT ![t] = TRUE]
  /\ hasWaiting' = TRUE
  /\ GoTo(w, "pausing")
  /\ UNCHANGED <<multiThread, queue, running, gone, calls, ended, nativeBy, lockNative,
                 newId, waitingThreads, recycled, armed, resumeVars>>

\* pause() under lockWaitingThreads
Pause(w) ==
  LET id == IF recycled = <<>> THEN Cardinality(InTable)
                               ELSE recycled[Len(recycled)]
  IN
  /\ pc[w] = "pausing"
  /\ id \in WaitId
  /\ recycled' = IF recycled = <<>> THEN recycled
                                    ELSE SubSeq(recycled, 1, Len(recycled) - 1)
  /\ waitingThreads' = IF id \in InTable THEN waitingThreads
                       ELSE [waitingThreads EXCEPT ![id] = running[w]]
  /\ newId' = [newId EXCEPT ![w] = id]
  /\ GoTo(w, "asked")
  /\ UNCHANGED <<multiThread, queue, running, gone, calls, ended, nativeBy,
                 lockNative, pauseRequested, hasWaiting, armed, resumeVars>>

\* native_sleep() submits its timer, or a method of the host keeps the event
\* object: from now on somebody may call resume().
Arm(w) ==
  /\ pc[w] = "asked"
  /\ armed' = armed \cup {newId[w]}
  /\ GoTo(w, "native")
  /\ UNCHANGED <<multiThread, queue, running, gone, calls, ended, nativeVars,
                 waitingThreads, recycled, hasWaiting, resumeVars>>

\* A native method throws, or native_sleep() does for an unknown clock, after it
\* has called requestToPause(): the script goes on with the exception.
NativeThrows(w) ==
  /\ \/ pc[w] = "native" /\ ~pauseRequested[running[w]]
     \/ pc[w] = "asked"
  /\ rpc[w] = "none"
  /\ lockNative' = [lockNative EXCEPT ![running[w]] = NoOne]
  /\ newId' = [newId EXCEPT ![w] = 0]
  /\ GoTo(w, "script")
  /\ UNCHANGED <<multiThread, queue, running, gone, calls, ended, nativeBy,
                 pauseRequested, tableVars, resumeVars>>

LeaveNative(w) ==
  /\ pc[w] = "native"
  /\ rpc[w] = "none"
  /\ nativeBy' = [nativeBy EXCEPT ![running[w]] = NoOne]
  /\ newId' = [newId EXCEPT ![w] = 0]
  /\ GoTo(w, "left")
  /\ UNCHANGED <<multiThread, queue, running, gone, calls, ended, lockNative,
                 pauseRequested, tableVars, resumeVars>>

\* Mutant of PostProcess: enqueues the thread although it is to pause.
PostProcessAlways(w) ==
  /\ pc[w] = "left"
  /\ Enqueue(running[w])
  /\ GoTo(w, "unlock")
  /\ UNCHANGED <<multiThread, running, gone, calls, ended, nativeVars, tableVars,
                 resumeVars>>

\* postProcess(), and the thread runs again unless it is to pause
PostProcess(w) ==
  LET t == running[w] IN
  /\ pc[w] = "left"
  /\ IF pauseRequested[t] THEN UNCHANGED queue ELSE Enqueue(t)
  /\ GoTo(w, "unlock")
  /\ UNCHANGED <<multiThread, running, gone, calls, ended, nativeVars, tableVars,
                 resumeVars>>

UnlockNative(w) ==
  /\ pc[w] = "unlock"
  /\ lockNative' = [lockNative EXCEPT ![running[w]] = NoOne]
  /\ running' = [running EXCEPT ![w] = NoThread]
  /\ GoTo(w, "idle")
  /\ UNCHANGED <<multiThread, queue, gone, calls, ended, nativeBy, pauseRequested,
                 newId, tableVars, resumeVars>>

------------------------------------------------------------------------------
(* resume().                                                               *)

CallResume(o, i) ==
  /\ rpc[o] = "none"
  /\ rpc' = [rpc EXCEPT ![o] = "lookup"]
  /\ rid' = [rid EXCEPT ![o] = i]
  /\ UNCHANGED rthread

\* A timer expires, or unlock() of an event object is called, maybe by a native
\* method, that of the waiting thread included.
Unlock(o, i) ==
  /\ i \in armed
  /\ o \in Worker => pc[o] = "native"
  /\ CallResume(o, i)
  /\ armed' = armed \ {i}
  /\ UNCHANGED <<runVars, nativeVars, waitingThreads, recycled, hasWaiting>>

ResumeLookUp(o) ==
  LET t == waitingThreads[rid[o]] IN
  /\ rpc[o] = "lookup"
  /\ rpc' = [rpc EXCEPT ![o] = IF t = NoThread THEN "none" ELSE "wake"]
  /\ rthread' = [rthread EXCEPT ![o] = t]
  /\ UNCHANGED <<runVars, nativeVars, tableVars, rid>>

\* From the native method that has asked for the pause: it does not pause.
ResumeAtOnce(o) ==
  /\ rpc[o] = "wake"
  /\ nativeBy[rthread[o]] = o
  /\ pauseRequested' = [pauseRequested EXCEPT ![rthread[o]] = FALSE]
  /\ rpc' = [rpc EXCEPT ![o] = "erase"]
  /\ UNCHANGED <<runVars, nativeBy, lockNative, newId, tableVars, rid, rthread>>

\* Mutant of ResumeEnqueue: does not take lockNative.
ResumeUnlocked(o) ==
  /\ rpc[o] = "wake"
  /\ nativeBy[rthread[o]] # o
  /\ Enqueue(rthread[o])
  /\ rpc' = [rpc EXCEPT ![o] = "erase"]
  /\ UNCHANGED <<multiThread, pc, running, gone, calls, ended, nativeVars,
                 tableVars, rid, rthread>>

\* From elsewhere: not before invokeNativeMethod() of the thread has returned.
ResumeEnqueue(o) ==
  /\ rpc[o] = "wake"
  /\ nativeBy[rthread[o]] # o
  /\ lockNative[rthread[o]] = NoOne
  /\ Enqueue(rthread[o])
  /\ rpc' = [rpc EXCEPT ![o] = "erase"]
  /\ UNCHANGED <<multiThread, pc, running, gone, calls, ended, nativeVars,
                 tableVars, rid, rthread>>

\* Mutant of ResumeErase: gives the id back and leaves the thread in the table.
ResumeKeep(o) ==
  /\ rpc[o] = "erase"
  /\ recycled' = Append(recycled, rid[o])
  /\ rpc' = [rpc EXCEPT ![o] = "none"]
  /\ rid' = [rid EXCEPT ![o] = 0]
  /\ rthread' = [rthread EXCEPT ![o] = NoThread]
  /\ UNCHANGED <<runVars, nativeVars, waitingThreads, hasWaiting, armed>>

ResumeErase(o) ==
  /\ rpc[o] = "erase"
  /\ waitingThreads' = [waitingThreads EXCEPT ![rid[o]] = NoThread]
  /\ recycled' = Append(recycled, rid[o])
  /\ hasWaiting' = (InTable \ {rid[o]} # {})
  /\ rpc' = [rpc EXCEPT ![o] = "none"]
  /\ rid' = [rid EXCEPT ![o] = 0]
  /\ rthread' = [rthread EXCEPT ![o] = NoThread]
  /\ UNCHANGED <<runVars, nativeVars, armed>>

------------------------------------------------------------------------------
NativeCall(w) ==
  \/ EnterNative(w) \/ LockNative(w) \/ RequestToPause(w) \/ Pause(w) \/ Arm(w)
  \/ NativeThrows(w) \/ LeaveNative(w) \/ PostProcess(w) \/ UnlockNative(w)

Resume(o) ==
  \/ \E i \in WaitId : Unlock(o, i)
  \/ ResumeLookUp(o) \/ ResumeAtOnce(o) \/ ResumeEnqueue(o) \/ ResumeErase(o)

WaitingNext ==
  \/ LoopEnds
  \/ \E w \in Worker :
       \/ \E t \in Thread : Dispatch(w, t)
       \/ Yield(w) \/ NativeCall(w)
  \/ \E o \in Process : Resume(o)

------------------------------------------------------------------------------
TypeOK ==
  /\ multiThread \in BOOLEAN
  /\ queue \in [Thread -> Nat]
  /\ pc \in [Worker -> WorkerState]
  /\ running \in [Worker -> Thread \cup {NoThread}]
  /\ gone \subseteq Thread
  /\ calls \in [Thread -> Nat] /\ \A t \in Thread : calls[t] <= MaxCall[t]
  /\ nativeBy \in [Thread -> Process \cup {NoOne}]
  /\ lockNative \in [Thread -> Process \cup {NoOne}]
  /\ pauseRequested \in [Thread -> BOOLEAN]
  /\ newId \in [Worker -> WaitId]
  /\ waitingThreads \in [WaitId -> Thread \cup {NoThread}]
  /\ recycled \in Seq(WaitId)
  /\ hasWaiting \in BOOLEAN
  /\ armed \subseteq WaitId
  /\ rpc \in [Process -> ResumeState]
  /\ rid \in [Process -> WaitId]
  /\ rthread \in [Process -> Thread \cup {NoThread}]
  /\ ended \in BOOLEAN
=============================================================================
