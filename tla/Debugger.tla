------------------------------ MODULE Debugger ------------------------------
(***************************************************************************)
(* The workers of a runtime and the debugger that stops them: setWorkers(),*)
(* shutdownThreads(), debugBreak(), pause(), resume(), the steps and       *)
(* killThread() of RuntimeImp (chatra_core/Runtime.cpp), with the timer    *)
(* thread that goes on while the runtime is paused.                        *)
(*                                                                         *)
(* A script thread runs MaxRun times from the queue; one of BreakPoint     *)
(* meets a break point in each run, one of Sleeper may sleep.  The host    *)
(* has one thread that calls the debugger.                                 *)
(***************************************************************************)
EXTENDS Naturals, Sequences, FiniteSets

CONSTANTS
  Thread,      \* script threads
  BreakPoint,  \* those with a break point in their way
  Sleeper,     \* those that may sleep
  Worker,      \* ids of worker threads
  Workers,     \* initialThreadCount
  Host,        \* the thread of the host
  MaxRun,      \* bound on the runs of a script thread
  MaxPause,    \* bound on the calls of pause()
  NoThread, NoOne

ASSUME SetAssumption   == BreakPoint \subseteq Thread /\ Sleeper \subseteq Thread
ASSUME CountAssumption == Workers \in 1..Cardinality(Worker) /\ {MaxRun, MaxPause} \subseteq Nat
ASSUME NoneAssumption  == NoThread \notin Thread /\ Host \notin Worker /\ NoOne \notin Worker \cup {Host}
ASSUME FiniteAssumption == IsFiniteSet(Thread) /\ IsFiniteSet(Worker)

WaitId == 0..Cardinality(Thread)

VARIABLES
  queue,           \* RuntimeImp::queue
  workers,         \* RuntimeImp::workerThreads
  target,          \* RuntimeImp::targetWorkerThreads
  previous,        \* RuntimeImp::previousWorkerThreads
  paused,          \* RuntimeImp::paused
  lockDebugger,    \* who holds RuntimeImp::lockDebugger
  wpc, running,    \* where each worker is, see WorkerState, and its script thread
  hpc, stepping,   \* where the host is, see HostState, and its script thread
  runs,            \* how many runs each script thread has left
  stopped,         \* script threads whose phase is behind the break point
  gone,            \* script threads that have ended or been killed
  waitingThreads,  \* RuntimeImp::waitingThreads
  recycled,        \* RuntimeImp::recycledWaitingIds
  timers,          \* how many handlers of issueTimer() are pending for each id
  tpc, tid, tthread,  \* the timer thread in resume(waitingId)
  pauses,          \* how often pause() has been called
  raced,           \* killThread() has hit a thread that resume() had looked up
  hasty            \* resume() has counted a worker that is about to leave a break point

poolVars  == <<workers, target, previous, paused, lockDebugger>>
scriptVars == <<runs, stopped, gone>>
waitVars  == <<waitingThreads, recycled, timers>>
timerVars == <<tpc, tid, tthread>>
accidents == <<raced, hasty>>
vars == <<queue, poolVars, wpc, running, hpc, stepping, scriptVars, waitVars, timerVars, pauses, accidents>>

WorkerState == {"absent",
                "idle",      \* in cvQueue.wait(), or about to
                "run",       \* in run()
                "break",     \* debugBreak() wants lockDebugger
                "alone",     \* ... waits for the other workers to leave
                "reached",   \* ... has paused the runtime
                "callback",  \* onBreakPoint()
                "stop"}      \* run() has returned Stop
HostState == {"idle",
              "pausing",   \* pause() waits for the workers to leave
              "stepping",  \* in stepRun() of the debugger
              "looking",   \* ... where the script thread is after a call or return
              "relock",    \* ... in debugBreak(), which wants lockDebugger again
              "killing"}   \* killThread() has not found it in the queue
TimerState == {"idle", "wake", "erase"}  \* the sections of resume(waitingId)

TypeOK ==
  /\ queue \in Seq(Thread)
  /\ workers \subseteq Worker
  /\ target \in 0..Cardinality(Worker) /\ previous \in 0..Cardinality(Worker)
  /\ paused \in BOOLEAN /\ raced \in BOOLEAN /\ hasty \in BOOLEAN
  /\ lockDebugger \in Worker \cup {Host, NoOne}
  /\ wpc \in [Worker -> WorkerState]
  /\ \A w \in Worker : wpc[w] = "absent" <=> w \notin workers
  /\ running \in [Worker -> Thread \cup {NoThread}]
  /\ \A w \in Worker : running[w] # NoThread <=> wpc[w] \in {"run", "break", "alone", "reached"}
  /\ hpc \in HostState /\ stepping \in Thread \cup {NoThread}
  /\ \A w \in Worker : wpc[w] = "alone" <=> lockDebugger = w
  /\ hpc # "idle" <=> lockDebugger = Host
  /\ runs \in [Thread -> 0..MaxRun]
  /\ stopped \subseteq Thread /\ gone \subseteq Thread
  /\ waitingThreads \in [WaitId -> Thread \cup {NoThread}]
  /\ recycled \in Seq(WaitId) /\ timers \in [WaitId -> Nat]
  /\ tpc \in TimerState /\ tid \in WaitId /\ tthread \in Thread \cup {NoThread}
  /\ pauses \in 0..MaxPause

Init ==
  /\ \E s \in [1..Cardinality(Thread) -> Thread] :
       /\ \A i, j \in DOMAIN s : s[i] = s[j] => i = j
       /\ queue = s
  /\ \E ws \in SUBSET Worker :
       /\ Cardinality(ws) = Workers
       /\ workers = ws
       /\ wpc = [w \in Worker |-> IF w \in ws THEN "idle" ELSE "absent"]
  /\ target = Workers /\ previous = 0
  /\ paused = FALSE /\ lockDebugger = NoOne
  /\ running = [w \in Worker |-> NoThread]
  /\ hpc = "idle" /\ stepping = NoThread
  /\ runs = [t \in Thread |-> MaxRun] /\ stopped = {} /\ gone = {}
  /\ waitingThreads = [i \in WaitId |-> NoThread]
  /\ recycled = <<>> /\ timers = [i \in WaitId |-> 0]
  /\ tpc = "idle" /\ tid = 0 /\ tthread = NoThread
  /\ pauses = 0 /\ raced = FALSE /\ hasty = FALSE

------------------------------------------------------------------------------
InQueue(t) == \E i \in DOMAIN queue : queue[i] = t
FirstAt(t) == CHOOSE i \in DOMAIN queue : queue[i] = t /\ \A j \in 1..i - 1 : queue[j] # t
Without(t) == SubSeq(queue, 1, FirstAt(t) - 1) \o SubSeq(queue, FirstAt(t) + 1, Len(queue))
InTable    == {i \in WaitId : waitingThreads[i] # NoThread}

\* setWorkers(): the workers above the target leave by themselves.
SetWorkers(n) ==
  /\ target' = n
  /\ \E ws \in SUBSET (Worker \ workers) :
       /\ Cardinality(ws) = IF Cardinality(workers) > n THEN 0 ELSE n - Cardinality(workers)
       /\ workers' = workers \cup ws
       /\ wpc' = [w \in Worker |-> IF w \in ws THEN "idle" ELSE wpc[w]]

------------------------------------------------------------------------------
\* What becomes of a script thread in one run of stepRun() to a boundary

Breaks(t) == t \in BreakPoint \ stopped

Yields(t) ==
  /\ ~Breaks(t) /\ runs[t] > 1
  /\ runs' = [runs EXCEPT ![t] = @ - 1] /\ stopped' = stopped \ {t}
  /\ queue' = Append(queue, t)
  /\ UNCHANGED <<gone, waitVars>>

Ends(t) ==
  /\ ~Breaks(t) /\ runs[t] = 1
  /\ gone' = gone \cup {t}
  /\ UNCHANGED <<queue, runs, stopped, waitVars>>

\* pause(Thread*) and issueTimer()
Sleeps(t) ==
  /\ ~Breaks(t) /\ runs[t] > 1 /\ t \in Sleeper
  /\ runs' = [runs EXCEPT ![t] = @ - 1] /\ stopped' = stopped \ {t}
  /\ LET id == IF recycled = <<>> THEN Cardinality(InTable) ELSE recycled[Len(recycled)]
     IN  /\ waitingThreads' = [waitingThreads EXCEPT ![id] = IF @ = NoThread THEN t ELSE @]
         /\ recycled' = IF recycled = <<>> THEN <<>> ELSE SubSeq(recycled, 1, Len(recycled) - 1)
         /\ timers' = [timers EXCEPT ![id] = @ + 1]
  /\ UNCHANGED <<queue, gone>>

Reaches(t) ==
  /\ Breaks(t)
  /\ stopped' = stopped \cup {t}
  /\ UNCHANGED <<queue, runs, gone, waitVars>>

------------------------------------------------------------------------------
Move(w, from, to) == wpc[w] = from /\ wpc' = [wpc EXCEPT ![w] = to]

Take(w) ==
  /\ Move(w, "idle", "run")
  /\ queue # <<>> /\ Cardinality(workers) <= target
  /\ queue' = Tail(queue)
  /\ running' = [running EXCEPT ![w] = Head(queue)]
  /\ UNCHANGED <<poolVars, hpc, stepping, scriptVars, waitVars, timerVars, pauses, accidents>>


\* A worker that has too many beside it, or has reached a break point, leaves.
Detach(w) ==
  /\ Move(w, IF wpc[w] = "stop" THEN "stop" ELSE "idle", "absent")
  /\ wpc[w] = "idle" => Cardinality(workers) > target
  /\ workers' = workers \ {w}
  /\ UNCHANGED <<queue, target, previous, paused, lockDebugger, running, hpc, stepping, scriptVars,
                 waitVars, timerVars, pauses, accidents>>

Run(w) ==
  /\ Move(w, "run", "idle")
  /\ LET t == running[w] IN Yields(t) \/ Ends(t) \/ Sleeps(t)
  /\ running' = [running EXCEPT ![w] = NoThread]
  /\ UNCHANGED <<poolVars, hpc, stepping, timerVars, pauses, accidents>>

RunToBreakPoint(w) ==
  /\ Move(w, "run", "break") /\ Reaches(running[w])
  /\ UNCHANGED <<poolVars, running, hpc, stepping, timerVars, pauses, accidents>>

\* debugBreak(): to one worker, to none, and the script thread back to the queue.
\* Mutant of BreakLock: the number of workers is read after it has been changed.
BreakLockForgetting(w) ==
  /\ Move(w, "break", "alone")
  /\ lockDebugger = NoOne /\ ~paused
  /\ lockDebugger' = w
  /\ previous' = 1 /\ target' = 1
  /\ UNCHANGED <<queue, workers, paused, running, hpc, stepping, scriptVars, waitVars, timerVars, pauses, accidents>>

BreakLock(w) ==
  /\ Move(w, "break", "alone")
  /\ lockDebugger = NoOne /\ ~paused
  /\ lockDebugger' = w
  /\ previous' = target /\ target' = 1
  /\ UNCHANGED <<queue, workers, paused, running, hpc, stepping, scriptVars, waitVars, timerVars, pauses, accidents>>

\* Mutant of BreakAlone: lockDebugger is kept.
BreakAloneLocked(w) ==
  /\ Move(w, "alone", "reached")
  /\ previous = 1 \/ Cardinality(workers) = 1
  /\ target' = 0 /\ paused' = TRUE
  /\ UNCHANGED <<queue, workers, previous, lockDebugger, running, hpc, stepping, scriptVars, waitVars,
                 timerVars, pauses, accidents>>

BreakAlone(w) ==
  /\ Move(w, "alone", "reached")
  /\ previous = 1 \/ Cardinality(workers) = 1
  /\ target' = 0 /\ paused' = TRUE /\ lockDebugger' = NoOne
  /\ UNCHANGED <<queue, workers, previous, running, hpc, stepping, scriptVars, waitVars, timerVars, pauses, accidents>>

BreakEnqueue(w) ==
  /\ Move(w, "reached", "callback")
  /\ queue' = Append(queue, running[w])
  /\ running' = [running EXCEPT ![w] = NoThread]
  /\ UNCHANGED <<poolVars, hpc, stepping, scriptVars, waitVars, timerVars, pauses, accidents>>

OnBreakPoint(w) ==
  /\ Move(w, "callback", "stop")
  /\ UNCHANGED <<queue, poolVars, running, hpc, stepping, scriptVars, waitVars, timerVars, pauses, accidents>>

------------------------------------------------------------------------------
HostMoves(from, to, t) == hpc = from /\ hpc' = to /\ stepping' = t
Lock   == lockDebugger = NoOne /\ lockDebugger' = Host
Unlock == lockDebugger' = NoOne

Pause ==
  /\ HostMoves("idle", "pausing", NoThread) /\ Lock
  /\ ~paused /\ pauses < MaxPause
  /\ previous' = target /\ target' = 0
  /\ pauses' = pauses + 1
  /\ UNCHANGED <<queue, workers, paused, wpc, running, scriptVars, waitVars, timerVars, accidents>>

AllHaveLeft ==
  /\ HostMoves("pausing", "idle", NoThread) /\ Unlock
  /\ workers = {}
  /\ paused' = TRUE
  /\ UNCHANGED <<queue, workers, target, previous, wpc, running, scriptVars, waitVars, timerVars, pauses, accidents>>

Resume ==
  /\ hpc = "idle" /\ lockDebugger = NoOne /\ paused
  /\ SetWorkers(previous)
  /\ paused' = FALSE
  /\ hasty' = (hasty \/ \E w \in Worker : wpc[w] \in {"reached", "callback", "stop"})
  /\ UNCHANGED <<queue, previous, lockDebugger, running, hpc, stepping, scriptVars, waitVars,
                 timerVars, pauses, raced>>

\* popDebuggableThread(); a thread that is elsewhere is "not in running".
StepBegins(t) ==
  /\ HostMoves("idle", "stepping", t) /\ Lock
  /\ paused /\ InQueue(t)
  /\ queue' = Without(t)
  /\ UNCHANGED <<workers, target, previous, paused, wpc, running, scriptVars, waitVars, timerVars, pauses, accidents>>

StepRun ==
  /\ HostMoves("stepping", "looking", stepping)
  /\ Yields(stepping) \/ Sleeps(stepping)
  /\ UNCHANGED <<poolVars, wpc, running, timerVars, pauses, accidents>>

StepFinishes ==
  /\ HostMoves("stepping", "idle", NoThread) /\ Unlock
  /\ Ends(stepping)
  /\ UNCHANGED <<workers, target, previous, paused, wpc, running, timerVars, pauses, accidents>>

\* debugBreak() locks the mutex this thread holds.
StepToBreakPoint ==
  /\ HostMoves("stepping", "relock", stepping)
  /\ Reaches(stepping)
  /\ UNCHANGED <<poolVars, wpc, running, timerVars, pauses, accidents>>

\* Mutant of StepGoesOn: the thread stays in the queue.
StepGoesOnQueued ==
  /\ HostMoves("looking", "stepping", stepping)
  /\ InQueue(stepping)
  /\ UNCHANGED <<queue, poolVars, wpc, running, scriptVars, waitVars, timerVars, pauses, accidents>>

StepGoesOn ==
  /\ HostMoves("looking", "stepping", stepping)
  /\ InQueue(stepping)
  /\ queue' = Without(stepping)
  /\ UNCHANGED <<poolVars, wpc, running, scriptVars, waitVars, timerVars, pauses, accidents>>

StepBlocked ==
  /\ HostMoves("looking", "idle", NoThread) /\ Unlock
  /\ ~InQueue(stepping)
  /\ UNCHANGED <<queue, workers, target, previous, paused, wpc, running, scriptVars, waitVars,
                 timerVars, pauses, accidents>>

\* The condition of stepOver(), stepInto() or stepOut() ends, or the host aborts it.
StepStops ==
  /\ HostMoves("stepping", "idle", NoThread) /\ Unlock
  /\ queue' = Append(queue, stepping)
  /\ UNCHANGED <<workers, target, previous, paused, wpc, running, scriptVars, waitVars, timerVars, pauses, accidents>>

KillInQueue(t) ==
  /\ hpc = "idle" /\ lockDebugger = NoOne /\ paused /\ InQueue(t)
  /\ queue' = Without(t)
  /\ gone' = gone \cup {t}
  /\ UNCHANGED <<poolVars, wpc, running, hpc, stepping, runs, stopped, waitVars, timerVars, pauses, accidents>>

KillNotInQueue(t) ==
  /\ HostMoves("idle", "killing", t) /\ Lock
  /\ paused /\ t \notin gone /\ ~InQueue(t)
  /\ UNCHANGED <<queue, workers, target, previous, paused, wpc, running, scriptVars, waitVars,
                 timerVars, pauses, accidents>>

KillInTable(i) ==
  /\ HostMoves("killing", "idle", NoThread) /\ Unlock
  /\ waitingThreads[i] = stepping
  /\ waitingThreads' = [waitingThreads EXCEPT ![i] = NoThread]
  /\ recycled' = Append(recycled, i)
  /\ gone' = gone \cup {stepping}
  /\ raced' = (raced \/ tthread = stepping)
  /\ UNCHANGED <<queue, workers, target, previous, paused, wpc, running, runs, stopped, timers,
                 timerVars, pauses, hasty>>

KillFails ==
  /\ HostMoves("killing", "idle", NoThread) /\ Unlock
  /\ stepping \notin {waitingThreads[i] : i \in WaitId}
  /\ UNCHANGED <<queue, workers, target, previous, paused, wpc, running, scriptVars, waitVars,
                 timerVars, pauses, accidents>>

------------------------------------------------------------------------------
\* resume(waitingId) of the timer thread, also while the runtime is paused. The id of a
\* thread that was killed may be in no table, or be another thread's.
Fire(i) ==
  /\ tpc = "idle" /\ timers[i] > 0
  /\ timers' = [timers EXCEPT ![i] = @ - 1]
  /\ IF waitingThreads[i] = NoThread THEN UNCHANGED timerVars
     ELSE tpc' = "wake" /\ tid' = i /\ tthread' = waitingThreads[i]
  /\ UNCHANGED <<queue, poolVars, wpc, running, hpc, stepping, scriptVars, waitingThreads, recycled, pauses, accidents>>

\* A thread destroyed meanwhile would be used here: the model goes no further.
Wake ==
  /\ tpc = "wake" /\ tthread \notin gone
  /\ queue' = Append(queue, tthread)
  /\ tpc' = "erase"
  /\ UNCHANGED <<poolVars, wpc, running, hpc, stepping, scriptVars, waitVars, tid, tthread, pauses, accidents>>

Erase ==
  /\ tpc = "erase"
  /\ waitingThreads' = [waitingThreads EXCEPT ![tid] = NoThread]
  /\ recycled' = Append(recycled, tid)
  /\ tpc' = "idle" /\ tid' = 0 /\ tthread' = NoThread
  /\ UNCHANGED <<queue, poolVars, wpc, running, hpc, stepping, scriptVars, timers, pauses, accidents>>

------------------------------------------------------------------------------
WorkerStep(w) ==
  \/ Take(w) \/ Detach(w) \/ Run(w) \/ RunToBreakPoint(w)
  \/ BreakLock(w) \/ BreakAlone(w) \/ BreakEnqueue(w) \/ OnBreakPoint(w)

HostStep ==
  \/ Pause \/ AllHaveLeft \/ Resume
  \/ \E t \in Thread : StepBegins(t) \/ KillInQueue(t) \/ KillNotInQueue(t)
  \/ StepRun \/ StepFinishes \/ StepToBreakPoint \/ StepGoesOn \/ StepBlocked \/ StepStops
  \/ \E i \in WaitId : KillInTable(i)
  \/ KillFails

TimerStep == Wake \/ Erase \/ \E i \in WaitId : Fire(i)

Next == HostStep \/ TimerStep \/ \E w \in Worker : WorkerStep(w)

Spec == Init /\ [][Next]_vars

\* Workers are threads of the system, and the wait of pause() ends when it may.
FairSpec == Spec /\ WF_vars(AllHaveLeft) /\ \A w \in Worker : WF_vars(WorkerStep(w))

------------------------------------------------------------------------------
\* While the runtime is paused no worker is in a script, or about to enter debugBreak():
\* the debugger reads frames without any lock. While it is not, no more workers are there
\* than setWorkers() was told, and as many, unless resume() has taken one that leaves a break
\* point for one that stays (hasty). (debugBreak(), pause(), resume() of RuntimeImp)
WorkersObey ==
  /\ paused => \A w \in Worker : wpc[w] \notin {"run", "break", "alone"}
  /\ ~paused /\ lockDebugger = NoOne =>
       LET staying == Cardinality({w \in workers : wpc[w] # "stop"})
       IN  staying <= target /\ (~hasty => staying = target)

\* The thread is in the hands of a worker or of a step.
HeldBy(t) == {w \in Worker : running[w] = t}
             \cup {h \in {Host} : stepping = t /\ hpc \in {"stepping", "relock"}}
Entries(t) == {i \in DOMAIN queue : queue[i] = t}
Waits(t) == {i \in WaitId : waitingThreads[i] = t /\ ~(tpc = "erase" /\ tid = i)}

\* Pausing, stepping, killing and timers that go on leave each script thread in exactly one
\* place: in the queue, in the table of waiting threads or with whoever runs it; one that
\* has ended is in none. (popDebuggableThread(), stepRun(), killThread() of RuntimeImp;
\* raced excepts killThread() on a thread that is being resumed)
ThreadOnce ==
  ~raced => \A t \in Thread :
    Cardinality(HeldBy(t)) + Cardinality(Entries(t)) + Cardinality(Waits(t))
      = IF t \in gone THEN 0 ELSE 1

\* Whoever stops the runtime, a break point or pause(), ends up with a paused one, unless
\* another worker has reached a break point meanwhile: that one waits for lockDebugger and
\* never leaves. (debugBreak() and pause() wait for cvShutdown with lockDebugger held)
Stopping == hpc = "pausing" \/ \E w \in Worker : wpc[w] = "alone"

------------------------------------------------------------------------------
(* Inductive invariants: what holds between any two steps, so that the      *)
(* properties above do (Debugger_proofs).                                   *)

\* Locals of the host and of the timer thread are set while they are used.
LocalsInv ==
  /\ hpc \in {"stepping", "looking", "relock", "killing"} => stepping \in Thread
  /\ tpc # "idle" => tthread \in Thread

\* A runtime has the workers it was told to have, or loses some until it is paused.
WorkersInv ==
  /\ paused => /\ target = 0 /\ hpc # "pausing" /\ Cardinality(workers) <= previous
               /\ \A w \in Worker : wpc[w] \notin {"idle", "run", "break", "alone"}
  /\ ~paused => /\ hpc \in {"idle", "pausing"}
                /\ ~hasty => \A w \in Worker : wpc[w] \notin {"reached", "callback", "stop"}
  /\ ~paused /\ lockDebugger = NoOne =>
       Cardinality(workers) <= target /\ (~hasty => Cardinality(workers) = target)
  /\ hpc = "pausing" => target = 0
  /\ \A w \in Worker : wpc[w] = "alone" => target = 1 /\ Cardinality(workers) <= previous

\* The places of a script thread
Running(t)  == \E w \in Worker : running[w] = t
Stepping(t) == stepping = t /\ hpc \in {"stepping", "relock"}
Waiting(t)  == \E i \in WaitId : i \in Waits(t)

OnePlace(t) ==
  /\ InQueue(t) => ~Running(t) /\ ~Stepping(t) /\ ~Waiting(t)
  /\ Running(t) => ~Stepping(t) /\ ~Waiting(t)
  /\ Stepping(t) => ~Waiting(t)
  /\ t \notin gone <=> InQueue(t) \/ Running(t) \/ Stepping(t) \/ Waiting(t)

\* It is in one of them, and there once.
PlacesInv ==
  /\ \A t \in Thread : OnePlace(t)
  /\ \A i, j \in DOMAIN queue : queue[i] = queue[j] => i = j
  /\ \A w, v \in Worker, t \in Thread : running[w] = t /\ running[v] = t => w = v
  /\ \A i, j \in WaitId, t \in Thread : i \in Waits(t) /\ j \in Waits(t) => i = j

\* The ids are those below some n, each of them in use or recycled once; the timer thread
\* in resume() has one in use.
IdsInv ==
  /\ \A j, k \in 1..Len(recycled) : recycled[j] = recycled[k] => j = k
  /\ \A k \in 1..Len(recycled) : recycled[k] \notin InTable
  /\ \E n \in 0..Cardinality(Thread) + 1 :
       \A i \in WaitId : i < n <=> i \in InTable \/ \E k \in 1..Len(recycled) : recycled[k] = i
  /\ tpc # "idle" => waitingThreads[tid] = tthread

IndInv ==
  /\ TypeOK /\ LocalsInv /\ WorkersInv
  /\ ~raced => PlacesInv /\ IdsInv
=============================================================================
