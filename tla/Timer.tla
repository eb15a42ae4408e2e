------------------------------- MODULE Timer -------------------------------
(***************************************************************************)
(* The timers of chatra (chatra_core/Timer.h, Timer.cpp): the tables of    *)
(* class Timer under lockMap, with the class that looks after them.        *)
(* EmulatedTimer invokes what is due on the thread that submits a handler  *)
(* or moves the time; SystemTimer has a thread of its own that sleeps on   *)
(* a condition variable until the next time in the table.                  *)
(***************************************************************************)
EXTENDS Integers, SequencesExt

CONSTANTS
  Handler,  \* handlers, each of them submitted at most once
  Process,  \* threads that submit handlers and move an emulated time
  MaxTime,  \* bound on the time
  Kinds     \* the classes considered

ASSUME KindAssumption == Kinds \subseteq {"System", "Emulated"} /\ Kinds # {}
ASSUME TimeAssumption == MaxTime \in Nat

Never == MaxTime + 1        \* Time::max()
Time  == 0..MaxTime

VARIABLES
  kind,         \* the class of the timer
  now,          \* EmulatedTimer::time, or the clock of the system
  timeQueue,    \* Timer::timeQueue
  map,          \* Timer::map: the handlers by id, for each time there are any
  idToTime,     \* Timer::idToTime
  recycledIds,  \* Timer::recycledIds
  nextId,       \* Timer::nextId
  at,           \* history: the time of each handler, Never before submitHandler()
  invoked,      \* history: handlers invoked
  pc,           \* where each process is, see ProcessState
  current,      \* its currentTime
  handlers,     \* what it has taken to invoke, and has not yet
  tpc,          \* where the thread of SystemTimer is, see ThreadState
  nextTime,     \* its nextTime
  taken,        \* what it has taken to invoke, and has not yet
  stop          \* SystemTimer::stop

tables      == <<timeQueue, map, idToTime, recycledIds, nextId>>
processVars == <<pc, current, handlers>>
threadVars  == <<tpc, nextTime, taken>>
vars == <<kind, now, tables, at, invoked, processVars, threadVars, stop>>

ProcessState == {"idle",
                 "inserted",  \* submitHandler() has inserted the first handler
                 "look",      \* about to compare the next time with currentTime
                 "pop",       \* in popAndInvokeHandlers()
                 "invoke",    \* ... with the handlers of one time taken out
                 "notify",    \* ~SystemTimer() has set stop
                 "join"}

ThreadState == {"look",     \* at the head of the loop of run()
                "check",    \* in wait_until(), about to look at stop
                "enter",    \* ... has seen that it is not set
                "blocked",  \* ... waiting for a notification or nextTime
                "pop", "invoke", "ended"}

\* getNextTime()
FirstTime == IF timeQueue = <<>> THEN Never ELSE Head(timeQueue)

------------------------------------------------------------------------------
Init ==
  /\ kind \in Kinds
  /\ now = 0
  /\ timeQueue = <<>> /\ map = <<>> /\ idToTime = <<>> /\ recycledIds = {} /\ nextId = 0
  /\ at = [h \in Handler |-> Never] /\ invoked = {}
  /\ pc = [p \in Process |-> "idle"]
  /\ current = [p \in Process |-> 0]
  /\ handlers = [p \in Process |-> {}]
  /\ tpc = IF kind = "System" THEN "look" ELSE "ended"
  /\ nextTime = Never /\ taken = {}
  /\ stop = FALSE

To(p, state) == pc' = [pc EXCEPT ![p] = state]

------------------------------------------------------------------------------
(* The tables.                                                             *)

Extended(f, x, y) == [z \in DOMAIN f \cup {x} |-> IF z = x THEN y ELSE f[z]]

HandlersAt(t) == IF t \in DOMAIN map THEN map[t] ELSE <<>>

\* The time is inserted where the partition of the queue is.
QueueWith(t) ==
  IF t \in DOMAIN map THEN timeQueue
  ELSE InsertAt(timeQueue, 1 + Cardinality({i \in DOMAIN timeQueue : timeQueue[i] < t}), t)

\* Which of the recycled ids is given again is left open.
FreshId == IF recycledIds = {} THEN {nextId} ELSE recycledIds

\* popAndInvokeHandlers(), in lockMap: the handlers of the first time are taken out.
Pop ==
  LET t   == Head(timeQueue)
      ids == DOMAIN map[t]
  IN  /\ timeQueue' = Tail(timeQueue)
      /\ map' = [u \in DOMAIN map \ {t} |-> map[u]]
      /\ idToTime' = [id \in DOMAIN idToTime \ ids |-> idToTime[id]]
      /\ recycledIds' = recycledIds \cup ids
      /\ UNCHANGED nextId

\* Mutant of Insert: the counter of ids is not moved on.
InsertSameId(h, t, id) ==
  /\ recycledIds' = recycledIds \ {id}
  /\ idToTime' = Extended(idToTime, id, t)
  /\ map' = Extended(map, t, Extended(HandlersAt(t), id, h))
  /\ timeQueue' = QueueWith(t)
  /\ UNCHANGED nextId

\* Mutant of Insert: the handlers of the same time are replaced.
InsertReplacing(h, t, id) ==
  /\ nextId' = IF id = nextId THEN nextId + 1 ELSE nextId
  /\ recycledIds' = recycledIds \ {id}
  /\ idToTime' = Extended(idToTime, id, t)
  /\ map' = Extended(map, t, Extended(<<>>, id, h))
  /\ timeQueue' = QueueWith(t)

\* submitHandler(), in lockMap
Insert(h, t, id) ==
  /\ nextId' = IF id = nextId THEN nextId + 1 ELSE nextId
  /\ recycledIds' = recycledIds \ {id}
  /\ idToTime' = Extended(idToTime, id, t)
  /\ map' = Extended(map, t, Extended(HandlersAt(t), id, h))
  /\ timeQueue' = QueueWith(t)

------------------------------------------------------------------------------
(* submitHandler(), increment() and the destructor, on any thread.         *)

\* Mutant of Submit: only the first handler of an empty queue is noticed.
SubmitToEmpty(p, h, t, id) ==
  /\ pc[p] = "idle" /\ ~stop
  /\ at[h] = Never
  /\ id \in FreshId
  /\ at' = [at EXCEPT ![h] = t]
  /\ Insert(h, t, id)
  /\ IF timeQueue = <<>> THEN To(p, "inserted") ELSE UNCHANGED pc
  /\ UNCHANGED <<kind, now, invoked, current, handlers, threadVars, stop>>

Submit(p, h, t, id) ==
  /\ pc[p] = "idle" /\ ~stop
  /\ at[h] = Never
  /\ id \in FreshId
  /\ at' = [at EXCEPT ![h] = t]
  /\ Insert(h, t, id)
  /\ IF t < FirstTime THEN To(p, "inserted") ELSE UNCHANGED pc
  /\ UNCHANGED <<kind, now, invoked, current, handlers, threadVars, stop>>

\* EmulatedTimer::onHandlerInserted()
ReadTime(p) ==
  /\ pc[p] = "inserted" /\ kind = "Emulated"
  /\ current' = [current EXCEPT ![p] = now]
  /\ To(p, "look")
  /\ UNCHANGED <<kind, now, tables, at, invoked, handlers, threadVars, stop>>

\* EmulatedTimer::increment()
Increment(p, t) ==
  /\ pc[p] = "idle" /\ kind = "Emulated"
  /\ now <= t
  /\ now' = t
  /\ current' = [current EXCEPT ![p] = t]
  /\ To(p, "look")
  /\ UNCHANGED <<kind, tables, at, invoked, handlers, threadVars, stop>>

\* while (getNextTime() <= currentTime) ...
Look(p) ==
  /\ pc[p] = "look"
  /\ IF FirstTime <= current[p]
       THEN To(p, "pop") /\ UNCHANGED current
       ELSE To(p, "idle") /\ current' = [current EXCEPT ![p] = 0]
  /\ UNCHANGED <<kind, now, tables, at, invoked, handlers, threadVars, stop>>

\* Mutant of PopHandlers: the time is not looked at again.
PopHandlersUnchecked(p) ==
  /\ pc[p] = "pop"
  /\ IF timeQueue = <<>>
       THEN To(p, "look") /\ UNCHANGED <<tables, handlers>>
       ELSE /\ Pop
            /\ handlers' = [handlers EXCEPT ![p] = Range(map[Head(timeQueue)])]
            /\ To(p, "invoke")
  /\ UNCHANGED <<kind, now, at, invoked, current, threadVars, stop>>

PopHandlers(p) ==
  /\ pc[p] = "pop"
  /\ IF FirstTime > current[p]
       THEN To(p, "look") /\ UNCHANGED <<tables, handlers>>
       ELSE /\ Pop
            /\ handlers' = [handlers EXCEPT ![p] = Range(map[Head(timeQueue)])]
            /\ To(p, "invoke")
  /\ UNCHANGED <<kind, now, at, invoked, current, threadVars, stop>>

Invoke(p, h) ==
  /\ pc[p] = "invoke"
  /\ h \in handlers[p]
  /\ invoked' = invoked \cup {h}
  /\ handlers' = [handlers EXCEPT ![p] = @ \ {h}]
  /\ IF handlers'[p] = {} THEN To(p, "look") ELSE UNCHANGED pc
  /\ UNCHANGED <<kind, now, tables, at, current, threadVars, stop>>

\* notify_one(), by SystemTimer::onHandlerInserted() or by the destructor
Notify(p) ==
  /\ kind = "System"
  /\ \/ pc[p] = "inserted" /\ To(p, "idle")
     \/ pc[p] = "notify" /\ To(p, "join")
  /\ tpc' = IF tpc = "blocked" THEN "check" ELSE tpc
  /\ UNCHANGED <<kind, now, tables, at, invoked, current, handlers, nextTime, taken, stop>>

\* ~SystemTimer() sets stop, without mt, when nobody uses the timer.
Destroy(p) ==
  /\ kind = "System" /\ ~stop
  /\ \A q \in Process : pc[q] = "idle"
  /\ stop' = TRUE
  /\ To(p, "notify")
  /\ UNCHANGED <<kind, now, tables, at, invoked, current, handlers, threadVars>>

Join(p) ==
  /\ pc[p] = "join" /\ tpc = "ended"
  /\ To(p, "idle")
  /\ UNCHANGED <<kind, now, tables, at, invoked, current, handlers, threadVars, stop>>

------------------------------------------------------------------------------
(* The clock of the system and SystemTimer::run().                         *)

Tick ==
  /\ kind = "System"
  /\ now < MaxTime
  /\ now' = now + 1
  /\ UNCHANGED <<kind, tables, at, invoked, processVars, threadVars, stop>>

ThreadLook ==
  /\ tpc = "look"
  /\ nextTime' = FirstTime
  /\ tpc' = "check"
  /\ UNCHANGED <<kind, now, tables, at, invoked, processVars, taken, stop>>

\* wait_until() looks at nothing but stop.
ThreadCheck ==
  /\ tpc = "check"
  /\ tpc' = IF stop THEN "ended" ELSE "enter"
  /\ UNCHANGED <<kind, now, tables, at, invoked, processVars, nextTime, taken, stop>>

\* A notification before this step is lost: nobody holds mt to notify.
ThreadBlocks ==
  /\ tpc = "enter"
  /\ tpc' = "blocked"
  /\ UNCHANGED <<kind, now, tables, at, invoked, processVars, nextTime, taken, stop>>

ThreadTimesOut ==
  /\ tpc = "blocked"
  /\ nextTime <= now
  /\ tpc' = IF stop THEN "ended" ELSE "pop"
  /\ UNCHANGED <<kind, now, tables, at, invoked, processVars, nextTime, taken, stop>>

\* The first time may be earlier than nextTime by now.
ThreadPop ==
  /\ tpc = "pop"
  /\ IF FirstTime > nextTime
       THEN tpc' = "look" /\ UNCHANGED <<tables, taken>>
       ELSE /\ Pop
            /\ taken' = Range(map[Head(timeQueue)])
            /\ tpc' = "invoke"
  /\ UNCHANGED <<kind, now, at, invoked, processVars, nextTime, stop>>

ThreadInvoke(h) ==
  /\ tpc = "invoke"
  /\ h \in taken
  /\ invoked' = invoked \cup {h}
  /\ taken' = taken \ {h}
  /\ tpc' = IF taken' = {} THEN "look" ELSE tpc
  /\ UNCHANGED <<kind, now, tables, at, processVars, nextTime, stop>>

------------------------------------------------------------------------------
ProcessStep(p) ==
  \/ ReadTime(p) \/ Look(p) \/ PopHandlers(p) \/ Notify(p) \/ Join(p)
  \/ \E h \in Handler : Invoke(p, h)

ThreadStep ==
  \/ ThreadLook \/ ThreadCheck \/ ThreadBlocks \/ ThreadTimesOut \/ ThreadPop
  \/ \E h \in Handler : ThreadInvoke(h)

Next ==
  \/ \E p \in Process :
       \/ \E h \in Handler, t \in Time, id \in FreshId : Submit(p, h, t, id)
       \/ \E t \in Time : Increment(p, t)
       \/ Destroy(p)
       \/ ProcessStep(p)
  \/ Tick
  \/ ThreadStep

Spec == Init /\ [][Next]_vars

\* Threads of the system run, and time passes.
FairSpec ==
  /\ Spec
  /\ WF_vars(Tick) /\ WF_vars(ThreadStep)
  /\ \A p \in Process : WF_vars(ProcessStep(p))

------------------------------------------------------------------------------
\* The times and handlers in use are those of the state of each thread.
\* (SystemTimer::run(), EmulatedTimer::increment())
TypeOK ==
  /\ kind \in Kinds
  /\ now \in Time
  /\ timeQueue \in Seq(Time)
  /\ DOMAIN map \subseteq Time /\ \A t \in DOMAIN map : Range(map[t]) \subseteq Handler
  /\ nextId \in Nat /\ recycledIds \subseteq 0..nextId - 1
  /\ at \in [Handler -> Time \cup {Never}] /\ invoked \subseteq Handler
  /\ pc \in [Process -> ProcessState]
  /\ current \in [Process -> Time]
  /\ handlers \in [Process -> SUBSET Handler]
  /\ \A p \in Process : pc[p] = "invoke" <=> handlers[p] # {}
  /\ tpc \in ThreadState /\ nextTime \in Time \cup {Never}
  /\ taken \subseteq Handler /\ (tpc = "invoke" <=> taken # {})
  /\ stop \in BOOLEAN

\* A handler that has been submitted is in the map, in the hands of one thread, or
\* has been invoked: none is lost, or left for two. (EmulatedTimer lets several
\* threads pop at once)
NoneLost ==
  \A h \in Handler : at[h] # Never =>
    Cardinality({t \in DOMAIN map : h \in Range(map[t])})
      + Cardinality({p \in Process : h \in handlers[p]})
      + (IF h \in taken THEN 1 ELSE 0) + (IF h \in invoked THEN 1 ELSE 0) = 1

\* The times are sorted and are the keys of the map, as asserted in
\* popAndInvokeHandlers().
QueueAgrees ==
  /\ \A i, j \in DOMAIN timeQueue : i < j => timeQueue[i] < timeQueue[j]
  /\ Range(timeQueue) = DOMAIN map

\* An id belongs to one handler or is recycled, and is found under its time.
IdsAgree ==
  /\ DOMAIN idToTime \cap recycledIds = {}
  /\ DOMAIN idToTime \cup recycledIds = 0..nextId - 1
  /\ \A id \in DOMAIN idToTime : idToTime[id] \in DOMAIN map /\ id \in DOMAIN map[idToTime[id]]
  /\ \A t \in DOMAIN map : \A id \in DOMAIN map[t] :
       id \in DOMAIN idToTime /\ idToTime[id] = t

\* The four tables agree, and no handler is lost. (Timer::submitHandler(),
\* Timer::popAndInvokeHandlers())
TablesAgree == NoneLost /\ QueueAgrees /\ IdsAgree

\* A handler that is due is never left in the map of an emulated timer: whoever might
\* have missed it is still in its loop. (EmulatedTimer::onHandlerInserted() is
\* called for a new first time only, and loops with the time it has read once)
NoneOverdue ==
  (kind = "Emulated" /\ \A p \in Process : pc[p] = "idle") => FirstTime > now

Promise == INSTANCE Alarm

\* Handlers are invoked once, and never early. (the comparison with currentTime in
\* popAndInvokeHandlers(), after the one of the loop, and the time out of run())
ImplementsAlarm == Promise!Spec

\* A script that sleeps until a time goes on when it has come, unless the timer is
\* destroyed before. (_check('after timeout', ...) of the tests, of an emulated timer;
\* SystemTimer::run() does not notice a handler submitted while it waits)
SleepEnds ==
  \A h \in Handler : (at[h] <= now) ~> (h \in invoked \/ stop)
------------------------------------------------------------------------------
(* Inductive invariants: what the tables and the threads have between any   *)
(* two steps, so that the properties above hold (Timer_proofs).             *)

\* In the map, under some time.
InMap(h) == \E t \in DOMAIN map : h \in Range(map[t])

\* A handler is under its own time, and what has been taken out was due and is not left
\* for anybody else.
PlaceInv ==
  /\ \A t \in DOMAIN map : DOMAIN map[t] # {} /\ \A h \in Range(map[t]) : at[h] = t
  /\ \A h \in Handler : at[h] # Never =>
       InMap(h) \/ h \in taken \/ h \in invoked \/ \E p \in Process : h \in handlers[p]
  /\ \A h \in invoked : at[h] <= now /\ ~ InMap(h)
  /\ \A h \in taken : at[h] <= now /\ ~ InMap(h) /\ h \notin invoked
  /\ \A p \in Process : \A h \in handlers[p] :
       at[h] <= now /\ ~ InMap(h) /\ h \notin invoked \cup taken
  /\ \A p, q \in Process : p # q => handlers[p] \cap handlers[q] = {}

\* Nobody pops with a time that has not come.
ComeInv ==
  /\ \A p \in Process : current[p] <= now
  /\ tpc = "pop" => nextTime <= now

\* When something is due in an emulated timer, a thread is in its loop with the latest
\* time, or about to read it.
DueInv ==
  kind = "Emulated" /\ FirstTime <= now =>
    \E p \in Process : \/ pc[p] = "inserted"
                       \/ pc[p] \in {"look", "pop", "invoke"} /\ current[p] = now

IndInv == TypeOK /\ QueueAgrees /\ IdsAgree /\ PlaceInv /\ ComeInv /\ DueInv
=============================================================================
