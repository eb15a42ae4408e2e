---------------------------- MODULE ConcurrentGc ----------------------------
(***************************************************************************)
(* The storage of chatra and its collector (chatra_core/MemoryManagement.h *)
(* and .cpp): workers move references between scopes and objects, create   *)
(* objects and destroy scopes, while one of them at a time, holding mtGc,  *)
(* goes on with the marking and sweeping of the current cycle in tidy(),   *)
(* and deletes what it has swept in collect().                             *)
(*                                                                         *)
(* A Holder is a Scope or an Object; refs[h] is the set of objects its     *)
(* reference nodes refer to.  A worker gets at the references of an object *)
(* by a copy of the reference to it in a scope of its own, and keeps those *)
(* it works on locked (ReferenceLock).                                     *)
(***************************************************************************)
EXTENDS Naturals, FiniteSets

CONSTANTS
  Worker,    \* threads that run scripts, and call checkGc() before
  Object,    \* objects, each of them created at most once
  Scope,     \* addresses of scopes, which are used again
  Global,    \* the scopes shared by all, never destroyed
  MaxCycle,  \* bound on the number of collector cycles
  NoObject,
  NoScope

Holder     == Scope \cup Object
Generation == 0..MaxCycle

ASSUME GlobalAssumption == Global \subseteq Scope /\ Global # {}
ASSUME CycleAssumption  == MaxCycle \in Nat
ASSUME HolderAssumption == Scope \cap Object = {} /\ NoObject \notin Holder /\ NoScope \notin Holder

VARIABLES
  refs,          \* ReferenceNode::object of the nodes of each holder
  own,           \* the scopes of the frames of each worker's thread
  born,          \* objects that have been created
  objects,       \* Storage::objects
  deleted,       \* objects that have been deleted
  gen,           \* Object::gcGeneration
  captured,      \* the CapturedScope object of each scope that has one
  pc,            \* where each worker is, see WorkerState
  new,           \* the object it works on in setObject()
  from,          \* the holder whose reference it reads, locked
  to,            \* the holder whose reference it sets, locked
  fresh,         \* whether it is in allocateWithoutLock()
  dest,          \* the holder it is to store the captured scope in
  read,          \* the generation it has read in registerObject()
  dying,         \* the scope it is destroying
  phase,         \* where the collector is, see Phase
  gcGeneration,  \* Storage::gcGeneration
  marking,       \* Storage::marking
  gcScopes,      \* Storage::gcScopes
  gcTargets,     \* Storage::gcTargets
  toSweep,       \* Storage::objects from position on
  trash,         \* Storage::trash
  raced,         \* history: one of the events described at RaceFree has happened
  doomed         \* history: what the current cycle has to delete

heapVars   == <<refs, own, born, objects, captured>>
workerVars == <<pc, new, from, to, fresh, dest, read, dying>>
cycleVars  == <<phase, gcGeneration, marking, gcScopes>>
vars == <<heapVars, workerVars, cycleVars, deleted, gen, gcTargets, toSweep, trash,
          raced, doomed>>

WorkerState == {"idle",        \* between two steps of a script
                "barrier",     \* setObject() has stored the object
                "push",        \* ... and found it not marked yet
                "register",    \* registerObject() about to enter it into objects
                "generation",  \* ... about to read the generation
                "stamp",       \* ... and to write it
                "store",       \* capture() about to store the captured scope
               "erase",       \* ~Scope() about to leave scopes
                "tidy"}        \* checkGc() or fullGc(), holding mtGc

Phase == {"Idle", "Bumped", "Armed", "MarkingScope", "MarkingObject", "Marked",
          "Sweeping"}

------------------------------------------------------------------------------
(* What scripts can get hold of.                                           *)

\* Storage::scopes
scopes == Global \cup UNION {own[w] : w \in Worker}

\* Objects a chain of references leads to from a scope.
Reachable ==
  {o \in Object : \A C \in SUBSET Object : (\A h \in scopes \cup C : refs[h] \subseteq C) => o \in C}

DyingScopes == {dying[v] : v \in Worker}

\* Another worker holds the lock of a reference from h to o.
Locked(w, h, o) ==
  \E v \in Worker \ {w} : new[v] = o /\ h \in {from[v], to[v]}

\* The objects a worker has references to
Found(w) == {o \in Object : \E s \in own[w] : o \in refs[s] /\ ~Locked(w, s, o)}

\* The holders it can use: the scopes it sees, what its own scopes refer to, and scopes of
\* others that such an object has captured.
Accessible(w) ==
  (Global \cup own[w] \cup Found(w) \cup {s \in scopes : captured[s] \in Found(w)}) \ DyingScopes

\* The reference of a CapturedScope is set by ~Scope() only.
Writable(w) == Accessible(w) \ {captured[s] : s \in scopes}

\* A temporary object of another worker keeps what that one uses.
KeptByOther(w, h, o) ==
  \E v \in Worker \ {w} : h \in own[v] /\ o \in {from[v], to[v], dest[v]}

InUse(h) == \E v \in Worker : h \in {from[v], to[v], dest[v]}

------------------------------------------------------------------------------
Init ==
  /\ refs = [h \in Holder |-> {}]
  /\ own = [w \in Worker |-> {}]
  /\ born = {} /\ objects = {} /\ deleted = {}
  /\ gen = [o \in Object |-> 0]
  /\ captured = [s \in Scope |-> NoObject]
  /\ pc = [w \in Worker |-> "idle"]
  /\ new = [w \in Worker |-> NoObject]
  /\ from = [w \in Worker |-> NoScope]
  /\ to = [w \in Worker |-> NoScope]
  /\ fresh = [w \in Worker |-> FALSE]
  /\ dest = [w \in Worker |-> NoScope]
  /\ read = [w \in Worker |-> 0]
  /\ dying = [w \in Worker |-> NoScope]
  /\ phase = "Idle"
  /\ gcGeneration = 0
  /\ marking = FALSE
  /\ gcScopes = {} /\ gcTargets = {} /\ toSweep = {} /\ trash = {}
  /\ raced = FALSE
  /\ doomed = {}

collectorVars == <<cycleVars, deleted, gcTargets, toSweep, trash, doomed>>

Finish(w, state, object) ==
  /\ pc' = [pc EXCEPT ![w] = state]
  /\ new' = [new EXCEPT ![w] = object]
  /\ from' = [from EXCEPT ![w] = NoScope]
  /\ to' = [to EXCEPT ![w] = NoScope]
  /\ fresh' = [fresh EXCEPT ![w] = FALSE]
  /\ read' = [read EXCEPT ![w] = 0]

Done(w) ==
  \/ dest[w] # NoScope /\ Finish(w, "store", new[w])
  \/ dying[w] # NoScope /\ Finish(w, "erase", NoObject)
  \/ {dest[w], dying[w]} = {NoScope} /\ Finish(w, "idle", NoObject)

------------------------------------------------------------------------------
(* Scripts.                                                                *)

NewScope(w, s) ==
  /\ pc[w] = "idle"
  /\ s \notin scopes /\ s \notin Global
  /\ captured[s] = NoObject
  /\ refs[s] = {}
  /\ own' = [own EXCEPT ![w] = @ \cup {s}]
  /\ UNCHANGED <<refs, born, objects, captured, workerVars, gen, collectorVars, raced>>

\* setObject() of a reference of h with an object read from a reference of g.
Assign(w, g, o, h) ==
  /\ pc[w] = "idle"
  /\ g \in Accessible(w) /\ h \in Writable(w)
  /\ o \in refs[g] /\ ~Locked(w, g, o)
  /\ refs' = [refs EXCEPT ![h] = @ \cup {o}]
  /\ pc' = [pc EXCEPT ![w] = "barrier"]
  /\ new' = [new EXCEPT ![w] = o]
  /\ from' = [from EXCEPT ![w] = g]
  /\ to' = [to EXCEPT ![w] = h]
  /\ UNCHANGED <<own, born, objects, captured, fresh, dest, read, dying, gen,
                 collectorVars, raced>>

\* setObject(nullptr), or setInt() and the like
SetNull(w, h, o) ==
  /\ pc[w] = "idle"
  /\ h \in Writable(w)
  /\ o \in refs[h] /\ ~Locked(w, h, o) /\ ~KeptByOther(w, h, o)
  /\ h \in Scope => captured[h] # o
  /\ refs' = [refs EXCEPT ![h] = @ \ {o}]
  /\ UNCHANGED <<own, born, objects, captured, workerVars, gen, collectorVars, raced>>

\* The first half of allocateWithoutLock(): a new object with the references in
\* content is stored in a reference of h.
Create(w, h, o, content) ==
  /\ o \notin born
  /\ born' = born \cup {o}
  /\ refs' = [refs EXCEPT ![h] = @ \cup {o}, ![o] = content]
  /\ pc' = [pc EXCEPT ![w] = "barrier"]
  /\ new' = [new EXCEPT ![w] = o]
  /\ to' = [to EXCEPT ![w] = h]
  /\ fresh' = [fresh EXCEPT ![w] = TRUE]
  /\ UNCHANGED <<own, objects, from, read, gen, collectorVars, raced>>

Allocate(w, h, o) ==
  /\ pc[w] = "idle"
  /\ h \in Writable(w)
  /\ Create(w, h, o, {})
  /\ UNCHANGED <<captured, dest, dying>>

\* Reference::capture(): a function object, of which only the reference to the
\* CapturedScope object is modelled, is to keep the variables of s.
Capture(w, s, o, h) ==
  /\ pc[w] = "idle"
  /\ s \in own[w]
  /\ h \in Writable(w)
  /\ captured[s] = NoObject
  /\ Create(w, s, o, {})
  /\ captured' = [captured EXCEPT ![s] = o]
  /\ dest' = [dest EXCEPT ![w] = h]
  /\ UNCHANGED dying

\* ... and refers to it; the later function objects of s do this only (Assign).
StoreCaptured(w) ==
  /\ pc[w] = "store"
  /\ refs' = [refs EXCEPT ![dest[w]] = @ \cup {new[w]}]
  /\ pc' = [pc EXCEPT ![w] = "barrier"]
  /\ to' = [to EXCEPT ![w] = dest[w]]
  /\ dest' = [dest EXCEPT ![w] = NoScope]
  /\ UNCHANGED <<own, born, objects, captured, new, from, fresh, read, dying, gen,
                 collectorVars, raced>>

\* ~Scope() of a scope nobody has captured
DestroyScope(w, s) ==
  /\ pc[w] = "idle"
  /\ s \in own[w] /\ ~InUse(s) /\ captured[s] = NoObject
  /\ own' = [own EXCEPT ![w] = @ \ {s}]
  /\ refs' = [refs EXCEPT ![s] = {}]
  /\ UNCHANGED <<born, objects, captured, workerVars, gen, collectorVars, raced>>

\* ~Scope() of a captured scope: its nodes are moved to a CapturedScopeObject, ...
DestroyCaptured(w, s, o) ==
  /\ pc[w] = "idle"
  /\ s \in own[w] /\ ~InUse(s) /\ captured[s] # NoObject
  /\ dying' = [dying EXCEPT ![w] = s]
  /\ Create(w, captured[s], o, refs[s])
  /\ UNCHANGED <<captured, dest>>

\* The references of s have still to be marked and are no longer where the collector
\* looks for them: the object they have been moved to counts as marked.
Overlooked(s) ==
  /\ phase \in {"Bumped", "Armed"} \/ s \in gcScopes
  /\ \E o \in refs[captured[s]] : gen[o] = gcGeneration

\* ... and it leaves scopes.
EraseScope(w) ==
  LET s == dying[w] IN
  /\ pc[w] = "erase"
  /\ own' = [own EXCEPT ![w] = @ \ {s}]
  /\ refs' = [refs EXCEPT ![s] = {}]
  /\ captured' = [captured EXCEPT ![s] = NoObject]
  /\ pc' = [pc EXCEPT ![w] = "idle"]
  /\ dying' = [dying EXCEPT ![w] = NoScope]
  /\ raced' = (raced \/ Overlooked(s))
  /\ UNCHANGED <<born, objects, new, from, to, fresh, dest, read, gen, collectorVars>>

------------------------------------------------------------------------------
(* setObject() after the store, and registerObject().                      *)

NextOf(w) ==
  IF fresh[w] THEN /\ pc' = [pc EXCEPT ![w] = "register"]
                   /\ UNCHANGED <<new, from, to, fresh, dest, read>>
              ELSE Done(w)

\* Mutant of CheckBarrier: only new objects are pushed.
CheckBarrierOfNew(w) ==
  /\ pc[w] = "barrier"
  /\ IF fresh[w] /\ marking /\ gen[new[w]] # gcGeneration
       THEN /\ pc' = [pc EXCEPT ![w] = "push"]
            /\ UNCHANGED <<new, from, to, fresh, dest, read>>
       ELSE NextOf(w)
  /\ UNCHANGED <<heapVars, dest, dying, gen, collectorVars, raced>>

\* The write barrier: an object stored during the marking is to be marked.
CheckBarrier(w) ==
  /\ pc[w] = "barrier"
  /\ IF marking /\ gen[new[w]] # gcGeneration
       THEN /\ pc' = [pc EXCEPT ![w] = "push"]
            /\ UNCHANGED <<new, from, to, fresh, dest, read>>
       ELSE NextOf(w)
  /\ UNCHANGED <<heapVars, dest, dying, gen, collectorVars, raced>>

Push(w) ==
  /\ pc[w] = "push"
  /\ gcTargets' = gcTargets \cup {new[w]}
  /\ NextOf(w)
  /\ UNCHANGED <<heapVars, dest, dying, gen, cycleVars, deleted, toSweep, trash, doomed, raced>>

\* The object gets an index the sweeping has yet to reach, or a recycled one.
Register(w) ==
  /\ pc[w] = "register"
  /\ objects' = objects \cup {new[w]}
  /\ \/ UNCHANGED toSweep
     \/ phase = "Sweeping" /\ toSweep' = toSweep \cup {new[w]}
  /\ pc' = [pc EXCEPT ![w] = "generation"]
  /\ UNCHANGED <<refs, own, born, captured, new, from, to, fresh, dest, read, dying, gen,
                 cycleVars, deleted, gcTargets, trash, doomed, raced>>

ReadGeneration(w) ==
  /\ pc[w] = "generation"
  /\ read' = [read EXCEPT ![w] = gcGeneration]
  /\ pc' = [pc EXCEPT ![w] = "stamp"]
  /\ UNCHANGED <<heapVars, new, from, to, fresh, dest, dying, gen, collectorVars, raced>>

Stamp(w) ==
  /\ pc[w] = "stamp"
  /\ gen' = [gen EXCEPT ![new[w]] = read[w]]
  /\ raced' = (raced \/ read[w] # gcGeneration \/ phase = "Bumped")
  /\ Done(w)
  /\ UNCHANGED <<heapVars, dest, dying, collectorVars>>

------------------------------------------------------------------------------
(* The collector: tidy() and collect() under mtGc.                         *)

\* A worker that runs no script has mtGc, in its own tidy() or in a later one: tidy()
\* returns, with mtGc, after any number of scopes or objects.
Collects(w) == pc[w] = "idle" /\ \A v \in Worker : pc[v] # "tidy"

GoesOn(w, state) ==
  /\ pc' = [pc EXCEPT ![w] = state]
  /\ UNCHANGED <<new, from, to, fresh, dest, read, dying>>

\* Objects that are reachable, or that the collector will mark nevertheless.
MayBeMarked ==
  LET X == gcTargets \cup ({new[w] : w \in Worker} \cap Object)
  IN  {o \in Object : \A C \in SUBSET Object :
         (X \subseteq C /\ \A h \in scopes \cup C : refs[h] \subseteq C) => o \in C}

\* beginMarkingScope(), in three steps
BeginMarking(w) ==
  /\ Collects(w) /\ phase = "Idle" /\ gcGeneration < MaxCycle
  /\ phase' = "Bumped"
  /\ gcGeneration' = gcGeneration + 1
  /\ doomed' = objects \ MayBeMarked
  /\ GoesOn(w, "tidy")
  /\ UNCHANGED <<heapVars, marking, gcScopes, deleted, gen, gcTargets, toSweep,
                 trash, raced>>

ArmBarrier(w) ==
  /\ pc[w] = "tidy" /\ phase = "Bumped"
  /\ phase' = "Armed"
  /\ marking' = TRUE
  /\ UNCHANGED <<heapVars, workerVars, gcGeneration, gcScopes, deleted, gen, gcTargets, toSweep,
                 trash, raced, doomed>>

SnapshotScopes(w) ==
  /\ pc[w] = "tidy" /\ phase = "Armed"
  /\ phase' = "MarkingScope"
  /\ gcScopes' = scopes
  /\ GoesOn(w, "idle")
  /\ UNCHANGED <<heapVars, gcGeneration, marking, deleted, gen, gcTargets, toSweep,
                 trash, raced, doomed>>

\* stepMarkingScope(), for one scope, and beginMarkingObject() after the last
MarkScope(w, s) ==
  /\ Collects(w) /\ phase = "MarkingScope"
  /\ s \in gcScopes
  /\ gcScopes' = gcScopes \ {s}
  /\ gcTargets' = IF s \in scopes
                    THEN gcTargets \cup {o \in refs[s] : gen[o] # gcGeneration}
                    ELSE gcTargets
  /\ phase' = IF gcScopes' = {} THEN "MarkingObject" ELSE phase
  /\ UNCHANGED <<heapVars, workerVars, gcGeneration, marking, deleted, gen, toSweep,
                 trash, raced, doomed>>

\* Mutant of MarkObject: a null reference is pushed as well.
MarkObjectAndNull(w, o) ==
  /\ Collects(w) /\ phase = "MarkingObject"
  /\ o \in gcTargets
  /\ gcTargets' = (gcTargets \ {o}) \cup
                  (IF gen[o] = gcGeneration THEN {} ELSE refs[o] \cup {NoObject})
  /\ gen' = [gen EXCEPT ![o] = gcGeneration]
  /\ UNCHANGED <<heapVars, workerVars, cycleVars, deleted, toSweep, trash, raced, doomed>>

\* stepMarkingObject(), for one object
MarkObject(w, o) ==
  /\ Collects(w) /\ phase = "MarkingObject"
  /\ o \in gcTargets
  /\ gcTargets' = (gcTargets \ {o}) \cup
                  (IF gen[o] = gcGeneration THEN {} ELSE refs[o])
  /\ gen' = [gen EXCEPT ![o] = gcGeneration]
  /\ UNCHANGED <<heapVars, workerVars, cycleVars, deleted, toSweep, trash, raced, doomed>>

ObjectsMarked(w) ==
  /\ Collects(w) /\ phase = "MarkingObject" /\ gcTargets = {}
  /\ phase' = "Marked"
  /\ GoesOn(w, "tidy")
  /\ UNCHANGED <<heapVars, gcGeneration, marking, gcScopes, deleted, gen, gcTargets,
                 toSweep, trash, raced, doomed>>

\* Mutant of BeginSweeping: position is not reset.
BeginSweepingAtPosition(w) ==
  /\ pc[w] = "tidy" /\ phase = "Marked"
  /\ phase' = "Sweeping"
  /\ marking' = FALSE
  /\ GoesOn(w, "idle")
  /\ UNCHANGED <<heapVars, gcGeneration, gcScopes, deleted, gen, gcTargets, toSweep,
                 trash, raced, doomed>>

\* beginSweeping()
BeginSweeping(w) ==
  /\ pc[w] = "tidy" /\ phase = "Marked"
  /\ phase' = "Sweeping"
  /\ marking' = FALSE
  /\ toSweep' = objects
  /\ GoesOn(w, "idle")
  /\ UNCHANGED <<heapVars, gcGeneration, gcScopes, deleted, gen, gcTargets,
                 trash, raced, doomed>>

\* A worker has entered o into objects and not yet written its generation.
Unstamped(o) == \E w \in Worker : new[w] = o /\ pc[w] \in {"generation", "stamp"}

\* Mutant of Sweep: the references to other unmarked objects are left alone.
SweepKeepingReferences(w, o) ==
  /\ Collects(w) /\ phase = "Sweeping"
  /\ o \in toSweep
  /\ toSweep' = toSweep \ {o}
  /\ IF gen[o] = gcGeneration
       THEN UNCHANGED <<objects, trash, raced>>
       ELSE /\ objects' = objects \ {o}
            /\ trash' = trash \cup {o}
            /\ raced' = (raced \/ Unstamped(o))
  /\ UNCHANGED <<refs, own, born, captured, workerVars, cycleVars, deleted, gen, gcTargets,
                 doomed>>

\* stepSweeping(), for one object
Sweep(w, o) ==
  /\ Collects(w) /\ phase = "Sweeping"
  /\ o \in toSweep
  /\ toSweep' = toSweep \ {o}
  /\ IF gen[o] = gcGeneration
       THEN UNCHANGED <<refs, objects, trash, raced>>
       ELSE /\ refs' = [refs EXCEPT ![o] = {p \in @ : gen[p] = gcGeneration}]
            /\ objects' = objects \ {o}
            /\ trash' = trash \cup {o}
            /\ raced' = (raced \/ Unstamped(o))
  /\ UNCHANGED <<own, born, captured, workerVars, cycleVars, deleted, gen, gcTargets, doomed>>

\* collect(), once everything has been swept
Collect(w) ==
  /\ Collects(w) /\ phase = "Sweeping" /\ toSweep = {}
  /\ phase' = "Idle"
  /\ deleted' = deleted \cup trash
  /\ trash' = {}
  /\ UNCHANGED <<heapVars, workerVars, gcGeneration, marking, gcScopes, gen, gcTargets, toSweep,
                 raced, doomed>>

------------------------------------------------------------------------------
RunScript(w) ==
  \/ \E s \in Scope : NewScope(w, s) \/ DestroyScope(w, s)
  \/ \E h \in Holder, o \in Object :
       \/ \E g \in Holder : Assign(w, g, o, h)
       \/ SetNull(w, h, o)
       \/ Allocate(w, h, o)
  \/ \E s \in Scope, o \in Object, h \in Holder : Capture(w, s, o, h)
  \/ StoreCaptured(w)
  \/ \E s \in Scope, o \in Object : DestroyCaptured(w, s, o)
  \/ EraseScope(w)

SetObject(w) ==
  CheckBarrier(w) \/ Push(w) \/ Register(w) \/ ReadGeneration(w) \/ Stamp(w)

Tidy(w) ==
  \/ BeginMarking(w) \/ ArmBarrier(w) \/ SnapshotScopes(w)
  \/ \E s \in Scope : MarkScope(w, s)
  \/ \E o \in Object : MarkObject(w, o)
  \/ ObjectsMarked(w) \/ BeginSweeping(w)
  \/ \E o \in Object : Sweep(w, o)
  \/ Collect(w)

Next == \E w \in Worker : RunScript(w) \/ SetObject(w) \/ Tidy(w)

Spec == Init /\ [][Next]_vars

------------------------------------------------------------------------------
(***************************************************************************)
(* raced records the events that break the collector as it is written:     *)
(*   - a captured scope is destroyed before the marking has come to it     *)
(*     (EraseScope);                                                       *)
(*   - an object is swept, or marked, between its entry into objects and   *)
(*     the write of its generation (Sweep, Stamp);                         *)
(*   - an object gets the new generation before the barrier is on, so that *)
(*     nothing notices what is stored in it then (Stamp).                  *)
(* The properties say that nothing else does.                              *)
(***************************************************************************)

\* The stages of the collector and the places of the workers fit the variables
\* they use: mtGc admits one worker, the targets are real objects, a worker in
\* setObject() has its object and holder, one in ~Scope() its scope.
\* (Storage::tidy(), ReferenceNode::setObject(), Scope::~Scope())
TypeOK ==
  /\ refs \in [Holder -> SUBSET Object]
  /\ own \in [Worker -> SUBSET (Scope \ Global)]
  /\ born \subseteq Object
  /\ objects \subseteq born /\ deleted \subseteq born /\ trash \subseteq born
  /\ gen \in [Object -> Generation]
  /\ captured \in [Scope -> Object \cup {NoObject}]
  /\ pc \in [Worker -> WorkerState]
  /\ new \in [Worker -> Object \cup {NoObject}]
  /\ {from, to, dest} \subseteq [Worker -> Holder \cup {NoScope}]
  /\ fresh \in [Worker -> BOOLEAN]
  /\ read \in [Worker -> Generation]
  /\ dying \in [Worker -> Scope \cup {NoScope}]
  /\ phase \in Phase
  /\ gcGeneration \in Generation
  /\ marking \in BOOLEAN
  /\ gcScopes \subseteq Scope
  /\ gcTargets \subseteq born /\ toSweep \subseteq born
  /\ raced \in BOOLEAN
  /\ doomed \subseteq born

\* Whatever a script can still get hold of is neither swept nor deleted, with
\* the races described above excepted. (Storage::stepSweeping(), README.md,
\* "Concurrent garbage collection")
LiveIsKept == ~raced => Reachable \cap (trash \cup deleted) = {}

\* No reference, neither of an object that is still to be deleted nor of the
\* collector's own queue, leads to a deleted object, and none of the trash to another
\* object of the trash: deinit() may use what the object refers to. (the loop "Remove
\* references which refer to unmarked object" of Storage::stepSweeping(), and
\* UserObjectBase::onDestroy(), which copies them into the object deinit() is called on)
NoDangling ==
  ~raced => /\ gcTargets \cap deleted = {}
            /\ \A h \in scopes \cup (born \ deleted) : refs[h] \cap deleted = {}
            /\ \A o \in trash : refs[o] \cap trash = {}

\* A cycle deletes everything that had become unreachable before it began: this is
\* why fullGc() runs two of them, the first being perhaps under way already.
\* (RuntimeImp::fullGc())
CollectedInOneCycle == phase = "Idle" => doomed \subseteq deleted

\* The races are not excepted: the closure of a captured scope keeps its variables.
\* (Thread::pop(): "references on the scope are no longer valid (except captured
\* case)", while ~Scope() hands them to an object the marking takes for marked)
CapturedIsKept == Reachable \cap (trash \cup deleted) = {}

------------------------------------------------------------------------------
(* Inductive invariants: what holds between any two steps, so that the      *)
(* properties above do (ConcurrentGc_proofs).                               *)

\* Which locals a worker uses where.
LocalsInv == \A w \in Worker :
  /\ new[w] \in Object <=> pc[w] \notin {"idle", "erase", "tidy"}
  /\ to[w] # NoScope <=> pc[w] \in {"barrier", "push", "register", "generation", "stamp"}
  /\ from[w] # NoScope => pc[w] \in {"barrier", "push"} /\ ~fresh[w]
  /\ pc[w] \in {"register", "generation", "stamp"} => fresh[w]
  /\ fresh[w] => to[w] # NoScope
  /\ dest[w] # NoScope => fresh[w] \/ pc[w] = "store"
  /\ dying[w] # NoScope => fresh[w] \/ pc[w] = "erase"
  /\ pc[w] = "store" => dest[w] # NoScope
  /\ pc[w] = "erase" => dying[w] # NoScope
  /\ NoScope \in {dest[w], dying[w]}

\* References lead to objects that are there, each scope has one owner, and one that has
\* been captured refers to its CapturedScope.
HeapInv ==
  /\ \A h \in Holder : refs[h] \subseteq born
  /\ \A o \in Object \ born : refs[o] = {} /\ gen[o] = 0
  /\ \A w \in Worker : new[w] \in born \cup {NoObject}
                      /\ {from[w], to[w], dest[w]} \subseteq Scope \cup born \cup {NoScope}
  /\ \A w, v \in Worker : w # v => own[w] \cap own[v] = {}
  /\ \A s \in Scope : captured[s] # NoObject => captured[s] \in refs[s]

\* The variables of a cycle and where it is.
CycleInv ==
  /\ marking <=> phase \in {"Armed", "MarkingScope", "MarkingObject", "Marked"}
  /\ phase # "MarkingScope" => gcScopes = {}
  /\ phase # "Sweeping" => trash = {} /\ toSweep = {}
  /\ phase # "Idle" => gcGeneration > 0
  /\ \A o \in Object : gen[o] <= gcGeneration
  /\ \A w \in Worker : read[w] <= gcGeneration

\* What is to be deleted stays out of reach, unmarked, and on its way.
Closed(M) ==
  /\ gcTargets \subseteq M
  /\ \A w \in Worker : new[w] \in M \cup {NoObject}
  /\ \A h \in scopes \cup M : refs[h] \subseteq M
DoomedInv ==
  /\ \E M \in SUBSET Object : Closed(M) /\ M \cap doomed = {}
  /\ phase = "Idle" => doomed \subseteq deleted
  /\ phase # "Idle" => \A o \in doomed : gen[o] # gcGeneration
  /\ phase \notin {"Idle", "Sweeping"} => doomed \subseteq objects
  /\ phase = "Sweeping" => doomed \subseteq toSweep \cup trash

\* A new object is nobody else's until it has its generation: the one reference to it is
\* locked.
FreshInv == \A w \in Worker : fresh[w] =>
  /\ \A h \in Holder : new[w] \in refs[h] => h = to[w]
  /\ refs[new[w]] = IF dying[w] = NoScope THEN {} ELSE refs[dying[w]]
  /\ \A v \in Worker : new[w] \notin {from[v], to[v], dest[v]} /\ (v # w => new[v] # new[w])
  /\ new[w] \in objects <=> pc[w] \in {"generation", "stamp"}
  /\ new[w] \notin trash \cup deleted
  /\ dest[w] # NoScope => to[w] \in own[w] /\ captured[to[w]] = new[w]

\* Nobody uses a scope that is being destroyed.
DyingInv == \A w \in Worker : dying[w] # NoScope =>
  /\ dying[w] \in own[w] /\ ~InUse(dying[w])
  /\ captured[dying[w]] # NoObject
  /\ fresh[w] => to[w] = captured[dying[w]] /\ new[w] \in refs[to[w]]

\* The colours of the marking: a holder that has been scanned refers to objects that are
\* marked or to be marked, ...
Marking    == phase \in {"Armed", "MarkingScope", "MarkingObject"}
Scanned(h) == Marking /\ \/ h \in Object /\ gen[h] = gcGeneration
                         \/ h \in scopes \ gcScopes /\ phase # "Armed"
Grey(o)    == gen[o] = gcGeneration \/ o \in gcTargets

\* ... or that the write barrier will push, ...
Barrier(w, h, o) == pc[w] \in {"barrier", "push"} /\ new[w] = o /\ to[w] = h

\* ... or, from the copy of a dying scope, what that scope still shows to the marking.
Sheltered(h, o) == \E w \in Worker :
  LET s == dying[w] IN
  /\ s \in Scope /\ s \in scopes
  /\ phase = "Armed" \/ s \in gcScopes
  /\ h \in refs[captured[s]] /\ o \in refs[s]

ColourInv ==
  /\ phase = "Bumped" => \A o \in Object : gen[o] # gcGeneration
  /\ \A h \in Holder : Scanned(h) =>
       \A o \in refs[h] : Grey(o) \/ Sheltered(h, o) \/ \E w \in Worker : Barrier(w, h, o)

\* A worker has what it reads from, and the object itself, from a holder that shows it to
\* the marking without its own store.
HeldBy(w, o) == \E s \in own[w] : o \in refs[s] /\ (Scanned(s) => Grey(o))
UseInv == \A w \in Worker :
  /\ from[w] \in Scope => from[w] \in scopes
  /\ from[w] \in Object => HeldBy(w, from[w])
  /\ from[w] # NoScope => new[w] \in refs[from[w]] /\
       (Scanned(from[w]) => Grey(new[w]) \/ Sheltered(from[w], new[w]))
  /\ new[w] \in Object /\ ~fresh[w] /\ from[w] = NoScope =>
       \E s \in own[w] : captured[s] = new[w] /\ (Scanned(s) => Grey(new[w]))

\* After the marking what can be used is marked, or new.
Safe(o) == gen[o] = gcGeneration \/ \E w \in Worker : fresh[w] /\ new[w] = o
SafeInv == phase \in {"Marked", "Sweeping"} =>
  /\ \A h \in Holder : (h \in Object => Safe(h) \/ h \in trash) /\ (h \in Scope => h \in scopes)
                       => \A o \in refs[h] : Safe(o)
  /\ \A w \in Worker : new[w] \in Object => Safe(new[w])
  /\ \A o \in gcTargets : Safe(o)

\* What has been deleted is in no table and no reference; what has not is in one.
Entering(o) == \E w \in Worker : fresh[w] /\ new[w] = o /\ pc[w] \in {"barrier", "push", "register"}
DeadInv ==
  /\ objects \cap (trash \cup deleted) = {} /\ toSweep \subseteq objects
  /\ \A o \in born : o \in objects \cup trash \cup deleted \/ Entering(o)
  /\ \A o \in trash \cup deleted : gen[o] # gcGeneration
  /\ phase = "Sweeping" =>
       \A o \in born \ (trash \cup deleted) : Safe(o) \/ o \in toSweep
  /\ gcTargets \cap deleted = {}
  /\ \A w \in Worker : new[w] \notin deleted
  /\ \A h \in scopes \cup (born \ deleted) : refs[h] \cap deleted = {}

IndInv ==
  /\ TypeOK /\ LocalsInv /\ HeapInv /\ CycleInv /\ DoomedInv
  /\ ~raced => FreshInv /\ DyingInv /\ ColourInv /\ UseInv /\ SafeInv /\ DeadInv
=============================================================================
