------------------------- MODULE ConcurrentGc_proofs -------------------------
(***************************************************************************)
(* Proofs about the collector, for any workers, objects and scopes and any *)
(* number of cycles.                                                       *)
(***************************************************************************)
EXTENDS ConcurrentGc, TLAPS

USE GlobalAssumption, CycleAssumption, HolderAssumption

------------------------------------------------------------------------------
(* Steps and whose locals they change.                                     *)

Creates(w) == \/ \E h \in Holder, o \in Object : Allocate(w, h, o)
              \/ \E s \in Scope, o \in Object, h \in Holder : Capture(w, s, o, h)
              \/ \E s \in Scope, o \in Object : DestroyCaptured(w, s, o)

localVars == <<pc, new, from, to, fresh, dest, read, dying>>

OthersKeep(w) == \A v \in Worker \ {w} :
  /\ pc'[v] = pc[v] /\ new'[v] = new[v] /\ from'[v] = from[v] /\ to'[v] = to[v]
  /\ fresh'[v] = fresh[v] /\ dest'[v] = dest[v] /\ read'[v] = read[v] /\ dying'[v] = dying[v]
  /\ own'[v] = own[v]

HeapType ==
  /\ refs \in [Holder -> SUBSET Object]
  /\ own \in [Worker -> SUBSET (Scope \ Global)]
  /\ born \subseteq Object
  /\ objects \subseteq born
  /\ captured \in [Scope -> Object \cup {NoObject}]

WorkerType ==
  /\ pc \in [Worker -> WorkerState]
  /\ new \in [Worker -> Object \cup {NoObject}]
  /\ from \in [Worker -> Holder \cup {NoScope}]
  /\ to \in [Worker -> Holder \cup {NoScope}]
  /\ dest \in [Worker -> Holder \cup {NoScope}]
  /\ fresh \in [Worker -> BOOLEAN]
  /\ read \in [Worker -> Generation]
  /\ dying \in [Worker -> Scope \cup {NoScope}]

CycleType ==
  /\ deleted \subseteq born /\ trash \subseteq born
  /\ gen \in [Object -> Generation]
  /\ phase \in Phase
  /\ gcGeneration \in Generation
  /\ marking \in BOOLEAN
  /\ gcScopes \subseteq Scope
  /\ gcTargets \subseteq born /\ toSweep \subseteq born
  /\ raced \in BOOLEAN
  /\ doomed \subseteq born

LEMMA TypeParts == TypeOK <=> HeapType /\ WorkerType /\ CycleType
BY DEF TypeOK, HeapType, WorkerType, CycleType

LEMMA FinishKeeps ==
  ASSUME WorkerType, NEW w \in Worker, NEW state \in WorkerState, NEW o \in Object \cup {NoObject},
         Finish(w, state, o), UNCHANGED <<dest, dying, own>>
  PROVE  /\ WorkerType' /\ OthersKeep(w)
         /\ pc'[w] = state /\ new'[w] = o /\ from'[w] = NoScope /\ to'[w] = NoScope
         /\ fresh'[w] = FALSE /\ read'[w] = 0
<1>1. 0 \in Generation
  BY DEF Generation
<1>. QED BY <1>1 DEF Finish, WorkerType, OthersKeep

\* Where a worker goes on after setObject().
Onward(w) ==
  \/ dest[w] # NoScope /\ pc'[w] = "store" /\ new'[w] = new[w]
  \/ dying[w] # NoScope /\ pc'[w] = "erase" /\ new'[w] = NoObject
  \/ dest[w] = NoScope /\ dying[w] = NoScope /\ pc'[w] = "idle" /\ new'[w] = NoObject

LEMMA DoneKeeps ==
  ASSUME WorkerType, NEW w \in Worker, Done(w), UNCHANGED <<dest, dying, own>>
  PROVE  /\ WorkerType' /\ OthersKeep(w)
         /\ Onward(w)
         /\ from'[w] = NoScope /\ to'[w] = NoScope /\ fresh'[w] = FALSE
         /\ dest'[w] = dest[w] /\ dying'[w] = dying[w]
<1>1. new[w] \in Object \cup {NoObject}
  BY DEF WorkerType
<1>2. {"store", "erase", "idle"} \subseteq WorkerState
  BY DEF WorkerState
<1>3. CASE dest[w] # NoScope /\ Finish(w, "store", new[w])
  BY <1>1, <1>2, <1>3, FinishKeeps DEF Onward
<1>4. CASE dying[w] # NoScope /\ Finish(w, "erase", NoObject)
  BY <1>2, <1>4, FinishKeeps DEF Onward
<1>5. CASE {dest[w], dying[w]} = {NoScope} /\ Finish(w, "idle", NoObject)
  BY <1>2, <1>5, FinishKeeps, ZenonT(60) DEF Onward
<1>. QED BY <1>3, <1>4, <1>5 DEF Done

LEMMA AccessKinds ==
  ASSUME TypeOK, NEW w \in Worker, NEW h \in Accessible(w)
  PROVE  \/ h \in scopes /\ h \in Scope /\ h \notin DyingScopes
         \/ h \in Object /\ \E s \in own[w] : s \in Scope /\ s \in scopes /\ h \in refs[s] /\ ~Locked(w, s, h)
<1>1. own[w] \subseteq Scope /\ own[w] \subseteq scopes /\ Global \subseteq scopes
  BY DEF TypeOK, scopes
<1>2. CASE h \in Found(w)
  BY <1>1, <1>2 DEF Found
<1>3. CASE h \notin Found(w)
  <2>1. h \in scopes /\ h \notin DyingScopes
    BY <1>1, <1>3 DEF Accessible
  <2>2. scopes \subseteq Scope
    BY DEF TypeOK, scopes
  <2>. QED BY <2>1, <2>2
<1>. QED BY <1>2, <1>3

LEMMA AccessThere ==
  ASSUME TypeOK, HeapInv, NEW w \in Worker, NEW h \in Accessible(w)
  PROVE  h \in Holder /\ (h \in Object => h \in born)
<1>1. scopes \subseteq Holder /\ Scope \subseteq Holder
  BY DEF TypeOK, scopes, Holder
<1>2. CASE h \in scopes /\ h \in Scope
  BY <1>1, <1>2
<1>3. CASE h \in Object /\ \E s \in own[w] : s \in Scope /\ h \in refs[s]
  BY <1>1, <1>3 DEF HeapInv, Holder
<1>. QED BY <1>2, <1>3, AccessKinds

\* What allocateWithoutLock() does first, whoever calls it.
Created(w, h, o, content) ==
  /\ pc[w] = "idle" /\ pc'[w] = "barrier"
  /\ o \in Object \ born /\ h \in Holder /\ h # o /\ content \subseteq born
  /\ \A x \in Holder : refs'[x] = IF x = o THEN content ELSE
                                  IF x = h THEN refs[h] \cup {o} ELSE refs[x]
  /\ born' = born \cup {o}
  /\ OthersKeep(w)
  /\ new'[w] = o /\ to'[w] = h /\ from'[w] = NoScope /\ fresh'[w] = TRUE
  /\ UNCHANGED <<own, objects, read, gen, collectorVars, raced>>

Allocated(w, h, o) ==
  /\ Created(w, h, o, {})
  /\ h \in Writable(w)
  /\ captured' = captured /\ dest'[w] = NoScope /\ dying'[w] = NoScope
CapturedNow(w, h, o, k) ==
  /\ Created(w, h, o, {})
  /\ h \in own[w] /\ captured[h] = NoObject /\ captured' = [captured EXCEPT ![h] = o]
  /\ k \in Writable(w) /\ dest'[w] = k /\ dying'[w] = NoScope
Emptied(w, h, o, s) ==
  /\ Created(w, h, o, refs[s])
  /\ s \in own[w] /\ ~InUse(s) /\ captured[s] = h /\ h # NoObject
  /\ captured' = captured /\ dest'[w] = NoScope /\ dying'[w] = s

Makes(w, h, o) ==
  \/ Allocated(w, h, o)
  \/ \E k \in Holder : CapturedNow(w, h, o, k)
  \/ \E s \in Scope : Emptied(w, h, o, s)

LEMMA Idle ==
  ASSUME LocalsInv, NEW w \in Worker, pc[w] \in {"idle", "tidy"}
  PROVE  new[w] \notin Object /\ from[w] = NoScope /\ to[w] = NoScope /\ ~fresh[w]
         /\ dest[w] = NoScope /\ dying[w] = NoScope
BY DEF LocalsInv

LEMMA CreateEffect ==
  ASSUME TypeOK, NEW w \in Worker, NEW h \in Holder, NEW o \in Object, NEW content \in SUBSET born,
         pc[w] = "idle", from[w] = NoScope, Create(w, h, o, content), h # o,
         \A v \in Worker \ {w} : dest'[v] = dest[v] /\ dying'[v] = dying[v]
  PROVE  Created(w, h, o, content)
<1>1. \A v \in Worker : refs \in [Holder -> SUBSET Object] /\ o \in Holder
  BY DEF TypeOK, Holder
<1>2. \A x \in Holder : refs'[x] = IF x = o THEN content ELSE
                                  IF x = h THEN refs[h] \cup {o} ELSE refs[x]
  BY <1>1 DEF Create, TypeOK, Holder
<1>3. pc'[w] = "barrier" /\ new'[w] = o /\ to'[w] = h /\ from'[w] = NoScope /\ fresh'[w] = TRUE
  BY DEF Create, TypeOK
<1>4. OthersKeep(w)
  BY DEF Create, TypeOK, OthersKeep
<1>. QED BY <1>2, <1>3, <1>4 DEF Created, Create

LEMMA Creation ==
  ASSUME TypeOK, LocalsInv, HeapInv, NEW w \in Worker, Creates(w)
  PROVE  \E h \in Holder, o \in Object : Makes(w, h, o)
<1>. USE DEF Writable
<1>1. ASSUME NEW h \in Holder, NEW o \in Object, Allocate(w, h, o)
      PROVE  Allocated(w, h, o)
  <2>1. pc[w] = "idle" /\ h \in Accessible(w) /\ Create(w, h, o, {}) /\ UNCHANGED <<captured, dest, dying>>
    BY <1>1 DEF Allocate
  <2>2. h # o /\ from[w] = NoScope /\ dest[w] = NoScope /\ dying[w] = NoScope
    BY <2>1, AccessThere, Idle DEF Create
  <2>3. Created(w, h, o, {})
    BY <2>1, <2>2, CreateEffect
  <2>. QED BY <1>1, <2>1, <2>2, <2>3 DEF Allocated, Allocate
<1>2. ASSUME NEW s \in Scope, NEW o \in Object, NEW h \in Holder, Capture(w, s, o, h)
      PROVE  CapturedNow(w, s, o, h)
  <2>1. pc[w] = "idle" /\ Create(w, s, o, {}) /\ dest' = [dest EXCEPT ![w] = h] /\ UNCHANGED dying
    BY <1>2 DEF Capture
  <2>2. s # o /\ s \in Holder /\ from[w] = NoScope /\ dest[w] = NoScope /\ dying[w] = NoScope
    BY <2>1, Idle DEF Holder
  <2>3. dest'[w] = h /\ \A v \in Worker \ {w} : dest'[v] = dest[v] /\ dying'[v] = dying[v]
    BY <2>1 DEF TypeOK
  <2>4. Created(w, s, o, {})
    BY <2>1, <2>2, <2>3, CreateEffect
  <2>. QED BY <1>2, <2>1, <2>2, <2>3, <2>4 DEF CapturedNow, Capture
<1>3. ASSUME NEW s \in Scope, NEW o \in Object, DestroyCaptured(w, s, o)
      PROVE  captured[s] \in Holder /\ Emptied(w, captured[s], o, s)
  <2>1. pc[w] = "idle" /\ Create(w, captured[s], o, refs[s]) /\ dying' = [dying EXCEPT ![w] = s]
        /\ UNCHANGED <<captured, dest>> /\ captured[s] # NoObject
    BY <1>3 DEF DestroyCaptured
  <2>2. s \in Holder /\ captured[s] \in Object /\ captured[s] \in Holder /\ refs[s] \subseteq born /\ captured[s] \in born
    BY <2>1 DEF TypeOK, HeapInv, Holder
  <2>3. captured[s] # o /\ from[w] = NoScope /\ dest[w] = NoScope
    BY <2>1, <2>2, Idle DEF Create
  <2>4. dying'[w] = s /\ \A v \in Worker \ {w} : dest'[v] = dest[v] /\ dying'[v] = dying[v]
    BY <2>1 DEF TypeOK
  <2>5. Created(w, captured[s], o, refs[s])
    BY <2>1, <2>2, <2>3, <2>4, CreateEffect
  <2>. QED BY <1>3, <2>1, <2>2, <2>3, <2>4, <2>5 DEF Emptied, DestroyCaptured
<1>4. CASE \E h \in Holder, o \in Object : Allocate(w, h, o)
  BY <1>1, <1>4 DEF Makes
<1>5. CASE \E s \in Scope, o \in Object, h \in Holder : Capture(w, s, o, h)
  <2>1. PICK s \in Scope, o \in Object, h \in Holder : Capture(w, s, o, h)
    BY <1>5
  <2>2. s \in Holder /\ CapturedNow(w, s, o, h)
    BY <2>1, <1>2 DEF Holder
  <2>. QED BY <2>2 DEF Makes
<1>6. CASE \E s \in Scope, o \in Object : DestroyCaptured(w, s, o)
  <2>1. PICK s \in Scope, o \in Object : DestroyCaptured(w, s, o)
    BY <1>6
  <2>2. captured[s] \in Holder /\ Emptied(w, captured[s], o, s)
    BY <2>1, <1>3
  <2>. QED BY <2>2 DEF Makes
<1>. QED BY <1>4, <1>5, <1>6 DEF Creates

\* The other steps of a script and of setObject().
Stores(w, o, g, h) ==
  /\ pc'[w] = "barrier" /\ new'[w] = o /\ from'[w] = g /\ to'[w] = h /\ ~fresh'[w]
  /\ dest'[w] = NoScope /\ dying'[w] = NoScope
  /\ \A x \in Holder : refs'[x] = IF x = h THEN refs[h] \cup {o} ELSE refs[x]
  /\ OthersKeep(w)
  /\ UNCHANGED <<own, born, objects, captured, fresh, read, dying, gen, collectorVars, raced>>

Moves(w, state) ==
  /\ pc' = [pc EXCEPT ![w] = state] /\ OthersKeep(w)
  /\ UNCHANGED <<new, from, to, fresh, dest, read, dying, own>>

Leaves(w) ==
  /\ ~fresh[w] /\ pc'[w] = "idle" /\ new'[w] = NoObject /\ from'[w] = NoScope /\ to'[w] = NoScope
  /\ ~fresh'[w] /\ dest'[w] = NoScope /\ dying'[w] = NoScope /\ OthersKeep(w)
  /\ UNCHANGED <<dest, dying, own>>

LEMMA AssignEffect ==
  ASSUME TypeOK, LocalsInv, NEW w \in Worker, NEW g \in Holder, NEW o \in Object, NEW h \in Holder,
         Assign(w, g, o, h)
  PROVE  Stores(w, o, g, h) /\ pc[w] = "idle"
<1>. USE DEF Assign
<1>1. pc[w] = "idle" /\ ~fresh[w] /\ dest[w] = NoScope /\ dying[w] = NoScope
  BY Idle
<1>2. \A x \in Holder : refs'[x] = IF x = h THEN refs[h] \cup {o} ELSE refs[x]
  BY DEF TypeOK
<1>3. OthersKeep(w)
  BY DEF TypeOK, OthersKeep
<1>4. pc'[w] = "barrier" /\ new'[w] = o /\ from'[w] = g /\ to'[w] = h
  BY DEF TypeOK
<1>. QED BY <1>1, <1>2, <1>3, <1>4 DEF Stores

LEMMA StoreEffect ==
  ASSUME TypeOK, LocalsInv, NEW w \in Worker, StoreCaptured(w)
  PROVE  Stores(w, new[w], NoScope, dest[w]) /\ dest[w] \in Holder /\ new[w] \in Object
         /\ pc[w] = "store"
<1>. USE DEF StoreCaptured
<1>1. pc[w] = "store" /\ ~fresh[w] /\ from[w] = NoScope /\ dest[w] # NoScope /\ dying[w] = NoScope /\ new[w] \in Object
  BY DEF LocalsInv
<1>0. dest[w] \in Holder
  BY <1>1 DEF TypeOK
<1>2. \A x \in Holder : refs'[x] = IF x = dest[w] THEN refs[dest[w]] \cup {new[w]} ELSE refs[x]
  BY <1>0 DEF TypeOK
<1>3. OthersKeep(w)
  BY DEF TypeOK, OthersKeep
<1>4. pc'[w] = "barrier" /\ new'[w] = new[w] /\ from'[w] = NoScope /\ to'[w] = dest[w] /\ dest'[w] = NoScope
  BY <1>1 DEF TypeOK
<1>. QED BY <1>0, <1>1, <1>2, <1>3, <1>4 DEF Stores

LEMMA NextOfEffect ==
  ASSUME TypeOK, LocalsInv, NEW w \in Worker, pc[w] \in {"barrier", "push"}, NextOf(w), UNCHANGED <<dest, dying, own>>
  PROVE  \/ fresh[w] /\ Moves(w, "register")
         \/ Leaves(w)
<1>1. CASE fresh[w]
  BY <1>1 DEF NextOf, Moves, OthersKeep, TypeOK
<1>2. CASE ~fresh[w]
  <2>1. dest[w] = NoScope /\ dying[w] = NoScope /\ Done(w)
    BY <1>2 DEF NextOf, LocalsInv
  <2>2. WorkerType
    BY TypeParts
  <2>. QED BY <1>2, <2>1, <2>2, DoneKeeps DEF Leaves, Onward
<1>. QED BY <1>1, <1>2

LEMMA BarrierEffect ==
  ASSUME TypeOK, LocalsInv, NEW w \in Worker, CheckBarrier(w)
  PROVE  /\ UNCHANGED <<refs, own, born, objects, captured, gen, collectorVars, raced>>
         /\ \/ marking /\ gen[new[w]] # gcGeneration /\ Moves(w, "push")
            \/ (marking => gen[new[w]] = gcGeneration) /\ fresh[w] /\ Moves(w, "register")
            \/ (marking => gen[new[w]] = gcGeneration) /\ Leaves(w)
<1>1. UNCHANGED <<refs, own, born, objects, captured, gen, collectorVars, raced>> /\ UNCHANGED <<dest, dying>> /\ pc[w] = "barrier"
  BY DEF CheckBarrier, heapVars
<1>2. CASE marking /\ gen[new[w]] # gcGeneration
  BY <1>1, <1>2 DEF CheckBarrier, Moves, OthersKeep, TypeOK
<1>3. CASE ~ (marking /\ gen[new[w]] # gcGeneration)
  BY <1>1, <1>3, NextOfEffect DEF CheckBarrier
<1>. QED BY <1>1, <1>2, <1>3

LEMMA PushEffect ==
  ASSUME TypeOK, LocalsInv, NEW w \in Worker, Push(w)
  PROVE  /\ UNCHANGED <<refs, own, born, objects, captured, gen, cycleVars, deleted, toSweep, trash, doomed, raced>>
         /\ gcTargets' = gcTargets \cup {new[w]}
         /\ \/ fresh[w] /\ Moves(w, "register")
            \/ Leaves(w)
<1>1. pc[w] = "push" /\ NextOf(w) /\ UNCHANGED <<dest, dying, own>>
  BY DEF Push, heapVars
<1>. QED BY <1>1, NextOfEffect DEF Push, heapVars

LEMMA StampEffect ==
  ASSUME TypeOK, LocalsInv, NEW w \in Worker, Stamp(w)
  PROVE  /\ UNCHANGED <<refs, own, born, objects, captured, collectorVars>>
         /\ pc[w] = "stamp" /\ fresh[w] /\ new[w] \in Object
         /\ \A o \in Object : gen'[o] = IF o = new[w] THEN read[w] ELSE gen[o]
         /\ ~raced' => ~raced /\ read[w] = gcGeneration /\ phase # "Bumped"
         /\ OthersKeep(w) /\ Onward(w)
         /\ from'[w] = NoScope /\ to'[w] = NoScope /\ ~fresh'[w]
         /\ dest'[w] = dest[w] /\ dying'[w] = dying[w] /\ UNCHANGED <<dest, dying>>
<1>1. pc[w] = "stamp" /\ Done(w) /\ UNCHANGED <<dest, dying, own>>
  BY DEF Stamp, heapVars
<1>2. WorkerType
  BY TypeParts
<1>3. fresh[w] /\ new[w] \in Object
  BY <1>1 DEF LocalsInv
<1>4. \A o \in Object : gen'[o] = IF o = new[w] THEN read[w] ELSE gen[o]
  BY DEF Stamp, TypeOK
<1>. QED BY <1>1, <1>2, <1>3, <1>4, DoneKeeps DEF Stamp, heapVars

\* The collector is no script: whoever runs it has nothing else under way.
TidyEffect(w) ==
  /\ UNCHANGED <<own, born, captured, new, from, to, fresh, dest, read, dying>>
  /\ \A v \in Worker : pc'[v] = pc[v] \/ {pc[v], pc'[v]} \subseteq {"idle", "tidy"}

LEMMA TidyKeeps ==
  ASSUME TypeOK, NEW w \in Worker, Tidy(w)
  PROVE  TidyEffect(w) /\ pc' \in [Worker -> WorkerState]
<1>. USE DEF TidyEffect, heapVars, workerVars
<1>0. \A state \in WorkerState : pc[w] \in {"idle", "tidy"} /\ GoesOn(w, state) /\ state \in {"idle", "tidy"}
        => pc' \in [Worker -> WorkerState]
           /\ \A v \in Worker : pc'[v] = pc[v] \/ {pc[v], pc'[v]} \subseteq {"idle", "tidy"}
  BY DEF GoesOn, TypeOK
<1>1. {"idle", "tidy"} \subseteq WorkerState
  BY DEF WorkerState
<1>2. CASE BeginMarking(w)
  BY <1>0, <1>1, <1>2 DEF BeginMarking, Collects, GoesOn
<1>3. CASE ArmBarrier(w)
  BY <1>3 DEF ArmBarrier, TypeOK
<1>4. CASE SnapshotScopes(w)
  BY <1>0, <1>1, <1>4 DEF SnapshotScopes, GoesOn
<1>5. CASE \E s \in Scope : MarkScope(w, s)
  BY <1>5 DEF MarkScope, TypeOK
<1>6. CASE \E o \in Object : MarkObject(w, o)
  BY <1>6 DEF MarkObject, TypeOK
<1>7. CASE ObjectsMarked(w)
  BY <1>0, <1>1, <1>7 DEF ObjectsMarked, Collects, GoesOn
<1>8. CASE BeginSweeping(w)
  BY <1>0, <1>1, <1>8 DEF BeginSweeping, GoesOn
<1>9. CASE \E o \in Object : Sweep(w, o)
  BY <1>9 DEF Sweep, TypeOK
<1>10. CASE Collect(w)
  BY <1>10 DEF Collect, TypeOK
<1>. QED BY <1>2, <1>3, <1>4, <1>5, <1>6, <1>7, <1>8, <1>9, <1>10 DEF Tidy

------------------------------------------------------------------------------
(* Types and locals.                                                       *)

LEMMA NewBorn ==
  ASSUME LocalsInv, HeapInv, NEW w \in Worker, pc[w] \notin {"idle", "erase", "tidy"}
  PROVE  new[w] \in Object /\ new[w] \in born
<1>1. new[w] \in Object /\ NoObject \notin Object
  BY DEF LocalsInv, Holder
<1>. QED BY <1>1 DEF HeapInv

LEMMA WorkerTypeStep ==
  ASSUME TypeOK, LocalsInv, HeapInv, NEW w \in Worker, RunScript(w) \/ SetObject(w) \/ Tidy(w)
  PROVE  WorkerType'
<1>0. WorkerType /\ HeapType /\ CycleType
  BY TypeParts
<1>. USE <1>0 DEF WorkerType
<1>1. {"idle", "barrier", "push", "register", "generation", "stamp", "store", "erase", "tidy"} \subseteq WorkerState
  BY DEF WorkerState
<1>2. ASSUME NEW s \in Scope, NewScope(w, s) \/ DestroyScope(w, s) PROVE WorkerType'
  BY <1>2 DEF NewScope, DestroyScope, workerVars
<1>3. ASSUME NEW g \in Holder, NEW o \in Object, NEW h \in Holder, Assign(w, g, o, h) PROVE WorkerType'
  BY <1>1, <1>3 DEF Assign
<1>4. ASSUME NEW o \in Object, NEW h \in Holder, SetNull(w, h, o) PROVE WorkerType'
  BY <1>4 DEF SetNull, workerVars
<1>5. ASSUME NEW o \in Object, NEW h \in Holder, Allocate(w, h, o) PROVE WorkerType'
  BY <1>1, <1>5 DEF Allocate, Create
<1>6. ASSUME NEW s \in Scope, NEW o \in Object, NEW h \in Holder, Capture(w, s, o, h) PROVE WorkerType'
  BY <1>1, <1>6 DEF Capture, Create, Holder
<1>7. ASSUME NEW s \in Scope, NEW o \in Object, DestroyCaptured(w, s, o) PROVE WorkerType'
  <2>1. captured[s] \in Holder
    BY <1>7 DEF DestroyCaptured, HeapType, Holder
  <2>. QED BY <1>1, <1>7, <2>1 DEF DestroyCaptured, Create
<1>8. ASSUME StoreCaptured(w) PROVE WorkerType'
  <2>1. dest[w] \in Holder /\ NoScope \in Holder \cup {NoScope}
    BY <1>8, StoreEffect
  <2>. QED BY <1>1, <1>8, <2>1 DEF StoreCaptured
<1>9. ASSUME EraseScope(w) PROVE WorkerType'
  BY <1>1, <1>9 DEF EraseScope
<1>10. ASSUME NextOf(w), UNCHANGED <<dest, dying, own>> PROVE WorkerType'
  BY <1>1, <1>10, DoneKeeps DEF NextOf
<1>11. ASSUME CheckBarrier(w) PROVE WorkerType'
  BY <1>1, <1>10, <1>11 DEF CheckBarrier, heapVars
<1>12. ASSUME Push(w) PROVE WorkerType'
  BY <1>10, <1>12 DEF Push, heapVars
<1>13. ASSUME Register(w) PROVE WorkerType'
  BY <1>1, <1>13 DEF Register
<1>14. ASSUME ReadGeneration(w) PROVE WorkerType'
  BY <1>1, <1>14 DEF ReadGeneration, CycleType
<1>15. ASSUME Stamp(w) PROVE WorkerType'
  BY <1>15, DoneKeeps DEF Stamp, heapVars
<1>16. ASSUME Tidy(w) PROVE WorkerType'
  BY <1>16, TidyKeeps DEF TidyEffect
<1>. QED BY <1>2, <1>3, <1>4, <1>5, <1>6, <1>7, <1>8, <1>9, <1>11, <1>12, <1>13, <1>14, <1>15, <1>16
       DEF RunScript, SetObject

LEMMA HeapTypeStep ==
  ASSUME TypeOK, LocalsInv, HeapInv, NEW w \in Worker, RunScript(w) \/ SetObject(w) \/ Tidy(w)
  PROVE  HeapType'
<1>0. HeapType
  BY TypeParts
<1>. USE <1>0 DEF HeapType
<1>1. ASSUME NEW s \in Scope, NewScope(w, s) \/ DestroyScope(w, s) PROVE HeapType'
  BY <1>1 DEF NewScope, DestroyScope
<1>2. ASSUME NEW g \in Holder, NEW o \in Object, NEW h \in Holder, Assign(w, g, o, h) PROVE HeapType'
  BY <1>2 DEF Assign
<1>3. ASSUME NEW o \in Object, NEW h \in Holder, SetNull(w, h, o) PROVE HeapType'
  BY <1>3 DEF SetNull
<1>4. ASSUME NEW o \in Object, NEW h \in Holder, NEW c \in SUBSET Object, Create(w, h, o, c)
      PROVE refs' \in [Holder -> SUBSET Object] /\ own' = own /\ born' \subseteq Object /\ objects' \subseteq born'
  BY <1>4 DEF Create
<1>5. ASSUME NEW o \in Object, NEW h \in Holder, Allocate(w, h, o) PROVE HeapType'
  BY <1>4, <1>5 DEF Allocate
<1>6. ASSUME NEW s \in Scope, NEW o \in Object, NEW h \in Holder, Capture(w, s, o, h) PROVE HeapType'
  BY <1>4, <1>6 DEF Capture, Holder
<1>7. ASSUME NEW s \in Scope, NEW o \in Object, DestroyCaptured(w, s, o) PROVE HeapType'
  <2>1. captured[s] \in Holder /\ refs[s] \in SUBSET Object
    BY <1>7 DEF DestroyCaptured, Holder
  <2>. QED BY <1>4, <1>7, <2>1 DEF DestroyCaptured
<1>8. ASSUME StoreCaptured(w) PROVE HeapType'
  BY <1>8, StoreEffect DEF StoreCaptured
<1>9. ASSUME EraseScope(w) PROVE HeapType'
  BY <1>9 DEF EraseScope
<1>10. ASSUME CheckBarrier(w) \/ Push(w) \/ ReadGeneration(w) \/ Stamp(w) PROVE HeapType'
  BY <1>10 DEF CheckBarrier, Push, ReadGeneration, Stamp, heapVars
<1>11. ASSUME Register(w) PROVE HeapType'
  BY <1>11, NewBorn DEF Register
<1>12. ASSUME Tidy(w) PROVE HeapType'
  <2>1. CASE \E o \in Object : Sweep(w, o)
    BY <2>1 DEF Sweep
  <2>2. CASE ~ (\E o \in Object : Sweep(w, o))
    BY <1>12, <2>2 DEF Tidy, BeginMarking, ArmBarrier, SnapshotScopes, MarkScope, MarkObject, ObjectsMarked,
       BeginSweeping, Collect, heapVars
  <2>. QED BY <2>1, <2>2
<1>. QED BY <1>1, <1>2, <1>3, <1>5, <1>6, <1>7, <1>8, <1>9, <1>10, <1>11, <1>12 DEF RunScript, SetObject

LEMMA CycleTypeStep ==
  ASSUME TypeOK, LocalsInv, HeapInv, NEW w \in Worker, RunScript(w) \/ SetObject(w) \/ Tidy(w)
  PROVE  CycleType'
<1>0. CycleType /\ HeapType /\ WorkerType
  BY TypeParts
<1>. USE <1>0 DEF CycleType
<1>1. ASSUME RunScript(w) PROVE CycleType'
  <2>1. born \subseteq born' /\ UNCHANGED <<gen, collectorVars>> /\ (raced' = raced \/ EraseScope(w))
    BY <1>1 DEF RunScript, NewScope, DestroyScope, Assign, SetNull, Allocate, Capture, DestroyCaptured, Create,
                StoreCaptured, EraseScope
  <2>2. raced' \in BOOLEAN
    BY <2>1 DEF EraseScope
  <2>. QED BY <2>1, <2>2 DEF collectorVars, cycleVars
<1>2. ASSUME CheckBarrier(w) \/ ReadGeneration(w) PROVE CycleType'
  BY <1>2 DEF CheckBarrier, ReadGeneration, heapVars, collectorVars, cycleVars
<1>3. ASSUME Push(w) PROVE CycleType'
  BY <1>3, NewBorn DEF Push, heapVars, cycleVars
<1>4. ASSUME Register(w) PROVE CycleType'
  BY <1>4, NewBorn DEF Register, cycleVars
<1>5. ASSUME Stamp(w) PROVE CycleType'
  BY <1>5 DEF Stamp, heapVars, collectorVars, cycleVars, WorkerType
<1>6. ASSUME Tidy(w) PROVE CycleType'
  <2>0. {"Idle", "Bumped", "Armed", "MarkingScope", "MarkingObject", "Marked", "Sweeping"} = Phase
    BY DEF Phase
  <2>1. CASE BeginMarking(w)
    <3>1. gcGeneration + 1 \in Generation
      BY <2>1 DEF BeginMarking, Generation
    <3>. QED BY <2>0, <2>1, <3>1 DEF BeginMarking, heapVars, HeapType
  <2>2. CASE ArmBarrier(w) \/ SnapshotScopes(w) \/ ObjectsMarked(w) \/ BeginSweeping(w) \/ Collect(w)
    <3>1. scopes \subseteq Scope
      BY DEF scopes, HeapType
    <3>. QED BY <2>0, <2>2, <3>1 DEF ArmBarrier, SnapshotScopes, ObjectsMarked, BeginSweeping, Collect, heapVars, HeapType
  <2>3. ASSUME NEW s \in Scope, MarkScope(w, s) PROVE CycleType'
    <3>1. refs[s] \subseteq born
      BY DEF HeapInv, Holder
    <3>. QED BY <2>0, <2>3, <3>1 DEF MarkScope, heapVars
  <2>4. ASSUME NEW o \in Object, MarkObject(w, o) PROVE CycleType'
    <3>1. refs[o] \subseteq born
      BY DEF HeapInv, Holder
    <3>. QED BY <2>4, <3>1 DEF MarkObject, heapVars, cycleVars
  <2>5. ASSUME NEW o \in Object, Sweep(w, o) PROVE CycleType'
    <3>1. raced' \in BOOLEAN
      BY <2>5 DEF Sweep
    <3>2. deleted' \subseteq born' /\ trash' \subseteq born' /\ toSweep' \subseteq born' /\ UNCHANGED <<cycleVars, gen, gcTargets, doomed, born>>
      BY <2>5 DEF Sweep
    <3>. QED BY <3>1, <3>2 DEF cycleVars
  <2>. QED BY <1>6, <2>1, <2>2, <2>3, <2>4, <2>5 DEF Tidy
<1>. QED BY <1>1, <1>2, <1>3, <1>4, <1>5, <1>6 DEF SetObject

LEMMA TypeStep ==
  ASSUME TypeOK, LocalsInv, HeapInv, NEW w \in Worker, RunScript(w) \/ SetObject(w) \/ Tidy(w)
  PROVE  TypeOK'
<1>1. HeapType' /\ WorkerType' /\ CycleType'
  BY HeapTypeStep, WorkerTypeStep, CycleTypeStep
<1>. QED BY <1>1 DEF TypeOK, HeapType, WorkerType, CycleType

LocalsOf(w) ==
  /\ new[w] \in Object <=> pc[w] \notin {"idle", "erase", "tidy"}
  /\ to[w] # NoScope <=> pc[w] \in {"barrier", "push", "register", "generation", "stamp"}
  /\ from[w] # NoScope => pc[w] \in {"barrier", "push"} /\ ~fresh[w]
  /\ pc[w] \in {"register", "generation", "stamp"} => fresh[w]
  /\ fresh[w] => to[w] # NoScope
  /\ dest[w] # NoScope => fresh[w] \/ pc[w] = "store"
  /\ dying[w] # NoScope => fresh[w] \/ pc[w] = "erase"
  /\ pc[w] = "store" => dest[w] # NoScope
  /\ pc[w] = "erase" => dying[w] # NoScope
  /\ NoScope \in {dest[w], dying[w]}

LEMMA LocalsStep ==
  ASSUME TypeOK, LocalsInv, HeapInv, NEW w \in Worker, RunScript(w) \/ SetObject(w) \/ Tidy(w)
  PROVE  LocalsInv'
<1>0. \A v \in Worker : LocalsOf(v)
  BY DEF LocalsInv, LocalsOf
<1>00. NoObject \notin Object /\ NoScope \notin Holder
  BY DEF Holder
<1>1. ASSUME OthersKeep(w), LocalsOf(w)' PROVE LocalsInv'
  <2>1. ASSUME NEW v \in Worker PROVE LocalsOf(v)'
    BY <1>0, <1>1 DEF OthersKeep, LocalsOf
  <2>. QED BY <2>1 DEF LocalsInv, LocalsOf
<1>2. ASSUME UNCHANGED localVars PROVE LocalsInv'
  BY <1>2 DEF localVars, LocalsInv
<1>3. ASSUME NEW s \in Scope, NewScope(w, s) \/ DestroyScope(w, s) PROVE LocalsInv'
  BY <1>2, <1>3 DEF NewScope, DestroyScope, workerVars, localVars
<1>4. ASSUME NEW o \in Object, NEW h \in Holder, SetNull(w, h, o) PROVE LocalsInv'
  BY <1>2, <1>4 DEF SetNull, workerVars, localVars
<1>5. ASSUME NEW g \in Holder \cup {NoScope}, NEW o \in Object, NEW h \in Holder, Stores(w, o, g, h) PROVE LocalsInv'
  <2>1. LocalsOf(w)'
    BY <1>00, <1>5 DEF Stores, LocalsOf
  <2>. QED BY <1>1, <1>5, <2>1 DEF Stores
<1>6. ASSUME NEW g \in Holder, NEW o \in Object, NEW h \in Holder, Assign(w, g, o, h) PROVE LocalsInv'
  BY <1>5, <1>6, AssignEffect
<1>7. ASSUME StoreCaptured(w) PROVE LocalsInv'
  BY <1>5, <1>7, StoreEffect
<1>8. ASSUME Creates(w) PROVE LocalsInv'
  <2>1. PICK h \in Holder, o \in Object : Makes(w, h, o)
    BY <1>8, Creation
  <2>2. Created(w, h, o, {}) \/ \E s \in Scope : Created(w, h, o, refs[s])
    BY <2>1 DEF Makes, Allocated, CapturedNow, Emptied
  <2>3. dest'[w] = NoScope \/ dying'[w] = NoScope
    BY <2>1 DEF Makes, Allocated, CapturedNow, Emptied
  <2>4. OthersKeep(w) /\ pc'[w] = "barrier" /\ new'[w] = o /\ to'[w] = h /\ from'[w] = NoScope /\ fresh'[w] = TRUE
    BY <2>2 DEF Created
  <2>5. LocalsOf(w)'
    BY <1>00, <2>3, <2>4 DEF LocalsOf
  <2>. QED BY <1>1, <2>4, <2>5
<1>9. ASSUME EraseScope(w) PROVE LocalsInv'
  <2>1. OthersKeep(w) /\ pc[w] = "erase" /\ pc'[w] = "idle" /\ dying'[w] = NoScope
        /\ UNCHANGED <<new, from, to, fresh, dest>>
    <3>1. \A v \in Worker \ {w} : own'[v] = own[v] /\ pc'[v] = pc[v] /\ dying'[v] = dying[v]
      BY <1>9 DEF EraseScope, TypeOK
    <3>. QED BY <1>9, <3>1 DEF EraseScope, TypeOK, OthersKeep
  <2>2. LocalsOf(w)'
    BY <1>0, <2>1 DEF LocalsOf
  <2>. QED BY <1>1, <2>1, <2>2
<1>10. ASSUME Leaves(w) PROVE LocalsInv'
  <2>1. LocalsOf(w)'
    BY <1>00, <1>10 DEF Leaves, LocalsOf
  <2>. QED BY <1>1, <1>10, <2>1 DEF Leaves
<1>11. ASSUME NEW state \in {"push", "register", "generation", "stamp"}, Moves(w, state),
              state = "push" => pc[w] = "barrier", state # "push" => fresh[w]
       PROVE LocalsInv'
  <2>1. pc'[w] = state
    BY <1>11 DEF Moves, TypeOK
  <2>2. LocalsOf(w)'
    BY <1>0, <1>11, <2>1 DEF Moves, LocalsOf
  <2>. QED BY <1>1, <1>11, <2>2 DEF Moves
<1>12. ASSUME CheckBarrier(w) PROVE LocalsInv'
  BY <1>10, <1>11, <1>12, BarrierEffect DEF CheckBarrier
<1>13. ASSUME Push(w) PROVE LocalsInv'
  BY <1>10, <1>11, <1>13, PushEffect
<1>14. ASSUME Register(w) PROVE LocalsInv'
  <2>1. Moves(w, "generation") /\ fresh[w]
    BY <1>0, <1>14 DEF Register, Moves, OthersKeep, TypeOK, LocalsOf
  <2>. QED BY <1>11, <2>1
<1>15. ASSUME ReadGeneration(w) PROVE LocalsInv'
  <2>1. pc'[w] = "stamp" /\ OthersKeep(w) /\ fresh[w] /\ UNCHANGED <<new, from, to, fresh, dest, dying>> /\ pc[w] = "generation"
    BY <1>0, <1>15 DEF ReadGeneration, OthersKeep, TypeOK, LocalsOf, heapVars
  <2>2. LocalsOf(w)'
    BY <1>0, <2>1 DEF LocalsOf
  <2>. QED BY <1>1, <2>1, <2>2
<1>16. ASSUME Stamp(w) PROVE LocalsInv'
  <2>1. LocalsOf(w)'
    BY <1>0, <1>00, <1>16, StampEffect DEF LocalsOf, Onward
  <2>. QED BY <1>1, <1>16, <2>1, StampEffect
<1>17. ASSUME Tidy(w) PROVE LocalsInv'
  <2>1. ASSUME NEW v \in Worker PROVE LocalsOf(v)'
    BY <1>0, <1>17, TidyKeeps DEF TidyEffect, LocalsOf
  <2>. QED BY <2>1 DEF LocalsInv, LocalsOf
<1>. QED BY <1>3, <1>4, <1>6, <1>7, <1>8, <1>9, <1>12, <1>13, <1>14, <1>15, <1>16, <1>17 DEF RunScript, SetObject, Creates

------------------------------------------------------------------------------
(* The heap and the stages of a cycle.                                     *)

HeapOwn == \A w, v \in Worker : w # v => own[w] \cap own[v] = {}
HeapNew == \A w \in Worker : new[w] \in born \cup {NoObject}
                             /\ {from[w], to[w], dest[w]} \subseteq Scope \cup born \cup {NoScope}
HeapRefs ==
  /\ \A h \in Holder : refs[h] \subseteq born
  /\ \A o \in Object \ born : refs[o] = {} /\ gen[o] = 0
HeapCaptured == \A s \in Scope : captured[s] # NoObject => captured[s] \in refs[s]

LEMMA HeapParts == HeapInv <=> HeapOwn /\ HeapNew /\ HeapRefs /\ HeapCaptured
BY DEF HeapInv, HeapOwn, HeapNew, HeapRefs, HeapCaptured

LEMMA HeapStep ==
  ASSUME TypeOK, LocalsInv, HeapInv, NEW w \in Worker, RunScript(w) \/ SetObject(w) \/ Tidy(w)
  PROVE  HeapInv'
<1>0. HeapOwn /\ HeapNew /\ HeapRefs /\ HeapCaptured
  BY HeapParts
<1>00. /\ NoObject \notin Object /\ NoScope \notin Holder /\ born \subseteq Object
       /\ \A s \in Scope : s \in Holder /\ s \notin Object
       /\ \A o \in Object : o \in Holder
  BY DEF Holder, TypeOK
<1>1. ASSUME UNCHANGED <<born, refs, captured>>, HeapOwn', HeapNew',
             \A o \in Object \ born : gen'[o] = gen[o]
      PROVE HeapInv'
  BY <1>0, <1>1 DEF HeapInv, HeapOwn, HeapNew, HeapRefs, HeapCaptured
<1>2. ASSUME UNCHANGED own PROVE HeapOwn'
  BY <1>0, <1>2 DEF HeapOwn
<1>3. ASSUME born \subseteq born',
             \A v \in Worker \ {w} : new'[v] = new[v] /\ from'[v] = from[v] /\ to'[v] = to[v] /\ dest'[v] = dest[v],
             new'[w] \in born' \cup {NoObject},
             from'[w] \in Scope \cup born' \cup {NoScope}, to'[w] \in Scope \cup born' \cup {NoScope},
             dest'[w] \in Scope \cup born' \cup {NoScope}
      PROVE  HeapNew'
  BY <1>0, <1>3 DEF HeapNew
<1>4. ASSUME NEW s \in Scope, NewScope(w, s) PROVE HeapInv'
  <2>1. \A v \in Worker : s \notin own[v]
    BY <1>4 DEF NewScope, scopes
  <2>2. HeapOwn'
    BY <1>0, <1>4, <2>1 DEF NewScope, HeapOwn, TypeOK
  <2>. QED BY <1>0, <1>1, <1>4, <2>2 DEF NewScope, workerVars, HeapNew
<1>5. ASSUME NEW s \in Scope, DestroyScope(w, s) \/ (EraseScope(w) /\ s = dying[w]) PROVE HeapInv'
  <2>1. /\ own' = [own EXCEPT ![w] = @ \ {s}] /\ refs' = [refs EXCEPT ![s] = {}]
        /\ captured' = [captured EXCEPT ![s] = NoObject]
        /\ UNCHANGED <<born, new, from, to, dest, gen>>
    <3>1. CASE DestroyScope(w, s)
      <4>1. captured = [captured EXCEPT ![s] = NoObject]
        BY <3>1 DEF DestroyScope, TypeOK
      <4>. QED BY <3>1, <4>1 DEF DestroyScope, workerVars
    <3>2. CASE EraseScope(w) /\ s = dying[w]
      BY <3>2 DEF EraseScope
    <3>. QED BY <1>5, <3>1, <3>2
  <2>2. HeapOwn'
    BY <1>0, <2>1 DEF HeapOwn, TypeOK
  <2>3. HeapRefs'
    BY <1>0, <1>00, <2>1 DEF HeapRefs, TypeOK
  <2>4. HeapCaptured'
    BY <1>0, <1>00, <2>1 DEF HeapCaptured, TypeOK
  <2>5. HeapNew'
    BY <1>0, <2>1 DEF HeapNew
  <2>. QED BY <2>2, <2>3, <2>4, <2>5 DEF HeapInv, HeapOwn, HeapNew, HeapRefs, HeapCaptured
<1>6. ASSUME EraseScope(w) PROVE HeapInv'
  <2>1. dying[w] \in Scope
    BY <1>6 DEF EraseScope, LocalsInv, TypeOK
  <2>. QED BY <1>5, <1>6, <2>1
<1>7. ASSUME NEW o \in born, NEW h \in Holder, NEW g \in Scope \cup born \cup {NoScope},
              Stores(w, o, g, h), h \in Object => h \in born
       PROVE  HeapInv'
  <2>1. HeapOwn'
    BY <1>2, <1>7 DEF Stores
  <2>2. HeapNew'
    <3>1. h \in Scope \cup born
      BY <1>7 DEF Holder
    <3>. QED BY <1>3, <1>7, <3>1 DEF Stores, OthersKeep
  <2>3. HeapRefs'
    BY <1>0, <1>00, <1>7 DEF Stores, HeapRefs
  <2>4. HeapCaptured'
    BY <1>0, <1>00, <1>7 DEF Stores, HeapCaptured
  <2>. QED BY <2>1, <2>2, <2>3, <2>4 DEF HeapInv, HeapOwn, HeapNew, HeapRefs, HeapCaptured
<1>8. ASSUME NEW g \in Holder, NEW o \in Object, NEW h \in Holder, Assign(w, g, o, h) PROVE HeapInv'
  <2>1. o \in born
    BY <1>0, <1>8 DEF Assign, HeapRefs
  <2>2. (h \in Object => h \in born) /\ g \in Scope \cup born
    BY <1>8, AccessThere DEF Assign, Writable, Holder
  <2>. QED BY <1>7, <1>8, <2>1, <2>2, AssignEffect
<1>9. ASSUME StoreCaptured(w) PROVE HeapInv'
  <2>1. new[w] \in born /\ dest[w] \in Holder /\ Stores(w, new[w], NoScope, dest[w])
    BY <1>9, StoreEffect, NewBorn
  <2>2. dest[w] \in Object => dest[w] \in born
    BY <1>0, <1>00, <2>1 DEF HeapNew
  <2>. QED BY <1>7, <2>1, <2>2
<1>10. ASSUME NEW o \in Object, NEW h \in Holder, SetNull(w, h, o) PROVE HeapInv'
  <2>1. /\ \A x \in Holder : refs'[x] = IF x = h THEN refs[h] \ {o} ELSE refs[x]
        /\ h \in Scope => captured[h] # o
        /\ UNCHANGED <<own, born, captured, new, from, to, dest, gen>>
    BY <1>10 DEF SetNull, workerVars, TypeOK
  <2>2. HeapRefs' /\ HeapOwn' /\ HeapNew'
    BY <1>0, <1>00, <2>1 DEF HeapRefs, HeapOwn, HeapNew
  <2>3. HeapCaptured'
    BY <1>0, <1>00, <2>1 DEF HeapCaptured
  <2>. QED BY <2>2, <2>3 DEF HeapInv, HeapOwn, HeapNew, HeapRefs, HeapCaptured
<1>11. ASSUME Creates(w) PROVE HeapInv'
  <2>1. PICK h \in Holder, o \in Object : Makes(w, h, o)
    BY <1>11, Creation
  <2>2. PICK content : Created(w, h, o, content)
    BY <2>1 DEF Makes, Allocated, CapturedNow, Emptied
  <2>3. /\ o \in Object \ born /\ h # o /\ content \subseteq born /\ born' = born \cup {o}
        /\ \A x \in Holder : refs'[x] = IF x = o THEN content ELSE
                                  IF x = h THEN refs[h] \cup {o} ELSE refs[x]
        /\ own' = own /\ gen' = gen /\ new'[w] = o /\ OthersKeep(w)
        /\ from'[w] = NoScope /\ to'[w] = h /\ h \in Holder
    BY <2>2 DEF Created
  <2>4. h \in Object => h \in born
    <3>1. CASE h \in Writable(w)
      BY <3>1, AccessThere DEF Writable
    <3>2. CASE h \in own[w]
      BY <1>00, <3>2 DEF TypeOK
    <3>3. CASE \E s \in Scope : captured[s] = h /\ h # NoObject
      BY <1>0, <1>00, <3>3 DEF HeapCaptured, HeapRefs
    <3>. QED BY <2>1, <3>1, <3>2, <3>3 DEF Makes, Allocated, CapturedNow, Emptied
  <2>5. dest'[w] \in Scope \cup born' \cup {NoScope}
    <3>1. \A k \in Writable(w) : k \in Scope \cup born
      BY AccessThere DEF Writable, Holder
    <3>. QED BY <2>1, <2>3, <3>1 DEF Makes, Allocated, CapturedNow, Emptied
  <2>6. HeapOwn' /\ HeapNew'
    BY <1>2, <1>3, <2>3, <2>4, <2>5 DEF OthersKeep, Holder
  <2>7. HeapRefs'
    BY <1>0, <1>00, <2>3, <2>4 DEF HeapRefs
  <2>8. HeapCaptured'
    <3>0. own[w] \subseteq Scope
      BY DEF TypeOK
    <3>1. captured' = captured \/ (h \in Scope /\ captured' = [captured EXCEPT ![h] = o])
      BY <2>1, <3>0 DEF Makes, Allocated, CapturedNow, Emptied
    <3>2. CASE captured' = captured
      BY <1>0, <1>00, <2>3, <3>2 DEF HeapCaptured
    <3>3. CASE h \in Scope /\ captured' = [captured EXCEPT ![h] = o]
      BY <1>0, <1>00, <2>3, <3>3 DEF HeapCaptured, TypeOK
    <3>. QED BY <3>1, <3>2, <3>3
  <2>. QED BY <2>6, <2>7, <2>8 DEF HeapInv, HeapOwn, HeapNew, HeapRefs, HeapCaptured
<1>12. ASSUME Leaves(w) \/ \E state \in WorkerState : Moves(w, state), born' = born
       PROVE HeapOwn' /\ HeapNew'
  BY <1>0, <1>2, <1>3, <1>12 DEF Leaves, Moves, OthersKeep, HeapNew
<1>13. {"push", "register"} \subseteq WorkerState
  BY DEF WorkerState
<1>14. ASSUME CheckBarrier(w) PROVE HeapInv'
  BY <1>1, <1>12, <1>13, <1>14, BarrierEffect
<1>15. ASSUME Push(w) PROVE HeapInv'
  BY <1>1, <1>12, <1>13, <1>15, PushEffect
<1>16. ASSUME Register(w) \/ ReadGeneration(w) PROVE HeapInv'
  BY <1>0, <1>1, <1>2, <1>16 DEF Register, ReadGeneration, heapVars, HeapNew
<1>17. ASSUME Stamp(w) PROVE HeapInv'
  <2>1. new[w] \in born
    BY <1>17, NewBorn DEF Stamp
  <2>2. HeapNew'
    BY <1>0, <1>3, <1>17, <2>1, StampEffect DEF OthersKeep, Onward, HeapNew
  <2>3. \A o \in Object \ born : gen'[o] = gen[o]
    BY <1>17, <2>1, StampEffect
  <2>. QED BY <1>1, <1>2, <1>17, <2>2, <2>3, StampEffect
<1>18. ASSUME Tidy(w) PROVE HeapInv'
  <2>1. HeapOwn' /\ HeapNew' /\ born' = born /\ captured' = captured
    BY <1>0, <1>18, TidyKeeps DEF TidyEffect, HeapOwn, HeapNew
  <2>2. ASSUME NEW o \in Object, Sweep(w, o) PROVE HeapInv'
    <3>1. gen' = gen /\ \A h \in Holder : refs'[h] \subseteq refs[h] /\ (h \in Scope => refs'[h] = refs[h])
      BY <1>00, <2>2 DEF Sweep, TypeOK
    <3>2. HeapRefs' /\ HeapCaptured'
      BY <1>0, <1>00, <2>1, <3>1 DEF HeapRefs, HeapCaptured
    <3>. QED BY <2>1, <3>2 DEF HeapInv, HeapOwn, HeapNew, HeapRefs, HeapCaptured
  <2>3. ASSUME NEW o \in Object, MarkObject(w, o) PROVE HeapInv'
    <3>1. o \in born /\ refs' = refs /\ gen' = [gen EXCEPT ![o] = gcGeneration]
      BY <2>3 DEF MarkObject, heapVars, TypeOK
    <3>. QED BY <1>1, <2>1, <3>1 DEF TypeOK
  <2>4. CASE ~ (\E o \in Object : Sweep(w, o) \/ MarkObject(w, o))
    <3>1. UNCHANGED <<refs, gen>>
      BY <1>18, <2>4 DEF Tidy, BeginMarking, ArmBarrier, SnapshotScopes, MarkScope, ObjectsMarked, BeginSweeping, Collect, heapVars
    <3>. QED BY <1>1, <2>1, <3>1
  <2>. QED BY <2>2, <2>3, <2>4
<1>. QED BY <1>4, <1>5, <1>6, <1>8, <1>9, <1>10, <1>11, <1>14, <1>15, <1>16, <1>17, <1>18 DEF RunScript, SetObject, Creates
\* The collector's variables under the other steps.
LEMMA ScriptKeeps ==
  ASSUME NEW w \in Worker, RunScript(w)
  PROVE  born \subseteq born' /\ UNCHANGED <<gen, collectorVars, read>>
BY DEF RunScript, NewScope, DestroyScope, Assign, SetNull, Allocate, Capture, DestroyCaptured, Create,
       StoreCaptured, EraseScope, workerVars

LEMMA SetObjectKeeps ==
  ASSUME TypeOK, LocalsInv, HeapInv, NEW w \in Worker, SetObject(w)
  PROVE  /\ UNCHANGED <<refs, own, born, captured, cycleVars, deleted, trash, doomed>>
         /\ gcTargets' = gcTargets \/ (Push(w) /\ gcTargets' = gcTargets \cup {new[w]})
         /\ toSweep \subseteq toSweep' /\ objects \subseteq objects'
         /\ toSweep' = toSweep \/ phase = "Sweeping"
         /\ gen' = gen \/ (Stamp(w) /\ new[w] \in Object)
         /\ \A v \in Worker : new'[v] \in {new[v], NoObject}
<1>1. CASE CheckBarrier(w)
  BY <1>1, BarrierEffect DEF collectorVars, Moves, Leaves, OthersKeep
<1>2. CASE Push(w)
  BY <1>2, PushEffect DEF Moves, Leaves, OthersKeep
<1>3. CASE Register(w) \/ ReadGeneration(w)
  BY <1>3 DEF Register, ReadGeneration, heapVars, collectorVars
<1>4. CASE Stamp(w)
  BY <1>4, StampEffect DEF collectorVars, Onward, OthersKeep
<1>. QED BY <1>1, <1>2, <1>3, <1>4 DEF SetObject

LEMMA CycleStep ==
  ASSUME TypeOK, TypeOK', LocalsInv, HeapInv, CycleInv, NEW w \in Worker, RunScript(w) \/ SetObject(w) \/ Tidy(w)
  PROVE  CycleInv'
<1>. USE DEF CycleInv
<1>1. CASE RunScript(w)
  BY <1>1, ScriptKeeps DEF collectorVars, cycleVars
<1>2. CASE SetObject(w)
  <2>1. \A v \in Worker : read'[v] \in {read[v], 0, gcGeneration}
    <3>1. CASE CheckBarrier(w) \/ Push(w) \/ Stamp(w)
      BY <3>1 DEF CheckBarrier, Push, Stamp, NextOf, Done, Finish, TypeOK
    <3>2. CASE Register(w) \/ ReadGeneration(w)
      BY <3>2 DEF Register, ReadGeneration, TypeOK
    <3>. QED BY <1>2, <3>1, <3>2 DEF SetObject
  <2>2. \A o \in Object : gen'[o] = gen[o] \/ gen'[o] = read[w]
    BY <1>2, SetObjectKeeps, StampEffect
  <2>3. gcGeneration \in Nat /\ \A v \in Worker : read[v] \in Nat
    BY DEF TypeOK, Generation
  <2>4. UNCHANGED <<phase, gcGeneration, marking, gcScopes, trash>> /\ (toSweep' = toSweep \/ phase = "Sweeping")
    BY <1>2, SetObjectKeeps DEF cycleVars
  <2>. QED BY <2>1, <2>2, <2>3, <2>4
<1>3. CASE Tidy(w)
  <2>0. gcGeneration \in Nat /\ (\A o \in Object : gen[o] \in Nat) /\ (\A v \in Worker : read[v] \in Nat) /\ read' = read
    BY <1>3, TidyKeeps DEF TypeOK, Generation, TidyEffect
  <2>1. CASE BeginMarking(w) \/ ArmBarrier(w) \/ SnapshotScopes(w)
    BY <2>0, <2>1 DEF BeginMarking, ArmBarrier, SnapshotScopes
  <2>2. CASE ObjectsMarked(w) \/ BeginSweeping(w) \/ Collect(w)
    BY <2>0, <2>2 DEF ObjectsMarked, BeginSweeping, Collect
  <2>3. ASSUME NEW s \in Scope, MarkScope(w, s) PROVE CycleInv'
    BY <2>0, <2>3 DEF MarkScope
  <2>4. ASSUME NEW o \in Object, MarkObject(w, o) PROVE CycleInv'
    BY <2>0, <2>4 DEF MarkObject, cycleVars, TypeOK
  <2>5. ASSUME NEW o \in Object, Sweep(w, o) PROVE CycleInv'
    BY <2>0, <2>5 DEF Sweep, cycleVars
  <2>. QED BY <1>3, <2>1, <2>2, <2>3, <2>4, <2>5 DEF Tidy
<1>. QED BY <1>1, <1>2, <1>3
LEMMA MayBeMarkedClosed ==
  ASSUME TypeOK
  PROVE  Closed(MayBeMarked) /\ MayBeMarked \in SUBSET Object
<1>. DEFINE X == gcTargets \cup ({new[w] : w \in Worker} \cap Object)
            Keeps(C) == X \subseteq C /\ \A h \in scopes \cup C : refs[h] \subseteq C
<1>1. MayBeMarked = {o \in Object : \A C \in SUBSET Object : Keeps(C) => o \in C}
  BY DEF MayBeMarked
<1>2. X \subseteq Object
  BY DEF TypeOK
<1>3. X \subseteq MayBeMarked
  BY <1>1, <1>2
<1>4. ASSUME NEW h \in scopes \cup MayBeMarked PROVE refs[h] \subseteq MayBeMarked
  <2>1. h \in Holder /\ refs[h] \subseteq Object
    BY <1>1 DEF TypeOK, scopes, Holder
  <2>2. ASSUME NEW p \in refs[h], NEW C \in SUBSET Object, Keeps(C) PROVE p \in C
    <3>1. h \in scopes \cup C
      BY <1>1, <2>2
    <3>. QED BY <2>2, <3>1
  <2>. HIDE DEF Keeps
  <2>. QED BY <1>1, <2>1, <2>2
<1>5. \A w \in Worker : new[w] \in MayBeMarked \cup {NoObject}
  BY <1>3 DEF TypeOK
<1>. QED BY <1>1, <1>3, <1>4, <1>5 DEF Closed

\* What a script gets hold of is in every closed set.
LEMMA AccessClosed ==
  ASSUME TypeOK, NEW M, Closed(M), NEW w \in Worker, NEW h \in Accessible(w)
  PROVE  h \in scopes \cup M
BY AccessKinds DEF Closed

Scoped(M) == \A h \in scopes : refs[h] \subseteq M
LEMMA ClosedNext ==
  ASSUME TypeOK, NEW M, Closed(M), NEW N, M \subseteq N,
         gcTargets' \subseteq N,
         \A v \in Worker : new'[v] \in N \cup {NoObject, new[v]},
         \A h \in scopes' \ scopes : refs'[h] \subseteq N,
         \A h \in Holder : h \in scopes \cup M => refs'[h] \subseteq refs[h] \cup N,
         \A h \in N \ M : refs'[h] \subseteq N,
         N \subseteq Object
  PROVE  Closed(N)'
<1>1. ASSUME NEW h \in (scopes \cup N)' PROVE refs'[h] \subseteq N
  <2>1. CASE h \in scopes \/ h \in M
    <3>1. h \in Holder
      BY <2>1 DEF scopes, TypeOK, Holder
    <3>. QED BY <2>1, <3>1 DEF Closed
  <2>2. CASE ~(h \in scopes \/ h \in M)
    BY <2>2
  <2>. QED BY <2>1, <2>2
<1>2. \A v \in Worker : new'[v] \in N \cup {NoObject}
  BY DEF Closed
<1>. QED BY <1>1, <1>2 DEF Closed

LEMMA ScopesNext ==
  ASSUME NEW w \in Worker, OthersKeep(w)
  PROVE  (own'[w] \subseteq own[w] => scopes' \subseteq scopes) /\ (own'[w] = own[w] => scopes' = scopes)
BY DEF OthersKeep, scopes
Apart == \E M \in SUBSET Object : Closed(M) /\ M \cap doomed = {}

LEMMA ApartStep ==
  ASSUME TypeOK, LocalsInv, HeapInv, CycleInv, Apart, NEW w \in Worker, RunScript(w) \/ SetObject(w) \/ Tidy(w)
  PROVE  Apart'
<1>. PICK M \in SUBSET Object : Closed(M) /\ M \cap doomed = {}
  BY DEF Apart
<1>0. /\ gcTargets \subseteq M /\ (\A v \in Worker : new[v] \in M \cup {NoObject})
      /\ \A h \in scopes \cup M : refs[h] \subseteq M
  BY DEF Closed
<1>00. /\ NoObject \notin Object /\ doomed \subseteq born
       /\ refs \in [Holder -> SUBSET Object]
       /\ \A h \in scopes \cup M : h \in Holder
  BY DEF Holder, TypeOK, scopes
<1>1. ASSUME gcTargets' \subseteq M, \A v \in Worker : new'[v] \in M \cup {NoObject},
             doomed' = doomed, scopes' \subseteq scopes,
             \A h \in Holder : h \in scopes \cup M => refs'[h] \subseteq refs[h] \cup M
      PROVE  Apart'
  BY <1>1, ClosedNext DEF Apart
<1>2. ASSUME UNCHANGED <<gcTargets, doomed, own, refs, new>> PROVE Apart'
  BY <1>0, <1>1, <1>2 DEF scopes
<1>3. ASSUME NEW s \in Scope, NewScope(w, s) PROVE Apart'
  <2>1. refs[s] = {} /\ scopes' \subseteq scopes \cup {s}
        /\ UNCHANGED <<gcTargets, doomed, refs, new>>
    BY <1>3 DEF NewScope, scopes, TypeOK, workerVars, collectorVars
  <2>2. Closed(M)'
    BY <1>0, <2>1 DEF Closed
  <2>. QED BY <2>1, <2>2 DEF Apart
<1>4. ASSUME NEW s \in Scope, DestroyScope(w, s) PROVE Apart'
  <2>1. scopes' \subseteq scopes /\ UNCHANGED <<gcTargets, doomed, new>> /\ \A h \in Holder : refs'[h] \subseteq refs[h]
    BY <1>4 DEF DestroyScope, scopes, TypeOK, workerVars, collectorVars
  <2>. QED BY <1>0, <1>1, <2>1
<1>5. ASSUME EraseScope(w) PROVE Apart'
  <2>1. scopes' \subseteq scopes /\ UNCHANGED <<gcTargets, doomed, new>> /\ \A h \in Holder : refs'[h] \subseteq refs[h]
    BY <1>5 DEF EraseScope, scopes, TypeOK, collectorVars
  <2>. QED BY <1>0, <1>1, <2>1
<1>6. ASSUME NEW o \in M, NEW h \in Holder, NEW g, Stores(w, o, g, h) PROVE Apart'
  <2>1. scopes' = scopes /\ UNCHANGED <<gcTargets, doomed>> /\ \A x \in Holder : refs'[x] \subseteq refs[x] \cup M
    BY <1>6 DEF Stores, scopes, collectorVars
  <2>2. \A v \in Worker : new'[v] \in M \cup {NoObject}
    BY <1>0, <1>6 DEF Stores, OthersKeep
  <2>. QED BY <1>0, <1>1, <2>1, <2>2
<1>7. ASSUME NEW g \in Holder, NEW o \in Object, NEW h \in Holder, Assign(w, g, o, h) PROVE Apart'
  <2>1. o \in refs[g] /\ g \in scopes \cup M
    BY <1>7, AccessClosed DEF Assign
  <2>. QED BY <1>0, <1>6, <1>7, <2>1, AssignEffect
<1>8. ASSUME StoreCaptured(w) PROVE Apart'
  BY <1>0, <1>00, <1>6, <1>8, StoreEffect
<1>9. ASSUME NEW o \in Object, NEW h \in Holder, SetNull(w, h, o) PROVE Apart'
  <2>1. scopes' = scopes /\ UNCHANGED <<gcTargets, doomed, new>> /\ \A x \in Holder : refs'[x] \subseteq refs[x]
    BY <1>9 DEF SetNull, scopes, TypeOK, workerVars, collectorVars
  <2>. QED BY <1>0, <1>1, <2>1
<1>10. ASSUME Creates(w) PROVE Apart'
  <2>1. PICK h \in Holder, o \in Object : Makes(w, h, o)
    BY <1>10, Creation
  <2>2. PICK content : Created(w, h, o, content) /\ content \subseteq M
    <3>1. CASE Created(w, h, o, {})
      BY <3>1
    <3>2. CASE \E s \in Scope : Emptied(w, h, o, s)
      <4>1. PICK s \in Scope : Emptied(w, h, o, s)
        BY <3>2
      <4>2. s \in scopes
        BY <4>1 DEF Emptied, scopes
      <4>. QED BY <1>0, <4>1, <4>2 DEF Emptied
    <3>. QED BY <2>1, <3>1, <3>2 DEF Makes, Allocated, CapturedNow
  <2>3. /\ o \in Object \ born /\ scopes' = scopes
        /\ \A x \in Holder : refs'[x] = IF x = o THEN content ELSE
                                  IF x = h THEN refs[h] \cup {o} ELSE refs[x]
        /\ UNCHANGED <<gcTargets, doomed>> /\ new'[w] = o /\ OthersKeep(w) /\ o \in Holder
    BY <2>2, SMTT(20) DEF Created, collectorVars, scopes, Holder
  <2>. DEFINE N == M \cup {o}
  <2>4. \A v \in Worker : new'[v] \in N \cup {NoObject}
    BY <1>0, <2>3 DEF OthersKeep
  <2>5. Closed(N)'
    BY <1>0, <2>2, <2>3, <2>4, ClosedNext
  <2>6. N \in SUBSET Object /\ N \cap doomed = {}
    BY <1>00, <2>3
  <2>. QED BY <2>3, <2>5, <2>6 DEF Apart
<1>11. ASSUME SetObject(w) PROVE Apart'
  <2>1. /\ UNCHANGED <<refs, own, doomed>> /\ \A v \in Worker : new'[v] \in M \cup {NoObject}
    BY <1>0, <1>11, SetObjectKeeps
  <2>2. Push(w) => new[w] \in M
    BY <1>0, <1>00, NewBorn DEF Push
  <2>3. gcTargets' \subseteq M
    BY <1>0, <1>11, <2>2, SetObjectKeeps
  <2>. QED BY <1>1, <2>1, <2>3 DEF scopes
<1>12. ASSUME Tidy(w), ~BeginMarking(w) PROVE Apart'
  <2>1. UNCHANGED <<own, new>>
    BY <1>12, TidyKeeps DEF TidyEffect
  <2>2. ASSUME NEW s \in Scope, MarkScope(w, s) PROVE Apart'
    BY <1>0, <1>1, <2>1, <2>2 DEF MarkScope, heapVars, scopes
  <2>3. ASSUME NEW o \in Object, MarkObject(w, o) PROVE Apart'
    BY <1>0, <1>1, <2>1, <2>3 DEF MarkObject, heapVars, scopes
  <2>4. ASSUME NEW o \in Object, Sweep(w, o) PROVE Apart'
    <3>1. gcTargets' = gcTargets /\ doomed' = doomed /\ \A h \in Holder : refs'[h] \subseteq refs[h]
      BY <1>00, <2>4 DEF Sweep
    <3>. QED BY <1>0, <1>1, <2>1, <3>1 DEF scopes
  <2>5. CASE ArmBarrier(w) \/ SnapshotScopes(w) \/ ObjectsMarked(w) \/ BeginSweeping(w) \/ Collect(w)
    BY <1>2, <2>1, <2>5 DEF ArmBarrier, SnapshotScopes, ObjectsMarked, BeginSweeping, Collect, heapVars
  <2>. QED BY <1>12, <2>2, <2>3, <2>4, <2>5 DEF Tidy
<1>13. ASSUME BeginMarking(w) PROVE Apart'
  <2>1. doomed' = objects \ MayBeMarked /\ UNCHANGED <<gcTargets, own, refs>>
    BY <1>13 DEF BeginMarking, heapVars
  <2>2. UNCHANGED new
    BY <1>13 DEF BeginMarking, GoesOn
  <2>3. Closed(MayBeMarked) /\ MayBeMarked \in SUBSET Object
    BY MayBeMarkedClosed
  <2>4. \A K \in SUBSET Object : Closed(K) => Closed(K)'
    BY <2>1, <2>2 DEF Closed, scopes
  <2>5. \E K \in SUBSET Object : Closed(K)' /\ K \cap doomed' = {}
    BY <2>1, <2>3, <2>4
  <2>. QED BY <2>5 DEF Apart
<1>. QED BY <1>3, <1>4, <1>5, <1>7, <1>8, <1>9, <1>10, <1>11, <1>12, <1>13 DEF RunScript, Tidy, Creates

LEMMA DoomedStep ==
  ASSUME TypeOK, LocalsInv, HeapInv, CycleInv, DoomedInv, NEW w \in Worker, RunScript(w) \/ SetObject(w) \/ Tidy(w)
  PROVE  DoomedInv'
<1>1. Apart'
  BY ApartStep DEF DoomedInv, Apart
<1>. DEFINE Rest == /\ phase = "Idle" => doomed \subseteq deleted
                    /\ phase # "Idle" => \A o \in doomed : gen[o] # gcGeneration
                    /\ phase \notin {"Idle", "Sweeping"} => doomed \subseteq objects
                    /\ phase = "Sweeping" => doomed \subseteq toSweep \cup trash
<1>2. Rest
  BY DEF DoomedInv
<1>3. PICK M \in SUBSET Object : Closed(M) /\ M \cap doomed = {}
  BY DEF DoomedInv
<1>4. gcTargets \cap doomed = {} /\ (\A v \in Worker : new[v] \notin doomed) /\ doomed \subseteq Object
  BY <1>3 DEF Closed, TypeOK, Holder
<1>5. CASE RunScript(w)
  <2>1. objects' = objects
    BY <1>5 DEF RunScript, NewScope, DestroyScope, Assign, SetNull, Allocate, Capture, DestroyCaptured, Create,
       StoreCaptured, EraseScope
  <2>2. Rest'
    BY <1>2, <1>5, <2>1, ScriptKeeps DEF collectorVars, cycleVars
  <2>. QED BY <1>1, <2>2 DEF DoomedInv, Apart
<1>6. CASE SetObject(w)
  <2>1. \A o \in doomed : gen'[o] = gen[o]
    BY <1>4, <1>6, SetObjectKeeps, StampEffect
  <2>2. Rest'
    BY <1>2, <1>6, <2>1, SetObjectKeeps DEF cycleVars
  <2>. QED BY <1>1, <2>2 DEF DoomedInv, Apart
<1>7. CASE Tidy(w)
  <2>0. gcGeneration \in Nat /\ \A o \in Object : gen[o] \in Nat /\ gen[o] <= gcGeneration
    BY DEF CycleInv, TypeOK, Generation
  <2>1. ASSUME BeginMarking(w) PROVE Rest'
    <3>1. /\ phase' = "Bumped" /\ gcGeneration' = gcGeneration + 1 /\ doomed' \subseteq objects
          /\ gen' = gen /\ objects' = objects
      BY <2>1 DEF BeginMarking, heapVars
    <3>2. objects \subseteq Object
      BY DEF TypeOK
    <3>3. \A o \in doomed' : gen'[o] # gcGeneration'
      BY <2>0, <3>1, <3>2
    <3>. QED BY <3>1, <3>3
  <2>2. ASSUME ArmBarrier(w) \/ SnapshotScopes(w) PROVE Rest'
    BY <1>2, <2>2 DEF ArmBarrier, SnapshotScopes, heapVars
  <2>3. ASSUME ObjectsMarked(w) \/ BeginSweeping(w) \/ Collect(w) PROVE Rest'
    BY <1>2, <2>3 DEF ObjectsMarked, BeginSweeping, Collect, heapVars
  <2>4. ASSUME NEW s \in Scope, MarkScope(w, s) PROVE Rest'
    BY <1>2, <2>4 DEF MarkScope, heapVars
  <2>5. ASSUME NEW o \in Object, MarkObject(w, o) PROVE Rest'
    BY <1>2, <1>4, <2>5 DEF MarkObject, heapVars, cycleVars, TypeOK
  <2>6. ASSUME NEW o \in Object, Sweep(w, o) PROVE Rest'
    BY <1>2, <2>6 DEF Sweep, cycleVars
  <2>7. Rest'
    BY <1>7, <2>1, <2>2, <2>3, <2>4, <2>5, <2>6 DEF Tidy
  <2>. QED BY <1>1, <2>7 DEF DoomedInv, Apart
<1>. QED BY <1>5, <1>6, <1>7
------------------------------------------------------------------------------
(* Unless raced: new objects and scopes under destruction are let alone.   *)

Sound == FreshInv /\ DyingInv /\ ColourInv /\ UseInv /\ SafeInv /\ DeadInv
Base  == TypeOK /\ LocalsInv /\ HeapInv /\ CycleInv

FreshOf(w) ==
  /\ \A h \in Holder : new[w] \in refs[h] => h = to[w]
  /\ refs[new[w]] = IF dying[w] = NoScope THEN {} ELSE refs[dying[w]]
  /\ \A v \in Worker : new[w] \notin {from[v], to[v], dest[v]} /\ (v # w => new[v] # new[w])
  /\ new[w] \in objects <=> pc[w] \in {"generation", "stamp"}
  /\ new[w] \notin trash \cup deleted
  /\ dest[w] # NoScope => to[w] \in own[w] /\ captured[to[w]] = new[w]

DyingOf(w) ==
  /\ dying[w] \in own[w] /\ ~InUse(dying[w])
  /\ captured[dying[w]] # NoObject
  /\ fresh[w] => to[w] = captured[dying[w]] /\ new[w] \in refs[to[w]]

LEMMA Pointwise ==
  /\ FreshInv <=> \A w \in Worker : fresh[w] => FreshOf(w)
  /\ DyingInv <=> \A w \in Worker : dying[w] # NoScope => DyingOf(w)
BY DEF FreshInv, FreshOf, DyingInv, DyingOf

LEMMA Kinds ==
  ASSUME Base
  PROVE  /\ NoObject \notin Object /\ NoScope \notin Object /\ NoScope \notin Scope
         /\ \A x \in Object : x \in Holder /\ x \notin Scope
         /\ \A s \in Scope : s \in Holder /\ s \notin Object
         /\ born \subseteq Object /\ scopes \subseteq Scope
         /\ \A v \in Worker : own[v] \subseteq Scope \ Global /\ own[v] \subseteq scopes
         /\ \A v \in Worker : dying[v] \in Scope \cup {NoScope}
         /\ refs \in [Holder -> SUBSET Object]
BY DEF Base, TypeOK, Holder, scopes

LEMMA FreshFacts ==
  ASSUME Base, NEW v \in Worker, fresh[v]
  PROVE  /\ new[v] \in Object /\ new[v] \in born /\ from[v] = NoScope
         /\ to[v] \in Holder /\ pc[v] \in {"barrier", "push", "register", "generation", "stamp"}
<1>1. to[v] # NoScope /\ to[v] \in Holder \cup {NoScope}
  BY DEF Base, LocalsInv, TypeOK
<1>2. pc[v] \in {"barrier", "push", "register", "generation", "stamp"} /\ from[v] = NoScope
  BY <1>1 DEF Base, LocalsInv
<1>. QED BY <1>1, <1>2, NewBorn DEF Base

\* A worker gets at no new object of another and at no scope under destruction.
LEMMA NotNew ==
  ASSUME Base, FreshInv, NEW w \in Worker, NEW h \in Accessible(w), NEW v \in Worker \ {w}, fresh[v]
  PROVE  h # new[v]
<1>1. \A x \in Holder : new[v] \in refs[x] => x = to[v]
  BY DEF FreshInv
<1>2. SUFFICES ASSUME h = new[v] PROVE FALSE
  OBVIOUS
<1>3. h \in Object /\ h \notin Scope
  BY <1>2, FreshFacts, Kinds
<1>4. PICK s \in own[w] : s \in Scope /\ h \in refs[s] /\ ~Locked(w, s, h)
  BY <1>3, AccessKinds DEF Base
<1>5. s = to[v]
  BY <1>1, <1>2, <1>4 DEF Holder
<1>. QED BY <1>2, <1>4, <1>5 DEF Locked

LEMMA NotDying ==
  ASSUME Base, NEW w \in Worker, NEW h \in Accessible(w), NEW v \in Worker
  PROVE  h # dying[v]
<1>1. CASE h \in Object
  BY <1>1, Kinds
<1>2. CASE h \in Scope /\ h \notin DyingScopes
  BY <1>2 DEF DyingScopes
<1>. QED BY <1>1, <1>2, AccessKinds DEF Base

LEMMA OtherScopes ==
  ASSUME Base, NEW w \in Worker, NEW s \in own[w], NEW v \in Worker \ {w}
  PROVE  s \notin own[v] /\ s \notin Global /\ s \in Scope /\ s \in scopes
BY DEF Base, TypeOK, HeapInv, scopes
LEMMA FreshStores ==
  ASSUME Base, FreshInv, NEW w \in Worker, NEW o \in Object, NEW h \in Holder, NEW g, Stores(w, o, g, h),
         \A v \in Worker \ {w} : fresh[v] => new[v] \notin {o, g, h},
         \A v \in Worker : dying[v] # h
  PROVE  FreshInv'
<1>. USE Kinds
<1>1. ASSUME NEW v \in Worker, fresh'[v] PROVE FreshOf(v)'
  <2>1. v # w /\ fresh[v] /\ FreshOf(v) /\ new[v] \in Object /\ new[v] \notin {o, g, h}
    BY <1>1, Pointwise, FreshFacts DEF Stores, OthersKeep
  <2>2. /\ new'[v] = new[v] /\ to'[v] = to[v] /\ dying'[v] = dying[v] /\ pc'[v] = pc[v] /\ dest'[v] = dest[v]
        /\ UNCHANGED <<own, objects, captured, trash, deleted>>
    BY <2>1 DEF Stores, OthersKeep, collectorVars
  <2>3. \A x \in Holder : refs'[x] = IF x = h THEN refs[h] \cup {o} ELSE refs[x]
    BY DEF Stores
  <2>4. refs'[new[v]] = refs[new[v]] /\ (dying[v] # NoScope => refs'[dying[v]] = refs[dying[v]])
    BY <2>1, <2>3
  <2>5. \A u \in Worker \ {w} : from'[u] = from[u] /\ to'[u] = to[u] /\ dest'[u] = dest[u] /\ new'[u] = new[u]
    BY DEF Stores, OthersKeep
  <2>6. from'[w] = g /\ to'[w] = h /\ dest'[w] = NoScope /\ new'[w] = o
    BY DEF Stores
  <2>7. \A u \in Worker : new[v] \notin {from'[u], to'[u], dest'[u]} /\ (u # v => new'[u] # new[v])
    BY <2>1, <2>5, <2>6 DEF FreshOf
  <2>8. \A x \in Holder : new[v] \in refs'[x] => x = to[v]
    BY <2>1, <2>3 DEF FreshOf
  <2>. QED BY <2>1, <2>2, <2>4, <2>7, <2>8 DEF FreshOf
<1>. QED BY <1>1, Pointwise DEF FreshInv, FreshOf
LEMMA FreshSame ==
  ASSUME Base, FreshInv,
         \A v \in Worker : fresh'[v] => fresh[v] /\ new'[v] = new[v] /\ to'[v] = to[v] /\ dest'[v] = dest[v]
                                        /\ dying'[v] = dying[v],
         \A v \in Worker : {from'[v], to'[v], dest'[v]} \subseteq {from[v], to[v], dest[v], NoScope}
                           /\ new'[v] \in {new[v], NoObject},
         \A x \in Holder : refs'[x] \subseteq refs[x],
         \A v \in Worker : fresh'[v] => refs'[new[v]] = refs[new[v]]
                                        /\ (dying[v] # NoScope => refs'[dying[v]] = refs[dying[v]]),
         \A v \in Worker : fresh'[v] => (new[v] \in objects' <=> pc'[v] \in {"generation", "stamp"})
                                        /\ new[v] \notin trash' \cup deleted',
         \A v \in Worker : fresh'[v] /\ dest[v] # NoScope =>
                             (to[v] \in own[v] => to[v] \in own'[v]) /\ captured'[to[v]] = captured[to[v]]
  PROVE FreshInv'
<1>1. ASSUME NEW v \in Worker, fresh'[v] PROVE FreshOf(v)'
  <2>1. fresh[v] /\ FreshOf(v) /\ new[v] \in Object /\ new[v] # NoObject /\ new[v] # NoScope
    BY <1>1, Pointwise, FreshFacts, Kinds
  <2>2. new'[v] = new[v] /\ to'[v] = to[v] /\ dest'[v] = dest[v] /\ dying'[v] = dying[v]
    BY <1>1
  <2>3. \A x \in Holder : new[v] \in refs'[x] => x = to[v]
    BY <2>1 DEF FreshOf
  <2>4. \A u \in Worker : new[v] \notin {from'[u], to'[u], dest'[u]} /\ (u # v => new'[u] # new[v])
    BY <2>1 DEF FreshOf
  <2>5. refs'[new[v]] = IF dying[v] = NoScope THEN {} ELSE refs'[dying[v]]
    BY <1>1, <2>1 DEF FreshOf
  <2>6. dest[v] # NoScope => to[v] \in own'[v] /\ captured'[to[v]] = new[v]
    BY <1>1, <2>1 DEF FreshOf
  <2>7. (new[v] \in objects' <=> pc'[v] \in {"generation", "stamp"}) /\ new[v] \notin trash' \cup deleted'
    BY <1>1
  <2>. QED BY <2>2, <2>3, <2>4, <2>5, <2>6, <2>7 DEF FreshOf
<1>. QED BY <1>1 DEF FreshInv, FreshOf

\* What a new object is stored in, and what it stands for, is no new object of another
\* worker and no scope under destruction.
LEMMA NewElsewhere ==
  ASSUME Base, FreshInv, DyingInv, NEW w \in Worker, NEW h \in Holder, NEW o \in Object, Makes(w, h, o)
  PROVE  /\ \A v \in Worker \ {w} : fresh[v] => new[v] \notin {o, h, dest'[w]}
         /\ \A v \in Worker : h # dying[v]
         /\ \A v \in Worker \ {w} : dest'[w] = NoScope \/ dest'[w] # dying[v]
         /\ \A v \in Worker \ {w} : dying'[w] = NoScope \/ dying'[w] # dying[v]
         /\ \A v \in Worker \ {w} : fresh[v] /\ dying'[w] # NoScope => new[v] \notin refs[dying'[w]]
<1>. USE Kinds
<1>1. o \notin born
  BY DEF Makes, Allocated, CapturedNow, Emptied, Created
<1>2. CASE Allocated(w, h, o)
  BY <1>1, <1>2, NotNew, NotDying, FreshFacts DEF Allocated, Writable
<1>3. ASSUME NEW k \in Holder, CapturedNow(w, h, o, k)
      PROVE  /\ \A v \in Worker \ {w} : fresh[v] => new[v] \notin {o, h, dest'[w]}
             /\ \A v \in Worker : h # dying[v] /\ dest'[w] # dying[v]
             /\ dying'[w] = NoScope
  <2>1. h \in Scope /\ captured[h] = NoObject /\ dest'[w] = k /\ k \in Accessible(w) /\ dying'[w] = NoScope
    BY <1>3 DEF CapturedNow, Writable
  <2>2. \A v \in Worker : h # dying[v]
    BY <2>1, Pointwise DEF DyingOf
  <2>. QED BY <1>1, <2>1, <2>2, NotNew, NotDying, FreshFacts
<1>4. ASSUME NEW s \in Scope, Emptied(w, h, o, s)
      PROVE  /\ \A v \in Worker \ {w} : fresh[v] => new[v] \notin {o, h} /\ new[v] \notin refs[s]
             /\ \A v \in Worker \ {w} : s # dying[v]
             /\ h \in Object /\ dying'[w] = s /\ dest'[w] = NoScope
  <2>1. s \in own[w] /\ ~InUse(s) /\ captured[s] = h /\ h # NoObject /\ dying'[w] = s /\ dest'[w] = NoScope
    BY <1>4 DEF Emptied
  <2>2. h \in Object /\ h \in refs[s]
    BY <2>1 DEF Base, TypeOK, HeapInv
  <2>3. ASSUME NEW v \in Worker \ {w}, fresh[v] PROVE new[v] \notin refs[s]
    <3>1. new[v] \in refs[s] => s = to[v]
      BY <2>3 DEF FreshInv
    <3>. QED BY <2>1, <3>1 DEF InUse
  <2>4. ASSUME NEW v \in Worker \ {w} PROVE s # dying[v]
    BY <2>1, OtherScopes, Pointwise DEF DyingOf
  <2>. QED BY <1>1, <2>1, <2>2, <2>3, <2>4, FreshFacts
<1>5. \A v \in Worker : fresh[v] => new[v] \in Object
  BY FreshFacts
<1>6. CASE \E k \in Holder : CapturedNow(w, h, o, k)
  BY <1>3, <1>6
<1>7. CASE \E s \in Scope : Emptied(w, h, o, s)
  BY <1>4, <1>5, <1>7
<1>. QED BY <1>2, <1>6, <1>7 DEF Makes
LEMMA CreatedEffect ==
  ASSUME Base, NEW w \in Worker, NEW h \in Holder, NEW o \in Object, Makes(w, h, o)
  PROVE  /\ pc[w] = "idle" /\ pc'[w] = "barrier" /\ ~fresh[w] /\ dying[w] = NoScope
         /\ new[w] \notin Object /\ from[w] = NoScope /\ to[w] = NoScope /\ dest[w] = NoScope
         /\ o \notin born /\ o # h /\ born' = born \cup {o}
         /\ new'[w] = o /\ to'[w] = h /\ from'[w] = NoScope /\ fresh'[w]
         /\ OthersKeep(w)
         /\ UNCHANGED <<own, objects, read, gen, collectorVars, raced>>
         /\ refs'[h] = refs[h] \cup {o}
         /\ \A x \in Holder : x # o /\ x # h => refs'[x] = refs[x]
<1>1. PICK content : Created(w, h, o, content)
  BY DEF Makes, Allocated, CapturedNow, Emptied
<1>2. pc[w] = "idle" /\ LocalsInv
  BY <1>1 DEF Created, Base
<1>. QED BY <1>1, <1>2, Idle DEF Created

LEMMA CreatedFrom ==
  ASSUME Base, NEW w \in Worker, NEW h \in Holder, NEW o \in Object, Makes(w, h, o)
  PROVE  /\ refs'[o] = IF dying'[w] = NoScope THEN {} ELSE refs[dying'[w]]
         /\ dying'[w] # NoScope => dying'[w] \in own[w] /\ dying'[w] \in Scope /\ ~InUse(dying'[w])
                                   /\ captured[dying'[w]] = h /\ h \in Object /\ dest'[w] = NoScope
         /\ dest'[w] # NoScope => dying'[w] = NoScope /\ h \in own[w] /\ h \in Scope /\ captured[h] = NoObject
                                  /\ captured' = [captured EXCEPT ![h] = o] /\ dest'[w] \in Writable(w)
         /\ dest'[w] = NoScope => captured' = captured
         /\ \A s \in Scope : captured[s] # NoObject => captured'[s] = captured[s]
<1>. USE Kinds
<1>0. /\ captured \in [Scope -> Object \cup {NoObject}]
      /\ own[w] \subseteq Scope /\ o \in Holder
  BY DEF Base, TypeOK
<1>1. CASE Allocated(w, h, o)
  <2>1. refs'[o] = {} /\ captured' = captured /\ dest'[w] = NoScope /\ dying'[w] = NoScope
    BY <1>0, <1>1 DEF Allocated, Created
  <2>. QED BY <2>1
<1>2. CASE \E k \in Holder : CapturedNow(w, h, o, k)
  <2>1. PICK k \in Holder : CapturedNow(w, h, o, k)
    BY <1>2
  <2>2. refs'[o] = {} /\ dying'[w] = NoScope
    BY <1>0, <2>1 DEF CapturedNow, Created
  <2>3. h \in own[w] /\ captured[h] = NoObject /\ captured' = [captured EXCEPT ![h] = o]
        /\ dest'[w] \in Writable(w) /\ dest'[w] # NoScope
    BY <2>1 DEF CapturedNow, Holder
  <2>4. h \in Scope
    BY <1>0, <2>3
  <2>5. \A s \in Scope : captured[s] # NoObject => captured'[s] = captured[s]
    BY <1>0, <2>3
  <2>. QED BY <2>2, <2>3, <2>4, <2>5
<1>3. CASE \E s \in Scope : Emptied(w, h, o, s)
  <2>1. PICK s \in Scope : Emptied(w, h, o, s)
    BY <1>3
  <2>2. refs'[o] = refs[s] /\ dying'[w] = s
    BY <1>0, <2>1 DEF Emptied, Created
  <2>3. s \in own[w] /\ ~InUse(s) /\ captured[s] = h /\ h \in Object /\ captured' = captured /\ dest'[w] = NoScope /\ s # NoScope
    BY <1>0, <2>1 DEF Emptied
  <2>. QED BY <2>2, <2>3
<1>. QED BY <1>1, <1>2, <1>3 DEF Makes

LEMMA FreshCreated ==
  ASSUME Base, FreshInv, DyingInv, NEW w \in Worker, Creates(w)
  PROVE  FreshInv'
<1>1. PICK h \in Holder, o \in Object : Makes(w, h, o)
  BY Creation DEF Base
<1>2. /\ pc'[w] = "barrier" /\ ~fresh[w] /\ dying[w] = NoScope /\ o \notin born /\ o # h
      /\ new'[w] = o /\ to'[w] = h /\ from'[w] = NoScope
      /\ refs'[h] = refs[h] \cup {o}
      /\ \A x \in Holder : x # o /\ x # h => refs'[x] = refs[x]
      /\ UNCHANGED <<own, objects>>
  BY <1>1, CreatedEffect
<1>22. UNCHANGED <<trash, deleted>>
  BY <1>1, CreatedEffect DEF collectorVars
<1>20. refs'[o] = IF dying'[w] = NoScope THEN {} ELSE refs[dying'[w]]
  BY <1>1, CreatedFrom
<1>21. \A s \in Scope : captured[s] # NoObject => captured'[s] = captured[s]
  BY <1>1, CreatedFrom
<1>. USE Kinds
<1>3. /\ \A v \in Worker \ {w} : fresh[v] => new[v] \notin {o, h, dest'[w]}
      /\ \A v \in Worker : h # dying[v]
      /\ \A v \in Worker \ {w} : fresh[v] /\ dying'[w] # NoScope => new[v] \notin refs[dying'[w]]
  BY <1>1, NewElsewhere
<1>4. \A u \in Worker \ {w} : /\ from'[u] = from[u] /\ to'[u] = to[u] /\ dest'[u] = dest[u] /\ new'[u] = new[u]
                              /\ fresh'[u] = fresh[u] /\ dying'[u] = dying[u] /\ pc'[u] = pc[u]
  BY <1>1, CreatedEffect DEF OthersKeep
<1>5. ASSUME NEW v \in Worker \ {w}, fresh'[v] PROVE FreshOf(v)'
  <2>1. fresh[v] /\ FreshOf(v) /\ new[v] \in Object /\ new[v] \notin {o, h, dest'[w]}
    BY <1>3, <1>4, <1>5, Pointwise, FreshFacts
  <2>2. refs'[new[v]] = refs[new[v]] /\ (dying[v] # NoScope => refs'[dying[v]] = refs[dying[v]])
    BY <1>2, <1>20, <1>21, <1>22, <1>3, <2>1
  <2>3. \A x \in Holder : new[v] \in refs'[x] => new[v] \in refs[x]
    <3>1. new[v] \notin refs'[o]
      BY <1>2, <1>20, <1>21, <1>22, <1>3, <2>1
    <3>. QED BY <1>2, <1>20, <1>21, <1>22, <2>1, <3>1
  <2>4. \A u \in Worker : new[v] \notin {from'[u], to'[u], dest'[u]} /\ (u # v => new'[u] # new[v])
    BY <1>2, <1>20, <1>21, <1>22, <1>4, <2>1 DEF FreshOf
  <2>5. dest[v] # NoScope => to[v] \in own[v] /\ captured'[to[v]] = new[v]
    BY <1>2, <1>20, <1>21, <1>22, <2>1 DEF FreshOf
  <2>6. \A x \in Holder : new[v] \in refs'[x] => x = to[v]
    BY <2>1, <2>3 DEF FreshOf
  <2>. QED BY <1>2, <1>20, <1>21, <1>22, <1>4, <2>1, <2>2, <2>4, <2>5, <2>6 DEF FreshOf
<1>6. FreshOf(w)'
  <2>1. /\ (\A x \in Holder : refs[x] \subseteq born) /\ objects \cup trash \cup deleted \subseteq born
        /\ \A u \in Worker : new[u] \in born \cup {NoObject} /\ {from[u], to[u], dest[u]} \subseteq Scope \cup born \cup {NoScope}
    BY DEF Base, HeapInv, TypeOK
  <2>2. dying'[w] # NoScope => dying'[w] \in Scope /\ dying'[w] # h
    BY <1>1, CreatedFrom
  <2>3. \A x \in Holder : o \in refs'[x] => x = h
    <3>1. o \notin refs'[o]
      BY <1>2, <1>20, <1>21, <1>22, <2>1, <2>2
    <3>. QED BY <1>2, <1>20, <1>21, <1>22, <2>1, <3>1
  <2>4. refs'[o] = IF dying'[w] = NoScope THEN {} ELSE refs'[dying'[w]]
    BY <1>2, <1>20, <1>21, <1>22, <2>2
  <2>5. o \notin Scope \cup born \cup {NoScope} \cup {NoObject}
    BY <1>2
  <2>6. \A u \in Worker \ {w} : o \notin {from'[u], to'[u], dest'[u]} /\ new'[u] # o
    BY <1>4, <2>1, <2>5
  <2>7. dest'[w] # o
    <3>1. dest'[w] # NoScope => dest'[w] \in Accessible(w)
      BY <1>1, CreatedFrom DEF Writable
    <3>. QED BY <2>5, <3>1, AccessThere DEF Base, Holder
  <2>8. dest'[w] # NoScope => h \in own[w] /\ captured'[h] = o
    BY <1>1, CreatedFrom DEF Base, TypeOK
  <2>. QED BY <1>2, <1>20, <1>21, <1>22, <2>1, <2>3, <2>4, <2>5, <2>6, <2>7, <2>8 DEF FreshOf
<1>7. ASSUME NEW v \in Worker, fresh'[v] PROVE FreshOf(v)'
  BY <1>5, <1>6, <1>7
<1>. QED BY <1>7 DEF FreshInv, FreshOf
\* Sweeping lets what is in use alone.
LEMMA SweptNotSafe ==
  ASSUME Base, FreshInv, DeadInv, NEW w \in Worker, NEW o \in Object, Sweep(w, o), gen[o] # gcGeneration, ~raced'
  PROVE  ~Safe(o) /\ \A v \in Worker : fresh[v] => new[v] # o
<1>1. ~Unstamped(o) /\ o \in objects
  BY DEF Sweep, DeadInv
<1>2. ASSUME NEW v \in Worker, fresh[v] PROVE new[v] # o
  BY <1>1, <1>2 DEF FreshInv, Unstamped
<1>. QED BY <1>2 DEF Safe

LEMMA FreshStep ==
  ASSUME Base, FreshInv, DyingInv, UseInv, DeadInv, ~raced',
         NEW w \in Worker, RunScript(w) \/ SetObject(w) \/ Tidy(w)
  PROVE  FreshInv'
<1>. USE Kinds
<1>0. /\ own \in [Worker -> SUBSET (Scope \ Global)] /\ refs \in [Holder -> SUBSET Object] /\ TypeOK /\ LocalsInv
      /\ captured \in [Scope -> Object \cup {NoObject}] /\ pc \in [Worker -> WorkerState]
  BY DEF Base, TypeOK
<1>1. \A v \in Worker : fresh[v] => FreshOf(v) /\ new[v] \in Object /\ new[v] \notin Scope
  BY Pointwise, FreshFacts
<1>2. \A v \in Worker : fresh[v] => (new[v] \in objects <=> pc[v] \in {"generation", "stamp"})
                                    /\ new[v] \notin trash \cup deleted
                                    /\ (dest[v] # NoScope => to[v] \in own[v])
  BY <1>1 DEF FreshOf
<1>3. ASSUME NEW s \in Scope, NewScope(w, s) PROVE FreshInv'
  <2>1. \A v \in Worker : own[v] \subseteq own'[v]
    BY <1>0, <1>3 DEF NewScope
  <2>2. UNCHANGED <<refs, objects, captured, pc, new, from, to, fresh, dest, dying, trash, deleted>>
    BY <1>3 DEF NewScope, workerVars, collectorVars
  <2>. QED BY <1>2, <2>1, <2>2, FreshSame
<1>4. ASSUME NEW s \in Scope, DestroyScope(w, s) PROVE FreshInv'
  <2>1. /\ \A v \in Worker : own'[v] = own[v] \/ own'[v] = own[v] \ {s}
        /\ \A x \in Holder : refs'[x] = IF x = s THEN {} ELSE refs[x]
    BY <1>0, <1>4 DEF DestroyScope
  <2>2. UNCHANGED <<objects, captured, pc, new, from, to, fresh, dest, dying, trash, deleted>>
    BY <1>4 DEF DestroyScope, workerVars, collectorVars
  <2>3. \A v \in Worker : to[v] # s /\ dying[v] # s
    BY <1>4, Pointwise DEF DestroyScope, InUse, DyingOf
  <2>4. \A v \in Worker : fresh[v] => refs'[new[v]] = refs[new[v]]
                                      /\ (dying[v] # NoScope => refs'[dying[v]] = refs[dying[v]])
    BY <1>1, <2>1, <2>3
  <2>. QED BY <1>2, <2>1, <2>2, <2>3, <2>4, FreshSame
<1>5. ASSUME EraseScope(w) PROVE FreshInv'
  <2>. DEFINE s == dying[w]
  <2>1. s \in own[w] /\ ~InUse(s) /\ ~fresh[w] /\ s \in Scope /\ pc[w] = "erase"
    BY <1>5, FreshFacts, Pointwise DEF EraseScope, LocalsInv, Base, DyingOf
  <2>2. /\ \A v \in Worker : own'[v] = own[v] \/ own'[v] = own[v] \ {s}
        /\ \A x \in Holder : refs'[x] = IF x = s THEN {} ELSE refs[x]
        /\ \A x \in Scope : x # s => captured'[x] = captured[x]
        /\ \A v \in Worker \ {w} : pc'[v] = pc[v] /\ dying'[v] = dying[v]
    BY <1>0, <1>5, <2>1 DEF EraseScope, TypeOK
  <2>3. UNCHANGED <<objects, new, from, to, fresh, dest, trash, deleted>>
    BY <1>5 DEF EraseScope, collectorVars
  <2>4. \A v \in Worker \ {w} : to[v] # s /\ dying[v] # s
    <3>1. \A v \in Worker \ {w} : dying[v] # NoScope => dying[v] \in own[v]
      BY Pointwise DEF DyingOf
    <3>. QED BY <2>1, <3>1, OtherScopes DEF InUse
  <2>5. \A v \in Worker : fresh[v] => refs'[new[v]] = refs[new[v]]
                                      /\ (dying[v] # NoScope => refs'[dying[v]] = refs[dying[v]])
    BY <1>1, <2>1, <2>2, <2>4
  <2>6. \A v \in Worker : fresh[v] /\ dest[v] # NoScope => to[v] \in Scope
    BY <1>2
  <2>7. \A v \in Worker : fresh'[v] => v # w
    BY <2>1, <2>3
  <2>. HIDE DEF s
  <2>. QED BY <1>2, <2>2, <2>3, <2>4, <2>5, <2>6, <2>7, FreshSame
<1>6. ASSUME NEW g \in Holder, NEW o \in Object, NEW h \in Holder, Assign(w, g, o, h) PROVE FreshInv'
  <2>1. Stores(w, o, g, h) /\ g \in Accessible(w) /\ h \in Accessible(w) /\ o \in refs[g] /\ ~Locked(w, g, o)
    BY <1>0, <1>6, AssignEffect DEF Assign, Writable
  <2>2. \A v \in Worker \ {w} : fresh[v] => new[v] # o
    BY <1>1, <2>1 DEF FreshOf, Locked
  <2>3. \A v \in Worker \ {w} : fresh[v] => new[v] # g /\ new[v] # h
    BY <2>1, NotNew
  <2>4. \A v \in Worker : dying[v] # h
    BY <2>1, NotDying
  <2>. QED BY <2>1, <2>2, <2>3, <2>4, FreshStores
<1>7. ASSUME StoreCaptured(w) PROVE FreshInv'
  <2>1. Stores(w, new[w], NoScope, dest[w]) /\ dest[w] \in Holder /\ new[w] \in Object
    BY <1>0, <1>7, StoreEffect
  <2>2. \A v \in Worker \ {w} : fresh[v] => new[v] \notin {new[w], NoScope, dest[w]}
    BY <1>1 DEF FreshOf
  <2>3. \A v \in Worker : dying[v] # dest[w]
    BY <2>1, Pointwise DEF DyingOf, InUse
  <2>. QED BY <2>1, <2>2, <2>3, FreshStores
<1>8. ASSUME NEW o \in Object, NEW h \in Holder, SetNull(w, h, o) PROVE FreshInv'
  <2>1. /\ \A x \in Holder : refs'[x] = IF x = h THEN refs[h] \ {o} ELSE refs[x]
        /\ UNCHANGED <<own, objects, captured, pc, new, from, to, fresh, dest, dying, trash, deleted>>
    BY <1>0, <1>8 DEF SetNull, workerVars, collectorVars
  <2>2. h \in Accessible(w) /\ ~fresh[w]
    BY <1>0, <1>8, Idle DEF SetNull, Writable
  <2>3. \A v \in Worker : h # dying[v] /\ (fresh[v] => h # new[v])
    BY <2>2, NotNew, NotDying
  <2>4. \A v \in Worker : fresh[v] => refs'[new[v]] = refs[new[v]]
                                      /\ (dying[v] # NoScope => refs'[dying[v]] = refs[dying[v]])
    BY <1>1, <2>1, <2>3
  <2>. QED BY <1>2, <2>1, <2>4, FreshSame
<1>9. ASSUME UNCHANGED <<refs, own, captured, trash, deleted, dest, dying>>,
             \A v \in Worker : fresh'[v] => fresh[v] /\ new'[v] = new[v] /\ to'[v] = to[v],
             \A v \in Worker : {from'[v], to'[v]} \subseteq {from[v], to[v], NoScope} /\ new'[v] \in {new[v], NoObject},
             \A v \in Worker : fresh'[v] => (new[v] \in objects' <=> pc'[v] \in {"generation", "stamp"})
      PROVE  FreshInv'
  BY <1>2, <1>9, FreshSame
<1>10. ASSUME CheckBarrier(w) \/ Push(w) PROVE FreshInv'
  <2>1. UNCHANGED <<refs, own, captured, trash, deleted, dest, dying, objects>>
    BY <1>10 DEF CheckBarrier, Push, heapVars, collectorVars
  <2>2. pc[w] \in {"barrier", "push"} /\ (Leaves(w) \/ Moves(w, "push") \/ Moves(w, "register"))
    BY <1>0, <1>10, BarrierEffect, PushEffect DEF CheckBarrier, Push
  <2>3. \A v \in Worker : fresh'[v] => fresh[v] /\ new'[v] = new[v] /\ to'[v] = to[v]
    BY <2>2 DEF Leaves, Moves, OthersKeep
  <2>4. \A v \in Worker : {from'[v], to'[v]} \subseteq {from[v], to[v], NoScope} /\ new'[v] \in {new[v], NoObject}
    BY <2>2 DEF Leaves, Moves, OthersKeep
  <2>5. \A v \in Worker : pc'[v] \in {"generation", "stamp"} <=> pc[v] \in {"generation", "stamp"}
    BY <1>0, <2>2 DEF Leaves, Moves, OthersKeep
  <2>. QED BY <1>2, <1>9, <2>1, <2>3, <2>4, <2>5
<1>11. ASSUME Register(w) PROVE FreshInv'
  <2>1. /\ UNCHANGED <<refs, own, captured, trash, deleted, dest, dying, new, from, to, fresh>>
        /\ objects' = objects \cup {new[w]} /\ pc' = [pc EXCEPT ![w] = "generation"] /\ fresh[w]
    BY <1>0, <1>11 DEF Register, LocalsInv
  <2>2. \A v \in Worker \ {w} : fresh[v] => new[v] # new[w]
    BY <1>1, <2>1 DEF FreshOf
  <2>. QED BY <1>0, <1>2, <1>9, <2>1, <2>2
<1>12. ASSUME ReadGeneration(w) PROVE FreshInv'
  <2>1. /\ UNCHANGED <<refs, own, captured, trash, deleted, dest, dying, new, from, to, fresh, objects>>
        /\ pc[w] = "generation" /\ pc' = [pc EXCEPT ![w] = "stamp"]
    BY <1>12 DEF ReadGeneration, heapVars, collectorVars
  <2>. QED BY <1>0, <1>2, <1>9, <2>1
<1>13. ASSUME Stamp(w) PROVE FreshInv'
  <2>1. UNCHANGED <<refs, own, captured, trash, deleted, dest, dying, objects>>
    BY <1>0, <1>13, StampEffect DEF collectorVars
  <2>2. /\ OthersKeep(w) /\ from'[w] = NoScope /\ to'[w] = NoScope /\ ~fresh'[w]
        /\ new'[w] \in {new[w], NoObject}
    BY <1>0, <1>13, StampEffect DEF Onward
  <2>. QED BY <1>2, <1>9, <2>1, <2>2 DEF OthersKeep
<1>14. ASSUME Tidy(w) PROVE FreshInv'
  <2>1. /\ UNCHANGED <<own, born, captured, new, from, to, fresh, dest, read, dying>>
        /\ \A v \in Worker : pc'[v] \in {"generation", "stamp"} <=> pc[v] \in {"generation", "stamp"}
    BY <1>0, <1>14, TidyKeeps DEF TidyEffect
  <2>2. ASSUME UNCHANGED <<refs, objects>>, trash' \cup deleted' = trash \cup deleted PROVE FreshInv'
    BY <1>2, <2>1, <2>2, FreshSame
  <2>3. ASSUME NEW o \in Object, Sweep(w, o) PROVE FreshInv'
    <3>1. CASE gen[o] = gcGeneration
      BY <2>2, <2>3, <3>1 DEF Sweep
    <3>2. CASE gen[o] # gcGeneration
      <4>1. \A v \in Worker : fresh[v] => new[v] # o
        BY <2>3, <3>2, SweptNotSafe
      <4>2. objects' = objects \ {o} /\ trash' = trash \cup {o} /\ deleted' = deleted
            /\ \A x \in Holder : refs'[x] \subseteq refs[x] /\ (x # o => refs'[x] = refs[x])
        BY <1>0, <2>3, <3>2 DEF Sweep
      <4>3. \A v \in Worker : fresh[v] => refs'[new[v]] = refs[new[v]]
                                      /\ (dying[v] # NoScope => refs'[dying[v]] = refs[dying[v]])
        BY <1>1, <4>1, <4>2
      <4>. QED BY <1>2, <2>1, <4>1, <4>2, <4>3, FreshSame
    <3>. QED BY <3>1, <3>2
  <2>4. CASE Collect(w)
    BY <2>2, <2>4 DEF Collect, heapVars
  <2>5. CASE ~(Collect(w) \/ \E o \in Object : Sweep(w, o))
    <3>1. UNCHANGED <<refs, objects, trash, deleted>>
      BY <1>14, <2>5 DEF Tidy, BeginMarking, ArmBarrier, SnapshotScopes, MarkScope, MarkObject, ObjectsMarked, BeginSweeping, heapVars
    <3>. QED BY <2>2, <3>1
  <2>. QED BY <2>3, <2>4, <2>5
<1>. QED BY <1>3, <1>4, <1>5, <1>6, <1>7, <1>8, <1>10, <1>11, <1>12, <1>13, <1>14, FreshCreated
       DEF RunScript, SetObject, Creates
LEMMA DyingSame ==
  ASSUME Base, DyingInv,
         \A v \in Worker : dying'[v] # NoScope =>
           /\ dying'[v] = dying[v]
           /\ dying[v] \in own[v] => dying[v] \in own'[v]
           /\ captured[dying[v]] # NoObject => captured'[dying[v]] = captured[dying[v]]
           /\ fresh'[v] => fresh[v] /\ new'[v] = new[v] /\ to'[v] = to[v]
                           /\ (new[v] \in refs[to[v]] => new[v] \in refs'[to[v]]),
         \A v \in Worker : {from'[v], to'[v], dest'[v]} \cap Scope
                             \subseteq {from[v], to[v], dest[v]} \cup (Scope \ {dying[u] : u \in Worker})
  PROVE  DyingInv'
<1>1. ASSUME NEW v \in Worker, dying'[v] # NoScope PROVE DyingOf(v)'
  <2>1. dying'[v] = dying[v] /\ DyingOf(v) /\ dying[v] \in Scope
    BY <1>1, Pointwise, Kinds
  <2>2. \A u \in Worker : dying[v] \notin {from'[u], to'[u], dest'[u]}
    BY <2>1 DEF DyingOf, InUse
  <2>3. ~InUse(dying[v])'
    BY <2>1, <2>2 DEF InUse
  <2>4. fresh'[v] => to'[v] = captured[dying[v]] /\ new'[v] \in refs'[to'[v]]
    BY <1>1, <2>1 DEF DyingOf
  <2>5. dying[v] \in own'[v] /\ captured'[dying[v]] = captured[dying[v]] /\ captured[dying[v]] # NoObject
    BY <1>1, <2>1 DEF DyingOf
  <2>. QED BY <2>1, <2>3, <2>4, <2>5 DEF DyingOf
<1>. QED BY <1>1 DEF DyingInv, DyingOf

LEMMA DyingCreated ==
  ASSUME Base, FreshInv, DyingInv, NEW w \in Worker, Creates(w)
  PROVE  DyingInv'
<1>1. PICK h \in Holder, o \in Object : Makes(w, h, o)
  BY Creation DEF Base
<1>2. /\ ~fresh[w] /\ dying[w] = NoScope /\ o \notin born /\ o # h
      /\ new'[w] = o /\ to'[w] = h /\ from'[w] = NoScope /\ own' = own
      /\ refs'[h] = refs[h] \cup {o}
      /\ \A x \in Holder : x # o /\ x # h => refs'[x] = refs[x]
  BY <1>1, CreatedEffect
<1>3. /\ \A s \in Scope : captured[s] # NoObject => captured'[s] = captured[s]
      /\ dying'[w] # NoScope => dying'[w] \in own[w] /\ dying'[w] \in Scope /\ ~InUse(dying'[w])
                                /\ captured[dying'[w]] = h /\ h \in Object /\ dest'[w] = NoScope
  BY <1>1, CreatedFrom
<1>4. /\ \A v \in Worker : h # dying[v]
      /\ \A v \in Worker \ {w} : dest'[w] = NoScope \/ dest'[w] # dying[v]
  BY <1>1, NewElsewhere
<1>5. \A u \in Worker \ {w} : /\ from'[u] = from[u] /\ to'[u] = to[u] /\ dest'[u] = dest[u] /\ new'[u] = new[u]
                              /\ fresh'[u] = fresh[u] /\ dying'[u] = dying[u]
  BY <1>1, CreatedEffect DEF OthersKeep
<1>6. ASSUME NEW v \in Worker \ {w}, dying'[v] # NoScope PROVE DyingOf(v)'
  <2>1. dying'[v] = dying[v] /\ DyingOf(v) /\ dying[v] \in Scope
    BY <1>5, <1>6, Pointwise, Kinds
  <2>2. \A u \in Worker : dying[v] \notin {from'[u], to'[u], dest'[u]}
    BY <1>2, <1>4, <1>5, <1>6, <2>1 DEF DyingOf, InUse
  <2>3. fresh'[v] => to'[v] = captured[dying[v]] /\ new'[v] \in refs'[to'[v]]
    <3>1. fresh[v] => to[v] \in Holder /\ new[v] \in refs[to[v]] /\ to[v] # o
      BY <1>2, <2>1, Kinds, FreshFacts DEF DyingOf, Base, HeapInv
    <3>. QED BY <1>2, <1>5, <2>1, <3>1 DEF DyingOf
  <2>. QED BY <1>2, <1>3, <2>1, <2>2, <2>3 DEF DyingOf, InUse
<1>7. ASSUME dying'[w] # NoScope PROVE DyingOf(w)'
  <2>1. \A u \in Worker : dying'[w] \notin {from'[u], to'[u], dest'[u]}
    BY <1>2, <1>3, <1>5, <1>7, Kinds DEF InUse
  <2>2. captured'[dying'[w]] = h /\ h # NoObject /\ new'[w] \in refs'[h]
    BY <1>2, <1>3, <1>7, Kinds
  <2>. QED BY <1>2, <1>3, <1>7, <2>1, <2>2 DEF DyingOf, InUse
<1>8. ASSUME NEW v \in Worker, dying'[v] # NoScope PROVE DyingOf(v)'
  BY <1>6, <1>7, <1>8
<1>. QED BY <1>8 DEF DyingInv, DyingOf

LEMMA DyingStep ==
  ASSUME Base, FreshInv, DyingInv, UseInv, SafeInv, DeadInv, ~raced',
         NEW w \in Worker, RunScript(w) \/ SetObject(w) \/ Tidy(w)
  PROVE  DyingInv'
<1>. USE Kinds
<1>0. /\ own \in [Worker -> SUBSET (Scope \ Global)] /\ refs \in [Holder -> SUBSET Object] /\ TypeOK /\ LocalsInv
      /\ captured \in [Scope -> Object \cup {NoObject}] /\ pc \in [Worker -> WorkerState]
  BY DEF Base, TypeOK
<1>1. \A v \in Worker : dying[v] # NoScope => DyingOf(v)
  BY Pointwise
<1>2. \A v \in Worker : fresh[v] => to[v] \in Holder /\ new[v] \in Object
  BY FreshFacts
<1>3. ASSUME NEW s \in Scope, NewScope(w, s) PROVE DyingInv'
  <2>1. \A v \in Worker : own[v] \subseteq own'[v]
    BY <1>0, <1>3 DEF NewScope
  <2>2. UNCHANGED <<refs, captured, new, from, to, fresh, dest, dying>>
    BY <1>3 DEF NewScope, workerVars
  <2>. QED BY <2>1, <2>2, DyingSame
<1>4. ASSUME NEW s \in Scope, DestroyScope(w, s) PROVE DyingInv'
  <2>1. /\ \A v \in Worker : own'[v] = own[v] \/ own'[v] = own[v] \ {s}
        /\ \A x \in Holder : refs'[x] = IF x = s THEN {} ELSE refs[x]
    BY <1>0, <1>4 DEF DestroyScope
  <2>2. UNCHANGED <<captured, new, from, to, fresh, dest, dying>>
    BY <1>4 DEF DestroyScope, workerVars
  <2>3. \A v \in Worker : to[v] # s /\ dying[v] # s
    BY <1>1, <1>4 DEF DestroyScope, InUse, DyingOf
  <2>4. \A v \in Worker : fresh[v] => refs'[to[v]] = refs[to[v]]
    BY <1>2, <2>1, <2>3
  <2>. QED BY <2>1, <2>2, <2>3, <2>4, DyingSame
<1>5. ASSUME EraseScope(w) PROVE DyingInv'
  <2>. DEFINE s == dying[w]
  <2>1. s \in own[w] /\ ~InUse(s) /\ ~fresh[w] /\ s \in Scope /\ pc[w] = "erase"
    BY <1>1, <1>5, FreshFacts DEF EraseScope, LocalsInv, Base, DyingOf
  <2>2. /\ \A v \in Worker : own'[v] = own[v] \/ own'[v] = own[v] \ {s}
        /\ \A x \in Holder : refs'[x] = IF x = s THEN {} ELSE refs[x]
        /\ \A x \in Scope : x # s => captured'[x] = captured[x]
        /\ \A v \in Worker \ {w} : dying'[v] = dying[v]
        /\ dying'[w] = NoScope
    BY <1>0, <1>5, <2>1 DEF EraseScope, TypeOK
  <2>3. UNCHANGED <<new, from, to, fresh, dest>>
    BY <1>5 DEF EraseScope
  <2>4. \A v \in Worker \ {w} : to[v] # s /\ dying[v] # s
    <3>1. \A v \in Worker \ {w} : dying[v] # NoScope => dying[v] \in own[v]
      BY <1>1 DEF DyingOf
    <3>. QED BY <2>1, <3>1, OtherScopes DEF InUse
  <2>5. \A v \in Worker \ {w} : fresh[v] => refs'[to[v]] = refs[to[v]]
    BY <1>2, <2>2, <2>4
  <2>. HIDE DEF s
  <2>. QED BY <2>2, <2>3, <2>4, <2>5, DyingSame
<1>6. ASSUME NEW g \in Holder \cup {NoScope}, NEW o \in Object, NEW h \in Holder, Stores(w, o, g, h),
             \A v \in Worker : dying[v] # h /\ (dying[v] # g \/ g = NoScope)
      PROVE  DyingInv'
  <2>1. /\ own' = own /\ captured' = captured /\ dying' = dying /\ dying'[w] = NoScope
        /\ \A x \in Holder : refs[x] \subseteq refs'[x]
        /\ from'[w] = g /\ to'[w] = h /\ dest'[w] = NoScope
    BY <1>6 DEF Stores
  <2>2. \A v \in Worker \ {w} : /\ from'[v] = from[v] /\ to'[v] = to[v] /\ dest'[v] = dest[v]
                                /\ fresh'[v] = fresh[v] /\ new'[v] = new[v]
    BY <1>6 DEF Stores, OthersKeep
  <2>3. {from'[w], to'[w], dest'[w]} \cap Scope \subseteq Scope \ {dying[u] : u \in Worker}
    BY <1>6, <2>1
  <2>. QED BY <1>2, <2>1, <2>2, <2>3, DyingSame
<1>7. ASSUME NEW g \in Holder, NEW o \in Object, NEW h \in Holder, Assign(w, g, o, h) PROVE DyingInv'
  <2>1. Stores(w, o, g, h) /\ g \in Accessible(w) /\ h \in Accessible(w)
    BY <1>0, <1>7, AssignEffect DEF Assign, Writable
  <2>. QED BY <1>6, <2>1, NotDying
<1>8. ASSUME StoreCaptured(w) PROVE DyingInv'
  <2>1. Stores(w, new[w], NoScope, dest[w]) /\ dest[w] \in Holder /\ new[w] \in Object
    BY <1>0, <1>8, StoreEffect
  <2>2. \A v \in Worker : dying[v] # dest[w]
    BY <1>1, <2>1 DEF DyingOf, InUse
  <2>. QED BY <1>6, <2>1, <2>2
<1>9. ASSUME NEW o \in Object, NEW h \in Holder, SetNull(w, h, o) PROVE DyingInv'
  <2>1. /\ \A x \in Holder : refs'[x] = IF x = h THEN refs[h] \ {o} ELSE refs[x]
        /\ UNCHANGED <<own, captured, new, from, to, fresh, dest, dying>>
        /\ pc[w] = "idle" /\ ~Locked(w, h, o)
    BY <1>0, <1>9 DEF SetNull, workerVars
  <2>2. ~fresh[w]
    BY <1>0, <2>1, Idle
  <2>3. ASSUME NEW v \in Worker, fresh[v], new[v] \in refs[to[v]] PROVE new[v] \in refs'[to[v]]
    <3>1. ~(to[v] = h /\ new[v] = o)
      BY <2>1, <2>2, <2>3 DEF Locked
    <3>. QED BY <1>2, <2>1, <2>3, <3>1
  <2>. QED BY <2>1, <2>3, DyingSame
<1>10. ASSUME UNCHANGED <<refs, own, captured, dest, dying>>,
             \A v \in Worker : fresh'[v] => fresh[v] /\ new'[v] = new[v] /\ to'[v] = to[v],
             \A v \in Worker : {from'[v], to'[v]} \subseteq {from[v], to[v], NoScope}
      PROVE  DyingInv'
  BY <1>10, DyingSame
<1>11. ASSUME CheckBarrier(w) \/ Push(w) PROVE DyingInv'
  <2>1. UNCHANGED <<refs, own, captured, dest, dying>>
    BY <1>11 DEF CheckBarrier, Push, heapVars
  <2>2. Leaves(w) \/ Moves(w, "push") \/ Moves(w, "register")
    BY <1>0, <1>11, BarrierEffect, PushEffect
  <2>3. \A v \in Worker : fresh'[v] => fresh[v] /\ new'[v] = new[v] /\ to'[v] = to[v]
    BY <2>2 DEF Leaves, Moves, OthersKeep
  <2>4. \A v \in Worker : {from'[v], to'[v]} \subseteq {from[v], to[v], NoScope}
    BY <2>2 DEF Leaves, Moves, OthersKeep
  <2>. QED BY <1>10, <2>1, <2>3, <2>4
<1>12. ASSUME Register(w) \/ ReadGeneration(w) PROVE DyingInv'
  <2>1. UNCHANGED <<refs, own, captured, dest, dying, new, from, to, fresh>>
    BY <1>12 DEF Register, ReadGeneration, heapVars
  <2>. QED BY <1>10, <2>1
<1>13. ASSUME Stamp(w) PROVE DyingInv'
  <2>1. UNCHANGED <<refs, own, captured, dest, dying>>
    BY <1>0, <1>13, StampEffect
  <2>2. OthersKeep(w) /\ from'[w] = NoScope /\ to'[w] = NoScope /\ ~fresh'[w]
    BY <1>0, <1>13, StampEffect
  <2>. QED BY <1>10, <2>1, <2>2 DEF OthersKeep
<1>14. ASSUME Tidy(w) PROVE DyingInv'
  <2>1. UNCHANGED <<own, born, captured, new, from, to, fresh, dest, read, dying>>
    BY <1>0, <1>14, TidyKeeps DEF TidyEffect
  <2>2. ASSUME NEW o \in Object, Sweep(w, o) PROVE DyingInv'
    <3>1. CASE gen[o] = gcGeneration
      BY <1>10, <2>1, <2>2, <3>1 DEF Sweep
    <3>2. CASE gen[o] # gcGeneration
      <4>1. ~Safe(o) /\ phase = "Sweeping" /\ \A x \in Holder : x # o => refs'[x] = refs[x]
        BY <1>0, <2>2, <3>2, SweptNotSafe DEF Sweep
      <4>2. ASSUME NEW v \in Worker, dying[v] # NoScope, fresh[v] PROVE to[v] # o
        <5>1. to[v] = captured[dying[v]] /\ dying[v] \in scopes /\ dying[v] \in Scope /\ captured[dying[v]] # NoObject
          BY <1>1, <4>2 DEF DyingOf
        <5>2. to[v] \in refs[dying[v]]
          BY <5>1 DEF Base, HeapInv
        <5>3. Safe(to[v])
          BY <4>1, <5>1, <5>2 DEF SafeInv
        <5>. QED BY <4>1, <5>3
      <4>. QED BY <1>2, <2>1, <4>1, <4>2, DyingSame
    <3>. QED BY <3>1, <3>2
  <2>3. CASE ~(\E o \in Object : Sweep(w, o))
    <3>1. UNCHANGED refs
      BY <1>14, <2>3 DEF Tidy, BeginMarking, ArmBarrier, SnapshotScopes, MarkScope, MarkObject, ObjectsMarked,
         BeginSweeping, Collect, heapVars
    <3>. QED BY <1>10, <2>1, <3>1
  <2>. QED BY <2>2, <2>3
<1>. QED BY <1>3, <1>4, <1>5, <1>7, <1>8, <1>9, <1>11, <1>12, <1>13, <1>14, DyingCreated
       DEF RunScript, SetObject, Creates
------------------------------------------------------------------------------
(* Unless raced: after the marking, what is in use is marked or new.       *)

Usable(h) == (h \in Object => Safe(h) \/ h \in trash) /\ (h \in Scope => h \in scopes)

LEMMA SafeSame ==
  ASSUME SafeInv, phase \in {"Marked", "Sweeping"},
         \A o \in Object : Safe(o) => Safe(o)',
         \A h \in Holder : Usable(h)' => \A o \in refs'[h] : Safe(o)' \/ (Usable(h) /\ o \in refs[h]),
         \A v \in Worker : new'[v] \in Object => Safe(new[v])' \/ new'[v] = new[v],
         \A o \in gcTargets' : Safe(o)' \/ o \in gcTargets,
         TypeOK
  PROVE  SafeInv'
<1>1. /\ \A h \in Holder : Usable(h) => \A o \in refs[h] : Safe(o)
      /\ \A v \in Worker : new[v] \in Object => Safe(new[v])
      /\ \A o \in gcTargets : Safe(o)
  BY DEF SafeInv, Usable
<1>2. gcTargets \subseteq Object /\ \A h \in Holder : refs[h] \subseteq Object
  BY DEF TypeOK
<1>3. \A h \in Holder : Usable(h)' => \A o \in refs'[h] : Safe(o)'
  BY <1>1, <1>2
<1>4. \A o \in gcTargets' : Safe(o)'
  BY <1>1, <1>2
<1>5. \A v \in Worker : new'[v] \in Object => Safe(new[v])'
  BY <1>1
<1>. QED BY <1>3, <1>4, <1>5 DEF SafeInv, Usable

LEMMA SafeKept ==
  ASSUME UNCHANGED <<gen, gcGeneration>>,
         \A v \in Worker : (fresh'[v] <=> fresh[v]) /\ (fresh[v] => new'[v] = new[v])
  PROVE  \A o \in Object : Safe(o)' <=> Safe(o)
BY DEF Safe

LEMMA AccessSafe ==
  ASSUME Base, SafeInv, phase \in {"Marked", "Sweeping"}, NEW w \in Worker, NEW h \in Accessible(w)
  PROVE  Usable(h)
<1>1. CASE h \in scopes /\ h \in Scope
  BY <1>1, Kinds DEF Usable
<1>2. CASE h \in Object /\ \E s \in own[w] : s \in Scope /\ s \in scopes /\ h \in refs[s]
  BY <1>2, Kinds DEF Usable, SafeInv
<1>. QED BY <1>1, <1>2, AccessKinds DEF Base

LEMMA SafeScript ==
  ASSUME Base, SafeInv, phase \in {"Marked", "Sweeping"}, NEW w \in Worker, RunScript(w)
  PROVE  SafeInv'
<1>. USE Kinds
<1>0. /\ own \in [Worker -> SUBSET (Scope \ Global)] /\ refs \in [Holder -> SUBSET Object] /\ TypeOK /\ LocalsInv
  BY DEF Base, TypeOK
<1>00. UNCHANGED <<gen, gcGeneration, gcTargets, trash>>
  BY ScriptKeeps DEF collectorVars, cycleVars
<1>1. ASSUME UNCHANGED <<fresh, new>>, \A h \in Holder : refs'[h] \subseteq refs[h], scopes' \subseteq scopes
      PROVE  SafeInv'
  <2>1. \A o \in Object : Safe(o)' <=> Safe(o)
    BY <1>00, <1>1, SafeKept
  <2>2. \A h \in Holder : Usable(h)' => Usable(h)
    BY <1>00, <1>1, <2>1 DEF Usable
  <2>. QED BY <1>0, <1>00, <1>1, <2>1, <2>2, SafeSame
<1>2. ASSUME NEW s \in Scope, NewScope(w, s) PROVE SafeInv'
  <2>1. UNCHANGED <<fresh, new, refs>> /\ refs[s] = {} /\ scopes' \subseteq scopes \cup {s}
    BY <1>0, <1>2 DEF NewScope, workerVars, scopes
  <2>2. \A o \in Object : Safe(o)' <=> Safe(o)
    BY <1>00, <2>1, SafeKept
  <2>3. \A h \in Holder : Usable(h)' => Usable(h) \/ h = s
    BY <1>00, <2>1, <2>2 DEF Usable
  <2>. QED BY <1>0, <1>00, <2>1, <2>2, <2>3, SafeSame
<1>3. ASSUME NEW s \in Scope, DestroyScope(w, s) PROVE SafeInv'
  BY <1>0, <1>1, <1>3 DEF DestroyScope, workerVars, scopes
<1>4. ASSUME EraseScope(w) PROVE SafeInv'
  BY <1>0, <1>1, <1>4 DEF EraseScope, scopes
<1>5. ASSUME NEW o \in Object, NEW h \in Holder, SetNull(w, h, o) PROVE SafeInv'
  BY <1>0, <1>1, <1>5 DEF SetNull, workerVars, scopes
<1>6. ASSUME NEW o \in Object, NEW h \in Holder, NEW g, Stores(w, o, g, h), ~fresh[w], Safe(o) PROVE SafeInv'
  <2>1. /\ fresh' = fresh /\ own' = own /\ new'[w] = o /\ \A v \in Worker \ {w} : new'[v] = new[v]
        /\ \A x \in Holder : refs'[x] = IF x = h THEN refs[h] \cup {o} ELSE refs[x]
    BY <1>6 DEF Stores, OthersKeep
  <2>2. \A x \in Object : Safe(x)' <=> Safe(x)
    BY <1>00, <1>6, <2>1, SafeKept
  <2>3. \A x \in Holder : Usable(x)' => Usable(x)
    BY <1>00, <2>1, <2>2 DEF Usable, scopes
  <2>. QED BY <1>0, <1>00, <1>6, <2>1, <2>2, <2>3, SafeSame
<1>7. ASSUME NEW g \in Holder, NEW o \in Object, NEW h \in Holder, Assign(w, g, o, h) PROVE SafeInv'
  <2>1. Stores(w, o, g, h) /\ g \in Accessible(w) /\ o \in refs[g] /\ ~fresh[w]
    BY <1>0, <1>7, AssignEffect, Idle DEF Assign
  <2>2. Safe(o)
    BY <2>1, AccessSafe DEF SafeInv, Usable
  <2>. QED BY <1>6, <2>1, <2>2
<1>8. ASSUME StoreCaptured(w) PROVE SafeInv'
  <2>1. Stores(w, new[w], NoScope, dest[w]) /\ dest[w] \in Holder /\ new[w] \in Object /\ pc[w] = "store"
    BY <1>0, <1>8, StoreEffect
  <2>2. ~fresh[w] /\ Safe(new[w])
    BY <2>1, FreshFacts DEF SafeInv
  <2>. QED BY <1>6, <2>1, <2>2
<1>9. ASSUME Creates(w) PROVE SafeInv'
  <2>1. PICK h \in Holder, o \in Object : Makes(w, h, o)
    BY <1>9, Creation DEF Base
  <2>2. /\ ~fresh[w] /\ o # h /\ own' = own /\ fresh'[w] /\ new'[w] = o
        /\ refs'[h] = refs[h] \cup {o}
        /\ \A x \in Holder : x # o /\ x # h => refs'[x] = refs[x]
        /\ OthersKeep(w)
    BY <2>1, CreatedEffect
  <2>3. \A x \in Object : Safe(x)' <=> Safe(x) \/ x = o
    BY <1>00, <2>2 DEF Safe, OthersKeep
  <2>4. \A x \in refs'[o] : Safe(x)'
    <3>1. dying'[w] # NoScope => dying'[w] \in scopes /\ dying'[w] \in Holder /\ dying'[w] \notin Object
      BY <2>1, CreatedFrom
    <3>2. dying'[w] # NoScope => \A x \in refs[dying'[w]] : Safe(x) /\ x \in Object
      BY <1>0, <3>1 DEF SafeInv
    <3>. QED BY <2>1, <2>3, <3>2, CreatedFrom
  <2>5. \A x \in Holder : Usable(x)' /\ x # o => Usable(x)
    BY <1>00, <2>2, <2>3 DEF Usable, scopes
  <2>6. ASSUME NEW x \in Holder, Usable(x)', NEW p \in refs'[x] PROVE Safe(p)' \/ (Usable(x) /\ p \in refs[x])
    <3>1. CASE x = o
      BY <2>4, <2>6, <3>1
    <3>2. CASE x # o /\ p = o
      BY <2>3, <3>2
    <3>3. CASE x # o /\ p # o
      <4>1. p \in refs[x]
        BY <2>2, <2>6, <3>3
      <4>. QED BY <2>5, <2>6, <3>3, <4>1
    <3>. QED BY <3>1, <3>2, <3>3
  <2>7. \A v \in Worker : new'[v] \in Object => Safe(new[v])' \/ new'[v] = new[v]
    BY <2>2, <2>3 DEF OthersKeep
  <2>. QED BY <1>0, <1>00, <2>3, <2>6, <2>7, SafeSame
<1>. QED BY <1>2, <1>3, <1>4, <1>5, <1>7, <1>8, <1>9 DEF RunScript, Creates
LEMMA SafeSetObject ==
  ASSUME Base, SafeInv, phase \in {"Marked", "Sweeping"}, ~raced', NEW w \in Worker, SetObject(w)
  PROVE  SafeInv'
<1>. USE Kinds
<1>0. TypeOK /\ LocalsInv /\ HeapInv
  BY DEF Base
<1>00. UNCHANGED <<refs, own, gcGeneration, trash>> /\ \A v \in Worker : new'[v] \in {new[v], NoObject}
  BY <1>0, SetObjectKeeps DEF cycleVars
<1>1. \A v \in Worker : new[v] \in Object => Safe(new[v])
  BY DEF SafeInv
<1>2. ASSUME \A o \in Object : Safe(o)' <=> Safe(o),
             \A o \in gcTargets' : Safe(o) \/ o \in gcTargets
      PROVE  SafeInv'
  <2>1. \A x \in Holder : Usable(x)' => Usable(x)
    BY <1>00, <1>2 DEF Usable, scopes
  <2>2. \A o \in gcTargets' : Safe(o)' \/ o \in gcTargets
    <3>1. \A o \in gcTargets' : o \in Object \/ o \in gcTargets
      BY <1>0, SetObjectKeeps, NewBorn DEF Push, SetObject
    <3>. QED BY <1>2, <3>1
  <2>3. \A h \in Holder : Usable(h)' => \A o \in refs'[h] : Safe(o)' \/ (Usable(h) /\ o \in refs[h])
    BY <1>00, <2>1
  <2>4. \A v \in Worker : new'[v] \in Object => Safe(new[v])' \/ new'[v] = new[v]
    BY <1>00
  <2>. QED BY <1>0, <1>2, <2>2, <2>3, <2>4, SafeSame
<1>3. CASE CheckBarrier(w) \/ Push(w)
  <2>1. gen' = gen /\ gcTargets' \subseteq gcTargets \cup {new[w]} /\ new[w] \in Object
    BY <1>0, <1>3, BarrierEffect, PushEffect, NewBorn DEF collectorVars, CheckBarrier, Push
  <2>2. Leaves(w) \/ Moves(w, "push") \/ Moves(w, "register")
    BY <1>0, <1>3, BarrierEffect, PushEffect
  <2>3. \A v \in Worker : (fresh'[v] <=> fresh[v]) /\ (fresh[v] => new'[v] = new[v])
    BY <2>2 DEF Leaves, Moves, OthersKeep
  <2>. QED BY <1>00, <1>1, <1>2, <2>1, <2>3, SafeKept
<1>4. CASE Register(w) \/ ReadGeneration(w)
  <2>1. UNCHANGED <<gen, gcTargets, fresh, new>>
    BY <1>4 DEF Register, ReadGeneration, collectorVars
  <2>. QED BY <1>00, <1>2, <2>1, SafeKept
<1>5. CASE Stamp(w)
  <2>1. /\ fresh[w] /\ \A o \in Object : gen'[o] = IF o = new[w] THEN read[w] ELSE gen[o]
        /\ read[w] = gcGeneration /\ OthersKeep(w) /\ ~fresh'[w] /\ gcTargets' = gcTargets
    BY <1>0, <1>5, StampEffect DEF collectorVars
  <2>2. \A o \in Object : Safe(o)' <=> Safe(o)
    BY <1>00, <2>1 DEF Safe, OthersKeep
  <2>. QED BY <1>2, <2>1, <2>2
<1>. QED BY <1>3, <1>4, <1>5 DEF SetObject

\* Once nothing is left to be marked, everything that can be used is marked or new.
LEMMA MarkingDone ==
  ASSUME Base, FreshInv, DyingInv, ColourInv, UseInv, phase = "MarkingObject", gcTargets = {}
  PROVE  /\ \A v \in Worker : new[v] \in Object => Safe(new[v])
         /\ \A h \in Holder : Usable(h) => \A o \in refs[h] : Safe(o)
<1>. USE Kinds
<1>0. gcScopes = {} /\ trash = {}
  BY DEF Base, CycleInv
<1>1. /\ \A h \in Holder : Scanned(h) <=> (h \in Object /\ gen[h] = gcGeneration) \/ h \in scopes
      /\ \A o \in Object : Grey(o) <=> gen[o] = gcGeneration
      /\ \A h \in Holder, o \in Object : ~Sheltered(h, o)
  <2>1. \A h, o : ~Sheltered(h, o)
    BY <1>0 DEF Sheltered
  <2>. QED BY <1>0, <2>1 DEF Scanned, Marking, Grey
<1>2. ASSUME NEW v \in Worker, new[v] \in Object PROVE Safe(new[v])
  <2>1. CASE fresh[v]
    BY <2>1 DEF Safe
  <2>2. CASE ~fresh[v] /\ from[v] = NoScope
    <3>1. PICK s \in own[v] : captured[s] = new[v] /\ (Scanned(s) => Grey(new[v]))
      BY <1>2, <2>2 DEF UseInv
    <3>2. gen[new[v]] = gcGeneration
      BY <1>1, <1>2, <3>1
    <3>. QED BY <3>2 DEF Safe
  <2>3. CASE from[v] # NoScope
    <3>1. /\ from[v] \in Scope => from[v] \in scopes
          /\ from[v] \in Object => HeldBy(v, from[v])
          /\ Scanned(from[v]) => Grey(new[v]) \/ Sheltered(from[v], new[v])
      BY <2>3 DEF UseInv
    <3>2. from[v] \in Holder
      BY <2>3 DEF Base, TypeOK
    <3>3. from[v] \in Object => Grey(from[v])
      BY <1>1, <3>1 DEF HeldBy
    <3>4. Scanned(from[v])
      BY <1>1, <3>1, <3>2, <3>3 DEF Holder
    <3>5. gen[new[v]] = gcGeneration
      BY <1>1, <1>2, <3>1, <3>2, <3>4
    <3>. QED BY <3>5 DEF Safe
  <2>. QED BY <2>1, <2>2, <2>3
<1>3. ASSUME NEW h \in Holder, Scanned(h), NEW o \in refs[h] PROVE Safe(o)
  <2>0. o \in Object
    BY <1>3
  <2>1. Grey(o) \/ Sheltered(h, o) \/ \E v \in Worker : Barrier(v, h, o)
    BY <1>3 DEF ColourInv
  <2>2. CASE gen[o] = gcGeneration
    BY <2>2 DEF Safe
  <2>3. CASE \E v \in Worker : Barrier(v, h, o)
    BY <1>2, <2>0, <2>3 DEF Barrier
  <2>. QED BY <1>1, <2>0, <2>1, <2>2, <2>3
<1>4. ASSUME NEW h \in Holder, Usable(h), NEW o \in refs[h] PROVE Safe(o)
  <2>1. CASE Scanned(h)
    BY <1>3, <1>4, <2>1
  <2>2. CASE ~Scanned(h)
    <3>1. h \in Object /\ Safe(h) /\ gen[h] # gcGeneration
      BY <1>0, <1>1, <1>4, <2>2 DEF Usable, Holder
    <3>2. PICK v \in Worker : fresh[v] /\ new[v] = h
      BY <3>1 DEF Safe
    <3>3. dying[v] # NoScope /\ o \in refs[dying[v]] /\ dying[v] \in own[v]
      BY <1>4, <3>2, Pointwise DEF FreshOf, DyingOf
    <3>4. dying[v] \in Holder /\ Scanned(dying[v])
      BY <1>1, <3>3
    <3>. QED BY <1>3, <3>3, <3>4
  <2>. QED BY <2>1, <2>2
<1>. QED BY <1>2, <1>4

LEMMA SafeTidy ==
  ASSUME Base, FreshInv, DyingInv, ColourInv, UseInv, SafeInv, DeadInv, ~raced', NEW w \in Worker, Tidy(w)
  PROVE  SafeInv'
<1>. USE Kinds
<1>0. TypeOK /\ refs \in [Holder -> SUBSET Object]
  BY DEF Base, TypeOK
<1>00. UNCHANGED <<own, new, fresh>>
  BY <1>0, TidyKeeps DEF TidyEffect
<1>1. CASE BeginMarking(w) \/ ArmBarrier(w) \/ SnapshotScopes(w) \/ Collect(w)
  BY <1>1 DEF BeginMarking, ArmBarrier, SnapshotScopes, Collect, SafeInv
<1>2. CASE (\E s \in Scope : MarkScope(w, s)) \/ (\E o \in Object : MarkObject(w, o))
  BY <1>2 DEF MarkScope, MarkObject, cycleVars, SafeInv
<1>3. CASE ObjectsMarked(w) \/ BeginSweeping(w)
  <2>1. UNCHANGED <<gen, gcGeneration, refs, gcTargets, trash>>
    BY <1>3 DEF ObjectsMarked, BeginSweeping, heapVars
  <2>2. \A o \in Object : Safe(o)' <=> Safe(o)
    BY <1>00, <2>1, SafeKept
  <2>3. \A h \in Holder : Usable(h)' <=> Usable(h)
    BY <1>00, <2>1, <2>2 DEF Usable, scopes
  <2>4. /\ \A v \in Worker : new[v] \in Object => Safe(new[v])
        /\ \A h \in Holder : Usable(h) => \A o \in refs[h] : Safe(o)
        /\ \A o \in gcTargets : Safe(o)
    <3>1. CASE ObjectsMarked(w)
      BY <3>1, MarkingDone DEF ObjectsMarked
    <3>2. CASE BeginSweeping(w)
      BY <3>2 DEF BeginSweeping, SafeInv, Usable
    <3>. QED BY <1>3, <3>1, <3>2
  <2>5. /\ \A v \in Worker : new'[v] \in Object => Safe(new[v])'
        /\ \A h \in Holder : Usable(h)' => \A o \in refs'[h] : Safe(o)'
        /\ \A o \in gcTargets' : Safe(o)'
    BY <1>0, <1>00, <2>1, <2>2, <2>3, <2>4 DEF TypeOK
  <2>. QED BY <2>5 DEF SafeInv, Usable
<1>4. ASSUME NEW o \in Object, Sweep(w, o) PROVE SafeInv'
  <2>1. /\ UNCHANGED <<gen, gcGeneration, gcTargets>> /\ phase = "Sweeping"
        /\ \A h \in Holder : refs'[h] \subseteq refs[h]
        /\ trash' \subseteq trash \cup {o}
        /\ o \in trash' /\ gen[o] # gcGeneration => \A p \in refs'[o] : gen[p] = gcGeneration
    BY <1>0, <1>4 DEF Sweep, cycleVars, DeadInv
  <2>2. \A x \in Object : Safe(x)' <=> Safe(x)
    BY <1>00, <2>1, SafeKept
  <2>3. ASSUME NEW h \in Holder, Usable(h)', NEW p \in refs'[h] PROVE Safe(p)' \/ (Usable(h) /\ p \in refs[h])
    <3>1. Usable(h) \/ (h = o /\ o \in trash' /\ ~Safe(o))
      BY <1>00, <2>1, <2>2, <2>3 DEF Usable, scopes
    <3>2. ~Safe(o) => gen[o] # gcGeneration
      BY DEF Safe
    <3>3. gen[p] = gcGeneration => Safe(p)'
      BY <2>1 DEF Safe
    <3>. QED BY <2>1, <2>3, <3>1, <3>2, <3>3
  <2>. QED BY <1>0, <1>00, <2>1, <2>2, <2>3, SafeSame
<1>. QED BY <1>1, <1>2, <1>3, <1>4 DEF Tidy

LEMMA SafeStep ==
  ASSUME Base, FreshInv, DyingInv, ColourInv, UseInv, SafeInv, DeadInv, ~raced',
         NEW w \in Worker, RunScript(w) \/ SetObject(w) \/ Tidy(w)
  PROVE  SafeInv'
<1>1. CASE (RunScript(w) \/ SetObject(w)) /\ phase \notin {"Marked", "Sweeping"}
  <2>1. phase' = phase
    BY <1>1, ScriptKeeps, SetObjectKeeps DEF Base, collectorVars, cycleVars
  <2>. QED BY <1>1, <2>1 DEF SafeInv
<1>. QED BY <1>1, SafeScript, SafeSetObject, SafeTidy
------------------------------------------------------------------------------
(* Unless raced: what has been deleted has gone for good.                  *)

DeadTables ==
  /\ objects \cap (trash \cup deleted) = {} /\ toSweep \subseteq objects
  /\ \A o \in born : o \in objects \cup trash \cup deleted \/ Entering(o)
  /\ \A o \in trash \cup deleted : gen[o] # gcGeneration
  /\ phase = "Sweeping" =>
       \A o \in born \ (trash \cup deleted) : Safe(o) \/ o \in toSweep

DeadRefs ==
  /\ gcTargets \cap deleted = {}
  /\ \A v \in Worker : new[v] \notin deleted
  /\ \A h \in scopes \cup (born \ deleted) : refs[h] \cap deleted = {}

LEMMA DeadParts == DeadInv <=> DeadTables /\ DeadRefs
BY DEF DeadInv, DeadTables, DeadRefs

LEMMA TablesSame ==
  ASSUME DeadTables, TypeOK, UNCHANGED <<objects, trash, deleted, toSweep, gen, gcGeneration, phase>>,
         \A o \in Object : Safe(o) => Safe(o)', \A o \in born : Entering(o) => Entering(o)',
         \A o \in born' \ born : Entering(o)' /\ Safe(o)'
  PROVE  DeadTables'
<1>1. born \subseteq Object
  BY DEF TypeOK
<1>. QED BY <1>1 DEF DeadTables

LEMMA RefsSame ==
  ASSUME Base, DeadRefs, deleted' = deleted, NEW N, N \cap deleted = {}, born \subseteq born',
         gcTargets' \subseteq gcTargets \cup N,
         \A v \in Worker : new'[v] \in {new[v], NoObject} \cup N,
         \A h \in (scopes' \ scopes) \cup (born' \ born) : refs'[h] \subseteq N,
         \A h \in Holder : refs'[h] \subseteq refs[h] \cup N \/ h \in born' \ born
  PROVE  DeadRefs'
<1>. USE Kinds
<1>1. deleted \subseteq born
  BY DEF Base, TypeOK
<1>2. ASSUME NEW h \in scopes' \cup (born' \ deleted) PROVE refs'[h] \cap deleted = {}
  <2>1. CASE h \in (scopes' \ scopes) \cup (born' \ born)
    BY <2>1
  <2>2. CASE h \notin (scopes' \ scopes) \cup (born' \ born)
    <3>1. h \in scopes \cup (born \ deleted) /\ h \in Holder
      BY <1>2, <2>2
    <3>. QED BY <2>2, <3>1 DEF DeadRefs
  <2>. QED BY <2>1, <2>2
<1>3. \A v \in Worker : new'[v] \notin deleted
  BY <1>1 DEF DeadRefs
<1>. QED BY <1>2, <1>3 DEF DeadRefs

\* A script gets at nothing that has been deleted.
LEMMA AccessAlive ==
  ASSUME Base, DeadRefs, NEW w \in Worker, NEW h \in Accessible(w)
  PROVE  h \in scopes \cup (born \ deleted)
<1>1. CASE h \in scopes
  BY <1>1
<1>2. CASE h \in Object /\ \E s \in own[w] : s \in Scope /\ s \in scopes /\ h \in refs[s]
  BY <1>2, AccessThere DEF DeadRefs, Base
<1>. QED BY <1>1, <1>2, AccessKinds DEF Base

LEMMA DeadScript ==
  ASSUME Base, DeadInv, NEW w \in Worker, RunScript(w)
  PROVE  DeadInv'
<1>. USE Kinds
<1>0. /\ own \in [Worker -> SUBSET (Scope \ Global)] /\ refs \in [Holder -> SUBSET Object] /\ TypeOK /\ LocalsInv
      /\ DeadTables /\ DeadRefs
  BY DeadParts DEF Base, TypeOK
<1>00. UNCHANGED <<gen, gcGeneration, gcTargets, trash, deleted, toSweep, phase>> /\ born \subseteq born'
  BY ScriptKeeps DEF collectorVars, cycleVars
<1>1. ASSUME UNCHANGED <<objects, born, fresh>>,
             \A v \in Worker : fresh[v] => new'[v] = new[v] /\ pc'[v] = pc[v]
      PROVE  DeadTables'
  <2>1. \A o \in Object : Safe(o)' <=> Safe(o)
    BY <1>00, <1>1, SafeKept
  <2>2. \A o \in born : Entering(o) => Entering(o)'
    BY <1>1 DEF Entering
  <2>. QED BY <1>0, <1>00, <1>1, <2>1, <2>2, TablesSame
<1>2. ASSUME UNCHANGED <<born, new>>, \A h \in Holder : refs'[h] \subseteq refs[h],
             \A h \in scopes' \ scopes : refs'[h] = {}
      PROVE  DeadRefs'
  <2>. DEFINE N == {}
  <2>1. N \cap deleted = {} /\ gcTargets' \subseteq gcTargets \cup N
    BY <1>00
  <2>2. \A h \in (scopes' \ scopes) \cup (born' \ born) : refs'[h] \subseteq N
    BY <1>2
  <2>3. \A h \in Holder : refs'[h] \subseteq refs[h] \cup N \/ h \in born' \ born
    BY <1>2
  <2>4. \A v \in Worker : new'[v] \in {new[v], NoObject} \cup N
    BY <1>2
  <2>. HIDE DEF N
  <2>. QED BY <1>0, <1>00, <2>1, <2>2, <2>3, <2>4, RefsSame
<1>3. ASSUME NEW s \in Scope, NewScope(w, s) PROVE DeadInv'
  <2>1. UNCHANGED <<objects, born, fresh, new, pc, refs>> /\ refs[s] = {} /\ scopes' \subseteq scopes \cup {s}
    BY <1>0, <1>3 DEF NewScope, workerVars, scopes
  <2>. QED BY <1>1, <1>2, <2>1, DeadParts DEF DeadInv, DeadTables, DeadRefs
<1>4. ASSUME (\E s \in Scope : DestroyScope(w, s)) \/ \E h \in Holder, o \in Object : SetNull(w, h, o) PROVE DeadInv'
  <2>1. UNCHANGED <<objects, born, fresh, new, pc>> /\ (\A h \in Holder : refs'[h] \subseteq refs[h]) /\ scopes' \subseteq scopes
    BY <1>0, <1>4 DEF DestroyScope, SetNull, workerVars, scopes
  <2>. QED BY <1>1, <1>2, <2>1 DEF DeadInv, DeadTables, DeadRefs
<1>5. ASSUME EraseScope(w) PROVE DeadInv'
  <2>1. UNCHANGED <<objects, born, fresh, new>> /\ (\A h \in Holder : refs'[h] \subseteq refs[h]) /\ scopes' \subseteq scopes
    BY <1>0, <1>5 DEF EraseScope, scopes
  <2>2. ~fresh[w] /\ \A v \in Worker \ {w} : pc'[v] = pc[v]
    BY <1>0, <1>5, FreshFacts DEF EraseScope, TypeOK
  <2>. QED BY <1>1, <1>2, <2>1, <2>2 DEF DeadInv, DeadTables, DeadRefs
<1>6. ASSUME NEW o \in Object, NEW h \in Holder, NEW g, Stores(w, o, g, h), ~fresh[w], o \notin deleted PROVE DeadInv'
  <2>1. /\ UNCHANGED <<own, born, objects, fresh>> /\ new'[w] = o
        /\ \A v \in Worker \ {w} : new'[v] = new[v] /\ pc'[v] = pc[v]
        /\ \A x \in Holder : refs'[x] = IF x = h THEN refs[h] \cup {o} ELSE refs[x]
    BY <1>6 DEF Stores, OthersKeep
  <2>2. DeadTables'
    BY <1>1, <1>6, <2>1
  <2>. DEFINE N == {o}
  <2>3. \A x \in (scopes' \ scopes) \cup (born' \ born) : refs'[x] \subseteq N
    BY <2>1 DEF scopes
  <2>4. \A x \in Holder : refs'[x] \subseteq refs[x] \cup N \/ x \in born' \ born
    BY <2>1
  <2>5. \A v \in Worker : new'[v] \in {new[v], NoObject} \cup N
    BY <2>1
  <2>6. N \cap deleted = {} /\ gcTargets' \subseteq gcTargets \cup N
    BY <1>00, <1>6
  <2>7. DeadRefs'
    <3>. HIDE DEF N
    <3>. QED BY <1>0, <1>00, <2>3, <2>4, <2>5, <2>6, RefsSame
  <2>. QED BY <2>2, <2>7 DEF DeadInv, DeadTables, DeadRefs
<1>7. ASSUME NEW g \in Holder, NEW o \in Object, NEW h \in Holder, Assign(w, g, o, h) PROVE DeadInv'
  <2>1. Stores(w, o, g, h) /\ g \in Accessible(w) /\ o \in refs[g] /\ ~fresh[w]
    BY <1>0, <1>7, AssignEffect, Idle DEF Assign
  <2>2. o \notin deleted
    BY <1>0, <2>1, AccessAlive DEF DeadRefs
  <2>. QED BY <1>6, <2>1, <2>2
<1>8. ASSUME StoreCaptured(w) PROVE DeadInv'
  <2>1. Stores(w, new[w], NoScope, dest[w]) /\ dest[w] \in Holder /\ new[w] \in Object /\ pc[w] = "store"
    BY <1>0, <1>8, StoreEffect
  <2>2. ~fresh[w] /\ new[w] \notin deleted
    BY <1>0, <2>1, FreshFacts DEF DeadRefs
  <2>. QED BY <1>6, <2>1, <2>2
<1>9. ASSUME Creates(w) PROVE DeadInv'
  <2>1. PICK h \in Holder, o \in Object : Makes(w, h, o)
    BY <1>9, Creation DEF Base
  <2>2. /\ ~fresh[w] /\ o # h /\ own' = own /\ fresh'[w] /\ new'[w] = o /\ pc'[w] = "barrier"
        /\ refs'[h] = refs[h] \cup {o} /\ born' = born \cup {o} /\ o \notin born /\ objects' = objects
        /\ \A x \in Holder : x # o /\ x # h => refs'[x] = refs[x]
        /\ OthersKeep(w)
    BY <2>1, CreatedEffect
  <2>3. \A x \in Object : Safe(x)' <=> Safe(x) \/ x = o
    BY <1>00, <2>2 DEF Safe, OthersKeep
  <2>4. (\A x \in born : Entering(x) => Entering(x)') /\ Entering(o)'
    BY <2>2 DEF Entering, OthersKeep
  <2>5. DeadTables'
    BY <1>0, <1>00, <2>2, <2>3, <2>4, TablesSame
  <2>. DEFINE N == refs'[o] \cup {o}
  <2>6. N \cap deleted = {}
    <3>1. refs'[o] \cap deleted = {}
      <4>1. dying'[w] # NoScope => dying'[w] \in scopes
        BY <2>1, CreatedFrom
      <4>. QED BY <1>0, <2>1, <4>1, CreatedFrom DEF DeadRefs
    <3>2. deleted \subseteq born
      BY <1>0 DEF TypeOK
    <3>. QED BY <2>2, <3>1, <3>2
  <2>7. scopes' = scopes
    BY <2>2 DEF scopes
  <2>8. \A x \in Holder : refs'[x] \subseteq refs[x] \cup N \/ x \in born' \ born
    BY <2>2
  <2>9. \A v \in Worker : new'[v] \in {new[v], NoObject} \cup N
    BY <2>2 DEF OthersKeep
  <2>10. \A x \in (scopes' \ scopes) \cup (born' \ born) : refs'[x] \subseteq N
    BY <2>2, <2>7
  <2>11. DeadRefs'
    <3>. HIDE DEF N
    <3>. QED BY <1>0, <1>00, <2>6, <2>8, <2>9, <2>10, RefsSame
  <2>. QED BY <2>5, <2>11 DEF DeadInv, DeadTables, DeadRefs
<1>. QED BY <1>3, <1>4, <1>5, <1>7, <1>8, <1>9 DEF RunScript, Creates
LEMMA DeadSetObject ==
  ASSUME Base, FreshInv, DeadInv, ~raced', NEW w \in Worker, SetObject(w)
  PROVE  DeadInv'
<1>. USE Kinds
<1>0. TypeOK /\ LocalsInv /\ HeapInv /\ DeadTables /\ DeadRefs
  BY DeadParts DEF Base
<1>00. /\ UNCHANGED <<refs, own, born, gcGeneration, phase, deleted, trash>>
       /\ \A v \in Worker : new'[v] \in {new[v], NoObject}
  BY <1>0, SetObjectKeeps DEF cycleVars
<1>1. DeadRefs'
  <2>1. gcTargets' \cap deleted = {}
    BY <1>0, SetObjectKeeps DEF DeadRefs
  <2>2. \A v \in Worker : new'[v] \notin deleted
    BY <1>0, <1>00 DEF DeadRefs, TypeOK
  <2>. QED BY <1>0, <1>00, <2>1, <2>2 DEF DeadRefs, scopes
<1>2. CASE CheckBarrier(w) \/ Push(w)
  <2>1. UNCHANGED <<gen, objects, toSweep>>
    BY <1>2 DEF CheckBarrier, Push, heapVars, collectorVars
  <2>2. pc[w] \in {"barrier", "push"} /\ (Leaves(w) \/ Moves(w, "push") \/ Moves(w, "register"))
    BY <1>0, <1>2, BarrierEffect, PushEffect DEF CheckBarrier, Push
  <2>3. \A v \in Worker : (fresh'[v] <=> fresh[v]) /\ (fresh[v] => new'[v] = new[v])
    BY <2>2 DEF Leaves, Moves, OthersKeep
  <2>4. \A o \in Object : Safe(o)' <=> Safe(o)
    BY <1>00, <2>1, <2>3, SafeKept
  <2>5. pc \in [Worker -> WorkerState]
    BY <1>0 DEF TypeOK
  <2>6. \A v \in Worker : fresh[v] /\ pc[v] \in {"barrier", "push", "register"} => pc'[v] \in {"barrier", "push", "register"}
    BY <2>2, <2>5 DEF Leaves, Moves, OthersKeep
  <2>7. \A o \in born : Entering(o) => Entering(o)'
    BY <2>3, <2>6 DEF Entering
  <2>8. DeadTables'
    BY <1>0, <1>00, <2>1, <2>4, <2>7, TablesSame
  <2>. QED BY <1>1, <2>8 DEF DeadInv, DeadTables, DeadRefs
<1>3. CASE Register(w)
  <2>1. /\ objects' = objects \cup {new[w]} /\ pc' = [pc EXCEPT ![w] = "generation"] /\ pc[w] = "register"
        /\ UNCHANGED <<fresh, new, gen>> /\ toSweep \subseteq toSweep' /\ toSweep' \subseteq toSweep \cup {new[w]}
    BY <1>3 DEF Register
  <2>2. fresh[w] /\ new[w] \notin trash \cup deleted
    BY <1>0, <2>1 DEF LocalsInv, FreshInv
  <2>3. \A o \in Object : Safe(o)' <=> Safe(o)
    BY <1>00, <2>1, SafeKept
  <2>4. \A o \in born : Entering(o) => Entering(o)' \/ o = new[w]
    BY <1>0, <2>1 DEF Entering, TypeOK
  <2>5. /\ objects' \cap (trash \cup deleted)' = {} /\ toSweep' \subseteq objects'
        /\ \A o \in born' : o \in objects' \cup trash' \cup deleted' \/ Entering(o)'
    BY <1>0, <1>00, <2>1, <2>2, <2>4 DEF DeadTables
  <2>6. phase' = "Sweeping" => \A o \in born' \ (trash \cup deleted)' : Safe(o)' \/ o \in toSweep'
    BY <1>0, <1>00, <2>1, <2>3 DEF DeadTables
  <2>7. \A o \in (trash \cup deleted)' : gen'[o] # gcGeneration'
    BY <1>0, <1>00, <2>1 DEF DeadTables
  <2>. QED BY <1>1, <2>5, <2>6, <2>7 DEF DeadInv, DeadTables, DeadRefs
<1>4. CASE ReadGeneration(w)
  <2>1. /\ UNCHANGED <<gen, objects, toSweep, fresh, new>>
        /\ pc' = [pc EXCEPT ![w] = "stamp"] /\ pc[w] = "generation"
    BY <1>4 DEF ReadGeneration, heapVars, collectorVars
  <2>2. \A o \in Object : Safe(o)' <=> Safe(o)
    BY <1>00, <2>1, SafeKept
  <2>3. \A o \in born : Entering(o) => Entering(o)'
    BY <1>0, <2>1 DEF Entering, TypeOK
  <2>4. DeadTables'
    BY <1>0, <1>00, <2>1, <2>2, <2>3, TablesSame
  <2>. QED BY <1>1, <2>4 DEF DeadInv, DeadTables, DeadRefs
<1>5. CASE Stamp(w)
  <2>1. /\ fresh[w] /\ new[w] \in Object /\ \A o \in Object : gen'[o] = IF o = new[w] THEN read[w] ELSE gen[o]
        /\ read[w] = gcGeneration /\ OthersKeep(w) /\ ~fresh'[w] /\ UNCHANGED <<objects, toSweep>>
        /\ pc[w] = "stamp"
    BY <1>0, <1>5, StampEffect DEF collectorVars
  <2>2. \A o \in Object : Safe(o)' <=> Safe(o)
    BY <1>00, <2>1 DEF Safe, OthersKeep
  <2>3. \A o \in born : Entering(o) => Entering(o)'
    BY <1>0, <2>1 DEF Entering, OthersKeep
  <2>4. new[w] \notin trash \cup deleted /\ trash \cup deleted \subseteq Object
    BY <1>0, <2>1 DEF FreshInv, TypeOK
  <2>5. \A o \in (trash \cup deleted)' : gen'[o] # gcGeneration'
    BY <1>0, <1>00, <2>1, <2>4 DEF DeadTables
  <2>6. phase' = "Sweeping" => \A o \in born' \ (trash \cup deleted)' : Safe(o)' \/ o \in toSweep'
    BY <1>0, <1>00, <2>1, <2>2 DEF DeadTables
  <2>7. /\ objects' \cap (trash \cup deleted)' = {} /\ toSweep' \subseteq objects'
        /\ \A o \in born' : o \in objects' \cup trash' \cup deleted' \/ Entering(o)'
    BY <1>0, <1>00, <2>1, <2>3 DEF DeadTables
  <2>. QED BY <1>1, <2>5, <2>6, <2>7 DEF DeadInv, DeadTables, DeadRefs
<1>. QED BY <1>2, <1>3, <1>4, <1>5 DEF SetObject

LEMMA DeadTidy ==
  ASSUME Base, FreshInv, SafeInv, DeadInv, ~raced', NEW w \in Worker, Tidy(w)
  PROVE  DeadInv'
<1>. USE Kinds
<1>0. /\ TypeOK /\ refs \in [Holder -> SUBSET Object] /\ DeadTables /\ DeadRefs
      /\ trash \subseteq born /\ deleted \subseteq born /\ objects \subseteq born
  BY DeadParts DEF Base, TypeOK
<1>00. /\ UNCHANGED <<own, born, new, fresh>> /\ scopes' = scopes
       /\ \A v \in Worker : pc'[v] \in {"barrier", "push", "register"} <=> pc[v] \in {"barrier", "push", "register"}
  BY <1>0, TidyKeeps DEF TidyEffect, scopes
<1>1. \A o \in born : Entering(o)' <=> Entering(o)
  BY <1>00 DEF Entering
<1>2. ASSUME UNCHANGED <<refs, deleted>>, gcTargets' \cap deleted = {} PROVE DeadRefs'
  BY <1>0, <1>00, <1>2 DEF DeadRefs
<1>3. CASE BeginMarking(w)
  <2>1. /\ UNCHANGED <<refs, deleted, trash, gen, objects, toSweep, gcTargets>>
        /\ gcGeneration' = gcGeneration + 1 /\ phase' = "Bumped"
    BY <1>3 DEF BeginMarking, heapVars
  <2>2. \A o \in Object : gen[o] \in Nat /\ gen[o] <= gcGeneration /\ gcGeneration \in Nat
    BY DEF Base, TypeOK, CycleInv, Generation
  <2>3. \A o \in (trash \cup deleted)' : gen'[o] # gcGeneration'
    BY <1>0, <2>1, <2>2
  <2>4. DeadTables' /\ DeadRefs'
    BY <1>0, <1>00, <1>1, <1>2, <2>1, <2>3 DEF DeadTables, DeadRefs
  <2>. QED BY <2>4 DEF DeadInv, DeadTables, DeadRefs
<1>4. CASE ArmBarrier(w) \/ SnapshotScopes(w) \/ ObjectsMarked(w)
  <2>1. /\ UNCHANGED <<refs, deleted, trash, gen, gcGeneration, objects, toSweep, gcTargets>> /\ phase' # "Sweeping"
    BY <1>4 DEF ArmBarrier, SnapshotScopes, ObjectsMarked, heapVars
  <2>2. DeadTables' /\ DeadRefs'
    BY <1>0, <1>00, <1>1, <1>2, <2>1 DEF DeadTables, DeadRefs
  <2>. QED BY <2>2 DEF DeadInv, DeadTables, DeadRefs
<1>5. ASSUME NEW s \in Scope, MarkScope(w, s) PROVE DeadInv'
  <2>1. /\ UNCHANGED <<refs, deleted, trash, gen, gcGeneration, objects, toSweep>> /\ phase' # "Sweeping"
        /\ gcTargets' \subseteq gcTargets \cup (IF s \in scopes THEN refs[s] ELSE {})
    BY <1>5 DEF MarkScope, heapVars
  <2>2. gcTargets' \cap deleted = {}
    BY <1>0, <2>1 DEF DeadRefs
  <2>3. DeadTables' /\ DeadRefs'
    BY <1>0, <1>00, <1>1, <1>2, <2>1, <2>2 DEF DeadTables
  <2>. QED BY <2>3 DEF DeadInv, DeadTables, DeadRefs
<1>6. ASSUME NEW o \in Object, MarkObject(w, o) PROVE DeadInv'
  <2>1. /\ UNCHANGED <<refs, deleted, trash, gcGeneration, objects, toSweep, phase>> /\ phase = "MarkingObject"
        /\ gen' = [gen EXCEPT ![o] = gcGeneration] /\ o \in gcTargets
        /\ gcTargets' \subseteq gcTargets \cup refs[o]
    BY <1>6 DEF MarkObject, heapVars, cycleVars
  <2>2. o \in born \ deleted /\ gcTargets' \cap deleted = {}
    BY <1>0, <2>1 DEF DeadRefs, TypeOK
  <2>3. trash = {}
    BY <2>1 DEF Base, CycleInv
  <2>4. \A p \in (trash \cup deleted)' : gen'[p] # gcGeneration'
    BY <1>0, <2>1, <2>2, <2>3 DEF DeadTables, TypeOK
  <2>5. DeadTables' /\ DeadRefs'
    BY <1>0, <1>00, <1>1, <1>2, <2>1, <2>2, <2>4 DEF DeadTables
  <2>. QED BY <2>5 DEF DeadInv, DeadTables, DeadRefs
<1>7. CASE BeginSweeping(w)
  <2>1. /\ UNCHANGED <<refs, deleted, trash, gen, gcGeneration, objects, gcTargets>> /\ toSweep' = objects
    BY <1>7 DEF BeginSweeping, heapVars
  <2>2. \A o \in Object : Safe(o)' <=> Safe(o)
    BY <1>00, <2>1, SafeKept
  <2>3. \A o \in born \ (trash \cup deleted) : Safe(o) \/ o \in objects
    BY <1>0 DEF DeadTables, Entering, Safe
  <2>4. DeadTables' /\ DeadRefs'
    BY <1>0, <1>00, <1>1, <1>2, <2>1, <2>2, <2>3 DEF DeadTables, DeadRefs
  <2>. QED BY <2>4 DEF DeadInv, DeadTables, DeadRefs
<1>8. ASSUME NEW o \in Object, Sweep(w, o) PROVE DeadInv'
  <2>1. /\ UNCHANGED <<deleted, gen, gcGeneration, gcTargets, phase>> /\ phase = "Sweeping"
        /\ toSweep' = toSweep \ {o} /\ o \in toSweep
        /\ \A h \in Holder : refs'[h] \subseteq refs[h]
        /\ \/ gen[o] = gcGeneration /\ UNCHANGED <<objects, trash>>
           \/ gen[o] # gcGeneration /\ objects' = objects \ {o} /\ trash' = trash \cup {o}
    BY <1>0, <1>8 DEF Sweep, cycleVars
  <2>2. \A x \in Object : Safe(x)' <=> Safe(x)
    BY <1>00, <2>1, SafeKept
  <2>3. gen[o] = gcGeneration => Safe(o)
    BY DEF Safe
  <2>4. \A x \in born' \ (trash \cup deleted)' : Safe(x)' \/ x \in toSweep'
    BY <1>0, <1>00, <2>1, <2>2, <2>3 DEF DeadTables
  <2>5. /\ objects' \cap (trash \cup deleted)' = {} /\ toSweep' \subseteq objects'
        /\ \A x \in (trash \cup deleted)' : gen'[x] # gcGeneration'
    BY <1>0, <2>1 DEF DeadTables
  <2>6. \A x \in born' : x \in objects' \cup trash' \cup deleted' \/ Entering(x)'
    BY <1>0, <1>00, <1>1, <2>1 DEF DeadTables
  <2>7. DeadRefs'
    BY <1>0, <1>00, <2>1 DEF DeadRefs
  <2>. QED BY <2>4, <2>5, <2>6, <2>7 DEF DeadInv, DeadTables, DeadRefs
<1>9. CASE Collect(w)
  <2>1. /\ UNCHANGED <<refs, gen, gcGeneration, objects, gcTargets, toSweep>> /\ phase = "Sweeping" /\ phase' = "Idle"
        /\ toSweep = {} /\ trash' = {} /\ deleted' = deleted \cup trash
    BY <1>9 DEF Collect, heapVars
  <2>2. ASSUME NEW o \in Object, Safe(o) PROVE o \notin trash
    BY <1>0, <2>2 DEF Safe, DeadTables, FreshInv
  <2>3. gcTargets' \cap deleted' = {}
    BY <1>0, <2>1, <2>2 DEF DeadRefs, SafeInv, TypeOK
  <2>4. \A v \in Worker : new'[v] \notin deleted'
    BY <1>0, <1>00, <2>1, <2>2 DEF DeadRefs, SafeInv
  <2>5. ASSUME NEW h \in scopes \cup (born \ (deleted \cup trash)) PROVE refs[h] \cap trash = {}
    <3>1. h \in Holder /\ (h \in Object => Safe(h)) /\ (h \in Scope => h \in scopes)
      BY <1>0, <2>1 DEF DeadTables
    <3>. QED BY <1>0, <2>1, <2>2, <3>1 DEF SafeInv
  <2>6. \A h \in scopes' \cup (born' \ deleted') : refs'[h] \cap deleted' = {}
    BY <1>0, <1>00, <2>1, <2>5 DEF DeadRefs
  <2>7. DeadTables'
    BY <1>0, <1>00, <1>1, <2>1 DEF DeadTables
  <2>. QED BY <2>3, <2>4, <2>6, <2>7 DEF DeadInv, DeadTables, DeadRefs
<1>. QED BY <1>3, <1>4, <1>5, <1>6, <1>7, <1>8, <1>9 DEF Tidy

LEMMA DeadStep ==
  ASSUME Base, FreshInv, SafeInv, DeadInv, ~raced',
         NEW w \in Worker, RunScript(w) \/ SetObject(w) \/ Tidy(w)
  PROVE  DeadInv'
BY DeadScript, DeadSetObject, DeadTidy
------------------------------------------------------------------------------
(* Unless raced: nothing hides from the marking.                           *)

\* What a step of a script changes: locals of its own, and references to what it stores.
LEMMA ScriptEffect ==
  ASSUME Base, NEW w \in Worker, RunScript(w)
  PROVE  /\ OthersKeep(w) /\ pc[w] \in {"idle", "store", "erase"}
         /\ \A h \in Holder, o \in Object :
              o \in refs'[h] => \/ o \in refs[h]
                                \/ pc'[w] = "barrier" /\ new'[w] = o /\ to'[w] = h
                                \/ h \in Object /\ h \notin born
<1>. USE Kinds
<1>0. TypeOK /\ LocalsInv /\ HeapInv
  BY DEF Base
<1>. DEFINE Grows == \A h \in Holder, o \in Object :
              o \in refs'[h] => \/ o \in refs[h]
                                \/ pc'[w] = "barrier" /\ new'[w] = o /\ to'[w] = h
                                \/ h \in Object /\ h \notin born
<1>1. CASE \E s \in Scope : NewScope(w, s) \/ DestroyScope(w, s)
  <2>1. (\A h \in Holder : refs'[h] \subseteq refs[h]) /\ pc[w] = "idle"
    BY <1>0, <1>1 DEF NewScope, DestroyScope, TypeOK
  <2>2. OthersKeep(w)
    BY <1>0, <1>1 DEF NewScope, DestroyScope, TypeOK, OthersKeep, workerVars
  <2>. QED BY <2>1, <2>2
<1>2. CASE \E h \in Holder, o \in Object : SetNull(w, h, o)
  <2>1. (\A h \in Holder : refs'[h] \subseteq refs[h]) /\ pc[w] = "idle"
    BY <1>0, <1>2 DEF SetNull, TypeOK
  <2>2. OthersKeep(w)
    BY <1>0, <1>2 DEF SetNull, OthersKeep, workerVars
  <2>. QED BY <2>1, <2>2
<1>3. CASE EraseScope(w)
  <2>1. (\A h \in Holder : refs'[h] \subseteq refs[h]) /\ pc[w] = "erase"
    BY <1>0, <1>3 DEF EraseScope, TypeOK
  <2>2. OthersKeep(w)
    BY <1>0, <1>3 DEF EraseScope, TypeOK, OthersKeep
  <2>. QED BY <2>1, <2>2
<1>4. ASSUME NEW g, NEW o \in Object, NEW h \in Holder, Stores(w, o, g, h), pc[w] \in {"idle", "store"}
      PROVE  OthersKeep(w) /\ Grows
  <2>1. /\ pc'[w] = "barrier" /\ new'[w] = o /\ to'[w] = h /\ OthersKeep(w)
        /\ \A x \in Holder : refs'[x] = IF x = h THEN refs[h] \cup {o} ELSE refs[x]
    BY <1>4 DEF Stores
  <2>. QED BY <2>1
<1>5. ASSUME NEW g \in Holder, NEW o \in Object, NEW h \in Holder, Assign(w, g, o, h)
      PROVE  OthersKeep(w) /\ Grows /\ pc[w] = "idle"
  BY <1>0, <1>4, <1>5, AssignEffect
<1>6. CASE StoreCaptured(w)
  BY <1>0, <1>4, <1>6, StoreEffect
<1>7. CASE Creates(w)
  <2>1. PICK h \in Holder, o \in Object : Makes(w, h, o)
    BY <1>7, Creation DEF Base
  <2>2. /\ pc[w] = "idle" /\ pc'[w] = "barrier" /\ new'[w] = o /\ to'[w] = h
        /\ refs'[h] = refs[h] \cup {o} /\ o \notin born
        /\ \A x \in Holder : x # o /\ x # h => refs'[x] = refs[x]
        /\ OthersKeep(w)
    BY <2>1, CreatedEffect
  <2>. QED BY <2>2
<1>. QED BY <1>1, <1>2, <1>3, <1>5, <1>6, <1>7 DEF RunScript, Creates

\* What a dying scope shows stays there until it is erased.
LEMMA ShelterKept ==
  ASSUME Base, DyingInv, UNCHANGED <<phase, gcScopes>>,
         NEW w \in Worker,
         \A v \in Worker : dying[v] # NoScope /\ dying[v] # dying'[v] => v = w /\ phase # "Armed" /\ dying[w] \notin gcScopes,
         \A v \in Worker : dying[v] # NoScope /\ dying[v] = dying'[v] =>
           /\ dying[v] \in own[v] => dying[v] \in own'[v]
           /\ captured'[dying[v]] = captured[dying[v]]
           /\ refs[dying[v]] \subseteq refs'[dying[v]]
           /\ captured[dying[v]] \in Object => refs[captured[dying[v]]] \subseteq refs'[captured[dying[v]]]
  PROVE  \A h \in Holder, o \in Object : Sheltered(h, o) => Sheltered(h, o)'
<1>. USE Kinds
<1>1. ASSUME NEW h \in Holder, NEW o \in Object, NEW v \in Worker, dying[v] \in Scope, dying[v] \in scopes,
             phase = "Armed" \/ dying[v] \in gcScopes, h \in refs[captured[dying[v]]], o \in refs[dying[v]]
      PROVE  Sheltered(h, o)'
  <2>1. dying[v] # NoScope /\ DyingOf(v)
    BY <1>1, Pointwise
  <2>2. dying'[v] = dying[v]
    BY <1>1, <2>1
  <2>3. dying[v] \in own'[v] /\ captured'[dying[v]] = captured[dying[v]] /\ captured[dying[v]] \in Object
    BY <2>1, <2>2 DEF DyingOf, Base, TypeOK
  <2>4. dying[v] \in scopes'
    BY <2>3 DEF scopes
  <2>5. h \in refs'[captured[dying[v]]] /\ o \in refs'[dying[v]]
    BY <1>1, <2>1, <2>2, <2>3
  <2>. QED BY <1>1, <2>2, <2>3, <2>4, <2>5 DEF Sheltered
<1>. QED BY <1>1 DEF Sheltered

LEMMA ShelterScript ==
  ASSUME Base, FreshInv, DyingInv, ~raced', NEW w \in Worker, RunScript(w)
  PROVE  \A h \in Holder, o \in Object : Sheltered(h, o) /\ Scanned(h) => Sheltered(h, o)'
<1>. USE Kinds
<1>0. /\ own \in [Worker -> SUBSET (Scope \ Global)] /\ refs \in [Holder -> SUBSET Object] /\ TypeOK /\ LocalsInv
      /\ captured \in [Scope -> Object \cup {NoObject}]
  BY DEF Base, TypeOK
<1>00. UNCHANGED <<phase, gcScopes>>
  BY ScriptKeeps DEF collectorVars, cycleVars
<1>1. \A v \in Worker : dying[v] # NoScope => DyingOf(v) /\ dying[v] \in Scope /\ dying[v] \in own[v]
                                              /\ captured[dying[v]] \in Object
  BY <1>0, Pointwise DEF DyingOf
<1>. DEFINE Kept == \A h \in Holder, o \in Object : Sheltered(h, o) => Sheltered(h, o)'
<1>2. ASSUME UNCHANGED <<dying>>,
             \A v \in Worker : dying[v] # NoScope =>
                 /\ dying[v] \in own'[v]
                 /\ captured'[dying[v]] = captured[dying[v]]
                 /\ refs[dying[v]] \subseteq refs'[dying[v]]
                 /\ refs[captured[dying[v]]] \subseteq refs'[captured[dying[v]]]
      PROVE  Kept
  BY <1>00, <1>2, ShelterKept
<1>3. ASSUME NEW s \in Scope, NewScope(w, s) PROVE Kept
  <2>1. /\ UNCHANGED <<dying, captured, refs>> /\ \A v \in Worker : own[v] \subseteq own'[v]
    BY <1>0, <1>3 DEF NewScope, workerVars
  <2>. HIDE DEF Kept
  <2>. QED BY <1>1, <1>2, <2>1
<1>4. ASSUME NEW s \in Scope, DestroyScope(w, s) PROVE Kept
  <2>1. /\ UNCHANGED <<dying, captured>> /\ \A v \in Worker : own[v] \ {s} \subseteq own'[v]
        /\ \A x \in Holder : x # s => refs'[x] = refs[x]
    BY <1>0, <1>4 DEF DestroyScope, workerVars
  <2>2. \A v \in Worker : dying[v] # NoScope => dying[v] # s
    BY <1>1, <1>4 DEF DestroyScope
  <2>. HIDE DEF Kept
  <2>. QED BY <1>1, <1>2, <2>1, <2>2
<1>5. ASSUME NEW o \in Object, NEW h \in Holder, SetNull(w, h, o) PROVE Kept
  <2>1. /\ UNCHANGED <<dying, captured, own>> /\ h \in Writable(w)
        /\ \A x \in Holder : x # h => refs'[x] = refs[x]
    BY <1>0, <1>5 DEF SetNull, workerVars
  <2>2. \A v \in Worker : dying[v] # h
    BY <2>1, NotDying DEF Writable
  <2>3. \A v \in Worker : dying[v] # NoScope => captured[dying[v]] # h
    BY <1>1, <2>1 DEF Writable
  <2>. HIDE DEF Kept
  <2>. QED BY <1>1, <1>2, <2>1, <2>2, <2>3
<1>6. ASSUME NEW o \in Object, NEW h \in Holder, NEW g, Stores(w, o, g, h) PROVE Kept
  <2>1. UNCHANGED <<dying, captured, own>> /\ \A x \in Holder : refs[x] \subseteq refs'[x]
    BY <1>6 DEF Stores
  <2>. HIDE DEF Kept
  <2>. QED BY <1>1, <1>2, <2>1
<1>7. CASE Creates(w)
  <2>1. PICK h \in Holder, o \in Object : Makes(w, h, o)
    BY <1>7, Creation DEF Base
  <2>2. /\ refs'[h] = refs[h] \cup {o} /\ o \notin born /\ own' = own /\ dying[w] = NoScope
        /\ \A x \in Holder : x # o /\ x # h => refs'[x] = refs[x]
    BY <2>1, CreatedEffect
  <2>3. \A v \in Worker \ {w} : dying'[v] = dying[v]
    BY <2>1, CreatedEffect DEF OthersKeep
  <2>4. \A v \in Worker : dying[v] # NoScope => captured'[dying[v]] = captured[dying[v]]
    BY <1>1, <2>1, CreatedFrom
  <2>5. \A v \in Worker : dying[v] # NoScope => captured[dying[v]] \in born
    BY <1>1 DEF Base, HeapInv
  <2>6. \A v \in Worker : dying[v] # NoScope => refs[captured[dying[v]]] \subseteq refs'[captured[dying[v]]]
                                                /\ refs[dying[v]] \subseteq refs'[dying[v]]
    BY <1>1, <2>2, <2>5
  <2>. QED BY <1>00, <1>1, <2>2, <2>3, <2>4, <2>6, ShelterKept
<1>8. ASSUME EraseScope(w), NEW h \in Holder, NEW o \in Object, Sheltered(h, o), Scanned(h)
      PROVE  Sheltered(h, o)'
  <2>. DEFINE s == dying[w]
  <2>1. s \in own[w] /\ s \in Scope /\ s # NoScope
    BY <1>1, <1>8 DEF EraseScope, LocalsInv, Base
  <2>2. /\ \A v \in Worker : own[v] \ {s} \subseteq own'[v]
        /\ \A x \in Holder : x # s => refs'[x] = refs[x]
        /\ \A x \in Scope : x # s => captured'[x] = captured[x]
        /\ \A v \in Worker \ {w} : dying'[v] = dying[v]
        /\ ~Overlooked(s) /\ dying'[w] = NoScope
    BY <1>0, <1>8, <2>1, ZenonT(60) DEF EraseScope, TypeOK
  <2>3. \A v \in Worker \ {w} : dying[v] # NoScope => dying[v] # s
    BY <1>1, <2>1, OtherScopes
  <2>4. CASE phase # "Armed" /\ s \notin gcScopes
    <3>. HIDE DEF s
    <3>1. \A v \in Worker : dying[v] # NoScope /\ dying[v] # dying'[v] => v = w
      BY <2>2
    <3>2. \A v \in Worker : dying[v] # NoScope /\ dying[v] = dying'[v] => v # w
      BY <2>2
    <3>3. Kept
      <4>. USE DEF s
      <4>. QED BY <1>00, <1>1, <2>1, <2>2, <2>3, <2>4, <3>1, <3>2, ShelterKept
    <3>. QED BY <1>8, <3>3
  <2>5. CASE phase = "Armed" \/ s \in gcScopes
    <3>1. \A p \in refs[captured[s]] : gen[p] # gcGeneration
      BY <2>2, <2>5 DEF Overlooked
    <3>2. PICK v \in Worker : /\ dying[v] \in Scope /\ dying[v] \in scopes
                              /\ phase = "Armed" \/ dying[v] \in gcScopes
                              /\ h \in refs[captured[dying[v]]] /\ o \in refs[dying[v]]
      BY <1>8 DEF Sheltered
    <3>3. captured[dying[v]] \in Object /\ dying[v] # NoScope
      BY <1>1, <3>2
    <3>4. h \in Object /\ gen[h] = gcGeneration
      BY <1>8, <3>2, <3>3 DEF Scanned
    <3>5. v # w
      BY <3>1, <3>2, <3>4
    <3>6. dying[v] # s /\ dying'[v] = dying[v] /\ dying[v] \in own[v]
      BY <1>1, <2>2, <2>3, <3>3, <3>5
    <3>7. dying[v] \in scopes'
      BY <2>2, <3>6 DEF scopes
    <3>8. captured'[dying[v]] = captured[dying[v]] /\ h \in refs'[captured[dying[v]]] /\ o \in refs'[dying[v]]
      BY <2>1, <2>2, <3>2, <3>3, <3>6
    <3>. QED BY <1>00, <3>2, <3>6, <3>7, <3>8 DEF Sheltered
  <2>. QED BY <2>4, <2>5
<1>9. CASE \E g \in Holder, o \in Object, h \in Holder : Assign(w, g, o, h)
  BY <1>0, <1>6, <1>9, AssignEffect
<1>10. CASE StoreCaptured(w)
  BY <1>0, <1>6, <1>10, StoreEffect
<1>. QED BY <1>3, <1>4, <1>5, <1>7, <1>8, <1>9, <1>10 DEF RunScript, Creates
\* A reference the marking need not worry about.
Clear(h, o) == Scanned(h) => Grey(o) \/ Sheltered(h, o)

LEMMA ClearColour ==
  ColourInv <=> /\ phase = "Bumped" => \A o \in Object : gen[o] # gcGeneration
                /\ \A h \in Holder : \A o \in refs[h] : Clear(h, o) \/ \E w \in Worker : Barrier(w, h, o)
BY DEF ColourInv, Clear

UseOf(w) ==
  /\ from[w] \in Scope => from[w] \in scopes
  /\ from[w] \in Object => \E s \in own[w] : from[w] \in refs[s] /\ Clear(s, from[w])
  /\ from[w] # NoScope => new[w] \in refs[from[w]] /\ Clear(from[w], new[w])
  /\ new[w] \in Object /\ ~fresh[w] /\ from[w] = NoScope =>
       \E s \in own[w] : captured[s] = new[w] /\ Clear(s, new[w])

LEMMA NoShelterForScopes ==
  ASSUME Base, DyingInv, NEW s \in Scope, NEW o
  PROVE  ~Sheltered(s, o)
<1>1. ASSUME NEW v \in Worker, dying[v] \in Scope PROVE captured[dying[v]] \in Object
  BY <1>1, Pointwise, Kinds DEF DyingOf, Base, TypeOK
<1>. QED BY <1>1, Kinds DEF Sheltered

LEMMA ClearUse ==
  ASSUME Base, DyingInv
  PROVE  UseInv <=> \A w \in Worker : UseOf(w)
<1>1. \A w \in Worker : own[w] \subseteq Scope
  BY Kinds
<1>2. \A s \in Scope : \A o : Clear(s, o) <=> (Scanned(s) => Grey(o))
  BY NoShelterForScopes DEF Clear
<1>. QED BY <1>1, <1>2 DEF UseInv, UseOf, HeldBy, Clear

LEMMA ClearScript ==
  ASSUME Base, FreshInv, DyingInv, ~raced', NEW w \in Worker, RunScript(w)
  PROVE  \A h \in Holder, o \in Object : o \in refs[h] /\ o \in refs'[h] /\ Clear(h, o) => Clear(h, o)'
<1>. USE Kinds
<1>0. /\ own \in [Worker -> SUBSET (Scope \ Global)] /\ refs \in [Holder -> SUBSET Object] /\ TypeOK /\ LocalsInv
  BY DEF Base, TypeOK
<1>00. UNCHANGED <<phase, gcScopes, gen, gcGeneration, gcTargets>>
  BY ScriptKeeps DEF collectorVars, cycleVars
<1>1. \A o \in Object : Grey(o)' <=> Grey(o)
  BY <1>00 DEF Grey
<1>2. \A s \in scopes' \ scopes : refs[s] = {}
  <2>1. CASE \E s \in Scope : NewScope(w, s)
    BY <1>0, <2>1 DEF NewScope, scopes
  <2>2. CASE \E s \in Scope : DestroyScope(w, s)
    BY <1>0, <2>2 DEF DestroyScope, scopes
  <2>3. CASE EraseScope(w)
    BY <1>0, <2>3 DEF EraseScope, scopes
  <2>4. CASE ~ (EraseScope(w) \/ \E s \in Scope : DestroyScope(w, s) \/ NewScope(w, s))
    <3>1. own' = own
      BY <2>4 DEF RunScript, Assign, SetNull, Allocate, Capture, DestroyCaptured, Create, StoreCaptured
    <3>. QED BY <3>1 DEF scopes
  <2>. QED BY <2>1, <2>2, <2>3, <2>4
<1>3. \A h \in Holder : Scanned(h)' => Scanned(h) \/ refs[h] = {}
  BY <1>00, <1>2 DEF Scanned, Marking
<1>. QED BY <1>1, <1>3, ShelterScript DEF Clear

LEMMA ClearSetObject ==
  ASSUME Base, FreshInv, DyingInv, ColourInv, ~raced', NEW w \in Worker, SetObject(w)
  PROVE  \A h \in Holder, o \in Object : o \in refs[h] /\ Clear(h, o) => Clear(h, o)'
<1>. USE Kinds
<1>0. TypeOK /\ LocalsInv /\ HeapInv
  BY DEF Base
<1>1. UNCHANGED <<refs, own, captured, phase, gcScopes, gcGeneration, dying>> /\ gcTargets \subseteq gcTargets'
  <2>1. dying' = dying
    BY DEF SetObject, CheckBarrier, Push, Register, ReadGeneration, Stamp
  <2>. QED BY <1>0, <2>1, SetObjectKeeps DEF cycleVars
<1>2. \A h \in Holder, o \in Object : Sheltered(h, o)' <=> Sheltered(h, o)
  BY <1>1 DEF Sheltered, scopes
<1>3. CASE gen' = gen
  BY <1>1, <1>2, <1>3 DEF Clear, Scanned, Grey, Marking, scopes
<1>4. CASE Stamp(w)
  <2>1. /\ fresh[w] /\ new[w] \in Object /\ \A o \in Object : gen'[o] = IF o = new[w] THEN gcGeneration ELSE gen[o]
    BY <1>0, <1>4, StampEffect
  <2>2. \A o \in Object : Grey(o) => Grey(o)'
    BY <1>1, <2>1 DEF Grey
  <2>3. \A h \in Holder : Scanned(h)' => Scanned(h) \/ h = new[w]
    BY <1>1, <2>1 DEF Scanned, Marking, scopes
  <2>4. ASSUME NEW o \in refs[new[w]], Marking PROVE Grey(o) \/ Sheltered(new[w], o)
    <3>1. o \in Object /\ FreshOf(w)
      BY <2>1, Pointwise
    <3>2. dying[w] # NoScope /\ o \in refs[dying[w]] /\ dying[w] \in Scope
      BY <2>4, <3>1 DEF FreshOf
    <3>3. dying[w] \in scopes /\ new[w] \in refs[captured[dying[w]]] /\ ~InUse(dying[w])
      BY <2>1, <3>2, Pointwise DEF DyingOf
    <3>4. CASE phase = "Armed" \/ dying[w] \in gcScopes
      BY <3>2, <3>3, <3>4 DEF Sheltered
    <3>5. CASE ~(phase = "Armed" \/ dying[w] \in gcScopes)
      <4>1. Scanned(dying[w])
        BY <1>1, <2>4, <3>2, <3>3, <3>5 DEF Scanned, Marking
      <4>2. Clear(dying[w], o) \/ \E v \in Worker : Barrier(v, dying[w], o)
        BY <3>2, ClearColour
      <4>3. \A v \in Worker : ~Barrier(v, dying[w], o)
        BY <3>3 DEF Barrier, InUse
      <4>. QED BY <3>2, <4>1, <4>2, <4>3, NoShelterForScopes DEF Clear
    <3>. QED BY <3>4, <3>5
  <2>5. ASSUME NEW h \in Holder, NEW o \in Object, o \in refs[h], Clear(h, o), Scanned(h)'
        PROVE  Grey(o) \/ Sheltered(h, o)
    <3>1. CASE Scanned(h)
      BY <2>5, <3>1 DEF Clear
    <3>2. CASE ~Scanned(h)
      <4>1. h = new[w]
        BY <2>3, <2>5, <3>2
      <4>2. Marking
        BY <1>1, <2>5 DEF Scanned, Marking
      <4>. QED BY <2>4, <2>5, <4>1, <4>2
    <3>. QED BY <3>1, <3>2
  <2>6. ASSUME NEW h \in Holder, NEW o \in Object, o \in refs[h], Clear(h, o) PROVE Clear(h, o)'
    BY <1>2, <2>2, <2>5, <2>6 DEF Clear
  <2>. QED BY <2>6
<1>. QED BY <1>0, <1>3, <1>4, SetObjectKeeps

LEMMA ClearTidy ==
  ASSUME Base, DyingInv, ColourInv, NEW w \in Worker, Tidy(w)
  PROVE  \A h \in Holder, o \in Object : o \in refs[h] /\ Clear(h, o) => Clear(h, o)'
<1>. USE Kinds
<1>0. TypeOK /\ CycleInv /\ UNCHANGED <<own, captured, dying>> /\ scopes' = scopes
  BY TidyKeeps DEF Base, TidyEffect, scopes
<1>1. ASSUME ~Marking' PROVE \A h, o : Clear(h, o)'
  BY <1>1 DEF Clear, Scanned
<1>2. CASE BeginMarking(w) \/ ObjectsMarked(w) \/ BeginSweeping(w) \/ Collect(w) \/ \E o \in Object : Sweep(w, o)
  BY <1>1, <1>2 DEF BeginMarking, ObjectsMarked, BeginSweeping, Collect, Sweep, cycleVars, Marking
<1>3. CASE ArmBarrier(w)
  <2>1. UNCHANGED <<gen, gcGeneration>> /\ phase' = "Armed" /\ phase = "Bumped"
    BY <1>3 DEF ArmBarrier
  <2>2. \A h \in Holder : ~Scanned(h)'
    BY <2>1 DEF Scanned, ColourInv
  <2>. QED BY <2>2 DEF Clear
<1>4. CASE SnapshotScopes(w)
  <2>1. UNCHANGED <<refs, gen, gcGeneration, gcTargets>> /\ phase = "Armed" /\ phase' = "MarkingScope" /\ gcScopes' = scopes
    BY <1>4 DEF SnapshotScopes, heapVars
  <2>2. \A h \in Holder : Scanned(h)' => Scanned(h)
    BY <1>0, <2>1 DEF Scanned, Marking
  <2>3. \A h \in Holder, o \in Object : Sheltered(h, o) => Sheltered(h, o)'
    BY <1>0, <2>1 DEF Sheltered
  <2>4. \A o \in Object : Grey(o)' <=> Grey(o)
    BY <2>1 DEF Grey
  <2>. QED BY <2>2, <2>3, <2>4 DEF Clear
<1>5. ASSUME NEW s \in Scope, MarkScope(w, s) PROVE \A h \in Holder, o \in Object : o \in refs[h] /\ Clear(h, o) => Clear(h, o)'
  <2>1. /\ UNCHANGED <<refs, gen, gcGeneration>> /\ phase = "MarkingScope" /\ phase' \in {"MarkingScope", "MarkingObject"}
        /\ gcScopes' = gcScopes \ {s}
        /\ gcTargets' = IF s \in scopes THEN gcTargets \cup {o \in refs[s] : gen[o] # gcGeneration} ELSE gcTargets
    BY <1>5 DEF MarkScope, heapVars
  <2>2. s \in scopes => \A o \in refs[s] : Grey(o)'
    BY <2>1 DEF Grey
  <2>3. \A o \in Object : Grey(o) => Grey(o)'
    BY <2>1 DEF Grey
  <2>4. \A h \in Holder : Scanned(h)' => Scanned(h) \/ (h = s /\ s \in scopes)
    BY <1>0, <2>1 DEF Scanned, Marking
  <2>5. \A h \in Holder, o \in Object : Sheltered(h, o) => Sheltered(h, o)' \/ Grey(o)'
    BY <1>0, <2>1, <2>2 DEF Sheltered
  <2>. QED BY <2>2, <2>3, <2>4, <2>5 DEF Clear
<1>6. ASSUME NEW p \in Object, MarkObject(w, p) PROVE \A h \in Holder, o \in Object : o \in refs[h] /\ Clear(h, o) => Clear(h, o)'
  <2>1. /\ UNCHANGED <<refs, phase, gcGeneration, gcScopes>> /\ p \in gcTargets
        /\ \A o \in Object : gen'[o] = IF o = p THEN gcGeneration ELSE gen[o]
        /\ gcTargets' = (gcTargets \ {p}) \cup (IF gen[p] = gcGeneration THEN {} ELSE refs[p])
    BY <1>0, <1>6 DEF MarkObject, heapVars, cycleVars, TypeOK
  <2>2. \A o \in Object : Grey(o) => Grey(o)'
    BY <2>1 DEF Grey
  <2>3. gen[p] # gcGeneration => \A o \in refs[p] : Grey(o)'
    BY <2>1 DEF Grey
  <2>4. \A h \in Holder : Scanned(h)' => Scanned(h) \/ (h = p /\ gen[p] # gcGeneration)
    BY <1>0, <2>1 DEF Scanned, Marking
  <2>5. \A h \in Holder, o \in Object : Sheltered(h, o) => Sheltered(h, o)'
    BY <1>0, <2>1 DEF Sheltered
  <2>. QED BY <2>2, <2>3, <2>4, <2>5 DEF Clear
<1>. QED BY <1>2, <1>3, <1>4, <1>5, <1>6 DEF Tidy

LEMMA ColourBack ==
  ASSUME (phase = "Bumped" => \A o \in Object : gen[o] # gcGeneration)',
         \A h \in Holder, o \in Object :
           o \in refs'[h] => Clear(h, o)' \/ \E v \in Worker : Barrier(v, h, o)',
         refs' \in [Holder -> SUBSET Object]
  PROVE  ColourInv'
BY DEF ColourInv, Clear

LEMMA ColourScript ==
  ASSUME Base, Base', FreshInv, DyingInv, ColourInv, ~raced', NEW w \in Worker, RunScript(w)
  PROVE  ColourInv'
<1>. USE Kinds
<1>0. refs' \in [Holder -> SUBSET Object]
  BY DEF Base, TypeOK
<1>1. UNCHANGED <<phase, gen, gcGeneration>>
  BY ScriptKeeps DEF collectorVars, cycleVars
<1>2. (phase = "Bumped" => \A o \in Object : gen[o] # gcGeneration)'
  BY <1>1 DEF ColourInv
<1>3. ASSUME NEW h \in Holder, NEW o \in Object, o \in refs'[h]
      PROVE  Clear(h, o)' \/ \E v \in Worker : Barrier(v, h, o)'
  <2>1. CASE o \in refs[h] /\ Clear(h, o)
    BY <1>3, <2>1, ClearScript
  <2>2. CASE o \in refs[h] /\ \E v \in Worker : Barrier(v, h, o)
    <3>1. PICK v \in Worker : Barrier(v, h, o)
      BY <2>2
    <3>2. v # w
      BY <3>1, ScriptEffect DEF Barrier
    <3>3. Barrier(v, h, o)'
      BY <3>1, <3>2, ScriptEffect DEF Barrier, OthersKeep
    <3>. QED BY <3>3
  <2>3. CASE pc'[w] = "barrier" /\ new'[w] = o /\ to'[w] = h
    BY <2>3 DEF Barrier
  <2>4. CASE h \in Object /\ h \notin born
    <3>1. gen[h] = 0 /\ h \notin Scope
      BY <2>4 DEF Base, HeapInv
    <3>2. phase # "Idle" => gcGeneration > 0
      BY DEF Base, CycleInv
    <3>3. gcGeneration \in Nat
      BY DEF Base, TypeOK, Generation
    <3>4. scopes' \subseteq Scope
      BY DEF Base, TypeOK, scopes
    <3>5. ~Scanned(h)'
      BY <1>1, <3>1, <3>2, <3>3, <3>4 DEF Scanned, Marking
    <3>. QED BY <3>5 DEF Clear
  <2>5. o \in refs[h] => Clear(h, o) \/ \E v \in Worker : Barrier(v, h, o)
    BY ClearColour
  <2>. QED BY <1>3, <2>1, <2>2, <2>3, <2>4, <2>5, ScriptEffect
<1>. QED BY <1>0, <1>2, <1>3, ColourBack

LEMMA ColourSetObject ==
  ASSUME Base, Base', FreshInv, DyingInv, ColourInv, ~raced', NEW w \in Worker, SetObject(w)
  PROVE  ColourInv'
<1>. USE Kinds
<1>0. refs' \in [Holder -> SUBSET Object] /\ TypeOK /\ LocalsInv /\ HeapInv /\ CycleInv
  BY DEF Base, TypeOK
<1>1. UNCHANGED <<refs, phase, gcGeneration, marking>>
  BY <1>0, SetObjectKeeps DEF cycleVars
<1>2. (phase = "Bumped" => \A o \in Object : gen[o] # gcGeneration)'
  <2>1. CASE gen' = gen
    BY <1>1, <2>1 DEF ColourInv
  <2>2. CASE Stamp(w)
    BY <1>0, <1>1, <2>2, StampEffect
  <2>. QED BY <1>0, <2>1, <2>2, SetObjectKeeps
<1>3. OthersKeep(w)
  <2>1. CASE Register(w) \/ ReadGeneration(w)
    BY <1>0, <2>1 DEF Register, ReadGeneration, OthersKeep, TypeOK, heapVars
  <2>. QED BY <1>0, <2>1, BarrierEffect, PushEffect, StampEffect DEF SetObject, Moves, Leaves
<1>4. ASSUME NEW o \in Object, NEW h \in Holder, Barrier(w, h, o)
      PROVE  Clear(h, o)' \/ Barrier(w, h, o)'
  <2>1. pc[w] \in {"barrier", "push"} /\ new[w] = o /\ to[w] = h
    BY <1>4 DEF Barrier
  <2>2. CASE CheckBarrier(w)
    <3>1. UNCHANGED <<gen, gcGeneration>>
      BY <1>0, <2>2, BarrierEffect DEF collectorVars, cycleVars
    <3>2. CASE Moves(w, "push")
      BY <1>0, <2>1, <3>2 DEF Moves, Barrier, TypeOK
    <3>3. CASE marking => gen[new[w]] = gcGeneration
      <4>1. Marking' => gen'[o] = gcGeneration'
        BY <1>0, <1>1, <2>1, <3>1, <3>3 DEF Marking, CycleInv
      <4>. QED BY <4>1 DEF Clear, Scanned, Grey
    <3>. QED BY <1>0, <2>2, <3>2, <3>3, BarrierEffect
  <2>3. CASE Push(w)
    <3>1. o \in gcTargets'
      BY <1>0, <2>1, <2>3, PushEffect
    <3>. QED BY <3>1 DEF Clear, Grey
  <2>. QED BY <2>1, <2>2, <2>3 DEF SetObject, Register, ReadGeneration, Stamp
<1>5. ASSUME NEW h \in Holder, NEW o \in Object, o \in refs'[h]
      PROVE  Clear(h, o)' \/ \E v \in Worker : Barrier(v, h, o)'
  <2>1. CASE Clear(h, o)
    BY <1>1, <1>5, <2>1, ClearSetObject
  <2>2. ASSUME NEW v \in Worker \ {w}, Barrier(v, h, o) PROVE Barrier(v, h, o)'
    BY <1>3, <2>2 DEF Barrier, OthersKeep
  <2>3. Clear(h, o) \/ \E v \in Worker : Barrier(v, h, o)
    BY <1>1, <1>5, ClearColour
  <2>. QED BY <1>4, <2>1, <2>2, <2>3
<1>. QED BY <1>0, <1>2, <1>5, ColourBack

LEMMA ColourTidy ==
  ASSUME Base, Base', DyingInv, ColourInv, NEW w \in Worker, Tidy(w)
  PROVE  ColourInv'
<1>. USE Kinds
<1>0. refs' \in [Holder -> SUBSET Object] /\ TypeOK /\ CycleInv
  BY DEF Base, TypeOK
<1>1. UNCHANGED <<new, to>> /\ \A v \in Worker : pc[v] \in {"barrier", "push"} => pc'[v] = pc[v]
  BY <1>0, TidyKeeps DEF TidyEffect
<1>2. \A v \in Worker, h \in Holder, o \in Object : Barrier(v, h, o) => Barrier(v, h, o)'
  BY <1>1 DEF Barrier
<1>3. \A h \in Holder : refs'[h] \subseteq refs[h]
  <2>1. CASE \E o \in Object : Sweep(w, o)
    BY <1>0, <2>1 DEF Sweep, TypeOK
  <2>2. CASE ~ \E o \in Object : Sweep(w, o)
    BY <2>2 DEF Tidy, BeginMarking, ArmBarrier, SnapshotScopes, MarkScope, MarkObject, ObjectsMarked,
                BeginSweeping, Collect, heapVars
  <2>. QED BY <2>1, <2>2
<1>4. (phase = "Bumped" => \A o \in Object : gen[o] # gcGeneration)'
  <2>1. CASE BeginMarking(w)
    <3>1. gcGeneration \in Nat /\ \A o \in Object : gen[o] \in Nat /\ gen[o] <= gcGeneration
      BY <1>0 DEF TypeOK, Generation, CycleInv
    <3>. QED BY <2>1, <3>1 DEF BeginMarking
  <2>2. CASE ~BeginMarking(w)
    BY <2>2 DEF Tidy, ArmBarrier, SnapshotScopes, MarkScope, MarkObject, ObjectsMarked,
                BeginSweeping, Sweep, Collect, cycleVars
  <2>. QED BY <2>1, <2>2
<1>5. ASSUME NEW h \in Holder, NEW o \in Object, o \in refs'[h]
      PROVE  Clear(h, o)' \/ \E v \in Worker : Barrier(v, h, o)'
  <2>1. o \in refs[h]
    BY <1>3, <1>5
  <2>2. Clear(h, o) \/ \E v \in Worker : Barrier(v, h, o)
    BY <2>1, ClearColour
  <2>. QED BY <1>2, <2>1, <2>2, ClearTidy
<1>. QED BY <1>0, <1>4, <1>5, ColourBack

LEMMA ColourStep ==
  ASSUME Base, Base', FreshInv, DyingInv, ColourInv, ~raced', NEW w \in Worker,
         RunScript(w) \/ SetObject(w) \/ Tidy(w)
  PROVE  ColourInv'
BY ColourScript, ColourSetObject, ColourTidy

\* What a worker has in use stays where it is.
LEMMA UseSame ==
  ASSUME Base, Base', NEW v \in Worker, UseOf(v),
         from'[v] = from[v] /\ new'[v] = new[v] /\ fresh'[v] = fresh[v],
         \A h \in Holder, o \in Object : o \in refs[h] /\ o \in refs'[h] /\ Clear(h, o) => Clear(h, o)',
         from[v] \in Scope => from[v] \in scopes',
         from[v] \in Object => \A s \in own[v] : from[v] \in refs[s] => s \in own'[v] /\ from[v] \in refs'[s],
         from[v] \in Holder /\ new[v] \in refs[from[v]] => new[v] \in refs'[from[v]],
         new[v] \in Object /\ ~fresh[v] =>
           \A s \in own[v] : captured[s] = new[v] => s \in own'[v] /\ captured'[s] = new[v]
  PROVE  UseOf(v)'
<1>. USE Kinds
<1>1. from[v] \in Holder \cup {NoScope} /\ \A h \in Holder : refs[h] \subseteq Object
  BY DEF Base, TypeOK
<1>2. \A s \in Scope : /\ captured[s] # NoObject => captured[s] \in refs[s]
                       /\ captured'[s] # NoObject => captured'[s] \in refs'[s]
  BY DEF Base, HeapInv
<1>3. PICK g, n : g = from[v] /\ n = new[v]
  OBVIOUS
<1>4. from'[v] = g /\ new'[v] = n /\ fresh'[v] = fresh[v]
  BY <1>3
<1>5. g \in Scope => g \in scopes'
  BY <1>3
<1>6. g \in Object => \E s \in own'[v] : g \in refs'[s] /\ Clear(s, g)'
  <2>1. SUFFICES ASSUME g \in Object PROVE \E s \in own'[v] : g \in refs'[s] /\ Clear(s, g)'
    OBVIOUS
  <2>2. PICK s \in own[v] : g \in refs[s] /\ Clear(s, g)
    BY <1>3, <2>1 DEF UseOf
  <2>3. s \in own'[v] /\ g \in refs'[s]
    BY <1>3, <2>1, <2>2
  <2>4. Clear(s, g)'
    BY <2>1, <2>2, <2>3
  <2>. QED BY <2>3, <2>4
<1>7. g # NoScope => n \in refs'[g] /\ Clear(g, n)'
  <2>1. SUFFICES ASSUME g # NoScope PROVE n \in refs'[g] /\ Clear(g, n)'
    OBVIOUS
  <2>2. g \in Holder /\ n \in refs[g] /\ Clear(g, n) /\ n \in Object
    BY <1>1, <1>3, <2>1 DEF UseOf
  <2>3. n \in refs'[g]
    BY <1>3, <2>2
  <2>. QED BY <2>2, <2>3
<1>8. n \in Object /\ ~fresh[v] /\ g = NoScope => \E s \in own'[v] : captured'[s] = n /\ Clear(s, n)'
  <2>1. SUFFICES ASSUME n \in Object, ~fresh[v], g = NoScope
                 PROVE  \E s \in own'[v] : captured'[s] = n /\ Clear(s, n)'
    OBVIOUS
  <2>2. PICK s \in own[v] : captured[s] = n /\ Clear(s, n)
    BY <1>3, <2>1 DEF UseOf
  <2>3. s \in own'[v] /\ captured'[s] = n
    BY <1>3, <2>1, <2>2
  <2>4. n \in refs[s] /\ n \in refs'[s]
    BY <1>2, <2>1, <2>2, <2>3
  <2>. QED BY <2>1, <2>2, <2>3, <2>4
<1>. QED BY <1>4, <1>5, <1>6, <1>7, <1>8 DEF UseOf

LEMMA UseBack ==
  ASSUME Base', DyingInv', \A v \in Worker : UseOf(v)'
  PROVE  UseInv'
<1>1. /\ own' \in [Worker -> SUBSET (Scope \ Global)] /\ dying' \in [Worker -> Scope \cup {NoScope}]
      /\ captured' \in [Scope -> Object \cup {NoObject}]
  BY DEF Base, TypeOK
<1>2. \A v \in Worker : dying'[v] \in Scope => captured'[dying'[v]] \in Object
  <2>1. NoScope \notin Scope
    BY DEF Holder
  <2>2. \A v \in Worker : dying'[v] # NoScope => captured'[dying'[v]] # NoObject
    BY DEF DyingInv
  <2>. QED BY <1>1, <2>1, <2>2
<1>3. \A s \in Scope : s \in Holder /\ s \notin Object
  BY DEF Holder
<1>4. refs' \in [Holder -> SUBSET Object] /\ Object \subseteq Holder
  BY DEF Base, TypeOK, Holder
<1>5. \A s \in Scope : \A o : ~Sheltered(s, o)'
  BY <1>2, <1>3, <1>4 DEF Sheltered
<1>6. \A v \in Worker : own'[v] \subseteq Scope
  BY <1>1
<1>. QED BY <1>5, <1>6 DEF UseInv, UseOf, HeldBy, Clear

\* Whoever has nothing under way uses nothing.
LEMMA UseNothing ==
  ASSUME Base', NEW v \in Worker, from'[v] = NoScope, new'[v] \notin Object \/ fresh'[v]
  PROVE  UseOf(v)'
BY Kinds DEF UseOf, Base, TypeOK, Holder

LEMMA UseTidy ==
  ASSUME Base, Base', FreshInv, DyingInv, DyingInv', ColourInv, UseInv, SafeInv, DeadInv, ~raced',
         NEW w \in Worker, Tidy(w)
  PROVE  UseInv'
<1>. USE Kinds
<1>0. TypeOK /\ UNCHANGED <<own, captured, new, from, fresh>> /\ scopes' = scopes
  BY TidyKeeps DEF Base, TidyEffect, scopes
<1>1. ASSUME NEW v \in Worker PROVE UseOf(v)'
  <2>0. UseOf(v)
    BY ClearUse
  <2>1. \A x \in Scope : refs'[x] = refs[x]
    <3>1. CASE \E o \in Object : Sweep(w, o)
      BY <1>0, <3>1 DEF Sweep, TypeOK
    <3>2. CASE ~ \E o \in Object : Sweep(w, o)
      BY <3>2 DEF Tidy, BeginMarking, ArmBarrier, SnapshotScopes, MarkScope, MarkObject, ObjectsMarked,
                BeginSweeping, Collect, heapVars
    <3>. QED BY <3>1, <3>2
  <2>2. from[v] \in Object => refs'[from[v]] = refs[from[v]]
    <3>1. ASSUME NEW o \in Object, Sweep(w, o), from[v] \in Object PROVE refs'[from[v]] = refs[from[v]]
      <4>1. CASE gen[o] = gcGeneration
        BY <3>1, <4>1 DEF Sweep
      <4>2. CASE gen[o] # gcGeneration
        <5>1. ~Safe(o) /\ phase = "Sweeping" /\ \A x \in Holder : x # o => refs'[x] = refs[x]
          BY <1>0, <3>1, <4>2, SweptNotSafe DEF Sweep
        <5>2. PICK s \in own[v] : from[v] \in refs[s]
          BY <2>0, <3>1 DEF UseOf
        <5>3. s \in Scope /\ s \in scopes /\ s \in Holder /\ s \notin Object
          OBVIOUS
        <5>4. Safe(from[v])
          BY <5>1, <5>2, <5>3 DEF SafeInv
        <5>. QED BY <3>1, <5>1, <5>4
      <4>. QED BY <4>1, <4>2
    <3>2. CASE ~ \E o \in Object : Sweep(w, o)
      BY <3>2 DEF Tidy, BeginMarking, ArmBarrier, SnapshotScopes, MarkScope, MarkObject, ObjectsMarked,
                BeginSweeping, Collect, heapVars
    <3>. QED BY <3>1, <3>2
  <2>3. from[v] \in Holder => refs'[from[v]] = refs[from[v]]
    BY <2>1, <2>2 DEF Holder
  <2>4. \A h \in Holder, o \in Object : o \in refs[h] /\ Clear(h, o) => Clear(h, o)'
    BY ClearTidy
  <2>5. from[v] \in Scope => from[v] \in scopes'
    BY <1>0, <2>0 DEF UseOf
  <2>6. from[v] \in Object => \A s \in own[v] : from[v] \in refs[s] => s \in own'[v] /\ from[v] \in refs'[s]
    BY <1>0, <2>1
  <2>7. \A s \in own[v] : captured[s] = new[v] => s \in own'[v] /\ captured'[s] = new[v]
    BY <1>0
  <2>. QED BY <1>0, <2>0, <2>3, <2>4, <2>5, <2>6, <2>7, UseSame
<1>. QED BY <1>1, UseBack

LEMMA UseSetObject ==
  ASSUME Base, Base', FreshInv, DyingInv, DyingInv', ColourInv, UseInv, ~raced',
         NEW w \in Worker, SetObject(w)
  PROVE  UseInv'
<1>. USE Kinds
<1>0. TypeOK /\ LocalsInv /\ HeapInv /\ UNCHANGED <<refs, own, captured>> /\ scopes' = scopes
  BY SetObjectKeeps DEF Base, scopes
<1>1. \A h \in Holder, o \in Object : o \in refs[h] /\ Clear(h, o) => Clear(h, o)'
  BY ClearSetObject
<1>2. ASSUME NEW v \in Worker, from'[v] = from[v] /\ new'[v] = new[v] /\ fresh'[v] = fresh[v]
      PROVE  UseOf(v)'
  <2>1. UseOf(v)
    BY ClearUse
  <2>2. from[v] \in Scope => from[v] \in scopes'
    BY <1>0, <2>1 DEF UseOf
  <2>. QED BY <1>0, <1>1, <1>2, <2>1, <2>2, UseSame
<1>3. OthersKeep(w)
  <2>1. CASE Register(w) \/ ReadGeneration(w)
    BY <1>0, <2>1 DEF Register, ReadGeneration, OthersKeep, TypeOK, heapVars
  <2>. QED BY <1>0, <2>1, BarrierEffect, PushEffect, StampEffect DEF SetObject, Moves, Leaves
<1>4. \A v \in Worker \ {w} : UseOf(v)'
  BY <1>2, <1>3 DEF OthersKeep
<1>5. CASE Moves(w, "push") \/ Moves(w, "register") \/ Register(w) \/ ReadGeneration(w)
  <2>1. from'[w] = from[w] /\ new'[w] = new[w] /\ fresh'[w] = fresh[w]
    BY <1>5 DEF Moves, Register, ReadGeneration
  <2>. QED BY <1>2, <1>4, <2>1, UseBack
<1>6. CASE Leaves(w)
  BY <1>4, <1>6, UseNothing, UseBack DEF Leaves
<1>7. CASE Stamp(w)
  <2>1. /\ fresh[w] /\ new[w] \in Object /\ from'[w] = NoScope /\ Onward(w)
        /\ \A o \in Object : gen'[o] = IF o = new[w] THEN gcGeneration ELSE gen[o]
        /\ gcGeneration' = gcGeneration
    BY <1>0, <1>7, StampEffect DEF collectorVars, cycleVars
  <2>2. CASE new'[w] = NoObject
    BY <1>4, <2>1, <2>2, UseNothing, UseBack
  <2>3. CASE dest[w] # NoScope /\ new'[w] = new[w]
    <3>1. to[w] \in own[w] /\ captured[to[w]] = new[w]
      BY <2>1, <2>3, Pointwise DEF FreshOf
    <3>2. PICK s, n : s = to[w] /\ n = new[w]
      OBVIOUS
    <3>3. s \in own'[w] /\ captured'[s] = n /\ new'[w] = n /\ n \in Object
      BY <1>0, <2>1, <2>3, <3>1, <3>2
    <3>4. gen'[n] = gcGeneration'
      BY <2>1, <3>2, <3>3
    <3>5. Clear(s, n)'
      BY <3>4 DEF Clear, Grey
    <3>6. UseOf(w)'
      BY <2>1, <3>3, <3>5 DEF UseOf
    <3>. QED BY <1>4, <3>6, UseBack
  <2>. QED BY <2>1, <2>2, <2>3 DEF Onward
<1>. QED BY <1>0, <1>5, <1>6, <1>7, BarrierEffect, PushEffect DEF SetObject

LEMMA UseScript ==
  ASSUME Base, Base', FreshInv, DyingInv, DyingInv', ColourInv, UseInv, ~raced',
         NEW w \in Worker, RunScript(w)
  PROVE  UseInv'
<1>. USE Kinds
<1>0. /\ TypeOK /\ LocalsInv /\ HeapInv /\ OthersKeep(w)
      /\ own \in [Worker -> SUBSET (Scope \ Global)] /\ refs \in [Holder -> SUBSET Object]
  BY ScriptEffect DEF Base, TypeOK
<1>1. \A h \in Holder, o \in Object : o \in refs[h] /\ o \in refs'[h] /\ Clear(h, o) => Clear(h, o)'
  BY ClearScript
<1>2. \A v \in Worker : UseOf(v) /\ from[v] \in Holder \cup {NoScope} /\ new[v] \in born \cup {NoObject}
  BY <1>0, ClearUse DEF TypeOK, HeapInv
\* Unless a scope is destroyed, the others find everything where it was.
<1>3. ASSUME own' = own, \A s \in Scope : captured[s] # NoObject => captured'[s] = captured[s],
             NEW h \in Holder, NEW o \in Object,
             \A x \in Holder : refs[x] \subseteq refs'[x] \cup (IF x = h THEN {o} ELSE {}),
             o \notin refs'[h] => \A v \in Worker \ {w} : /\ ~(from[v] = h /\ new[v] = o)
                                                         /\ ~(h \in own[v] /\ from[v] = o),
             NEW v \in Worker \ {w}
      PROVE  UseOf(v)'
  <2>1. scopes' = scopes
    BY <1>3 DEF scopes
  <2>2. from[v] \in Scope => from[v] \in scopes'
    BY <1>2, <2>1 DEF UseOf
  <2>3. from'[v] = from[v] /\ new'[v] = new[v] /\ fresh'[v] = fresh[v]
    BY <1>0 DEF OthersKeep
  <2>4. from[v] \in Object => \A s \in own[v] : from[v] \in refs[s] => s \in own'[v] /\ from[v] \in refs'[s]
    BY <1>3
  <2>5. from[v] \in Holder /\ new[v] \in refs[from[v]] => new[v] \in refs'[from[v]]
    BY <1>3
  <2>6. new[v] \in Object => \A s \in own[v] : captured[s] = new[v] => s \in own'[v] /\ captured'[s] = new[v]
    BY <1>3
  <2>. QED BY <1>1, <1>2, <2>2, <2>3, <2>4, <2>5, <2>6, UseSame
\* A scope that is destroyed is nobody's but its owner's.
<1>4. ASSUME NEW s \in own[w], ~InUse(s),
             \A v \in Worker \ {w} : own'[v] = own[v],
             \A v \in Worker : own[v] \ {s} \subseteq own'[v],
             \A x \in Scope : x # s => captured'[x] = captured[x],
             \A x \in Holder : x # s => refs'[x] = refs[x],
             NEW v \in Worker \ {w}
      PROVE  UseOf(v)'
  <2>1. s \notin own[v] /\ from[v] # s /\ s \in Scope /\ s \notin Global
    BY <1>4, OtherScopes DEF InUse
  <2>2. scopes \ {s} \subseteq scopes'
    BY <1>4 DEF scopes
  <2>3. from'[v] = from[v] /\ new'[v] = new[v] /\ fresh'[v] = fresh[v]
    BY <1>0 DEF OthersKeep
  <2>4. from[v] \in Scope => from[v] \in scopes'
    BY <1>2, <2>1, <2>2 DEF UseOf
  <2>5. from[v] \in Object => \A x \in own[v] : from[v] \in refs[x] => x \in own'[v] /\ from[v] \in refs'[x]
    BY <1>4, <2>1
  <2>6. from[v] \in Holder /\ new[v] \in refs[from[v]] => new[v] \in refs'[from[v]]
    BY <1>4, <2>1
  <2>7. new[v] \in Object => \A x \in own[v] : captured[x] = new[v] => x \in own'[v] /\ captured'[x] = new[v]
    BY <1>4, <2>1
  <2>. QED BY <1>1, <1>2, <2>3, <2>4, <2>5, <2>6, <2>7, UseSame
<1>5. ASSUME \A v \in Worker \ {w} : UseOf(v)', UseOf(w)' PROVE UseInv'
  BY <1>5, UseBack
<1>6. CASE \E s \in Scope : NewScope(w, s)
  <2>1. PICK s \in Scope : NewScope(w, s)
    BY <1>6
  <2>2. UNCHANGED <<refs, captured, workerVars>> /\ pc[w] = "idle" /\ \A v \in Worker : own[v] \subseteq own'[v]
    BY <1>0, <2>1 DEF NewScope
  <2>3. UNCHANGED <<new, from, to, fresh, dest, dying>>
    BY <2>2 DEF workerVars
  <2>4. scopes \subseteq scopes'
    BY <2>2 DEF scopes
  <2>5. ASSUME NEW v \in Worker PROVE UseOf(v)'
    <3>1. from[v] \in Scope => from[v] \in scopes'
      BY <1>2, <2>4 DEF UseOf
    <3>2. \A x \in own[v] : x \in own'[v] /\ captured'[x] = captured[x] /\ refs'[x] = refs[x]
      BY <2>2
    <3>. QED BY <1>1, <1>2, <2>2, <2>3, <3>1, <3>2, UseSame
  <2>. QED BY <2>5, UseBack
<1>7. CASE \E s \in Scope : DestroyScope(w, s)
  <2>1. PICK s \in Scope : DestroyScope(w, s)
    BY <1>7
  <2>2. /\ s \in own[w] /\ ~InUse(s) /\ pc[w] = "idle"
        /\ \A v \in Worker \ {w} : own'[v] = own[v]
        /\ \A v \in Worker : own[v] \ {s} \subseteq own'[v]
        /\ captured' = captured /\ \A x \in Holder : x # s => refs'[x] = refs[x]
        /\ from' = from /\ new' = new
    BY <1>0, <2>1 DEF DestroyScope, workerVars
  <2>3. UseOf(w)'
    BY <1>0, <2>2, Idle, UseNothing
  <2>. QED BY <1>4, <2>2, <2>3, UseBack
<1>8. CASE EraseScope(w)
  <2>1. PICK s : s = dying[w]
    OBVIOUS
  <2>2. s \in own[w] /\ ~InUse(s) /\ pc[w] = "erase" /\ s \in Scope /\ from[w] = NoScope /\ new[w] \notin Object
    <3>1. pc[w] = "erase" /\ dying[w] # NoScope /\ from[w] = NoScope /\ new[w] \notin Object
      BY <1>0, <1>8 DEF EraseScope, LocalsInv
    <3>2. DyingOf(w)
      BY <3>1, Pointwise
    <3>. QED BY <2>1, <3>1, <3>2 DEF DyingOf
  <2>3. /\ \A v \in Worker \ {w} : own'[v] = own[v]
        /\ \A v \in Worker : own[v] \ {s} \subseteq own'[v]
        /\ \A x \in Scope : x # s => captured'[x] = captured[x]
        /\ \A x \in Holder : x # s => refs'[x] = refs[x]
        /\ from' = from /\ new' = new
    BY <1>0, <1>8, <2>1 DEF EraseScope, TypeOK
  <2>4. UseOf(w)'
    BY <2>2, <2>3, UseNothing
  <2>5. \A v \in Worker \ {w} : UseOf(v)'
    BY <1>4, <2>2, <2>3
  <2>. QED BY <2>4, <2>5, UseBack
<1>9. ASSUME NEW h \in Holder, NEW o \in Object, SetNull(w, h, o) PROVE UseInv'
  <2>1. /\ \A x \in Holder : refs'[x] = IF x = h THEN refs[h] \ {o} ELSE refs[x]
        /\ own' = own /\ captured' = captured /\ from' = from /\ new' = new /\ pc[w] = "idle"
        /\ ~Locked(w, h, o) /\ ~KeptByOther(w, h, o)
    BY <1>0, <1>9 DEF SetNull, workerVars
  <2>2. \A v \in Worker \ {w} : ~(from[v] = h /\ new[v] = o) /\ ~(h \in own[v] /\ from[v] = o)
    BY <2>1 DEF Locked, KeptByOther
  <2>3. \A x \in Holder : refs[x] \subseteq refs'[x] \cup (IF x = h THEN {o} ELSE {})
    BY <1>0, <2>1
  <2>4. \A v \in Worker \ {w} : UseOf(v)'
    BY <1>3, <2>1, <2>2, <2>3
  <2>5. UseOf(w)'
    BY <1>0, <2>1, Idle, UseNothing
  <2>. QED BY <2>4, <2>5, UseBack
<1>10. ASSUME NEW g, NEW o \in Object, NEW h \in Holder, Stores(w, o, g, h)
       PROVE  \A v \in Worker \ {w} : UseOf(v)'
  <2>1. own' = own /\ captured' = captured /\ \A x \in Holder : refs[x] \subseteq refs'[x]
    BY <1>10 DEF Stores
  <2>2. o \in refs'[h] /\ \A x \in Holder : refs[x] \subseteq refs'[x] \cup (IF x = h THEN {o} ELSE {})
    BY <1>10, <2>1 DEF Stores
  <2>. QED BY <1>3, <2>1, <2>2
<1>11. CASE Creates(w)
  <2>1. PICK h \in Holder, o \in Object : Makes(w, h, o)
    BY <1>11, Creation DEF Base
  <2>2. /\ refs'[h] = refs[h] \cup {o} /\ o \notin born /\ own' = own /\ from'[w] = NoScope /\ fresh'[w]
        /\ \A x \in Holder : x # o /\ x # h => refs'[x] = refs[x]
    BY <2>1, CreatedEffect
  <2>3. refs[o] = {}
    BY <1>0, <2>2 DEF HeapInv
  <2>4. \A s \in Scope : captured[s] # NoObject => captured'[s] = captured[s]
    BY <2>1, CreatedFrom
  <2>5. o \in refs'[h] /\ \A x \in Holder : refs[x] \subseteq refs'[x] \cup (IF x = h THEN {o} ELSE {})
    BY <2>2, <2>3
  <2>6. \A v \in Worker \ {w} : UseOf(v)'
    BY <1>3, <2>2, <2>4, <2>5
  <2>. QED BY <2>2, <2>6, UseNothing, UseBack
<1>12. ASSUME NEW g \in Holder, NEW o \in Object, NEW h \in Holder, Assign(w, g, o, h) PROVE UseInv'
  <2>1. Stores(w, o, g, h) /\ pc[w] = "idle" /\ g \in Accessible(w) /\ o \in refs[g] /\ ~Locked(w, g, o)
    BY <1>0, <1>12, AssignEffect DEF Assign
  <2>2. /\ own' = own /\ \A x \in Holder : refs[x] \subseteq refs'[x]
        /\ from'[w] = g /\ new'[w] = o
    BY <2>1 DEF Stores
  <2>3. ASSUME NEW x \in Holder, NEW p \in Object, p \in refs[x], ~Locked(w, x, p)
        PROVE  p \in refs'[x] /\ Clear(x, p)'
    <3>1. \A v \in Worker : ~Barrier(v, x, p)
      BY <2>1, <2>3 DEF Barrier, Locked
    <3>2. Clear(x, p) /\ p \in refs'[x]
      BY <2>2, <2>3, <3>1, ClearColour
    <3>. QED BY <1>1, <2>3, <3>2
  <2>4. o \in refs'[g] /\ Clear(g, o)'
    BY <2>1, <2>3
  <2>5. CASE g \in scopes /\ g \in Scope
    <3>1. g \in scopes' /\ g \notin Object /\ g # NoScope
      BY <2>2, <2>5 DEF scopes
    <3>2. UseOf(w)'
      BY <1>0, <2>2, <2>4, <3>1 DEF UseOf
    <3>. QED BY <1>10, <2>1, <3>2, UseBack
  <2>6. CASE g \in Object /\ \E s \in own[w] : s \in Scope /\ s \in scopes /\ g \in refs[s] /\ ~Locked(w, s, g)
    <3>1. PICK s \in own[w] : s \in Scope /\ g \in refs[s] /\ ~Locked(w, s, g)
      BY <2>6
    <3>2. s \in own'[w] /\ g \in refs'[s] /\ Clear(s, g)'
      BY <2>2, <2>3, <2>6, <3>1
    <3>3. g \notin Scope /\ g # NoScope
      BY <2>6
    <3>4. UseOf(w)'
      BY <2>2, <2>4, <3>2, <3>3 DEF UseOf
    <3>. QED BY <1>10, <2>1, <3>4, UseBack
  <2>. QED BY <1>0, <2>1, <2>5, <2>6, AccessKinds
<1>13. CASE StoreCaptured(w)
  <2>1. Stores(w, new[w], NoScope, dest[w]) /\ dest[w] \in Holder /\ new[w] \in Object /\ pc[w] = "store"
    BY <1>0, <1>13, StoreEffect
  <2>2. PICK n : n = new[w]
    OBVIOUS
  <2>3. /\ own' = own /\ captured' = captured /\ \A x \in Holder : refs[x] \subseteq refs'[x]
        /\ from'[w] = NoScope /\ new'[w] = n
    BY <2>1, <2>2 DEF Stores
  <2>4. PICK s \in own[w] : captured[s] = n /\ Clear(s, n)
    <3>1. ~fresh[w] /\ from[w] = NoScope
      BY <1>0, <2>1 DEF LocalsInv
    <3>. QED BY <1>2, <2>1, <2>2, <3>1 DEF UseOf
  <2>5. n \in refs[s] /\ s \in Holder
    BY <1>0, <2>1, <2>2, <2>4 DEF HeapInv
  <2>6. Clear(s, n)'
    BY <1>1, <2>1, <2>2, <2>3, <2>4, <2>5
  <2>7. UseOf(w)'
    BY <2>3, <2>4, <2>6 DEF UseOf
  <2>. QED BY <1>10, <2>1, <2>7, UseBack
<1>. QED BY <1>6, <1>7, <1>8, <1>9, <1>11, <1>12, <1>13 DEF RunScript, Creates

LEMMA UseStep ==
  ASSUME Base, Base', FreshInv, DyingInv, DyingInv', ColourInv, UseInv, SafeInv, DeadInv, ~raced',
         NEW w \in Worker, RunScript(w) \/ SetObject(w) \/ Tidy(w)
  PROVE  UseInv'
BY UseScript, UseSetObject, UseTidy

------------------------------------------------------------------------------
(* The invariant, and what follows from it.                                *)

\* What has happened is not forgotten.
LEMMA RacedBack ==
  ASSUME TypeOK, NEW w \in Worker, RunScript(w) \/ SetObject(w) \/ Tidy(w), ~raced'
  PROVE  ~raced
<1>1. CASE RunScript(w)
  BY <1>1 DEF RunScript, NewScope, DestroyScope, Assign, SetNull, Allocate, Capture, DestroyCaptured, Create,
              StoreCaptured, EraseScope
<1>2. CASE SetObject(w)
  BY <1>2 DEF SetObject, CheckBarrier, Push, Register, ReadGeneration, Stamp
<1>3. CASE Tidy(w)
  BY <1>3 DEF Tidy, BeginMarking, ArmBarrier, SnapshotScopes, MarkScope, MarkObject, ObjectsMarked,
              BeginSweeping, Sweep, Collect
<1>. QED BY <1>1, <1>2, <1>3

LEMMA NextInd == IndInv /\ Next => IndInv'
<1>1. SUFFICES ASSUME IndInv, NEW w \in Worker, RunScript(w) \/ SetObject(w) \/ Tidy(w) PROVE IndInv'
  BY DEF Next
<1>2. TypeOK /\ LocalsInv /\ HeapInv /\ CycleInv /\ DoomedInv
  BY <1>1 DEF IndInv
<1>3. TypeOK' /\ LocalsInv' /\ HeapInv' /\ DoomedInv'
  BY <1>1, <1>2, TypeStep, LocalsStep, HeapStep, DoomedStep
<1>4. CycleInv'
  BY <1>1, <1>2, <1>3, CycleStep
<1>5. Base /\ Base'
  BY <1>2, <1>3, <1>4 DEF Base
<1>6. ASSUME ~raced'
      PROVE  FreshInv' /\ DyingInv' /\ ColourInv' /\ UseInv' /\ SafeInv' /\ DeadInv'
  <2>1. FreshInv /\ DyingInv /\ ColourInv /\ UseInv /\ SafeInv /\ DeadInv
    BY <1>1, <1>2, <1>6, RacedBack DEF IndInv
  <2>2. FreshInv' /\ DyingInv'
    BY <1>1, <1>5, <1>6, <2>1, FreshStep, DyingStep
  <2>3. ColourInv' /\ UseInv'
    BY <1>1, <1>5, <1>6, <2>1, <2>2, ColourStep, UseStep
  <2>4. SafeInv' /\ DeadInv'
    BY <1>1, <1>5, <1>6, <2>1, SafeStep, DeadStep
  <2>. QED BY <2>2, <2>3, <2>4
<1>. QED BY <1>3, <1>4, <1>6 DEF IndInv

LEMMA StutterInd == IndInv /\ UNCHANGED vars => IndInv'
<1>. SUFFICES ASSUME IndInv, UNCHANGED vars PROVE IndInv'
  OBVIOUS
<1>1. UNCHANGED <<refs, own, born, objects, captured, pc, new, from, to, fresh, dest, read, dying>>
  BY DEF vars, heapVars, workerVars
<1>2. UNCHANGED <<phase, gcGeneration, marking, gcScopes, deleted, gen, gcTargets, toSweep, trash, raced, doomed>>
  BY DEF vars, cycleVars
<1>3. TypeOK' /\ LocalsInv' /\ HeapInv' /\ CycleInv'
  BY <1>1, <1>2 DEF IndInv, TypeOK, LocalsInv, HeapInv, CycleInv
<1>4. scopes' = scopes
  BY <1>1 DEF scopes
<1>5. DoomedInv'
  BY <1>1, <1>2, <1>4 DEF IndInv, DoomedInv, Closed
<1>6. ASSUME ~raced' PROVE FreshInv' /\ DyingInv' /\ UseInv' /\ ColourInv'
  BY <1>1, <1>2, <1>4, <1>6 DEF IndInv, FreshInv, DyingInv, InUse, UseInv, HeldBy, ColourInv, Scanned, Marking,
                                Grey, Sheltered, Barrier
<1>7. ASSUME ~raced' PROVE SafeInv' /\ DeadInv'
  BY <1>1, <1>2, <1>4, <1>7 DEF IndInv, SafeInv, Safe, DeadInv, Entering
<1>. QED BY <1>3, <1>5, <1>6, <1>7 DEF IndInv

LEMMA InitInd == Init => IndInv
<1>. SUFFICES ASSUME Init PROVE IndInv
  OBVIOUS
<1>. USE DEF Init
<1>0. NoObject \notin Object /\ NoScope \notin Object /\ NoScope \notin Scope /\ MaxCycle \in Nat
      /\ \A h \in Holder : refs[h] = {}
  BY DEF Holder
<1>1. TypeOK
  <2>1. {from, to, dest} \subseteq [Worker -> Holder \cup {NoScope}]
    BY Zenon
  <2>2. gen \in [Object -> Generation] /\ read \in [Worker -> Generation] /\ gcGeneration \in Generation
    BY <1>0 DEF Generation
  <2>3. pc \in [Worker -> WorkerState] /\ phase \in Phase
    BY DEF WorkerState, Phase
  <2>4. HeapType /\ WorkerType /\ CycleType
    BY <2>1, <2>2, <2>3 DEF HeapType, WorkerType, CycleType
  <2>. QED BY <2>4, TypeParts
<1>2. LocalsInv
  BY <1>0 DEF LocalsInv
<1>3. HeapInv
  BY <1>0 DEF HeapInv, Holder
<1>4. CycleInv
  BY <1>0 DEF CycleInv
<1>5. \A h \in scopes : h \in Holder
  BY DEF scopes, Holder
<1>6. DoomedInv
  <2>1. Closed({})
    BY <1>0, <1>5 DEF Closed
  <2>. QED BY <2>1 DEF DoomedInv
<1>7. FreshInv /\ DyingInv
  BY <1>0 DEF FreshInv, DyingInv
<1>8. ColourInv /\ UseInv
  BY <1>0 DEF ColourInv, Scanned, Marking, UseInv
<1>9. SafeInv /\ DeadInv
  BY <1>0, <1>5 DEF SafeInv, DeadInv
<1>. QED BY <1>1, <1>2, <1>3, <1>4, <1>6, <1>7, <1>8, <1>9 DEF IndInv

LEMMA Invariance == Spec => []IndInv
BY InitInd, NextInd, StutterInd, PTL DEF Spec

\* The stages of the collector and the places of the workers fit the variables they use: one
\* worker is in tidy(), holding mtGc, the targets are real objects, each worker in setObject()
\* has its object and its holder. (Storage::tidy(), ReferenceNode::setObject())
THEOREM CollectorTypes == Spec => []TypeOK
<1>1. IndInv => TypeOK
  BY DEF IndInv
<1>. QED BY <1>1, Invariance, PTL

LEMMA SafeIsKept ==
  ASSUME IndInv, ~raced, NEW o, Safe(o)
  PROVE  o \notin trash \cup deleted
BY DEF IndInv, FreshInv, DeadInv, Safe

LEMMA KeptWhileLive ==
  ASSUME IndInv, ~raced, NEW o \in Reachable
  PROVE  o \notin trash \cup deleted
<1>0. TypeOK /\ HeapInv /\ CycleInv /\ SafeInv /\ DeadInv /\ Base
  BY DEF IndInv, Base
<1>1. o \in Object /\ \A C \in SUBSET Object : (\A h \in scopes \cup C : refs[h] \subseteq C) => o \in C
  BY DEF Reachable
<1>. USE Kinds
\* While objects are swept, those that are marked or new are a set no reference leads out of, ...
<1>2. CASE phase = "Sweeping"
  <2>1. PICK C : C = {p \in Object : Safe(p)}
    OBVIOUS
  <2>2. \A h \in Holder : (h \in Object => Safe(h)) /\ (h \in Scope => h \in scopes)
                            => \A p \in refs[h] : Safe(p)
    BY <1>0, <1>2 DEF SafeInv
  <2>3. \A h \in scopes \cup C : refs[h] \subseteq C
    BY <1>0, <2>1, <2>2
  <2>4. o \in C
    BY <1>1, <2>1, <2>3
  <2>. QED BY <2>1, <2>4, SafeIsKept
\* ... and at all other times those that are not deleted.
<1>3. CASE phase # "Sweeping"
  <2>1. PICK C : C = born \ deleted
    OBVIOUS
  <2>2. \A h \in scopes \cup C : h \in Holder /\ refs[h] \subseteq C
    BY <1>0, <2>1 DEF HeapInv, DeadInv
  <2>3. o \in C
    BY <1>0, <1>1, <2>1, <2>2
  <2>. QED BY <1>0, <1>3, <2>1, <2>3 DEF CycleInv
<1>. QED BY <1>2, <1>3

\* Whatever a script can still get hold of is neither swept nor deleted, unless one of the
\* events raced records has happened. (Storage::stepSweeping(), the write barrier of
\* ReferenceNode::setObject())
THEOREM LiveKept == Spec => []LiveIsKept
<1>1. IndInv => LiveIsKept
  BY KeptWhileLive DEF LiveIsKept
<1>. QED BY <1>1, Invariance, PTL

LEMMA NothingDangles == ASSUME IndInv PROVE NoDangling
<1>0. SUFFICES ASSUME ~raced PROVE NoDangling
  BY DEF NoDangling
<1>1. TypeOK /\ CycleInv /\ SafeInv /\ DeadInv /\ Base
  BY <1>0 DEF IndInv, Base
<1>2. ASSUME NEW o \in trash, NEW p \in refs[o] PROVE p \notin trash
  <2>1. phase = "Sweeping" /\ o \in Object /\ o \in Holder /\ o \notin Scope
    BY <1>1, <1>2, Kinds DEF CycleInv, TypeOK
  <2>2. Safe(p)
    BY <1>1, <1>2, <2>1 DEF SafeInv
  <2>. QED BY <1>0, <2>2, SafeIsKept
<1>. QED BY <1>1, <1>2 DEF NoDangling, DeadInv

\* No reference and no target of the collector leads to a deleted object, and none of the trash
\* to another object of the trash, so that deinit() may use what its object refers to. (the loop
\* over the references of an unmarked object in Storage::stepSweeping())
THEOREM NeverDangling == Spec => []NoDangling
<1>1. IndInv => NoDangling
  BY NothingDangles
<1>. QED BY <1>1, Invariance, PTL

\* A cycle deletes everything that had become unreachable before it began, whatever scripts do
\* meanwhile and whether or not something has raced. (RuntimeImp::fullGc())
THEOREM OneCycleCollects == Spec => []CollectedInOneCycle
<1>1. IndInv => CollectedInOneCycle
  BY DEF IndInv, DoomedInv, CollectedInOneCycle
<1>. QED BY <1>1, Invariance, PTL
==============================================================================
