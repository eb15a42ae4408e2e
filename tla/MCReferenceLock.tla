-------------------------- MODULE MCReferenceLock --------------------------
(* Instances of ReferenceLock for TLC: threads t1, t2, t3; a variable v of  *)
(* a block that a closure captures (any other variable is one that is never *)
(* lost), a sync block s and the lock of the parser p.                      *)
EXTENDS ReferenceLock, TLC

CONSTANTS v, s, p, t1, t2, t3

KindVSP == v :> "Temporary" @@ s :> "Hard" @@ p :> "Soft"
KindV   == v :> "Temporary"

Threads3 == Permutations({t1, t2, t3})

(* Once a reference has been robbed the properties say nothing more; and one *)
(* thread at a time has a second frame.                                     *)
OneCalls == ~robbed /\ Cardinality({t \in Thread : depth[t] = 2}) <= 1

(* Instead of symmetry, which liveness excludes: the block is one of t1.    *)
OneDeclares == OneCalls /\ \A d \in Frame : blockVars[t2][d] = {}

(* No thread is aborted with two frames or in a block, except by HolderGone:*)
(* the instance of three threads has these aborts.                          *)
FewAborts == \A t \in Thread : pc[t] = "run" => after'[t] # "finish"
=============================================================================
