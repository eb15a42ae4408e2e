--------------------------- MODULE MCConcurrentGc ---------------------------
(* Workers and objects are interchangeable, but for what is there from the start. *)
EXTENDS ConcurrentGc, TLC

Symmetry == Permutations(Worker) \cup Permutations(Object)
\* What comes after one of the races is not looked at.
NotRaced == ~raced
\* Only collections that begin with a closure and a variable are looked at.
CollectsClosures ==
  phase = "Bumped" =>
    Cardinality(born) = 2 /\ \E s \in Scope \ Global : captured[s] # NoObject /\ refs[s] # {}
=============================================================================
