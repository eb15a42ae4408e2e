------------------------------ MODULE Ownership ------------------------------
(***************************************************************************)
(* What the reference locks of chatra promise to a script (README.md,      *)
(* "Reference-based mutual exclusion"), without requests, frames and       *)
(* queues: a reference has at most one owner, a thread that runs into a    *)
(* reference of another one stops, and a stopped thread neither takes nor  *)
(* gives up anything before the one reference it waits for is handed to    *)
(* it while nobody owns it.                                                *)
(***************************************************************************)
CONSTANTS Thread, Ref, NoThread, NoRef

VARIABLES
  owner,    \* the thread that owns each reference, or NoThread
  waiting   \* the reference each stopped thread waits for, or NoRef

ownershipVars == <<owner, waiting>>

OwnershipInit ==
  /\ owner = [r \in Ref |-> NoThread]
  /\ waiting = [t \in Thread |-> NoRef]

Take(t, r) ==
  /\ waiting[t] = NoRef
  /\ owner[r] = NoThread
  /\ owner' = [owner EXCEPT ![r] = t]
  /\ UNCHANGED waiting

GiveUp(t, r) ==
  /\ waiting[t] = NoRef
  /\ owner[r] = t
  /\ owner' = [owner EXCEPT ![r] = NoThread]
  /\ UNCHANGED waiting

\* The owner may have given the reference up while t decided to stop.
Stop(t, r) ==
  /\ waiting[t] = NoRef
  /\ owner[r] # t
  /\ waiting' = [waiting EXCEPT ![t] = r]
  /\ UNCHANGED owner

HandOver(t, r) ==
  /\ waiting[t] = r
  /\ owner[r] = NoThread
  /\ owner' = [owner EXCEPT ![r] = t]
  /\ waiting' = [waiting EXCEPT ![t] = NoRef]

OwnershipNext ==
  \E t \in Thread, r \in Ref :
    Take(t, r) \/ GiveUp(t, r) \/ Stop(t, r) \/ HandOver(t, r)

OwnershipSpec == OwnershipInit /\ [][OwnershipNext]_ownershipVars
=============================================================================
