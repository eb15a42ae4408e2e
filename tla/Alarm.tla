------------------------------- MODULE Alarm -------------------------------
(***************************************************************************)
(* What a timer of chatra promises to sleep(): a handler is invoked once,  *)
(* and not before the time it has been submitted for.                      *)
(***************************************************************************)
EXTENDS Naturals

CONSTANTS Handler, MaxTime

Never == MaxTime + 1    \* Time::max()

VARIABLES
  now,    \* the time on the clock of the timer
  at,     \* the time each handler has been submitted for, Never before
  invoked \* handlers that have been invoked

Init ==
  /\ now = 0
  /\ at = [h \in Handler |-> Never]
  /\ invoked = {}

Advance ==
  /\ now' \in now + 1..MaxTime
  /\ UNCHANGED <<at, invoked>>

Submit(h) ==
  /\ at[h] = Never
  /\ \E t \in 0..MaxTime : at' = [at EXCEPT ![h] = t]
  /\ UNCHANGED <<now, invoked>>

Invoke(h) ==
  /\ h \notin invoked /\ at[h] <= now
  /\ invoked' = invoked \cup {h}
  /\ UNCHANGED <<now, at>>

Next == Advance \/ \E h \in Handler : Submit(h) \/ Invoke(h)

Spec == Init /\ [][Next]_<<now, at, invoked>>
=============================================================================
