--------------------------- MODULE MCWaitContext ---------------------------
(* An instance of WaitContext for TLC: the script m waits for the async     *)
(* calls a and b, on two workers, with one thread of timers.                *)
EXTENDS WaitContext, TLC

CONSTANTS m, a, b, w1, w2, timer

TargetsOfAll == m :> {a, b} @@ a :> {} @@ b :> {}
CallsOfAll   == m :> 2 @@ a :> 1 @@ b :> 0
=============================================================================
