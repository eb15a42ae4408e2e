----------------------------- MODULE MCDebugger -----------------------------
(* Threads a and b, workers w1, w2, w3 *)
EXTENDS Debugger, TLC

CONSTANTS a, b, w1, w2, w3
=============================================================================
