----------------------------- MODULE MCBQueue ------------------------------
(* Blocks of two elements; the queue spills to a third block.               *)
EXTENDS BQueue, TLC

CONSTANTS a, b
============================================================================
