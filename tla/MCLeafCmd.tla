----------------------------- MODULE MCLeafCmd -----------------------------
(* Two channels of one card with a thread each.                             *)
EXTENDS LeafCmd, TLC

CONSTANTS t1, t2, c1, c2

OneEach == (t1 :> c1) @@ (t2 :> c2)
============================================================================
