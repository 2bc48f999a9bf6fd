------------------------------ MODULE MCLeafTx -----------------------------
(* A channel with more messages than the device takes at once.              *)
EXTENDS LeafTx

CONSTANTS w1, w2
============================================================================
