------------------------------ MODULE MCObjBuf -----------------------------
(* A transmit queue of one or two places is full while there is still a     *)
(* buffer to respond.                                                       *)
EXTENDS ObjBuf
============================================================================
