---------------------------- MODULE MCRcvBuffer ----------------------------
(* RcvBuffer for TLC: one reader, as canlib asks of a handle, and two       *)
(* identifiers to tell a message that matches from one that does not.       *)
EXTENDS RcvBuffer, TLC

CONSTANTS r1, a, b, noId

MCReader == {r1}
MCId == {a, b}
============================================================================
