---------------------------- MODULE MCVirtualCan ---------------------------
(* Two channels, which is what the driver is built with (KV_VIRT_CHANNELS). *)
EXTENDS VirtualCan, TLC

CONSTANTS h1, h2, h3, c1, c2

TwoOnOne == (h1 :> c1) @@ (h2 :> c1) @@ (h3 :> c2)

\* The handles that share a channel are interchangeable.
SharedSymmetry == Permutations({h1, h2})
============================================================================
