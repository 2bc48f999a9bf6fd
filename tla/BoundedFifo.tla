---------------------------- MODULE BoundedFifo ----------------------------
(* What the transmit queue of a CAN channel promises its users: messages    *)
(* leave in the order they were accepted, none is lost, duplicated or       *)
(* altered unless the whole queue is cleared, and no more than Capacity are *)
(* ever held.                                                               *)
EXTENDS Naturals, Sequences

CONSTANTS Msg,       \* the messages an application may write
          Capacity,  \* how many of them the queue holds
          NoMsg      \* "nothing delivered yet"

VARIABLES queue,     \* accepted, not yet delivered, oldest first
          delivered  \* the message delivered last

vars == <<queue, delivered>>

Init == queue = <<>> /\ delivered = NoMsg

Accept(m) ==
    /\ Len(queue) < Capacity
    /\ queue' = Append(queue, m)
    /\ UNCHANGED delivered

Deliver ==
    /\ queue # <<>>
    /\ delivered' = Head(queue)
    /\ queue' = Tail(queue)

Clear == queue' = <<>> /\ UNCHANGED delivered

Next == (\E m \in Msg : Accept(m)) \/ Deliver \/ Clear

Spec == Init /\ [][Next]_vars
============================================================================
