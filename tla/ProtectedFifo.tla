--------------------------- MODULE ProtectedFifo ---------------------------
(* What a buffered queue of kvlclib promises: "a queue where you can push   *)
(* elements until you want to read them, and once you begin reading them    *)
(* it's write protected until it's empty" (BufQueue.h).                     *)
EXTENDS Sequences

CONSTANTS Element,
          NoElement  \* "nothing popped yet"

VARIABLES queue,            \* pushed, not yet popped, oldest first
          popped,           \* the element popped last
          write_protected

vars == <<queue, popped, write_protected>>

Init == queue = <<>> /\ popped = NoElement /\ write_protected = FALSE

Push(e) ==
    /\ ~write_protected
    /\ queue' = Append(queue, e)
    /\ UNCHANGED <<popped, write_protected>>

Pop ==
    /\ queue # <<>>
    /\ popped' = Head(queue)
    /\ queue' = Tail(queue)
    /\ write_protected' = (Tail(queue) # <<>>)

Next == (\E e \in Element : Push(e)) \/ Pop

Spec == Init /\ [][Next]_vars
============================================================================
