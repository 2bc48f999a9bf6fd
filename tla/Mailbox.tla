------------------------------ MODULE Mailbox ------------------------------
(* What the receive buffer of a handle promises its reader.  It is a row of *)
(* at most Capacity places.  A message takes the place after the newest     *)
(* one; when no place is left the oldest message is given up, and the       *)
(* message that is now oldest carries the overrun mark from then on.  A     *)
(* message taken from the middle leaves its place empty until everything    *)
(* older is gone.                                                           *)
EXTENDS Naturals, Sequences, SequencesExt

CONSTANTS Reader,    \* threads that read the handle
          Id,        \* CAN identifiers
          Capacity,  \* places
          NoId       \* the identifier of an empty place

Message == [id : Id, over : BOOLEAN]
Empty == [id |-> NoId, over |-> FALSE]

VARIABLES box,  \* the places from the oldest message to the newest
          got   \* the message each reader received last

vars == <<box, got>>

Init == box = <<>> /\ got = [r \in Reader |-> Empty]

\* The row without the empty places before its oldest message.
FromOldest(row) ==
    LET full == {k \in 1 .. Len(row) : row[k] # Empty}
    IN  IF full = {} THEN <<>>
        ELSE SubSeq(row, CHOOSE k \in full : \A j \in full : k <= j, Len(row))

Marked(row) == [row EXCEPT ![1].over = TRUE]

Arrive(m) ==
    /\ box' = IF Len(box) < Capacity THEN Append(box, m)
              ELSE Marked(FromOldest(Tail(Append(box, m))))
    /\ UNCHANGED got

Give(r, m) == got' = [got EXCEPT ![r] = m]

Take(r) ==
    /\ box # <<>>
    /\ Give(r, Head(box))
    /\ box' = FromOldest(Tail(box))

\* The oldest message with an identifier.
IsFirst(i, k) ==
    /\ k \in 1 .. Len(box) /\ box[k].id = i
    /\ \A j \in 1 .. k - 1 : box[j].id # i

\* A message handed out of order also tells of a loss before it.
WithOlderMarks(k) ==
    [box[k] EXCEPT !.over = \E j \in 1 .. k : box[j].over]

Peek(r, i) ==
    \E k \in 1 .. Len(box) :
        IsFirst(i, k) /\ Give(r, WithOlderMarks(k)) /\ UNCHANGED box

TakeMatching(r, i) ==
    \E k \in 1 .. Len(box) :
        /\ IsFirst(i, k) /\ Give(r, WithOlderMarks(k))
        /\ box' = FromOldest([box EXCEPT ![k] = Empty])

SkipTo(r, i) ==
    \E k \in 1 .. Len(box) :
        /\ IsFirst(i, k) /\ Give(r, WithOlderMarks(k))
        /\ box' = FromOldest(SubSeq(box, k + 1, Len(box)))

Clear == box' = <<>> /\ UNCHANGED got

\* A reader that asks again has forgotten what it received.
Ask(r) == Give(r, Empty) /\ UNCHANGED box

Read(r) ==
    \/ Take(r)
    \/ \E i \in Id : Peek(r, i) \/ TakeMatching(r, i) \/ SkipTo(r, i)

Next ==
    \/ \E m \in Message : Arrive(m)
    \/ \E r \in Reader : Ask(r) \/ Read(r)
    \/ Clear

Spec == Init /\ [][Next]_vars
============================================================================
