----------------------------- MODULE BqueVarSize ----------------------------
(* bque_var_size (kvlclib/bque_var_size.cpp): elements of different sizes   *)
(* in one block of memory, which goes to the end of a temporary file when   *)
(* the next element does not fit and on the first pop; from then on blocks  *)
(* come back from the file until the queue is empty.  The converter is its  *)
(* only user.  Temporary files that cannot be written or read are left out: *)
(* the code asserts that they can.                                          *)
EXTENDS Naturals, SequencesExt

CONSTANTS Type,          \* types of the elements
          Size,          \* bytes an element of a type takes, its length included
          storage_size

ASSUME SizeAssumption ==
    storage_size \in Nat /\ Size \in [Type -> 1 .. storage_size]

\* push_index: the bytes of what was pushed to storage.  file: the blocks that
\* were written and not read to their end; the first of them is in storage while
\* the queue is read_only.
New_queue ==
    [storage |-> <<>>, push_index |-> 0, pop_index |-> 0, file |-> <<>>,
     read_only |-> FALSE, n_pushed_element |-> 0]

Fits(q, e) == q.push_index + Size[e.type] <= storage_size

write_block(q) ==
    [q EXCEPT !.file = Append(@, q.storage), !.storage = <<>>, !.push_index = 0]

\* The block written last comes back first.
Bug_reads_the_last(q) ==
    [q EXCEPT !.storage = Last(q.file), !.pop_index = 0]

read_block(q) == [q EXCEPT !.storage = Head(q.file), !.pop_index = 0]

\* Not of a queue that is read_only.
push(q, e) ==
    LET w == IF Fits(q, e) THEN q ELSE write_block(q)
    IN  [w EXCEPT !.storage = Append(@, e), !.push_index = @ + Size[e.type],
                  !.n_pushed_element = @ + 1]

Turned_round(q) ==
    IF q.read_only THEN q
    ELSE [read_block(write_block(q)) EXCEPT !.read_only = TRUE]

\* What pop copies to its caller, and the queue it leaves.
Popped(q) == LET r == Turned_round(q) IN r.storage[r.pop_index + 1]

pop(q) ==
    LET r == [Turned_round(q) EXCEPT !.pop_index = @ + 1,
                                     !.n_pushed_element = @ - 1]
        rest == [r EXCEPT !.file = Tail(@)]
    IN  IF r.pop_index < Len(r.storage) THEN r
        ELSE IF rest.file # <<>> THEN read_block(rest)
        ELSE [New_queue EXCEPT !.n_pushed_element = r.n_pushed_element]

----------------------------------------------------------------------------

\* Everything in the queue, oldest first.
Contents(q) ==
    IF q.read_only
    THEN SubSeq(q.storage, q.pop_index + 1, Len(q.storage))
             \o FlattenSeq(Tail(q.file))
    ELSE FlattenSeq(q.file) \o q.storage
============================================================================
