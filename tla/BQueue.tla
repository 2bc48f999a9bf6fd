------------------------------- MODULE BQueue ------------------------------
(* BQueue (kvlclib/BufQueue.cpp), in which the signal and MDF writers keep  *)
(* what they have to write: a block of memory, which goes to the end of a   *)
(* temporary file when it is full and on the first pop; from then on blocks *)
(* come back from the file until the queue is empty.                        *)
(*                                                                          *)
(* Calls that fail before they change anything are left out: they stutter.  *)
(* As all callers do, pop is called of a queue with size() # 0.             *)
EXTENDS Integers, SequencesExt

CONSTANTS Element, NoElement,
          size_of_queue,
          MaxSize,   \* bound on how much is pushed before it is popped
          MaxFaults  \* bound on how often the first block cannot be read back

ASSUME SizeAssumption == size_of_queue \in Nat \ {0}
ASSUME ElementAssumption == NoElement \notin Element
ASSUME BoundAssumption == MaxSize \in Nat /\ MaxFaults \in Nat

VARIABLES
    mem,            \* the block in memory
    file,           \* the blocks written; nof_blocks is its length
    current_block,  \* how many of them were read
    total_size, read_only,
    popped,         \* what the last pop returned
    faults

vars == <<mem, file, current_block, total_size, read_only, popped, faults>>

Position == 0 .. size_of_queue - 1

\* Memory after write_block's memset, which is not an element.
Empty_block == [storage |-> [p \in Position |-> NoElement],
                head |-> 0, current_size |-> 0]

Init ==
    /\ mem = Empty_block /\ file = <<>>
    /\ current_block = 0 /\ total_size = 0 /\ read_only = FALSE
    /\ popped = NoElement
    /\ faults = 0

----------------------------------------------------------------------------

\* One more than there is room for.
Bug_dumps_late(m) == m.current_size > size_of_queue

Full(m) == m.current_size = size_of_queue

With(m, e) ==
    [m EXCEPT !.storage[(m.current_size + m.head) % size_of_queue] = e,
              !.current_size = @ + 1]

push(e) ==
    /\ total_size < MaxSize
    /\ ~read_only
    /\ IF Full(mem)
       THEN file' = Append(file, mem) /\ mem' = With(Empty_block, e)
       ELSE mem' = With(mem, e) /\ UNCHANGED file
    /\ total_size' = total_size + 1
    /\ UNCHANGED <<current_block, read_only, popped, faults>>

Read_block(blocks, n) == blocks[IF n < Len(blocks) THEN n + 1 ELSE n]

Without_head(m) ==
    [m EXCEPT !.head = (@ + 1) % size_of_queue, !.current_size = @ - 1]

\* The queue is empty when the block in memory is.
Bug_emptied_with_the_block(m) == m.current_size = 0

Emptied(m) == total_size = 1

Start_over ==
    /\ mem' = Empty_block /\ file' = <<>>
    /\ current_block' = 0 /\ total_size' = 0 /\ read_only' = FALSE

\* The first pop writes the last block and reads the first; whichever empties
\* the block in memory reads the next; the last starts over without the file.
pop ==
    LET blocks == IF read_only THEN file ELSE Append(file, mem)
        n == IF read_only THEN current_block ELSE 1
        m == IF read_only THEN mem ELSE blocks[1]
        rest == Without_head(m)
    IN  /\ total_size > 0
        /\ popped' = m.storage[m.head]
        /\ IF Emptied(rest) THEN Start_over
           ELSE /\ file' = blocks /\ read_only' = TRUE
                /\ total_size' = total_size - 1
                /\ IF rest.current_size = 0
                   THEN mem' = Read_block(blocks, n) /\ current_block' = n + 1
                   ELSE mem' = rest /\ current_block' = n
        /\ UNCHANGED faults

\* The first pop has written the last block and cannot read the first: it
\* returns false, and the queue can be pushed to and popped from again.
pop_cannot_read ==
    /\ faults < MaxFaults
    /\ total_size > 0 /\ ~read_only
    /\ file' = Append(file, mem) /\ mem' = Empty_block
    /\ faults' = faults + 1
    /\ UNCHANGED <<current_block, total_size, read_only, popped>>

Next == (\E e \in Element : push(e)) \/ pop \/ pop_cannot_read

Spec == Init /\ [][Next]_vars

----------------------------------------------------------------------------
(* What must hold.                                                          *)

Block == [storage : [Position -> Element \cup {NoElement}],
          head : Position, current_size : 0 .. size_of_queue]

\* Every variable has its type: as push and pop assert, no block in memory or
\* on file holds more than its storage.
TypeOK ==
    /\ mem \in Block /\ file \in Seq(Block)
    /\ current_block \in 0 .. Len(file)
    /\ total_size \in 0 .. MaxSize /\ read_only \in BOOLEAN
    /\ popped \in Element \cup {NoElement}
    /\ faults \in 0 .. MaxFaults

Elements(m) ==
    [k \in 1 .. m.current_size |-> m.storage[(m.head + k - 1) % size_of_queue]]

Blocks ==
    IF read_only THEN <<mem>> \o SubSeq(file, current_block + 1, Len(file))
    ELSE Append(file, mem)

queue == FlattenSeq([k \in DOMAIN Blocks |-> Elements(Blocks[k])])

Fifo == INSTANCE ProtectedFifo WITH write_protected <- read_only

\* Across memory and file the queue is a FIFO that is write protected exactly
\* from the first pop to the last, even when a first pop fails and is repeated.
FifoSpec == Fifo!Spec

============================================================================
