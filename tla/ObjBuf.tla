------------------------------- MODULE ObjBuf ------------------------------
(* The auto response buffers the driver implements for one handle:          *)
(* vCanDispatchEvent marks the buffers a received frame matches and queues  *)
(* work; the worker, objbuf_write_all, puts their messages on the channel's *)
(* transmit queue.  The dispatcher runs in an interrupt or in another       *)
(* thread, at any time; the worker holds the handle's completion while the  *)
(* handle's ioctls hold the channel's, so they do not exclude each other.   *)
(* What a buffer sends and which frames it matches is left out: a frame may *)
(* match any of the buffers that take part.                                 *)
EXTENDS Integers, FiniteSets

CONSTANTS MAX_OBJECT_BUFFERS,
          Capacity,      \* places of the transmit queue
          ClearsDone     \* TRUE: built for ARM or a kernel before 4.3, FALSE:
                         \* atomic_and(done_mask, &objbufActive)

ASSUME SizesAssumption ==
    MAX_OBJECT_BUFFERS \in Nat \ {0} /\ Capacity \in Nat \ {0}
ASSUME BuildAssumption == ClearsDone \in BOOLEAN

Buffer == 0 .. MAX_OBJECT_BUFFERS - 1

VARIABLES
    in_use, active,          \* sets of buffers
    objbufActive,            \* the bits set by the dispatcher
    objbufWork,              \* the work is queued
    pc, i, active_mask, done_mask,  \* the worker
    txChanQueue,             \* messages on the channel's transmit queue
    node,                    \* the handle: open, closing, freed
    isLast,                  \* it is the channel's last when it is closed
    owed                     \* history: matched, and no response queued since

setup == <<in_use, active>>
mask == <<objbufActive, objbufWork>>
worker == <<pc, i, active_mask, done_mask>>
handle == <<node, isLast>>
vars == <<setup, mask, worker, txChanQueue, handle, owed>>

Init ==
    /\ in_use = {} /\ active = {}
    /\ objbufActive = {} /\ objbufWork = FALSE
    /\ pc = "idle" /\ i = 0 /\ active_mask = {} /\ done_mask = {}
    /\ txChanQueue = 0
    /\ node = "open" /\ isLast \in BOOLEAN
    /\ owed = {}

----------------------------------------------------------------------------
(* The ioctls of the handle.                                                *)

rest_of_setup == <<mask, worker, txChanQueue, handle, owed>>

\* The first buffer not in use; whether it is active stays.
objbuf_allocate ==
    /\ node = "open" /\ in_use # Buffer
    /\ in_use' = in_use \cup {CHOOSE b \in Buffer \ in_use :
                                 \A c \in Buffer \ in_use : b <= c}
    /\ UNCHANGED <<active, rest_of_setup>>

objbuf_free(b) ==
    /\ node = "open" /\ b \in Buffer
    /\ in_use' = in_use \ {b}
    /\ UNCHANGED <<active, rest_of_setup>>

objbuf_free_all ==
    /\ node = "open"
    /\ in_use' = {}
    /\ UNCHANGED <<active, rest_of_setup>>

objbuf_enable(b) ==
    /\ node = "open" /\ b \in in_use
    /\ active' = active \cup {b}
    /\ UNCHANGED <<in_use, rest_of_setup>>

objbuf_disable(b) ==
    /\ node = "open" /\ b \in in_use
    /\ active' = active \ {b}
    /\ UNCHANGED <<in_use, rest_of_setup>>

----------------------------------------------------------------------------
(* A frame is received.                                                     *)

objbuf_filter_match == SUBSET (in_use \cap active) \ {{}}

vCanDispatchEvent(objbuf_mask) ==
    /\ node = "open"
    /\ objbufActive' = objbufActive \cup objbuf_mask
    /\ objbufWork' = TRUE
    /\ owed' = owed \cup objbuf_mask
    /\ UNCHANGED <<setup, worker, txChanQueue, handle>>

----------------------------------------------------------------------------
(* objbuf_write_all.                                                        *)

objbuf_write_all ==
    /\ pc = "idle" /\ objbufWork /\ node # "freed"
    /\ objbufWork' = FALSE
    /\ active_mask' = objbufActive
    /\ done_mask' = {} /\ i' = 0
    /\ pc' = IF objbufActive = {} THEN "idle" ELSE "scan"
    /\ UNCHANGED <<setup, objbufActive, txChanQueue, handle, owed>>

Responds(b) == b \in active_mask \cap in_use \cap active

Skip_buffer ==
    /\ pc = "scan" /\ i \in Buffer /\ ~Responds(i)
    /\ i' = i + 1
    /\ UNCHANGED <<setup, mask, pc, active_mask, done_mask, txChanQueue, handle,
                   owed>>

\* The buffer is tested once; it may be freed or disabled before the message is
\* queued.
Test_buffer ==
    /\ pc = "scan" /\ i \in Buffer /\ Responds(i)
    /\ pc' = "respond"
    /\ UNCHANGED <<setup, mask, i, active_mask, done_mask, txChanQueue, handle,
                   owed>>

Room == txChanQueue < Capacity

\* queue_back to queue_push, under the queue's lock.
Respond ==
    /\ pc = "respond"
    /\ Room
    /\ txChanQueue' = txChanQueue + 1
    /\ owed' = owed \ {i}
    /\ done_mask' = done_mask \cup {i}
    /\ i' = i + 1
    /\ pc' = "scan"
    /\ UNCHANGED <<setup, mask, active_mask, handle>>

\* The loop ends, at the last buffer or because the queue is full.
Scan_end ==
    /\ \/ pc = "scan" /\ i \notin Buffer
       \/ pc = "respond" /\ ~Room
    /\ pc' = "clear"
    /\ UNCHANGED <<setup, mask, i, active_mask, done_mask, txChanQueue, handle,
                   owed>>

\* What atomic_and(done_mask) leaves.
Bug_keeps_what_is_done == objbufActive \cap done_mask

Cleared ==
    IF ClearsDone THEN objbufActive \ done_mask ELSE objbufActive \cap done_mask

\* What could not be sent is left for the next frame.
Bug_no_extra_work == objbufWork

Extra_work == objbufWork \/ active_mask # done_mask

Clear ==
    /\ pc = "clear"
    /\ objbufActive' = Cleared
    /\ objbufWork' = Extra_work
    /\ pc' = "idle" /\ i' = 0 /\ active_mask' = {} /\ done_mask' = {}
    /\ UNCHANGED <<setup, txChanQueue, handle, owed>>

\* The hardware sends a message of the channel.
Transmitted ==
    /\ txChanQueue > 0
    /\ txChanQueue' = txChanQueue - 1
    /\ UNCHANGED <<setup, mask, worker, handle, owed>>

----------------------------------------------------------------------------
(* vCanClose: off the channel's list; if this is the last handle            *)
(* destroy_workqueue waits until no work is queued or running; the node is  *)
(* freed.                                                                   *)

vCanClose ==
    /\ node = "open"
    /\ node' = "closing"
    /\ UNCHANGED <<setup, mask, worker, txChanQueue, isLast, owed>>

Drained == ~objbufWork /\ pc = "idle"

\* The work queue is not waited for.
Bug_work_still_runs == TRUE

objbuf_shutdown == ~isLast \/ Drained

Close_free ==
    /\ node = "closing"
    /\ objbuf_shutdown
    /\ node' = "freed"
    /\ UNCHANGED <<setup, mask, worker, txChanQueue, isLast, owed>>

----------------------------------------------------------------------------

Ioctl ==
    \/ objbuf_allocate \/ objbuf_free_all
    \/ \E b \in Buffer : objbuf_free(b) \/ objbuf_enable(b) \/ objbuf_disable(b)

Worker ==
    \/ objbuf_write_all \/ Skip_buffer \/ Test_buffer \/ Respond \/ Scan_end
    \/ Clear

Next ==
    \/ Ioctl
    \/ \E objbuf_mask \in objbuf_filter_match : vCanDispatchEvent(objbuf_mask)
    \/ Worker
    \/ Transmitted
    \/ vCanClose \/ Close_free

Spec == Init /\ [][Next]_vars

----------------------------------------------------------------------------
(* What must hold.                                                          *)

\* Every variable has its type: the transmit queue is never overfilled and the
\* worker does what was marked.
TypeOK ==
    /\ in_use \subseteq Buffer /\ active \subseteq Buffer
    /\ owed \subseteq Buffer
    /\ objbufActive \subseteq Buffer /\ objbufWork \in BOOLEAN
    /\ pc \in {"idle", "scan", "respond", "clear"}
    /\ i \in 0 .. MAX_OBJECT_BUFFERS
    /\ active_mask \subseteq Buffer /\ done_mask \subseteq active_mask
    /\ txChanQueue \in 0 .. Capacity
    /\ node \in {"open", "closing", "freed"} /\ isLast \in BOOLEAN

\* Every response answers a frame that matched and was not answered yet.
ResponsesAreOwed ==
    [][\A b \in Buffer : b \in done_mask' \ done_mask => b \in owed]_vars

\* Whatever the dispatcher marked and the worker could not send is not
\* forgotten: the worker is under way or will be.
MarkedIsQueued ==
    objbufActive # {} => objbufWork \/ pc # "idle"

\* No response is queued or being written when the channel's last handle is
\* freed.
NoWorkAfterClose == node = "freed" /\ isLast => Drained
============================================================================
