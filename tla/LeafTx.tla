------------------------------- MODULE LeafTx ------------------------------
(* Messages of one channel of the leaf driver (leafHWIf.c).  The worker      *)
(* leaf_send moves them from the channel's queue into the card's write URB,  *)
(* counts them and numbers them 1 .. max_outstanding_tx; the receive thread  *)
(* counts them down as the device acknowledges them, echoes the copy kept    *)
(* under the number, starts the worker again when the device was full and    *)
(* wakes canWriteSync when nothing is left.  FLUSH_SENDBUFFER, BUS_ON and    *)
(* BUS_OFF start the counting again while all this goes on.                  *)
(*                                                                           *)
(* The device is outside the repository: it sends and acknowledges in order  *)
(* what it gets while its chip runs, drops on CMD_FLUSH_QUEUE what it has    *)
(* not sent, and may keep or drop that when its chip is stopped or started.  *)
(* It has the capability VCAN_CHANNEL_CAP_SYNC_TX_FLUSH.  Commands that a    *)
(* transfer loses time out; replies that are late and writes that stall are  *)
(* LeafCmd's.  The ioctls take turns; a close, which does not, is            *)
(* VCanChannel's.                                                            *)
(*                                                                           *)
(* The queue is its length.  A message on its way is its number: the copy in *)
(* current_tx_message that its acknowledgement echoes is that of the last    *)
(* message which was taken with this number.                                 *)
EXTENDS Naturals, Sequences, FiniteSets

CONSTANTS Writer,              \* handles that write, with canWrite
          QueueRoom,           \* TX_CHAN_BUF_SIZE - 1
          max_outstanding_tx,
          MaxMessages          \* bound on the messages queued and on their way

ASSUME RoomAssumption == QueueRoom \in Nat \ {0}
\* What the firmware reports, less one.  With 1 canWriteSync would never wake.
ASSUME OutstandingAssumption == max_outstanding_tx \in Nat \ {0, 1}
ASSUME BoundAssumption == MaxMessages \in Nat

VARIABLES
    txChanQueue, outstanding_tx, transId, waitEmpty,
    txWork, sender,      \* leaf_send is queued; where it is
    command,             \* the command queue
    buffer, urb,         \* filled; submitted
    device,              \* what it is going to acknowledge and to answer
    running,             \* its chip
    isBusOn,             \* handles are on bus
    going_on,            \* the flush in progress is that of BUS_ON
    pc,                  \* of the writers
    caller, woken,       \* the blocking ioctl that has the channel's turn
    awaited,             \* history: what canWriteSync has to wait for
    overtaken,           \* history: a message was written during it
    miscounted,          \* history: the counting started again in the middle,
                         \* and not everything was sent since
    failed               \* history: a transfer failed; these two since BUS_ON

channel == <<txChanQueue, outstanding_tx, transId, waitEmpty>>
transfer == <<txWork, sender, command, buffer, urb, device, running>>
bus == <<isBusOn, going_on>>
histories == <<awaited, overtaken, miscounted, failed>>
vars == <<channel, transfer, bus, pc, caller, woken, histories>>

TransIds == 1 .. max_outstanding_tx

\* Commands, and their replies.
Flush == 0                        \* CMD_FLUSH_QUEUE
Start == max_outstanding_tx + 1   \* CMD_START_CHIP_REQ
Stop == max_outstanding_tx + 2    \* CMD_STOP_CHIP_REQ
Commands == {Flush, Start, Stop}

Init ==
    /\ txChanQueue = 0 /\ outstanding_tx = 0 /\ transId = 1
    /\ waitEmpty = FALSE
    /\ txWork = FALSE /\ sender = "idle" /\ command = <<>>
    /\ buffer = <<>> /\ urb = <<>> /\ device = <<>> /\ running = FALSE
    /\ isBusOn = FALSE /\ going_on = FALSE
    /\ pc = [w \in Writer |-> "idle"]
    /\ caller = "idle" /\ woken = FALSE
    /\ awaited = 0 /\ overtaken = FALSE /\ miscounted = FALSE /\ failed = FALSE

\* Taken from the queue and not acknowledged, in the order of taking; Sent are
\* the positions of messages.
InFlight == device \o urb \o buffer \o command
Sent == {k \in DOMAIN InFlight : InFlight[k] \in TransIds}
Queued == IF sender = "pop" THEN txChanQueue - 1 ELSE txChanQueue
Present == Queued + Cardinality(Sent)

----------------------------------------------------------------------------
(* canWrite: SENDMSG and leaf_schedule_send.                                *)

SENDMSG(w) ==
    /\ pc[w] = "idle" /\ isBusOn
    /\ txChanQueue < QueueRoom /\ Present < MaxMessages
    /\ txChanQueue' = txChanQueue + 1
    /\ pc' = [pc EXCEPT ![w] = "schedule"]
    /\ overtaken' = (caller # "idle")
    /\ UNCHANGED <<outstanding_tx, transId, waitEmpty, transfer, bus, caller, woken,
                   awaited, miscounted, failed>>

\* One more than the device takes.
Bug_one_too_many == outstanding_tx <= max_outstanding_tx

leaf_tx_available == outstanding_tx < max_outstanding_tx

leaf_schedule_send(w) ==
    /\ pc[w] = "schedule"
    /\ pc' = [pc EXCEPT ![w] = "idle"]
    /\ txWork' = (txWork \/ leaf_tx_available)
    /\ UNCHANGED <<channel, sender, command, buffer, urb, device, running, bus,
                   caller, woken, histories>>

----------------------------------------------------------------------------
(* leaf_send and leaf_fill_usb_buffer.                                      *)

\* The previous write has ended.
leaf_send ==
    /\ sender = "idle" /\ txWork /\ urb = <<>>
    /\ txWork' = FALSE
    /\ IF command # <<>> \/ txChanQueue > 0
       THEN sender' = "fill" /\ command' = <<>> /\ buffer' = command
       ELSE UNCHANGED <<sender, command, buffer>>
    /\ UNCHANGED <<channel, urb, device, running, bus, pc, caller, woken, histories>>

\* One number less than there is room for.
Bug_wraps_early(n) == IF n + 1 >= max_outstanding_tx THEN 1 ELSE n + 1

Next_id(n) == IF n + 1 > max_outstanding_tx THEN 1 ELSE n + 1

\* leaf_translate_can_msg and the count; the queue's lock is held until the pop.
Take ==
    /\ sender = "fill" /\ txChanQueue > 0 /\ leaf_tx_available
    /\ buffer' = Append(buffer, transId)
    /\ transId' = Next_id(transId)
    /\ outstanding_tx' = outstanding_tx + 1
    /\ sender' = "pop"
    /\ UNCHANGED <<txChanQueue, waitEmpty, txWork, command, urb, device, running,
                   bus, pc, caller, woken, histories>>

Pop ==
    /\ sender = "pop"
    /\ txChanQueue' = txChanQueue - 1
    /\ sender' = "fill"
    /\ UNCHANGED <<outstanding_tx, transId, waitEmpty, txWork, command,
                   buffer, urb, device, running, bus, pc, caller, woken, histories>>

Filled == sender = "fill" /\ (txChanQueue = 0 \/ ~leaf_tx_available)

Nothing_filled ==
    /\ Filled /\ buffer = <<>>
    /\ sender' = "idle"
    /\ UNCHANGED <<channel, txWork, command, buffer, urb, device, running, bus, pc,
                   caller, woken, histories>>

\* usb_submit_urb; the work is queued again in case something is left.
leaf_transmit ==
    /\ Filled /\ buffer # <<>>
    /\ urb' = buffer /\ buffer' = <<>>
    /\ txWork' = TRUE /\ sender' = "idle"
    /\ UNCHANGED <<channel, command, device, running, bus, pc, caller, woken,
                   histories>>

\* What was taken from the queues is lost; its messages stay counted.
Submit_fails ==
    /\ Filled /\ buffer # <<>> /\ ~failed
    /\ failed' = TRUE /\ buffer' = <<>>
    /\ txWork' = TRUE /\ sender' = "idle"
    /\ UNCHANGED <<channel, command, urb, device, running, bus, pc, caller, woken,
                   awaited, overtaken, miscounted>>

----------------------------------------------------------------------------
(* The device and leaf_rx_thread.                                           *)

Past(n) == SubSeq(device, 1, n)
Unsent(n) == SubSeq(device, n + 1, Len(device))

\* The write has ended.  A command comes first, and is answered after what was
\* sent when it came.
Received ==
    /\ urb # <<>>
    /\ urb' = <<>>
    /\ IF Head(urb) \in TransIds
       THEN device' = device \o urb /\ UNCHANGED running
       ELSE \E n \in 0 .. (IF running THEN Len(device) ELSE 0) :
              /\ \/ Head(urb) = Flush /\ device' = Past(n) \o urb
                 \/ Head(urb) # Flush /\ device' = Past(n) \o <<Head(urb)>>
                 \/ /\ Head(urb) # Flush
                    /\ device' = Past(n) \o <<Head(urb)>> \o Unsent(n) \o Tail(urb)
              /\ running' = IF Head(urb) = Flush THEN running ELSE Head(urb) = Start
    /\ UNCHANGED <<channel, txWork, sender, command, buffer, bus, pc, caller, woken,
                   histories>>

\* The worker is started only when more than all were outstanding.
Bug_starts_too_late(left) == left >= max_outstanding_tx

Was_full(left) == left >= max_outstanding_tx - 1

\* The bit is cleared and nobody is woken.
Bug_clears_only == waitEmpty' = FALSE /\ UNCHANGED woken

Wake_waiter ==
    /\ waitEmpty' = FALSE
    /\ woken' = (caller = "check queue" \/ caller = "check count" \/ caller = "asleep")

\* CMD_TX_ACKNOWLEDGE.  Echoed is what current_tx_message has under the number.
Tx_acknowledge ==
    LET left == IF outstanding_tx > 0 THEN outstanding_tx - 1 ELSE 0
    IN  /\ device # <<>> /\ Head(device) \in TransIds
        /\ running \/ Stop \in {device[k] : k \in DOMAIN device}
        /\ device' = Tail(device)
        /\ outstanding_tx' = left
        /\ IF Was_full(left)
           THEN txWork' = TRUE /\ UNCHANGED <<waitEmpty, woken>>
           ELSE /\ UNCHANGED txWork
                /\ IF left = 0 /\ txChanQueue = 0 /\ waitEmpty
                   THEN Wake_waiter
                   ELSE UNCHANGED <<waitEmpty, woken>>
        /\ awaited' = IF awaited > 0 THEN awaited - 1 ELSE 0
        /\ miscounted' = (miscounted /\ (Present > 1 \/ caller # "idle"))
        /\ UNCHANGED <<txChanQueue, transId, sender, command, buffer,
                       urb, running, bus, pc, caller, overtaken, failed>>

----------------------------------------------------------------------------
(* FLUSH_SENDBUFFER: leaf_flush_tx_buffer.  "We _must_ clear the queue       *)
(* before outstanding_tx!"                                                   *)

Goes(from, to) == caller = from /\ caller' = to

\* queue_reinit, not while the worker holds the queue's lock.
Clear_queue(from, to) ==
    /\ Goes(from, to) /\ sender # "pop"
    /\ txChanQueue' = 0
    /\ UNCHANGED <<outstanding_tx, transId, waitEmpty, transfer, bus, pc,
                   woken, histories>>

\* Messages on their way are not counted any more; one in the queue, whose
\* writer has found the device full, is not sent until the next is written.
Clear_count(from, to) ==
    /\ Goes(from, to)
    /\ outstanding_tx' = 0
    /\ miscounted' = (miscounted \/ Present > 0)
    /\ UNCHANGED <<txChanQueue, transId, waitEmpty, transfer, bus, pc, woken,
                   awaited, overtaken, failed>>

Restart_ids(from, to) ==
    /\ Goes(from, to)
    /\ transId' = 1
    /\ miscounted' = (miscounted \/ Sent # {})
    /\ UNCHANGED <<txChanQueue, outstanding_tx, waitEmpty, transfer, bus, pc,
                   woken, awaited, overtaken, failed>>

\* leaf_send_and_wait_reply.
leaf_queue_cmd(cmd, from, to) ==
    /\ Goes(from, to)
    /\ command' = <<cmd>> /\ txWork' = TRUE
    /\ UNCHANGED <<channel, sender, buffer, urb, device, running, bus, pc, woken,
                   histories>>

Replied(cmd) ==
    /\ device # <<>> /\ Head(device) = cmd
    /\ device' = Tail(device)
    /\ UNCHANGED <<channel, txWork, sender, command, buffer, urb, running, pc, woken>>

\* A transfer that failed has lost the command: its time runs out.
Timed_out(cmd) ==
    /\ \A k \in DOMAIN InFlight : InFlight[k] # cmd
    /\ UNCHANGED <<channel, transfer, pc, woken, histories>>

leaf_flush_tx_buffer ==
    \/ Clear_queue("clear", "count") \/ Clear_count("count", "ask")
    \/ leaf_queue_cmd(Flush, "ask", "reply")
    \/ Restart_ids("restart", "clear again")
    \/ Clear_queue("clear again", "count again")
    \/ Clear_count("count again", IF going_on THEN "start" ELSE "idle")

Flush_replied ==
    /\ Replied(Flush) /\ Goes("reply", "restart")
    /\ UNCHANGED <<bus, histories>>

\* BUS_ON goes no further.
Flush_timed_out ==
    /\ Goes("reply", "idle") /\ Timed_out(Flush)
    /\ going_on' = FALSE /\ UNCHANGED isBusOn

FLUSH_SENDBUFFER ==
    /\ Goes("idle", "clear")
    /\ UNCHANGED <<channel, transfer, bus, pc, woken, histories>>

----------------------------------------------------------------------------
(* BUS_ON of the first handle: the flush and leaf_bus_on.                    *)

\* The channel is on bus without a flush.
Bug_flushes_nothing == "start"

First_step == "clear"

BUS_ON ==
    /\ Goes("idle", First_step) /\ ~isBusOn
    /\ going_on' = TRUE
    /\ UNCHANGED <<channel, transfer, isBusOn, pc, woken, histories>>

leaf_bus_on ==
    \/ Restart_ids("start", "start count") \/ Clear_count("start count", "ask start")
    \/ leaf_queue_cmd(Start, "ask start", "starting")

\* From here on nothing is excused that was before.
Started ==
    /\ Replied(Start) /\ Goes("starting", "idle")
    /\ isBusOn' = TRUE /\ going_on' = FALSE
    /\ miscounted' = FALSE /\ failed' = FALSE
    /\ UNCHANGED <<awaited, overtaken>>

Start_timed_out ==
    /\ Goes("starting", "idle") /\ Timed_out(Start)
    /\ going_on' = FALSE /\ UNCHANGED isBusOn

----------------------------------------------------------------------------
(* BUS_OFF of the last handle: leaf_bus_off.                                 *)

BUS_OFF ==
    /\ Goes("idle", "ask stop") /\ isBusOn
    /\ \A w \in Writer : pc[w] = "idle"
    /\ isBusOn' = FALSE
    /\ UNCHANGED <<channel, transfer, going_on, pc, woken, histories>>

leaf_bus_off ==
    \/ leaf_queue_cmd(Stop, "ask stop", "stopping")
    \/ Clear_count("stop count", "stop ids") \/ Restart_ids("stop ids", "stop clear")
    \/ Clear_queue("stop clear", "idle")

Stopped ==
    /\ Replied(Stop) /\ Goes("stopping", "stop count")
    /\ UNCHANGED <<bus, histories>>

\* The chip runs on, and the handle is off bus all the same.
Stop_timed_out ==
    /\ Goes("stopping", "stop clear") /\ Timed_out(Stop)
    /\ UNCHANGED bus

----------------------------------------------------------------------------
(* canWriteSync: wait_tx_queue_empty.                                       *)

WAIT_EMPTY ==
    /\ Goes("idle", "check queue")
    /\ waitEmpty' = TRUE
    /\ awaited' = Present /\ overtaken' = FALSE /\ woken' = FALSE
    /\ UNCHANGED <<txChanQueue, outstanding_tx, transId, transfer, bus, pc,
                   miscounted, failed>>

\* leaf_tx_available in the place of leaf_outstanding_sync.
Bug_waits_for_room(n) == n < max_outstanding_tx

leaf_outstanding_sync(n) == n = 0

Check_queue ==
    /\ Goes("check queue", IF txChanQueue = 0 THEN "check count" ELSE "asleep")
    /\ UNCHANGED <<channel, transfer, bus, pc, woken, histories>>

Check_count ==
    /\ Goes("check count",
            IF leaf_outstanding_sync(outstanding_tx) THEN "synced" ELSE "asleep")
    /\ UNCHANGED <<channel, transfer, bus, pc, woken, histories>>

Wake ==
    /\ Goes("asleep", "check queue") /\ woken
    /\ woken' = FALSE
    /\ UNCHANGED <<channel, transfer, bus, pc, histories>>

Wait_ends(from) ==
    /\ Goes(from, "idle")
    /\ waitEmpty' = FALSE /\ woken' = FALSE /\ awaited' = 0 /\ overtaken' = FALSE
    /\ UNCHANGED <<txChanQueue, outstanding_tx, transId, transfer, bus, pc,
                   miscounted, failed>>

wait_tx_queue_empty == Check_queue \/ Check_count \/ Wake \/ Wait_ends("synced")

Time_out == Wait_ends("asleep")

----------------------------------------------------------------------------

Worker == leaf_send \/ Take \/ Pop \/ Nothing_filled \/ leaf_transmit
Receiver == Tx_acknowledge \/ Flush_replied \/ Started \/ Stopped
Caller ==
    \/ leaf_flush_tx_buffer \/ Flush_timed_out
    \/ leaf_bus_on \/ Start_timed_out
    \/ leaf_bus_off \/ Stop_timed_out
    \/ wait_tx_queue_empty

Next ==
    \/ \E w \in Writer : SENDMSG(w) \/ leaf_schedule_send(w)
    \/ Worker \/ Submit_fails
    \/ Received \/ Receiver
    \/ Caller \/ FLUSH_SENDBUFFER \/ BUS_ON \/ BUS_OFF \/ WAIT_EMPTY \/ Time_out

Spec == Init /\ [][Next]_vars

\* The worker, the receive thread and threads that are in a call are scheduled;
\* the bus acknowledges.  Nobody has to call, and a timeout may be infinite.
FairSpec ==
    /\ Spec
    /\ WF_vars(Worker) /\ WF_vars(Received)
    /\ WF_vars(Receiver) /\ WF_vars(Caller)
    /\ \A w \in Writer : WF_vars(leaf_schedule_send(w))

----------------------------------------------------------------------------
(* What must hold.                                                          *)

Items == TransIds \cup Commands

\* Every variable has its type.
TypeOK ==
    /\ txChanQueue \in 0 .. QueueRoom
    /\ outstanding_tx \in 0 .. max_outstanding_tx /\ transId \in TransIds
    /\ waitEmpty \in BOOLEAN /\ txWork \in BOOLEAN /\ command \in Seq(Commands)
    /\ running \in BOOLEAN /\ isBusOn \in BOOLEAN /\ going_on \in BOOLEAN
    /\ sender \in {"idle", "fill", "pop"}
    /\ buffer \in Seq(Items) /\ urb \in Seq(Items) /\ device \in Seq(Items)
    /\ pc \in [Writer -> {"idle", "schedule"}]
    /\ caller \in {"idle", "clear", "count", "ask", "reply", "restart", "clear again",
                   "count again", "start", "start count", "ask start", "starting",
                   "ask stop", "stopping", "stop count", "stop ids", "stop clear",
                   "check queue", "check count", "asleep", "synced"}
    /\ woken \in BOOLEAN /\ awaited \in 0 .. MaxMessages
    /\ overtaken \in BOOLEAN /\ miscounted \in BOOLEAN /\ failed \in BOOLEAN

\* An acknowledgement echoes the message it is for: the number of a message that
\* is on its way, and with it the copy, is not given to another, round after
\* round, unless a flush or BUS_OFF met messages on their way since BUS_ON, which
\* starts with none whatever went before.
EchoIsOwn ==
    ~miscounted => \A j, k \in Sent : InFlight[j] = InFlight[k] => j = k

\* When canWriteSync returns, what was written before it was called has been
\* acknowledged, unless a flush or BUS_OFF met messages on their way.
SyncMeansSent == caller = "synced" /\ ~miscounted => awaited = 0

\* No message stays at the head of the queue, however full the device was,
\* unless a flush started the counting again when its writer had given up.  A
\* transfer that failed and such a flush are forgiven by the next BUS_ON.
MessagesGoOut ==
    txChanQueue > 0 ~> sender = "pop" \/ txChanQueue = 0 \/ failed \/ miscounted

AllSent == txChanQueue = 0 /\ outstanding_tx = 0

\* canWriteSync returns, if nobody writes meanwhile and no transfer failed.
WriteSyncReturns ==
    caller = "asleep" /\ AllSent ~> caller # "asleep" \/ ~AllSent \/ overtaken \/ failed

\* "Waits until all CAN messages for the specified handle are sent, or the
\* timeout period expires."
WriteSyncAlwaysReturns ==
    caller = "asleep" /\ AllSent ~> caller # "asleep" \/ ~AllSent \/ failed

Starts_over ==
    caller \in {"clear", "count", "ask", "reply", "restart", "clear again", "count again",
                "ask stop", "stopping", "stop count", "stop ids", "stop clear"}

\* While a message is queued somebody is on the way to take it, or the device is
\* full; and then a message of which the acknowledgement starts the worker is on
\* its way, unless a transfer failed or the counting is about to start again.
QueueIsServed ==
    txChanQueue > 0 /\ ~miscounted =>
        \/ txWork \/ sender # "idle" \/ \E w \in Writer : pc[w] = "schedule"
        \/ outstanding_tx = max_outstanding_tx /\ (Sent # {} \/ failed \/ Starts_over)

\* While canWriteSync sleeps it was woken or will be: the bit is set, and a
\* message is queued or on its way, the last of which wakes it.
SleeperIsServed ==
    caller = "asleep" /\ ~overtaken /\ ~failed => woken \/ (waitEmpty /\ Present > 0)

\* Neither a message nor a caller is forgotten: from whatever a step of one thread
\* leaves undone another is due to go on.
NobodyIsForgotten == QueueIsServed /\ SleeperIsServed
============================================================================
