----------------------------- MODULE VirtualCan ----------------------------
(* The virtual card (virtualcan.c): its channels form a bus on which a      *)
(* message is delivered by calling vCanDispatchEvent for the other channels *)
(* that are on bus, and stays in the transmit queue when none of them       *)
(* acknowledges it.  Nothing polls the queues: a channel tries again when   *)
(* it sends its next message, or when another channel tells it to.          *)
(*                                                                          *)
(* A queue is its length; TxQueue shows that the ring is a FIFO.  The       *)
(* queue's lock is held from queue_front to queue_pop or queue_release, so  *)
(* the attempt to transmit one message is one step.  Every handle belongs   *)
(* to one thread, as canlib asks of its callers.                            *)
EXTENDS Naturals

CONSTANTS Handle, NoHandle,
          Channel,
          chan,            \* the channel a handle is open on
          Capacity,        \* TX_CHAN_BUF_SIZE - 1
          MaxOutstanding,  \* VIRTUAL_MAX_OUTSTANDING
          Ioctls           \* which other ioctls the handles issue

ASSUME ChanAssumption == chan \in [Handle -> Channel] /\ NoHandle \notin Handle
ASSUME CapacityAssumption == Capacity \in Nat \ {0}
ASSUME OutstandingAssumption == MaxOutstanding \in Nat \ {0}

VARIABLES
    txChanQueue, isOnBus, silentmode, outstanding_tx,
    waitEmpty,           \* wake flushQ when the queue is empty
    ioctl_completion,    \* the handle whose blocking ioctl has its turn
    excused,             \* history: since the channel went on bus its queue
                         \* was flushed, or a channel in silent mode told it
                         \* to send or left that mode
    isBusOn, pc, woken,
    sending,             \* the channel virtualSend works for
    todo                 \* the channels still to be told to send

channel == <<txChanQueue, isOnBus, silentmode, outstanding_tx, waitEmpty,
             excused>>
handle == <<isBusOn, pc, woken, sending, todo>>
vars == <<channel, ioctl_completion, handle>>

Init ==
    /\ txChanQueue = [c \in Channel |-> 0]
    /\ isOnBus = [c \in Channel |-> FALSE]
    /\ silentmode = [c \in Channel |-> FALSE]
    /\ outstanding_tx = [c \in Channel |-> 0]
    /\ waitEmpty = [c \in Channel |-> FALSE]
    /\ excused = {}
    /\ ioctl_completion = [c \in Channel |-> NoHandle]
    /\ isBusOn = [h \in Handle |-> FALSE]
    /\ pc = [h \in Handle |-> "idle"]
    /\ woken = [h \in Handle |-> FALSE]
    /\ sending = chan
    /\ todo = [h \in Handle |-> {}]

Goto(h, step) == pc' = [pc EXCEPT ![h] = step]

\* A blocking ioctl begins when it has the channel's turn.
Begin(h) == pc[h] = "idle" /\ ioctl_completion[chan[h]] = NoHandle

Take_turn(h) == ioctl_completion' = [ioctl_completion EXCEPT ![chan[h]] = h]
Pass_turn(h) == ioctl_completion' = [ioctl_completion EXCEPT ![chan[h]] = NoHandle]
HasTurn(h) == ioctl_completion[chan[h]] = h

\* Who acknowledges what channel c sends.
Listeners(c) == {d \in Channel \ {c} : isOnBus[d] /\ ~silentmode[d]}

virtualTxAvailable(c) == outstanding_tx[c] < MaxOutstanding

----------------------------------------------------------------------------
(* SENDMSG and virtualSend.                                                 *)

Room(c) == txChanQueue[c] < Capacity

\* The message is queued; a full queue refuses it.
SENDMSG(h) ==
    LET c == chan[h]
    IN  /\ pc[h] = "idle" /\ isBusOn[h]
        /\ Room(c)
        /\ txChanQueue' = [txChanQueue EXCEPT ![c] = @ + 1]
        /\ Goto(h, "request")
        /\ UNCHANGED <<isOnBus, silentmode, outstanding_tx, waitEmpty, excused,
                       ioctl_completion, isBusOn, woken, sending, todo>>

virtualRequestSend(h) ==
    /\ pc[h] = "request"
    /\ IF isOnBus[chan[h]] /\ virtualTxAvailable(chan[h])
       THEN Goto(h, "look") /\ sending' = [sending EXCEPT ![h] = chan[h]]
       ELSE Goto(h, "idle") /\ UNCHANGED sending
    /\ UNCHANGED <<channel, ioctl_completion, isBusOn, woken, todo>>

\* virtualSend returns to the loop over the channels or to the application.
Leave(h) == Goto(h, IF HasTurn(h) THEN "kick" ELSE "idle")

\* Without the lock: is there anything to send?
Look(h) ==
    /\ pc[h] = "look"
    /\ Goto(h, IF txChanQueue[sending[h]] = 0 THEN "empty" ELSE "front")
    /\ UNCHANGED <<channel, ioctl_completion, isBusOn, woken, sending, todo>>

\* queue_front finds nothing after all.
Front_empty(h) ==
    /\ pc[h] = "front" /\ txChanQueue[sending[h]] = 0
    /\ Goto(h, "look")
    /\ UNCHANGED <<channel, ioctl_completion, isBusOn, woken, sending, todo>>

Sent(c) ==
    outstanding_tx' = [outstanding_tx EXCEPT ![c] = IF @ = 0 THEN 0 ELSE @ - 1]

\* virtualTransmitMessage, somebody listens.
Transmit(h) ==
    LET c == sending[h]
    IN  /\ pc[h] = "front" /\ txChanQueue[c] > 0
        /\ Listeners(c) # {}
        /\ Sent(c)
        /\ txChanQueue' = [txChanQueue EXCEPT ![c] = @ - 1]
        /\ Goto(h, "look")
        /\ UNCHANGED <<isOnBus, silentmode, waitEmpty, excused, ioctl_completion, isBusOn,
                       woken, sending, todo>>

\* virtualTransmitMessage, nobody does.  The echoes are dispatched all the same.
Transmit_fails(h) ==
    LET c == sending[h]
    IN  /\ pc[h] = "front" /\ txChanQueue[c] > 0
        /\ Listeners(c) = {}
        /\ outstanding_tx' = [outstanding_tx EXCEPT ![c] = @ + 1]
        /\ Leave(h)
        /\ UNCHANGED <<txChanQueue, isOnBus, silentmode, waitEmpty, excused,
                       ioctl_completion, isBusOn, woken, sending, todo>>

\* Only space_event is signalled.
Bug_wakes_writers_only(c) == UNCHANGED <<waitEmpty, woken>>

\* test_and_clear_bit(0, &chd->waitEmpty) and flushQ, or else space_event.
Wake_waiter(c) ==
    /\ waitEmpty' = [waitEmpty EXCEPT ![c] = FALSE]
    /\ woken' = [w \in Handle |->
           \/ woken[w]
           \/ waitEmpty[c] /\ chan[w] = c /\ pc[w] \in {"prepared", "asleep"}]

Empty(h) ==
    /\ pc[h] = "empty"
    /\ Wake_waiter(sending[h])
    /\ Leave(h)
    /\ UNCHANGED <<txChanQueue, isOnBus, silentmode, outstanding_tx, excused,
                   ioctl_completion, isBusOn, sending, todo>>

----------------------------------------------------------------------------
(* BUS_ON and BUS_OFF: the first handle of a channel takes it on bus, the   *)
(* last takes it off.  VCanChannel has the counting.                        *)

\* The channel sends what it has queued itself.
Bug_sends_its_own_queue(h) == todo' = [todo EXCEPT ![h] = {chan[h]}]

\* Every other channel on bus is told to send.  Each failure is counted, without
\* limit; the model's bound is that nobody is told while a count is past the
\* next after what virtualTxAvailable looks at.
OutstandingBound == \A c \in Channel : outstanding_tx[c] <= MaxOutstanding + 1

Tell_others(h) == OutstandingBound /\ todo' = [todo EXCEPT ![h] = Channel \ {chan[h]}]

virtualBusOn(h) ==
    LET c == chan[h]
    IN  /\ Begin(h) /\ ~isOnBus[c]
        /\ isBusOn' = [isBusOn EXCEPT ![h] = TRUE]
        /\ txChanQueue' = [txChanQueue EXCEPT ![c] = 0]
        /\ excused' = IF silentmode[c] THEN Channel \ {c} ELSE excused \ {c}
        /\ isOnBus' = [isOnBus EXCEPT ![c] = TRUE]
        /\ outstanding_tx' = [outstanding_tx EXCEPT ![c] = 0]
        /\ Tell_others(h) /\ Goto(h, "kick") /\ Take_turn(h)
        /\ UNCHANGED <<silentmode, waitEmpty, woken, sending>>

BUS_ON(h) ==
    /\ Begin(h) /\ isOnBus[chan[h]] /\ ~isBusOn[h]
    /\ isBusOn' = [isBusOn EXCEPT ![h] = TRUE]
    /\ UNCHANGED <<channel, ioctl_completion, pc, woken, sending, todo>>

\* The next channel is looked at, and sends if it is on bus.
Kick(h) ==
    /\ pc[h] = "kick"
    /\ \E d \in todo[h] :
          /\ todo' = [todo EXCEPT ![h] = @ \ {d}]
          /\ IF isOnBus[d] THEN Goto(h, "look") /\ sending' = [sending EXCEPT ![h] = d]
             ELSE UNCHANGED <<pc, sending>>
    /\ UNCHANGED <<channel, ioctl_completion, isBusOn, woken>>

Kick_end(h) ==
    /\ pc[h] = "kick" /\ todo[h] = {}
    /\ Goto(h, "idle") /\ Pass_turn(h)
    /\ UNCHANGED <<channel, isBusOn, woken, sending, todo>>

virtualBusOff(h) ==
    /\ Begin(h) /\ isBusOn[h]
    /\ isBusOn' = [isBusOn EXCEPT ![h] = FALSE]
    /\ isOnBus' = [isOnBus EXCEPT ![chan[h]] =
                       \E g \in Handle \ {h} : chan[g] = chan[h] /\ isBusOn[g]]
    /\ UNCHANGED <<txChanQueue, silentmode, outstanding_tx, waitEmpty, excused,
                   ioctl_completion, pc, woken, sending, todo>>

----------------------------------------------------------------------------
(* The other ioctls.                                                        *)

\* Others are told to send when a silent channel is made silent.
virtualSetOutputMode(h, silent) ==
    /\ Begin(h) /\ "SET_OUTPUT_MODE" \in Ioctls
    /\ silentmode' = [silentmode EXCEPT ![chan[h]] = silent]
    /\ IF silentmode[chan[h]] /\ silent
       THEN Tell_others(h) /\ Goto(h, "kick") /\ Take_turn(h)
       ELSE UNCHANGED <<todo, pc, ioctl_completion>>
    /\ excused' = IF silentmode[chan[h]]
                  THEN excused \cup (Channel \ {chan[h]}) ELSE excused
    /\ UNCHANGED <<txChanQueue, isOnBus, outstanding_tx, waitEmpty, isBusOn,
                   woken, sending>>

\* FLUSH_SENDBUFFER: queue_reinit.
vCanFlushSendBuffer(h) ==
    /\ Begin(h) /\ "FLUSH_SENDBUFFER" \in Ioctls
    /\ txChanQueue' = [txChanQueue EXCEPT ![chan[h]] = 0]
    /\ excused' = excused \cup {chan[h]}
    /\ UNCHANGED <<isOnBus, silentmode, outstanding_tx, waitEmpty,
                   ioctl_completion, handle>>

\* WAIT_EMPTY: wait_tx_queue_empty.
wait_tx_queue_empty(h) ==
    /\ Begin(h) /\ "WAIT_EMPTY" \in Ioctls
    /\ waitEmpty' = [waitEmpty EXCEPT ![chan[h]] = TRUE]
    /\ Goto(h, "prepared") /\ Take_turn(h)
    /\ UNCHANGED <<txChanQueue, isOnBus, silentmode, outstanding_tx, excused,
                   isBusOn, woken, sending, todo>>

IsEmpty(c) == txChanQueue[c] = 0 /\ virtualTxAvailable(c)

End_wait(h) ==
    /\ waitEmpty' = [waitEmpty EXCEPT ![chan[h]] = FALSE]
    /\ woken' = [woken EXCEPT ![h] = FALSE]
    /\ Goto(h, "idle") /\ Pass_turn(h)
    /\ UNCHANGED <<txChanQueue, isOnBus, silentmode, outstanding_tx, excused,
                   isBusOn, sending, todo>>

Wait_over(h) == pc[h] = "prepared" /\ IsEmpty(chan[h]) /\ End_wait(h)

Sleep(h) ==
    /\ pc[h] = "prepared" /\ ~IsEmpty(chan[h])
    /\ Goto(h, "asleep")
    /\ UNCHANGED <<channel, ioctl_completion, isBusOn, woken, sending, todo>>

Wake(h) ==
    /\ pc[h] = "asleep" /\ woken[h]
    /\ Goto(h, "prepared")
    /\ woken' = [woken EXCEPT ![h] = FALSE]
    /\ UNCHANGED <<channel, ioctl_completion, isBusOn, sending, todo>>

Time_out(h) == pc[h] = "asleep" /\ End_wait(h)

----------------------------------------------------------------------------

\* A call in progress goes on; only the end of a timeout is not waited for.
Continue(h) ==
    \/ virtualRequestSend(h) \/ Look(h) \/ Front_empty(h) \/ Transmit(h)
    \/ Transmit_fails(h) \/ Empty(h) \/ Kick(h) \/ Kick_end(h)
    \/ Wait_over(h) \/ Sleep(h) \/ Wake(h)

Call(h) ==
    \/ SENDMSG(h)
    \/ virtualBusOn(h) \/ BUS_ON(h) \/ virtualBusOff(h)
    \/ \E silent \in BOOLEAN : virtualSetOutputMode(h, silent)
    \/ vCanFlushSendBuffer(h) \/ wait_tx_queue_empty(h)

Next == \E h \in Handle : Call(h) \/ Continue(h) \/ Time_out(h)

Spec == Init /\ [][Next]_vars

----------------------------------------------------------------------------
(* What must hold.                                                          *)

\* Every variable has its type; no queue holds more than its capacity.
TypeOK ==
    /\ txChanQueue \in [Channel -> 0 .. Capacity]
    /\ isOnBus \in [Channel -> BOOLEAN] /\ silentmode \in [Channel -> BOOLEAN]
    /\ outstanding_tx \in [Channel -> Nat]
    /\ waitEmpty \in [Channel -> BOOLEAN] /\ excused \subseteq Channel
    /\ ioctl_completion \in [Channel -> Handle \cup {NoHandle}]
    /\ isBusOn \in [Handle -> BOOLEAN] /\ woken \in [Handle -> BOOLEAN]
    /\ pc \in [Handle -> {"idle", "request", "look", "front", "empty", "kick",
                          "prepared", "asleep"}]
    /\ sending \in [Handle -> Channel]
    /\ todo \in [Handle -> SUBSET Channel]

Quiet == \A h \in Handle : pc[h] \in {"idle", "prepared", "asleep"}

\* A message waits on a channel that has somebody to acknowledge it, and
\* nothing will send it until the next call.
Stuck(c) == isOnBus[c] /\ txChanQueue[c] > 0 /\ Listeners(c) # {}

\* When every call has returned no message is stuck: the call that makes it
\* possible to send sends.  What is excused: a channel that leaves silent mode
\* tells nobody; one in silent mode that tells the others lets them count
\* failures that no message stands for, and so does a flush.
NoStuckMessage == Quiet => \A c \in Channel \ excused : ~Stuck(c)

\* canWriteSync does not sleep on when every call has returned and the queue is
\* empty, as long as the channel still says that somebody waits: the call that
\* emptied the queue woke the waiter.
SleeperIsWoken ==
    Quiet => \A h \in Handle :
        pc[h] = "asleep" /\ ~woken[h] /\ waitEmpty[chan[h]]
            => ~IsEmpty(chan[h])
============================================================================
