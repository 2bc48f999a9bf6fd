------------------------------- MODULE LeafCmd -----------------------------
(* Commands of the leaf driver (leafHWIf.c): a thread puts a WaitNode, which *)
(* is on its own stack, on the card's list of expected responses, queues     *)
(* its command and waits; a worker fills the card's only write URB from the  *)
(* queue; the receive thread completes every node that a response matches;   *)
(* and leaf_remove takes the card away under all of them.                    *)
(*                                                                           *)
(* The device is outside the repository: it answers what it receives in      *)
(* order, or does not answer.  Messages, which share the URB, are LeafTx's.  *)
(* Blocking ioctls of a channel take turns (VCanChannel), so a channel has   *)
(* one thread here.                                                          *)
EXTENDS Naturals, Sequences

CONSTANTS Thread, NoThread,
          chan,         \* the channel of a thread's file
          Command,      \* what is asked and answered
          Unchecked,    \* the commands matched with check_trans_id = 0
          QueueRoom,    \* KV_LEAF_TX_CMD_BUF_SIZE - 1
          MaxInFlight,  \* bound on the requests on their way
          MaxStalls     \* bound on the writes that take longer than
                        \* LEAF_CMD_RESP_WAIT_TIME

ASSUME ThreadAssumption ==
    NoThread \notin Thread /\ \A t, u \in Thread : chan[t] = chan[u] => t = u
ASSUME UncheckedAssumption == Unchecked \subseteq Command
ASSUME RoomAssumption == QueueRoom \in Nat \ {0}
ASSUME StallAssumption == MaxStalls \in Nat

VARIABLES
    cardPresent, open,    \* open: whose files are open
    pc,
    node,                 \* a thread's WaitNode while its frame exists
    replyWaitList,        \* the threads whose nodes are on the list
    txCmdQueue,
    txWork, sender,       \* leaf_send is queued; where it is
    buffer, urb,          \* filled; submitted
    write_finished,
    device,               \* requests at the device, responses on their way
    receiver, remover,
    stalls,
    lost                  \* history: whose present request came to nothing

host == <<cardPresent, open, remover>>
threads == <<pc, node, replyWaitList>>
write == <<sender, buffer, urb, write_finished, stalls>>
vars == <<host, threads, txCmdQueue, txWork, write, device, receiver, lost>>

NoNode == [cmdNr |-> "none"]
NoReply == [cmd |-> "none"]
NoUrb == <<>>

Init ==
    /\ cardPresent = TRUE /\ open = Thread
    /\ pc = [t \in Thread |-> "idle"]
    /\ node = [t \in Thread |-> NoNode]
    /\ replyWaitList = {}
    /\ txCmdQueue = <<>> /\ txWork = FALSE
    /\ sender = "idle" /\ buffer = <<>> /\ urb = NoUrb
    /\ write_finished = 1
    /\ device = <<>>
    /\ receiver = "reading" /\ remover = "present"
    /\ stalls = 0 /\ lost = {}

Goto(t, step) == pc' = [pc EXCEPT ![t] = step]

\* A request remembers who made it; its answer carries the channel as transId.
Request(t) == [cmd |-> node[t].cmdNr, chan |-> chan[t], by |-> t]

Makers(requests) == {requests[k].by : k \in DOMAIN requests} \ {NoThread}

\* When the thread has returned nobody waits for what it asked.
Forget(t, requests) ==
    [k \in DOMAIN requests |->
        IF requests[k].by = t THEN [requests[k] EXCEPT !.by = NoThread]
        ELSE requests[k]]

----------------------------------------------------------------------------
(* leaf_send_and_wait_reply and leaf_queue_cmd.                             *)

InFlight == Len(txCmdQueue) + Len(buffer) + Len(urb) + Len(device)

\* The device is there; the frame with its node exists from here on.
Call(t, cmd) ==
    /\ pc[t] = "idle" /\ t \in open
    /\ cardPresent
    /\ InFlight < MaxInFlight
    /\ node' = [node EXCEPT ![t] =
           [cmdNr |-> cmd, completed |-> FALSE, reply |-> NoReply]]
    /\ Goto(t, "add")
    /\ UNCHANGED <<host, replyWaitList, txCmdQueue, txWork, write, device, receiver, lost>>

List_add(t) ==
    /\ pc[t] = "add"
    /\ replyWaitList' = replyWaitList \cup {t}
    /\ Goto(t, "queue")
    /\ UNCHANGED <<host, node, txCmdQueue, txWork, write, device, receiver, lost>>

Room(queue) == Len(queue) < QueueRoom

\* The worker is not told.
Bug_queue_work_forgotten == UNCHANGED txWork

Queue_work == txWork' = TRUE

leaf_queue_cmd(t) ==
    /\ pc[t] = "queue" /\ Room(txCmdQueue)
    /\ txCmdQueue' = Append(txCmdQueue, Request(t))
    /\ Queue_work
    /\ Goto(t, "wait")
    /\ UNCHANGED <<host, node, replyWaitList, write, device, receiver, lost>>

\* The frame is gone, with its node.
Return(t) ==
    /\ node' = [node EXCEPT ![t] = NoNode]
    /\ Goto(t, "idle")
    /\ txCmdQueue' = Forget(t, txCmdQueue)
    /\ buffer' = Forget(t, buffer) /\ urb' = Forget(t, urb)
    /\ device' = Forget(t, device)
    /\ lost' = lost \ {t}
    /\ UNCHANGED <<host, txWork, sender, write_finished, stalls, receiver>>

\* The early return leaves the node on the list.
Bug_node_stays(t) == UNCHANGED replyWaitList

List_del(t) == replyWaitList' = replyWaitList \ {t}

\* No place became free in time, or a signal came: an error is returned.
Queue_full(t) ==
    /\ pc[t] = "queue" /\ ~Room(txCmdQueue)
    /\ List_del(t) /\ Return(t)

\* Completed: VCAN_STAT_OK will be returned.
Completed(t) ==
    /\ pc[t] = "wait" /\ node[t].completed
    /\ Goto(t, "woken")
    /\ UNCHANGED <<host, node, replyWaitList, txCmdQueue, txWork, write, device, receiver, lost>>

Leave(t) == pc[t] = "woken" /\ List_del(t) /\ Return(t)

\* Not in LEAF_CMD_RESP_WAIT_TIME: VCAN_STAT_TIMEOUT is returned, whatever
\* comes before the node is taken off the list.
Time_out(t) ==
    /\ pc[t] = "wait" /\ ~node[t].completed
    /\ List_del(t) /\ Return(t)

\* vCanClose, when the thread is not inside.  A file that is closed while the
\* card is there is as one that was never opened: only the others are modelled.
Close(t) ==
    /\ pc[t] = "idle" /\ t \in open
    /\ ~cardPresent
    /\ open' = open \ {t}
    /\ UNCHANGED <<cardPresent, remover, threads, txCmdQueue, txWork, write,
                   device, receiver, lost>>

----------------------------------------------------------------------------
(* leaf_send, the worker, and leaf_transmit.                                *)

Send_to(step) == sender' = step

Complete_write == write_finished' = write_finished + 1

leaf_send ==
    /\ txWork /\ sender = "idle"
    /\ txWork' = FALSE
    /\ Send_to(IF cardPresent THEN "wait" ELSE "idle")
    /\ UNCHANGED <<host, threads, txCmdQueue, buffer, urb, write_finished, stalls,
                   device, receiver, lost>>

\* An unplugged card is left without giving the write back.
Bug_keeps_the_write == write_finished' = write_finished - 1

Give_back == UNCHANGED write_finished

\* The write is ours; a card that is gone gets it back.
Previous_write_finished ==
    /\ sender = "wait" /\ write_finished > 0
    /\ IF cardPresent
       THEN Send_to("look") /\ write_finished' = write_finished - 1
       ELSE Send_to("idle") /\ Give_back
    /\ UNCHANGED <<host, threads, txCmdQueue, txWork, buffer, urb, stalls, device,
                   receiver, lost>>

\* It did not finish in time, and the card is gone: leaf_remove may have it.
Abandon_send ==
    /\ sender = "wait" /\ write_finished = 0 /\ ~cardPresent
    /\ Complete_write /\ Send_to("idle")
    /\ UNCHANGED <<host, threads, txCmdQueue, txWork, buffer, urb, stalls, device,
                   receiver, lost>>

\* It did not finish in time, and the worker goes on without it.
Write_stalls ==
    /\ sender = "wait" /\ write_finished = 0 /\ cardPresent
    /\ stalls < MaxStalls
    /\ stalls' = stalls + 1
    /\ Complete_write /\ Send_to("look")
    /\ UNCHANGED <<host, threads, txCmdQueue, txWork, buffer, urb, device, receiver, lost>>

Nothing_to_send ==
    /\ sender = "look" /\ txCmdQueue = <<>>
    /\ Complete_write /\ Send_to("idle")
    /\ UNCHANGED <<host, threads, txCmdQueue, txWork, buffer, urb, stalls, device,
                   receiver, lost>>

\* The buffer has room for a full queue.  A write that is still going on after
\* a stall has its data changed under it.
leaf_fill_usb_buffer ==
    /\ sender = "look" /\ txCmdQueue # <<>>
    /\ txCmdQueue' = <<>>
    /\ urb' \in IF urb = NoUrb THEN {NoUrb} ELSE {urb, txCmdQueue}

Overwritten == Makers(urb) \ Makers(urb')

Fill ==
    /\ leaf_fill_usb_buffer /\ cardPresent
    /\ buffer' = txCmdQueue
    /\ Send_to("submit")
    /\ lost' = lost \cup Overwritten
    /\ UNCHANGED <<host, threads, txWork, write_finished, stalls, device, receiver>>

\* A transmission that failed keeps the write.
Bug_failed_write_is_kept == UNCHANGED write_finished

Transmission_failed == Complete_write

\* What was taken from the queue is not sent after all.
Card_is_gone ==
    /\ leaf_fill_usb_buffer /\ ~cardPresent
    /\ lost' = lost \cup Makers(txCmdQueue) \cup Overwritten
    /\ Transmission_failed /\ Queue_work /\ Send_to("idle")
    /\ UNCHANGED <<host, threads, buffer, stalls, device, receiver>>

\* usb_submit_urb; the work is queued again in case something is left.
Submit ==
    /\ sender = "submit" /\ urb = NoUrb
    /\ urb' = buffer /\ buffer' = <<>>
    /\ Queue_work
    /\ Send_to("idle")
    /\ UNCHANGED <<host, threads, txCmdQueue, write_finished, stalls, device, receiver, lost>>

\* Any error; always one when the URB is still in flight.
Submit_fails ==
    /\ sender = "submit"
    /\ lost' = lost \cup Makers(buffer) /\ buffer' = <<>>
    /\ Transmission_failed /\ Queue_work /\ Send_to("idle")
    /\ UNCHANGED <<host, threads, txCmdQueue, urb, stalls, device, receiver>>

leaf_write_bulk_callback == Complete_write

Write_ends(ok) ==
    /\ urb # NoUrb
    /\ leaf_write_bulk_callback
    /\ urb' = NoUrb
    /\ device' = IF ok THEN device \o urb ELSE device
    /\ lost' = IF ok THEN lost ELSE lost \cup Makers(urb)
    /\ UNCHANGED <<host, threads, txCmdQueue, txWork, sender, buffer, stalls, receiver>>

----------------------------------------------------------------------------
(* The device and leaf_rx_thread.                                           *)

Device_is_silent ==
    /\ device # <<>>
    /\ lost' = lost \cup Makers(<<Head(device)>>)
    /\ device' = Tail(device)
    /\ UNCHANGED <<host, threads, txCmdQueue, txWork, write, receiver>>

\* Only the command number is compared.
Bug_any_channel(t, answer) == node[t].cmdNr = answer.cmd

Matches(t, answer) ==
    /\ node[t].cmdNr = answer.cmd
    /\ chan[t] = answer.chan \/ answer.cmd \in Unchecked

\* All nodes that the response matches get it and are completed.
leaf_handle_command(answer) ==
    node' = [t \in Thread |->
        IF t \in replyWaitList /\ node[t] # NoNode /\ Matches(t, answer)
        THEN [node[t] EXCEPT !.completed = TRUE, !.reply = answer]
        ELSE node[t]]

\* The loop's test of cardPresent comes after each read.
Rx_read ==
    /\ receiver = "reading" /\ device # <<>>
    /\ leaf_handle_command(Head(device))
    /\ device' = Tail(device)
    /\ receiver' = IF cardPresent THEN "reading" ELSE "ended"
    /\ UNCHANGED <<host, pc, replyWaitList, txCmdQueue, txWork, write, lost>>

\* "Device probably removed, closing down", or too many errors; or a time-out
\* after which the loop's test finds the card gone.
Rx_fails ==
    /\ receiver = "reading"
    /\ cardPresent' = FALSE /\ receiver' = "ended"
    /\ UNCHANGED <<open, remover, threads, txCmdQueue, txWork, write, device, lost>>

----------------------------------------------------------------------------
(* leaf_remove.                                                             *)

Remove_to(from, to) == remover = from /\ remover' = to

leaf_remove ==
    /\ Remove_to("present", "sweep")
    /\ cardPresent' = FALSE
    /\ UNCHANGED <<open, threads, txCmdQueue, txWork, write, device, receiver, lost>>

\* The list is not gone through.
Bug_nobody_is_told == UNCHANGED node

Stop_wait_nodes ==
    node' = [t \in Thread |->
        IF t \in replyWaitList THEN [node[t] EXCEPT !.completed = TRUE]
        ELSE node[t]]

Sweep ==
    /\ Remove_to("sweep", "closing")
    /\ Stop_wait_nodes
    /\ UNCHANGED <<cardPresent, open, pc, replyWaitList, txCmdQueue, txWork, write, device,
                   receiver, lost>>

\* The files are not waited for.
Bug_files_are_open == TRUE

All_closed == open = {}

Wait_for_closed ==
    /\ Remove_to("closing", "kill") /\ All_closed
    /\ UNCHANGED <<cardPresent, open, threads, txCmdQueue, txWork, write, device, receiver,
                   lost>>

\* usb_kill_urb has the callback run.
Kill_urb ==
    /\ Remove_to("kill", "finish")
    /\ urb' = NoUrb /\ lost' = lost \cup Makers(urb)
    /\ IF urb = NoUrb THEN UNCHANGED write_finished
       ELSE leaf_write_bulk_callback
    /\ UNCHANGED <<cardPresent, open, threads, txCmdQueue, txWork, sender, buffer, stalls,
                   device, receiver>>

Wait_for_write ==
    /\ Remove_to("finish", "destroy")
    /\ write_finished > 0 /\ write_finished' = write_finished - 1
    /\ UNCHANGED <<cardPresent, open, threads, txCmdQueue, txWork, sender, buffer, urb,
                   stalls, device, receiver, lost>>

\* destroy_workqueue lets work that is queued or running finish.
Destroy_workqueue ==
    /\ Remove_to("destroy", "freed")
    /\ ~txWork /\ sender = "idle"
    /\ UNCHANGED <<cardPresent, open, threads, txCmdQueue, txWork, write, device, receiver,
                   lost>>

----------------------------------------------------------------------------

Worker ==
    \/ leaf_send \/ Previous_write_finished \/ Abandon_send \/ Nothing_to_send
    \/ Fill \/ Card_is_gone \/ Submit

Thread_continues(t) ==
    List_add(t) \/ leaf_queue_cmd(t) \/ Queue_full(t) \/ Completed(t) \/ Leave(t)

Removal ==
    Sweep \/ Wait_for_closed \/ Kill_urb \/ Wait_for_write \/ Destroy_workqueue

Next ==
    \/ \E t \in Thread :
          \/ Thread_continues(t) \/ Time_out(t) \/ Close(t)
          \/ \E cmd \in Command : Call(t, cmd)
    \/ Worker \/ Write_stalls \/ Submit_fails
    \/ \E ok \in BOOLEAN : Write_ends(ok)
    \/ Device_is_silent
    \/ Rx_read \/ Rx_fails
    \/ leaf_remove \/ Removal

Spec == Init /\ [][Next]_vars

\* The threads, the worker and the removal are scheduled; a write ends; the
\* receive thread takes what arrives.  Nobody has to call, close or remove,
\* nothing has to fail, and no answer has to take too long.
FairSpec ==
    /\ Spec
    /\ WF_vars(Worker) /\ WF_vars(Removal)
    /\ \A t \in Thread : WF_vars(Thread_continues(t))
    /\ WF_vars(\E ok \in BOOLEAN : Write_ends(ok))
    /\ WF_vars(Rx_read)

----------------------------------------------------------------------------
(* What must hold.                                                          *)

Requests == [cmd : Command, chan : {chan[t] : t \in Thread}, by : Thread \cup {NoThread}]

Node == [cmdNr : Command, completed : BOOLEAN,
         reply : Requests \cup {NoReply}]

\* Every variable has its type; the command queue holds what its ring can.
TypeOK ==
    /\ cardPresent \in BOOLEAN /\ open \subseteq Thread
    /\ pc \in [Thread -> {"idle", "add", "queue", "wait", "woken"}]
    /\ node \in [Thread -> Node \cup {NoNode}]
    /\ replyWaitList \subseteq Thread
    /\ txCmdQueue \in Seq(Requests) /\ Len(txCmdQueue) <= QueueRoom
    /\ txWork \in BOOLEAN /\ sender \in {"idle", "wait", "look", "submit"}
    /\ buffer \in Seq(Requests) /\ urb \in Seq(Requests) /\ device \in Seq(Requests)
    /\ write_finished \in Nat /\ stalls \in 0 .. MaxStalls
    /\ receiver \in {"reading", "ended"}
    /\ remover \in {"present", "sweep", "closing", "kill", "finish", "destroy", "freed"}
    /\ lost \subseteq Thread

\* The list holds the nodes of threads that are inside
\* leaf_send_and_wait_reply: no response is copied into a frame that is gone.
NodesAreInside == \A t \in replyWaitList : node[t] # NoNode

\* A call that is answered has the answer to its own request, or to one of the
\* same kind for the same channel that its caller gave up; never the answer
\* another thread waits for.  Excepted are the kinds matched without transId.
AnswerIsOurs ==
    \A t \in Thread :
        node[t] # NoNode /\ node[t].reply # NoReply /\ node[t].cmdNr \notin Unchecked
            => /\ node[t].reply.by \in {t, NoThread}
               /\ node[t].reply.chan = chan[t]

Holds_write == sender \in {"look", "submit"}
Has(condition) == IF condition THEN 1 ELSE 0

Writes == write_finished + Has(Holds_write) + Has(urb # NoUrb)

\* The write is finished, with the worker or in flight, so that leaf_remove does not
\* wait for it in vain; only one of these while the card is there and no write takes
\* too long.
OneWrite ==
    /\ remover \notin {"destroy", "freed"} => Writes >= 1
    /\ cardPresent /\ stalls = 0 => Writes = 1

\* Somebody has what t asked for.
Under_way(t) == \E q \in {txCmdQueue, buffer, urb, device} : t \in Makers(q)

\* No call waits for nothing while the card is there: what it asked for is still
\* somewhere, unless a transfer or the device lost it, and what is queued has the
\* worker coming.
CallIsUnderWay ==
    cardPresent =>
        /\ \A t \in Thread :
               pc[t] = "wait" /\ t \notin lost => node[t].completed \/ Under_way(t)
        /\ txCmdQueue # <<>> => txWork \/ sender # "idle"

\* When the card is freed nobody uses it: no file is open, no thread inside, no
\* work queued or running and, unless a write took too long, none in flight.
FreedIsUnused ==
    remover = "freed" =>
        /\ open = {} /\ replyWaitList = {}
        /\ \A t \in Thread : pc[t] = "idle"
        /\ sender = "idle" /\ ~txWork
        /\ stalls = 0 => urb = NoUrb

\* The answer the device gives reaches the caller without the time running out.
CallIsAnswered ==
    \A t \in Thread : pc[t] = "wait" ~> pc[t] # "wait" \/ t \in lost \/ ~cardPresent

\* Removal does not make a thread that is in the list wait its time out.
WaitersAreStopped ==
    \A t \in Thread : t \in replyWaitList /\ remover = "sweep" ~> pc[t] = "idle"

\* Once the files are closed the removal comes to its end.
RemovalEnds == remover # "present" /\ open = {} ~> remover = "freed"

============================================================================
