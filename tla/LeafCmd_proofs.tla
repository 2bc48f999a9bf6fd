--------------------------- MODULE LeafCmd_proofs ---------------------------
(* LeafCmd, for any set of threads with a channel each, any commands, any    *)
(* length of the queue and any number of stalled writes: no response reaches *)
(* a frame that is gone or the thread of another channel, the write URB is   *)
(* owned by one party at a time, and the card is freed when nobody uses it.  *)
EXTENDS LeafCmd, SequenceTheorems, TLAPS

USE ThreadAssumption, UncheckedAssumption, RoomAssumption, StallAssumption

\* Requests that name their maker name its channel.
Owned == {r \in Requests : r.by # NoThread => r.chan = chan[r.by]}

\* Wherever a request is, its channel is its maker's: what tells the threads'
\* answers apart.
RequestsAreOwned ==
    /\ txCmdQueue \in Seq(Owned) /\ buffer \in Seq(Owned)
    /\ urb \in Seq(Owned) /\ device \in Seq(Owned)

\* A thread has a node while it is inside, its node is on the list from
\* List_add to List_del, and its file is open.
Inside ==
    \A t \in Thread :
        /\ t \in replyWaitList <=> pc[t] \in {"queue", "wait", "woken"}
        /\ node[t] = NoNode <=> pc[t] = "idle"
        /\ pc[t] # "idle" => t \in open

\* The removal finds the card absent, goes on with every file closed, and ends
\* with the worker at rest.
Removing ==
    /\ remover # "present" => ~cardPresent
    /\ remover \notin {"present", "sweep", "closing"} => open = {}
    /\ remover = "freed" => sender = "idle" /\ ~txWork

\* Who has the write, when no write took too long.  Only a worker that finds the
\* card gone gives back what it did not take (Abandon_send), and it is the last
\* time that it runs.  Past usb_kill_urb the URB can still be submitted once, by
\* a worker that saw the card present; it ends before the removal goes on.
WriteOwned ==
    stalls = 0 =>
        /\ cardPresent => Writes = 1
        /\ Writes <= 1 \/ (~cardPresent /\ sender = "idle")
        /\ remover \in {"finish", "destroy", "freed"} /\ urb # NoUrb =>
              remover = "finish" /\ sender = "idle" /\ write_finished = 0
        /\ remover \in {"destroy", "freed"} => ~Holds_write

\* The write is somewhere until the removal takes it, however many took too long.
WriteIsThere == remover \notin {"destroy", "freed"} => Writes >= 1

\* A request that names its maker is that of the call its maker is in.
Current(requests, at, nodes) ==
    \A k \in DOMAIN requests :
        LET t == requests[k].by
        IN  t # NoThread =>
                at[t] \in {"wait", "woken"} /\ requests[k].cmd = nodes[t].cmdNr

RequestsAreCurrent ==
    \A q \in {txCmdQueue, buffer, urb, device} : Current(q, pc, node)

\* The buffer holds something exactly from its filling to its transmission.
BufferIsFree == buffer = <<>> <=> sender # "submit"

IInv ==
    /\ TypeOK
    /\ RequestsAreOwned
    /\ Inside
    /\ AnswerIsOurs
    /\ Removing
    /\ WriteOwned
    /\ WriteIsThere
    /\ RequestsAreCurrent
    /\ BufferIsFree
    /\ CallIsUnderWay

\* A node is not the absence of one.
LEMMA NodeIsThere == ASSUME NEW n \in Node PROVE n # NoNode
<1>1. "completed" \in DOMAIN n
  BY DEF Node
<1>2. "completed" \notin DOMAIN NoNode
  BY DEF NoNode
<1> QED BY <1>1, <1>2

\* A thread that returns takes nothing off a queue, and what it asked has no
\* maker any more.
LEMMA ForgetType ==
    ASSUME NEW t \in Thread, NEW requests \in Seq(Owned)
    PROVE  /\ Forget(t, requests) \in Seq(Owned)
           /\ Len(Forget(t, requests)) = Len(requests)
           /\ Forget(t, requests) = <<>> <=> requests = <<>>
<1>1. ASSUME NEW k \in 1 .. Len(requests)
      PROVE  [requests[k] EXCEPT !.by = NoThread] \in Owned
  BY DEF Owned, Requests
<1>2. Forget(t, requests) = [k \in 1 .. Len(requests) |->
          IF requests[k].by = t THEN [requests[k] EXCEPT !.by = NoThread]
          ELSE requests[k]]
  BY DEF Forget
<1>3. Forget(t, requests) \in [1 .. Len(requests) -> Owned]
  BY <1>1, <1>2
<1>4. Len(Forget(t, requests)) = Len(requests)
  BY <1>3
<1> QED BY <1>3, <1>4

\* Makers are threads; the absent one is left out.
LEMMA MakersType ==
    ASSUME NEW requests \in Seq(Owned) PROVE Makers(requests) \subseteq Thread
  BY DEF Makers, Owned, Requests

\* A request is its maker's.
LEMMA RequestIsOwned ==
    ASSUME NEW t \in Thread, node[t] \in Node PROVE Request(t) \in Owned
  BY DEF Owned, Requests, Request, Node

\* leaf_start leaves a card in order: one write to take, nothing queued, nobody inside.
LEMMA InitIInv == Init => IInv
<1> SUFFICES ASSUME Init PROVE IInv
  OBVIOUS
<1>1. <<>> \in Seq(Owned) /\ <<>> \in Seq(Requests) /\ Len(<<>>) = 0
  OBVIOUS
<1>2. RequestsAreOwned
  BY <1>1 DEF Init, RequestsAreOwned, NoUrb
<1>3. TypeOK
  <2>1. /\ txCmdQueue \in Seq(Requests) /\ Len(txCmdQueue) <= QueueRoom
        /\ buffer \in Seq(Requests) /\ urb \in Seq(Requests)
        /\ device \in Seq(Requests)
    BY <1>1 DEF Init, NoUrb
  <2>2. /\ node \in [Thread -> Node \cup {NoNode}]
        /\ pc \in [Thread -> {"idle", "add", "queue", "wait", "woken"}]
    BY DEF Init
  <2>3. open \subseteq Thread /\ replyWaitList \subseteq Thread /\ lost \subseteq Thread
    BY DEF Init
  <2>4. write_finished \in Nat /\ stalls \in 0 .. MaxStalls
    BY DEF Init
  <2>5. /\ txWork \in BOOLEAN /\ cardPresent \in BOOLEAN
        /\ receiver \in {"reading", "ended"}
        /\ sender \in {"idle", "wait", "look", "submit"}
        /\ remover \in {"present", "sweep", "closing", "kill", "finish", "destroy",
                        "freed"}
    BY DEF Init
  <2> QED BY <2>1, <2>2, <2>3, <2>4, <2>5 DEF TypeOK
<1>4. Inside /\ AnswerIsOurs /\ Removing
  BY DEF Init, Inside, AnswerIsOurs, Removing
<1>5. WriteOwned /\ WriteIsThere
  BY DEF Init, WriteOwned, WriteIsThere, Writes, Has, Holds_write
<1>6. RequestsAreCurrent /\ BufferIsFree /\ CallIsUnderWay
  BY DEF Init, RequestsAreCurrent, Current, BufferIsFree, CallIsUnderWay, NoUrb
<1> QED BY <1>2, <1>3, <1>4, <1>5, <1>6 DEF IInv

\* What is taken from one queue and put on another keeps its maker.
LEMMA StepRequests == IInv /\ [Next]_vars => RequestsAreOwned'
<1> SUFFICES ASSUME IInv, [Next]_vars PROVE RequestsAreOwned'
  OBVIOUS
<1> USE DEF IInv, RequestsAreOwned, NoUrb
<1>0. <<>> \in Seq(Owned)
  OBVIOUS
<1>1. CASE UNCHANGED <<txCmdQueue, buffer, urb, device>>
  BY <1>1
<1>2. ASSUME NEW t \in Thread, leaf_queue_cmd(t) PROVE RequestsAreOwned'
  <2>1. node[t] \in Node
    BY <1>2 DEF leaf_queue_cmd, Inside, TypeOK
  <2> QED BY <1>2, <2>1, RequestIsOwned DEF leaf_queue_cmd, host, threads, write
<1>3. ASSUME NEW t \in Thread, Return(t) PROVE RequestsAreOwned'
  BY <1>3, ForgetType DEF Return
<1>4. CASE Fill
  BY <1>4, <1>0 DEF Fill, leaf_fill_usb_buffer
<1>5. CASE Card_is_gone
  BY <1>5, <1>0 DEF Card_is_gone, leaf_fill_usb_buffer
<1>6. CASE Submit
  BY <1>6, <1>0 DEF Submit
<1>7. CASE Submit_fails
  BY <1>7, <1>0 DEF Submit_fails
<1>8. ASSUME NEW ok \in BOOLEAN, Write_ends(ok) PROVE RequestsAreOwned'
  BY <1>8, <1>0 DEF Write_ends
<1>9. CASE Device_is_silent
  BY <1>9 DEF Device_is_silent, write
<1>10. CASE Rx_read
  BY <1>10 DEF Rx_read, write
<1>11. CASE Kill_urb
  BY <1>11, <1>0 DEF Kill_urb
<1> QED
  BY <1>1, <1>2, <1>3, <1>4, <1>5, <1>6, <1>7, <1>8, <1>9, <1>10, <1>11
  DEF Next, Thread_continues, Worker, Removal, vars, host, threads, write,
      Call, List_add, Queue_full, Completed, Leave, Time_out, Close, leaf_send,
      Previous_write_finished, Abandon_send, Nothing_to_send, Write_stalls,
      Rx_fails, leaf_remove, Sweep, Wait_for_closed, Wait_for_write,
      Destroy_workqueue

\* Requests that are their makers' are requests.
LEMMA OwnedIsTyped == ASSUME NEW s \in Seq(Owned) PROVE s \in Seq(Requests)
<1>1. Owned \subseteq Requests
  BY DEF Owned
<1> QED BY <1>1

\* Where threads are, with their nodes and files.
TypedThreads ==
    /\ open \subseteq Thread
    /\ pc \in [Thread -> {"idle", "add", "queue", "wait", "woken"}]
    /\ node \in [Thread -> Node \cup {NoNode}]
    /\ replyWaitList \subseteq Thread
    /\ lost \subseteq Thread

\* The worker, the receive thread, the removal and what they count.
TypedWorkers ==
    /\ cardPresent \in BOOLEAN /\ txWork \in BOOLEAN
    /\ sender \in {"idle", "wait", "look", "submit"}
    /\ write_finished \in Nat /\ stalls \in 0 .. MaxStalls
    /\ receiver \in {"reading", "ended"}
    /\ remover \in {"present", "sweep", "closing", "kill", "finish", "destroy", "freed"}

\* A thread's node stays a node, whoever completes it.
LEMMA StepTypedThreads == IInv /\ [Next]_vars => TypedThreads'
<1> SUFFICES ASSUME IInv, [Next]_vars PROVE TypedThreads'
  OBVIOUS
<1> USE DEF IInv, TypeOK, TypedThreads, RequestsAreOwned
<1>1. ASSUME NEW t \in Thread, NEW cmd \in Command, Call(t, cmd) PROVE TypedThreads'
  <2>1. [cmdNr |-> cmd, completed |-> FALSE, reply |-> NoReply] \in Node
    BY DEF Node
  <2> QED BY <1>1, <2>1 DEF Call, Goto, host
<1>2. ASSUME NEW t \in Thread, List_add(t) \/ leaf_queue_cmd(t) \/ Completed(t) \/ Close(t)
      PROVE  TypedThreads'
  BY <1>2 DEF List_add, leaf_queue_cmd, Completed, Close, Goto, host, threads
<1>3. ASSUME NEW t \in Thread, List_del(t), Return(t) PROVE TypedThreads'
  BY <1>3 DEF List_del, Return, Goto, host
<1>4. CASE Fill
  <2>1. urb' \in Seq(Owned)
    BY StepRequests
  <2> QED BY <1>4, <2>1, MakersType DEF Fill, Overwritten, host, threads
<1>5. CASE Card_is_gone
  BY <1>5, MakersType DEF Card_is_gone, Overwritten, host, threads
<1>6. CASE Submit_fails
  BY <1>6, MakersType DEF Submit_fails, host, threads
<1>7. ASSUME NEW ok \in BOOLEAN, Write_ends(ok) PROVE TypedThreads'
  BY <1>7, MakersType DEF Write_ends, host, threads
<1>8. CASE Device_is_silent
  <2>1. <<Head(device)>> \in Seq(Owned)
    BY <1>8 DEF Device_is_silent
  <2> QED BY <1>8, <2>1, MakersType DEF Device_is_silent, host, threads
<1>9. CASE Rx_read
  <2>1. Head(device) \in Requests
    BY <1>9 DEF Rx_read
  <2>2. ASSUME NEW t \in Thread, node[t] # NoNode
        PROVE  [node[t] EXCEPT !.completed = TRUE, !.reply = Head(device)] \in Node
    BY <2>1, <2>2 DEF Node
  <2> QED BY <1>9, <2>2 DEF Rx_read, leaf_handle_command, host
<1>10. CASE Sweep
  <2>1. ASSUME NEW t \in Thread, t \in replyWaitList
        PROVE  [node[t] EXCEPT !.completed = TRUE] \in Node
    <3>1. node[t] # NoNode
      BY <2>1 DEF Inside
    <3> QED BY <3>1, ZenonT(30) DEF Node
  <2> QED BY <1>10, <2>1 DEF Sweep, Stop_wait_nodes
<1>11. CASE Kill_urb
  BY <1>11, MakersType DEF Kill_urb, threads
<1>12. CASE UNCHANGED <<open, pc, node, replyWaitList, lost>>
  BY <1>12
<1> QED
  BY <1>1, <1>2, <1>3, <1>4, <1>5, <1>6, <1>7, <1>8, <1>9, <1>10, <1>11, <1>12
  DEF Next, Thread_continues, Worker, Removal, vars, host, threads, Queue_full,
      Leave, Time_out, leaf_send, Previous_write_finished, Abandon_send,
      Nothing_to_send, Write_stalls, Submit, Rx_fails, leaf_remove,
      Wait_for_closed, Wait_for_write, Destroy_workqueue

\* The write is never taken when there is none, so its count stays a number.
LEMMA StepTypedWorkers == IInv /\ [Next]_vars => TypedWorkers'
<1> SUFFICES ASSUME IInv, [Next]_vars PROVE TypedWorkers'
  OBVIOUS
<1> USE DEF IInv, TypeOK, TypedWorkers
<1>1. ASSUME NEW t \in Thread, Thread_continues(t) \/ Time_out(t) \/ Close(t)
      PROVE  TypedWorkers'
  BY <1>1, ZenonT(30)
  DEF Thread_continues, List_add, leaf_queue_cmd, Queue_full, Completed, Leave,
      Time_out, Close, Return, Queue_work, host, write
<1>2. CASE Worker \/ Write_stalls \/ Submit_fails
  <2> USE DEF Send_to, Complete_write, Give_back, Transmission_failed, Queue_work, host
  <2>1. CASE leaf_send \/ Submit
    BY <2>1 DEF leaf_send, Submit
  <2>2. CASE Previous_write_finished
    BY <2>2 DEF Previous_write_finished
  <2>3. CASE Abandon_send \/ Nothing_to_send
    BY <2>3 DEF Abandon_send, Nothing_to_send
  <2>4. CASE Fill
    BY <2>4 DEF Fill
  <2>6. CASE Card_is_gone
    BY <2>6 DEF Card_is_gone
  <2>7. CASE Submit_fails
    BY <2>7 DEF Submit_fails
  <2>5. CASE Write_stalls
    BY <2>5 DEF Write_stalls
  <2> QED BY <1>2, <2>1, <2>2, <2>3, <2>4, <2>5, <2>6, <2>7 DEF Worker
<1>3. ASSUME NEW ok \in BOOLEAN, Write_ends(ok) PROVE TypedWorkers'
  BY <1>3 DEF Write_ends, leaf_write_bulk_callback, Complete_write, host
<1>4. CASE Device_is_silent \/ Rx_read \/ Rx_fails
  BY <1>4 DEF Device_is_silent, Rx_read, Rx_fails, host, write
<1>5. CASE leaf_remove \/ Removal
  <2> USE DEF Remove_to, write
  <2>1. CASE leaf_remove \/ Sweep \/ Wait_for_closed \/ Destroy_workqueue
    BY <2>1 DEF leaf_remove, Sweep, Wait_for_closed, Destroy_workqueue
  <2>2. CASE Kill_urb
    BY <2>2 DEF Kill_urb, leaf_write_bulk_callback, Complete_write
  <2>3. CASE Wait_for_write
    BY <2>3 DEF Wait_for_write
  <2> QED BY <1>5, <2>1, <2>2, <2>3 DEF Removal
<1>6. ASSUME NEW t \in Thread, NEW cmd \in Command, Call(t, cmd) PROVE TypedWorkers'
  BY <1>6 DEF Call, host, write
<1>7. CASE UNCHANGED vars
  BY <1>7 DEF vars, host, write
<1> QED BY <1>1, <1>2, <1>3, <1>4, <1>5, <1>6, <1>7 DEF Next

\* Every variable keeps its type; only a thread that found room adds to the queue.
LEMMA StepTypeOK == IInv /\ [Next]_vars => TypeOK'
<1> SUFFICES ASSUME IInv, [Next]_vars PROVE TypeOK'
  OBVIOUS
<1>1. /\ txCmdQueue' \in Seq(Requests) /\ buffer' \in Seq(Requests)
      /\ urb' \in Seq(Requests) /\ device' \in Seq(Requests)
  BY StepRequests, OwnedIsTyped DEF RequestsAreOwned
<1>2. Len(txCmdQueue') <= QueueRoom
  <2> USE DEF IInv, TypeOK, RequestsAreOwned
  <2>1. CASE UNCHANGED txCmdQueue
    BY <2>1
  <2>2. ASSUME NEW t \in Thread, leaf_queue_cmd(t) PROVE Len(txCmdQueue') <= QueueRoom
    BY <2>2 DEF leaf_queue_cmd, Room
  <2>3. ASSUME NEW t \in Thread, Return(t) PROVE Len(txCmdQueue') <= QueueRoom
    BY <2>3, ForgetType DEF Return
  <2>4. CASE txCmdQueue' = <<>>
    BY <2>4
  <2> QED
    BY <2>1, <2>2, <2>3, <2>4
    DEF Next, Thread_continues, Worker, Removal, vars, Call, List_add, Queue_full,
        Completed, Leave, Time_out, Close, leaf_send, Previous_write_finished,
        Abandon_send, Nothing_to_send, Fill, Card_is_gone, leaf_fill_usb_buffer, Submit,
        Write_stalls, Submit_fails, Write_ends, Device_is_silent, Rx_read, Rx_fails,
        leaf_remove, Sweep, Wait_for_closed, Kill_urb, Wait_for_write, Destroy_workqueue
<1> QED
  BY <1>1, <1>2, StepTypedThreads, StepTypedWorkers DEF TypeOK, TypedThreads, TypedWorkers

\* Threads go in and out with their nodes; only Close takes a file away, and the
\* worker, the device and the removal leave all of this alone.
LEMMA StepInside == IInv /\ [Next]_vars => Inside'
<1> SUFFICES ASSUME IInv, [Next]_vars PROVE Inside'
  OBVIOUS
<1> USE DEF IInv, TypeOK, Inside
<1>1. ASSUME NEW t \in Thread, NEW cmd \in Command, Call(t, cmd) PROVE Inside'
  <2>1. [cmdNr |-> cmd, completed |-> FALSE, reply |-> NoReply] # NoNode
    BY NodeIsThere DEF Node
  <2> QED BY <1>1, <2>1 DEF Call, Goto, host
<1>2. ASSUME NEW t \in Thread, List_add(t) \/ leaf_queue_cmd(t) \/ Completed(t) \/ Close(t)
      PROVE  Inside'
  BY <1>2 DEF List_add, leaf_queue_cmd, Completed, Close, Goto, host, threads
<1>3. ASSUME NEW t \in Thread, List_del(t), Return(t) PROVE Inside'
  BY <1>3 DEF List_del, Return, Goto, host
<1>4. CASE Rx_read
  <2>1. ASSUME NEW t \in Thread PROVE node'[t] = NoNode <=> node[t] = NoNode
    <3>1. CASE node[t] = NoNode
      BY <1>4, <3>1 DEF Rx_read, leaf_handle_command
    <3>2. CASE node[t] # NoNode
      <4>1. [node[t] EXCEPT !.completed = TRUE, !.reply = Head(device)] # NoNode
        BY <3>2 DEF Node, NoNode
      <4> QED BY <1>4, <3>2, <4>1 DEF Rx_read, leaf_handle_command
    <3> QED BY <3>1, <3>2
  <2> QED BY <1>4, <2>1 DEF Rx_read, host
<1>5. CASE Sweep
  <2>1. ASSUME NEW t \in Thread PROVE node'[t] = NoNode <=> node[t] = NoNode
    <3>1. CASE t \notin replyWaitList
      BY <1>5, <3>1 DEF Sweep, Stop_wait_nodes
    <3>2. CASE t \in replyWaitList
      <4>1. node[t] \in Node /\ node[t] # NoNode
        BY <3>2
      <4>2. [node[t] EXCEPT !.completed = TRUE] \in Node
        BY <4>1 DEF Node
      <4> QED BY <1>5, <3>2, <4>1, <4>2, NodeIsThere DEF Sweep, Stop_wait_nodes
    <3> QED BY <3>1, <3>2
  <2> QED BY <1>5, <2>1 DEF Sweep
<1>6. CASE UNCHANGED <<open, pc, node, replyWaitList>>
  BY <1>6
<1> QED
  BY <1>1, <1>2, <1>3, <1>4, <1>5, <1>6
  DEF Next, Thread_continues, Worker, Removal, vars, host, threads, Queue_full,
      Leave, Time_out, leaf_send, Previous_write_finished, Abandon_send,
      Nothing_to_send, Write_stalls, Fill, Card_is_gone, Submit, Submit_fails,
      Write_ends, Device_is_silent, Rx_fails, leaf_remove, Wait_for_closed, Kill_urb,
      Wait_for_write, Destroy_workqueue

\* A response that names a channel is given to the channel's thread only, and
\* its maker, if it has one, is a thread of that channel.
LEMMA StepAnswerIsOurs == IInv /\ [Next]_vars => AnswerIsOurs'
<1> SUFFICES ASSUME IInv, [Next]_vars PROVE AnswerIsOurs'
  OBVIOUS
<1> USE DEF IInv, TypeOK, AnswerIsOurs
<1>1. ASSUME NEW t \in Thread, NEW cmd \in Command, Call(t, cmd) PROVE AnswerIsOurs'
  BY <1>1 DEF Call
<1>2. ASSUME NEW t \in Thread, Return(t) PROVE AnswerIsOurs'
  BY <1>2 DEF Return
<1>3. CASE Rx_read
  <2> DEFINE answer == Head(device)
  <2>1. answer \in Owned
    BY <1>3 DEF Rx_read, RequestsAreOwned
  <2> SUFFICES ASSUME NEW t \in Thread, node'[t] # NoNode, node'[t].reply # NoReply,
                      node'[t].cmdNr \notin Unchecked
               PROVE  node'[t].reply.by \in {t, NoThread} /\ node'[t].reply.chan = chan[t]
    BY DEF AnswerIsOurs
  <2>2. CASE t \in replyWaitList /\ node[t] # NoNode /\ Matches(t, answer)
    <3>1. node'[t] = [node[t] EXCEPT !.completed = TRUE, !.reply = answer]
      BY <1>3, <2>2 DEF Rx_read, leaf_handle_command
    <3>2. node[t] \in Node
      BY <2>2
    <3>3. node'[t].reply = answer /\ node'[t].cmdNr = node[t].cmdNr
      BY <3>1, <3>2 DEF Node
    <3>4. chan[t] = answer.chan
      BY <2>2, <3>3 DEF Matches
    <3>5. answer.by \in Thread \cup {NoThread}
             /\ (answer.by # NoThread => answer.chan = chan[answer.by])
      BY <2>1 DEF Owned, Requests
    <3> QED BY <3>3, <3>4, <3>5
  <2>3. CASE ~(t \in replyWaitList /\ node[t] # NoNode /\ Matches(t, answer))
    BY <1>3, <2>3 DEF Rx_read, leaf_handle_command
  <2> QED BY <2>2, <2>3
<1>4. CASE Sweep
  <2> SUFFICES ASSUME NEW t \in Thread, t \in replyWaitList
               PROVE  /\ node[t] # NoNode
                      /\ node'[t].reply = node[t].reply /\ node'[t].cmdNr = node[t].cmdNr
    BY <1>4 DEF Sweep, Stop_wait_nodes
  <2>1. node[t] # NoNode
    BY DEF Inside
  <2> QED BY <1>4, <2>1 DEF Sweep, Stop_wait_nodes, Node
<1>5. CASE UNCHANGED node
  BY <1>5
<1> QED
  BY <1>1, <1>2, <1>3, <1>4, <1>5
  DEF Next, Thread_continues, Worker, Removal, vars, host, threads, List_add,
      leaf_queue_cmd, Completed, Close, Queue_full, Leave, Time_out, leaf_send,
      Previous_write_finished, Abandon_send, Nothing_to_send, Write_stalls, Fill,
      Card_is_gone, Submit, Submit_fails, Write_ends, Device_is_silent, Rx_fails,
      leaf_remove, Wait_for_closed, Kill_urb, Wait_for_write, Destroy_workqueue

\* The card never comes back, closed files stay closed, and a worker that nobody
\* can start any more stays at rest.
LEMMA StepRemoving == IInv /\ [Next]_vars => Removing'
<1> SUFFICES ASSUME IInv, [Next]_vars PROVE Removing'
  OBVIOUS
<1> USE DEF IInv, TypeOK, Removing
<1>1. ASSUME NEW t \in Thread, Thread_continues(t) \/ Time_out(t) \/ Close(t)
      PROVE  Removing'
  BY <1>1 DEF Thread_continues, List_add, leaf_queue_cmd, Queue_full, Completed, Leave,
              Time_out, Close, Return, Queue_work, Inside, host, write
<1>2. CASE Worker \/ Write_stalls \/ Submit_fails
  <2>1. CASE leaf_send
    BY <2>1 DEF leaf_send, Send_to, host
  <2>2. CASE sender # "idle"
    <3>1. remover # "freed" /\ UNCHANGED host
      BY <1>2, <2>2 DEF Worker, leaf_send, Previous_write_finished, Abandon_send,
                        Nothing_to_send, Fill, Card_is_gone, Submit, Write_stalls,
                        Submit_fails
    <3> QED BY <3>1 DEF host
  <2>3. leaf_send \/ sender # "idle"
    BY <1>2 DEF Worker, Previous_write_finished, Abandon_send, Nothing_to_send, Fill,
                leaf_fill_usb_buffer, Card_is_gone, Submit, Write_stalls, Submit_fails
  <2> QED BY <2>1, <2>2, <2>3
<1>3. ASSUME NEW ok \in BOOLEAN, Write_ends(ok) PROVE Removing'
  BY <1>3 DEF Write_ends, host
<1>4. CASE Device_is_silent \/ Rx_read \/ Rx_fails
  BY <1>4 DEF Device_is_silent, Rx_read, Rx_fails, host, write
<1>5. CASE leaf_remove \/ Removal
  BY <1>5 DEF leaf_remove, Removal, Sweep, Wait_for_closed, All_closed, Kill_urb,
              Wait_for_write, Destroy_workqueue, Remove_to, write
<1>6. ASSUME NEW t \in Thread, NEW cmd \in Command, Call(t, cmd) PROVE Removing'
  BY <1>6 DEF Call, host, write
<1>7. CASE UNCHANGED vars
  BY <1>7 DEF vars, host, write
<1> QED BY <1>1, <1>2, <1>3, <1>4, <1>5, <1>6, <1>7 DEF Next

\* Nothing but Write_stalls breaks the accounting, and then it is not asked for.
LEMMA StepWriteOwned == IInv /\ [Next]_vars => WriteOwned'
<1> SUFFICES ASSUME IInv, [Next]_vars, stalls' = 0 PROVE WriteOwned'
  BY DEF WriteOwned
<1> USE DEF IInv, TypeOK, WriteOwned, Writes, Has, Holds_write, Removing, NoUrb,
            BufferIsFree
<1>0. stalls = 0
  BY DEF Next, Thread_continues, Worker, Removal, vars, host, threads, write, Call,
         List_add, leaf_queue_cmd, Queue_full, Return, Completed, Leave, Time_out, Close,
         leaf_send, Previous_write_finished, Abandon_send, Nothing_to_send, Fill,
         Card_is_gone, Submit, Write_stalls, Submit_fails, Write_ends, Device_is_silent,
         Rx_read, Rx_fails, leaf_remove, Sweep, Wait_for_closed, Kill_urb,
         Wait_for_write, Destroy_workqueue
<1>1. ASSUME NEW t \in Thread, Return(t) PROVE WriteOwned'
  <2>1. (urb' = <<>> <=> urb = <<>>) /\ (buffer' = <<>> <=> buffer = <<>>)
    BY <1>1, ForgetType DEF Return, RequestsAreOwned
  <2> QED BY <1>0, <1>1, <2>1 DEF Return, host
<1>2. CASE leaf_send
  BY <1>0, <1>2 DEF leaf_send, Send_to, host
<1>3. CASE Previous_write_finished
  BY <1>0, <1>3 DEF Previous_write_finished, Give_back, Send_to, host
<1>4. CASE Abandon_send
  BY <1>0, <1>4 DEF Abandon_send, Complete_write, Send_to, host
<1>5. CASE Nothing_to_send
  BY <1>0, <1>5 DEF Nothing_to_send, Complete_write, Send_to, host
<1>6. CASE Fill
  BY <1>0, <1>6 DEF Fill, leaf_fill_usb_buffer, Send_to, host
<1>7. CASE Card_is_gone
  BY <1>0, <1>7 DEF Card_is_gone, leaf_fill_usb_buffer, Transmission_failed,
                    Complete_write, Send_to, host
<1>8. CASE Submit
  BY <1>0, <1>8 DEF Submit, Send_to, host
<1>9. CASE Submit_fails
  BY <1>0, <1>9 DEF Submit_fails, Transmission_failed, Complete_write, Send_to, host
<1>10. ASSUME NEW ok \in BOOLEAN, Write_ends(ok) PROVE WriteOwned'
  BY <1>0, <1>10 DEF Write_ends, leaf_write_bulk_callback, Complete_write, host
<1>11. CASE Kill_urb
  BY <1>0, <1>11 DEF Kill_urb, Remove_to, leaf_write_bulk_callback, Complete_write
<1>12. CASE Wait_for_write
  BY <1>0, <1>12 DEF Wait_for_write, Remove_to
<1>13. CASE /\ UNCHANGED <<sender, buffer, urb, write_finished>>
            /\ cardPresent' => cardPresent
            /\ remover' \in {"sweep", "closing", "kill"} \/ UNCHANGED remover
  BY <1>0, <1>13
<1>14. CASE Destroy_workqueue
  BY <1>0, <1>14 DEF Destroy_workqueue, Remove_to, write
<1>15. ~Write_stalls
  BY <1>0 DEF Write_stalls
<1> QED
  BY <1>1, <1>2, <1>3, <1>4, <1>5, <1>6, <1>7, <1>8, <1>9, <1>10, <1>11, <1>12, <1>13,
     <1>14, <1>15
  DEF Next, Thread_continues, Worker, Removal, vars, host, threads, write, Call,
      List_add, leaf_queue_cmd, Queue_full, Completed, Leave, Time_out, Close,
      Device_is_silent, Rx_read, Rx_fails, leaf_remove, Sweep, Wait_for_closed, Remove_to

\* What is in a row of requests names the thread.
LEMMA MakersOf ==
    ASSUME NEW requests \in Seq(Owned), NEW t \in Thread
    PROVE  t \in Makers(requests) <=> \E k \in DOMAIN requests : requests[k].by = t
  BY DEF Makers

\* The maker of one request.
LEMMA MakersOfOne ==
    ASSUME NEW r \in Owned, r.by \in Thread PROVE r.by \in Makers(<<r>>)
<1>1. 1 \in DOMAIN <<r>> /\ <<r>>[1] = r
  OBVIOUS
<1> QED BY <1>1 DEF Makers

\* The makers of two rows, one behind the other.
LEMMA MakersConcat ==
    ASSUME NEW q \in Seq(Owned), NEW r \in Seq(Owned), NEW t \in Thread,
           t \in Makers(q) \/ t \in Makers(r)
    PROVE  t \in Makers(q \o r)
<1>1. q \o r \in Seq(Owned)
  OBVIOUS
<1>2. ASSUME NEW k \in DOMAIN q PROVE k \in DOMAIN (q \o r) /\ (q \o r)[k] = q[k]
  OBVIOUS
<1>3. ASSUME NEW k \in DOMAIN r
      PROVE  Len(q) + k \in DOMAIN (q \o r) /\ (q \o r)[Len(q) + k] = r[k]
  OBVIOUS
<1>4. CASE t \in Makers(q)
  <2>1. PICK k \in DOMAIN q : q[k].by = t
    BY <1>4, MakersOf
  <2>2. k \in DOMAIN (q \o r) /\ (q \o r)[k].by = t
    BY <2>1, <1>2
  <2> QED BY <1>1, <2>2, MakersOf
<1>5. CASE t \in Makers(r)
  <2>1. PICK k \in DOMAIN r : r[k].by = t
    BY <1>5, MakersOf
  <2>2. Len(q) + k \in DOMAIN (q \o r) /\ (q \o r)[Len(q) + k].by = t
    BY <2>1, <1>3
  <2> QED BY <1>1, <2>2, MakersOf
<1> QED BY <1>4, <1>5

\* Whoever is not the maker of the head is one of the tail.
LEMMA MakersTail ==
    ASSUME NEW q \in Seq(Owned), q # <<>>, NEW t \in Thread, t \in Makers(q),
           Head(q).by # t
    PROVE  t \in Makers(Tail(q))
<1>1. PICK k \in DOMAIN q : q[k].by = t
  BY MakersOf
<1>2. k # 1 /\ Tail(q) \in Seq(Owned) /\ k - 1 \in DOMAIN Tail(q)
      /\ Tail(q)[k - 1] = q[k]
  BY <1>1
<1> QED BY <1>1, <1>2, MakersOf

\* The others' requests stay theirs when a thread returns.
LEMMA MakersForget ==
    ASSUME NEW q \in Seq(Owned), NEW u \in Thread, NEW t \in Thread, t # u,
           t \in Makers(q)
    PROVE  t \in Makers(Forget(u, q))
<1>1. PICK k \in DOMAIN q : q[k].by = t
  BY MakersOf
<1>2. /\ k \in DOMAIN Forget(u, q) /\ Forget(u, q)[k].by = t
      /\ Forget(u, q) \in Seq(Owned)
  BY <1>1, ForgetType DEF Forget
<1> QED BY <1>2, MakersOf

\* Rows of current requests: parts, and one behind the other.
LEMMA CurrentParts ==
    ASSUME NEW q \in Seq(Owned), NEW r \in Seq(Owned), NEW at, NEW nodes,
           Current(q, at, nodes), Current(r, at, nodes)
    PROVE  /\ Current(q \o r, at, nodes)
           /\ q # <<>> => Current(Tail(q), at, nodes)
<1>1. Current(q \o r, at, nodes)
  <2> SUFFICES ASSUME NEW k \in DOMAIN (q \o r)
               PROVE  \/ k \in DOMAIN q /\ (q \o r)[k] = q[k]
                      \/ k - Len(q) \in DOMAIN r /\ (q \o r)[k] = r[k - Len(q)]
    BY DEF Current
  <2> QED OBVIOUS
<1>2. ASSUME q # <<>> PROVE Current(Tail(q), at, nodes)
  <2>1. ASSUME NEW k \in DOMAIN Tail(q) PROVE k + 1 \in DOMAIN q /\ Tail(q)[k] = q[k + 1]
    BY <1>2
  <2> QED BY <2>1 DEF Current
<1> QED BY <1>1, <1>2

\* Requests stay current while the calls of their makers go on.
LEMMA CurrentStays ==
    ASSUME NEW q \in Seq(Owned), NEW at, NEW nodes, NEW at2, NEW nodes2,
           Current(q, at, nodes),
           \A t \in Thread : at[t] \in {"wait", "woken"} =>
               at2[t] \in {"wait", "woken"} /\ nodes2[t].cmdNr = nodes[t].cmdNr
    PROVE  Current(q, at2, nodes2)
<1>1. \A k \in DOMAIN q : q[k].by \in Thread \cup {NoThread}
  BY DEF Owned, Requests
<1> QED BY <1>1 DEF Current

\* Those of a thread that returns have no maker any more.
LEMMA CurrentForget ==
    ASSUME NEW q \in Seq(Owned), NEW u \in Thread, NEW at, NEW nodes, NEW at2, NEW nodes2,
           Current(q, at, nodes),
           \A t \in Thread \ {u} : at2[t] = at[t] /\ nodes2[t] = nodes[t]
    PROVE  Current(Forget(u, q), at2, nodes2)
<1>1. \A k \in DOMAIN q : q[k] \in Requests
  BY DEF Owned
<1>2. /\ DOMAIN Forget(u, q) = DOMAIN q
      /\ \A k \in DOMAIN q :
            \/ Forget(u, q)[k].by = NoThread
            \/ Forget(u, q)[k] = q[k] /\ q[k].by # u
  BY <1>1 DEF Forget, Requests
<1>3. \A k \in DOMAIN q : q[k].by \in Thread \cup {NoThread}
  BY <1>1 DEF Requests
<1> QED BY <1>2, <1>3 DEF Current

\* A request is made by a thread that waits for it, and handed on as it is.
LEMMA StepCurrent == IInv /\ [Next]_vars => RequestsAreCurrent'
<1> SUFFICES ASSUME IInv, [Next]_vars PROVE RequestsAreCurrent'
  OBVIOUS
<1> DEFINE Rows == {txCmdQueue, buffer, urb, device}
           Kept == \A t \in Thread : pc[t] \in {"wait", "woken"} =>
                       pc'[t] \in {"wait", "woken"} /\ node'[t].cmdNr = node[t].cmdNr
<1> USE DEF NoUrb
<1>0. /\ \A q \in Rows : q \in Seq(Owned) /\ Current(q, pc, node)
      /\ <<>> \in Seq(Owned) /\ Current(<<>>, pc, node)
      /\ pc \in [Thread -> {"idle", "add", "queue", "wait", "woken"}]
      /\ node \in [Thread -> Node \cup {NoNode}]
  BY DEF IInv, RequestsAreOwned, RequestsAreCurrent, TypeOK, Current
\* Steps that move requests about while calls go on.
<1>1. ASSUME Kept,
             \A q \in Rows' : q \in Seq(Owned) /\ Current(q, pc, node)
      PROVE  RequestsAreCurrent'
  <2>1. ASSUME NEW q \in Rows' PROVE Current(q, pc', node')
    BY <1>1, <2>1, CurrentStays
  <2>2. \A q \in {txCmdQueue', buffer', urb', device'} : Current(q, pc', node')
    BY <2>1
  <2> QED BY <2>2 DEF RequestsAreCurrent, Current
<1>2. ASSUME UNCHANGED <<txCmdQueue, buffer, urb, device>>, Kept
      PROVE  RequestsAreCurrent'
  BY <1>0, <1>1, <1>2
<1>3. ASSUME NEW t \in Thread, NEW cmd \in Command, Call(t, cmd)
      PROVE  RequestsAreCurrent'
  BY <1>0, <1>2, <1>3 DEF Call, Goto, write
<1>4. ASSUME NEW t \in Thread, List_add(t) \/ Completed(t) \/ Close(t)
      PROVE  RequestsAreCurrent'
  BY <1>0, <1>2, <1>4 DEF List_add, Completed, Close, Goto, threads, write
<1>5. ASSUME NEW t \in Thread, leaf_queue_cmd(t) PROVE RequestsAreCurrent'
  <2>1. /\ pc[t] = "queue" /\ pc' = [pc EXCEPT ![t] = "wait"] /\ UNCHANGED node
        /\ txCmdQueue' = Append(txCmdQueue, Request(t))
        /\ UNCHANGED <<buffer, urb, device>>
    BY <1>5 DEF leaf_queue_cmd, Goto, write
  <2>2. node[t] \in Node
    BY <1>0, <2>1 DEF IInv, Inside
  <2>3. txCmdQueue' \in Seq(Owned)
    BY StepRequests DEF RequestsAreOwned
  <2>4. ASSUME NEW q \in Rows PROVE Current(q, pc', node)
    BY <1>0, <2>1, CurrentStays
  <2>5. Current(<<Request(t)>>, pc', node)
    BY <1>0, <2>1 DEF Current, Request
  <2>6. Request(t) \in Owned
    BY <2>2, RequestIsOwned
  <2>7. Append(txCmdQueue, Request(t)) = txCmdQueue \o <<Request(t)>>
    BY <1>0, <2>6
  <2>8. Current(txCmdQueue', pc', node)
    <3>1. txCmdQueue \in Seq(Owned) /\ Current(txCmdQueue, pc', node)
      BY <1>0, <2>4
    <3>2. <<Request(t)>> \in Seq(Owned)
      BY <2>6
    <3>3. Current(txCmdQueue \o <<Request(t)>>, pc', node)
      BY <2>5, <3>1, <3>2, CurrentParts
    <3> QED BY <2>1, <2>7, <3>3
  <2>9. \A q \in {txCmdQueue', buffer', urb', device'} : Current(q, pc', node')
    BY <2>1, <2>4, <2>8
  <2> QED BY <2>9 DEF RequestsAreCurrent, Current
<1>6. ASSUME NEW t \in Thread, Return(t) PROVE RequestsAreCurrent'
  <2>1. /\ \A u \in Thread \ {t} : pc'[u] = pc[u] /\ node'[u] = node[u]
        /\ txCmdQueue' = Forget(t, txCmdQueue) /\ buffer' = Forget(t, buffer)
        /\ urb' = Forget(t, urb) /\ device' = Forget(t, device)
    BY <1>0, <1>6 DEF Return, Goto
  <2>2. \A q \in Rows : Current(Forget(t, q), pc', node')
    BY <1>0, <2>1, CurrentForget
  <2>3. \A q \in {txCmdQueue', buffer', urb', device'} : Current(q, pc', node')
    BY <2>1, <2>2
  <2> QED BY <2>3 DEF RequestsAreCurrent, Current
<1>7. ASSUME UNCHANGED threads, \A q \in Rows' : Current(q, pc, node)
      PROVE  RequestsAreCurrent'
  BY <1>7 DEF RequestsAreCurrent, Current, threads
<1>8. CASE Fill \/ Card_is_gone
  BY <1>0, <1>7, <1>8 DEF Fill, Card_is_gone, leaf_fill_usb_buffer
<1>9. CASE Submit \/ Submit_fails
  BY <1>0, <1>7, <1>9 DEF Submit, Submit_fails
<1>10. ASSUME NEW ok \in BOOLEAN, Write_ends(ok) PROVE RequestsAreCurrent'
  <2>1. Current(device \o urb, pc, node)
    BY <1>0, CurrentParts
  <2> QED BY <1>0, <1>7, <1>10, <2>1 DEF Write_ends
<1>11. CASE Device_is_silent
  <2>1. device # <<>> /\ device' = Tail(device)
    BY <1>11 DEF Device_is_silent
  <2>2. Current(Tail(device), pc, node)
    BY <1>0, <2>1, CurrentParts
  <2> QED BY <1>0, <1>7, <1>11, <2>1, <2>2 DEF Device_is_silent, write
<1>12. CASE Rx_read
  <2>1. device # <<>> /\ device' = Tail(device) /\ UNCHANGED <<pc, txCmdQueue, buffer, urb>>
    BY <1>12 DEF Rx_read, write
  <2>2. Current(Tail(device), pc, node) /\ Tail(device) \in Seq(Owned)
    BY <1>0, <2>1, CurrentParts
  <2>3. ASSUME NEW t \in Thread PROVE node'[t].cmdNr = node[t].cmdNr
    <3>1. node[t] # NoNode =>
             [node[t] EXCEPT !.completed = TRUE, !.reply = Head(device)].cmdNr
                 = node[t].cmdNr
      BY <1>0 DEF Node
    <3> QED BY <1>12, <3>1 DEF Rx_read, leaf_handle_command
  <2> QED BY <1>0, <1>1, <2>1, <2>2, <2>3
<1>13. CASE Sweep
  <2>1. UNCHANGED <<pc, txCmdQueue, buffer, urb, device>>
    BY <1>13 DEF Sweep, write
  <2>2. ASSUME NEW t \in Thread PROVE node'[t].cmdNr = node[t].cmdNr
    <3>1. t \in replyWaitList => node[t] \in Node
      BY <1>0 DEF IInv, Inside
    <3>2. t \in replyWaitList =>
             [node[t] EXCEPT !.completed = TRUE].cmdNr = node[t].cmdNr
      BY <3>1 DEF Node
    <3> QED BY <1>13, <3>2 DEF Sweep, Stop_wait_nodes
  <2> QED BY <1>2, <2>1, <2>2
<1>14. CASE Kill_urb
  BY <1>0, <1>7, <1>14 DEF Kill_urb
<1>15. CASE UNCHANGED <<threads, txCmdQueue, buffer, urb, device>>
  BY <1>0, <1>7, <1>15
<1> HIDE DEF Rows, Kept
<1> QED
  BY <1>3, <1>4, <1>5, <1>6, <1>8, <1>9, <1>10, <1>11, <1>12, <1>13, <1>14, <1>15
  DEF Next, Thread_continues, Worker, Removal, vars, host, write, Queue_full, Leave,
      Time_out, leaf_send, Previous_write_finished, Abandon_send, Nothing_to_send,
      Write_stalls, Rx_fails, leaf_remove, Wait_for_closed, Wait_for_write,
      Destroy_workqueue

\* The buffer is filled by a worker that transmits it or fails.
LEMMA StepBuffer == IInv /\ [Next]_vars => BufferIsFree'
<1> SUFFICES ASSUME IInv, [Next]_vars PROVE BufferIsFree'
  OBVIOUS
<1> USE DEF BufferIsFree
<1>0. BufferIsFree /\ RequestsAreOwned
  BY DEF IInv
<1>1. ASSUME NEW t \in Thread, Return(t) PROVE BufferIsFree'
  BY <1>0, <1>1, ForgetType DEF Return, RequestsAreOwned
<1>2. CASE Fill \/ Card_is_gone \/ Submit \/ Submit_fails
  BY <1>0, <1>2 DEF Fill, Card_is_gone, Submit, Submit_fails, leaf_fill_usb_buffer, Send_to
<1>3. CASE leaf_send \/ Previous_write_finished \/ Abandon_send \/ Nothing_to_send
           \/ Write_stalls
  BY <1>0, <1>3 DEF leaf_send, Previous_write_finished, Abandon_send, Nothing_to_send,
                    Write_stalls, Send_to
<1>4. CASE UNCHANGED <<sender, buffer>>
  BY <1>0, <1>4
<1> QED
  BY <1>1, <1>2, <1>3, <1>4
  DEF Next, Thread_continues, Worker, Removal, vars, host, threads, write, Call, List_add,
      leaf_queue_cmd, Queue_full, Completed, Leave, Time_out, Close, Write_ends,
      Device_is_silent, Rx_read, Rx_fails, leaf_remove, Sweep, Wait_for_closed, Kill_urb,
      Wait_for_write, Destroy_workqueue

\* The card does not come back.
LEMMA CardStaysAway == IInv /\ [Next]_vars /\ cardPresent' => cardPresent
  BY DEF IInv, TypeOK, Next, Thread_continues, Worker, Removal, vars, host, threads, write,
         Call, List_add, leaf_queue_cmd, Queue_full, Return, Completed, Leave, Time_out,
         Close, leaf_send, Previous_write_finished, Abandon_send, Nothing_to_send, Fill,
         Card_is_gone, Submit, Write_stalls, Submit_fails, Write_ends, Device_is_silent,
         Rx_read, Rx_fails, leaf_remove, Sweep, Wait_for_closed, Kill_urb,
         Wait_for_write, Destroy_workqueue

\* What is not moved on is lost, and the answer that is read completes its call.
LEMMA StepUnderWay == IInv /\ [Next]_vars => CallIsUnderWay'
<1> DEFINE Cared(t) == pc[t] = "wait" /\ t \notin lost => node[t].completed \/ Under_way(t)
           Queue_cared == txCmdQueue # <<>> => txWork \/ sender # "idle"
<1> SUFFICES ASSUME IInv, [Next]_vars, cardPresent'
             PROVE  (\A t \in Thread : Cared(t)') /\ Queue_cared'
  BY DEF CallIsUnderWay
<1> DEFINE Rows == {txCmdQueue, buffer, urb, device}
           Goal == (\A t \in Thread : Cared(t)') /\ Queue_cared'
<1> USE DEF NoUrb
<1>a. cardPresent
  BY CardStaysAway
<1>b. /\ \A t \in Thread : Cared(t)
      /\ Queue_cared
  BY <1>a DEF IInv, CallIsUnderWay
<1>c. /\ \A q \in Rows : q \in Seq(Owned)
      /\ \A q \in Rows' : q \in Seq(Owned)
      /\ pc \in [Thread -> {"idle", "add", "queue", "wait", "woken"}]
      /\ node \in [Thread -> Node \cup {NoNode}]
      /\ lost \subseteq Thread
  BY StepRequests DEF IInv, RequestsAreOwned, TypeOK
\* A step after which the others' requests are somewhere still.
<1>1. ASSUME NEW S \in SUBSET Thread, lost \ S \subseteq lost',
             \A t \in Thread \ S :
                 /\ pc'[t] = "wait" => pc[t] = "wait"
                 /\ node[t].completed => node'[t].completed
                 /\ t \notin lost' /\ Under_way(t) => Under_way(t)'
             PROVE \A t \in Thread \ S : Cared(t)'
  BY <1>1, <1>b
<1>2. ASSUME lost \subseteq lost', UNCHANGED <<pc, node>>,
             \A t \in Thread : t \notin lost' /\ Under_way(t) => Under_way(t)'
      PROVE  \A t \in Thread : Cared(t)'
  BY <1>2, <1>b
<1>3. ASSUME UNCHANGED <<txCmdQueue, buffer, urb, device>>
      PROVE  \A t \in Thread : Under_way(t) => Under_way(t)'
  BY <1>3 DEF Under_way
<1>4. ASSUME NEW t \in Thread, NEW cmd \in Command, Call(t, cmd) PROVE Goal
  <2>1. \A u \in Thread : u \in {t} => Cared(u)'
    BY <1>4, <1>c DEF Call, Goto
  <2>2. \A u \in Thread \ {t} : Cared(u)'
    BY <1>4, <1>c, <1>3, <1>1 DEF Call, Goto, write
  <2>3. Queue_cared'
    BY <1>4, <1>b DEF Call, write
  <2> QED BY <2>1, <2>2, <2>3
<1>5. ASSUME NEW t \in Thread, List_add(t) \/ Completed(t) \/ Close(t) PROVE Goal
  <2>1. \A u \in Thread : pc'[u] = "wait" => pc[u] = "wait"
    BY <1>5, <1>c DEF List_add, Completed, Close, Goto, threads
  <2>2. /\ UNCHANGED <<node, lost, txCmdQueue, buffer, urb, device, txWork, sender>>
    BY <1>5 DEF List_add, Completed, Close, threads, write
  <2> QED BY <1>b, <2>1, <2>2, <1>1, <1>3
<1>6. ASSUME NEW t \in Thread, leaf_queue_cmd(t) PROVE Goal
  <2>1. /\ pc' = [pc EXCEPT ![t] = "wait"] /\ pc[t] = "queue" /\ UNCHANGED <<node, lost>>
        /\ txCmdQueue' = Append(txCmdQueue, Request(t)) /\ txWork'
        /\ UNCHANGED <<buffer, urb, device>>
    BY <1>6 DEF leaf_queue_cmd, Goto, write, Queue_work
  <2>2. Request(t) \in Owned /\ Request(t).by = t
    <3>1. node[t] \in Node
      BY <1>c, <2>1 DEF IInv, Inside
    <3> QED BY <3>1, RequestIsOwned DEF Request
  <2>3. <<Request(t)>> \in Seq(Owned) /\ txCmdQueue' = txCmdQueue \o <<Request(t)>>
    BY <1>c, <2>1, <2>2
  <2>4. t \in Makers(<<Request(t)>>)
    BY <2>2, MakersOfOne
  <2>5. \A u \in Thread : u \in Makers(txCmdQueue) => u \in Makers(txCmdQueue')
    BY <1>c, <2>3, MakersConcat
  <2>6. t \in Makers(txCmdQueue')
    BY <1>c, <2>3, <2>4, MakersConcat
  <2>7. Cared(t)'
    BY <2>6 DEF Under_way
  <2>8. \A u \in Thread : Under_way(u) => Under_way(u)'
    BY <2>1, <2>5 DEF Under_way
  <2>9. \A u \in Thread \ {t} : Cared(u)'
    BY <1>c, <2>1, <2>8, <1>1
  <2> QED BY <2>1, <2>7, <2>9
<1>7. ASSUME NEW t \in Thread, Return(t) PROVE Goal
  <2>1. /\ pc' = [pc EXCEPT ![t] = "idle"] /\ node' = [node EXCEPT ![t] = NoNode]
        /\ txCmdQueue' = Forget(t, txCmdQueue) /\ buffer' = Forget(t, buffer)
        /\ urb' = Forget(t, urb) /\ device' = Forget(t, device)
        /\ lost' = lost \ {t} /\ UNCHANGED <<txWork, sender>>
    BY <1>7 DEF Return, Goto
  <2>2. \A u \in Thread \ {t} : Under_way(u) => Under_way(u)'
    BY <1>c, <2>1, MakersForget DEF Under_way
  <2>3. \A u \in Thread \ {t} : Cared(u)'
    BY <1>c, <2>1, <2>2, <1>1
  <2>4. Cared(t)'
    BY <1>c, <2>1
  <2>5. Queue_cared'
    BY <1>b, <1>c, <2>1, ForgetType
  <2> QED BY <2>3, <2>4, <2>5
<1>8. CASE Fill
  <2>1. /\ UNCHANGED <<pc, node, device>> /\ txCmdQueue' = <<>> /\ buffer' = txCmdQueue
        /\ lost' = lost \cup (Makers(urb) \ Makers(urb')) /\ sender = "look"
    BY <1>8 DEF Fill, leaf_fill_usb_buffer, threads, Overwritten
  <2>2. buffer = <<>>
    BY <2>1 DEF IInv, BufferIsFree
  <2>3. Makers(<<>>) = {}
    BY DEF Makers
  <2>4. \A u \in Thread : u \notin lost' /\ Under_way(u) => Under_way(u)'
    BY <2>1, <2>2, <2>3 DEF Under_way
  <2> QED BY <2>1, <2>4, <1>2
<1>9. CASE Submit
  <2>1. /\ UNCHANGED <<pc, node, lost, txCmdQueue, device>> /\ urb = <<>>
        /\ urb' = buffer /\ txWork'
    BY <1>9 DEF Submit, threads, Queue_work
  <2>2. Makers(<<>>) = {}
    BY DEF Makers
  <2>3. \A u \in Thread : Under_way(u) => Under_way(u)'
    BY <2>1, <2>2 DEF Under_way
  <2> QED BY <2>1, <2>3, <1>2
<1>10. CASE Submit_fails
  <2>1. /\ UNCHANGED <<pc, node, txCmdQueue, urb, device>>
        /\ lost' = lost \cup Makers(buffer) /\ txWork'
    BY <1>10 DEF Submit_fails, threads, Queue_work
  <2>2. \A u \in Thread : u \notin lost' /\ Under_way(u) => Under_way(u)'
    BY <2>1 DEF Under_way
  <2> QED BY <2>1, <2>2, <1>2
<1>11. ASSUME NEW ok \in BOOLEAN, Write_ends(ok) PROVE Goal
  <2>1. /\ UNCHANGED <<pc, node, txCmdQueue, buffer, txWork, sender>>
        /\ \/ device' = device \o urb /\ lost' = lost
           \/ device' = device /\ lost' = lost \cup Makers(urb)
    BY <1>11 DEF Write_ends, threads
  <2>2. \A u \in Thread :
            u \in Makers(device) \/ u \in Makers(urb) => u \in Makers(device \o urb)
    BY <1>c, MakersConcat
  <2>3. \A u \in Thread : u \notin lost' /\ Under_way(u) => Under_way(u)'
    BY <2>1, <2>2 DEF Under_way
  <2> QED BY <1>b, <2>1, <2>3, <1>2
<1>12. CASE Device_is_silent
  <2>1. /\ UNCHANGED <<pc, node, txCmdQueue, buffer, urb, txWork, sender>>
        /\ device # <<>> /\ device' = Tail(device)
        /\ lost' = lost \cup Makers(<<Head(device)>>)
    BY <1>12 DEF Device_is_silent, threads, write
  <2>2. ASSUME NEW u \in Thread, u \notin lost', u \in Makers(device)
        PROVE  u \in Makers(device')
    <3>1. Head(device) \in Owned
      BY <1>c, <2>1
    <3>2. Head(device).by # u
      BY <2>1, <2>2, <3>1, MakersOfOne
    <3> QED BY <1>c, <2>1, <2>2, <3>2, MakersTail
  <2>3. \A u \in Thread : u \notin lost' /\ Under_way(u) => Under_way(u)'
    BY <2>1, <2>2 DEF Under_way
  <2> QED BY <1>b, <2>1, <2>3, <1>2
<1>13. CASE Rx_read
  <2>1. /\ UNCHANGED <<pc, lost, txCmdQueue, buffer, urb, txWork, sender>>
        /\ device # <<>> /\ device' = Tail(device)
        /\ leaf_handle_command(Head(device))
    BY <1>13 DEF Rx_read, write
  <2> DEFINE Heard == {u \in Thread : pc[u] = "wait" /\ Head(device).by = u}
  <2>2. ASSUME NEW u \in Thread PROVE node[u].completed => node'[u].completed
    <3>1. node[u] # NoNode =>
             [node[u] EXCEPT !.completed = TRUE, !.reply = Head(device)].completed
      BY <1>c DEF Node
    <3> QED BY <2>1, <3>1 DEF leaf_handle_command
  <2>3. ASSUME NEW u \in Heard PROVE node'[u].completed
    <3>1. u \in replyWaitList /\ node[u] # NoNode
      BY DEF IInv, Inside
    <3>2. Head(device) = device[1] /\ 1 \in DOMAIN device /\ Head(device) \in Owned
      BY <1>c, <2>1
    <3>3. Head(device).cmd = node[u].cmdNr /\ Head(device).chan = chan[u]
      BY <3>2 DEF IInv, RequestsAreCurrent, Current, Owned
    <3>4. [node[u] EXCEPT !.completed = TRUE, !.reply = Head(device)].completed
      BY <1>c, <3>1 DEF Node
    <3> QED BY <2>1, <3>1, <3>3, <3>4 DEF leaf_handle_command, Matches
  <2>4. ASSUME NEW u \in Thread, pc[u] = "wait", u \notin Heard, u \in Makers(device)
        PROVE  u \in Makers(device')
    BY <1>c, <2>1, <2>4, MakersTail
  <2>5. ASSUME NEW u \in Thread, pc[u] = "wait", u \notin Heard, Under_way(u)
        PROVE  Under_way(u)'
    BY <2>1, <2>4, <2>5 DEF Under_way
  <2>6. ASSUME NEW u \in Thread PROVE Cared(u)'
    BY <1>b, <2>1, <2>2, <2>3, <2>5
  <2>7. Queue_cared'
    BY <1>b, <2>1
  <2> QED BY <2>6, <2>7
<1>14. CASE leaf_send \/ Previous_write_finished \/ Write_stalls
  <2>1. UNCHANGED <<pc, node, lost, txCmdQueue, buffer, urb, device>> /\ sender' # "idle"
    BY <1>14, <1>a DEF leaf_send, Previous_write_finished, Write_stalls, Send_to, threads
  <2> QED BY <2>1, <1>2, <1>3
<1>15. CASE Nothing_to_send
  <2>1. UNCHANGED <<pc, node, lost, txCmdQueue, buffer, urb, device>> /\ txCmdQueue = <<>>
    BY <1>15 DEF Nothing_to_send, threads
  <2> QED BY <2>1, <1>2, <1>3
<1>16. CASE UNCHANGED <<pc, node, lost, txCmdQueue, buffer, urb, device, txWork, sender>>
  BY <1>16, <1>b, <1>2, <1>3
<1>17. ~(Abandon_send \/ Card_is_gone \/ Rx_fails \/ leaf_remove \/ Removal)
  BY <1>a DEF Abandon_send, Card_is_gone, Rx_fails, leaf_remove, Removal, Sweep,
              Wait_for_closed, Kill_urb, Wait_for_write, Destroy_workqueue, Remove_to,
              IInv, Removing
<1> HIDE DEF Cared, Queue_cared, Rows
<1> QED
  BY <1>4, <1>5, <1>6, <1>7, <1>8, <1>9, <1>10, <1>11, <1>12, <1>13, <1>14, <1>15, <1>16,
     <1>17
  DEF Next, Thread_continues, Worker, vars, host, threads, write, Queue_full, Leave, Time_out

\* Whoever takes the write gives it back or has it in flight.
LEMMA StepWriteIsThere == IInv /\ [Next]_vars => WriteIsThere'
<1> SUFFICES ASSUME IInv, [Next]_vars PROVE WriteIsThere'
  OBVIOUS
<1> USE DEF IInv, TypeOK, WriteIsThere, Writes, Has, Holds_write, NoUrb
<1>1. ASSUME NEW t \in Thread, Return(t) PROVE WriteIsThere'
  <2>1. urb' = <<>> <=> urb = <<>>
    BY <1>1, ForgetType DEF Return, RequestsAreOwned
  <2> QED BY <1>1, <2>1 DEF Return, host
<1>2. CASE leaf_send
  BY <1>2 DEF leaf_send, Send_to, host
<1>3. CASE Previous_write_finished
  BY <1>3 DEF Previous_write_finished, Give_back, Send_to, host
<1>4. CASE Abandon_send
  BY <1>4 DEF Abandon_send, Complete_write, Send_to, host
<1>5. CASE Nothing_to_send
  BY <1>5 DEF Nothing_to_send, Complete_write, Send_to, host
<1>6. CASE Fill
  BY <1>6 DEF Fill, leaf_fill_usb_buffer, Send_to, host
<1>7. CASE Card_is_gone
  BY <1>7 DEF Card_is_gone, leaf_fill_usb_buffer, Transmission_failed,
              Complete_write, Send_to, host
<1>8. CASE Submit
  BY <1>8 DEF Submit, Send_to, host, BufferIsFree
<1>9. CASE Submit_fails
  BY <1>9 DEF Submit_fails, Transmission_failed, Complete_write, Send_to, host
<1>10. ASSUME NEW ok \in BOOLEAN, Write_ends(ok) PROVE WriteIsThere'
  BY <1>10 DEF Write_ends, leaf_write_bulk_callback, Complete_write, host
<1>11. CASE Kill_urb
  BY <1>11 DEF Kill_urb, Remove_to, leaf_write_bulk_callback, Complete_write
<1>12. CASE Write_stalls
  BY <1>12 DEF Write_stalls, Complete_write, Send_to, host
<1>13. CASE /\ UNCHANGED <<sender, urb, write_finished>>
            /\ \/ UNCHANGED remover
               \/ remover \notin {"destroy", "freed"}
               \/ remover' \in {"destroy", "freed"}
  BY <1>13
<1>14. CASE Wait_for_write
  BY <1>14 DEF Wait_for_write, Remove_to
<1> QED
  BY <1>1, <1>2, <1>3, <1>4, <1>5, <1>6, <1>7, <1>8, <1>9, <1>10, <1>11, <1>12, <1>13,
     <1>14
  DEF Next, Thread_continues, Worker, Removal, vars, host, threads, write, Call,
      List_add, leaf_queue_cmd, Queue_full, Completed, Leave, Time_out, Close,
      Device_is_silent, Rx_read, Rx_fails, leaf_remove, Sweep, Wait_for_closed,
      Destroy_workqueue, Remove_to

\* The invariant holds in every reachable state.
THEOREM Invariance == Spec => []IInv
<1>1. IInv /\ [Next]_vars => IInv'
  BY StepTypeOK, StepRequests, StepInside, StepAnswerIsOurs, StepRemoving,
     StepWriteOwned, StepWriteIsThere, StepCurrent, StepBuffer, StepUnderWay DEF IInv
<1> QED BY InitIInv, <1>1, PTL DEF Spec

\* Every variable has its type, and the command queue never holds more than its ring.
THEOREM TypeCorrect == Spec => []TypeOK
<1>1. IInv => TypeOK
  BY DEF IInv
<1> QED BY Invariance, <1>1, PTL

\* The list holds only nodes whose frame exists.
THEOREM NodesInside == Spec => []NodesAreInside
<1>1. IInv => NodesAreInside
  BY DEF IInv, Inside, NodesAreInside, TypeOK
<1> QED BY Invariance, <1>1, PTL

\* A call gets its own answer, or one that nobody waits for any more.
THEOREM AnswersAreOurs == Spec => []AnswerIsOurs
<1>1. IInv => AnswerIsOurs
  BY DEF IInv
<1> QED BY Invariance, <1>1, PTL

\* There is always a write to wait for, and one only while the card is there and no
\* write takes too long.
THEOREM WriteIsOne == Spec => []OneWrite
<1>1. IInv => OneWrite
  BY DEF IInv, WriteOwned, WriteIsThere, OneWrite
<1> QED BY Invariance, <1>1, PTL

\* A call that waits is answered already, was lost, or is with the worker, in flight
\* or at the device: what liveness rests on, for every instance.
THEOREM CallsAreUnderWay == Spec => []CallIsUnderWay
<1>1. IInv => CallIsUnderWay
  BY DEF IInv
<1> QED BY Invariance, <1>1, PTL

\* The card is freed when nobody uses it.
THEOREM FreedSafely == Spec => []FreedIsUnused
<1>1. IInv => FreedIsUnused
  <2> SUFFICES ASSUME IInv, remover = "freed" PROVE FreedIsUnused
    BY DEF FreedIsUnused
  <2>1. open = {} /\ sender = "idle" /\ ~txWork
    BY DEF IInv, Removing
  <2>2. \A t \in Thread : pc[t] = "idle" /\ t \notin replyWaitList
    BY <2>1 DEF IInv, Inside
  <2>3. stalls = 0 => urb = NoUrb
    BY DEF IInv, WriteOwned
  <2> QED BY <2>1, <2>2, <2>3 DEF FreedIsUnused, IInv, TypeOK
<1> QED BY Invariance, <1>1, PTL
=============================================================================
