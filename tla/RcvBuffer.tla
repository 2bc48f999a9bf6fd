----------------------------- MODULE RcvBuffer -----------------------------
(* The receive buffer of an open handle: the VCanReceiveData ring of        *)
(* VCanOsIf.c, filled by vCanDispatchEvent and emptied by the RECVMSG       *)
(* family of ioctls.  The dispatcher holds rcvLock from the push to the end *)
(* of its overrun handling, but a reader looks at the indices without the   *)
(* lock in the condition of its wait, so the dispatcher's critical section  *)
(* is two steps here; a reader's is one, nobody can look into it.           *)
EXTENDS Integers, Sequences

CONSTANTS Reader,    \* threads that read the handle
          Id,        \* CAN identifiers
          NoId,      \* content of an element never written
          size       \* elements of the ring

ASSUME SizeAssumption == size \in Nat /\ size >= 2
ASSUME NoIdAssumption == NoId \notin Id

VARIABLES
    bufHead, bufTail,  \* next element to write, oldest message
    valid,             \* FALSE: already taken by RECVMSG_SPECIFIC
    fileRcvBuffer,     \* the messages
    dispatching,       \* vCanDispatchEvent is between push and unlock
    cardPresent, removed,  \* the card is there; its channels were removed
    pc, op, woken,     \* a reader: its step, its ioctl, woken from rxWaitQ
    result, msg,       \* what its last ioctl returned
    lost               \* history: a message was dropped and the reader has
                       \* not yet received one that says so

ring == <<bufHead, bufTail, valid, fileRcvBuffer>>
reader == <<pc, op, woken, result, msg>>
vars == <<ring, dispatching, cardPresent, removed, reader, lost>>

Index == 0 .. size - 1
Message == [id : Id, over : BOOLEAN]
Nothing == [id |-> NoId, over |-> FALSE]
Skip == {"NO_SKIP", "SKIP_MATCHING", "SKIP_PRECEEDING"}

\* The ioctls a reader issues, with their timeout: none, some, or -1.
Op == [cmd : {"RECVMSG", "RECVMSG_SYNC"}, timeout : {"none", "some", "forever"}]
      \cup [cmd : {"RECVMSG_SPECIFIC"}, timeout : {"none", "some", "forever"},
            id : Id, skip : Skip]

\* A reader that is in no ioctl.
NoOp == [cmd |-> "none", timeout |-> "none"]

Init ==
    /\ bufHead = 0 /\ bufTail = 0
    /\ valid = [i \in Index |-> FALSE]
    /\ fileRcvBuffer = [i \in Index |-> Nothing]
    /\ dispatching = FALSE /\ cardPresent = TRUE /\ removed = FALSE
    /\ pc = [r \in Reader |-> "idle"]
    /\ op = [r \in Reader |-> NoOp]
    /\ woken = [r \in Reader |-> FALSE]
    /\ result = [r \in Reader |-> "none"]
    /\ msg = [r \in Reader |-> Nothing]
    /\ lost = FALSE

----------------------------------------------------------------------------
(* The ring.                                                                *)

At(i, k) == IF i + k >= size THEN i + k - size ELSE i + k

getQLen(head, tail) == IF head < tail THEN head - tail + size ELSE head - tail

Popped(tail, head, ok) ==
    LET Stops(k) == ok[At(tail, k)] \/ At(tail, k) = head
        steps == CHOOSE k \in 1 .. size :
                    Stops(k) /\ \A j \in 1 .. k - 1 : ~Stops(j)
    IN  At(tail, steps)

Readable == bufHead # bufTail

\* wake_up_interruptible(&rcv->rxWaitQ): everyone between prepare_to_wait and
\* the end of its wait.
Bug_no_wake_up == UNCHANGED woken

wake_up == woken' = [r \in Reader |-> woken[r] \/ pc[r] \in {"prepared", "asleep"}]

----------------------------------------------------------------------------
(* vCanDispatchEvent, for the one handle.  openLock keeps dispatchers of    *)
(* the same channel apart.  (A message the hardware already marked is       *)
(* passed on marked; arrivals here are unmarked.)                           *)

vCanPushReceiveBuffer(m) ==
    /\ cardPresent /\ ~dispatching
    /\ dispatching' = TRUE
    /\ fileRcvBuffer' = [fileRcvBuffer EXCEPT ![bufHead] = m]
    /\ valid' = [valid EXCEPT ![bufHead] = TRUE]
    /\ bufHead' = At(bufHead, 1)
    /\ wake_up
    /\ UNCHANGED <<bufTail, cardPresent, removed, pc, op, result, msg, lost>>

Dispatch_room ==
    /\ dispatching
    /\ getQLen(bufHead, bufTail) # 0
    /\ dispatching' = FALSE
    /\ UNCHANGED <<ring, cardPresent, removed, reader, lost>>

Dispatch_overrun ==
    /\ dispatching
    /\ getQLen(bufHead, bufTail) = 0
    /\ LET tail == Popped(bufTail, bufHead, valid)
       IN  /\ bufTail' = tail
           /\ fileRcvBuffer' = [fileRcvBuffer EXCEPT ![tail].over = TRUE]
    /\ lost' = TRUE
    /\ dispatching' = FALSE
    /\ UNCHANGED <<bufHead, valid, cardPresent, removed, reader>>

----------------------------------------------------------------------------
(* The card goes away: the driver clears cardPresent, then                  *)
(* vCanRemoveCardChannel wakes every reader.                                *)

Card_removed ==
    /\ cardPresent
    /\ cardPresent' = FALSE
    /\ UNCHANGED <<ring, dispatching, removed, reader, lost>>

vCanRemoveCardChannel ==
    /\ ~cardPresent /\ ~removed
    /\ wake_up
    /\ removed' = TRUE
    /\ UNCHANGED <<ring, dispatching, cardPresent, pc, op, result, msg, lost>>

----------------------------------------------------------------------------
(* A reader's ioctl.  wait_event_interruptible: prepare_to_wait, look at    *)
(* the condition, sleep until woken, again; finish_wait leaves the queue.   *)

buffer == <<ring, dispatching, cardPresent, removed, lost>>

Goto(r, step) == pc' = [pc EXCEPT ![r] = step]

\* The ioctl's locals begin and end with it.
Call(r, o) ==
    /\ pc[r] = "idle"
    /\ op' = [op EXCEPT ![r] = o]
    /\ result' = [result EXCEPT ![r] = "none"]
    /\ msg' = [msg EXCEPT ![r] = Nothing]
    /\ Goto(r, IF o.timeout = "none" THEN "locked" ELSE "wait")
    /\ UNCHANGED <<buffer, woken>>

Return(r, res) ==
    /\ op' = [op EXCEPT ![r] = NoOp]
    /\ result' = [result EXCEPT ![r] = res]
    /\ Goto(r, "idle")
    /\ UNCHANGED woken

prepare_to_wait(r) ==
    /\ pc[r] = "wait"
    /\ Goto(r, "prepared")
    /\ UNCHANGED <<buffer, op, woken, result, msg>>

finish_wait(r) ==
    /\ Goto(r, "done")
    /\ woken' = [woken EXCEPT ![r] = FALSE]

Bug_waits_for_an_absent_card(r) ==
    /\ pc[r] = "prepared"
    /\ IF Readable THEN finish_wait(r)
       ELSE Goto(r, "asleep") /\ UNCHANGED woken
    /\ UNCHANGED <<buffer, op, result, msg>>

Check_condition(r) ==
    /\ pc[r] = "prepared"
    /\ IF Readable \/ ~cardPresent THEN finish_wait(r)
       ELSE Goto(r, "asleep") /\ UNCHANGED woken
    /\ UNCHANGED <<buffer, op, result, msg>>

Wake(r) ==
    /\ pc[r] = "asleep" /\ woken[r]
    /\ Goto(r, "wait")
    /\ woken' = [woken EXCEPT ![r] = FALSE]
    /\ UNCHANGED <<buffer, op, result, msg>>

Bug_minus_one_is_a_number(r) ==
    /\ pc[r] = "asleep"
    /\ finish_wait(r)
    /\ UNCHANGED <<buffer, op, result, msg>>

Time_out(r) ==
    /\ pc[r] = "asleep" /\ op[r].timeout = "some"
    /\ finish_wait(r)
    /\ UNCHANGED <<buffer, op, result, msg>>

After_wait(r) ==
    /\ pc[r] = "done"
    /\ IF cardPresent
       THEN Goto(r, "locked") /\ UNCHANGED <<op, woken, result>>
       ELSE Return(r, "ESHUTDOWN")
    /\ UNCHANGED <<buffer, msg>>

\* Under rcvLock, which a dispatcher may hold.
Locked(r, cmd) == pc[r] = "locked" /\ op[r].cmd = cmd /\ ~dispatching

RECVMSG(r) ==
    /\ Locked(r, "RECVMSG") /\ Readable
    /\ msg' = [msg EXCEPT ![r] = fileRcvBuffer[bufTail]]
    /\ bufTail' = Popped(bufTail, bufHead, valid)
    /\ lost' = FALSE
    /\ Return(r, "OK")
    /\ UNCHANGED <<bufHead, valid, fileRcvBuffer, dispatching, cardPresent,
                   removed>>

RECVMSG_empty(r) ==
    /\ Locked(r, "RECVMSG") /\ ~Readable
    /\ Return(r, "EAGAIN")
    /\ UNCHANGED <<buffer, msg>>

\* Only tells whether there is something to read.
RECVMSG_SYNC(r) ==
    /\ Locked(r, "RECVMSG_SYNC")
    /\ Return(r, IF Readable THEN "OK" ELSE "ETIMEDOUT")
    /\ UNCHANGED <<buffer, msg>>

\* The places, counted from the tail, of untaken messages with an identifier.
Matches(id) ==
    {k \in 0 .. getQLen(bufHead, bufTail) - 1 :
        valid[At(bufTail, k)] /\ fileRcvBuffer[At(bufTail, k)].id = id}

First(places) == CHOOSE k \in places : \A j \in places : k <= j

\* The message found leaves the buffer as the caller asked.
Keep(k) == UNCHANGED <<valid, bufTail, lost>>

Take_matching(k) ==
    /\ valid' = [valid EXCEPT ![At(bufTail, k)] = FALSE]
    /\ IF k = 0
       THEN bufTail' = Popped(bufTail, bufHead, valid') /\ lost' = FALSE
       ELSE UNCHANGED <<bufTail, lost>>

Bug_keeps_the_message_found(k) ==
    /\ bufTail' = At(bufTail, k)
    /\ lost' = FALSE
    /\ UNCHANGED valid

Skip_preceeding(k) ==
    /\ bufTail' = Popped(At(bufTail, k), bufHead, valid)
    /\ lost' = FALSE
    /\ UNCHANGED valid

\* Whether an untaken message before the one found is marked.
Bug_no_flags(k) == FALSE

flags(k) ==
    \E j \in 0 .. k - 1 :
        valid[At(bufTail, j)] /\ fileRcvBuffer[At(bufTail, j)].over

read_specific(r) ==
    /\ Locked(r, "RECVMSG_SPECIFIC") /\ Matches(op[r].id) # {}
    /\ LET k == First(Matches(op[r].id))
       IN  /\ msg' = [msg EXCEPT ![r] =
                  [fileRcvBuffer[At(bufTail, k)] EXCEPT !.over = @ \/ flags(k)]]
           /\ \/ op[r].skip = "NO_SKIP" /\ Keep(k)
              \/ op[r].skip = "SKIP_MATCHING" /\ Take_matching(k)
              \/ op[r].skip = "SKIP_PRECEEDING" /\ Skip_preceeding(k)
    /\ Return(r, "OK")
    /\ UNCHANGED <<bufHead, fileRcvBuffer, dispatching, cardPresent, removed>>

\* Nothing matched: out of time, or wait again (at once if there is any
\* message at all).
RECVMSG_SPECIFIC_none(r) ==
    /\ Locked(r, "RECVMSG_SPECIFIC") /\ Matches(op[r].id) = {}
    /\ \/ /\ op[r].timeout # "forever"
          /\ Return(r, IF op[r].skip = "NO_SKIP" THEN "ETIMEDOUT" ELSE "EAGAIN")
       \/ /\ op[r].timeout # "none"
          /\ Goto(r, "wait") /\ UNCHANGED <<op, woken, result>>
    /\ UNCHANGED <<buffer, msg>>

\* FLUSH_RCVBUFFER, and the flush BUS_ON and BUS_OFF begin with.
vCanFlushReceiveBuffer(r) ==
    /\ pc[r] = "idle" /\ ~dispatching
    /\ bufTail' = 0 /\ bufHead' = 0
    /\ lost' = FALSE
    /\ UNCHANGED <<valid, fileRcvBuffer, dispatching, cardPresent, removed,
                   reader>>

----------------------------------------------------------------------------

Dispatcher == Dispatch_room \/ Dispatch_overrun

\* An ioctl in progress goes on.
Ioctl_step(r) ==
    \/ prepare_to_wait(r) \/ Check_condition(r) \/ Wake(r) \/ Time_out(r)
    \/ After_wait(r) \/ RECVMSG(r) \/ RECVMSG_empty(r) \/ RECVMSG_SYNC(r)
    \/ read_specific(r) \/ RECVMSG_SPECIFIC_none(r)

Next ==
    \/ \E id \in Id : vCanPushReceiveBuffer([id |-> id, over |-> FALSE])
    \/ Dispatcher
    \/ Card_removed \/ vCanRemoveCardChannel
    \/ \E r \in Reader :
          \/ \E o \in Op : Call(r, o)
          \/ Ioctl_step(r)
          \/ vCanFlushReceiveBuffer(r)

Spec == Init /\ [][Next]_vars

\* The dispatcher does not stop inside its critical section, a runnable reader
\* is scheduled, and whoever clears cardPresent goes on to remove the channel.
\* Nothing makes messages arrive.
Fairness ==
    /\ WF_vars(Dispatcher) /\ WF_vars(vCanRemoveCardChannel)
    /\ \A r \in Reader : WF_vars(Ioctl_step(r))

FairSpec == Spec /\ Fairness

----------------------------------------------------------------------------
(* What must hold.                                                          *)

\* Every variable has its type; the indices stay in the ring.
TypeOK ==
    /\ bufHead \in Index /\ bufTail \in Index
    /\ valid \in [Index -> BOOLEAN]
    /\ fileRcvBuffer \in [Index -> Message \cup {Nothing}]
    /\ dispatching \in BOOLEAN /\ lost \in BOOLEAN
    /\ cardPresent \in BOOLEAN /\ removed \in BOOLEAN
    /\ pc \in [Reader -> {"idle", "wait", "prepared", "asleep", "done",
                          "locked"}]
    /\ op \in [Reader -> Op \cup {NoOp}]
    /\ woken \in [Reader -> BOOLEAN]
    /\ result \in [Reader -> {"none", "OK", "EAGAIN", "ETIMEDOUT", "ESHUTDOWN"}]
    /\ msg \in [Reader -> Message \cup {Nothing}]

\* No reader receives a message after a loss without the overrun flag on it,
\* in whichever order it picks messages from the buffer.
NoSilentLoss ==
    [][\A r \in Reader :
          lost /\ pc[r] = "locked" /\ pc'[r] = "idle" /\ result'[r] = "OK"
               /\ op[r].cmd # "RECVMSG_SYNC"
            => msg'[r].over]_vars

\* A thread alone on its handle that waits without a time limit is never sent
\* back empty-handed while the card is there.
NoFalseAlarm ==
    [][\A r \in Reader :
          op[r].timeout = "forever" /\ pc[r] = "locked" /\ pc'[r] = "idle"
            => result'[r] = "OK"]_vars

\* The row of places: from the tail, up to the message being dispatched.
Occupied ==
    LET n == getQLen(bufHead, bufTail)
    IN  IF ~dispatching THEN n ELSE IF n = 0 THEN size - 1 ELSE n - 1

Box == [k \in 1 .. Occupied |->
           LET i == At(bufTail, k - 1)
           IN  IF valid[i] THEN fileRcvBuffer[i] ELSE Nothing]

\* The ring implements the mailbox: arrival order, every message once, and
\* only the oldest is given up, when size - 1 places are taken.
Mail == INSTANCE Mailbox
            WITH box <- Box, got <- msg, Capacity <- size - 1
MailSpec == Mail!Spec

\* Nobody sleeps on what it waits for: a reader alone on its handle that is asleep
\* with a message in the buffer, or with its channel removed, was woken, unless the
\* buffer overflowed.
SleeperIsTold ==
    \A r \in Reader :
        pc[r] = "asleep" /\ ~woken[r] => ~removed /\ (Readable => lost)

\* A reader asleep while there is a message wakes up, whatever it waits for,
\* unless the buffer overflowed.
MessageWakesReader ==
    \A r \in Reader :
        (pc[r] = "asleep" /\ Readable /\ ~dispatching)
            ~> pc[r] # "asleep" \/ lost

\* canReadWait without a time limit, that is RECVMSG with timeout -1, returns
\* when there is a message.
ReadWaitSeesMessage ==
    \A r \in Reader :
        (/\ pc[r] = "asleep" /\ Readable /\ ~dispatching
         /\ op[r].cmd = "RECVMSG" /\ op[r].timeout = "forever")
            ~> pc[r] # "asleep"

\* When the card is removed every waiting ioctl returns.
RemovalEndsWait ==
    \A r \in Reader : (pc[r] # "idle" /\ ~cardPresent) ~> pc[r] = "idle"
============================================================================
