-------------------------- MODULE RcvBuffer_proofs -------------------------
(* RcvBuffer, for a ring of any size, any number of readers and any          *)
(* identifiers: no loss goes unmarked, whatever is read in whichever order,  *)
(* a reader alone on its handle is not woken for nothing, and the ring       *)
(* implements the mailbox.                                                   *)
EXTENDS RcvBuffer, SequenceTheorems, WellFoundedInduction, TLAPS

USE SizeAssumption, NoIdAssumption

Steps == {"idle", "wait", "prepared", "asleep", "done", "locked"}
Results == {"none", "OK", "EAGAIN", "ETIMEDOUT", "ESHUTDOWN"}

\* The oldest place is never one that was taken.
TailIsUnread == bufHead # bufTail => valid[bufTail]

\* What is not taken was written.
UnreadIsMessage == \A i \in Index : valid[i] => fileRcvBuffer[i] \in Message

\* The message that is being dispatched stands before the head.
PushedIsThere == dispatching => valid[At(bufHead, size - 1)]

\* A loss is marked on the oldest message, or the dispatcher is about to drop
\* that one and mark the next.
LossIsMarked ==
    lost => IF bufHead # bufTail THEN fileRcvBuffer[bufTail].over ELSE dispatching

RingInv ==
    /\ TypeOK
    /\ TailIsUnread
    /\ UnreadIsMessage
    /\ PushedIsThere
    /\ LossIsMarked

----------------------------------------------------------------------------
(* Sets of numbers: the least-number principle of the library, with a set   *)
(* in the place of a predicate.                                             *)

Below == {p \in Nat \X Nat : p[1] < p[2]}

\* A set of natural numbers that is not empty has a least element.
LEMMA LeastElement ==
    ASSUME NEW T, T \subseteq Nat, T # {}
    PROVE  \E m \in T : \A k \in T : m <= k
<1>1. /\ IsWellFoundedOn(Below, Nat)
      /\ \A x, y \in Nat : y < x => <<y, x>> \in Below
  BY NatLessThanWellFounded DEF OpToRel, Below
<1>2. \E x \in T : \A y \in T : ~ (<<y, x>> \in Below)
  BY <1>1, WFMin, Zenon
<1>3. PICK m \in T : \A y \in T : ~ (<<y, m>> \in Below)
  BY <1>2
<1>4. ASSUME NEW k \in T PROVE m <= k
  <2>1. m \in Nat /\ k \in Nat
    OBVIOUS
  <2>2. ~(k < m)
    BY <1>1, <1>3, <2>1
  <2> QED BY <2>1, <2>2
<1> QED BY <1>4

----------------------------------------------------------------------------
(* Places of the ring.                                                      *)

\* At stays in the ring; it goes round once.
LEMMA AtIsIndex ==
    ASSUME NEW i \in Index, NEW k \in 0 .. size PROVE At(i, k) \in Index
  BY DEF At, Index

\* Different distances are different places.
LEMMA AtIsInjective ==
    ASSUME NEW i \in Index, NEW j \in 0 .. size - 1, NEW k \in 0 .. size - 1,
           At(i, j) = At(i, k)
    PROVE  j = k
  BY DEF At, Index

\* A distance of 0 or of the whole ring is none; the place before the next is
\* this one.
LEMMA AtRound ==
    ASSUME NEW i \in Index
    PROVE  /\ At(i, 0) = i /\ At(i, size) = i /\ At(i, 1) # i
           /\ At(At(i, 1), size - 1) = i /\ At(i, size - 1) # i
  BY DEF At, Index

\* The loop of vCanPopReceiveBuffer ends: at a place that is not taken or at
\* the head, and nothing it passes is either.
LEMMA PoppedStops ==
    ASSUME NEW tail \in Index, NEW head \in Index, NEW ok \in [Index -> BOOLEAN]
    PROVE  \E k \in 1 .. size :
              /\ Popped(tail, head, ok) = At(tail, k)
              /\ ok[At(tail, k)] \/ At(tail, k) = head
              /\ \A j \in 1 .. k - 1 : ~ok[At(tail, j)] /\ At(tail, j) # head
<1> DEFINE Stops(k) == ok[At(tail, k)] \/ At(tail, k) = head
           S == {k \in 1 .. size : Stops(k)}
<1>1. \E k \in 1 .. size : At(tail, k) = head
  <2>1. CASE head > tail
    <3>1. head - tail \in 1 .. size /\ At(tail, head - tail) = head
      BY <2>1 DEF At, Index
    <3> QED BY <3>1
  <2>2. CASE head <= tail
    <3>1. head - tail + size \in 1 .. size /\ At(tail, head - tail + size) = head
      BY <2>2 DEF At, Index
    <3> QED BY <3>1
  <2> QED BY <2>1, <2>2 DEF Index
<1>2. S \subseteq Nat /\ S # {}
  BY <1>1
<1>3. PICK m \in S : \A k \in S : m <= k
  BY <1>2, LeastElement
<1>4. Stops(m) /\ \A j \in 1 .. m - 1 : ~Stops(j)
  BY <1>3
<1>5. m \in 1 .. size
  BY <1>3
<1> DEFINE steps == CHOOSE k \in 1 .. size :
                       Stops(k) /\ \A j \in 1 .. k - 1 : ~Stops(j)
<1> HIDE DEF S
<1>6. /\ steps \in 1 .. size
      /\ Stops(steps) /\ \A j \in 1 .. steps - 1 : ~Stops(j)
  <2> HIDE DEF Stops
  <2> QED BY <1>4, <1>5
<1>7. Popped(tail, head, ok) = At(tail, steps)
  BY DEF Popped
<1> HIDE DEF steps
<1> QED BY <1>6, <1>7

\* The tail it leaves is a place, and one that is not taken or the head.
LEMMA PoppedType ==
    ASSUME NEW tail \in Index, NEW head \in Index, NEW ok \in [Index -> BOOLEAN]
    PROVE  /\ Popped(tail, head, ok) \in Index
           /\ Popped(tail, head, ok) # head => ok[Popped(tail, head, ok)]
<1>1. PICK k \in 1 .. size :
          /\ Popped(tail, head, ok) = At(tail, k)
          /\ ok[At(tail, k)] \/ At(tail, k) = head
  BY PoppedStops
<1> QED BY <1>1, AtIsIndex

\* With the message just pushed in it a full ring is not emptied.
LEMMA PoppedOfFull ==
    ASSUME NEW tail \in Index, NEW ok \in [Index -> BOOLEAN],
           ok[At(tail, size - 1)]
    PROVE  Popped(tail, tail, ok) # tail
<1>1. PICK k \in 1 .. size :
          /\ Popped(tail, tail, ok) = At(tail, k)
          /\ \A j \in 1 .. k - 1 : ~ok[At(tail, j)]
  BY PoppedStops
<1>2. k # size
  BY <1>1
<1> QED BY <1>1, <1>2, AtIsInjective, AtRound

\* The message that a specific read finds is in the ring, is not taken and has
\* the identifier asked for.
LEMMA FirstMatch ==
    ASSUME NEW id, Matches(id) # {}, bufHead \in Index, bufTail \in Index
    PROVE  /\ First(Matches(id)) \in 0 .. size - 2
           /\ First(Matches(id)) < getQLen(bufHead, bufTail)
           /\ valid[At(bufTail, First(Matches(id)))]
<1>1. getQLen(bufHead, bufTail) \in 0 .. size - 1
  BY DEF getQLen, Index
<1>2. Matches(id) \subseteq Nat
  BY <1>1 DEF Matches
<1>3. \E k \in Matches(id) : \A j \in Matches(id) : k <= j
  BY <1>2, LeastElement
<1>4. First(Matches(id)) \in Matches(id)
  BY <1>3 DEF First
<1> QED BY <1>1, <1>4 DEF Matches

----------------------------------------------------------------------------
(* The invariant.                                                           *)

USE DEF ring, reader, buffer

\* A handle is opened with an empty ring and nobody in an ioctl.
LEMMA InitRing == Init => RingInv
<1> SUFFICES ASSUME Init PROVE RingInv
  OBVIOUS
<1>1. 0 \in Index
  BY DEF Index
<1>2. TypeOK
  BY <1>1 DEF Init, TypeOK
<1>3. TailIsUnread /\ UnreadIsMessage /\ PushedIsThere /\ LossIsMarked
  BY <1>1 DEF Init, TailIsUnread, UnreadIsMessage, PushedIsThere, LossIsMarked
<1> QED BY <1>2, <1>3 DEF RingInv

\* What a reader is handed is a message.
LEMMA HandedOut ==
    ASSUME RingInv, NEW i \in Index, valid[i], NEW b \in BOOLEAN
    PROVE  /\ fileRcvBuffer[i] \in Message
           /\ [fileRcvBuffer[i] EXCEPT !.over = b] \in Message
           /\ [fileRcvBuffer[i] EXCEPT !.over = b].over = b
  BY DEF RingInv, UnreadIsMessage, Message

\* The steps of an ioctl that look at the ring and leave it.
Only_looks(r) ==
    \/ prepare_to_wait(r) \/ Check_condition(r) \/ Wake(r) \/ Time_out(r)
    \/ After_wait(r) \/ RECVMSG_empty(r) \/ RECVMSG_SYNC(r)
    \/ RECVMSG_SPECIFIC_none(r) \/ \E o \in Op : Call(r, o)

\* They change nothing of it.
LEMMA LookingChangesNothing ==
    ASSUME NEW r \in Reader, Only_looks(r)
    PROVE  UNCHANGED <<bufHead, bufTail, valid, fileRcvBuffer, dispatching, cardPresent,
                       removed, lost>>
  BY DEF Only_looks, prepare_to_wait, Check_condition, Wake, Time_out, After_wait,
         RECVMSG_empty, RECVMSG_SYNC, RECVMSG_SPECIFIC_none, Call

\* They lead from step to step.
LEMMA LookingType ==
    ASSUME NEW r \in Reader, Only_looks(r), TypeOK
    PROVE  /\ pc' \in [Reader -> Steps] /\ op' \in [Reader -> Op \cup {NoOp}]
           /\ woken' \in [Reader -> BOOLEAN] /\ result' \in [Reader -> Results]
           /\ msg' \in [Reader -> Message \cup {Nothing}]
<1> USE DEF TypeOK, Steps, Results, Goto, Return, finish_wait
<1>1. CASE prepare_to_wait(r) \/ Check_condition(r) \/ Wake(r) \/ Time_out(r)
  BY <1>1 DEF prepare_to_wait, Check_condition, Wake, Time_out
<1>2. CASE After_wait(r) \/ RECVMSG_empty(r) \/ RECVMSG_SYNC(r)
  BY <1>2 DEF After_wait, RECVMSG_empty, RECVMSG_SYNC
<1>3. CASE RECVMSG_SPECIFIC_none(r)
  BY <1>3 DEF RECVMSG_SPECIFIC_none
<1>4. ASSUME NEW o \in Op, Call(r, o)
      PROVE  /\ pc' \in [Reader -> Steps] /\ op' \in [Reader -> Op \cup {NoOp}]
             /\ woken' \in [Reader -> BOOLEAN] /\ result' \in [Reader -> Results]
             /\ msg' \in [Reader -> Message \cup {Nothing}]
  BY <1>4 DEF Call
<1> QED BY <1>1, <1>2, <1>3, <1>4 DEF Only_looks

\* A reader that got a message is back in the application.
LEMMA ReturnType ==
    ASSUME NEW r \in Reader, NEW m \in Message, TypeOK, Return(r, "OK"),
           msg' = [msg EXCEPT ![r] = m]
    PROVE  /\ pc' \in [Reader -> Steps] /\ op' \in [Reader -> Op \cup {NoOp}]
           /\ woken' \in [Reader -> BOOLEAN] /\ result' \in [Reader -> Results]
           /\ msg' \in [Reader -> Message \cup {Nothing}]
  BY DEF TypeOK, Steps, Results, Return, Goto

\* The places of the ring keep their invariant under everything that writes them.
LEMMA PushKeeps ==
    ASSUME RingInv, NEW id \in Id,
           vCanPushReceiveBuffer([id |-> id, over |-> FALSE])
    PROVE  RingInv'
<1> DEFINE m == [id |-> id, over |-> FALSE]
<1>1. m \in Message
  BY DEF Message
<1> HIDE DEF m
<1>2. /\ bufHead \in Index /\ bufTail \in Index /\ bufTail' = bufTail
      /\ bufHead' = At(bufHead, 1) /\ dispatching' = TRUE /\ lost' = lost
      /\ valid' = [valid EXCEPT ![bufHead] = TRUE]
      /\ fileRcvBuffer' = [fileRcvBuffer EXCEPT ![bufHead] = m]
      /\ ~dispatching
      /\ valid \in [Index -> BOOLEAN]
      /\ fileRcvBuffer \in [Index -> Message \cup {Nothing}]
  BY DEF vCanPushReceiveBuffer, RingInv, TypeOK, m
<1>3. bufHead' \in Index /\ At(bufHead', size - 1) = bufHead /\ bufHead' # bufHead
  BY <1>2, AtRound, AtIsIndex
<1>4. TypeOK'
  <2>1. woken' \in [Reader -> BOOLEAN]
    BY DEF vCanPushReceiveBuffer, wake_up, RingInv, TypeOK
  <2>2. fileRcvBuffer' \in [Index -> Message \cup {Nothing}] /\ valid' \in [Index -> BOOLEAN]
    BY <1>1, <1>2
  <2> QED BY <1>2, <1>3, <2>1, <2>2 DEF vCanPushReceiveBuffer, RingInv, TypeOK
<1>5. UnreadIsMessage'
  BY <1>1, <1>2 DEF RingInv, UnreadIsMessage
<1>6. PushedIsThere'
  BY <1>2, <1>3 DEF PushedIsThere
<1>7. TailIsUnread'
  BY <1>2 DEF RingInv, TailIsUnread
<1>8. LossIsMarked'
  BY <1>2 DEF RingInv, LossIsMarked
<1> QED BY <1>4, <1>5, <1>6, <1>7, <1>8 DEF RingInv

\* With the mark set on the message that is now oldest.
LEMMA OverrunKeeps ==
    ASSUME RingInv, Dispatch_overrun PROVE RingInv'
<1> DEFINE tail == Popped(bufTail, bufHead, valid)
<1>1. /\ bufHead \in Index /\ bufTail \in Index /\ dispatching
      /\ valid \in [Index -> BOOLEAN]
      /\ fileRcvBuffer \in [Index -> Message \cup {Nothing}]
      /\ bufTail' = tail /\ bufHead' = bufHead /\ valid' = valid
      /\ fileRcvBuffer' = [fileRcvBuffer EXCEPT ![tail].over = TRUE]
      /\ lost' = TRUE /\ dispatching' = FALSE
  BY DEF Dispatch_overrun, RingInv, TypeOK
<1>2. bufHead = bufTail
  BY <1>1 DEF Dispatch_overrun, getQLen, Index
<1>3. tail \in Index /\ tail # bufHead /\ valid[tail]
  BY <1>1, <1>2, PoppedType, PoppedOfFull DEF RingInv, PushedIsThere
<1> HIDE DEF tail
<1>4. fileRcvBuffer[tail] \in Message
  BY <1>3 DEF RingInv, UnreadIsMessage
<1>5. /\ fileRcvBuffer'[tail] \in Message /\ fileRcvBuffer'[tail].over = TRUE
      /\ \A i \in Index : i # tail => fileRcvBuffer'[i] = fileRcvBuffer[i]
      /\ fileRcvBuffer' \in [Index -> Message \cup {Nothing}]
  BY <1>1, <1>3, <1>4 DEF Message
<1>6. TypeOK'
  BY <1>1, <1>3, <1>5 DEF Dispatch_overrun, RingInv, TypeOK
<1>7. UnreadIsMessage'
  BY <1>1, <1>5 DEF RingInv, UnreadIsMessage
<1>8. TailIsUnread' /\ PushedIsThere' /\ LossIsMarked'
  BY <1>1, <1>3, <1>5 DEF TailIsUnread, PushedIsThere, LossIsMarked
<1> QED BY <1>6, <1>7, <1>8 DEF RingInv

\* The oldest is handed out, the next untaken one is oldest.
LEMMA ReadKeeps ==
    ASSUME RingInv, NEW r \in Reader, RECVMSG(r) PROVE RingInv'
<1>1. /\ bufHead \in Index /\ bufTail \in Index /\ valid \in [Index -> BOOLEAN]
      /\ valid[bufTail] /\ ~dispatching
  BY DEF RECVMSG, Readable, Locked, RingInv, TypeOK, TailIsUnread
<1>2. /\ bufTail' = Popped(bufTail, bufHead, valid)
      /\ bufHead' = bufHead /\ valid' = valid /\ fileRcvBuffer' = fileRcvBuffer
      /\ lost' = FALSE /\ dispatching' = dispatching
      /\ msg' = [msg EXCEPT ![r] = fileRcvBuffer[bufTail]]
  BY DEF RECVMSG
<1>3. bufTail' \in Index /\ (bufTail' # bufHead => valid[bufTail'])
  BY <1>1, <1>2, PoppedType
<1>4. TypeOK'
  <2>1. fileRcvBuffer[bufTail] \in Message
    BY <1>1 DEF RingInv, UnreadIsMessage
  <2>2. /\ pc' \in [Reader -> Steps] /\ op' \in [Reader -> Op \cup {NoOp}]
        /\ woken' \in [Reader -> BOOLEAN] /\ result' \in [Reader -> Results]
        /\ msg' \in [Reader -> Message \cup {Nothing}]
    BY <1>2, <2>1, ReturnType DEF RECVMSG, RingInv
  <2> QED BY <1>2, <1>3, <2>2 DEF RECVMSG, RingInv, TypeOK, Steps, Results
<1>5. TailIsUnread' /\ UnreadIsMessage' /\ PushedIsThere' /\ LossIsMarked'
  BY <1>1, <1>2, <1>3
  DEF RingInv, TailIsUnread, UnreadIsMessage, PushedIsThere, LossIsMarked
<1> QED BY <1>4, <1>5 DEF RingInv

\* Whatever a specific read takes or skips.
LEMMA SpecificKeeps ==
    ASSUME RingInv, NEW r \in Reader, read_specific(r) PROVE RingInv'
<1> DEFINE k == First(Matches(op[r].id))
           found == At(bufTail, k)
           m == [fileRcvBuffer[found] EXCEPT !.over = @ \/ flags(k)]
<1>1. /\ bufHead \in Index /\ bufTail \in Index /\ valid \in [Index -> BOOLEAN]
      /\ ~dispatching /\ Matches(op[r].id) # {}
  BY DEF read_specific, Locked, RingInv, TypeOK
<1>2. /\ k \in 0 .. size - 2 /\ valid[found]
  BY <1>1, FirstMatch
<1>3. found \in Index /\ (k = 0 <=> found = bufTail)
  BY <1>1, <1>2, AtIsIndex, AtIsInjective, AtRound
<1>4. /\ \/ Keep(k) \/ Take_matching(k) \/ Skip_preceeding(k)
      /\ msg' = [msg EXCEPT ![r] = m] /\ Return(r, "OK")
      /\ bufHead' = bufHead /\ fileRcvBuffer' = fileRcvBuffer
      /\ dispatching' = dispatching /\ cardPresent' = cardPresent /\ removed' = removed
  BY DEF read_specific
<1>5. m \in Message
  <2>1. fileRcvBuffer[found] \in Message
    BY <1>2, <1>3 DEF RingInv, UnreadIsMessage
  <2>2. (fileRcvBuffer[found].over \/ flags(k)) \in BOOLEAN
    BY <2>1 DEF flags
  <2> HIDE DEF found
  <2> QED BY <2>1, <2>2 DEF Message
<1> HIDE DEF k, found, m
<1>6. /\ bufTail' \in Index /\ valid' \in [Index -> BOOLEAN] /\ lost' \in BOOLEAN
      /\ \A i \in Index : valid'[i] => valid[i]
      /\ bufHead # bufTail' => valid'[bufTail']
      /\ lost' => lost /\ bufTail' = bufTail
  <2>1. CASE Keep(k)
    BY <1>1, <2>1 DEF Keep, RingInv, TypeOK, TailIsUnread
  <2>2. CASE Take_matching(k)
    <3>1. valid' = [valid EXCEPT ![found] = FALSE]
      BY <2>2 DEF Take_matching, found
    <3>2. valid' \in [Index -> BOOLEAN] /\ \A i \in Index : valid'[i] => valid[i]
      BY <1>1, <1>3, <3>1
    <3>3. CASE k = 0
      <4>1. bufTail' = Popped(bufTail, bufHead, valid') /\ lost' = FALSE
        BY <2>2, <3>3 DEF Take_matching
      <4> QED BY <1>1, <3>2, <4>1, PoppedType
    <3>4. CASE k # 0
      <4>1. bufTail' = bufTail /\ lost' = lost
        BY <2>2, <3>4 DEF Take_matching
      <4>2. valid'[bufTail] = valid[bufTail]
        BY <1>1, <1>3, <3>1, <3>4
      <4> QED BY <1>1, <3>2, <4>1, <4>2 DEF RingInv, TypeOK, TailIsUnread
    <3> QED BY <3>3, <3>4
  <2>3. CASE Skip_preceeding(k)
    <3>1. bufTail' = Popped(found, bufHead, valid) /\ lost' = FALSE /\ valid' = valid
      BY <2>3 DEF Skip_preceeding, found
    <3> QED BY <1>1, <1>3, <3>1, PoppedType
  <2> QED BY <1>4, <2>1, <2>2, <2>3
<1>7. TypeOK'
  <2>1. /\ pc' \in [Reader -> Steps] /\ op' \in [Reader -> Op \cup {NoOp}]
        /\ woken' \in [Reader -> BOOLEAN] /\ result' \in [Reader -> Results]
        /\ msg' \in [Reader -> Message \cup {Nothing}]
    BY <1>4, <1>5, ReturnType DEF RingInv
  <2> QED BY <1>4, <1>6, <2>1 DEF RingInv, TypeOK, Steps, Results
<1>8. TailIsUnread' /\ UnreadIsMessage' /\ PushedIsThere' /\ LossIsMarked'
  BY <1>1, <1>4, <1>6
  DEF RingInv, TailIsUnread, UnreadIsMessage, PushedIsThere, LossIsMarked
<1> QED BY <1>7, <1>8 DEF RingInv

\* Every step keeps the invariant.
LEMMA StepRing == RingInv /\ [Next]_vars => RingInv'
<1> SUFFICES ASSUME RingInv, [Next]_vars PROVE RingInv'
  OBVIOUS
<1>1. ASSUME NEW id \in Id, vCanPushReceiveBuffer([id |-> id, over |-> FALSE])
      PROVE  RingInv'
  BY <1>1, PushKeeps
<1>2. CASE Dispatch_overrun
  BY <1>2, OverrunKeeps
<1>3. ASSUME NEW r \in Reader, RECVMSG(r) PROVE RingInv'
  BY <1>3, ReadKeeps
<1>4. ASSUME NEW r \in Reader, read_specific(r) PROVE RingInv'
  BY <1>4, SpecificKeeps
<1> USE DEF RingInv, TailIsUnread, UnreadIsMessage, PushedIsThere, LossIsMarked
<1>5. CASE Dispatch_room
  <2>1. bufHead # bufTail
    BY <1>5 DEF Dispatch_room, getQLen, TypeOK, Index
  <2> QED BY <1>5, <2>1 DEF Dispatch_room, TypeOK
<1>6. CASE Card_removed
  BY <1>6 DEF Card_removed, TypeOK
<1>7. CASE vCanRemoveCardChannel
  BY <1>7 DEF vCanRemoveCardChannel, wake_up, TypeOK
<1>8. ASSUME NEW r \in Reader, Only_looks(r) PROVE RingInv'
  <2>1. TypeOK'
    BY <1>8, LookingType, LookingChangesNothing DEF TypeOK, Steps, Results
  <2> QED BY <1>8, <2>1, LookingChangesNothing
<1>9. ASSUME NEW r \in Reader, vCanFlushReceiveBuffer(r) PROVE RingInv'
  <2>1. 0 \in Index
    BY DEF Index
  <2> QED BY <1>9, <2>1 DEF vCanFlushReceiveBuffer, TypeOK
<1>10. CASE UNCHANGED vars
  BY <1>10 DEF vars, TypeOK
<1> QED BY <1>1, <1>2, <1>3, <1>4, <1>5, <1>6, <1>7, <1>8, <1>9, <1>10
        DEF Next, Dispatcher, Ioctl_step, Only_looks

\* It holds always.
LEMMA Invariant == Spec => []RingInv
  BY InitRing, StepRing, PTL DEF Spec

\* Every variable has its type; the indices stay in the ring.
THEOREM TypeCorrect == Spec => []TypeOK
<1>1. RingInv => TypeOK
  BY DEF RingInv
<1> QED BY <1>1, Invariant, PTL

\* A message handed out after a loss says so.
Told(r) ==
    lost /\ pc[r] = "locked" /\ pc'[r] = "idle" /\ result'[r] = "OK"
         /\ op[r].cmd # "RECVMSG_SYNC"
      => msg'[r].over

\* Every step that hands one out.
LEMMA ReadTells == ASSUME RingInv, [Next]_vars, NEW r \in Reader PROVE Told(r)
<1> USE DEF RingInv, Told
<1>1. CASE UNCHANGED pc
  BY <1>1
<1>2. CASE pc' # pc
  <2>1. PICK q \in Reader :
            (\E o \in Op : Call(q, o)) \/ Ioctl_step(q)
    BY <1>2
    DEF Next, vars, vCanPushReceiveBuffer, Dispatcher, Dispatch_room, Dispatch_overrun,
        Card_removed, vCanRemoveCardChannel, vCanFlushReceiveBuffer
  <2>2. CASE RECVMSG(q)
    <3>1. lost => fileRcvBuffer[bufTail].over
      BY <2>2 DEF RECVMSG, Readable, LossIsMarked
    <3>2. msg' = [msg EXCEPT ![q] = fileRcvBuffer[bufTail]] /\ pc' = [pc EXCEPT ![q] = "idle"]
      BY <2>2 DEF RECVMSG, Return, Goto
    <3> QED BY <3>1, <3>2 DEF TypeOK
  <2>3. CASE read_specific(q)
    <3> DEFINE k == First(Matches(op[q].id))
               m == fileRcvBuffer[At(bufTail, k)]
    <3>1. /\ msg' = [msg EXCEPT ![q] = [m EXCEPT !.over = @ \/ flags(k)]]
          /\ pc' = [pc EXCEPT ![q] = "idle"]
          /\ Matches(op[q].id) # {} /\ ~dispatching
      BY <2>3 DEF read_specific, Return, Goto, Locked
    <3>2. /\ k \in 0 .. size - 2 /\ k < getQLen(bufHead, bufTail)
          /\ valid[At(bufTail, k)] /\ At(bufTail, k) \in Index
      BY <3>1, FirstMatch, AtIsIndex DEF TypeOK
    <3>3. bufHead # bufTail
      BY <3>2 DEF getQLen, TypeOK, Index
    <3>4. lost => valid[bufTail] /\ fileRcvBuffer[bufTail].over
      BY <3>3 DEF LossIsMarked, TailIsUnread
    <3>5. m \in Message
      BY <3>2 DEF UnreadIsMessage
    <3>6. At(bufTail, 0) = bufTail
      BY AtRound DEF TypeOK
    <3>7. lost => m.over \/ flags(k)
      <4>1. CASE k = 0
        BY <3>4, <3>6, <4>1
      <4>2. CASE k # 0
        BY <3>2, <3>4, <3>6, <4>2 DEF flags
      <4> QED BY <4>1, <4>2
    <3>8. lost => [m EXCEPT !.over = @ \/ flags(k)].over
      <4> HIDE DEF m, k
      <4> QED BY <3>5, <3>7 DEF Message
    <3> HIDE DEF m, k
    <3> QED BY <3>1, <3>8 DEF TypeOK
  <2>4. CASE Only_looks(q)
    <3>1. ~(pc[q] = "locked" /\ pc'[q] = "idle" /\ result'[q] = "OK")
          \/ op[q].cmd = "RECVMSG_SYNC"
      BY <2>4
      DEF Only_looks, prepare_to_wait, Check_condition, Wake, Time_out, After_wait,
          RECVMSG_empty, RECVMSG_SYNC, RECVMSG_SPECIFIC_none, Call, Goto, Return,
          finish_wait, Locked, TypeOK
    <3>2. r # q => pc'[r] = pc[r]
      BY <2>4
      DEF Only_looks, prepare_to_wait, Check_condition, Wake, Time_out, After_wait,
          RECVMSG_empty, RECVMSG_SYNC, RECVMSG_SPECIFIC_none, Call, Goto, Return,
          finish_wait, TypeOK
    <3> QED BY <3>1, <3>2
  <2> QED BY <2>1, <2>2, <2>3, <2>4 DEF Ioctl_step, Only_looks
<1> QED BY <1>1, <1>2

\* No reader receives a message after a loss without the overrun flag on it,
\* whichever of the RECVMSG ioctls it uses and however large the ring is.
THEOREM LossIsTold == Spec => NoSilentLoss
<1>1. ASSUME RingInv, [Next]_vars PROVE [\A r \in Reader : Told(r)]_vars
  BY <1>1, ReadTells
<1>2. Spec => [][Next]_vars
  BY PTL DEF Spec
<1>3. Spec => [][\A r \in Reader : Told(r)]_vars
  BY <1>1, <1>2, Invariant, PTL
<1> QED BY <1>3 DEF NoSilentLoss, Told

----------------------------------------------------------------------------
(* One reader.                                                              *)

Alone == \A q, r \in Reader : q = r

\* What a reader without a time limit was woken for is still there when it looks.
WokenForSomething ==
    \A r \in Reader :
        op[r].timeout = "forever" /\ pc[r] \in {"done", "locked"}
            => Readable \/ dispatching \/ (pc[r] = "done" /\ ~cardPresent)

\* A step of the reader itself.
LEMMA OwnStep ==
    ASSUME RingInv, WokenForSomething, NEW r \in Reader,
           (\E o \in Op : Call(r, o)) \/ Ioctl_step(r) \/ vCanFlushReceiveBuffer(r)
    PROVE  /\ op'[r].timeout = "forever" /\ pc'[r] \in {"done", "locked"}
                => Readable' \/ dispatching' \/ (pc'[r] = "done" /\ ~cardPresent')
           /\ op[r].timeout = "forever" /\ pc[r] = "locked" /\ pc'[r] = "idle"
                => result'[r] = "OK"
<1> USE DEF RingInv, TypeOK, WokenForSomething, Readable, Goto, Return, finish_wait
<1>1. ASSUME NEW o \in Op, Call(r, o) PROVE pc'[r] \in {"wait", "locked"} /\ op'[r] = o /\ pc[r] = "idle"
             /\ (pc'[r] = "locked" => o.timeout = "none")
  BY <1>1 DEF Call
<1>2. CASE prepare_to_wait(r) \/ Wake(r)
  BY <1>2 DEF prepare_to_wait, Wake
<1>3. CASE Check_condition(r) \/ Time_out(r) \/ After_wait(r)
  BY <1>3 DEF Check_condition, Time_out, After_wait
<1>4. CASE RECVMSG(r) \/ RECVMSG_empty(r) \/ RECVMSG_SYNC(r)
  BY <1>4 DEF RECVMSG, RECVMSG_empty, RECVMSG_SYNC, Locked
<1>5. CASE read_specific(r) \/ RECVMSG_SPECIFIC_none(r)
  BY <1>5 DEF read_specific, RECVMSG_SPECIFIC_none, Locked
<1>6. CASE vCanFlushReceiveBuffer(r)
  BY <1>6 DEF vCanFlushReceiveBuffer
<1> QED BY <1>1, <1>2, <1>3, <1>4, <1>5, <1>6 DEF Ioctl_step

\* Nobody else takes from the ring, and overrun handling does not empty it.
LEMMA StepWoken ==
    ASSUME Alone, RingInv, RingInv', WokenForSomething, [Next]_vars
    PROVE  WokenForSomething'
<1> USE DEF WokenForSomething, Readable
<1>1. ASSUME NEW id \in Id, vCanPushReceiveBuffer([id |-> id, over |-> FALSE])
      PROVE  WokenForSomething'
  BY <1>1 DEF vCanPushReceiveBuffer
<1>2. CASE Dispatch_room
  <2>1. bufHead # bufTail
    BY <1>2 DEF Dispatch_room, getQLen, RingInv, TypeOK, Index
  <2> QED BY <1>2, <2>1 DEF Dispatch_room
<1>3. CASE Dispatch_overrun
  BY <1>3 DEF Dispatch_overrun, RingInv, LossIsMarked
<1>4. CASE Card_removed \/ vCanRemoveCardChannel
  BY <1>4 DEF Card_removed, vCanRemoveCardChannel
<1>5. ASSUME NEW r \in Reader,
             (\E o \in Op : Call(r, o)) \/ Ioctl_step(r) \/ vCanFlushReceiveBuffer(r)
      PROVE  WokenForSomething'
  BY <1>5, OwnStep DEF Alone
<1>6. CASE UNCHANGED vars
  BY <1>6 DEF vars
<1> QED BY <1>1, <1>2, <1>3, <1>4, <1>5, <1>6 DEF Next, Dispatcher

\* A thread alone on its handle that waits without a time limit is not sent back
\* empty-handed while the card is there, whatever overran meanwhile.
THEOREM NotForNothing == ASSUME Alone PROVE Spec => NoFalseAlarm
<1>1. Init => WokenForSomething
  BY DEF Init, WokenForSomething
<1>2. RingInv /\ RingInv' /\ WokenForSomething /\ [Next]_vars => WokenForSomething'
  BY StepWoken
<1>3. Spec => [](RingInv /\ WokenForSomething)
  BY <1>1, <1>2, Invariant, PTL DEF Spec
<1>4. ASSUME RingInv, WokenForSomething, [Next]_vars
      PROVE  [\A r \in Reader :
                 op[r].timeout = "forever" /\ pc[r] = "locked" /\ pc'[r] = "idle"
                    => result'[r] = "OK"]_vars
  <2>1. ASSUME NEW r \in Reader, pc[r] = "locked", pc'[r] = "idle"
        PROVE  (\E o \in Op : Call(r, o)) \/ Ioctl_step(r) \/ vCanFlushReceiveBuffer(r)
    BY <1>4, <2>1
    DEF Alone, Next, vars, vCanPushReceiveBuffer, Dispatcher, Dispatch_room,
        Dispatch_overrun, Card_removed, vCanRemoveCardChannel
  <2> QED BY <1>4, <2>1, OwnStep
<1>5. Spec => [][Next]_vars
  BY PTL DEF Spec
<1> QED BY <1>3, <1>4, <1>5, PTL DEF NoFalseAlarm

\* Whoever looked while the channel was removed found the card gone.
Sleeping == SleeperIsTold /\ (removed => ~cardPresent)

\* A step of the reader itself: it goes to sleep when there is nothing.
LEMMA OwnSleep ==
    ASSUME RingInv, Sleeping, NEW r \in Reader,
           (\E o \in Op : Call(r, o)) \/ Ioctl_step(r) \/ vCanFlushReceiveBuffer(r)
    PROVE  /\ pc'[r] = "asleep" /\ ~woken'[r] => ~removed' /\ (Readable' => lost')
           /\ UNCHANGED <<removed, cardPresent>>
<1> USE DEF RingInv, TypeOK, Sleeping, SleeperIsTold, Readable, Goto, Return, finish_wait
<1>1. ASSUME NEW o \in Op, Call(r, o)
      PROVE  pc'[r] # "asleep" /\ UNCHANGED <<removed, cardPresent>>
  BY <1>1 DEF Call
<1>2. CASE prepare_to_wait(r) \/ Wake(r) \/ Time_out(r) \/ After_wait(r)
  BY <1>2 DEF prepare_to_wait, Wake, Time_out, After_wait
<1>3. CASE Check_condition(r)
  BY <1>3 DEF Check_condition
<1>4. CASE RECVMSG(r) \/ RECVMSG_empty(r) \/ RECVMSG_SYNC(r)
  BY <1>4 DEF RECVMSG, RECVMSG_empty, RECVMSG_SYNC
<1>5. CASE read_specific(r) \/ RECVMSG_SPECIFIC_none(r)
  BY <1>5 DEF read_specific, RECVMSG_SPECIFIC_none
<1>6. CASE vCanFlushReceiveBuffer(r)
  BY <1>6 DEF vCanFlushReceiveBuffer
<1> QED BY <1>1, <1>2, <1>3, <1>4, <1>5, <1>6 DEF Ioctl_step

\* Whoever brings a message or removes the channel wakes those who sleep; only the
\* overrun handling makes a message readable without that.
LEMMA StepSleeping ==
    ASSUME Alone, RingInv, Sleeping, [Next]_vars
    PROVE  Sleeping'
<1> USE DEF Sleeping, SleeperIsTold, Readable
<1>1. ASSUME NEW id \in Id, vCanPushReceiveBuffer([id |-> id, over |-> FALSE])
      PROVE  Sleeping'
  BY <1>1 DEF vCanPushReceiveBuffer, wake_up, RingInv, TypeOK
<1>2. CASE Dispatch_room
  BY <1>2 DEF Dispatch_room
<1>3. CASE Dispatch_overrun
  BY <1>3 DEF Dispatch_overrun
<1>4. CASE Card_removed
  BY <1>4 DEF Card_removed
<1>5. CASE vCanRemoveCardChannel
  BY <1>5 DEF vCanRemoveCardChannel, wake_up, RingInv, TypeOK
<1>6. ASSUME NEW r \in Reader,
             (\E o \in Op : Call(r, o)) \/ Ioctl_step(r) \/ vCanFlushReceiveBuffer(r)
      PROVE  Sleeping'
  BY <1>6, OwnSleep DEF Alone
<1>7. CASE UNCHANGED vars
  BY <1>7 DEF vars
<1> QED BY <1>1, <1>2, <1>3, <1>4, <1>5, <1>6, <1>7 DEF Next, Dispatcher

\* A reader alone on its handle does not sleep on a message that is there, nor on a
\* channel that was removed: what MessageWakesReader and RemovalEndsWait rest on,
\* for a ring of any size.
THEOREM SleepersAreTold == ASSUME Alone PROVE Spec => []SleeperIsTold
<1>1. Init => Sleeping
  BY DEF Init, Sleeping, SleeperIsTold
<1>2. RingInv /\ Sleeping /\ [Next]_vars => Sleeping'
  BY StepSleeping
<1>3. Sleeping => SleeperIsTold
  BY DEF Sleeping
<1> QED BY <1>1, <1>2, <1>3, Invariant, PTL DEF Spec
----------------------------------------------------------------------------
(* The receive buffer implements the mailbox.  What a reader sees of the    *)
(* ring is a row of places from the tail on; every operation of the ring is *)
(* one of the mailbox on that row.                                          *)

Content == Message \cup {Nothing}

\* The n places from t on.
Row(t, n, ok, buf) ==
    [k \in 1 .. n |-> IF ok[At(t, k - 1)] THEN buf[At(t, k - 1)] ELSE Nothing]

Flags == [Index -> BOOLEAN]
Slots == [Index -> Content]

\* No message is the absence of one.
LEMMA NothingIsNone ==
    /\ Nothing \notin Message /\ Nothing.over = FALSE
    /\ \A id \in Id : Nothing.id # id
  BY DEF Nothing, Message

\* A row is a sequence.
LEMMA RowType ==
    ASSUME NEW t \in Index, NEW n \in 0 .. size, NEW ok \in Flags, NEW buf \in Slots
    PROVE  /\ Row(t, n, ok, buf) \in Seq(Content) /\ Len(Row(t, n, ok, buf)) = n
           /\ \A k \in 1 .. n : Row(t, n, ok, buf)[k] =
                  IF ok[At(t, k - 1)] THEN buf[At(t, k - 1)] ELSE Nothing
<1>1. \A k \in 1 .. n : At(t, k - 1) \in Index
  BY AtIsIndex
<1>2. \A k \in 1 .. n :
          (IF ok[At(t, k - 1)] THEN buf[At(t, k - 1)] ELSE Nothing) \in Content
  BY <1>1 DEF Flags, Slots, Content
<1>3. Row(t, n, ok, buf) \in [1 .. n -> Content]
  BY <1>2 DEF Row
<1>4. Row(t, n, ok, buf) \in Seq(Content) /\ Len(Row(t, n, ok, buf)) = n
  BY <1>3
<1> QED BY <1>4 DEF Row

\* A sequence with the places of a row is that row.
LEMMA RowEqual ==
    ASSUME NEW t \in Index, NEW n \in 0 .. size, NEW ok \in Flags, NEW buf \in Slots,
           NEW s \in Seq(Content), Len(s) = n,
           \A k \in 1 .. n :
              s[k] = IF ok[At(t, k - 1)] THEN buf[At(t, k - 1)] ELSE Nothing
    PROVE  s = Row(t, n, ok, buf)
<1>1. /\ Row(t, n, ok, buf) \in Seq(Content) /\ Len(Row(t, n, ok, buf)) = n
      /\ \A k \in 1 .. n : Row(t, n, ok, buf)[k] = s[k]
  BY RowType, ZenonT(30)
<1> HIDE DEF Row
<1> QED BY <1>1, SeqEqual

\* Places are counted on from places.
LEMMA AtAdds ==
    ASSUME NEW t \in Index, NEW a \in 0 .. size, NEW b \in 0 .. size, a + b <= size
    PROVE  At(At(t, a), b) = At(t, a + b)
  BY DEF At, Index

\* What is left of a row when it is cut before place a + 1.
LEMMA RowCut ==
    ASSUME NEW t \in Index, NEW n \in 0 .. size, NEW ok \in Flags, NEW buf \in Slots,
           NEW a \in 0 .. n
    PROVE  SubSeq(Row(t, n, ok, buf), a + 1, n) = Row(At(t, a), n - a, ok, buf)
<1> DEFINE row == Row(t, n, ok, buf)
           cut == SubSeq(row, a + 1, n)
<1>1. /\ row \in Seq(Content) /\ Len(row) = n
      /\ \A k \in 1 .. n : row[k] = IF ok[At(t, k - 1)] THEN buf[At(t, k - 1)] ELSE Nothing
  BY RowType
<1> HIDE DEF row
<1>2. /\ cut \in Seq(Content) /\ Len(cut) = n - a
      /\ \A k \in 1 .. n - a : cut[k] = row[a + k]
  BY <1>1, SubSeqProperties, SMTT(30)
<1>3. \A k \in 1 .. n - a : At(t, a + k - 1) = At(At(t, a), k - 1)
  BY AtAdds
<1>4. \A k \in 1 .. n - a :
          cut[k] = IF ok[At(At(t, a), k - 1)] THEN buf[At(At(t, a), k - 1)] ELSE Nothing
  BY <1>1, <1>2, <1>3
<1>5. At(t, a) \in Index
  BY AtIsIndex
<1> HIDE DEF cut
<1>6. cut = Row(At(t, a), n - a, ok, buf)
  BY <1>2, <1>4, <1>5, RowEqual
<1> QED BY <1>6 DEF cut, row

\* The row without its oldest place.
LEMMA RowTail ==
    ASSUME NEW t \in Index, NEW n \in 1 .. size, NEW ok \in Flags, NEW buf \in Slots
    PROVE  Tail(Row(t, n, ok, buf)) = Row(At(t, 1), n - 1, ok, buf)
<1> DEFINE row == Row(t, n, ok, buf)
<1>1. row \in Seq(Content) /\ Len(row) = n /\ row # <<>>
  <2>1. n \in 0 .. size
    OBVIOUS
  <2> QED BY <2>1, RowType
<1> HIDE DEF row
<1>2. Tail(row) = SubSeq(row, 2, n)
  BY <1>1, TailIsSubSeq
<1>3. n \in 0 .. size /\ 1 \in 0 .. n
  OBVIOUS
<1>4. ASSUME NEW a \in 0 .. n
      PROVE  SubSeq(Row(t, n, ok, buf), a + 1, n) = Row(At(t, a), n - a, ok, buf)
  BY <1>3, RowCut
<1>5. SubSeq(Row(t, n, ok, buf), 2, n) = Row(At(t, 1), n - 1, ok, buf)
  BY <1>3, <1>4
<1> QED BY <1>2, <1>5 DEF row

\* The row with one more place.
LEMMA RowAppend ==
    ASSUME NEW t \in Index, NEW n \in 0 .. size - 1, NEW ok \in Flags, NEW buf \in Slots,
           ok[At(t, n)]
    PROVE  Append(Row(t, n, ok, buf), buf[At(t, n)]) = Row(t, n + 1, ok, buf)
<1> DEFINE row == Row(t, n, ok, buf)
           s == Append(row, buf[At(t, n)])
<1>1. /\ row \in Seq(Content) /\ Len(row) = n
      /\ \A k \in 1 .. n : row[k] = IF ok[At(t, k - 1)] THEN buf[At(t, k - 1)] ELSE Nothing
  BY RowType
<1>2. buf[At(t, n)] \in Content
  BY AtIsIndex DEF Slots
<1> HIDE DEF row
<1>3. /\ s \in Seq(Content) /\ Len(s) = n + 1
      /\ \A k \in 1 .. n : s[k] = row[k]
      /\ s[n + 1] = buf[At(t, n)]
  BY <1>1, <1>2, AppendProperties
<1>4. \A k \in 1 .. n + 1 :
          s[k] = IF ok[At(t, k - 1)] THEN buf[At(t, k - 1)] ELSE Nothing
  BY <1>1, <1>3
<1> HIDE DEF s
<1>5. s = Row(t, n + 1, ok, buf)
  BY <1>3, <1>4, RowEqual
<1> QED BY <1>5 DEF s, row

----------------------------------------------------------------------------
(* What vCanPopReceiveBuffer leaves of the row.                             *)

Written(ok, buf) == \A i \in Index : ok[i] => buf[i] \in Message

\* The mailbox drops the empty places before the oldest message: the row from
\* that one on.
LEMMA FromOldestOfRow ==
    ASSUME NEW t \in Index, NEW n \in 0 .. size - 1, NEW ok \in Flags, NEW buf \in Slots,
           Written(ok, buf), NEW q \in 0 .. n,
           \A j \in 0 .. q - 1 : ~ok[At(t, j)], q < n => ok[At(t, q)]
    PROVE  Mail!FromOldest(Row(t, n, ok, buf)) = Row(At(t, q), n - q, ok, buf)
<1> DEFINE row == Row(t, n, ok, buf)
           full == {k \in 1 .. Len(row) : row[k] # Nothing}
<1>1. /\ row \in Seq(Content) /\ Len(row) = n
      /\ \A k \in 1 .. n : row[k] = IF ok[At(t, k - 1)] THEN buf[At(t, k - 1)] ELSE Nothing
  BY RowType
<1>2. \A k \in 1 .. n : At(t, k - 1) \in Index
  BY AtIsIndex
<1>3. Mail!FromOldest(row) =
          IF full = {} THEN <<>>
          ELSE SubSeq(row, CHOOSE k \in full : \A j \in full : k <= j, Len(row))
  BY DEF Mail!FromOldest, Mail!Empty, Nothing
<1> HIDE DEF row
<1>4. \A k \in 1 .. n : k \in full <=> ok[At(t, k - 1)]
  BY <1>1, <1>2, NothingIsNone DEF Written
<1>5. full \subseteq 1 .. n
  BY <1>1
<1> HIDE DEF full
<1>6. CASE q = n
  <2>1. full = {}
    <3>1. ASSUME NEW k \in 1 .. n PROVE k \notin full
      <4>1. k - 1 \in 0 .. q - 1
        BY <1>6
      <4> QED BY <1>4, <4>1
    <3> QED BY <1>5, <3>1
  <2>2. At(t, q) \in Index /\ n - q = 0
    BY <1>6, AtIsIndex
  <2>3. /\ Row(At(t, q), n - q, ok, buf) \in Seq(Content)
        /\ Len(Row(At(t, q), n - q, ok, buf)) = 0
    BY <2>2, RowType
  <2>4. Row(At(t, q), n - q, ok, buf) = <<>>
    BY <2>3, EmptySeq
  <2> QED BY <1>3, <2>1, <2>4 DEF row
<1>7. CASE q < n
  <2>1. q + 1 \in full
    <3>1. q + 1 \in 1 .. n /\ (q + 1) - 1 = q
      BY <1>7
    <3> QED BY <1>4, <1>7, <3>1
  <2>2. ASSUME NEW k \in full PROVE q + 1 <= k
    <3>1. k \in 1 .. n /\ ok[At(t, k - 1)]
      BY <1>4, <1>5, <2>2
    <3>2. k - 1 \notin 0 .. q - 1
      BY <3>1
    <3> QED BY <3>1, <3>2
  <2>3. (CHOOSE k \in full : \A j \in full : k <= j) = q + 1
    <3>1. \A k \in full : k \in Int
      BY <1>5
    <3>2. ASSUME NEW k \in full, \A j \in full : k <= j PROVE k = q + 1
      BY <2>1, <2>2, <3>1, <3>2
    <3> QED BY <2>1, <2>2, <3>2
  <2>4. SubSeq(Row(t, n, ok, buf), q + 1, n) = Row(At(t, q), n - q, ok, buf)
    <3>1. n \in 0 .. size
      OBVIOUS
    <3> QED BY <3>1, RowCut
  <2> QED BY <1>1, <1>3, <2>1, <2>3, <2>4 DEF row
<1> QED BY <1>6, <1>7

\* After the pop the row begins at the new tail.
LEMMA PoppedRow ==
    ASSUME NEW t \in Index, NEW head \in Index, NEW ok \in Flags, NEW buf \in Slots,
           Written(ok, buf),
           NEW n \in 1 .. size, At(t, n) = head, \A j \in 1 .. n - 1 : At(t, j) # head
    PROVE  Mail!FromOldest(Row(At(t, 1), n - 1, ok, buf)) =
               Row(Popped(t, head, ok), getQLen(head, Popped(t, head, ok)), ok, buf)
<1>1. PICK p \in 1 .. size :
          /\ Popped(t, head, ok) = At(t, p)
          /\ ok[At(t, p)] \/ At(t, p) = head
          /\ \A j \in 1 .. p - 1 : ~ok[At(t, j)] /\ At(t, j) # head
  BY PoppedStops DEF Flags
<1>2. p <= n
  BY <1>1
<1>3. /\ At(t, 1) \in Index /\ n - 1 \in 0 .. size - 1 /\ p - 1 \in 0 .. n - 1
      /\ At(t, p) \in Index
  BY <1>2, AtIsIndex
<1>4. \A j \in 0 .. n - 1 : At(At(t, 1), j) = At(t, j + 1)
  BY AtAdds
<1>5. \A j \in 0 .. (p - 1) - 1 : ~ok[At(At(t, 1), j)]
  BY <1>1, <1>2, <1>4
<1>6. p - 1 < n - 1 => ok[At(At(t, 1), p - 1)]
  <2>1. p - 1 < n - 1 => At(t, p) # head
    OBVIOUS
  <2> QED BY <1>1, <1>3, <1>4, <2>1
<1>7. Mail!FromOldest(Row(At(t, 1), n - 1, ok, buf)) =
          Row(At(At(t, 1), p - 1), (n - 1) - (p - 1), ok, buf)
  BY <1>3, <1>5, <1>6, FromOldestOfRow
<1>8. At(At(t, 1), p - 1) = At(t, p) /\ (n - 1) - (p - 1) = n - p
  BY <1>3, <1>4
<1>9. getQLen(head, At(t, p)) = n - p
  BY <1>2 DEF getQLen, At, Index
<1> QED BY <1>1, <1>7, <1>8, <1>9

\* If the place at the tail is taken the pop drops empty places only.
LEMMA PoppedRowOfTaken ==
    ASSUME NEW t \in Index, NEW head \in Index, NEW ok \in Flags, NEW buf \in Slots,
           Written(ok, buf), ~ok[t],
           NEW n \in 1 .. size - 1, At(t, n) = head, \A j \in 1 .. n - 1 : At(t, j) # head
    PROVE  Mail!FromOldest(Row(t, n, ok, buf)) =
               Row(Popped(t, head, ok), getQLen(head, Popped(t, head, ok)), ok, buf)
<1>1. PICK p \in 1 .. size :
          /\ Popped(t, head, ok) = At(t, p)
          /\ ok[At(t, p)] \/ At(t, p) = head
          /\ \A j \in 1 .. p - 1 : ~ok[At(t, j)] /\ At(t, j) # head
  BY PoppedStops DEF Flags
<1>2. p <= n
  BY <1>1
<1>3. \A j \in 0 .. p - 1 : ~ok[At(t, j)]
  BY <1>1, AtRound
<1>4. p < n => ok[At(t, p)]
  BY <1>1
<1>5. Mail!FromOldest(Row(t, n, ok, buf)) = Row(At(t, p), n - p, ok, buf)
  BY <1>2, <1>3, <1>4, FromOldestOfRow
<1>6. getQLen(head, At(t, p)) = n - p
  BY <1>2 DEF getQLen, At, Index
<1> QED BY <1>1, <1>5, <1>6

\* The oldest place marked.
LEMMA RowMarked ==
    ASSUME NEW t \in Index, NEW n \in 1 .. size - 1, NEW ok \in Flags, NEW buf \in Slots,
           ok[t], buf[t] \in Message
    PROVE  Mail!Marked(Row(t, n, ok, buf)) = Row(t, n, ok, [buf EXCEPT ![t].over = TRUE])
<1> DEFINE row == Row(t, n, ok, buf)
           m == [buf[t] EXCEPT !.over = TRUE]
           buf2 == [buf EXCEPT ![t] = m]
           s == [row EXCEPT ![1] = m]
<1>1. /\ row \in Seq(Content) /\ Len(row) = n
      /\ \A k \in 1 .. n : row[k] = IF ok[At(t, k - 1)] THEN buf[At(t, k - 1)] ELSE Nothing
  <2>1. n \in 0 .. size
    OBVIOUS
  <2> QED BY <2>1, RowType
<1> HIDE DEF row
<1>2. At(t, 0) = t
  BY AtRound
<1>3. row[1] = buf[t]
  BY <1>1, <1>2
<1>4. Mail!Marked(row) = s /\ [buf EXCEPT ![t].over = TRUE] = buf2
  BY <1>3 DEF Mail!Marked
<1>5. m \in Content
  BY DEF Message, Content
<1> HIDE DEF m
<1>6. /\ s \in Seq(Content) /\ Len(s) = n
      /\ \A k \in 1 .. n : s[k] = IF k = 1 THEN m ELSE row[k]
  <2>1. 1 \in 1 .. Len(row)
    BY <1>1
  <2> QED BY <1>1, <1>5, <2>1, ExceptSeq
<1>7. buf2 \in Slots /\ buf2[t] = m /\ \A i \in Index : i # t => buf2[i] = buf[i]
  BY <1>5 DEF Slots
<1> HIDE DEF s, buf2
<1>8. ASSUME NEW k \in 1 .. n
      PROVE  s[k] = IF ok[At(t, k - 1)] THEN buf2[At(t, k - 1)] ELSE Nothing
  <2>1. CASE k = 1
    <3>1. At(t, k - 1) = t
      BY <2>1, <1>2
    <3> QED BY <1>6, <1>7, <2>1, <3>1
  <2>2. CASE k # 1
    <3>1. At(t, k - 1) \in Index /\ At(t, k - 1) # t
      BY <2>2 DEF At, Index
    <3> QED BY <1>1, <1>6, <1>7, <2>2, <3>1
  <2> QED BY <2>1, <2>2
<1>9. s = Row(t, n, ok, buf2)
  BY <1>6, <1>7, <1>8, RowEqual
<1> QED BY <1>4, <1>9 DEF row

Emptied(row, k) == [row EXCEPT ![k] = Nothing]
Cleared(ok, i) == [ok EXCEPT ![i] = FALSE]

\* A message taken from its place.
LEMMA RowTaken ==
    ASSUME NEW t \in Index, NEW n \in 1 .. size - 1, NEW ok \in Flags, NEW buf \in Slots,
           NEW k \in 1 .. n
    PROVE  Row(t, n, Cleared(ok, At(t, k - 1)), buf) = Emptied(Row(t, n, ok, buf), k)
<1> DEFINE row == Row(t, n, ok, buf)
           ok2 == Cleared(ok, At(t, k - 1))
           s == Emptied(row, k)
<1>1. /\ row \in Seq(Content) /\ Len(row) = n
      /\ \A j \in 1 .. n : row[j] = IF ok[At(t, j - 1)] THEN buf[At(t, j - 1)] ELSE Nothing
  <2>1. n \in 0 .. size
    OBVIOUS
  <2> QED BY <2>1, RowType
<1> HIDE DEF row
<1>2. /\ s \in Seq(Content) /\ Len(s) = n
      /\ \A j \in 1 .. n : s[j] = IF j = k THEN Nothing ELSE row[j]
  <2>1. k \in 1 .. Len(row) /\ Nothing \in Content
    BY <1>1 DEF Content
  <2> QED BY <1>1, <2>1, ExceptSeq DEF Emptied
<1>3. \A j \in 1 .. n : At(t, j - 1) \in Index /\ (At(t, j - 1) = At(t, k - 1) => j = k)
  BY DEF At, Index
<1>4. /\ ok2 \in Flags
      /\ \A j \in 1 .. n : ok2[At(t, j - 1)] = IF j = k THEN FALSE ELSE ok[At(t, j - 1)]
  BY <1>3 DEF Flags, Cleared
<1> HIDE DEF s, ok2
<1>5. \A j \in 1 .. n : s[j] = IF ok2[At(t, j - 1)] THEN buf[At(t, j - 1)] ELSE Nothing
  BY <1>1, <1>2, <1>4
<1>6. s = Row(t, n, ok2, buf)
  BY <1>2, <1>4, <1>5, RowEqual
<1> QED BY <1>6 DEF row, s, ok2

\* What an overrun leaves.
LEMMA RowOverrun ==
    ASSUME NEW t \in Index, NEW ok \in Flags, NEW buf \in Slots, Written(ok, buf),
           ok[At(t, size - 1)]
    PROVE  LET tail == Popped(t, t, ok)
               pushed == Append(Row(t, size - 1, ok, buf), buf[At(t, size - 1)])
           IN  Mail!Marked(Mail!FromOldest(Tail(pushed))) =
                   Row(tail, getQLen(t, tail), ok, [buf EXCEPT ![tail].over = TRUE])
<1> DEFINE tail == Popped(t, t, ok)
           pushed == Append(Row(t, size - 1, ok, buf), buf[At(t, size - 1)])
           left == getQLen(t, tail)
<1>1. tail \in Index /\ tail # t /\ ok[tail]
  BY PoppedType, PoppedOfFull DEF Flags
<1>2. buf[tail] \in Message
  BY <1>1 DEF Written
<1>3. pushed = Row(t, size, ok, buf)
  <2>1. ASSUME NEW n \in 0 .. size - 1, n = size - 1
        PROVE  Append(Row(t, n, ok, buf), buf[At(t, n)]) = Row(t, n + 1, ok, buf)
    BY <2>1, RowAppend
  <2>2. size - 1 \in 0 .. size - 1 /\ (size - 1) + 1 = size
    OBVIOUS
  <2> QED BY <2>1, <2>2
<1> HIDE DEF pushed
<1>4. Tail(pushed) = Row(At(t, 1), size - 1, ok, buf)
  BY <1>3, RowTail
<1>5. Mail!FromOldest(Tail(pushed)) = Row(tail, left, ok, buf)
  <2>1. At(t, size) = t /\ \A j \in 1 .. size - 1 : At(t, j) # t
    BY DEF At, Index
  <2>2. Mail!FromOldest(Row(At(t, 1), size - 1, ok, buf)) =
            Row(Popped(t, t, ok), getQLen(t, Popped(t, t, ok)), ok, buf)
    BY <2>1, PoppedRow
  <2> QED BY <1>4, <2>2
<1>6. left \in 1 .. size - 1
  BY <1>1 DEF getQLen, Index
<1> HIDE DEF tail, left
<1>7. Mail!Marked(Row(tail, left, ok, buf)) = Row(tail, left, ok, [buf EXCEPT ![tail].over = TRUE])
  BY <1>1, <1>2, <1>6, RowMarked
<1> QED BY <1>5, <1>7 DEF tail, left, pushed

----------------------------------------------------------------------------
(* The dispatcher.                                                          *)

USE DEF ring, reader, buffer

\* The row goes from the tail to the head.
LEMMA DistanceToHead ==
    ASSUME NEW t \in Index, NEW head \in Index
    PROVE  /\ getQLen(head, t) \in 0 .. size - 1
           /\ At(t, getQLen(head, t)) = head
           /\ \A j \in 0 .. size - 1 : j # getQLen(head, t) => At(t, j) # head
  BY DEF getQLen, At, Index

\* What RingInv says of the ring.
LEMMA RingFacts ==
    ASSUME RingInv
    PROVE  /\ bufHead \in Index /\ bufTail \in Index
           /\ valid \in Flags /\ fileRcvBuffer \in Slots
           /\ Written(valid, fileRcvBuffer)
           /\ Occupied \in 0 .. size - 1
           /\ Box = Row(bufTail, Occupied, valid, fileRcvBuffer)
<1>1. /\ bufHead \in Index /\ bufTail \in Index
      /\ valid \in Flags /\ fileRcvBuffer \in Slots
      /\ Written(valid, fileRcvBuffer)
  BY DEF RingInv, TypeOK, UnreadIsMessage, Written, Flags, Slots, Content
<1>2. Occupied \in 0 .. size - 1
  BY <1>1, DistanceToHead DEF Occupied
<1>3. Box = Row(bufTail, Occupied, valid, fileRcvBuffer)
  BY DEF Box, Row
<1> QED BY <1>1, <1>2, <1>3

\* The same of the state a step leads to.
LEMMA RingFactsNext ==
    ASSUME RingInv'
    PROVE  /\ bufHead' \in Index /\ bufTail' \in Index
           /\ valid' \in Flags /\ fileRcvBuffer' \in Slots
           /\ Box' = Row(bufTail', Occupied', valid', fileRcvBuffer')
<1>1. /\ bufHead' \in Index /\ bufTail' \in Index
      /\ valid' \in Flags /\ fileRcvBuffer' \in Slots
  BY DEF RingInv, TypeOK, Flags, Slots, Content
<1>2. Box' = Row(bufTail', Occupied', valid', fileRcvBuffer')
  BY DEF Box, Row
<1> QED BY <1>1, <1>2

\* Between push and unlock the message pushed is not yet in the row.
LEMMA PushStutters ==
    ASSUME RingInv, RingInv', NEW id \in Id,
           vCanPushReceiveBuffer([id |-> id, over |-> FALSE])
    PROVE  UNCHANGED Mail!vars
<1>1. /\ ~dispatching /\ dispatching' /\ bufHead' = At(bufHead, 1) /\ bufTail' = bufTail
      /\ msg' = msg
      /\ \A i \in Index : i # bufHead =>
            valid'[i] = valid[i] /\ fileRcvBuffer'[i] = fileRcvBuffer[i]
  BY RingFacts DEF vCanPushReceiveBuffer, Flags, Slots
<1>2. PICK n \in 0 .. size - 1 : n = getQLen(bufHead, bufTail)
  BY RingFacts, DistanceToHead
<1>3. Occupied = n
  BY <1>1, <1>2 DEF Occupied
<1>4. Occupied' = n
  BY <1>1, <1>2, RingFacts DEF Occupied, getQLen, At, Index
<1>5. ASSUME NEW k \in 1 .. n
      PROVE  At(bufTail, k - 1) \in Index /\ At(bufTail, k - 1) # bufHead
  <2>1. bufTail \in Index /\ bufHead \in Index
    BY RingFacts
  <2> QED BY <1>2, <2>1 DEF At, getQLen, Index
<1>6. Row(bufTail, n, valid', fileRcvBuffer') = Row(bufTail, n, valid, fileRcvBuffer)
  <2>1. \A k \in 1 .. n :
            /\ valid'[At(bufTail, k - 1)] = valid[At(bufTail, k - 1)]
            /\ fileRcvBuffer'[At(bufTail, k - 1)] = fileRcvBuffer[At(bufTail, k - 1)]
    BY <1>1, <1>5
  <2> QED BY <2>1 DEF Row
<1>7. Box' = Box
  BY <1>1, <1>3, <1>4, <1>6, RingFacts, RingFactsNext
<1> QED BY <1>1, <1>7 DEF Mail!vars

\* With room it is appended.
LEMMA RoomArrives ==
    ASSUME RingInv, RingInv', Dispatch_room PROVE Mail!Next
<1> DEFINE n == getQLen(bufHead, bufTail) - 1
           m == fileRcvBuffer[At(bufTail, n)]
<1>1. /\ dispatching /\ ~dispatching' /\ bufHead' = bufHead /\ bufTail' = bufTail
      /\ valid' = valid /\ fileRcvBuffer' = fileRcvBuffer /\ msg' = msg
      /\ getQLen(bufHead, bufTail) # 0
  BY DEF Dispatch_room
<1>2. n \in 0 .. size - 2 /\ Occupied = n /\ Occupied' = n + 1
  BY <1>1, RingFacts, DistanceToHead DEF Occupied
<1>3. At(bufTail, n) = At(bufHead, size - 1)
  BY <1>1, RingFacts DEF getQLen, At, Index
<1>4. valid[At(bufTail, n)] /\ At(bufTail, n) \in Index
  BY <1>1, <1>2, <1>3, RingFacts, AtIsIndex DEF RingInv, PushedIsThere
<1>5. m \in Message
  BY <1>4, RingFacts DEF Written
<1>6. /\ Box = Row(bufTail, n, valid, fileRcvBuffer)
      /\ Box' = Row(bufTail, n + 1, valid, fileRcvBuffer)
  BY <1>1, <1>2, RingFacts DEF Box, Row
<1>7. Append(Row(bufTail, n, valid, fileRcvBuffer), m) =
          Row(bufTail, n + 1, valid, fileRcvBuffer)
  <2>1. n \in 0 .. size - 1
    BY <1>2
  <2> HIDE DEF n
  <2> QED BY <2>1, <1>4, RingFacts, RowAppend
<1>8. Len(Box) = n
  <2>1. n \in 0 .. size
    BY <1>2
  <2> HIDE DEF n
  <2> QED BY <2>1, <1>6, RingFacts, RowType
<1> HIDE DEF n, m
<1>9. Mail!Arrive(m)
  BY <1>1, <1>2, <1>6, <1>7, <1>8 DEF Mail!Arrive
<1> QED BY <1>5, <1>9 DEF Mail!Next, Mail!Message, Message

\* Without, the oldest is given up for it and the next is marked.
LEMMA OverrunArrives ==
    ASSUME RingInv, RingInv', Dispatch_overrun PROVE Mail!Next
<1> DEFINE tail == Popped(bufTail, bufHead, valid)
           m == fileRcvBuffer[At(bufTail, size - 1)]
<1>1. /\ dispatching /\ ~dispatching' /\ bufHead' = bufHead /\ bufTail' = tail
      /\ valid' = valid /\ msg' = msg
      /\ fileRcvBuffer' = [fileRcvBuffer EXCEPT ![tail].over = TRUE]
      /\ getQLen(bufHead, bufTail) = 0
  BY DEF Dispatch_overrun
<1>2. bufHead = bufTail /\ Occupied = size - 1
  BY <1>1, RingFacts DEF getQLen, Index, Occupied
<1>3. valid[At(bufTail, size - 1)] /\ At(bufTail, size - 1) \in Index
  BY <1>1, <1>2, RingFacts, AtIsIndex DEF RingInv, PushedIsThere
<1>4. m \in Message
  BY <1>3, RingFacts DEF Written
<1>5. Box = Row(bufTail, size - 1, valid, fileRcvBuffer)
  BY <1>2, RingFacts
<1>6. Box' = Row(tail, getQLen(bufTail, tail), valid, [fileRcvBuffer EXCEPT ![tail].over = TRUE])
  <2>1. Occupied' = getQLen(bufTail, tail)
    BY <1>1, <1>2 DEF Occupied
  <2> HIDE DEF tail
  <2> QED BY <1>1, <2>1, RingFactsNext
<1>7. Mail!Marked(Mail!FromOldest(Tail(Append(Box, m)))) = Box'
  BY <1>2, <1>3, <1>5, <1>6, RingFacts, RowOverrun
<1>8. Len(Box) = size - 1
  <2>1. size - 1 \in 0 .. size
    OBVIOUS
  <2> QED BY <1>5, <2>1, RingFacts, RowType
<1> HIDE DEF m
<1>9. Mail!Arrive(m)
  BY <1>1, <1>7, <1>8 DEF Mail!Arrive
<1> QED BY <1>4, <1>9 DEF Mail!Next, Mail!Message, Message

----------------------------------------------------------------------------
(* The reader.                                                              *)

\* What is at the places of the row.
LEMMA BoxPlaces ==
    ASSUME RingInv, NEW n \in 0 .. size, Box = Row(bufTail, n, valid, fileRcvBuffer)
    PROVE  /\ Box \in Seq(Content) /\ Len(Box) = n
           /\ \A k \in 1 .. n : Box[k] = IF valid[At(bufTail, k - 1)]
                                         THEN fileRcvBuffer[At(bufTail, k - 1)]
                                         ELSE Nothing
<1> DEFINE w == Row(bufTail, n, valid, fileRcvBuffer)
<1>1. bufTail \in Index /\ valid \in Flags /\ fileRcvBuffer \in Slots
  BY RingFacts
<1>2. /\ w \in Seq(Content) /\ Len(w) = n
      /\ \A k \in 1 .. n : w[k] = IF valid[At(bufTail, k - 1)]
                                  THEN fileRcvBuffer[At(bufTail, k - 1)] ELSE Nothing
  BY <1>1, RowType, Zenon
<1>3. Box = w
  OBVIOUS
<1> HIDE DEF w
<1> QED BY <1>2, <1>3, Zenon

\* RECVMSG takes the oldest message.
LEMMA ReadTakes ==
    ASSUME RingInv, RingInv', NEW r \in Reader, RECVMSG(r) PROVE Mail!Take(r)
<1>1. /\ ~dispatching /\ ~dispatching' /\ bufHead # bufTail /\ bufHead' = bufHead
      /\ bufTail' = Popped(bufTail, bufHead, valid)
      /\ valid' = valid /\ fileRcvBuffer' = fileRcvBuffer
      /\ msg' = [msg EXCEPT ![r] = fileRcvBuffer[bufTail]]
      /\ valid[bufTail]
  BY DEF RECVMSG, Locked, Readable, RingInv, TailIsUnread
<1>2. PICK n \in 1 .. size - 1 : n = getQLen(bufHead, bufTail)
  BY <1>1, RingFacts DEF getQLen, Index
<1>3. Box = Row(bufTail, n, valid, fileRcvBuffer)
  BY <1>1, <1>2, RingFacts DEF Occupied
<1>4. Box' = Row(bufTail', getQLen(bufHead, bufTail'), valid, fileRcvBuffer)
  BY <1>1, RingFactsNext DEF Occupied
<1>5. Tail(Box) = Row(At(bufTail, 1), n - 1, valid, fileRcvBuffer)
  BY <1>3, RingFacts, RowTail
<1>6. At(bufTail, n) = bufHead /\ \A j \in 1 .. n - 1 : At(bufTail, j) # bufHead
  BY <1>2, RingFacts, DistanceToHead
<1>7. Mail!FromOldest(Row(At(bufTail, 1), n - 1, valid, fileRcvBuffer)) =
          Row(Popped(bufTail, bufHead, valid), getQLen(bufHead, Popped(bufTail, bufHead, valid)),
              valid, fileRcvBuffer)
  BY <1>6, RingFacts, PoppedRow
<1>8. Box' = Mail!FromOldest(Tail(Box))
  BY <1>1, <1>4, <1>5, <1>7
<1>9. Box # <<>> /\ Head(Box) = fileRcvBuffer[bufTail]
  <2>1. /\ Box \in Seq(Content) /\ Len(Box) = n
        /\ Box[1] = IF valid[At(bufTail, 1 - 1)] THEN fileRcvBuffer[At(bufTail, 1 - 1)] ELSE Nothing
    <3>1. n \in 0 .. size /\ 1 \in 1 .. n
      OBVIOUS
    <3> QED BY <1>3, <3>1, BoxPlaces, Zenon
  <2>2. At(bufTail, 1 - 1) = bufTail
    BY RingFacts, AtRound
  <2> HIDE DEF Box
  <2> QED BY <1>1, <2>1, <2>2
<1> QED BY <1>1, <1>8, <1>9 DEF Mail!Take, Mail!Give

\* What a specific read looks for is the first of its identifier in the row,
\* and the marks it reports are those of the row.
LEMMA MatchIsFirst ==
    ASSUME RingInv, NEW id \in Id, ~dispatching, Matches(id) # {}
    PROVE  LET k == First(Matches(id))
           IN  /\ k \in 0 .. size - 2 /\ k < getQLen(bufHead, bufTail)
               /\ valid[At(bufTail, k)]
               /\ k + 1 \in 1 .. Len(Box) /\ Mail!IsFirst(id, k + 1)
               /\ Mail!WithOlderMarks(k + 1) =
                      [fileRcvBuffer[At(bufTail, k)] EXCEPT !.over = @ \/ flags(k)]
<1>1. PICK k \in 0 .. size - 2 :
          /\ k = First(Matches(id)) /\ k < getQLen(bufHead, bufTail)
          /\ valid[At(bufTail, k)]
  BY RingFacts, FirstMatch
<1>2. PICK n \in 1 .. size - 1 : n = getQLen(bufHead, bufTail)
  <2>1. getQLen(bufHead, bufTail) \in 0 .. size - 1
    BY RingFacts, DistanceToHead
  <2> QED BY <1>1, <2>1
<1>3. k \in Matches(id) /\ \A j \in Matches(id) : k <= j
  <2>1. Matches(id) \subseteq Nat
    BY <1>2 DEF Matches
  <2>2. \E j \in Matches(id) : \A i \in Matches(id) : j <= i
    BY <2>1, LeastElement
  <2> QED BY <1>1, <2>2 DEF First
<1>4. /\ fileRcvBuffer[At(bufTail, k)].id = id
      /\ \A j \in 0 .. k - 1 :
            ~(valid[At(bufTail, j)] /\ fileRcvBuffer[At(bufTail, j)].id = id)
  <2>1. ASSUME NEW j \in 0 .. k - 1
        PROVE  ~(valid[At(bufTail, j)] /\ fileRcvBuffer[At(bufTail, j)].id = id)
    <3>1. j \in 0 .. n - 1 /\ ~(k <= j)
      BY <1>1, <1>2
    <3>2. j \notin Matches(id)
      BY <1>3, <3>1
    <3> QED BY <1>2, <3>1, <3>2 DEF Matches
  <2> QED BY <1>3, <2>1 DEF Matches
<1>5. /\ Len(Box) = n
      /\ \A j \in 1 .. n : Box[j] = IF valid[At(bufTail, j - 1)]
                                    THEN fileRcvBuffer[At(bufTail, j - 1)] ELSE Nothing
  <2>1. n \in 0 .. size
    OBVIOUS
  <2>2. Box = Row(bufTail, n, valid, fileRcvBuffer)
    BY <1>2, RingFacts DEF Occupied
  <2> QED BY <2>1, <2>2, BoxPlaces, Zenon
<1>6. k + 1 \in 1 .. n /\ (k + 1) - 1 = k
  BY <1>1, <1>2
<1>7. Box[k + 1] = fileRcvBuffer[At(bufTail, k)]
  BY <1>1, <1>5, <1>6
<1>8. ASSUME NEW j \in 1 .. k PROVE Box[j].id # id
  <2>1. j \in 1 .. n /\ j - 1 \in 0 .. k - 1
    BY <1>6
  <2> QED BY <1>4, <1>5, <2>1, NothingIsNone
<1>9. (\E j \in 1 .. k + 1 : Box[j].over) <=> fileRcvBuffer[At(bufTail, k)].over \/ flags(k)
  <2>1. ASSUME NEW j \in 1 .. k
        PROVE  Box[j].over <=> valid[At(bufTail, j - 1)] /\ fileRcvBuffer[At(bufTail, j - 1)].over
    <3>1. j \in 1 .. n
      BY <1>6
    <3> QED BY <1>5, <3>1, NothingIsNone
  <2>2. ASSUME NEW j \in 1 .. k, Box[j].over PROVE flags(k)
    <3>1. j - 1 \in 0 .. k - 1
      OBVIOUS
    <3> QED BY <2>1, <2>2, <3>1 DEF flags
  <2>3. ASSUME flags(k) PROVE \E j \in 1 .. k + 1 : Box[j].over
    <3>1. PICK j \in 0 .. k - 1 : valid[At(bufTail, j)] /\ fileRcvBuffer[At(bufTail, j)].over
      BY <2>3 DEF flags
    <3>2. j + 1 \in 1 .. k /\ (j + 1) - 1 = j /\ j + 1 \in 1 .. k + 1
      OBVIOUS
    <3>3. Box[j + 1].over
      BY <2>1, <3>1, <3>2
    <3> QED BY <3>2, <3>3
  <2>4. k + 1 \in 1 .. k + 1 /\ \A j \in 1 .. k + 1 : j = k + 1 \/ j \in 1 .. k
    OBVIOUS
  <2> QED BY <1>7, <2>2, <2>3, <2>4
<1>10. Mail!IsFirst(id, k + 1)
  <2>1. Box[k + 1].id = id
    BY <1>4, <1>7
  <2>2. \A j \in 1 .. (k + 1) - 1 : Box[j].id # id
    BY <1>6, <1>8
  <2> QED BY <1>5, <1>6, <2>1, <2>2 DEF Mail!IsFirst
<1>11. Mail!WithOlderMarks(k + 1) =
           [fileRcvBuffer[At(bufTail, k)] EXCEPT !.over = @ \/ flags(k)]
  <2>1. At(bufTail, k) \in Index
    BY <1>1, RingFacts, AtIsIndex
  <2>2. fileRcvBuffer[At(bufTail, k)] \in Message
    BY <1>1, <2>1, RingFacts DEF Written
  <2> DEFINE b == \E j \in 1 .. k + 1 : Box[j].over
  <2>3. Mail!WithOlderMarks(k + 1) = [fileRcvBuffer[At(bufTail, k)] EXCEPT !.over = b]
    BY <1>7 DEF Mail!WithOlderMarks
  <2>4. b = (fileRcvBuffer[At(bufTail, k)].over \/ flags(k))
    <3>1. (fileRcvBuffer[At(bufTail, k)].over \/ flags(k)) \in BOOLEAN
      OBVIOUS
    <3>2. b \in BOOLEAN
      OBVIOUS
    <3> QED BY <1>9
  <2> HIDE DEF b
  <2> QED BY <2>3, <2>4
<1> QED BY <1>1, <1>5, <1>6, <1>10, <1>11

\* Cleared in its place, the message found leaves the row as TakeMatching does.
LEMMA TakenFromRow ==
    ASSUME NEW t \in Index, NEW head \in Index, NEW ok \in Flags, NEW buf \in Slots,
           Written(ok, buf), ok[t],
           NEW n \in 1 .. size - 1, n = getQLen(head, t), NEW k \in 1 .. n
    PROVE  LET ok2 == Cleared(ok, At(t, k - 1))
               tail == IF k = 1 THEN Popped(t, head, ok2) ELSE t
           IN  Mail!FromOldest(Emptied(Row(t, n, ok, buf), k)) =
                   Row(tail, getQLen(head, tail), ok2, buf)
<1> DEFINE ok2 == Cleared(ok, At(t, k - 1))
           taken == Emptied(Row(t, n, ok, buf), k)
<1>1. /\ At(t, k - 1) \in Index /\ (At(t, k - 1) = t <=> k = 1)
      /\ At(t, 0) = t
  BY DEF At, Index
<1>2. /\ ok2 \in Flags /\ Written(ok2, buf)
      /\ (k = 1 => ~ok2[t]) /\ (k # 1 => ok2[t])
  <2>1. /\ ok2 \in Flags /\ ~ok2[At(t, k - 1)]
        /\ \A i \in Index : ok2[i] <=> ok[i] /\ i # At(t, k - 1)
    BY <1>1 DEF Flags, Cleared
  <2> HIDE DEF ok2
  <2>2. Written(ok2, buf)
    BY <2>1 DEF Written
  <2> QED BY <1>1, <2>1, <2>2
<1>3. taken = Row(t, n, ok2, buf)
  BY RowTaken
<1> HIDE DEF ok2, taken
<1>4. CASE k = 1
  <2>1. At(t, n) = head /\ \A j \in 1 .. n - 1 : At(t, j) # head
    BY DistanceToHead
  <2>2. Mail!FromOldest(Row(t, n, ok2, buf)) =
            Row(Popped(t, head, ok2), getQLen(head, Popped(t, head, ok2)), ok2, buf)
    BY <1>2, <1>4, <2>1, PoppedRowOfTaken
  <2> QED BY <1>3, <1>4, <2>2 DEF ok2, taken
<1>5. CASE k # 1
  <2>1. ASSUME NEW q \in 0 .. n, q = 0
        PROVE  Mail!FromOldest(Row(t, n, ok2, buf)) = Row(At(t, q), n - q, ok2, buf)
    <3>1. (\A j \in 0 .. q - 1 : ~ok2[At(t, j)]) /\ (q < n => ok2[At(t, q)])
      BY <1>1, <1>2, <1>5, <2>1
    <3> QED BY <1>2, <3>1, FromOldestOfRow
  <2>2. 0 \in 0 .. n /\ n - 0 = n
    OBVIOUS
  <2>3. Mail!FromOldest(Row(t, n, ok2, buf)) = Row(t, n, ok2, buf)
    BY <1>1, <2>1, <2>2
  <2> QED BY <1>3, <1>5, <2>3 DEF ok2, taken
<1> QED BY <1>4, <1>5

\* A specific read is one of the mailbox's three.
LEMMA SpecificReads ==
    ASSUME RingInv, RingInv', NEW r \in Reader, read_specific(r)
    PROVE  \E id \in Id : Mail!Peek(r, id) \/ Mail!TakeMatching(r, id) \/ Mail!SkipTo(r, id)
<1>1. PICK id \in Id : id = op[r].id
  BY DEF read_specific, Locked, RingInv, TypeOK, Op, NoOp
<1> DEFINE k == First(Matches(id))
           m == [fileRcvBuffer[At(bufTail, k)] EXCEPT !.over = @ \/ flags(k)]
<1>2. /\ ~dispatching /\ ~dispatching' /\ Matches(id) # {}
      /\ bufHead' = bufHead /\ fileRcvBuffer' = fileRcvBuffer
      /\ msg' = [msg EXCEPT ![r] = m]
      /\ Keep(k) \/ Take_matching(k) \/ Skip_preceeding(k)
  BY <1>1 DEF read_specific, Locked
<1>3. /\ k \in 0 .. size - 2 /\ k < getQLen(bufHead, bufTail) /\ valid[At(bufTail, k)]
      /\ k + 1 \in 1 .. Len(Box) /\ Mail!IsFirst(id, k + 1)
      /\ Mail!WithOlderMarks(k + 1) = m
  BY <1>2, MatchIsFirst
<1> HIDE DEF k, m
<1>4. Mail!Give(r, Mail!WithOlderMarks(k + 1))
  BY <1>2, <1>3 DEF Mail!Give
<1>5. PICK n \in 1 .. size - 1 : n = getQLen(bufHead, bufTail)
  <2>1. getQLen(bufHead, bufTail) \in 0 .. size - 1
    BY RingFacts, DistanceToHead
  <2> QED BY <1>3, <2>1
<1>6. Box = Row(bufTail, n, valid, fileRcvBuffer)
  BY <1>2, <1>5, RingFacts DEF Occupied
<1>7. Box' = Row(bufTail', getQLen(bufHead, bufTail'), valid', fileRcvBuffer)
  BY <1>2, RingFactsNext DEF Occupied
<1>8. k + 1 \in 1 .. n /\ (k + 1) - 1 = k
  BY <1>3, <1>5
<1>9. bufHead # bufTail
  BY <1>3, <1>5, RingFacts DEF getQLen, Index
<1>10. valid[bufTail]
  BY <1>9 DEF RingInv, TailIsUnread
<1>11. CASE Keep(k)
  <2>1. Box' = Box
    BY <1>5, <1>6, <1>7, <1>11 DEF Keep
  <2> QED BY <1>3, <1>4, <2>1 DEF Mail!Peek
<1>12. CASE Take_matching(k)
  <2>1. /\ valid' = Cleared(valid, At(bufTail, k))
        /\ bufTail' = IF k + 1 = 1 THEN Popped(bufTail, bufHead, valid') ELSE bufTail
    <3>1. k \in Nat
      BY <1>3
    <3> QED BY <1>12, <3>1 DEF Take_matching, Cleared
  <2>2. ASSUME NEW j \in 1 .. n, j = k + 1
        PROVE  Box' = Mail!FromOldest(Emptied(Box, j))
    <3>1. j - 1 = k
      BY <1>8, <2>2
    <3> DEFINE ok2 == Cleared(valid, At(bufTail, j - 1))
               tail == IF j = 1 THEN Popped(bufTail, bufHead, ok2) ELSE bufTail
    <3>2. Mail!FromOldest(Emptied(Row(bufTail, n, valid, fileRcvBuffer), j)) =
              Row(tail, getQLen(bufHead, tail), ok2, fileRcvBuffer)
      <4>1. /\ bufTail \in Index /\ bufHead \in Index /\ valid \in Flags
            /\ fileRcvBuffer \in Slots /\ Written(valid, fileRcvBuffer)
        BY RingFacts
      <4> HIDE DEF Row, getQLen, Index, Flags, Slots
      <4> QED BY <1>5, <1>10, <4>1, TakenFromRow
    <3>3. valid' = ok2 /\ bufTail' = tail
      BY <2>1, <2>2, <3>1
    <3> HIDE DEF ok2, tail
    <3> QED BY <1>6, <1>7, <3>2, <3>3
  <2>3. Box' = Mail!FromOldest([Box EXCEPT ![k + 1] = Mail!Empty])
    BY <1>8, <2>2 DEF Mail!Empty, Nothing, Emptied
  <2> QED BY <1>3, <1>4, <2>3 DEF Mail!TakeMatching
<1>13. CASE Skip_preceeding(k)
  <2> DEFINE t == At(bufTail, k)
             tail == Popped(t, bufHead, valid)
  <2>1. valid' = valid /\ bufTail' = tail
    BY <1>13 DEF Skip_preceeding
  <2>2. t \in Index /\ n - k \in 1 .. size - 1 /\ n - k \in 1 .. size
    BY <1>3, <1>8, RingFacts, AtIsIndex
  <2>3. At(t, n - k) = bufHead /\ \A j \in 1 .. (n - k) - 1 : At(t, j) # bufHead
    <3>1. bufHead \in Index /\ bufTail \in Index
      BY RingFacts
    <3> QED BY <1>5, <1>8, <3>1 DEF At, getQLen, Index
  <2>4. SubSeq(Box, (k + 1) + 1, n) = Row(At(bufTail, k + 1), n - (k + 1), valid, fileRcvBuffer)
    <3>1. n \in 0 .. size /\ k + 1 \in 0 .. n
      BY <1>8
    <3> QED BY <1>6, <3>1, RingFacts, RowCut
  <2>5. At(bufTail, k + 1) = At(t, 1) /\ n - (k + 1) = (n - k) - 1
    <3>1. bufTail \in Index
      BY RingFacts
    <3> QED BY <1>8, <3>1 DEF At, Index
  <2>6. Len(Box) = n
    <3>1. n \in 0 .. size
      OBVIOUS
    <3> QED BY <1>6, <3>1, RingFacts, RowType
  <2> HIDE DEF t
  <2>7. Mail!FromOldest(Row(At(t, 1), (n - k) - 1, valid, fileRcvBuffer)) =
            Row(tail, getQLen(bufHead, tail), valid, fileRcvBuffer)
    BY <2>2, <2>3, RingFacts, PoppedRow
  <2>8. Box' = Mail!FromOldest(SubSeq(Box, (k + 1) + 1, Len(Box)))
    BY <1>7, <2>1, <2>4, <2>5, <2>6, <2>7
  <2> QED BY <1>3, <1>4, <2>8 DEF Mail!SkipTo
<1> QED BY <1>2, <1>11, <1>12, <1>13

\* A flush clears the mailbox.
LEMMA FlushClears ==
    ASSUME RingInv, NEW r \in Reader, vCanFlushReceiveBuffer(r) PROVE Mail!Clear
<1>1. /\ bufHead' = 0 /\ bufTail' = 0 /\ ~dispatching' /\ msg' = msg
  BY DEF vCanFlushReceiveBuffer
<1>2. Occupied' = 0
  BY <1>1 DEF Occupied, getQLen
<1>3. Box' = <<>>
  BY <1>2 DEF Box
<1> QED BY <1>1, <1>3 DEF Mail!Clear

\* What leaves the ring leaves the row.
LEMMA RowStays ==
    ASSUME UNCHANGED <<bufHead, bufTail, valid, fileRcvBuffer, dispatching>>
    PROVE  Box' = Box
  BY DEF Box, Occupied

\* A call forgets what the last one returned, the other looks at the ring
\* change nothing the mailbox knows.
LEMMA LookStutters ==
    ASSUME NEW r \in Reader, Only_looks(r) PROVE Mail!Ask(r) \/ UNCHANGED Mail!vars
<1>1. Box' = Box
  BY LookingChangesNothing, RowStays
<1>2. CASE \E o \in Op : Call(r, o)
  <2>1. msg' = [msg EXCEPT ![r] = Nothing]
    BY <1>2 DEF Call
  <2> QED BY <1>1, <2>1 DEF Mail!Ask, Mail!Give, Mail!Empty, Nothing
<1>3. CASE ~\E o \in Op : Call(r, o)
  <2>1. msg' = msg
    BY <1>3 DEF Only_looks, prepare_to_wait, Check_condition, Wake, Time_out, After_wait,
                RECVMSG_empty, RECVMSG_SYNC, RECVMSG_SPECIFIC_none
  <2> QED BY <1>1, <2>1 DEF Mail!vars
<1> QED BY <1>2, <1>3

----------------------------------------------------------------------------

\* The empty ring is the empty mailbox.
LEMMA InitMail == Init => Mail!Init
<1> SUFFICES ASSUME Init PROVE Mail!Init
  OBVIOUS
<1>1. Occupied = 0
  BY DEF Init, Occupied, getQLen
<1>2. Box = <<>>
  BY <1>1 DEF Box
<1> QED BY <1>2 DEF Init, Mail!Init, Mail!Empty, Nothing

\* Every step of the ring is one of the mailbox or none.
LEMMA StepMail ==
    ASSUME RingInv, RingInv', [Next]_vars PROVE [Mail!Next]_(Mail!vars)
<1>1. ASSUME NEW id \in Id, vCanPushReceiveBuffer([id |-> id, over |-> FALSE])
      PROVE  UNCHANGED Mail!vars
  BY <1>1, PushStutters
<1>2. CASE Dispatch_room
  BY <1>2, RoomArrives
<1>3. CASE Dispatch_overrun
  BY <1>3, OverrunArrives
<1>4. CASE Card_removed \/ vCanRemoveCardChannel \/ UNCHANGED vars
  <2>1. UNCHANGED <<bufHead, bufTail, valid, fileRcvBuffer, dispatching>> /\ msg' = msg
    BY <1>4 DEF Card_removed, vCanRemoveCardChannel, vars
  <2> QED BY <2>1, RowStays DEF Mail!vars
<1>5. ASSUME NEW r \in Reader, RECVMSG(r) PROVE Mail!Next
  BY <1>5, ReadTakes DEF Mail!Next, Mail!Read
<1>6. ASSUME NEW r \in Reader, read_specific(r) PROVE Mail!Next
  BY <1>6, SpecificReads DEF Mail!Next, Mail!Read
<1>7. ASSUME NEW r \in Reader, vCanFlushReceiveBuffer(r) PROVE Mail!Next
  BY <1>7, FlushClears DEF Mail!Next
<1>8. ASSUME NEW r \in Reader, Only_looks(r) PROVE Mail!Next \/ UNCHANGED Mail!vars
  BY <1>8, LookStutters DEF Mail!Next
<1> QED BY <1>1, <1>2, <1>3, <1>4, <1>5, <1>6, <1>7, <1>8
        DEF Next, Dispatcher, Ioctl_step, Only_looks

\* The ring implements the mailbox: arrival order, every message once, and
\* only the oldest is given up, when size - 1 places are taken.
THEOREM ImplementsMailbox == Spec => MailSpec
<1>1. Spec => [][Next]_vars
  BY PTL DEF Spec
<1>2. Spec => Mail!Init
  BY InitMail DEF Spec
<1>3. Spec => [][Mail!Next]_(Mail!vars)
  BY <1>1, Invariant, StepMail, PTL
<1> QED BY <1>2, <1>3, PTL DEF MailSpec, Mail!Spec
============================================================================
