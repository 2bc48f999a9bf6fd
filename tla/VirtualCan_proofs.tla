-------------------------- MODULE VirtualCan_proofs ------------------------
(* Theorems about the virtual card, for any number of channels and handles: *)
(* what a call leaves in a queue somebody is going to send, as long as the  *)
(* driver may count more failures than there are handles.                   *)
EXTENDS VirtualCan, FiniteSetTheorems, TLAPS

USE ChanAssumption, CapacityAssumption, OutstandingAssumption

\* The steps of virtualSend and of the loop over the channels around it.
Stages == {"kick", "look", "front", "empty"}

\* Who has the turn, and for which channel virtualSend works: one's own, or with
\* the turn another that has been crossed off the list.
Turns ==
    \A h \in Handle :
        /\ HasTurn(h) => pc[h] \in Stages \cup {"prepared", "asleep"}
        /\ pc[h] \in {"kick", "prepared", "asleep"} => HasTurn(h)
        /\ pc[h] \in {"look", "front", "empty"} =>
              IF HasTurn(h) THEN sending[h] # chan[h] /\ sending[h] \notin todo[h]
              ELSE sending[h] = chan[h]
        /\ HasTurn(h) /\ pc[h] \in Stages => chan[h] \notin todo[h]

\* A handle that is on bus has its channel there.
OnBus == \A h \in Handle : isBusOn[h] => isOnBus[chan[h]]

Heard(c) == isOnBus[c] /\ ~silentmode[c]

\* Who may yet count a failure on a channel: whoever sends there, and those told
\* to by a channel that does not listen.
Attempts(c) ==
    {h \in Handle :
        \/ pc[h] = "request" /\ chan[h] = c
        \/ /\ pc[h] \in {"look", "front"} /\ sending[h] = c
           /\ chan[h] = c \/ ~Heard(chan[h])
        \/ pc[h] \in Stages /\ HasTurn(h) /\ c \in todo[h] /\ ~Heard(chan[h])}

\* A failure is counted for each message in the queue, and at most one more for
\* each handle but one.
FailuresCounted ==
    \A c \in Channel \ excused :
        outstanding_tx[c] > 0 =>
            outstanding_tx[c] + Cardinality(Attempts(c))
                < txChanQueue[c] + Cardinality(Handle)

\* What will look at the queue of a channel.
WorksFor(h, c) ==
    \/ pc[h] \in {"look", "front"} /\ sending[h] = c
    \/ pc[h] = "request" /\ chan[h] = c /\ virtualTxAvailable(c)
    \/ pc[h] \in Stages /\ HasTurn(h) /\ c \in todo[h]

SomeoneSends ==
    \A c \in Channel \ excused : Stuck(c) => \E h \in Handle : WorksFor(h, c)

\* Whoever sleeps on an empty queue has not been seen yet by who emptied it.
SomeoneWakes ==
    \A h \in Handle :
        pc[h] = "asleep" /\ ~woken[h] /\ waitEmpty[chan[h]] /\ IsEmpty(chan[h]) =>
            \E g \in Handle : pc[g] \in {"look", "front", "empty"} /\ sending[g] = chan[h]

----------------------------------------------------------------------------

\* Every variable has its type; no queue holds more than its capacity.
LEMMA StepType == TypeOK /\ [Next]_vars => TypeOK'
<1> SUFFICES ASSUME TypeOK, [Next]_vars PROVE TypeOK'
  OBVIOUS
<1> USE DEF TypeOK, Goto, Take_turn, Pass_turn, channel, handle
<1>1. CASE UNCHANGED vars
  BY <1>1 DEF vars
<1>2. ASSUME NEW h \in Handle, Call(h) PROVE TypeOK'
  <2>1. CASE SENDMSG(h)
    BY <2>1 DEF SENDMSG, Room
  <2>2. CASE virtualBusOn(h)
    BY <2>2 DEF virtualBusOn, Tell_others
  <2>3. CASE BUS_ON(h) \/ virtualBusOff(h)
    BY <2>3 DEF BUS_ON, virtualBusOff
  <2>4. ASSUME NEW silent \in BOOLEAN, virtualSetOutputMode(h, silent) PROVE TypeOK'
    <3>1. CASE silentmode[chan[h]] /\ silent
      BY <2>4, <3>1 DEF virtualSetOutputMode, Tell_others
    <3>2. CASE ~(silentmode[chan[h]] /\ silent)
      BY <2>4, <3>2 DEF virtualSetOutputMode
    <3> QED BY <3>1, <3>2
  <2>5. CASE vCanFlushSendBuffer(h)
    BY <2>5 DEF vCanFlushSendBuffer
  <2>6. CASE wait_tx_queue_empty(h)
    BY <2>6 DEF wait_tx_queue_empty
  <2> QED BY <1>2, <2>1, <2>2, <2>3, <2>4, <2>5, <2>6 DEF Call
<1>3. ASSUME NEW h \in Handle, Continue(h) \/ Time_out(h) PROVE TypeOK'
  <2>1. CASE virtualRequestSend(h) \/ Look(h) \/ Front_empty(h)
    BY <2>1 DEF virtualRequestSend, Look, Front_empty
  <2>2. CASE Transmit(h)
    BY <2>2 DEF Transmit, Sent
  <2>3. CASE Transmit_fails(h)
    BY <2>3 DEF Transmit_fails, Leave
  <2>4. CASE Empty(h)
    BY <2>4 DEF Empty, Leave, Wake_waiter
  <2>5. CASE Kick(h) \/ Kick_end(h)
    BY <2>5 DEF Kick, Kick_end
  <2>6. CASE Wait_over(h) \/ Sleep(h) \/ Wake(h) \/ Time_out(h)
    BY <2>6 DEF Wait_over, Sleep, Wake, Time_out, End_wait
  <2> QED BY <1>3, <2>1, <2>2, <2>3, <2>4, <2>5, <2>6 DEF Continue
<1> QED BY <1>1, <1>2, <1>3 DEF Next

\* The turn goes from hand to hand.
LEMMA StepTurns == TypeOK /\ Turns /\ [Next]_vars => Turns'
<1> SUFFICES ASSUME TypeOK, Turns, [Next]_vars PROVE Turns'
  OBVIOUS
<1> USE DEF TypeOK, Turns, Stages, HasTurn, Goto, Take_turn, Pass_turn, Begin, channel, handle
<1>1. CASE UNCHANGED vars
  BY <1>1 DEF vars
<1>2. ASSUME NEW h \in Handle, Call(h) PROVE Turns'
  <2>1. CASE SENDMSG(h)
    BY <2>1 DEF SENDMSG
  <2>2. CASE virtualBusOn(h)
    BY <2>2 DEF virtualBusOn, Tell_others
  <2>3. CASE BUS_ON(h) \/ virtualBusOff(h)
    BY <2>3 DEF BUS_ON, virtualBusOff
  <2>4. ASSUME NEW silent \in BOOLEAN, virtualSetOutputMode(h, silent) PROVE Turns'
    BY <2>4 DEF virtualSetOutputMode, Tell_others
  <2>5. CASE vCanFlushSendBuffer(h) \/ wait_tx_queue_empty(h)
    BY <2>5 DEF vCanFlushSendBuffer, wait_tx_queue_empty
  <2> QED BY <1>2, <2>1, <2>2, <2>3, <2>4, <2>5 DEF Call
<1>3. ASSUME NEW h \in Handle, Continue(h) \/ Time_out(h) PROVE Turns'
  <2>1. CASE virtualRequestSend(h) \/ Look(h) \/ Front_empty(h)
    BY <2>1 DEF virtualRequestSend, Look, Front_empty
  <2>2. CASE Transmit(h)
    BY <2>2 DEF Transmit, Sent
  <2>3. CASE Transmit_fails(h)
    BY <2>3 DEF Transmit_fails, Leave
  <2>4. CASE Empty(h)
    BY <2>4 DEF Empty, Leave, Wake_waiter
  <2>5. CASE Kick(h) \/ Kick_end(h)
    BY <2>5 DEF Kick, Kick_end
  <2>6. CASE Wait_over(h) \/ Sleep(h) \/ Wake(h) \/ Time_out(h)
    BY <2>6 DEF Wait_over, Sleep, Wake, Time_out, End_wait
  <2> QED BY <1>3, <2>1, <2>2, <2>3, <2>4, <2>5, <2>6 DEF Continue
<1> QED BY <1>1, <1>2, <1>3 DEF Next

\* Only the last handle takes the channel off bus.
LEMMA StepOnBus == TypeOK /\ OnBus /\ [Next]_vars => OnBus'
<1> SUFFICES ASSUME TypeOK, OnBus, [Next]_vars PROVE OnBus'
  OBVIOUS
<1> USE DEF TypeOK, OnBus, channel, handle
<1>1. ASSUME UNCHANGED <<isBusOn, isOnBus>> PROVE OnBus'
  BY <1>1
<1>2. ASSUME NEW h \in Handle, virtualBusOn(h) \/ BUS_ON(h) PROVE OnBus'
  BY <1>2 DEF virtualBusOn, BUS_ON
<1>3. ASSUME NEW h \in Handle, virtualBusOff(h) PROVE OnBus'
  <2> SUFFICES ASSUME NEW g \in Handle, isBusOn'[g] PROVE isOnBus'[chan[g]]
    OBVIOUS
  <2>1. g # h /\ isBusOn[g]
    BY <1>3 DEF virtualBusOff
  <2> QED BY <1>3, <2>1 DEF virtualBusOff
<1>4. CASE UNCHANGED vars
  BY <1>4 DEF vars
<1>5. ASSUME NEW h \in Handle,
             \/ SENDMSG(h) \/ \E silent \in BOOLEAN : virtualSetOutputMode(h, silent)
             \/ vCanFlushSendBuffer(h) \/ wait_tx_queue_empty(h)
             \/ Continue(h) \/ Time_out(h)
      PROVE  UNCHANGED <<isBusOn, isOnBus>>
  BY <1>5 DEF SENDMSG, virtualSetOutputMode, vCanFlushSendBuffer, wait_tx_queue_empty,
              Continue, Time_out, virtualRequestSend, Look, Front_empty, Transmit,
              Transmit_fails, Empty, Kick, Kick_end, Wait_over, Sleep, Wake, End_wait
<1> QED BY <1>1, <1>2, <1>3, <1>4, <1>5 DEF Next, Call

----------------------------------------------------------------------------
(* Counting.                                                                *)

\* Sets of handles and their sizes.
LEMMA Sizes ==
    ASSUME IsFiniteSet(Handle), NEW A \in SUBSET Handle
    PROVE  /\ IsFiniteSet(A) /\ Cardinality(A) \in Nat /\ Cardinality(Handle) \in Nat
           /\ Cardinality(A) <= Cardinality(Handle)
  BY FS_Subset, FS_CardinalityType

\* One handle more at most.
LEMMA OneMore ==
    ASSUME IsFiniteSet(Handle), NEW A \in SUBSET Handle, NEW B \in SUBSET Handle,
           NEW h \in Handle, B \subseteq A \cup {h}
    PROVE  Cardinality(B) <= Cardinality(A) + 1
<1>1. IsFiniteSet(A) /\ Cardinality(A) \in Nat
  BY Sizes
<1> DEFINE C == A \cup {h}
<1>2. IsFiniteSet(C)
      /\ Cardinality(C) = IF h \in A THEN Cardinality(A) ELSE Cardinality(A) + 1
  BY <1>1, FS_AddElement
<1>3. B \in SUBSET C
  OBVIOUS
<1> HIDE DEF C
<1>4. Cardinality(B) <= Cardinality(C)
  BY <1>2, <1>3, FS_Subset
<1>5. Cardinality(B) \in Nat
  BY Sizes
<1> QED BY <1>1, <1>2, <1>4, <1>5

\* None more, and one less if one of them is gone.
LEMMA Fewer ==
    ASSUME IsFiniteSet(Handle), NEW A \in SUBSET Handle, NEW B \in SUBSET A
    PROVE  /\ Cardinality(B) <= Cardinality(A)
           /\ \A h \in A : h \notin B => Cardinality(B) + 1 <= Cardinality(A)
<1>1. IsFiniteSet(A) /\ Cardinality(A) \in Nat
  BY Sizes
<1>2. Cardinality(B) <= Cardinality(A) /\ Cardinality(B) \in Nat
  BY <1>1, FS_Subset, FS_CardinalityType
<1>3. ASSUME NEW h \in A, h \notin B PROVE Cardinality(B) + 1 <= Cardinality(A)
  <2>1. IsFiniteSet(A \ {h}) /\ Cardinality(A \ {h}) = Cardinality(A) - 1
    BY <1>1, FS_RemoveElement
  <2>2. B \subseteq A \ {h}
    BY <1>3
  <2>3. Cardinality(B) <= Cardinality(A \ {h})
    BY <2>1, <2>2, FS_Subset
  <2> QED BY <1>1, <1>2, <2>1, <2>3
<1> QED BY <1>2, <1>3

\* Where neither the count nor the queue changes and nobody new may fail.
Unmoved(c) ==
    /\ c \notin excused
    /\ outstanding_tx'[c] = outstanding_tx[c] /\ txChanQueue'[c] = txChanQueue[c]
    /\ Attempts(c)' \subseteq Attempts(c)

Counted(c) ==
    outstanding_tx[c] > 0 =>
        outstanding_tx[c] + Cardinality(Attempts(c)) < txChanQueue[c] + Cardinality(Handle)

\* Such a step counts no failure more.
LEMMA UnmovedCounted ==
    ASSUME IsFiniteSet(Handle), TypeOK, FailuresCounted, NEW c \in Channel, Unmoved(c)
    PROVE  Counted(c)'
<1>1. Attempts(c) \in SUBSET Handle /\ Attempts(c)' \in SUBSET Attempts(c)
  BY DEF Unmoved, Attempts
<1>2. /\ Cardinality(Attempts(c)') <= Cardinality(Attempts(c))
      /\ Cardinality(Attempts(c)') \in Nat
      /\ Cardinality(Attempts(c)) \in Nat /\ Cardinality(Handle) \in Nat
  BY <1>1, Sizes, Fewer
<1>3. outstanding_tx[c] \in Nat /\ txChanQueue[c] \in Nat
  BY DEF TypeOK
<1>4. Counted(c)
  BY DEF Unmoved, FailuresCounted, Counted
<1> QED BY <1>2, <1>3, <1>4 DEF Unmoved, Counted

\* The calls that leave queue and count alone.
LEMMA OthersCounted ==
    ASSUME TypeOK, Turns, NEW h \in Handle, NEW c \in Channel \ excused',
           \/ BUS_ON(h) \/ virtualBusOff(h) \/ wait_tx_queue_empty(h)
           \/ virtualRequestSend(h) \/ Look(h) \/ Front_empty(h) \/ Empty(h)
           \/ Kick(h) \/ Kick_end(h)
           \/ Wait_over(h) \/ Sleep(h) \/ Wake(h) \/ Time_out(h)
    PROVE  Unmoved(c)
<1> USE DEF TypeOK, Turns, Stages, HasTurn, Goto, Take_turn, Pass_turn, Begin, channel,
        Unmoved, Attempts, Heard
<1>1. CASE BUS_ON(h) \/ wait_tx_queue_empty(h)
  BY <1>1 DEF BUS_ON, wait_tx_queue_empty
<1>2. CASE virtualBusOff(h)
  BY <1>2 DEF virtualBusOff
<1>3. CASE virtualRequestSend(h) \/ Look(h) \/ Front_empty(h)
  BY <1>3 DEF virtualRequestSend, Look, Front_empty
<1>4. CASE Empty(h)
  BY <1>4 DEF Empty, Leave, Wake_waiter
<1>5. CASE Kick(h)
  BY <1>5 DEF Kick
<1>6. CASE Kick_end(h)
  BY <1>6 DEF Kick_end
<1>7. CASE Wait_over(h) \/ Sleep(h) \/ Wake(h) \/ Time_out(h)
  BY <1>7 DEF Wait_over, Sleep, Wake, Time_out, End_wait
<1> QED BY <1>1, <1>2, <1>3, <1>4, <1>5, <1>6, <1>7

\* SENDMSG: one message and one handle more.
LEMMA SendCounted ==
    ASSUME IsFiniteSet(Handle), TypeOK, Turns, FailuresCounted,
           NEW h \in Handle, SENDMSG(h), NEW c \in Channel \ excused'
    PROVE  Counted(c)'
<1>1. /\ excused' = excused /\ outstanding_tx' = outstanding_tx
      /\ txChanQueue' = [txChanQueue EXCEPT ![chan[h]] = @ + 1]
      /\ pc' = [pc EXCEPT ![h] = "request"]
      /\ UNCHANGED <<isOnBus, silentmode, ioctl_completion, sending, todo>>
  BY DEF SENDMSG, Goto
<1>2. CASE c = chan[h]
  <2>1. Attempts(c)' \subseteq Attempts(c) \cup {h}
    BY <1>1 DEF TypeOK, Attempts, Heard, HasTurn
  <2>2. Attempts(c) \in SUBSET Handle /\ Attempts(c)' \in SUBSET Handle
    BY DEF Attempts
  <2>3. /\ Cardinality(Attempts(c)') <= Cardinality(Attempts(c)) + 1
        /\ Cardinality(Attempts(c)') \in Nat
        /\ Cardinality(Attempts(c)) \in Nat /\ Cardinality(Handle) \in Nat
    BY <2>1, <2>2, Sizes, OneMore
  <2>4. /\ outstanding_tx[c] \in Nat /\ txChanQueue[c] \in Nat
        /\ txChanQueue'[c] = txChanQueue[c] + 1
    BY <1>1, <1>2 DEF TypeOK
  <2>5. Counted(c)
    BY <1>1 DEF FailuresCounted, Counted
  <2> QED BY <1>1, <2>3, <2>4, <2>5 DEF Counted
<1>3. CASE c # chan[h]
  <2>1. Unmoved(c)
    BY <1>1, <1>3 DEF TypeOK, Unmoved, Attempts, Heard, HasTurn, Stages
  <2> QED BY <2>1, UnmovedCounted
<1> QED BY <1>2, <1>3

\* Going on bus starts to count again; whoever is told to send then is listened to.
LEMMA BusOnCounted ==
    ASSUME IsFiniteSet(Handle), TypeOK, Turns, FailuresCounted,
           NEW h \in Handle, virtualBusOn(h), NEW c \in Channel \ excused'
    PROVE  Counted(c)'
<1> USE DEF TypeOK
<1>1. CASE c = chan[h]
  <2>1. outstanding_tx'[c] = 0
    BY <1>1 DEF virtualBusOn
  <2> QED BY <2>1 DEF Counted
<1>2. CASE c # chan[h]
  <2>1. ~silentmode[chan[h]] /\ excused' = excused \ {chan[h]}
    BY <1>2 DEF virtualBusOn
  <2>2. /\ pc[h] = "idle" /\ pc' = [pc EXCEPT ![h] = "kick"]
        /\ ioctl_completion[chan[h]] = NoHandle
        /\ ioctl_completion' = [ioctl_completion EXCEPT ![chan[h]] = h]
        /\ isOnBus' = [isOnBus EXCEPT ![chan[h]] = TRUE]
        /\ todo' = [todo EXCEPT ![h] = Channel \ {chan[h]}]
        /\ UNCHANGED <<silentmode, sending>>
        /\ outstanding_tx'[c] = outstanding_tx[c] /\ txChanQueue'[c] = txChanQueue[c]
    BY <1>2 DEF virtualBusOn, Begin, Goto, Take_turn, Tell_others
  <2>3. Attempts(c)' \subseteq Attempts(c)
    <3> SUFFICES ASSUME NEW g \in Handle, g \in Attempts(c)' PROVE g \in Attempts(c)
      BY DEF Attempts
    <3>1. CASE g = h
      BY <1>2, <2>1, <2>2, <3>1 DEF Attempts, Heard
    <3>2. CASE g # h /\ chan[g] = chan[h]
      BY <1>2, <2>1, <2>2, <3>2 DEF Attempts, Turns, HasTurn, Stages
    <3>3. CASE g # h /\ chan[g] # chan[h]
      BY <1>2, <2>1, <2>2, <3>3 DEF Attempts, HasTurn, Heard
    <3> QED BY <3>1, <3>2, <3>3
  <2>4. Unmoved(c)
    BY <2>1, <2>2, <2>3, <1>2 DEF Unmoved
  <2> QED BY <2>4, UnmovedCounted
<1> QED BY <1>1, <1>2

\* Setting the output mode.
LEMMA OutputModeCounted ==
    ASSUME TypeOK, Turns, NEW h \in Handle, NEW silent \in BOOLEAN,
           virtualSetOutputMode(h, silent), NEW c \in Channel \ excused'
    PROVE  Unmoved(c)
<1> USE DEF TypeOK, Begin, Goto, Take_turn, Tell_others, Turns, HasTurn, Stages
<1>1. /\ c \notin excused /\ (silentmode[chan[h]] => c = chan[h])
      /\ pc[h] = "idle" /\ ioctl_completion[chan[h]] = NoHandle
      /\ isOnBus' = isOnBus /\ sending' = sending
      /\ outstanding_tx' = outstanding_tx /\ txChanQueue' = txChanQueue
  BY DEF virtualSetOutputMode
<1>2. /\ \A g \in Handle \ {h} : pc'[g] = pc[g] /\ todo'[g] = todo[g]
      /\ \A g \in Handle : chan[g] # chan[h] =>
            (HasTurn(g)' <=> HasTurn(g)) /\ (Heard(chan[g])' <=> Heard(chan[g]))
      /\ \A g \in Handle \ {h} : ~(chan[g] = chan[h] /\ HasTurn(g)')
      /\ pc'[h] = "kick" \/ pc'[h] = "idle"
      /\ pc'[h] = "kick" => silentmode[chan[h]] /\ todo'[h] = Channel \ {chan[h]}
  BY DEF virtualSetOutputMode, Heard
<1>3. Attempts(c)' \subseteq Attempts(c)
  <2> SUFFICES ASSUME NEW g \in Handle, g \in Attempts(c)' PROVE g \in Attempts(c)
    BY DEF Attempts
  <2>1. CASE g = h
    BY <1>1, <1>2, <2>1 DEF Attempts
  <2>2. CASE g # h /\ chan[g] = chan[h]
    BY <1>1, <1>2, <2>2 DEF Attempts
  <2>3. CASE g # h /\ chan[g] # chan[h]
    BY <1>1, <1>2, <2>3 DEF Attempts
  <2> QED BY <2>1, <2>2, <2>3
<1> QED BY <1>1, <1>3 DEF Unmoved

\* A flush excuses its channel, and no other changes.
LEMMA FlushCounted ==
    ASSUME TypeOK, NEW h \in Handle, vCanFlushSendBuffer(h), NEW c \in Channel \ excused'
    PROVE  Unmoved(c)
  BY DEF vCanFlushSendBuffer, Unmoved, Attempts, Heard, HasTurn, TypeOK, handle

\* A message that is transmitted takes a failure with it.
LEMMA TransmitCounted ==
    ASSUME IsFiniteSet(Handle), TypeOK, FailuresCounted,
           NEW h \in Handle, Transmit(h), NEW c \in Channel \ excused'
    PROVE  Counted(c)'
<1>1. /\ c \notin excused /\ pc[h] = "front" /\ pc' = [pc EXCEPT ![h] = "look"]
      /\ UNCHANGED <<isOnBus, silentmode, ioctl_completion, sending, todo>>
      /\ sending[h] \in Channel
      /\ txChanQueue' = [txChanQueue EXCEPT ![sending[h]] = @ - 1]
      /\ outstanding_tx' = [outstanding_tx EXCEPT ![sending[h]] = IF @ = 0 THEN 0 ELSE @ - 1]
  BY DEF Transmit, Sent, Goto, TypeOK
<1>2. Attempts(c)' \subseteq Attempts(c)
  BY <1>1 DEF Attempts, Heard, HasTurn, Stages, TypeOK
<1>3. CASE c = sending[h]
  <2>1. Attempts(c) \in SUBSET Handle /\ Attempts(c)' \in SUBSET Attempts(c)
    BY <1>2 DEF Attempts
  <2>2. /\ Cardinality(Attempts(c)') <= Cardinality(Attempts(c))
        /\ Cardinality(Attempts(c)') \in Nat
        /\ Cardinality(Attempts(c)) \in Nat /\ Cardinality(Handle) \in Nat
    BY <2>1, Sizes, Fewer
  <2>3. outstanding_tx[c] \in Nat /\ txChanQueue[c] \in Nat
    BY DEF TypeOK
  <2>4. Counted(c)
    BY <1>1 DEF FailuresCounted, Counted
  <2>5. /\ txChanQueue'[c] = txChanQueue[c] - 1
        /\ outstanding_tx'[c] = IF outstanding_tx[c] = 0 THEN 0 ELSE outstanding_tx[c] - 1
    BY <1>1, <1>3 DEF TypeOK
  <2> QED BY <2>2, <2>3, <2>4, <2>5 DEF Counted
<1>4. CASE c # sending[h]
  <2>1. Unmoved(c)
    BY <1>1, <1>2, <1>4 DEF Unmoved, TypeOK
  <2> QED BY <2>1, UnmovedCounted
<1> QED BY <1>3, <1>4

\* A failure is counted by one who could.
LEMMA FailureCounted ==
    ASSUME IsFiniteSet(Handle), TypeOK, Turns, FailuresCounted,
           NEW h \in Handle, Transmit_fails(h), NEW c \in Channel \ excused'
    PROVE  Counted(c)'
<1>1. /\ c \notin excused /\ pc[h] = "front"
      /\ pc' = [pc EXCEPT ![h] = IF HasTurn(h) THEN "kick" ELSE "idle"]
      /\ UNCHANGED <<isOnBus, silentmode, ioctl_completion, sending, todo, txChanQueue>>
      /\ sending[h] \in Channel /\ txChanQueue[sending[h]] > 0
      /\ Listeners(sending[h]) = {}
      /\ outstanding_tx' = [outstanding_tx EXCEPT ![sending[h]] = @ + 1]
  BY DEF Transmit_fails, Leave, Goto, TypeOK
<1>2. Attempts(c)' \subseteq Attempts(c)
  BY <1>1 DEF Attempts, Heard, HasTurn, Stages, TypeOK
<1>3. CASE c = sending[h]
  <2>1. h \in Attempts(c) /\ h \notin Attempts(c)'
    <3>1. h \in Attempts(c)
      BY <1>1, <1>3 DEF Attempts, Heard, Listeners
    <3>2. h \notin Attempts(c)'
      BY <1>1, <1>3 DEF Attempts, Heard, HasTurn, Stages, Turns, TypeOK
    <3> QED BY <3>1, <3>2
  <2>2. Attempts(c) \in SUBSET Handle /\ Attempts(c)' \in SUBSET Attempts(c)
    BY <1>2 DEF Attempts
  <2>3. /\ Cardinality(Attempts(c)') + 1 <= Cardinality(Attempts(c))
        /\ Cardinality(Attempts(c)') \in Nat
        /\ Cardinality(Attempts(c)) \in Nat /\ Cardinality(Handle) \in Nat
        /\ Cardinality(Attempts(c)) <= Cardinality(Handle)
    BY <2>1, <2>2, Sizes, Fewer
  <2>4. outstanding_tx[c] \in Nat /\ txChanQueue[c] \in Nat
    BY DEF TypeOK
  <2>5. Counted(c)
    BY <1>1 DEF FailuresCounted, Counted
  <2>6. /\ txChanQueue'[c] = txChanQueue[c] /\ txChanQueue[c] > 0
        /\ outstanding_tx'[c] = outstanding_tx[c] + 1
    BY <1>1, <1>3 DEF TypeOK
  <2> QED BY <2>3, <2>4, <2>5, <2>6 DEF Counted
<1>4. CASE c # sending[h]
  <2>1. Unmoved(c)
    BY <1>1, <1>2, <1>4 DEF Unmoved, TypeOK
  <2> QED BY <2>1, UnmovedCounted
<1> QED BY <1>3, <1>4

\* Every step keeps the count.
LEMMA StepCounted ==
    ASSUME IsFiniteSet(Handle), TypeOK, Turns, FailuresCounted, [Next]_vars
    PROVE  FailuresCounted'
<1>1. ASSUME UNCHANGED vars PROVE FailuresCounted'
  BY <1>1 DEF vars, channel, handle, FailuresCounted, Attempts, Heard, HasTurn
<1>2. ASSUME NEW h \in Handle, Call(h) \/ Continue(h) \/ Time_out(h),
             NEW c \in Channel \ excused'
      PROVE  Counted(c)'
  <2>1. CASE \E silent \in BOOLEAN : virtualSetOutputMode(h, silent)
    BY <2>1, OutputModeCounted, UnmovedCounted
  <2>2. CASE vCanFlushSendBuffer(h)
    BY <2>2, FlushCounted, UnmovedCounted
  <2>3. CASE SENDMSG(h)
    BY <2>3, SendCounted
  <2>4. CASE virtualBusOn(h)
    BY <2>4, BusOnCounted
  <2>5. CASE Transmit(h)
    BY <2>5, TransmitCounted
  <2>6. CASE Transmit_fails(h)
    BY <2>6, FailureCounted
  <2>7. CASE \/ BUS_ON(h) \/ virtualBusOff(h) \/ wait_tx_queue_empty(h)
             \/ virtualRequestSend(h) \/ Look(h) \/ Front_empty(h) \/ Empty(h)
             \/ Kick(h) \/ Kick_end(h)
             \/ Wait_over(h) \/ Sleep(h) \/ Wake(h) \/ Time_out(h)
    BY <2>7, OthersCounted, UnmovedCounted
  <2> QED BY <1>2, <2>1, <2>2, <2>3, <2>4, <2>5, <2>6, <2>7 DEF Call, Continue
<1>3. CASE Next
  BY <1>2, <1>3 DEF Next, FailuresCounted, Counted
<1> QED BY <1>1, <1>3

----------------------------------------------------------------------------
(* Somebody sends what is stuck.                                            *)

Enough == IsFiniteSet(Handle) /\ MaxOutstanding >= Cardinality(Handle)

Attended(c) == Stuck(c) => \E h \in Handle : WorksFor(h, c)

\* SENDMSG leaves a request behind, and the channel may count it: what had been
\* counted beyond the queue is less than there are handles.
LEMMA SendAttended ==
    ASSUME Enough, TypeOK, Turns, FailuresCounted, SomeoneSends,
           NEW h \in Handle, SENDMSG(h), NEW c \in Channel \ excused'
    PROVE  Attended(c)'
<1>1. /\ excused' = excused /\ outstanding_tx' = outstanding_tx
      /\ txChanQueue' = [txChanQueue EXCEPT ![chan[h]] = @ + 1]
      /\ pc[h] = "idle" /\ pc' = [pc EXCEPT ![h] = "request"]
      /\ UNCHANGED <<isOnBus, silentmode, ioctl_completion, sending, todo>>
  BY DEF SENDMSG, Goto
<1>2. ASSUME NEW g \in Handle, WorksFor(g, c) PROVE WorksFor(g, c)'
  <2>1. g # h
    BY <1>1, <1>2 DEF WorksFor, Stages
  <2> QED BY <1>1, <1>2, <2>1 DEF WorksFor, HasTurn, virtualTxAvailable, TypeOK
<1>3. CASE Stuck(c)
  BY <1>1, <1>2, <1>3 DEF SomeoneSends, Attended
<1>4. CASE Stuck(c)' /\ ~Stuck(c)
  <2>1. c = chan[h] /\ txChanQueue[c] = 0
    BY <1>1, <1>4 DEF Stuck, Listeners, TypeOK
  <2>2. outstanding_tx[c] < MaxOutstanding
    <3>1. Attempts(c) \in SUBSET Handle
      BY DEF Attempts
    <3>2. Cardinality(Attempts(c)) \in Nat /\ Cardinality(Handle) \in Nat
      BY <3>1, Sizes DEF Enough
    <3>3. outstanding_tx[c] \in Nat
      BY DEF TypeOK
    <3> QED BY <1>1, <2>1, <3>2, <3>3 DEF FailuresCounted, Enough
  <2>3. WorksFor(h, c)'
    BY <1>1, <2>1, <2>2 DEF WorksFor, virtualTxAvailable, TypeOK
  <2> QED BY <2>3 DEF Attended
<1> QED BY <1>3, <1>4 DEF Attended

\* Going on bus tells every other channel, going off bus helps nobody to send.
LEMMA BusAttended ==
    ASSUME TypeOK, OnBus, Turns, SomeoneSends,
           NEW h \in Handle, virtualBusOn(h) \/ BUS_ON(h) \/ virtualBusOff(h),
           NEW c \in Channel \ excused'
    PROVE  Attended(c)'
<1>1. CASE virtualBusOn(h)
  <2>1. /\ pc' = [pc EXCEPT ![h] = "kick"]
        /\ ioctl_completion' = [ioctl_completion EXCEPT ![chan[h]] = h]
        /\ todo' = [todo EXCEPT ![h] = Channel \ {chan[h]}]
        /\ txChanQueue' = [txChanQueue EXCEPT ![chan[h]] = 0]
    BY <1>1 DEF virtualBusOn, Goto, Take_turn, Tell_others
  <2>2. CASE c = chan[h]
    BY <2>1, <2>2 DEF Attended, Stuck, TypeOK
  <2>3. CASE c # chan[h]
    <3>1. WorksFor(h, c)'
      BY <2>1, <2>3 DEF WorksFor, Stages, HasTurn, TypeOK
    <3> QED BY <3>1 DEF Attended
  <2> QED BY <2>2, <2>3
<1>2. CASE BUS_ON(h) \/ virtualBusOff(h)
  <2>1. /\ Stuck(c)' => Stuck(c)
        /\ excused' = excused /\ outstanding_tx' = outstanding_tx
        /\ UNCHANGED <<ioctl_completion, pc, sending, todo>>
    <3>1. /\ excused' = excused /\ outstanding_tx' = outstanding_tx
          /\ txChanQueue' = txChanQueue /\ silentmode' = silentmode
          /\ UNCHANGED <<ioctl_completion, pc, sending, todo>>
          /\ \A d \in Channel : isOnBus'[d] => isOnBus[d]
      <4>1. CASE BUS_ON(h)
        BY <4>1 DEF BUS_ON, channel
      <4>2. CASE virtualBusOff(h)
        BY <4>2 DEF virtualBusOff, TypeOK, OnBus
      <4> QED BY <1>2, <4>1, <4>2
    <3>2. Stuck(c)' => Stuck(c)
      BY <3>1 DEF Stuck, Listeners
    <3> QED BY <3>1, <3>2
  <2>2. ASSUME NEW g \in Handle, WorksFor(g, c) PROVE WorksFor(g, c)'
    BY <2>1, <2>2 DEF WorksFor, HasTurn, virtualTxAvailable
  <2> QED BY <2>1, <2>2 DEF SomeoneSends, Attended
<1> QED BY <1>1, <1>2

\* Setting the output mode: a channel that begins to listen excuses the others.
LEMMA OutputModeAttended ==
    ASSUME TypeOK, Turns, SomeoneSends, NEW h \in Handle, NEW silent \in BOOLEAN,
           virtualSetOutputMode(h, silent), NEW c \in Channel \ excused'
    PROVE  Attended(c)'
<1> USE DEF TypeOK, Begin, Goto, Take_turn, Tell_others
<1>1. /\ c \notin excused /\ (silentmode[chan[h]] => c = chan[h])
      /\ pc[h] = "idle" /\ ioctl_completion[chan[h]] = NoHandle
      /\ isOnBus' = isOnBus /\ sending' = sending
      /\ outstanding_tx' = outstanding_tx /\ txChanQueue' = txChanQueue
  BY DEF virtualSetOutputMode
<1>2. /\ \A g \in Handle \ {h} : pc'[g] = pc[g] /\ todo'[g] = todo[g]
      /\ \A g \in Handle \ {h} : HasTurn(g) => HasTurn(g)'
      /\ \A d \in Channel \ {chan[h]} : silentmode'[d] = silentmode[d]
  BY <1>1 DEF virtualSetOutputMode, HasTurn
<1>3. Stuck(c)' => Stuck(c)
  <2>1. ASSUME NEW d \in Listeners(c)' PROVE d \in Listeners(c)
    BY <1>1, <1>2, <2>1 DEF Listeners
  <2> QED BY <1>1, <2>1 DEF Stuck
<1>4. ASSUME NEW g \in Handle, WorksFor(g, c) PROVE WorksFor(g, c)'
  <2>1. g # h
    BY <1>1, <1>4 DEF WorksFor, Stages
  <2> QED BY <1>1, <1>2, <1>4, <2>1 DEF WorksFor, virtualTxAvailable
<1> QED BY <1>1, <1>3, <1>4 DEF SomeoneSends, Attended

\* The other calls.
LEMMA CallAttended ==
    ASSUME TypeOK, Turns, SomeoneSends,
           NEW h \in Handle, vCanFlushSendBuffer(h) \/ wait_tx_queue_empty(h),
           NEW c \in Channel \ excused'
    PROVE  Attended(c)'
<1>1. /\ c \notin excused /\ isOnBus' = isOnBus /\ silentmode' = silentmode
      /\ outstanding_tx' = outstanding_tx /\ txChanQueue'[c] = txChanQueue[c]
      /\ UNCHANGED <<sending, todo>>
  BY DEF vCanFlushSendBuffer, wait_tx_queue_empty, TypeOK, handle
<1>2. Stuck(c)' => Stuck(c)
  BY <1>1 DEF Stuck, Listeners
<1>3. ASSUME NEW g \in Handle, WorksFor(g, c) PROVE WorksFor(g, c)'
  <2>1. CASE vCanFlushSendBuffer(h)
    BY <1>1, <1>3, <2>1 DEF vCanFlushSendBuffer, WorksFor, HasTurn, virtualTxAvailable, handle
  <2>2. CASE wait_tx_queue_empty(h)
    <3>1. g # h
      BY <1>3, <2>2 DEF wait_tx_queue_empty, Begin, WorksFor, Stages
    <3> QED BY <1>1, <1>3, <2>2, <3>1
            DEF wait_tx_queue_empty, Begin, Goto, Take_turn, WorksFor, HasTurn,
                virtualTxAvailable, TypeOK
  <2> QED BY <2>1, <2>2
<1> QED BY <1>1, <1>2, <1>3 DEF SomeoneSends, Attended

\* A call in progress: whoever stops sending has seen the queue empty or nobody
\* listen, and whoever has others to tell goes on to them.
LEMMA ContinueAttended ==
    ASSUME TypeOK, Turns, SomeoneSends,
           NEW h \in Handle, Continue(h) \/ Time_out(h), NEW c \in Channel \ excused'
    PROVE  Attended(c)'
<1> USE DEF TypeOK, Goto, channel
<1>1. /\ c \notin excused /\ isOnBus' = isOnBus /\ silentmode' = silentmode
      /\ Stuck(c)' => Stuck(c)
  BY DEF Continue, Time_out, virtualRequestSend, Look, Front_empty, Transmit, Sent,
         Transmit_fails, Empty, Kick, Kick_end, Wait_over, Sleep, Wake, End_wait,
         Stuck, Listeners
<1>2. /\ \A g \in Handle \ {h} :
            pc'[g] = pc[g] /\ todo'[g] = todo[g] /\ sending'[g] = sending[g]
      /\ \A g \in Handle \ {h} : HasTurn(g) => HasTurn(g)'
      /\ Stuck(c)' /\ virtualTxAvailable(c) => virtualTxAvailable(c)'
  <2>1. CASE virtualRequestSend(h) \/ Look(h) \/ Front_empty(h)
    BY <2>1 DEF virtualRequestSend, Look, Front_empty, HasTurn, virtualTxAvailable
  <2>2. CASE Transmit(h)
    BY <2>2 DEF Transmit, Sent, HasTurn, virtualTxAvailable
  <2>3. CASE Transmit_fails(h)
    BY <2>3 DEF Transmit_fails, Leave, HasTurn, virtualTxAvailable, Stuck, Listeners
  <2>4. CASE Empty(h)
    BY <2>4 DEF Empty, Leave, Wake_waiter, HasTurn, virtualTxAvailable
  <2>5. CASE Kick(h)
    BY <2>5 DEF Kick, HasTurn, virtualTxAvailable
  <2>6. CASE Kick_end(h)
    BY <2>6 DEF Kick_end, Pass_turn, HasTurn, virtualTxAvailable, Turns
  <2>7. CASE Wait_over(h) \/ Time_out(h)
    BY <2>7 DEF Wait_over, Time_out, End_wait, Pass_turn, HasTurn, virtualTxAvailable, Turns
  <2>8. CASE Sleep(h) \/ Wake(h)
    BY <2>8 DEF Sleep, Wake, HasTurn, virtualTxAvailable
  <2> QED BY <2>1, <2>2, <2>3, <2>4, <2>5, <2>6, <2>7, <2>8 DEF Continue
<1>3. ASSUME NEW g \in Handle \ {h}, WorksFor(g, c), Stuck(c)' PROVE WorksFor(g, c)'
  BY <1>2, <1>3 DEF WorksFor
<1>4. ASSUME WorksFor(h, c), Stuck(c)' PROVE WorksFor(h, c)'
  <2> USE DEF WorksFor, HasTurn, Stages, Turns, Stuck
  <2>1. CASE virtualRequestSend(h)
    BY <1>4, <2>1 DEF virtualRequestSend
  <2>2. CASE Look(h) \/ Front_empty(h)
    BY <1>4, <2>2 DEF Look, Front_empty
  <2>3. CASE Transmit(h)
    BY <1>4, <2>3 DEF Transmit
  <2>4. CASE Transmit_fails(h)
    BY <1>4, <2>4 DEF Transmit_fails, Leave, Listeners
  <2>5. CASE Empty(h)
    BY <1>4, <2>5 DEF Empty, Leave
  <2>6. CASE Kick(h)
    BY <1>4, <2>6 DEF Kick
  <2>7. CASE Kick_end(h) \/ Wait_over(h) \/ Sleep(h) \/ Wake(h) \/ Time_out(h)
    BY <1>4, <2>7 DEF Kick_end, Wait_over, Sleep, Wake, Time_out
  <2> QED BY <2>1, <2>2, <2>3, <2>4, <2>5, <2>6, <2>7 DEF Continue
<1> QED BY <1>1, <1>3, <1>4 DEF SomeoneSends, Attended

\* Every step leaves somebody to send.
LEMMA StepSends ==
    ASSUME Enough, TypeOK, OnBus, Turns, FailuresCounted, SomeoneSends, [Next]_vars
    PROVE  SomeoneSends'
<1>1. ASSUME UNCHANGED vars PROVE SomeoneSends'
  BY <1>1 DEF vars, channel, handle, SomeoneSends, Stuck, Listeners, WorksFor, HasTurn,
              virtualTxAvailable
<1>2. ASSUME NEW h \in Handle, Call(h) \/ Continue(h) \/ Time_out(h),
             NEW c \in Channel \ excused'
      PROVE  Attended(c)'
  BY <1>2, SendAttended, BusAttended, OutputModeAttended, CallAttended, ContinueAttended
     DEF Call
<1>3. CASE Next
  BY <1>2, <1>3 DEF Next, SomeoneSends, Attended
<1> QED BY <1>1, <1>3

----------------------------------------------------------------------------
(* Somebody wakes who sleeps on an empty queue.                             *)

\* Who empties the queue looks at it again, and wakes when it is empty.
LEMMA StepWakes ==
    ASSUME TypeOK, Turns, SomeoneWakes, [Next]_vars PROVE SomeoneWakes'
<1> USE DEF TypeOK, Turns, HasTurn, Stages, SomeoneWakes, IsEmpty, virtualTxAvailable, Goto,
        Take_turn, Pass_turn, Begin, channel, handle
<1>1. CASE UNCHANGED vars
  BY <1>1 DEF vars
<1>2. ASSUME NEW h \in Handle, Call(h) PROVE SomeoneWakes'
  <2>1. CASE SENDMSG(h)
    BY <2>1 DEF SENDMSG
  <2>2. CASE virtualBusOn(h)
    BY <2>2 DEF virtualBusOn, Tell_others
  <2>3. CASE BUS_ON(h) \/ virtualBusOff(h)
    BY <2>3 DEF BUS_ON, virtualBusOff
  <2>4. ASSUME NEW silent \in BOOLEAN, virtualSetOutputMode(h, silent) PROVE SomeoneWakes'
    BY <2>4 DEF virtualSetOutputMode, Tell_others
  <2>5. CASE vCanFlushSendBuffer(h)
    BY <2>5 DEF vCanFlushSendBuffer
  <2>6. CASE wait_tx_queue_empty(h)
    BY <2>6 DEF wait_tx_queue_empty
  <2> QED BY <1>2, <2>1, <2>2, <2>3, <2>4, <2>5, <2>6 DEF Call
<1>3. ASSUME NEW h \in Handle, Continue(h) \/ Time_out(h) PROVE SomeoneWakes'
  <2>1. CASE virtualRequestSend(h)
    BY <2>1 DEF virtualRequestSend
  <2>2. CASE Look(h) \/ Front_empty(h)
    BY <2>2 DEF Look, Front_empty
  <2>3. CASE Transmit(h)
    BY <2>3 DEF Transmit, Sent
  <2>4. CASE Transmit_fails(h)
    BY <2>4 DEF Transmit_fails, Leave
  <2>5. CASE Empty(h)
    BY <2>5 DEF Empty, Leave, Wake_waiter
  <2>6. CASE Kick(h)
    BY <2>6 DEF Kick
  <2>7. CASE Kick_end(h)
    BY <2>7 DEF Kick_end
  <2>8. CASE Wait_over(h) \/ Time_out(h)
    BY <2>8 DEF Wait_over, Time_out, End_wait
  <2>9. CASE Sleep(h) \/ Wake(h)
    BY <2>9 DEF Sleep, Wake
  <2> QED BY <1>3, <2>1, <2>2, <2>3, <2>4, <2>5, <2>6, <2>7, <2>8, <2>9 DEF Continue
<1> QED BY <1>1, <1>2, <1>3 DEF Next

----------------------------------------------------------------------------

\* Nothing is on its way at the start.
LEMMA InitInv ==
    Init => TypeOK /\ OnBus /\ Turns /\ FailuresCounted /\ SomeoneSends /\ SomeoneWakes
<1> SUFFICES ASSUME Init
             PROVE TypeOK /\ OnBus /\ Turns /\ FailuresCounted /\ SomeoneSends /\ SomeoneWakes
  OBVIOUS
<1>1. TypeOK
  BY DEF Init, TypeOK
<1>2. OnBus /\ Turns
  BY DEF Init, OnBus, Turns, HasTurn
<1>3. FailuresCounted /\ SomeoneSends /\ SomeoneWakes
  BY DEF Init, FailuresCounted, SomeoneSends, Stuck, SomeoneWakes
<1> QED BY <1>1, <1>2, <1>3

\* Every variable has its type; no queue holds more than its capacity.
THEOREM TypeCorrect == Spec => []TypeOK
<1>1. Init => TypeOK
  BY InitInv
<1> QED BY <1>1, StepType, PTL DEF Spec

\* What does not depend on how much the driver counts.
LEMMA Invariant == Spec => [](TypeOK /\ Turns /\ SomeoneWakes)
<1>1. Init => TypeOK /\ Turns /\ SomeoneWakes
  BY InitInv
<1>2. TypeOK /\ Turns /\ SomeoneWakes /\ [Next]_vars => (TypeOK /\ Turns /\ SomeoneWakes)'
  BY StepType, StepTurns, StepWakes
<1> QED BY <1>1, <1>2, PTL DEF Spec

\* With room in the count for as many failures as there are handles, no message
\* that somebody would acknowledge is left in a queue when every call has
\* returned, however many channels and handles there are.
THEOREM NothingIsStuck == ASSUME Enough PROVE Spec => []NoStuckMessage
<1> DEFINE Inv == TypeOK /\ OnBus /\ Turns /\ FailuresCounted /\ SomeoneSends
<1>1. Init => Inv
  BY InitInv
<1>2. Inv /\ [Next]_vars => Inv'
  <2>1. IsFiniteSet(Handle)
    BY DEF Enough
  <2> QED BY <2>1, StepType, StepOnBus, StepTurns, StepCounted, StepSends
<1>3. Inv => NoStuckMessage
  <2> SUFFICES ASSUME Inv, Quiet, NEW c \in Channel \ excused, Stuck(c) PROVE FALSE
    BY DEF NoStuckMessage
  <2>1. PICK h \in Handle : WorksFor(h, c)
    BY DEF SomeoneSends
  <2> QED BY <2>1 DEF Quiet, WorksFor, Stages
<1> QED BY <1>1, <1>2, <1>3, PTL DEF Spec

\* canWriteSync never sleeps on with the queue empty and every call returned,
\* however many handles use the channel.
THEOREM SleeperWakes == Spec => []SleeperIsWoken
<1>1. SomeoneWakes => SleeperIsWoken
  BY DEF SomeoneWakes, SleeperIsWoken, Quiet
<1> QED BY <1>1, Invariant, PTL
============================================================================
