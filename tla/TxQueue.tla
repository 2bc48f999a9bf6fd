------------------------------ MODULE TxQueue ------------------------------
(* The transmit queue of a channel: linuxcan/common/queue.c with the way    *)
(* its callers use it.  The queue keeps indices only; the messages live in  *)
(* the caller's array, which is written and read between the call that      *)
(* takes the queue's spin lock (queue_back, queue_front) and the call that  *)
(* drops it (queue_push, queue_pop, queue_release).  Threads are writers    *)
(* (SENDMSG ioctls, the object buffer worker), senders (the driver's        *)
(* transmit loop) and whoever flushes the queue; any thread may be any of   *)
(* them in turn.                                                            *)
EXTENDS Integers, Sequences

CONSTANTS Thread,  \* kernel threads that use the queue
          Msg,     \* messages
          NoMsg,   \* content of an array element never written
          Size     \* queue->size: elements of the caller's array

ASSUME SizeAssumption == Size \in Nat /\ Size >= 2
ASSUME NoMsgAssumption == NoMsg \notin Msg
ASSUME ThreadAssumption == "none" \notin Thread

VARIABLES head,      \* where the next message is put
          tail,      \* the oldest message
          length,    \* atomic_t, also read without the lock
          slot,      \* the caller's array (chd->txChanBuffer)
          lock,      \* owner of the spin lock, "none" when free
          pc,        \* where a thread is in its use of the queue
          pos,       \* what queue_back or queue_front returned to it
          copy,      \* the message a sender read from the array
          delivered  \* the message last sent and then popped

vars == <<head, tail, length, slot, lock, pc, pos, copy, delivered>>

Index == 0 .. Size - 1
Step == {"idle", "back", "filled", "seen", "front", "taken"}
\* A thread at one of these points holds the lock.
Critical == {"back", "filled", "front", "taken"}

Init ==
    /\ head = 0 /\ tail = 0 /\ length = 0
    /\ slot = [i \in Index |-> NoMsg]
    /\ lock = "none"
    /\ pc = [t \in Thread |-> "idle"]
    /\ pos = [t \in Thread |-> -1]
    /\ copy = [t \in Thread |-> NoMsg]
    /\ delivered = NoMsg

----------------------------------------------------------------------------
(* The helpers the operations are made of.                                  *)

\* (A Bug_ operator is a plausible mistake in the definition that follows it;
\* PROJECT.json names the property that notices it.)

queue_full == length >= Size - 1

queue_empty == length = 0

Next_index(i) == IF i + 1 >= Size THEN 0 ELSE i + 1

LOCKQ(t) == lock = "none" /\ lock' = t

\* The default branch of the macro, for a lock type no queue has, calls
\* spin_lock where the others unlock.
Bug_unlock_of_other_lock_type(t) == lock = t /\ UNCHANGED lock
UNLOCKQ(t) == lock = t /\ lock' = "none"

Goto(t, step) == pc' = [pc EXCEPT ![t] = step]

----------------------------------------------------------------------------
(* A writer: queue_back, fill the element, queue_push; or queue_release     *)
(* when the queue is full.                                                  *)

queue_back(t) ==
    /\ pc[t] = "idle"
    /\ LOCKQ(t)
    /\ pos' = [pos EXCEPT ![t] = IF queue_full THEN -1 ELSE head]
    /\ Goto(t, "back")
    /\ UNCHANGED <<head, tail, length, slot, copy, delivered>>

Fill(t, m) ==
    /\ pc[t] = "back" /\ pos[t] >= 0
    /\ slot' = [slot EXCEPT ![pos[t]] = m]
    /\ Goto(t, "filled")
    /\ UNCHANGED <<head, tail, length, lock, pos, copy, delivered>>

queue_push(t) ==
    /\ pc[t] = "filled"
    /\ head' = Next_index(head)
    /\ length' = length + 1
    /\ UNLOCKQ(t)
    /\ Goto(t, "idle")
    /\ UNCHANGED <<tail, slot, pos, copy, delivered>>

----------------------------------------------------------------------------
(* A sender: queue_empty without the lock, then queue_front, which looks    *)
(* again under the lock; read the element, hand it to the bus, queue_pop.   *)

Check_not_empty(t) ==
    /\ pc[t] = "idle"
    /\ ~queue_empty
    /\ Goto(t, "seen")
    /\ UNCHANGED <<head, tail, length, slot, lock, pos, copy, delivered>>

Bug_front_trusts_the_unlocked_test(t) ==
    /\ pc[t] = "seen"
    /\ LOCKQ(t)
    /\ pos' = [pos EXCEPT ![t] = tail]
    /\ Goto(t, "front")
    /\ UNCHANGED <<head, tail, length, slot, copy, delivered>>

queue_front(t) ==
    /\ pc[t] = "seen"
    /\ LOCKQ(t)
    /\ pos' = [pos EXCEPT ![t] = IF queue_empty THEN -1 ELSE tail]
    /\ Goto(t, "front")
    /\ UNCHANGED <<head, tail, length, slot, copy, delivered>>

Take(t) ==
    /\ pc[t] = "front" /\ pos[t] >= 0
    /\ copy' = [copy EXCEPT ![t] = slot[pos[t]]]
    /\ Goto(t, "taken")
    /\ UNCHANGED <<head, tail, length, slot, lock, pos, delivered>>

queue_pop(t) ==
    /\ pc[t] = "taken"
    /\ tail' = Next_index(tail)
    /\ length' = length - 1
    /\ delivered' = copy[t]
    /\ UNLOCKQ(t)
    /\ Goto(t, "idle")
    /\ UNCHANGED <<head, slot, pos, copy>>

\* Nothing to do (full, empty) or the transmission failed: the element stays.
queue_release(t) ==
    /\ \/ pc[t] \in {"back", "front"} /\ pos[t] < 0
       \/ pc[t] = "taken"
    /\ UNLOCKQ(t)
    /\ Goto(t, "idle")
    /\ UNCHANGED <<head, tail, length, slot, pos, copy, delivered>>

----------------------------------------------------------------------------
(* vCanFlushSendBuffer: lock, reset, unlock, with nothing in between that   *)
(* another thread could tell apart.                                         *)

Bug_reinit_without_lock(t) ==
    /\ pc[t] = "idle"
    /\ head' = 0 /\ tail' = 0 /\ length' = 0
    /\ UNCHANGED <<slot, lock, pc, pos, copy, delivered>>

queue_reinit(t) ==
    /\ pc[t] = "idle"
    /\ lock = "none"
    /\ head' = 0 /\ tail' = 0 /\ length' = 0
    /\ UNCHANGED <<slot, lock, pc, pos, copy, delivered>>

----------------------------------------------------------------------------

ThreadStep(t) ==
    \/ queue_back(t) \/ (\E m \in Msg : Fill(t, m)) \/ queue_push(t)
    \/ Check_not_empty(t) \/ queue_front(t) \/ Take(t) \/ queue_pop(t)
    \/ queue_release(t) \/ queue_reinit(t)

Next == \E t \in Thread : ThreadStep(t)

Spec == Init /\ [][Next]_vars

----------------------------------------------------------------------------
(* What must hold.                                                          *)

\* Every variable has its type; head, tail and the returned positions are
\* valid indices of the caller's array (queue.c wraps them by hand).
TypeOK ==
    /\ head \in Index /\ tail \in Index /\ length \in 0 .. Size - 1
    /\ slot \in [Index -> Msg \cup {NoMsg}]
    /\ lock \in Thread \cup {"none"}
    /\ pc \in [Thread -> Step]
    /\ pos \in [Thread -> Index \cup {-1}]
    /\ copy \in [Thread -> Msg \cup {NoMsg}]
    /\ delivered \in Msg \cup {NoMsg}

\* The lock is owned by exactly the thread between its queue_back/queue_front
\* and its queue_push/queue_pop/queue_release: no call path forgets to release
\* it or releases it twice.
LockDiscipline == \A t \in Thread : pc[t] \in Critical <=> lock = t

\* The counter read without the lock and the two indices never disagree: the
\* length is the distance from tail to head around the array, so "full" keeps
\* one element free and head = tail means empty.
LengthIsDistance ==
    length = IF head >= tail THEN head - tail ELSE head - tail + Size

\* The position a thread got under the lock is still the right one when it
\* uses it: a writer fills the element at head, which holds no queued message,
\* and a sender reads and pops the oldest one.
PositionsStayValid ==
    \A t \in Thread :
        /\ pc[t] \in {"back", "filled"} =>
              IF pos[t] >= 0 THEN pos[t] = head /\ length < Size - 1
                             ELSE pc[t] = "back" /\ queue_full
        /\ pc[t] = "filled" => slot[head] \in Msg
        /\ pc[t] \in {"front", "taken"} =>
              IF pos[t] >= 0 THEN pos[t] = tail /\ length > 0
                             ELSE pc[t] = "front" /\ queue_empty
        /\ pc[t] = "taken" => copy[t] = slot[tail]

\* The array element k places after the oldest one.
Wrapped(k) == IF tail + k >= Size THEN tail + k - Size ELSE tail + k

\* The messages in the queue, oldest first.
Queued == [k \in 1 .. length |-> slot[Wrapped(k - 1)]]

\* The ring of indices, the caller's array and the unlocked emptiness test
\* together behave as a first-in first-out queue of Size - 1 messages.
Fifo == INSTANCE BoundedFifo
            WITH queue <- Queued, Capacity <- Size - 1
FifoSpec == Fifo!Spec
============================================================================
