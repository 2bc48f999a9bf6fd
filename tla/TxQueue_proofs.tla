--------------------------- MODULE TxQueue_proofs ---------------------------
(* TxQueue, for any number of threads, any set of messages and any size of  *)
(* the array: the ring of indices stays consistent, the spin lock is held   *)
(* by exactly the thread inside its critical section, and the queue         *)
(* implements BoundedFifo.                                                  *)
EXTENDS TxQueue, SequenceTheorems, TLAPS

USE SizeAssumption, NoMsgAssumption, ThreadAssumption

Content == Msg \cup {NoMsg}

\* The inductive invariant.  LockDiscipline is what makes PositionsStayValid
\* inductive (only one thread is between taking and dropping the lock), and
\* that is what LengthIsDistance and TypeOK need at a push and a pop.
IInv ==
    /\ TypeOK
    /\ LockDiscipline
    /\ LengthIsDistance
    /\ PositionsStayValid

\* The start state of queue_init satisfies the invariant.
LEMMA InitIInv == Init => IInv
  BY DEF Init, IInv, TypeOK, LockDiscipline, LengthIsDistance,
         PositionsStayValid, Index, Step, Critical

\* Indices wrap by hand to stay in the array.
LEMMA NextIndexType == ASSUME NEW i \in Index PROVE Next_index(i) \in Index
  BY DEF Next_index, Index

\* Every action leaves every variable in its type.
LEMMA StepTypeOK == IInv /\ [Next]_vars => TypeOK'
<1> SUFFICES ASSUME IInv, [Next]_vars PROVE TypeOK'
  OBVIOUS
<1> USE DEF IInv, TypeOK, Step, Goto, LOCKQ, UNLOCKQ
<1>1. ASSUME NEW t \in Thread, queue_back(t) PROVE TypeOK'
  BY <1>1 DEF queue_back
<1>2. ASSUME NEW t \in Thread, NEW m \in Msg, Fill(t, m) PROVE TypeOK'
  BY <1>2 DEF Fill
<1>3. ASSUME NEW t \in Thread, queue_push(t) PROVE TypeOK'
  <2>1. length < Size - 1
    BY <1>3 DEF queue_push, PositionsStayValid, queue_full
  <2> QED BY <1>3, <2>1, NextIndexType DEF queue_push
<1>4. ASSUME NEW t \in Thread, Check_not_empty(t) PROVE TypeOK'
  BY <1>4 DEF Check_not_empty
<1>5. ASSUME NEW t \in Thread, queue_front(t) PROVE TypeOK'
  BY <1>5 DEF queue_front
<1>6. ASSUME NEW t \in Thread, Take(t) PROVE TypeOK'
  BY <1>6 DEF Take
<1>7. ASSUME NEW t \in Thread, queue_pop(t) PROVE TypeOK'
  <2>1. length > 0
    BY <1>7 DEF queue_pop, PositionsStayValid
  <2> QED BY <1>7, <2>1, NextIndexType DEF queue_pop
<1>8. ASSUME NEW t \in Thread, queue_release(t) PROVE TypeOK'
  BY <1>8 DEF queue_release
<1>9. ASSUME NEW t \in Thread, queue_reinit(t) PROVE TypeOK'
  BY <1>9 DEF queue_reinit, Index
<1>10. CASE UNCHANGED vars
  BY <1>10 DEF vars
<1> QED
  BY <1>1, <1>2, <1>3, <1>4, <1>5, <1>6, <1>7, <1>8, <1>9, <1>10
  DEF Next, ThreadStep

\* Only the thread that takes or drops the lock moves in or out of its
\* critical section.
LEMMA StepLockDiscipline == IInv /\ [Next]_vars => LockDiscipline'
<1> SUFFICES ASSUME IInv, [Next]_vars PROVE LockDiscipline'
  OBVIOUS
<1> USE DEF IInv, TypeOK, Step, Critical, LockDiscipline, Goto, LOCKQ, UNLOCKQ
<1>1. ASSUME NEW t \in Thread, queue_back(t) PROVE LockDiscipline'
  BY <1>1 DEF queue_back
<1>2. ASSUME NEW t \in Thread, NEW m \in Msg, Fill(t, m) PROVE LockDiscipline'
  BY <1>2 DEF Fill
<1>3. ASSUME NEW t \in Thread, queue_push(t) PROVE LockDiscipline'
  BY <1>3 DEF queue_push
<1>4. ASSUME NEW t \in Thread, Check_not_empty(t) PROVE LockDiscipline'
  BY <1>4 DEF Check_not_empty
<1>5. ASSUME NEW t \in Thread, queue_front(t) PROVE LockDiscipline'
  BY <1>5 DEF queue_front
<1>6. ASSUME NEW t \in Thread, Take(t) PROVE LockDiscipline'
  BY <1>6 DEF Take
<1>7. ASSUME NEW t \in Thread, queue_pop(t) PROVE LockDiscipline'
  BY <1>7 DEF queue_pop
<1>8. ASSUME NEW t \in Thread, queue_release(t) PROVE LockDiscipline'
  BY <1>8 DEF queue_release
<1>9. ASSUME NEW t \in Thread, queue_reinit(t) PROVE LockDiscipline'
  BY <1>9 DEF queue_reinit
<1>10. CASE UNCHANGED vars
  BY <1>10 DEF vars
<1> QED
  BY <1>1, <1>2, <1>3, <1>4, <1>5, <1>6, <1>7, <1>8, <1>9, <1>10
  DEF Next, ThreadStep

\* A push and a pop move one index and the counter together.
LEMMA StepLengthIsDistance == IInv /\ [Next]_vars => LengthIsDistance'
<1> SUFFICES ASSUME IInv, [Next]_vars PROVE LengthIsDistance'
  OBVIOUS
<1> USE DEF IInv, TypeOK, LengthIsDistance, Index
<1>3. ASSUME NEW t \in Thread, queue_push(t) PROVE LengthIsDistance'
  <2>1. length < Size - 1
    BY <1>3 DEF queue_push, PositionsStayValid
  <2> QED BY <1>3, <2>1 DEF queue_push, Next_index
<1>7. ASSUME NEW t \in Thread, queue_pop(t) PROVE LengthIsDistance'
  <2>1. length > 0
    BY <1>7 DEF queue_pop, PositionsStayValid
  <2> QED BY <1>7, <2>1 DEF queue_pop, Next_index
<1>9. ASSUME NEW t \in Thread, queue_reinit(t) PROVE LengthIsDistance'
  BY <1>9 DEF queue_reinit
<1>10. CASE UNCHANGED <<head, tail, length>>
  BY <1>10
<1> QED
  BY <1>3, <1>7, <1>9, <1>10
  DEF Next, ThreadStep, vars, queue_back, Fill, Check_not_empty, queue_front,
      Take, queue_release

\* What a thread learnt under the lock stays true until it drops the lock,
\* because every other thread needs the lock to change an index or a message.
LEMMA StepPositionsStayValid == IInv /\ [Next]_vars => PositionsStayValid'
<1> SUFFICES ASSUME IInv, [Next]_vars PROVE PositionsStayValid'
  OBVIOUS
<1> USE DEF IInv, TypeOK, Step, Critical, LockDiscipline, PositionsStayValid,
            Index, Goto, LOCKQ, UNLOCKQ, queue_full, queue_empty
<1>1. ASSUME NEW t \in Thread, queue_back(t) PROVE PositionsStayValid'
  BY <1>1 DEF queue_back
<1>2. ASSUME NEW t \in Thread, NEW m \in Msg, Fill(t, m)
      PROVE  PositionsStayValid'
  BY <1>2 DEF Fill
<1>3. ASSUME NEW t \in Thread, queue_push(t) PROVE PositionsStayValid'
  BY <1>3 DEF queue_push
<1>4. ASSUME NEW t \in Thread, Check_not_empty(t) PROVE PositionsStayValid'
  BY <1>4 DEF Check_not_empty
<1>5. ASSUME NEW t \in Thread, queue_front(t) PROVE PositionsStayValid'
  BY <1>5 DEF queue_front
<1>6. ASSUME NEW t \in Thread, Take(t) PROVE PositionsStayValid'
  BY <1>6 DEF Take
<1>7. ASSUME NEW t \in Thread, queue_pop(t) PROVE PositionsStayValid'
  BY <1>7 DEF queue_pop
<1>8. ASSUME NEW t \in Thread, queue_release(t) PROVE PositionsStayValid'
  BY <1>8 DEF queue_release
<1>9. ASSUME NEW t \in Thread, queue_reinit(t) PROVE PositionsStayValid'
  BY <1>9 DEF queue_reinit
<1>10. CASE UNCHANGED vars
  BY <1>10 DEF vars
<1> QED
  BY <1>1, <1>2, <1>3, <1>4, <1>5, <1>6, <1>7, <1>8, <1>9, <1>10
  DEF Next, ThreadStep

\* The invariant holds in every reachable state.
THEOREM Invariance == Spec => []IInv
<1>1. IInv /\ [Next]_vars => IInv'
  BY StepTypeOK, StepLockDiscipline, StepLengthIsDistance,
     StepPositionsStayValid DEF IInv
<1> QED BY InitIInv, <1>1, PTL DEF Spec

\* Indices returned by the queue always lie in the caller's array.
THEOREM TypeCorrect == Spec => []TypeOK
<1>1. IInv => TypeOK
  BY DEF IInv
<1> QED BY Invariance, <1>1, PTL

\* One owner of the lock, and it is the thread inside its critical section.
THEOREM MutualExclusion == Spec => []LockDiscipline
<1>1. IInv => LockDiscipline
  BY DEF IInv
<1> QED BY Invariance, <1>1, PTL

\* The counter and the indices agree.
THEOREM RingConsistent == Spec => []LengthIsDistance
<1>1. IInv => LengthIsDistance
  BY DEF IInv
<1> QED BY Invariance, <1>1, PTL

\* A position is used only while it is valid.
THEOREM PositionsValid == Spec => []PositionsStayValid
<1>1. IInv => PositionsStayValid
  BY DEF IInv
<1> QED BY Invariance, <1>1, PTL

----------------------------------------------------------------------------
(* The refinement: Queued is what BoundedFifo calls its queue.              *)

\* The abstract queue is a sequence as long as the counter says.
LEMMA QueuedIsSeq ==
    ASSUME TypeOK
    PROVE  Queued \in Seq(Content) /\ Len(Queued) = length
<1>1. \A k \in 1 .. length : Wrapped(k - 1) \in Index
  BY DEF TypeOK, Wrapped, Index
<1>2. Queued \in [1 .. length -> Content]
  BY <1>1 DEF TypeOK, Queued, Content
<1> QED BY <1>2 DEF TypeOK

\* Only queued elements matter to the abstract queue: an element outside
\* tail .. head - 1 may be overwritten.
LEMMA FillKeepsQueued ==
    ASSUME IInv, NEW t \in Thread, NEW m \in Msg, Fill(t, m)
    PROVE  Queued' = Queued
<1>1. /\ pos[t] = head /\ length < Size - 1
      /\ slot' = [slot EXCEPT ![head] = m]
      /\ UNCHANGED <<tail, length>>
  BY DEF Fill, IInv, PositionsStayValid, TypeOK, Index
<1>2. ASSUME NEW k \in 1 .. length
      PROVE  Wrapped(k - 1) \in Index /\ Wrapped(k - 1) # head
  BY <1>1 DEF IInv, TypeOK, Index, LengthIsDistance, Wrapped
<1>3. ASSUME NEW k \in 1 .. length
      PROVE  Wrapped(k - 1)' = Wrapped(k - 1)
                /\ slot'[Wrapped(k - 1)] = slot[Wrapped(k - 1)]
  BY <1>1, <1>2 DEF IInv, TypeOK, Wrapped
<1> QED BY <1>1, <1>3 DEF Queued

\* A push appends the element at head.
LEMMA PushAppends ==
    ASSUME IInv, NEW t \in Thread, queue_push(t)
    PROVE  Queued' = Append(Queued, slot[head])
<1>1. /\ length < Size - 1 /\ length' = length + 1
      /\ UNCHANGED <<tail, slot>>
  BY DEF queue_push, IInv, PositionsStayValid
<1>2. Wrapped(length) = head
  BY <1>1 DEF IInv, TypeOK, Index, LengthIsDistance, Wrapped
<1>3. Queued' = [k \in 1 .. length + 1 |-> slot[Wrapped(k - 1)]]
  BY <1>1 DEF Queued, Wrapped
<1>4. Append(Queued, slot[head])
        = [k \in 1 .. length + 1 |->
              IF k <= length THEN Queued[k] ELSE slot[head]]
  BY QueuedIsSeq DEF IInv, TypeOK
<1>5. ASSUME NEW k \in 1 .. length + 1
      PROVE  slot[Wrapped(k - 1)]
                = IF k <= length THEN Queued[k] ELSE slot[head]
  BY <1>2 DEF Queued, IInv, TypeOK
<1> QED BY <1>3, <1>4, <1>5

\* A pop removes the oldest element, the one the sender read.
LEMMA PopTakesHead ==
    ASSUME IInv, NEW t \in Thread, queue_pop(t)
    PROVE  /\ Queued # <<>> /\ Queued' = Tail(Queued)
           /\ delivered' = Head(Queued)
<1>1. /\ length > 0 /\ length' = length - 1 /\ UNCHANGED slot
      /\ tail' = Next_index(tail) /\ delivered' = slot[tail]
  BY DEF queue_pop, IInv, PositionsStayValid
<1>2. /\ length \in Nat /\ tail \in Index /\ Queued \in Seq(Content)
      /\ Len(Queued) = length
  BY QueuedIsSeq DEF IInv, TypeOK
<1>3. Queued # <<>>
  BY <1>1, <1>2, EmptySeq
<1>4. Queued[1] = slot[tail]
  BY <1>1, <1>2 DEF Queued, Wrapped, Index
<1>5. Head(Queued) = Queued[1]
  BY <1>1, <1>2
<1>6. /\ Tail(Queued) \in Seq(Content) /\ Len(Tail(Queued)) = length - 1
      /\ \A k \in 1 .. length - 1 : Tail(Queued)[k] = Queued[k + 1]
  BY <1>2, <1>3, HeadTailProperties
<1>7. Queued' \in Seq(Content) /\ Len(Queued') = length - 1
  <2>1. Queued' = [k \in 1 .. length - 1 |-> slot[Wrapped(k - 1)']]
    BY <1>1 DEF Queued
  <2>2. ASSUME NEW k \in 1 .. length - 1
        PROVE  slot[Wrapped(k - 1)'] \in Content
    BY <1>1, <1>2 DEF Wrapped, Next_index, Content, IInv, TypeOK, Index
  <2>3. Queued' \in [1 .. length - 1 -> Content]
    BY <2>1, <2>2
  <2> QED BY <2>3, <1>1, <1>2
<1>8. ASSUME NEW k \in 1 .. length - 1
      PROVE  Queued'[k] = Queued[k + 1]
  <2>1. Wrapped(k - 1)' = Wrapped(k)
    BY <1>1, <1>2 DEF Wrapped, Next_index, IInv, TypeOK, Index
  <2>2. Queued'[k] = slot[Wrapped(k - 1)']
    BY <1>1 DEF Queued
  <2>3. Queued[k + 1] = slot[Wrapped(k)]
    BY <1>2 DEF Queued
  <2> QED BY <2>1, <2>2, <2>3
<1>9. Queued' = Tail(Queued)
  BY <1>6, <1>7, <1>8, SeqEqual
<1> QED BY <1>1, <1>3, <1>4, <1>5, <1>9

\* The queue of queue.c, with its callers, is a bounded first-in first-out
\* queue: every step is one of BoundedFifo's or leaves it unchanged.
THEOREM ImplementsFifo == Spec => FifoSpec
<1>1. Init => Fifo!Init
  BY DEF Init, Fifo!Init, Queued
<1>2. ASSUME IInv, [Next]_vars PROVE [Fifo!Next]_(Fifo!vars)
  <2> USE <1>2
  <2>1. CASE UNCHANGED <<tail, length, slot, delivered>>
    BY <2>1 DEF Fifo!vars, Queued, Wrapped
  <2>2. ASSUME NEW t \in Thread, NEW m \in Msg, Fill(t, m)
        PROVE  UNCHANGED Fifo!vars
    BY <2>2, FillKeepsQueued DEF Fill, Fifo!vars
  <2>3. ASSUME NEW t \in Thread, queue_push(t) PROVE Fifo!Next
    <3>1. slot[head] \in Msg /\ length < Size - 1
      BY <2>3 DEF queue_push, IInv, PositionsStayValid
    <3>2. Fifo!Accept(slot[head])
      BY <2>3, <3>1, PushAppends, QueuedIsSeq
      DEF Fifo!Accept, queue_push, IInv
    <3> QED BY <3>1, <3>2 DEF Fifo!Next
  <2>4. ASSUME NEW t \in Thread, queue_pop(t) PROVE Fifo!Next
    BY <2>4, PopTakesHead DEF Fifo!Next, Fifo!Deliver
  <2>5. ASSUME NEW t \in Thread, queue_reinit(t) PROVE Fifo!Next
    <3>1. Queued' = <<>>
      BY <2>5 DEF queue_reinit, Queued
    <3> QED BY <2>5, <3>1 DEF queue_reinit, Fifo!Next, Fifo!Clear
  <2> QED
    BY <2>1, <2>2, <2>3, <2>4, <2>5
    DEF Next, ThreadStep, vars, queue_back, Check_not_empty, queue_front,
        Take, queue_release
<1> QED
  BY <1>1, <1>2, Invariance, PTL DEF Spec, FifoSpec, Fifo!Spec
=============================================================================
