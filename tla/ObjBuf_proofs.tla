---------------------------- MODULE ObjBuf_proofs --------------------------
(* ObjBuf, for any number of buffers and any length of the transmit queue:  *)
(* on a build that clears what is done, every response is owed and nothing  *)
(* marked is forgotten; on every build the last close waits for the work.   *)
EXTENDS ObjBuf, WellFoundedInduction, TLAPS

USE SizesAssumption, BuildAssumption

\* How far the worker is: it has done only what comes before i, and the buffer
\* it is about to respond for was marked when it began.
Scanning ==
    /\ done_mask \subseteq 0 .. i - 1
    /\ pc = "respond" => i \in active_mask
    /\ pc = "idle" => active_mask = {}

\* The bits the worker read are still set, and what was marked since has
\* queued the work again.
MarkedSince ==
    /\ active_mask \subseteq objbufActive
    /\ objbufActive # active_mask => objbufWork

\* What is marked and not yet done is owed.
MarkedIsOwed == objbufActive \ done_mask \subseteq owed

\* Only the build that clears what is done keeps these.
Marks == ClearsDone => MarkedSince /\ MarkedIsOwed

IInv ==
    /\ TypeOK
    /\ Scanning
    /\ Marks
    /\ NoWorkAfterClose

USE DEF setup, mask, worker, handle, rest_of_setup

\* A handle is opened with no buffer, mark or work.
LEMMA InitIInv == Init => IInv
<1> SUFFICES ASSUME Init PROVE IInv
  OBVIOUS
<1>1. TypeOK
  <2>1. 0 \in 0 .. MAX_OBJECT_BUFFERS /\ 0 \in 0 .. Capacity
    OBVIOUS
  <2> QED BY <2>1 DEF Init, TypeOK
<1>2. Scanning /\ Marks
  BY DEF Init, Scanning, Marks, MarkedSince, MarkedIsOwed
<1>3. NoWorkAfterClose
  BY DEF Init, NoWorkAfterClose, Drained
<1> QED BY <1>1, <1>2, <1>3 DEF IInv

----------------------------------------------------------------------------
(* Sets of numbers: the least-number principle of the library, with a set   *)
(* in the place of a predicate.                                             *)

Below == {p \in Nat \X Nat : p[1] < p[2]}

\* A set of natural numbers that is not empty has a least element.
LEMMA LeastElement ==
    ASSUME NEW T, T \subseteq Nat, T # {}
    PROVE  \E m \in T : \A k \in T : m <= k
<1>1. /\ IsWellFoundedOn(Below, Nat)
      /\ \A x, y \in Nat : y < x => <<y, x>> \in Below
  BY NatLessThanWellFounded DEF OpToRel, Below
<1>2. \E x \in T : \A y \in T : ~ (<<y, x>> \in Below)
  BY <1>1, WFMin, Zenon
<1>3. PICK m \in T : \A y \in T : ~ (<<y, m>> \in Below)
  BY <1>2
<1>4. ASSUME NEW k \in T PROVE m <= k
  <2>1. m \in Nat /\ k \in Nat
    OBVIOUS
  <2>2. ~(k < m)
    BY <1>1, <1>3, <2>1
  <2> QED BY <2>1, <2>2
<1> QED BY <1>4

----------------------------------------------------------------------------
(* The buffers and the worker.                                              *)

\* The first free buffer exists.
LEMMA FirstFree ==
    ASSUME objbuf_allocate, in_use \subseteq Buffer
    PROVE  in_use' \subseteq Buffer
<1>0. in_use # Buffer
  BY DEF objbuf_allocate
<1>1. Buffer \ in_use # {}
  BY <1>0
<1>2. Buffer \ in_use \subseteq Nat
  BY DEF Buffer
<1>3. \E b \in Buffer \ in_use : \A c \in Buffer \ in_use : b <= c
  BY <1>1, <1>2, LeastElement
<1>4. (CHOOSE b \in Buffer \ in_use : \A c \in Buffer \ in_use : b <= c) \in Buffer
  BY <1>3
<1> QED BY <1>4 DEF objbuf_allocate

\* The worker walks through the buffers and does not leave them; a response
\* finds room in the queue.
LEMMA StepType == IInv /\ [Next]_vars => TypeOK'
<1> SUFFICES ASSUME IInv, [Next]_vars PROVE TypeOK'
  OBVIOUS
<1> USE DEF IInv, TypeOK
<1>1. CASE Ioctl
  BY <1>1, FirstFree
  DEF Ioctl, objbuf_allocate, objbuf_free_all, objbuf_free, objbuf_enable,
      objbuf_disable
<1>2. ASSUME NEW objbuf_mask \in objbuf_filter_match, vCanDispatchEvent(objbuf_mask)
      PROVE  TypeOK'
  BY <1>2 DEF vCanDispatchEvent, objbuf_filter_match
<1>3. CASE Worker
  <2>1. CASE objbuf_write_all
    <3>1. pc' \in {"idle", "scan"} /\ 0 \in 0 .. MAX_OBJECT_BUFFERS
      BY <2>1 DEF objbuf_write_all
    <3> QED BY <2>1, <3>1 DEF objbuf_write_all
  <2>2. CASE Skip_buffer
    BY <2>2 DEF Skip_buffer, Buffer
  <2>3. CASE Test_buffer
    BY <2>3 DEF Test_buffer
  <2>4. CASE Respond
    <3>1. i \in Buffer /\ i \in active_mask
      BY <2>4 DEF Respond, Scanning
    <3>2. txChanQueue' \in 0 .. Capacity /\ i' \in 0 .. MAX_OBJECT_BUFFERS
      BY <2>4, <3>1 DEF Respond, Room, Buffer
    <3> QED BY <2>4, <3>1, <3>2 DEF Respond
  <2>5. CASE Scan_end
    BY <2>5 DEF Scan_end
  <2>6. CASE Clear
    BY <2>6 DEF Clear, Cleared, Extra_work
  <2> QED BY <1>3, <2>1, <2>2, <2>3, <2>4, <2>5, <2>6 DEF Worker
<1>4. CASE Transmitted
  BY <1>4 DEF Transmitted
<1>5. CASE vCanClose \/ Close_free
  BY <1>5 DEF vCanClose, Close_free
<1>6. CASE UNCHANGED vars
  BY <1>6 DEF vars
<1> QED BY <1>1, <1>2, <1>3, <1>4, <1>5, <1>6 DEF Next

\* A buffer is done once: the worker moves on when it has responded.
LEMMA StepScanning == IInv /\ [Next]_vars => Scanning'
<1> SUFFICES ASSUME IInv, [Next]_vars PROVE Scanning'
  OBVIOUS
<1> USE DEF IInv, Scanning
<1>1. CASE UNCHANGED worker
  BY <1>1
<1>2. CASE Worker
  <2>1. CASE objbuf_write_all
    BY <2>1 DEF objbuf_write_all
  <2>2. CASE Skip_buffer
    BY <2>2 DEF Skip_buffer, Buffer
  <2>3. CASE Test_buffer
    BY <2>3 DEF Test_buffer, Responds
  <2>4. CASE Respond
    BY <2>4 DEF Respond, Buffer, TypeOK
  <2>5. CASE Scan_end
    BY <2>5 DEF Scan_end
  <2>6. CASE Clear
    BY <2>6 DEF Clear
  <2> QED BY <1>2, <2>1, <2>2, <2>3, <2>4, <2>5, <2>6 DEF Worker
<1> QED BY <1>1, <1>2
        DEF Next, vars, Ioctl, objbuf_allocate, objbuf_free_all, objbuf_free,
            objbuf_enable, objbuf_disable, vCanDispatchEvent, Transmitted, vCanClose,
            Close_free

\* The dispatcher marks and queues the work in one; the worker clears only what
\* it has done, and queues the work again for what it has not.
LEMMA StepMarks == IInv /\ [Next]_vars => Marks'
<1> SUFFICES ASSUME IInv, [Next]_vars, ClearsDone PROVE (MarkedSince /\ MarkedIsOwed)'
  BY DEF Marks
<1> USE DEF IInv, Marks, MarkedSince, MarkedIsOwed
<1>1. CASE UNCHANGED <<mask, worker, owed>>
  BY <1>1
<1>2. ASSUME NEW objbuf_mask \in objbuf_filter_match, vCanDispatchEvent(objbuf_mask)
      PROVE  (MarkedSince /\ MarkedIsOwed)'
  BY <1>2 DEF vCanDispatchEvent
<1>3. CASE Worker
  <2>1. CASE objbuf_write_all
    <3>1. active_mask' = objbufActive /\ objbufActive' = objbufActive
      BY <2>1 DEF objbuf_write_all
    <3>2. done_mask' = {} /\ done_mask = {} /\ owed' = owed
      BY <2>1 DEF objbuf_write_all, Scanning, TypeOK
    <3> QED BY <3>1, <3>2
  <2>2. CASE Skip_buffer \/ Test_buffer \/ Scan_end
    BY <2>2 DEF Skip_buffer, Test_buffer, Scan_end
  <2>3. CASE Respond
    BY <2>3 DEF Respond
  <2>4. CASE Clear
    BY <2>4 DEF Clear, Cleared, Extra_work, TypeOK
  <2> QED BY <1>3, <2>1, <2>2, <2>3, <2>4 DEF Worker
<1> QED BY <1>1, <1>2, <1>3
        DEF Next, vars, Ioctl, objbuf_allocate, objbuf_free_all, objbuf_free,
            objbuf_enable, objbuf_disable, Transmitted, vCanClose, Close_free

\* A handle that is closing is not on the dispatcher's list any more.
LEMMA StepClose == IInv /\ [Next]_vars => NoWorkAfterClose'
<1> SUFFICES ASSUME IInv, [Next]_vars PROVE NoWorkAfterClose'
  OBVIOUS
<1> USE DEF IInv, NoWorkAfterClose, Drained
<1>1. CASE UNCHANGED <<objbufWork, pc, node, isLast>>
  BY <1>1
<1>2. CASE Worker
  BY <1>2 DEF Worker, objbuf_write_all, Skip_buffer, Test_buffer, Respond,
              Scan_end, Clear
<1>3. CASE vCanClose \/ Close_free
  BY <1>3 DEF vCanClose, Close_free, objbuf_shutdown
<1>4. ASSUME NEW objbuf_mask \in objbuf_filter_match, vCanDispatchEvent(objbuf_mask)
      PROVE  NoWorkAfterClose'
  BY <1>4 DEF vCanDispatchEvent
<1> QED BY <1>1, <1>2, <1>3, <1>4
        DEF Next, vars, Ioctl, objbuf_allocate, objbuf_free_all, objbuf_free,
            objbuf_enable, objbuf_disable, Transmitted

\* Every step keeps the invariant.
LEMMA StepIInv == IInv /\ [Next]_vars => IInv'
  BY StepType, StepScanning, StepMarks, StepClose DEF IInv

\* It holds always.
LEMMA Invariant == Spec => []IInv
  BY InitIInv, StepIInv, PTL DEF Spec

\* Every variable has its type: objbuf_write_all never overfills the queue and
\* stays within the buffers.
THEOREM TypeCorrect == Spec => []TypeOK
<1>1. IInv => TypeOK
  BY DEF IInv
<1> QED BY <1>1, Invariant, PTL

\* The last close of a channel frees a handle whose work is over, on every build.
THEOREM CloseWaits == Spec => []NoWorkAfterClose
<1>1. IInv => NoWorkAfterClose
  BY DEF IInv
<1> QED BY <1>1, Invariant, PTL

\* Where what is done is cleared, a marked buffer has a worker or will have one.
THEOREM NothingForgotten == ASSUME ClearsDone PROVE Spec => []MarkedIsQueued
<1>1. IInv => MarkedIsQueued
  BY DEF IInv, Marks, MarkedSince, Scanning, MarkedIsQueued
<1> QED BY <1>1, Invariant, PTL

\* Where what is done is cleared, objbuf_write_all responds to frames only, and
\* once to what came before.
THEOREM OnlyOwed == ASSUME ClearsDone PROVE Spec => ResponsesAreOwed
<1>1. ASSUME IInv, [Next]_vars
      PROVE  [\A b \in Buffer : b \in done_mask' \ done_mask => b \in owed]_vars
  <2>1. CASE Respond
    <3>1. i \in objbufActive /\ i \in Int /\ i \notin 0 .. i - 1
      BY <1>1, <2>1 DEF Respond, IInv, Scanning, Marks, MarkedSince, TypeOK
    <3>2. i \in owed
      BY <1>1, <3>1 DEF IInv, Scanning, Marks, MarkedIsOwed
    <3>3. done_mask' \ done_mask \subseteq {i}
      BY <2>1 DEF Respond
    <3> QED BY <3>2, <3>3
  <2>2. CASE done_mask' \subseteq done_mask
    BY <2>2
  <2> QED BY <1>1, <2>1, <2>2
          DEF Next, vars, Ioctl, objbuf_allocate, objbuf_free_all, objbuf_free,
              objbuf_enable, objbuf_disable, vCanDispatchEvent, Transmitted, vCanClose,
              Close_free, Worker, objbuf_write_all, Skip_buffer, Test_buffer, Scan_end,
              Clear
<1>2. Spec => [][Next]_vars
  BY PTL DEF Spec
<1> QED BY <1>1, <1>2, Invariant, PTL DEF ResponsesAreOwed
============================================================================
