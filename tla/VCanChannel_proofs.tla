------------------------- MODULE VCanChannel_proofs -------------------------
(* VCanChannel, for any finite number of handles: the channel counts its    *)
(* handles exactly, its controller is on bus while one of them is, and      *)
(* access rights and modes are given as they should be.                     *)
EXTENDS VCanChannel, FiniteSetTheorems, TLAPS

USE HandleAssumption, TransIdsAssumption, ModeAssumption

USE DEF list, bus, output, access, mode, number, buffers, rest_of_access,
        rest_of_close, rest_of_objbuf, rest_of_bus,
        Goto, From, Set, Begin, Return, mutex_lock, mutex_unlock

----------------------------------------------------------------------------
(* The inductive invariant.                                                 *)

OnBusSteps == {"busOn", "BUS_OFF", "busOff", "close_off"}

Listed == {h \in Handle :
             pc[h] \in {"open", "BUS_ON", "busOn", "BUS_OFF", "busOff"}}

Opened == {h \in Handle : pc[h] \notin {"closed", "numbered", "counted"}}

\* BUS_OFF leaves the count before it asks the hardware, and keeps isBusOn
\* until the hardware has answered.
Counted == {h \in Handle : isBusOn[h] /\ pc[h] # "busOff"}

\* Where a handle is tells whether it is on the list and on bus.
Places ==
    /\ openFileList = Listed
    /\ \A h \in Handle :
          /\ pc[h] \in OnBusSteps => isBusOn[h]
          /\ isBusOn[h] => pc[h] \in OnBusSteps \cup {"open"}

\* The counts at every moment, also with the mutex held.
Counts ==
    /\ busOnCount = Cardinality(Counted)
    /\ fileOpenCount = Cardinality(Opened)

\* Who calls the hardware holds the mutex.
Mutex ==
    \A h \in Handle :
       pc[h] \in {"busOn", "busOff", "close_busOff"} => busOnCountLock = h

\* The controller follows the first handle on and the last one off.
Controller ==
    /\ \A h \in Handle :
          /\ pc[h] = "busOn" => Counted = {h}
          /\ pc[h] \in {"busOff", "close_busOff"} => Counted = {}
    /\ cardPresent /\ OnBus # {} =>
          isOnBus \/ \E h \in Handle : pc[h] = "busOn"

\* The controller is off bus unless a handle has it on, other than one that is
\* just going on, or a close is about to take it off.
OffWithLast ==
    isOnBus /\ ~refused =>
       \E h \in Handle :
          \/ isBusOn[h] /\ pc[h] # "busOn"
          \/ pc[h] = "close_busOff"

\* Buffers belong to a channel with a handle on its list or with a close that
\* has not yet passed the test for the last.
BuffersInUse ==
    objbufs # {} /\ ~crowded =>
       \E h \in Handle :
          \/ h \in openFileList
          \/ pc[h] \in {"close_off", "close_busOff", "close_check",
                        "close_free"}

\* Rights and modes belong to handles on the list, init access to nodes that
\* exist.
Rights ==
    \A h \in Handle :
       /\ channelOpen[h] \/ channelLocked[h] => h \in openFileList
       /\ init_access[h] => h \in Opened
       /\ granted[h] # NoMode => h \in openFileList

IInv ==
    /\ TypeOK /\ Places /\ Counts /\ Mutex /\ Controller
    /\ OffWithLast /\ BuffersInUse /\ SilentIsTrusted
    /\ Rights /\ Exclusive /\ OneInitAccess /\ ModeAgreed

----------------------------------------------------------------------------
(* Sets of handles that gain or lose one.                                   *)

\* The number of handles in a set is a number, at most the number of handles.
LEMMA SetOfHandles ==
  ASSUME NEW S \in SUBSET Handle
  PROVE  IsFiniteSet(S) /\ Cardinality(S) \in 0 .. Cardinality(Handle)
<1>1. IsFiniteSet(S) /\ Cardinality(S) <= Cardinality(Handle)
  BY FS_Subset
<1> QED
  BY <1>1, FS_CardinalityType

\* A handle that joins makes one more.
LEMMA OneMore ==
  ASSUME NEW S \in SUBSET Handle, NEW h \in Handle, h \notin S
  PROVE  Cardinality(S \cup {h}) = Cardinality(S) + 1
BY SetOfHandles, FS_AddElement

\* A handle that leaves makes one less, and was not the last exactly when
\* somebody is left.
LEMMA OneLess ==
  ASSUME NEW S \in SUBSET Handle, NEW h \in S
  PROVE  /\ Cardinality(S \ {h}) = Cardinality(S) - 1
         /\ Cardinality(S) - 1 = 0 <=> S \ {h} = {}
<1>1. Cardinality(S \ {h}) = Cardinality(S) - 1
  BY SetOfHandles, FS_RemoveElement
<1>2. Cardinality(S \ {h}) = 0 <=> S \ {h} = {}
  BY SetOfHandles, FS_EmptySet
<1> QED
  BY <1>1, <1>2

----------------------------------------------------------------------------
(* The ioctls that are one step move no handle.                             *)

OneStepIoctl(h) ==
    \/ \E override \in BOOLEAN : vcan_ioctl_open_chan(h, override)
    \/ vcan_ioctl_open_excl(h)
    \/ \E wants, require \in BOOLEAN :
          vcan_ioctl_open_init_access(h, wants, require)
    \/ \E m \in Mode : kcan_ioctl_open_mode(h, m)
    \/ \E s \in BOOLEAN : vcan_ioctl_set_output_mode(h, s)
    \/ kcan_ioctl_objbuf_allocate(h) \/ kcan_ioctl_objbuf_free_all(h)

\* Handles stay where they are, on the list and on bus.
LEMMA OneStepIoctlFrame ==
  ASSUME NEW h \in Handle, OneStepIoctl(h)
  PROVE  UNCHANGED <<list, bus, number, ioctl_completion, cardPresent, pc>>
BY DEF OneStepIoctl, vcan_ioctl_open_chan, vcan_ioctl_open_excl,
       vcan_ioctl_open_init_access, kcan_ioctl_open_mode,
       vcan_ioctl_set_output_mode, kcan_ioctl_objbuf_allocate,
       kcan_ioctl_objbuf_free_all

----------------------------------------------------------------------------
(* Where handles are.                                                       *)

\* Every action keeps the list, and who is on bus, in step with the calls.
LEMMA StepPlaces == IInv /\ [Next]_vars => Places'
<1> SUFFICES ASSUME IInv, [Next]_vars PROVE Places'
  OBVIOUS
<1> USE DEF IInv, TypeOK, Step, Places, Listed, OnBusSteps
<1>1. ASSUME NEW h \in Handle, vCanOpen(h) PROVE Places'
  BY <1>1 DEF vCanOpen
<1>2. ASSUME NEW h \in Handle, vCanOpen_add(h) PROVE Places'
  BY <1>2 DEF vCanOpen_add
<1>3. ASSUME NEW h \in Handle, vCanOpen_insert(h) PROVE Places'
  BY <1>3 DEF vCanOpen_insert
<1>4. ASSUME NEW h \in Handle, OneStepIoctl(h) PROVE Places'
  BY <1>4, OneStepIoctlFrame
<1>5. ASSUME NEW h \in Handle, vcan_ioctl_bus_on(h) PROVE Places'
  BY <1>5 DEF vcan_ioctl_bus_on
<1>6. ASSUME NEW h \in Handle, vcan_ioctl_bus_off(h) PROVE Places'
  BY <1>6 DEF vcan_ioctl_bus_off
<1>7. ASSUME NEW h \in Handle, Bus_on_count(h) PROVE Places'
  BY <1>7 DEF Bus_on_count
<1>8. ASSUME NEW h \in Handle, Bus_on_no_time(h) PROVE Places'
  BY <1>8 DEF Bus_on_no_time
<1>9. ASSUME NEW h \in Handle, Bus_on_hw(h) PROVE Places'
  BY <1>9 DEF Bus_on_hw
<1>10. ASSUME NEW h \in Handle, Bus_on_failed(h) PROVE Places'
  BY <1>10 DEF Bus_on_failed
<1>11. ASSUME NEW h \in Handle, Bus_off_count(h) PROVE Places'
  BY <1>11 DEF Bus_off_count
<1>12. ASSUME NEW h \in Handle, Bus_off_hw(h) PROVE Places'
  BY <1>12 DEF Bus_off_hw
<1>13. ASSUME NEW h \in Handle, Bus_off_failed(h) PROVE Places'
  BY <1>13 DEF Bus_off_failed
<1>14. ASSUME NEW h \in Handle, vCanClose(h) PROVE Places'
  BY <1>14 DEF vCanClose
<1>15. ASSUME NEW h \in Handle, Close_count(h) PROVE Places'
  BY <1>15 DEF Close_count
<1>16. ASSUME NEW h \in Handle, Close_busOff(h) PROVE Places'
  BY <1>16 DEF Close_busOff
<1>17. ASSUME NEW h \in Handle, Close_check(h) PROVE Places'
  BY <1>17 DEF Close_check
<1>18. ASSUME NEW h \in Handle, Close_free(h) PROVE Places'
  BY <1>18 DEF Close_free
<1>19. ASSUME NEW h \in Handle, Close_dec(h) PROVE Places'
  BY <1>19 DEF Close_dec
<1>20. CASE Card_removed
  BY <1>20 DEF Card_removed
<1>21. CASE UNCHANGED vars
  BY <1>21 DEF vars
<1> QED
  BY <1>1, <1>2, <1>3, <1>4, <1>5, <1>6, <1>7, <1>8, <1>9, <1>10, <1>11,
     <1>12, <1>13, <1>14, <1>15, <1>16, <1>17, <1>18, <1>19, <1>20, <1>21
  DEF Next, Open_step, Ioctl, OneStepIoctl, Bus_step, Close_step

----------------------------------------------------------------------------
(* The counts.                                                              *)

\* A count moves with the set of handles it counts.
LEMMA StepCounts == IInv /\ [Next]_vars => Counts'
<1> SUFFICES ASSUME IInv, [Next]_vars PROVE Counts'
  OBVIOUS
<1> USE DEF IInv, TypeOK, Step, Counts
<1> Counted \in SUBSET Handle /\ Opened \in SUBSET Handle
  BY DEF Counted, Opened
<1>1. ASSUME NEW h \in Handle, vCanOpen(h) PROVE Counts'
  <2>1. Counted' = Counted
    BY <1>1 DEF vCanOpen, Places, OnBusSteps, Counted
  <2>2. Opened' = Opened
    BY <1>1 DEF vCanOpen, Opened
  <2> QED
    BY <1>1, <2>1, <2>2 DEF vCanOpen
<1>2. ASSUME NEW h \in Handle, vCanOpen_add(h) PROVE Counts'
  <2>1. Counted' = Counted
    BY <1>2 DEF vCanOpen_add, Places, OnBusSteps, Counted
  <2>2. Opened' = Opened
    BY <1>2 DEF vCanOpen_add, Opened
  <2> QED
    BY <1>2, <2>1, <2>2 DEF vCanOpen_add
<1>3. ASSUME NEW h \in Handle, vCanOpen_insert(h) PROVE Counts'
  <2>1. Counted' = Counted
    BY <1>3 DEF vCanOpen_insert, Places, OnBusSteps, Counted
  <2>2. Opened' = Opened \cup {h} /\ h \notin Opened
    BY <1>3 DEF vCanOpen_insert, Opened
  <2> QED
    BY <1>3, <2>1, <2>2, OneMore DEF vCanOpen_insert
<1>4. ASSUME NEW h \in Handle, OneStepIoctl(h) PROVE Counts'
  BY <1>4, OneStepIoctlFrame DEF Counted, Opened
<1>5. ASSUME NEW h \in Handle, vcan_ioctl_bus_on(h) PROVE Counts'
  <2>1. Counted' = Counted
    BY <1>5 DEF vcan_ioctl_bus_on, Places, OnBusSteps, Counted
  <2>2. Opened' = Opened
    BY <1>5 DEF vcan_ioctl_bus_on, Opened
  <2> QED
    BY <1>5, <2>1, <2>2 DEF vcan_ioctl_bus_on
<1>6. ASSUME NEW h \in Handle, vcan_ioctl_bus_off(h) PROVE Counts'
  <2>1. Counted' = Counted
    BY <1>6 DEF vcan_ioctl_bus_off, Places, OnBusSteps, Counted
  <2>2. Opened' = Opened
    BY <1>6 DEF vcan_ioctl_bus_off, Opened
  <2> QED
    BY <1>6, <2>1, <2>2 DEF vcan_ioctl_bus_off
<1>7. ASSUME NEW h \in Handle, Bus_on_count(h) PROVE Counts'
  <2>1. Counted' = Counted \cup {h} /\ h \notin Counted
    BY <1>7 DEF Bus_on_count, Places, OnBusSteps, Counted
  <2>2. Opened' = Opened
    BY <1>7 DEF Bus_on_count, Opened
  <2> QED
    BY <1>7, <2>1, <2>2, OneMore DEF Bus_on_count
<1>8. ASSUME NEW h \in Handle, Bus_on_no_time(h) PROVE Counts'
  <2>1. Counted' = Counted
    BY <1>8 DEF Bus_on_no_time, Places, OnBusSteps, Counted
  <2>2. Opened' = Opened
    BY <1>8 DEF Bus_on_no_time, Opened
  <2> QED
    BY <1>8, <2>1, <2>2 DEF Bus_on_no_time
<1>9. ASSUME NEW h \in Handle, Bus_on_hw(h) PROVE Counts'
  <2>1. Counted' = Counted
    BY <1>9 DEF Bus_on_hw, Places, OnBusSteps, Counted
  <2>2. Opened' = Opened
    BY <1>9 DEF Bus_on_hw, Opened
  <2> QED
    BY <1>9, <2>1, <2>2 DEF Bus_on_hw
<1>10. ASSUME NEW h \in Handle, Bus_on_failed(h) PROVE Counts'
  <2>1. Counted' = Counted \ {h} /\ h \in Counted
    BY <1>10 DEF Bus_on_failed, Places, OnBusSteps, Counted
  <2>2. Opened' = Opened
    BY <1>10 DEF Bus_on_failed, Opened
  <2> QED
    BY <1>10, <2>1, <2>2, OneLess DEF Bus_on_failed
<1>11. ASSUME NEW h \in Handle, Bus_off_count(h) PROVE Counts'
  <2>1. Counted' = Counted \ {h} /\ h \in Counted
    BY <1>11 DEF Bus_off_count, Places, OnBusSteps, Counted
  <2>2. Opened' = Opened
    BY <1>11 DEF Bus_off_count, Opened
  <2> QED
    BY <1>11, <2>1, <2>2, OneLess DEF Bus_off_count
<1>12. ASSUME NEW h \in Handle, Bus_off_hw(h) PROVE Counts'
  <2>1. Counted' = Counted
    BY <1>12 DEF Bus_off_hw, Places, OnBusSteps, Counted
  <2>2. Opened' = Opened
    BY <1>12 DEF Bus_off_hw, Opened
  <2> QED
    BY <1>12, <2>1, <2>2 DEF Bus_off_hw
<1>13. ASSUME NEW h \in Handle, Bus_off_failed(h) PROVE Counts'
  <2>1. Counted' = Counted \cup {h} /\ h \notin Counted
    BY <1>13 DEF Bus_off_failed, Places, OnBusSteps, Counted
  <2>2. Opened' = Opened
    BY <1>13 DEF Bus_off_failed, Opened
  <2> QED
    BY <1>13, <2>1, <2>2, OneMore DEF Bus_off_failed
<1>14. ASSUME NEW h \in Handle, vCanClose(h) PROVE Counts'
  <2>1. Counted' = Counted
    BY <1>14 DEF vCanClose, Places, OnBusSteps, Counted
  <2>2. Opened' = Opened
    BY <1>14 DEF vCanClose, Opened
  <2> QED
    BY <1>14, <2>1, <2>2 DEF vCanClose
<1>15. ASSUME NEW h \in Handle, Close_count(h) PROVE Counts'
  <2>1. Counted' = Counted \ {h} /\ h \in Counted
    BY <1>15 DEF Close_count, Places, OnBusSteps, Counted
  <2>2. Opened' = Opened
    BY <1>15 DEF Close_count, Opened
  <2> QED
    BY <1>15, <2>1, <2>2, OneLess DEF Close_count
<1>16. ASSUME NEW h \in Handle, Close_busOff(h) PROVE Counts'
  <2>1. Counted' = Counted
    BY <1>16 DEF Close_busOff, Places, OnBusSteps, Counted
  <2>2. Opened' = Opened
    BY <1>16 DEF Close_busOff, Opened
  <2> QED
    BY <1>16, <2>1, <2>2 DEF Close_busOff
<1>17. ASSUME NEW h \in Handle, Close_check(h) PROVE Counts'
  <2>1. Counted' = Counted
    BY <1>17 DEF Close_check, Places, OnBusSteps, Counted
  <2>2. Opened' = Opened
    BY <1>17 DEF Close_check, Opened
  <2> QED
    BY <1>17, <2>1, <2>2 DEF Close_check
<1>18. ASSUME NEW h \in Handle, Close_free(h) PROVE Counts'
  <2>1. Counted' = Counted
    BY <1>18 DEF Close_free, Places, OnBusSteps, Counted
  <2>2. Opened' = Opened
    BY <1>18 DEF Close_free, Opened
  <2> QED
    BY <1>18, <2>1, <2>2 DEF Close_free
<1>19. ASSUME NEW h \in Handle, Close_dec(h) PROVE Counts'
  <2>1. Counted' = Counted
    BY <1>19 DEF Close_dec, Places, OnBusSteps, Counted
  <2>2. Opened' = Opened \ {h} /\ h \in Opened
    BY <1>19 DEF Close_dec, Opened
  <2> QED
    BY <1>19, <2>1, <2>2, OneLess DEF Close_dec
<1>20. CASE Card_removed
  BY <1>20 DEF Card_removed, Counted, Opened
<1>21. CASE UNCHANGED vars
  BY <1>21 DEF vars, Counted, Opened
<1> QED
  BY <1>1, <1>2, <1>3, <1>4, <1>5, <1>6, <1>7, <1>8, <1>9, <1>10, <1>11,
     <1>12, <1>13, <1>14, <1>15, <1>16, <1>17, <1>18, <1>19, <1>20, <1>21
  DEF Next, Open_step, Ioctl, OneStepIoctl, Bus_step, Close_step

----------------------------------------------------------------------------
(* The mutex and the controller.                                            *)

\* Who goes to the hardware has found the mutex free, and keeps it until it has
\* returned.
LEMMA StepMutex == IInv /\ [Next]_vars => Mutex'
<1> SUFFICES ASSUME IInv, [Next]_vars PROVE Mutex'
  OBVIOUS
<1> USE DEF IInv, TypeOK, Step, Mutex
<1>1. ASSUME NEW h \in Handle, vCanOpen(h) PROVE Mutex'
  BY <1>1 DEF vCanOpen
<1>2. ASSUME NEW h \in Handle, vCanOpen_add(h) PROVE Mutex'
  BY <1>2 DEF vCanOpen_add
<1>3. ASSUME NEW h \in Handle, vCanOpen_insert(h) PROVE Mutex'
  BY <1>3 DEF vCanOpen_insert
<1>4. ASSUME NEW h \in Handle, OneStepIoctl(h) PROVE Mutex'
  BY <1>4, OneStepIoctlFrame
<1>5. ASSUME NEW h \in Handle, vcan_ioctl_bus_on(h) PROVE Mutex'
  BY <1>5 DEF vcan_ioctl_bus_on
<1>6. ASSUME NEW h \in Handle, vcan_ioctl_bus_off(h) PROVE Mutex'
  BY <1>6 DEF vcan_ioctl_bus_off
<1>7. ASSUME NEW h \in Handle, Bus_on_count(h) PROVE Mutex'
  BY <1>7 DEF Bus_on_count
<1>8. ASSUME NEW h \in Handle, Bus_on_no_time(h) PROVE Mutex'
  BY <1>8 DEF Bus_on_no_time
<1>9. ASSUME NEW h \in Handle, Bus_on_hw(h) PROVE Mutex'
  BY <1>9 DEF Bus_on_hw
<1>10. ASSUME NEW h \in Handle, Bus_on_failed(h) PROVE Mutex'
  BY <1>10 DEF Bus_on_failed
<1>11. ASSUME NEW h \in Handle, Bus_off_count(h) PROVE Mutex'
  BY <1>11 DEF Bus_off_count
<1>12. ASSUME NEW h \in Handle, Bus_off_hw(h) PROVE Mutex'
  BY <1>12 DEF Bus_off_hw
<1>13. ASSUME NEW h \in Handle, Bus_off_failed(h) PROVE Mutex'
  BY <1>13 DEF Bus_off_failed
<1>14. ASSUME NEW h \in Handle, vCanClose(h) PROVE Mutex'
  BY <1>14 DEF vCanClose
<1>15. ASSUME NEW h \in Handle, Close_count(h) PROVE Mutex'
  BY <1>15 DEF Close_count
<1>16. ASSUME NEW h \in Handle, Close_busOff(h) PROVE Mutex'
  BY <1>16 DEF Close_busOff
<1>17. ASSUME NEW h \in Handle, Close_check(h) PROVE Mutex'
  BY <1>17 DEF Close_check
<1>18. ASSUME NEW h \in Handle, Close_free(h) PROVE Mutex'
  BY <1>18 DEF Close_free
<1>19. ASSUME NEW h \in Handle, Close_dec(h) PROVE Mutex'
  BY <1>19 DEF Close_dec
<1>20. CASE Card_removed
  BY <1>20 DEF Card_removed
<1>21. CASE UNCHANGED vars
  BY <1>21 DEF vars
<1> QED
  BY <1>1, <1>2, <1>3, <1>4, <1>5, <1>6, <1>7, <1>8, <1>9, <1>10, <1>11,
     <1>12, <1>13, <1>14, <1>15, <1>16, <1>17, <1>18, <1>19, <1>20, <1>21
  DEF Next, Open_step, Ioctl, OneStepIoctl, Bus_step, Close_step

\* The count is zero exactly when nobody is counted.
LEMMA NoneCounted ==
  ASSUME IInv
  PROVE  busOnCount \in Nat /\ (busOnCount = 0 <=> Counted = {})
<1>1. Counted \in SUBSET Handle
  BY DEF Counted
<1> QED
  BY <1>1, SetOfHandles, FS_EmptySet DEF IInv, Counts

\* The first handle on bus takes the controller on, the last one off, and
\* whoever comes meanwhile waits for the mutex.
LEMMA StepController == IInv /\ [Next]_vars => Controller'
<1> SUFFICES ASSUME IInv, [Next]_vars PROVE Controller'
  OBVIOUS
<1> USE DEF IInv, TypeOK, Step, Controller, OnBus
<1> Counted \in SUBSET Handle
  BY DEF Counted
<1>1. ASSUME NEW h \in Handle, vCanOpen(h) PROVE Controller'
  <2>1. Counted' = Counted
    BY <1>1 DEF vCanOpen, Places, OnBusSteps, Counted
  <2> QED
    BY <1>1, <2>1 DEF vCanOpen
<1>2. ASSUME NEW h \in Handle, vCanOpen_add(h) PROVE Controller'
  <2>1. Counted' = Counted
    BY <1>2 DEF vCanOpen_add, Places, OnBusSteps, Counted
  <2> QED
    BY <1>2, <2>1 DEF vCanOpen_add
<1>3. ASSUME NEW h \in Handle, vCanOpen_insert(h) PROVE Controller'
  <2>1. Counted' = Counted
    BY <1>3 DEF vCanOpen_insert, Places, OnBusSteps, Counted
  <2> QED
    BY <1>3, <2>1 DEF vCanOpen_insert
<1>4. ASSUME NEW h \in Handle, OneStepIoctl(h) PROVE Controller'
  BY <1>4, OneStepIoctlFrame DEF Counted
<1>5. ASSUME NEW h \in Handle, vcan_ioctl_bus_on(h) PROVE Controller'
  <2>1. Counted' = Counted
    BY <1>5 DEF vcan_ioctl_bus_on, Places, OnBusSteps, Counted
  <2> QED
    BY <1>5, <2>1 DEF vcan_ioctl_bus_on
<1>6. ASSUME NEW h \in Handle, vcan_ioctl_bus_off(h) PROVE Controller'
  <2>1. Counted' = Counted
    BY <1>6 DEF vcan_ioctl_bus_off, Places, OnBusSteps, Counted
  <2> QED
    BY <1>6, <2>1 DEF vcan_ioctl_bus_off
<1>7. ASSUME NEW h \in Handle, Bus_on_count(h) PROVE Controller'
  <2>1. /\ Counted' = Counted \cup {h}
        /\ busOnCount' = 1 <=> Counted = {}
    BY <1>7, NoneCounted DEF Bus_on_count, Places, OnBusSteps, Counted
  <2>2. \A g \in Handle : pc[g] \notin {"busOn", "busOff", "close_busOff"}
    BY <1>7 DEF Bus_on_count, Mutex
  <2>3. CASE Counted = {}
    BY <1>7, <2>1, <2>2, <2>3 DEF Bus_on_count
  <2>4. CASE Counted # {}
    BY <1>7, <2>1, <2>2, <2>4 DEF Bus_on_count, Counted
  <2> QED
    BY <2>3, <2>4
<1>8. ASSUME NEW h \in Handle, Bus_on_no_time(h) PROVE Controller'
  <2>1. Counted' = Counted
    BY <1>8 DEF Bus_on_no_time, Places, OnBusSteps, Counted
  <2> QED
    BY <1>8, <2>1 DEF Bus_on_no_time
<1>9. ASSUME NEW h \in Handle, Bus_on_hw(h) PROVE Controller'
  <2>1. Counted' = Counted
    BY <1>9 DEF Bus_on_hw, Places, OnBusSteps, Counted
  <2> QED
    BY <1>9, <2>1 DEF Bus_on_hw
<1>10. ASSUME NEW h \in Handle, Bus_on_failed(h) PROVE Controller'
  <2>1. Counted' = {} /\ OnBus' = {}
    BY <1>10 DEF Bus_on_failed, Counted, Mutex
  <2> QED
    BY <1>10, <2>1 DEF Bus_on_failed, Mutex
<1>11. ASSUME NEW h \in Handle, Bus_off_count(h) PROVE Controller'
  <2>1. /\ Counted' = Counted \ {h}
        /\ busOnCount' = 0 <=> Counted' = {}
    <3>1. Counted' = Counted \ {h} /\ h \in Counted
      BY <1>11 DEF Bus_off_count, Places, OnBusSteps, Counted
    <3> QED
      BY <1>11, <3>1, OneLess DEF Bus_off_count, Counts
  <2>2. \A g \in Handle : pc[g] \notin {"busOn", "busOff", "close_busOff"}
    BY <1>11 DEF Bus_off_count, Mutex
  <2> QED
    BY <1>11, <2>1, <2>2 DEF Bus_off_count, Places, OnBusSteps
<1>12. ASSUME NEW h \in Handle, Bus_off_hw(h) PROVE Controller'
  <2>1. Counted' = {} /\ OnBus' = {}
    BY <1>12 DEF Bus_off_hw, Counted, Mutex, Places, OnBusSteps
  <2> QED
    BY <1>12, <2>1 DEF Bus_off_hw, Mutex
<1>13. ASSUME NEW h \in Handle, Bus_off_failed(h) PROVE Controller'
  <2>1. Counted' = {h}
    BY <1>13 DEF Bus_off_failed, Counted, Places, OnBusSteps
  <2>2. \A g \in Handle \ {h} : pc[g] \notin {"busOn", "busOff", "close_busOff"}
    BY <1>13 DEF Bus_off_failed, Mutex
  <2>3. h \in OnBus /\ ~ \E g \in Handle : pc[g] = "busOn"
    BY <1>13, <2>2 DEF Bus_off_failed, Places, OnBusSteps
  <2> QED
    BY <1>13, <2>1, <2>2, <2>3 DEF Bus_off_failed
<1>14. ASSUME NEW h \in Handle, vCanClose(h) PROVE Controller'
  <2>1. Counted' = Counted
    BY <1>14 DEF vCanClose, Places, OnBusSteps, Counted
  <2> QED
    BY <1>14, <2>1 DEF vCanClose
<1>15. ASSUME NEW h \in Handle, Close_count(h) PROVE Controller'
  <2>1. /\ Counted' = Counted \ {h}
        /\ busOnCount' = 0 <=> Counted' = {}
    <3>1. Counted' = Counted \ {h} /\ h \in Counted
      BY <1>15 DEF Close_count, Places, OnBusSteps, Counted
    <3> QED
      BY <1>15, <3>1, OneLess DEF Close_count, Counts
  <2>2. \A g \in Handle : pc[g] \notin {"busOn", "busOff", "close_busOff"}
    BY <1>15 DEF Close_count, Mutex
  <2> QED
    BY <1>15, <2>1, <2>2 DEF Close_count, Places, OnBusSteps
<1>16. ASSUME NEW h \in Handle, Close_busOff(h) PROVE Controller'
  <2>1. Counted' = {} /\ OnBus' = {}
    BY <1>16 DEF Close_busOff, Counted, Mutex, Places, OnBusSteps
  <2> QED
    BY <1>16, <2>1 DEF Close_busOff, Mutex
<1>17. ASSUME NEW h \in Handle, Close_check(h) PROVE Controller'
  <2>1. Counted' = Counted
    BY <1>17 DEF Close_check, Places, OnBusSteps, Counted
  <2> QED
    BY <1>17, <2>1 DEF Close_check
<1>18. ASSUME NEW h \in Handle, Close_free(h) PROVE Controller'
  <2>1. Counted' = Counted
    BY <1>18 DEF Close_free, Places, OnBusSteps, Counted
  <2> QED
    BY <1>18, <2>1 DEF Close_free
<1>19. ASSUME NEW h \in Handle, Close_dec(h) PROVE Controller'
  <2>1. Counted' = Counted
    BY <1>19 DEF Close_dec, Places, OnBusSteps, Counted
  <2> QED
    BY <1>19, <2>1 DEF Close_dec
<1>20. CASE Card_removed
  BY <1>20 DEF Card_removed, Counted
<1>21. CASE UNCHANGED vars
  BY <1>21 DEF vars, Counted
<1> QED
  BY <1>1, <1>2, <1>3, <1>4, <1>5, <1>6, <1>7, <1>8, <1>9, <1>10, <1>11,
     <1>12, <1>13, <1>14, <1>15, <1>16, <1>17, <1>18, <1>19, <1>20, <1>21
  DEF Next, Open_step, Ioctl, OneStepIoctl, Bus_step, Close_step

\* Whoever leaves the bus as the last has the controller off, or sees it refuse.
LEMMA StepOffWithLast == IInv /\ [Next]_vars => OffWithLast'
<1> SUFFICES ASSUME IInv, [Next]_vars PROVE OffWithLast'
  OBVIOUS
<1> USE DEF IInv, TypeOK, Step, Places, OnBusSteps, Mutex, OffWithLast
<1> Counted \in SUBSET Handle
  BY DEF Counted
<1>1. ASSUME NEW h \in Handle, vCanOpen(h) PROVE OffWithLast'
  BY <1>1 DEF vCanOpen
<1>2. ASSUME NEW h \in Handle, vCanOpen_add(h) PROVE OffWithLast'
  BY <1>2 DEF vCanOpen_add
<1>3. ASSUME NEW h \in Handle, vCanOpen_insert(h) PROVE OffWithLast'
  BY <1>3 DEF vCanOpen_insert
<1>4. ASSUME NEW h \in Handle, OneStepIoctl(h) PROVE OffWithLast'
  BY <1>4, OneStepIoctlFrame, ZenonT(30)
<1>5. ASSUME NEW h \in Handle, vcan_ioctl_bus_on(h) PROVE OffWithLast'
  BY <1>5 DEF vcan_ioctl_bus_on
<1>6. ASSUME NEW h \in Handle, vcan_ioctl_bus_off(h) PROVE OffWithLast'
  BY <1>6 DEF vcan_ioctl_bus_off
<1>7. ASSUME NEW h \in Handle, Bus_on_count(h) PROVE OffWithLast'
  <2>1. \A g \in Handle : pc[g] \notin {"busOn", "busOff", "close_busOff"}
    BY <1>7 DEF Bus_on_count
  <2> QED
    BY <1>7, <2>1 DEF Bus_on_count
<1>8. ASSUME NEW h \in Handle, Bus_on_no_time(h) PROVE OffWithLast'
  BY <1>8 DEF Bus_on_no_time
<1>9. ASSUME NEW h \in Handle, Bus_on_hw(h) PROVE OffWithLast'
  BY <1>9 DEF Bus_on_hw
<1>10. ASSUME NEW h \in Handle, Bus_on_failed(h) PROVE OffWithLast'
  <2>1. Counted = {h}
    BY <1>10 DEF Bus_on_failed, Controller
  <2>2. \A g \in Handle \ {h} : ~isBusOn[g] /\ pc[g] # "close_busOff"
    BY <1>10, <2>1 DEF Bus_on_failed, Counted
  <2> QED
    BY <1>10, <2>2 DEF Bus_on_failed
<1>11. ASSUME NEW h \in Handle, Bus_off_count(h) PROVE OffWithLast'
  <2>1. Counted' = Counted \ {h} /\ h \in Counted
    BY <1>11 DEF Bus_off_count, Places, OnBusSteps, Counted
  <2>2. busOnCount' = 0 <=> Counted' = {}
    BY <1>11, <2>1, OneLess DEF Bus_off_count, Counts
  <2>3. \A g \in Handle : pc[g] \notin {"busOn", "busOff", "close_busOff"}
    BY <1>11 DEF Bus_off_count
  <2>4. CASE Counted' = {}
    BY <1>11, <2>2, <2>4 DEF Bus_off_count
  <2>5. CASE Counted' # {}
    <3>1. PICK g \in Counted' : TRUE
      BY <2>5
    <3>2. g # h /\ isBusOn'[g] /\ pc'[g] # "busOn"
      BY <1>11, <2>1, <2>3, <3>1 DEF Bus_off_count, Counted
    <3> QED
      BY <2>1, <3>1, <3>2
  <2> QED
    BY <2>4, <2>5
<1>12. ASSUME NEW h \in Handle, Bus_off_hw(h) PROVE OffWithLast'
  BY <1>12 DEF Bus_off_hw
<1>13. ASSUME NEW h \in Handle, Bus_off_failed(h) PROVE OffWithLast'
  BY <1>13 DEF Bus_off_failed
<1>14. ASSUME NEW h \in Handle, vCanClose(h) PROVE OffWithLast'
  BY <1>14 DEF vCanClose
<1>15. ASSUME NEW h \in Handle, Close_count(h) PROVE OffWithLast'
  <2>1. Counted' = Counted \ {h} /\ h \in Counted
    BY <1>15 DEF Close_count, Places, OnBusSteps, Counted
  <2>2. busOnCount' = 0 <=> Counted' = {}
    BY <1>15, <2>1, OneLess DEF Close_count, Counts
  <2>3. \A g \in Handle : pc[g] \notin {"busOn", "busOff", "close_busOff"}
    BY <1>15 DEF Close_count
  <2>4. CASE Counted' = {}
    BY <1>15, <2>2, <2>4 DEF Close_count
  <2>5. CASE Counted' # {}
    <3>1. PICK g \in Counted' : TRUE
      BY <2>5
    <3>2. g # h /\ isBusOn'[g] /\ pc'[g] # "busOn"
      BY <1>15, <2>1, <2>3, <3>1 DEF Close_count, Counted
    <3> QED
      BY <2>1, <3>1, <3>2
  <2> QED
    BY <2>4, <2>5
<1>16. ASSUME NEW h \in Handle, Close_busOff(h) PROVE OffWithLast'
  BY <1>16 DEF Close_busOff
<1>17. ASSUME NEW h \in Handle, Close_check(h) PROVE OffWithLast'
  BY <1>17 DEF Close_check
<1>18. ASSUME NEW h \in Handle, Close_free(h) PROVE OffWithLast'
  BY <1>18 DEF Close_free
<1>19. ASSUME NEW h \in Handle, Close_dec(h) PROVE OffWithLast'
  BY <1>19 DEF Close_dec
<1>20. CASE Card_removed
  BY <1>20 DEF Card_removed
<1>21. CASE UNCHANGED vars
  BY <1>21 DEF vars
<1> QED
  BY <1>1, <1>2, <1>3, <1>4, <1>5, <1>6, <1>7, <1>8, <1>9, <1>10, <1>11,
     <1>12, <1>13, <1>14, <1>15, <1>16, <1>17, <1>18, <1>19, <1>20, <1>21
  DEF Next, Open_step, Ioctl, OneStepIoctl, Bus_step, Close_step

\* The cached mode is set together with the controller's and else only
\* forgotten.
LEMMA StepSilentIsTrusted == IInv /\ [Next]_vars => SilentIsTrusted'
<1> SUFFICES ASSUME IInv, [Next]_vars PROVE SilentIsTrusted'
  OBVIOUS
<1> USE DEF IInv, SilentIsTrusted, vcan_ioctl_get_output_mode
<1>1. ASSUME NEW h \in Handle, vCanOpen(h) PROVE SilentIsTrusted'
  BY <1>1 DEF vCanOpen
<1>2. ASSUME NEW h \in Handle, vCanOpen_add(h) PROVE SilentIsTrusted'
  BY <1>2 DEF vCanOpen_add
<1>3. ASSUME NEW h \in Handle, vCanOpen_insert(h) PROVE SilentIsTrusted'
  BY <1>3 DEF vCanOpen_insert
<1>4. ASSUME NEW h \in Handle, OneStepIoctl(h) PROVE SilentIsTrusted'
  <2>1. ASSUME NEW o \in BOOLEAN, vcan_ioctl_open_chan(h, o)
       PROVE  SilentIsTrusted'
    BY <1>4, <2>1 DEF vcan_ioctl_open_chan
  <2>2. ASSUME vcan_ioctl_open_excl(h)
       PROVE  SilentIsTrusted'
    BY <1>4, <2>2 DEF vcan_ioctl_open_excl
  <2>3. ASSUME NEW w \in BOOLEAN, NEW r \in BOOLEAN,
        vcan_ioctl_open_init_access(h, w, r)
       PROVE  SilentIsTrusted'
    BY <1>4, <2>3 DEF vcan_ioctl_open_init_access
  <2>4. ASSUME NEW m \in Mode, kcan_ioctl_open_mode(h, m)
       PROVE  SilentIsTrusted'
    BY <1>4, <2>4 DEF kcan_ioctl_open_mode
  <2>5. ASSUME NEW s \in BOOLEAN, vcan_ioctl_set_output_mode(h, s)
       PROVE  SilentIsTrusted'
    BY <1>4, <2>5 DEF vcan_ioctl_set_output_mode
  <2>6. ASSUME kcan_ioctl_objbuf_allocate(h)
       PROVE  SilentIsTrusted'
    BY <1>4, <2>6 DEF kcan_ioctl_objbuf_allocate
  <2>7. ASSUME kcan_ioctl_objbuf_free_all(h)
       PROVE  SilentIsTrusted'
    BY <1>4, <2>7 DEF kcan_ioctl_objbuf_free_all
  <2> QED
    BY <1>4, <2>1, <2>2, <2>3, <2>4, <2>5, <2>6, <2>7 DEF OneStepIoctl
<1>5. ASSUME NEW h \in Handle, vcan_ioctl_bus_on(h) PROVE SilentIsTrusted'
  BY <1>5 DEF vcan_ioctl_bus_on
<1>6. ASSUME NEW h \in Handle, vcan_ioctl_bus_off(h) PROVE SilentIsTrusted'
  BY <1>6 DEF vcan_ioctl_bus_off
<1>7. ASSUME NEW h \in Handle, Bus_on_count(h) PROVE SilentIsTrusted'
  BY <1>7 DEF Bus_on_count
<1>8. ASSUME NEW h \in Handle, Bus_on_no_time(h) PROVE SilentIsTrusted'
  BY <1>8 DEF Bus_on_no_time
<1>9. ASSUME NEW h \in Handle, Bus_on_hw(h) PROVE SilentIsTrusted'
  BY <1>9 DEF Bus_on_hw
<1>10. ASSUME NEW h \in Handle, Bus_on_failed(h) PROVE SilentIsTrusted'
  BY <1>10 DEF Bus_on_failed
<1>11. ASSUME NEW h \in Handle, Bus_off_count(h) PROVE SilentIsTrusted'
  BY <1>11 DEF Bus_off_count
<1>12. ASSUME NEW h \in Handle, Bus_off_hw(h) PROVE SilentIsTrusted'
  BY <1>12 DEF Bus_off_hw
<1>13. ASSUME NEW h \in Handle, Bus_off_failed(h) PROVE SilentIsTrusted'
  BY <1>13 DEF Bus_off_failed
<1>14. ASSUME NEW h \in Handle, vCanClose(h) PROVE SilentIsTrusted'
  BY <1>14 DEF vCanClose
<1>15. ASSUME NEW h \in Handle, Close_count(h) PROVE SilentIsTrusted'
  BY <1>15 DEF Close_count
<1>16. ASSUME NEW h \in Handle, Close_busOff(h) PROVE SilentIsTrusted'
  BY <1>16 DEF Close_busOff
<1>17. ASSUME NEW h \in Handle, Close_check(h) PROVE SilentIsTrusted'
  BY <1>17 DEF Close_check
<1>18. ASSUME NEW h \in Handle, Close_free(h) PROVE SilentIsTrusted'
  BY <1>18 DEF Close_free
<1>19. ASSUME NEW h \in Handle, Close_dec(h) PROVE SilentIsTrusted'
  BY <1>19 DEF Close_dec
<1>20. CASE Card_removed
  BY <1>20 DEF Card_removed
<1>21. CASE UNCHANGED vars
  BY <1>21 DEF vars
<1> QED
  BY <1>1, <1>2, <1>3, <1>4, <1>5, <1>6, <1>7, <1>8, <1>9, <1>10, <1>11,
     <1>12, <1>13, <1>14, <1>15, <1>16, <1>17, <1>18, <1>19, <1>20, <1>21
  DEF Next, Open_step, Ioctl, OneStepIoctl, Bus_step, Close_step

\* A close that finds itself the last frees the buffers; one that does not
\* leaves a handle on the list, or has met another.
LEMMA StepBuffersInUse == IInv /\ [Next]_vars => BuffersInUse'
<1> SUFFICES ASSUME IInv, [Next]_vars PROVE BuffersInUse'
  OBVIOUS
<1> USE DEF IInv, TypeOK, Step, Places, Listed, BuffersInUse
<1>1. ASSUME NEW h \in Handle, vCanOpen(h) PROVE BuffersInUse'
  BY <1>1 DEF vCanOpen
<1>2. ASSUME NEW h \in Handle, vCanOpen_add(h) PROVE BuffersInUse'
  BY <1>2 DEF vCanOpen_add
<1>3. ASSUME NEW h \in Handle, vCanOpen_insert(h) PROVE BuffersInUse'
  BY <1>3 DEF vCanOpen_insert
<1>4. ASSUME NEW h \in Handle, OneStepIoctl(h) PROVE BuffersInUse'
  BY <1>4, OneStepIoctlFrame DEF OneStepIoctl, vcan_ioctl_open_chan,
     vcan_ioctl_open_excl, vcan_ioctl_open_init_access, kcan_ioctl_open_mode,
     vcan_ioctl_set_output_mode, kcan_ioctl_objbuf_allocate,
     kcan_ioctl_objbuf_free_all
<1>5. ASSUME NEW h \in Handle, vcan_ioctl_bus_on(h) PROVE BuffersInUse'
  BY <1>5 DEF vcan_ioctl_bus_on
<1>6. ASSUME NEW h \in Handle, vcan_ioctl_bus_off(h) PROVE BuffersInUse'
  BY <1>6 DEF vcan_ioctl_bus_off
<1>7. ASSUME NEW h \in Handle, Bus_on_count(h) PROVE BuffersInUse'
  BY <1>7 DEF Bus_on_count
<1>8. ASSUME NEW h \in Handle, Bus_on_no_time(h) PROVE BuffersInUse'
  BY <1>8 DEF Bus_on_no_time
<1>9. ASSUME NEW h \in Handle, Bus_on_hw(h) PROVE BuffersInUse'
  BY <1>9 DEF Bus_on_hw
<1>10. ASSUME NEW h \in Handle, Bus_on_failed(h) PROVE BuffersInUse'
  BY <1>10 DEF Bus_on_failed
<1>11. ASSUME NEW h \in Handle, Bus_off_count(h) PROVE BuffersInUse'
  BY <1>11 DEF Bus_off_count
<1>12. ASSUME NEW h \in Handle, Bus_off_hw(h) PROVE BuffersInUse'
  BY <1>12 DEF Bus_off_hw
<1>13. ASSUME NEW h \in Handle, Bus_off_failed(h) PROVE BuffersInUse'
  BY <1>13 DEF Bus_off_failed
<1>14. ASSUME NEW h \in Handle, vCanClose(h) PROVE BuffersInUse'
  BY <1>14 DEF vCanClose
<1>15. ASSUME NEW h \in Handle, Close_count(h) PROVE BuffersInUse'
  BY <1>15 DEF Close_count
<1>16. ASSUME NEW h \in Handle, Close_busOff(h) PROVE BuffersInUse'
  BY <1>16 DEF Close_busOff
<1>17. ASSUME NEW h \in Handle, Close_check(h) PROVE BuffersInUse'
  <2>1. openFileList' = openFileList /\ openFileList \subseteq Handle
    BY <1>17 DEF Close_check, rest_of_close, list
  <2>2. CASE LastHandle
    <3>1. pc'[h] = "close_free"
      BY <1>17, <2>2 DEF Close_check, From, Goto
    <3> QED BY <3>1
  <2>3. CASE ~LastHandle
    <3>1. ~crowded' => openFileList # {}
      BY <1>17, <2>3 DEF Close_check, LastHandle
    <3> QED BY <2>1, <3>1
  <2> QED BY <2>2, <2>3
<1>18. ASSUME NEW h \in Handle, Close_free(h) PROVE BuffersInUse'
  BY <1>18 DEF Close_free
<1>19. ASSUME NEW h \in Handle, Close_dec(h) PROVE BuffersInUse'
  BY <1>19 DEF Close_dec
<1>20. CASE Card_removed
  BY <1>20 DEF Card_removed
<1>21. CASE UNCHANGED vars
  BY <1>21 DEF vars
<1> QED
  BY <1>1, <1>2, <1>3, <1>4, <1>5, <1>6, <1>7, <1>8, <1>9, <1>10, <1>11,
     <1>12, <1>13, <1>14, <1>15, <1>16, <1>17, <1>18, <1>19, <1>20, <1>21
  DEF Next, Open_step, Ioctl, OneStepIoctl, Bus_step, Close_step

----------------------------------------------------------------------------
(* Rights and modes.                                                        *)

RightsStep ==
    \E h \in Handle :
       vCanOpen_insert(h) \/ vCanClose(h) \/ Close_dec(h) \/ OneStepIoctl(h)

\* No other step touches the list, rights or modes.
LEMMA RightsSteps ==
  ASSUME IInv, [Next]_vars
  PROVE  RightsStep \/ UNCHANGED <<openFileList, Opened, access, mode>>
<1> DEFINE Same == UNCHANGED <<openFileList, Opened, access, mode>>
<1> USE DEF IInv, TypeOK, Step, Opened
<1>1. ASSUME NEW h \in Handle, vCanOpen(h) PROVE Same
  BY <1>1 DEF vCanOpen
<1>2. ASSUME NEW h \in Handle, vCanOpen_add(h) PROVE Same
  BY <1>2 DEF vCanOpen_add
<1>3. ASSUME NEW h \in Handle, vcan_ioctl_bus_on(h) PROVE Same
  BY <1>3 DEF vcan_ioctl_bus_on
<1>4. ASSUME NEW h \in Handle, vcan_ioctl_bus_off(h) PROVE Same
  BY <1>4 DEF vcan_ioctl_bus_off
<1>5. ASSUME NEW h \in Handle, Bus_on_count(h) PROVE Same
  BY <1>5 DEF Bus_on_count
<1>6. ASSUME NEW h \in Handle, Bus_on_no_time(h) PROVE Same
  BY <1>6 DEF Bus_on_no_time
<1>7. ASSUME NEW h \in Handle, Bus_on_hw(h) PROVE Same
  BY <1>7 DEF Bus_on_hw
<1>8. ASSUME NEW h \in Handle, Bus_on_failed(h) PROVE Same
  BY <1>8 DEF Bus_on_failed
<1>9. ASSUME NEW h \in Handle, Bus_off_count(h) PROVE Same
  BY <1>9 DEF Bus_off_count
<1>10. ASSUME NEW h \in Handle, Bus_off_hw(h) PROVE Same
  BY <1>10 DEF Bus_off_hw
<1>11. ASSUME NEW h \in Handle, Bus_off_failed(h) PROVE Same
  BY <1>11 DEF Bus_off_failed
<1>12. ASSUME NEW h \in Handle, Close_count(h) PROVE Same
  BY <1>12 DEF Close_count
<1>13. ASSUME NEW h \in Handle, Close_busOff(h) PROVE Same
  BY <1>13 DEF Close_busOff
<1>14. ASSUME NEW h \in Handle, Close_check(h) PROVE Same
  BY <1>14 DEF Close_check
<1>15. ASSUME NEW h \in Handle, Close_free(h) PROVE Same
  BY <1>15 DEF Close_free
<1>16. CASE Card_removed
  BY <1>16 DEF Card_removed
<1>17. CASE UNCHANGED vars
  BY <1>17 DEF vars
<1> QED
  BY <1>1, <1>2, <1>3, <1>4, <1>5, <1>6, <1>7, <1>8, <1>9, <1>10, <1>11,
     <1>12, <1>13, <1>14, <1>15, <1>16, <1>17
  DEF Next, Open_step, Ioctl, OneStepIoctl, Bus_step, Close_step, RightsStep

\* A handle loses its rights with its place on the list, and init access with
\* the node.
LEMMA StepRights == IInv /\ [Next]_vars => Rights'
<1> SUFFICES ASSUME IInv, [Next]_vars PROVE Rights'
  OBVIOUS
<1> USE DEF IInv, TypeOK, Step, Places, Listed, Opened, Rights
<1>1. ASSUME NEW h \in Handle, vCanOpen_insert(h) PROVE Rights'
  BY <1>1 DEF vCanOpen_insert
<1>2. ASSUME NEW h \in Handle, vCanClose(h) PROVE Rights'
  BY <1>2 DEF vCanClose
<1>3. ASSUME NEW h \in Handle, Close_dec(h) PROVE Rights'
  BY <1>3 DEF Close_dec
<1>4. ASSUME NEW h \in Handle, OneStepIoctl(h) PROVE Rights'
  <2>1. ASSUME NEW o \in BOOLEAN, vcan_ioctl_open_chan(h, o)
       PROVE  Rights'
    BY <1>4, <2>1 DEF vcan_ioctl_open_chan
  <2>2. ASSUME vcan_ioctl_open_excl(h)
       PROVE  Rights'
    BY <1>4, <2>2 DEF vcan_ioctl_open_excl
  <2>3. ASSUME NEW w \in BOOLEAN, NEW r \in BOOLEAN,
        vcan_ioctl_open_init_access(h, w, r)
       PROVE  Rights'
    BY <1>4, <2>3 DEF vcan_ioctl_open_init_access
  <2>4. ASSUME NEW m \in Mode, kcan_ioctl_open_mode(h, m)
       PROVE  Rights'
    BY <1>4, <2>4 DEF kcan_ioctl_open_mode
  <2>5. ASSUME NEW s \in BOOLEAN, vcan_ioctl_set_output_mode(h, s)
       PROVE  Rights'
    BY <1>4, <2>5 DEF vcan_ioctl_set_output_mode
  <2>6. ASSUME kcan_ioctl_objbuf_allocate(h)
       PROVE  Rights'
    BY <1>4, <2>6 DEF kcan_ioctl_objbuf_allocate
  <2>7. ASSUME kcan_ioctl_objbuf_free_all(h)
       PROVE  Rights'
    BY <1>4, <2>7 DEF kcan_ioctl_objbuf_free_all
  <2> QED
    BY <1>4, <2>1, <2>2, <2>3, <2>4, <2>5, <2>6, <2>7 DEF OneStepIoctl
<1>5. CASE UNCHANGED <<openFileList, Opened, access, mode>>
  BY <1>5
<1> QED
  BY <1>1, <1>2, <1>3, <1>4, <1>5, RightsSteps DEF RightsStep

\* A handle that opens exclusively sees every other handle on the list.
LEMMA StepExclusive == IInv /\ [Next]_vars => Exclusive'
<1> SUFFICES ASSUME IInv, [Next]_vars PROVE Exclusive'
  OBVIOUS
<1> USE DEF IInv, TypeOK, Step, Places, Listed, Rights, Exclusive
<1>1. ASSUME NEW h \in Handle, vCanOpen_insert(h) PROVE Exclusive'
  BY <1>1 DEF vCanOpen_insert
<1>2. ASSUME NEW h \in Handle, vCanClose(h) PROVE Exclusive'
  BY <1>2 DEF vCanClose
<1>3. ASSUME NEW h \in Handle, Close_dec(h) PROVE Exclusive'
  BY <1>3 DEF Close_dec
<1>4. ASSUME NEW h \in Handle, OneStepIoctl(h) PROVE Exclusive'
  <2>1. ASSUME NEW o \in BOOLEAN, vcan_ioctl_open_chan(h, o)
       PROVE  Exclusive'
    BY <1>4, <2>1 DEF vcan_ioctl_open_chan
  <2>2. ASSUME vcan_ioctl_open_excl(h)
       PROVE  Exclusive'
    BY <1>4, <2>2 DEF vcan_ioctl_open_excl, Unused
  <2>3. ASSUME NEW w \in BOOLEAN, NEW r \in BOOLEAN,
        vcan_ioctl_open_init_access(h, w, r)
       PROVE  Exclusive'
    BY <1>4, <2>3 DEF vcan_ioctl_open_init_access
  <2>4. ASSUME NEW m \in Mode, kcan_ioctl_open_mode(h, m)
       PROVE  Exclusive'
    BY <1>4, <2>4 DEF kcan_ioctl_open_mode
  <2>5. ASSUME NEW s \in BOOLEAN, vcan_ioctl_set_output_mode(h, s)
       PROVE  Exclusive'
    BY <1>4, <2>5 DEF vcan_ioctl_set_output_mode
  <2>6. ASSUME kcan_ioctl_objbuf_allocate(h)
       PROVE  Exclusive'
    BY <1>4, <2>6 DEF kcan_ioctl_objbuf_allocate
  <2>7. ASSUME kcan_ioctl_objbuf_free_all(h)
       PROVE  Exclusive'
    BY <1>4, <2>7 DEF kcan_ioctl_objbuf_free_all
  <2> QED
    BY <1>4, <2>1, <2>2, <2>3, <2>4, <2>5, <2>6, <2>7 DEF OneStepIoctl
<1>5. CASE UNCHANGED <<openFileList, Opened, access, mode>>
  BY <1>5
<1> QED
  BY <1>1, <1>2, <1>3, <1>4, <1>5, RightsSteps DEF RightsStep

\* A handle that joins the list has no init access yet.
LEMMA StepOneInitAccess == IInv /\ [Next]_vars => OneInitAccess'
<1> SUFFICES ASSUME IInv, [Next]_vars PROVE OneInitAccess'
  OBVIOUS
<1> USE DEF IInv, TypeOK, Step, Places, Listed, Opened, Rights, OneInitAccess
<1>1. ASSUME NEW h \in Handle, vCanOpen_insert(h) PROVE OneInitAccess'
  BY <1>1 DEF vCanOpen_insert
<1>2. ASSUME NEW h \in Handle, vCanClose(h) PROVE OneInitAccess'
  BY <1>2 DEF vCanClose
<1>3. ASSUME NEW h \in Handle, Close_dec(h) PROVE OneInitAccess'
  BY <1>3 DEF Close_dec
<1>4. ASSUME NEW h \in Handle, OneStepIoctl(h) PROVE OneInitAccess'
  <2>1. ASSUME NEW o \in BOOLEAN, vcan_ioctl_open_chan(h, o)
       PROVE  OneInitAccess'
    BY <1>4, <2>1 DEF vcan_ioctl_open_chan
  <2>2. ASSUME vcan_ioctl_open_excl(h)
       PROVE  OneInitAccess'
    BY <1>4, <2>2 DEF vcan_ioctl_open_excl
  <2>3. ASSUME NEW w \in BOOLEAN, NEW r \in BOOLEAN,
        vcan_ioctl_open_init_access(h, w, r)
       PROVE  OneInitAccess'
    BY <1>4, <2>3 DEF vcan_ioctl_open_init_access
  <2>4. ASSUME NEW m \in Mode, kcan_ioctl_open_mode(h, m)
       PROVE  OneInitAccess'
    BY <1>4, <2>4 DEF kcan_ioctl_open_mode
  <2>5. ASSUME NEW s \in BOOLEAN, vcan_ioctl_set_output_mode(h, s)
       PROVE  OneInitAccess'
    BY <1>4, <2>5 DEF vcan_ioctl_set_output_mode
  <2>6. ASSUME kcan_ioctl_objbuf_allocate(h)
       PROVE  OneInitAccess'
    BY <1>4, <2>6 DEF kcan_ioctl_objbuf_allocate
  <2>7. ASSUME kcan_ioctl_objbuf_free_all(h)
       PROVE  OneInitAccess'
    BY <1>4, <2>7 DEF kcan_ioctl_objbuf_free_all
  <2> QED
    BY <1>4, <2>1, <2>2, <2>3, <2>4, <2>5, <2>6, <2>7 DEF OneStepIoctl
<1>5. CASE UNCHANGED <<openFileList, Opened, access, mode>>
  BY <1>5
<1> QED
  BY <1>1, <1>2, <1>3, <1>4, <1>5, RightsSteps DEF RightsStep

\* The mode changes only while nobody else can have been granted one.
LEMMA StepModeAgreed == IInv /\ [Next]_vars => ModeAgreed'
<1> SUFFICES ASSUME IInv, [Next]_vars PROVE ModeAgreed'
  OBVIOUS
<1> USE DEF IInv, TypeOK, Step, ModeAgreed
<1>1. ASSUME NEW h \in Handle, vCanOpen_insert(h) PROVE ModeAgreed'
  BY <1>1 DEF vCanOpen_insert
<1>2. ASSUME NEW h \in Handle, vCanClose(h) PROVE ModeAgreed'
  BY <1>2 DEF vCanClose
<1>3. ASSUME NEW h \in Handle, Close_dec(h) PROVE ModeAgreed'
  BY <1>3 DEF Close_dec
<1>4. ASSUME NEW h \in Handle, OneStepIoctl(h) PROVE ModeAgreed'
  <2>1. ASSUME NEW o \in BOOLEAN, vcan_ioctl_open_chan(h, o)
       PROVE  ModeAgreed'
    BY <1>4, <2>1 DEF vcan_ioctl_open_chan
  <2>2. ASSUME vcan_ioctl_open_excl(h)
       PROVE  ModeAgreed'
    BY <1>4, <2>2 DEF vcan_ioctl_open_excl
  <2>3. ASSUME NEW w \in BOOLEAN, NEW r \in BOOLEAN,
        vcan_ioctl_open_init_access(h, w, r)
       PROVE  ModeAgreed'
    BY <1>4, <2>3 DEF vcan_ioctl_open_init_access
  <2>4. ASSUME NEW m \in Mode, kcan_ioctl_open_mode(h, m)
       PROVE  ModeAgreed'
    <3>1. CASE OnlyHandle(h)
      <4>1. openFileList = {h}
        BY <1>4, <3>1, <2>4, SetOfHandles, FS_Singleton
        DEF OnlyHandle, kcan_ioctl_open_mode, Places, Listed
      <4> QED
        BY <1>4, <3>1, <4>1, <2>4 DEF kcan_ioctl_open_mode, Rights
    <3>2. CASE ~OnlyHandle(h)
      BY <1>4, <3>2, <2>4 DEF kcan_ioctl_open_mode
    <3> QED
      BY <3>1, <3>2
  <2>5. ASSUME NEW s \in BOOLEAN, vcan_ioctl_set_output_mode(h, s)
       PROVE  ModeAgreed'
    BY <1>4, <2>5 DEF vcan_ioctl_set_output_mode
  <2>6. ASSUME kcan_ioctl_objbuf_allocate(h)
       PROVE  ModeAgreed'
    BY <1>4, <2>6 DEF kcan_ioctl_objbuf_allocate
  <2>7. ASSUME kcan_ioctl_objbuf_free_all(h)
       PROVE  ModeAgreed'
    BY <1>4, <2>7 DEF kcan_ioctl_objbuf_free_all
  <2> QED
    BY <1>4, <2>1, <2>2, <2>3, <2>4, <2>5, <2>6, <2>7 DEF OneStepIoctl
<1>5. CASE UNCHANGED <<openFileList, Opened, access, mode>>
  BY <1>5
<1> QED
  BY <1>1, <1>2, <1>3, <1>4, <1>5, RightsSteps DEF RightsStep
----------------------------------------------------------------------------
(* Types.                                                                   *)

\* The counts are numbers of handles.
LEMMA CountTypes ==
  ASSUME Counts'
  PROVE  /\ busOnCount' \in 0 .. Cardinality(Handle)
         /\ fileOpenCount' \in 0 .. Cardinality(Handle)
<1>1. Counted' \in SUBSET Handle /\ Opened' \in SUBSET Handle
  BY DEF Counted, Opened
<1> QED
  BY <1>1, SetOfHandles DEF Counts

\* Every action leaves every variable in its type; for the counts that follows
\* from what they count.
LEMMA StepTypeOK == IInv /\ [Next]_vars => TypeOK'
<1> SUFFICES ASSUME IInv, [Next]_vars PROVE TypeOK'
  OBVIOUS
<1> USE DEF IInv, TypeOK, Step
<1> busOnCount' \in 0 .. Cardinality(Handle) /\
    fileOpenCount' \in 0 .. Cardinality(Handle)
  BY StepCounts, CountTypes
<1>1. ASSUME NEW h \in Handle, vCanOpen(h) PROVE TypeOK'
  BY <1>1 DEF vCanOpen
<1>2. ASSUME NEW h \in Handle, vCanOpen_add(h) PROVE TypeOK'
  BY <1>2 DEF vCanOpen_add
<1>3. ASSUME NEW h \in Handle, vCanOpen_insert(h) PROVE TypeOK'
  BY <1>3 DEF vCanOpen_insert
<1>4. ASSUME NEW h \in Handle, OneStepIoctl(h) PROVE TypeOK'
  <2>1. ASSUME NEW o \in BOOLEAN, vcan_ioctl_open_chan(h, o)
       PROVE  TypeOK'
    BY <1>4, <2>1 DEF vcan_ioctl_open_chan
  <2>2. ASSUME vcan_ioctl_open_excl(h)
       PROVE  TypeOK'
    BY <1>4, <2>2 DEF vcan_ioctl_open_excl
  <2>3. ASSUME NEW w \in BOOLEAN, NEW r \in BOOLEAN,
        vcan_ioctl_open_init_access(h, w, r)
       PROVE  TypeOK'
    BY <1>4, <2>3 DEF vcan_ioctl_open_init_access
  <2>4. ASSUME NEW m \in Mode, kcan_ioctl_open_mode(h, m)
       PROVE  TypeOK'
    BY <1>4, <2>4 DEF kcan_ioctl_open_mode
  <2>5. ASSUME NEW s \in BOOLEAN, vcan_ioctl_set_output_mode(h, s)
       PROVE  TypeOK'
    BY <1>4, <2>5 DEF vcan_ioctl_set_output_mode
  <2>6. ASSUME kcan_ioctl_objbuf_allocate(h)
       PROVE  TypeOK'
    BY <1>4, <2>6 DEF kcan_ioctl_objbuf_allocate
  <2>7. ASSUME kcan_ioctl_objbuf_free_all(h)
       PROVE  TypeOK'
    BY <1>4, <2>7 DEF kcan_ioctl_objbuf_free_all
  <2> QED
    BY <1>4, <2>1, <2>2, <2>3, <2>4, <2>5, <2>6, <2>7 DEF OneStepIoctl
<1>5. ASSUME NEW h \in Handle, vcan_ioctl_bus_on(h) PROVE TypeOK'
  BY <1>5 DEF vcan_ioctl_bus_on
<1>6. ASSUME NEW h \in Handle, vcan_ioctl_bus_off(h) PROVE TypeOK'
  BY <1>6 DEF vcan_ioctl_bus_off
<1>7. ASSUME NEW h \in Handle, Bus_on_count(h) PROVE TypeOK'
  BY <1>7 DEF Bus_on_count
<1>8. ASSUME NEW h \in Handle, Bus_on_no_time(h) PROVE TypeOK'
  BY <1>8 DEF Bus_on_no_time
<1>9. ASSUME NEW h \in Handle, Bus_on_hw(h) PROVE TypeOK'
  BY <1>9 DEF Bus_on_hw
<1>10. ASSUME NEW h \in Handle, Bus_on_failed(h) PROVE TypeOK'
  BY <1>10 DEF Bus_on_failed
<1>11. ASSUME NEW h \in Handle, Bus_off_count(h) PROVE TypeOK'
  BY <1>11 DEF Bus_off_count
<1>12. ASSUME NEW h \in Handle, Bus_off_hw(h) PROVE TypeOK'
  BY <1>12 DEF Bus_off_hw
<1>13. ASSUME NEW h \in Handle, Bus_off_failed(h) PROVE TypeOK'
  BY <1>13 DEF Bus_off_failed
<1>14. ASSUME NEW h \in Handle, vCanClose(h) PROVE TypeOK'
  BY <1>14 DEF vCanClose
<1>15. ASSUME NEW h \in Handle, Close_count(h) PROVE TypeOK'
  BY <1>15 DEF Close_count
<1>16. ASSUME NEW h \in Handle, Close_busOff(h) PROVE TypeOK'
  BY <1>16 DEF Close_busOff
<1>17. ASSUME NEW h \in Handle, Close_check(h) PROVE TypeOK'
  BY <1>17 DEF Close_check, LastHandle
<1>18. ASSUME NEW h \in Handle, Close_free(h) PROVE TypeOK'
  BY <1>18 DEF Close_free
<1>19. ASSUME NEW h \in Handle, Close_dec(h) PROVE TypeOK'
  BY <1>19 DEF Close_dec
<1>20. CASE Card_removed
  BY <1>20 DEF Card_removed
<1>21. CASE UNCHANGED vars
  BY <1>21 DEF vars
<1> QED
  BY <1>1, <1>2, <1>3, <1>4, <1>5, <1>6, <1>7, <1>8, <1>9, <1>10, <1>11,
     <1>12, <1>13, <1>14, <1>15, <1>16, <1>17, <1>18, <1>19, <1>20, <1>21
  DEF Next, Open_step, Ioctl, OneStepIoctl, Bus_step, Close_step

----------------------------------------------------------------------------
(* The theorems.                                                            *)

\* A channel that was just registered satisfies the invariant.
LEMMA InitIInv == Init => IInv
<1> SUFFICES ASSUME Init PROVE IInv
  OBVIOUS
<1>1. Cardinality(Handle) \in Nat
  BY FS_CardinalityType
<1>2. Counted = {} /\ Opened = {} /\ Cardinality({}) = 0
  BY FS_EmptySet DEF Init, Counted, Opened
<1>3. TypeOK
  <2>1. 0 \in 0 .. Cardinality(Handle)
    BY <1>1
  <2>2. 0 \in 0 .. TransIds - 1 /\ 1 % TransIds \in 0 .. TransIds - 1
    OBVIOUS
  <2> QED
    BY <2>1, <2>2 DEF Init, TypeOK, Step
<1> QED
  BY <1>2, <1>3 DEF Init, IInv, Places, Listed, OnBusSteps, Counts, Mutex,
     Controller, OnBus, OffWithLast, BuffersInUse, SilentIsTrusted,
     vcan_ioctl_get_output_mode, Rights, Exclusive, OneInitAccess, ModeAgreed

\* The invariant is kept by whatever handles and hardware do.
THEOREM Invariance == Spec => []IInv
<1>1. IInv /\ [Next]_vars => IInv'
  BY StepTypeOK, StepPlaces, StepCounts, StepMutex, StepController,
     StepOffWithLast, StepBuffersInUse, StepSilentIsTrusted, StepRights,
     StepExclusive, StepOneInitAccess, StepModeAgreed DEF IInv
<1> QED
  BY <1>1, InitIInv, PTL DEF Spec

\* Types: no count goes below zero or past the number of handles.
THEOREM TypeCorrect == Spec => []TypeOK
<1>1. IInv => TypeOK
  BY DEF IInv
<1> QED
  BY <1>1, Invariance, PTL

\* busOnCount is the number of handles on bus whenever nobody is under way to
\* the hardware, after failures and closes in any order.
THEOREM BusOnCountExact == Spec => []CountIsExact
<1>1. IInv => CountIsExact
  <2> SUFFICES ASSUME IInv, busOnCountLock = NoHandle
               PROVE  busOnCount = Cardinality(OnBus)
    BY DEF CountIsExact
  <2>1. Counted = OnBus
    BY DEF IInv, Mutex, Counted, OnBus
  <2> QED
    BY <2>1 DEF IInv, Counts
<1> QED
  BY <1>1, Invariance, PTL

\* The controller is on bus while a handle is.
THEOREM ChannelOnBusTogether == Spec => []OnBusTogether
<1>1. IInv => OnBusTogether
  BY DEF IInv, Mutex, Controller, OnBusTogether
<1> QED
  BY <1>1, Invariance, PTL

\* With no handle on bus the controller is off, unless it refused.
THEOREM ChannelOffBusTogether == Spec => []OffBusTogether
<1>1. IInv => OffBusTogether
  BY DEF IInv, Mutex, OffWithLast, OffBusTogether, OnBus
<1> QED
  BY <1>1, Invariance, PTL

\* With the last handle go all periodic buffers, unless closes have met.
THEOREM BuffersFreed == Spec => []NoBufferIsLeft
<1>1. IInv => NoBufferIsLeft
  <2> SUFFICES ASSUME IInv, fileOpenCount = 0, ~crowded
               PROVE  objbufs = {}
    BY DEF NoBufferIsLeft
  <2>1. Opened = {}
    BY SetOfHandles, FS_EmptySet DEF IInv, Counts, Opened
  <2> QED
    BY <2>1 DEF IInv, BuffersInUse, Places, Listed, Opened
<1> QED
  BY <1>1, Invariance, PTL

\* GET_OUTPUT_MODE says silent only of a controller that is.
THEOREM SilenceTrusted == Spec => []SilentIsTrusted
<1>1. IInv => SilentIsTrusted
  BY DEF IInv
<1> QED
  BY <1>1, Invariance, PTL

\* A handle opened exclusively shares the channel with nobody who did not ask to
\* override that.
THEOREM ExclusiveAccess == Spec => []Exclusive
<1>1. IInv => Exclusive
  BY DEF IInv
<1> QED
  BY <1>1, Invariance, PTL

\* At most one handle has init access.
THEOREM SingleInitAccess == Spec => []OneInitAccess
<1>1. IInv => OneInitAccess
  BY DEF IInv
<1> QED
  BY <1>1, Invariance, PTL

\* Handles that were granted a mode agree with the channel.
THEOREM OneMode == Spec => []ModeAgreed
<1>1. IInv => ModeAgreed
  BY DEF IInv
<1> QED
  BY <1>1, Invariance, PTL

----------------------------------------------------------------------------
(* The locks.                                                               *)

AtHardware == {"busOn", "busOff", "close_busOff"}
InBusIoctl == {"BUS_ON", "BUS_OFF", "busOn", "busOff"}

\* The mutex is held only by a handle that is at the hardware, and the turn of the
\* ioctls exactly by a handle that is in one.  So who holds the mutex waits for
\* nobody, who has the turn waits for the mutex at most, and who has left holds
\* neither.
LocksAreGivenBack ==
    /\ busOnCountLock # NoHandle => pc[busOnCountLock] \in AtHardware
    /\ ioctl_completion # NoHandle => pc[ioctl_completion] \in InBusIoctl
    /\ \A h \in Handle : pc[h] \in InBusIoctl => ioctl_completion = h

\* A step of one handle keeps that.
LEMMA StepLocks ==
    ASSUME TypeOK, Mutex, LocksAreGivenBack, [Next]_vars
    PROVE  LocksAreGivenBack'
<1> USE HandleAssumption
    DEF TypeOK, LocksAreGivenBack, AtHardware, InBusIoctl, Goto, From
<1>1. ASSUME UNCHANGED <<busOnCountLock, ioctl_completion>>,
             NEW h \in Handle, NEW there, Goto(h, there),
             pc[h] \notin InBusIoctl \cup AtHardware, there \notin InBusIoctl
      PROVE  LocksAreGivenBack'
  BY <1>1
<1>2. ASSUME UNCHANGED <<busOnCountLock, ioctl_completion, pc>>
      PROVE  LocksAreGivenBack'
  BY <1>2
<1>3. ASSUME NEW h \in Handle, vCanOpen(h) \/ Open_step(h) \/ vCanClose(h)
      PROVE  LocksAreGivenBack'
  <2>1. CASE vCanOpen(h)
    BY <1>1, <2>1 DEF vCanOpen, bus
  <2>2. CASE Open_step(h)
    BY <1>1, <2>2 DEF Open_step, vCanOpen_add, vCanOpen_insert, bus
  <2>3. CASE vCanClose(h)
    BY <1>1, <2>3 DEF vCanClose, bus
  <2> QED BY <1>3, <2>1, <2>2, <2>3
<1>4. ASSUME NEW h \in Handle, vcan_ioctl_bus_on(h) \/ vcan_ioctl_bus_off(h)
      PROVE  LocksAreGivenBack'
  BY <1>4 DEF vcan_ioctl_bus_on, vcan_ioctl_bus_off, Begin, bus
<1>5. ASSUME NEW h \in Handle, Bus_step(h)
      PROVE  LocksAreGivenBack'
  BY <1>5
  DEF Mutex, Bus_step, Bus_on_count, Bus_on_no_time, Bus_on_hw, Bus_on_failed,
      Bus_off_count, Bus_off_hw, Bus_off_failed, mutex_lock, mutex_unlock, Return,
      bus
<1>6. ASSUME NEW h \in Handle, Close_step(h)
      PROVE  LocksAreGivenBack'
  <2>1. CASE Close_count(h)
    BY <2>1 DEF Close_count, mutex_lock
  <2>2. CASE Close_busOff(h)
    BY <2>2 DEF Mutex, Close_busOff, mutex_unlock
  <2>3. CASE Close_check(h)
    BY <1>1, <2>3 DEF Close_check, rest_of_close, bus
  <2>4. CASE Close_free(h)
    BY <1>1, <2>4 DEF Close_free, rest_of_close, bus
  <2>5. CASE Close_dec(h)
    BY <1>1, <2>5 DEF Close_dec, bus
  <2> QED BY <1>6, <2>1, <2>2, <2>3, <2>4, <2>5 DEF Close_step
<1>7. ASSUME NEW h \in Handle, Ioctl(h), ~vcan_ioctl_bus_on(h), ~vcan_ioctl_bus_off(h)
      PROVE  LocksAreGivenBack'
  BY <1>2, <1>7
  DEF Ioctl, vcan_ioctl_open_chan, vcan_ioctl_open_excl, vcan_ioctl_open_init_access,
      kcan_ioctl_open_mode, vcan_ioctl_set_output_mode, kcan_ioctl_objbuf_allocate,
      kcan_ioctl_objbuf_free_all, rest_of_access, rest_of_objbuf, rest_of_close, bus
<1>8. CASE Card_removed \/ UNCHANGED vars
  BY <1>2, <1>8 DEF Card_removed, vars, bus
<1> QED BY <1>3, <1>4, <1>5, <1>6, <1>7, <1>8 DEF Next

\* No path of BUS_ON, BUS_OFF or a close keeps the mutex or the turn, and the two are
\* never taken in opposite orders: no call waits for one that waits for it.
THEOREM NoDeadlock == Spec => []LocksAreGivenBack
<1>1. Init => LocksAreGivenBack
  BY DEF Init, LocksAreGivenBack, InBusIoctl
<1>2. IInv /\ LocksAreGivenBack /\ [Next]_vars => LocksAreGivenBack'
  BY StepLocks DEF IInv
<1> QED BY <1>1, <1>2, Invariance, PTL DEF Spec
=============================================================================
