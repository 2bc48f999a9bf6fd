---------------------------- MODULE VCanChannel ----------------------------
(* One channel of a card and the file handles open on it: vCanOpen,         *)
(* vCanClose and the ioctls of VCanOsIf.c that change what handles of the   *)
(* same channel share.                                                      *)
(*                                                                          *)
(* Ioctls of the channel take turns (ioctl_completion), but vCanOpen and    *)
(* vCanClose do not wait for that turn: they meet the ioctls of other       *)
(* handles at openLock, a spinlock whose sections are single steps here, and *)
(* at busOnCountLock, which is held across calls to the hardware.  An ioctl *)
(* that waits for its turn is taken to begin when it gets it.               *)
EXTENDS Naturals, FiniteSets

CONSTANTS Handle,     \* struct file: a process's open("/dev/...")
          NoHandle,
          TransIds,   \* values of the unsigned char transId (256)
          Mode,       \* OPEN_AS_CAN, OPEN_AS_CANFD_ISO, ...
          NoMode,
          Ioctls      \* the ioctls the applications issue

ASSUME HandleAssumption == NoHandle \notin Handle /\ IsFiniteSet(Handle)
ASSUME TransIdsAssumption == TransIds \in Nat \ {0}
ASSUME ModeAssumption == NoMode \notin Mode /\ Mode # {}

VARIABLES
    openFileList,    \* the handles vCanOpen put on the channel's list
    fileOpenCount, chanId,
    busOnCount,
    busOnCountLock, ioctl_completion,  \* the handle that holds it
    driverMode,      \* cached: the channel is silent
    openMode,
    cardPresent, isOnBus, silent,  \* the card and its CAN controller
    refused,         \* history: the controller would not go off bus for the
                     \* handle that was closed
    objbufs,         \* owners of the periodic transmit buffers, which
                     \* the firmware sends
    crowded,         \* history: a handle closed as the last on the list
                     \* found another that had not yet left the count
    pc, transId, isBusOn, channelOpen, channelLocked, init_access,
    overrode,        \* history: opened with override_exclusive
    granted          \* history: the mode OPEN_MODE last granted the handle

list == <<openFileList, fileOpenCount>>
bus == <<busOnCount, busOnCountLock, isOnBus, isBusOn, refused>>
output == <<driverMode, silent>>
access == <<channelOpen, channelLocked, overrode, init_access>>
mode == <<openMode, granted>>
number == <<chanId, transId>>
buffers == <<objbufs, crowded>>
vars == <<list, bus, output, access, mode, number, ioctl_completion,
          cardPresent, buffers, pc>>

Init ==
    /\ openFileList = {} /\ fileOpenCount = 0 /\ chanId = 1 % TransIds
    /\ busOnCount = 0
    /\ busOnCountLock = NoHandle /\ ioctl_completion = NoHandle
    /\ driverMode = FALSE
    /\ openMode \in Mode
    /\ cardPresent = TRUE /\ isOnBus = FALSE /\ silent = FALSE
    /\ refused = FALSE
    /\ objbufs = {} /\ crowded = FALSE
    /\ pc = [h \in Handle |-> "closed"]
    /\ transId = [h \in Handle |-> 0]
    /\ isBusOn = [h \in Handle |-> FALSE]
    /\ channelOpen = [h \in Handle |-> FALSE]
    /\ channelLocked = [h \in Handle |-> FALSE]
    /\ init_access = [h \in Handle |-> FALSE]
    /\ overrode = [h \in Handle |-> FALSE]
    /\ granted = [h \in Handle |-> NoMode]

Goto(h, step) == pc' = [pc EXCEPT ![h] = step]
From(h, here, there) == pc[h] = here /\ Goto(h, there)

Set(f, h, value) == [f EXCEPT ![h] = value]

----------------------------------------------------------------------------
(* vCanOpen: the node takes its number from the channel, atomic_read and    *)
(* then atomic_add, before openLock.                                        *)

vCanOpen(h) ==
    /\ cardPresent
    /\ From(h, "closed", "numbered")
    /\ transId' = Set(transId, h, chanId)
    /\ UNCHANGED <<list, bus, output, access, mode, chanId, ioctl_completion,
                   cardPresent, buffers>>

vCanOpen_add(h) ==
    /\ From(h, "numbered", "counted")
    /\ chanId' = (chanId + 1) % TransIds
    /\ UNCHANGED <<list, bus, output, access, mode, transId, ioctl_completion,
                   cardPresent, buffers>>

vCanOpen_insert(h) ==
    /\ From(h, "counted", "open")
    /\ openFileList' = openFileList \cup {h}
    /\ fileOpenCount' = fileOpenCount + 1
    /\ driverMode' = FALSE
    /\ UNCHANGED <<bus, silent, access, mode, number, ioctl_completion,
                   cardPresent, buffers>>

----------------------------------------------------------------------------
(* Ioctls that are one step: they take openLock, or only the ioctl's turn.  *)

Begin(h, cmd) ==
    /\ cmd \in Ioctls
    /\ pc[h] = "open" /\ cardPresent /\ ioctl_completion = NoHandle

rest_of_access == <<list, bus, output, mode, number, ioctl_completion,
                    cardPresent, buffers, pc>>

vcan_ioctl_open_chan(h, override_exclusive) ==
    /\ Begin(h, "OPEN_CHAN")
    /\ override_exclusive \/ \A g \in openFileList : ~channelLocked[g]
    /\ channelOpen' = Set(channelOpen, h, TRUE)
    /\ overrode' = Set(overrode, h, override_exclusive)
    /\ UNCHANGED <<channelLocked, init_access, rest_of_access>>

\* Handles that did not ask for exclusive use are overlooked.
Bug_looks_only_for_locks == \A g \in openFileList : ~channelLocked[g]

\* What OPEN_EXCL wants to see: otherwise VCANOPEN_LOCKED or VCANOPEN_OPENED.
Unused == \A g \in openFileList : ~channelLocked[g] /\ ~channelOpen[g]

vcan_ioctl_open_excl(h) ==
    /\ Begin(h, "OPEN_EXCL")
    /\ Unused
    /\ channelOpen' = Set(channelOpen, h, TRUE)
    /\ channelLocked' = Set(channelLocked, h, TRUE)
    /\ overrode' = Set(overrode, h, FALSE)
    /\ UNCHANGED <<init_access, rest_of_access>>

\* Whether the caller asked with require_init_access decides only what it is
\* told.
vcan_ioctl_open_init_access(h, wants, require) ==
    /\ Begin(h, "OPEN_INIT_ACCESS")
    /\ \A g \in openFileList : ~init_access[g]
    /\ init_access' = Set(init_access, h, wants)
    /\ UNCHANGED <<channelOpen, channelLocked, overrode, rest_of_access>>

\* Any handle may change the mode of a channel that is off bus.
Bug_mode_of_the_channel_off_bus(h) == busOnCount = 0

OnlyHandle(h) == Cardinality(openFileList) = 1

\* The only handle sets the mode; another has to ask for the mode that is set.
kcan_ioctl_open_mode(h, m) ==
    /\ Begin(h, "OPEN_MODE")
    /\ IF OnlyHandle(h) THEN openMode' = m
       ELSE m = openMode /\ UNCHANGED openMode
    /\ granted' = Set(granted, h, m)
    /\ UNCHANGED <<list, bus, output, access, number, ioctl_completion,
                   cardPresent, buffers, pc>>

\* The cache only learns of silence.
Bug_cache_is_never_cleared(h, mode_silent) ==
    /\ Begin(h, "OUTPUT_MODE")
    /\ init_access[h]
    /\ silent' = mode_silent
    /\ driverMode' = (driverMode \/ mode_silent)
    /\ UNCHANGED <<list, bus, access, mode, number, ioctl_completion,
                   cardPresent, buffers, pc>>

\* A call that fails changes nothing.
vcan_ioctl_set_output_mode(h, mode_silent) ==
    /\ Begin(h, "OUTPUT_MODE")
    /\ init_access[h]
    /\ silent' = mode_silent
    /\ driverMode' = mode_silent
    /\ UNCHANGED <<list, bus, access, mode, number, ioctl_completion,
                   cardPresent, buffers, pc>>

\* What GET_OUTPUT_MODE answers where the driver has no getOutputMode (the
\* virtual, pcican, pcican2 and usbcanII drivers).
vcan_ioctl_get_output_mode == driverMode

rest_of_close == <<list, bus, output, access, mode, number, ioctl_completion,
                   cardPresent>>
rest_of_objbuf == <<rest_of_close, crowded, pc>>

kcan_ioctl_objbuf_allocate(h) ==
    /\ Begin(h, "OBJBUF")
    /\ objbufs' = objbufs \cup {h}
    /\ UNCHANGED rest_of_objbuf

\* objbufFree(chd, OBJBUF_TYPE_PERIODIC_TX, -1): the channel's buffers.
kcan_ioctl_objbuf_free_all(h) ==
    /\ Begin(h, "OBJBUF_FREE_ALL")
    /\ objbufs' = {}
    /\ UNCHANGED rest_of_objbuf

----------------------------------------------------------------------------
(* BUS_ON and BUS_OFF.  The count moves before the call to the hardware and *)
(* moves back when the call fails.                                          *)

rest_of_bus == <<list, output, access, mode, number, cardPresent, buffers>>

mutex_lock(h) == busOnCountLock = NoHandle /\ busOnCountLock' = h

\* A path that returns without releasing the mutex.
Bug_still_locked == UNCHANGED busOnCountLock

mutex_unlock == busOnCountLock' = NoHandle

\* The ioctl returns and the next one gets its turn.
Return(h) ==
    /\ Goto(h, "open")
    /\ ioctl_completion' = NoHandle

\* A handle that is on bus already returns at once; so does BUS_OFF of one that
\* is not.
vcan_ioctl_bus_on(h) ==
    /\ Begin(h, "BUS") /\ ~isBusOn[h]
    /\ Goto(h, "BUS_ON")
    /\ ioctl_completion' = h
    /\ UNCHANGED <<bus, rest_of_bus>>

\* The first handle goes on to the hardware with the mutex held.
Bus_on_count(h) ==
    /\ pc[h] = "BUS_ON"
    /\ isBusOn' = Set(isBusOn, h, TRUE)
    /\ busOnCount' = busOnCount + 1
    /\ IF busOnCount' = 1
       THEN /\ mutex_lock(h) /\ Goto(h, "busOn")
            /\ UNCHANGED ioctl_completion
       ELSE busOnCountLock = NoHandle /\ UNCHANGED busOnCountLock /\ Return(h)
    /\ UNCHANGED <<isOnBus, refused, rest_of_bus>>

\* reset_time: getTime fails under the mutex, nothing is changed.
Bus_on_no_time(h) ==
    /\ pc[h] = "BUS_ON"
    /\ busOnCountLock = NoHandle
    /\ Return(h)
    /\ UNCHANGED <<bus, rest_of_bus>>

Bus_on_hw(h) ==
    /\ pc[h] = "busOn" /\ cardPresent
    /\ isOnBus' = TRUE /\ refused' = FALSE
    /\ mutex_unlock
    /\ Return(h)
    /\ UNCHANGED <<busOnCount, isBusOn, rest_of_bus>>

\* flushSendBuffer or busOn failed.
Bus_on_failed(h) ==
    /\ pc[h] = "busOn"
    /\ isBusOn' = Set(isBusOn, h, FALSE)
    /\ busOnCount' = busOnCount - 1
    /\ mutex_unlock
    /\ Return(h)
    /\ UNCHANGED <<isOnBus, refused, rest_of_bus>>

vcan_ioctl_bus_off(h) ==
    /\ Begin(h, "BUS") /\ isBusOn[h]
    /\ Goto(h, "BUS_OFF")
    /\ ioctl_completion' = h
    /\ UNCHANGED <<bus, rest_of_bus>>

Bus_off_count(h) ==
    /\ pc[h] = "BUS_OFF"
    /\ busOnCount' = busOnCount - 1
    /\ IF busOnCount' = 0
       THEN /\ mutex_lock(h) /\ Goto(h, "busOff")
            /\ UNCHANGED <<isBusOn, ioctl_completion>>
       ELSE /\ busOnCountLock = NoHandle /\ UNCHANGED busOnCountLock
            /\ isBusOn' = Set(isBusOn, h, FALSE)
            /\ Return(h)
    /\ UNCHANGED <<isOnBus, refused, rest_of_bus>>

Bus_off_hw(h) ==
    /\ pc[h] = "busOff" /\ cardPresent
    /\ isOnBus' = FALSE
    /\ isBusOn' = Set(isBusOn, h, FALSE)
    /\ mutex_unlock
    /\ Return(h)
    /\ UNCHANGED <<busOnCount, refused, rest_of_bus>>

Bus_off_failed(h) ==
    /\ pc[h] = "busOff"
    /\ busOnCount' = busOnCount + 1
    /\ mutex_unlock
    /\ Return(h)
    /\ UNCHANGED <<isOnBus, refused, isBusOn, rest_of_bus>>

----------------------------------------------------------------------------
(* vCanClose: off the list, off the bus, free what the last handle frees.   *)

vCanClose(h) ==
    /\ From(h, "open", IF isBusOn[h] THEN "close_off" ELSE "close_check")
    /\ openFileList' = openFileList \ {h}
    /\ channelOpen' = Set(channelOpen, h, FALSE)
    /\ channelLocked' = Set(channelLocked, h, FALSE)
    /\ overrode' = Set(overrode, h, FALSE)
    /\ granted' = Set(granted, h, NoMode)
    /\ UNCHANGED <<fileOpenCount, bus, output, init_access, openMode, number,
                   ioctl_completion, cardPresent, buffers>>

\* On whichever handle is closed the channel goes off bus.
Bug_close_takes_the_channel_off(h) ==
    /\ pc[h] = "close_off"
    /\ isBusOn' = Set(isBusOn, h, FALSE)
    /\ busOnCount' = busOnCount - 1
    /\ mutex_lock(h) /\ Goto(h, "close_busOff")
    /\ UNCHANGED <<isOnBus, refused, ioctl_completion, rest_of_bus>>

\* The channel goes off bus with the last handle that is open.
Bug_goes_off_with_the_last_open_handle(h) ==
    /\ pc[h] = "close_off"
    /\ isBusOn' = Set(isBusOn, h, FALSE)
    /\ busOnCount' = busOnCount - 1
    /\ IF fileOpenCount = 1
       THEN mutex_lock(h) /\ Goto(h, "close_busOff")
       ELSE /\ busOnCountLock = NoHandle /\ UNCHANGED busOnCountLock
            /\ Goto(h, "close_check")
    /\ UNCHANGED <<isOnBus, refused, ioctl_completion, rest_of_bus>>

Close_count(h) ==
    /\ pc[h] = "close_off"
    /\ isBusOn' = Set(isBusOn, h, FALSE)
    /\ busOnCount' = busOnCount - 1
    /\ IF busOnCount' = 0
       THEN mutex_lock(h) /\ Goto(h, "close_busOff")
       ELSE /\ busOnCountLock = NoHandle /\ UNCHANGED busOnCountLock
            /\ Goto(h, "close_check")
    /\ UNCHANGED <<isOnBus, refused, ioctl_completion, rest_of_bus>>

\* Whether it could is not looked at.
Close_busOff(h) ==
    /\ From(h, "close_busOff", "close_check")
    /\ isOnBus' \in {FALSE, isOnBus}
    /\ refused' = isOnBus'
    /\ mutex_unlock
    /\ UNCHANGED <<busOnCount, isBusOn, ioctl_completion, rest_of_bus>>

\* The count is taken to be without the handle already.
Bug_leaves_the_count_first == fileOpenCount = 0

LastHandle == fileOpenCount = 1

\* Other handles are opened and closed between the test, the calls to the
\* hardware and the decrement.
Close_check(h) ==
    /\ From(h, "close_check", IF LastHandle THEN "close_free" ELSE "close_dec")
    /\ crowded' = (crowded \/ (openFileList = {} /\ fileOpenCount # 1))
    /\ UNCHANGED <<objbufs, rest_of_close>>

Close_free(h) ==
    /\ From(h, "close_free", "close_dec")
    /\ objbufs' = {} /\ crowded' = FALSE
    /\ UNCHANGED rest_of_close

\* The node, and with it its transId and init_access, is freed.
Close_dec(h) ==
    /\ From(h, "close_dec", "closed")
    /\ fileOpenCount' = fileOpenCount - 1
    /\ init_access' = Set(init_access, h, FALSE)
    /\ transId' = Set(transId, h, 0)
    /\ UNCHANGED <<openFileList, bus, output, channelOpen, channelLocked,
                   overrode, mode, chanId, ioctl_completion, cardPresent,
                   buffers>>

\* The card is pulled out; its controller with it.
Card_removed ==
    /\ cardPresent
    /\ cardPresent' = FALSE /\ isOnBus' = FALSE
    /\ UNCHANGED <<list, busOnCount, busOnCountLock, isBusOn, refused, output,
                   access, mode, number, ioctl_completion, buffers, pc>>

----------------------------------------------------------------------------

Open_step(h) == vCanOpen_add(h) \/ vCanOpen_insert(h)

Bus_step(h) ==
    \/ Bus_on_count(h) \/ Bus_on_no_time(h) \/ Bus_on_hw(h) \/ Bus_on_failed(h)
    \/ Bus_off_count(h) \/ Bus_off_hw(h) \/ Bus_off_failed(h)

Close_step(h) ==
    \/ Close_count(h) \/ Close_busOff(h)
    \/ Close_check(h) \/ Close_free(h) \/ Close_dec(h)

Ioctl(h) ==
    \/ \E override \in BOOLEAN : vcan_ioctl_open_chan(h, override)
    \/ vcan_ioctl_open_excl(h)
    \/ \E wants, require \in BOOLEAN :
          vcan_ioctl_open_init_access(h, wants, require)
    \/ \E m \in Mode : kcan_ioctl_open_mode(h, m)
    \/ \E s \in BOOLEAN : vcan_ioctl_set_output_mode(h, s)
    \/ kcan_ioctl_objbuf_allocate(h) \/ kcan_ioctl_objbuf_free_all(h)
    \/ vcan_ioctl_bus_on(h) \/ vcan_ioctl_bus_off(h)

Next ==
    \/ \E h \in Handle :
          \/ vCanOpen(h) \/ Open_step(h)
          \/ Ioctl(h) \/ Bus_step(h)
          \/ vCanClose(h) \/ Close_step(h)
    \/ Card_removed

Spec == Init /\ [][Next]_vars

\* A call in progress goes on; a mutex is handed to whoever waits for it
\* again and again.  Nobody has to open, close or go on bus.
Fairness == \A h \in Handle :
    SF_vars(Bus_step(h)) /\ SF_vars(Close_step(h)) /\ WF_vars(Open_step(h))

FairSpec == Spec /\ Fairness

----------------------------------------------------------------------------
(* What must hold.                                                          *)

Step == {"closed", "numbered", "counted", "open", "BUS_ON", "busOn", "BUS_OFF",
         "busOff", "close_off", "close_busOff", "close_check", "close_free",
         "close_dec"}

\* Every variable has its type; no count goes below zero or past the handles.
TypeOK ==
    /\ openFileList \subseteq Handle
    /\ objbufs \subseteq Handle /\ crowded \in BOOLEAN
    /\ fileOpenCount \in 0 .. Cardinality(Handle)
    /\ busOnCount \in 0 .. Cardinality(Handle)
    /\ chanId \in 0 .. TransIds - 1
    /\ busOnCountLock \in Handle \cup {NoHandle}
    /\ ioctl_completion \in Handle \cup {NoHandle}
    /\ driverMode \in BOOLEAN /\ silent \in BOOLEAN
    /\ cardPresent \in BOOLEAN /\ isOnBus \in BOOLEAN
    /\ refused \in BOOLEAN
    /\ openMode \in Mode
    /\ pc \in [Handle -> Step]
    /\ transId \in [Handle -> 0 .. TransIds - 1]
    /\ isBusOn \in [Handle -> BOOLEAN]
    /\ channelOpen \in [Handle -> BOOLEAN]
    /\ channelLocked \in [Handle -> BOOLEAN]
    /\ init_access \in [Handle -> BOOLEAN]
    /\ overrode \in [Handle -> BOOLEAN]
    /\ granted \in [Handle -> Mode \cup {NoMode}]

OnBus == {h \in Handle : isBusOn[h]}

\* Whenever the mutex is free the channel has counted exactly the handles that
\* are on bus, whatever failed and whoever was closed meanwhile.
CountIsExact ==
    busOnCountLock = NoHandle => busOnCount = Cardinality(OnBus)

\* The physical channel does not go off bus until the last handle does: while
\* a handle is on bus, so is the controller.
OnBusTogether ==
    busOnCountLock = NoHandle /\ cardPresent /\ OnBus # {} => isOnBus

\* When no handle is on bus the controller is off, unless it would not go off
\* when the last handle was closed.
OffBusTogether ==
    busOnCountLock = NoHandle /\ OnBus = {} /\ ~refused => ~isOnBus

\* A handle opened exclusively shares the channel only with handles that asked
\* to override that.
Exclusive ==
    \A h, g \in Handle :
        h # g /\ channelLocked[h] /\ channelOpen[g] => overrode[g]

\* At most one handle on the list may configure the controller.
OneInitAccess ==
    \A h, g \in openFileList : init_access[h] /\ init_access[g] => h = g

\* All handles that were granted a mode were granted the mode the channel has.
ModeAgreed == \A h \in Handle : granted[h] # NoMode => granted[h] = openMode

\* A close that began ends, with the handle off the count, whatever the ioctls
\* of other handles and the hardware do.
CloseEnds ==
    \A h \in Handle : pc[h] = "close_off" ~> pc[h] = "closed"

\* GET_OUTPUT_MODE may forget that the controller is silent, but whoever is told
\* that it is silent can rely on it, whichever handle set the mode or was opened
\* since.
SilentIsTrusted == vcan_ioctl_get_output_mode => silent

\* With the last handle go the periodic buffers of all handles, lest the firmware
\* send them for ever; only handles that are closed at the same time may each
\* take the other to be the last.
NoBufferIsLeft == fileOpenCount = 0 /\ ~crowded => objbufs = {}
============================================================================
