# Kvaser Linux driver and conversion library: TLA+ models

TLA+ specifications of the parts of this repository where a wrong order of
steps can lose a CAN message, a reply, a wakeup or a count: the Linux driver
framework in `src/linuxcan/common`, the virtual card driver in
`src/linuxcan/virtualcan`, the leaf USB driver in `src/linuxcan/leaf`, and the
event loop and the buffered queues of the log converter in
`src/kvlibsdk/kvlclib`. TLC checks each module on small instances; TLAPS proves all
safety properties for every number of threads, handles, buffers, channels, messages
and events, and that the transmit queue, the receive buffer and both buffered queues
implement what they promise.

`PROJECT.json` relates every definition to the lines it models, and lists the
runs, the mutants that show each property can fail, the hazards and the
theorems.

## 1. The system

### 1.1 Components

| component | where | state | operations |
|---|---|---|---|
| transmit queue | `common/queue.c` | indices, atomic length, spinlock | `queue_back/push/front/pop/release/reinit` |
| receive buffer | `common/VCanOsIf.c` | per handle: ring, indices, `valid[]`, overrun flags, wait queue | dispatch, five receive ioctls, flush |
| channel and handles | `common/VCanOsIf.c` | handle list, open and bus-on counts, access rights, modes, buffers | open, close, about 90 ioctls |
| auto response buffers | `common/objbuf.c`, `VCanOsIf.c` | up to 32 buffers per handle, bit masks, work queue | ioctls, match on reception, worker |
| clock synchronisation | `common/softsync.c`, `ticks.c` | regression history per card | add a measurement, convert a time stamp |
| virtual card | `virtualcan/virtualcan.c` | per channel: on bus, silent, outstanding transmissions | transmit, bus on/off, output mode |
| leaf USB driver | `leaf/leafHWIf.c` | per card: list of threads that wait for a reply, command queue, one write URB; per channel: outstanding transmissions | send and wait, worker, receive thread, flush, removal |
| other USB drivers | `mhydra`, `usbcanII` | as leaf | as leaf |
| PCI drivers | `pcican`, `pcican2`, `pciefd` | registers, shared memory, DMA buffers | interrupt handlers |
| canlib | `canlib` | per handle: flags, notification thread | calls to ioctls |
| LIN library, flash tools | `linlib`, `kvflash*` | sequential | |
| kvlclib | `kvlibsdk/kvlclib` | reader, writer, event buffer, times known so far | feed, convert, next file |
| kvlclib queues | `BufQueue.cpp`, `bque_var_size.cpp` | block in memory, temporary file | push, pop |
| kvaDbLib, kvaMemoLibXML, kvmlib | `kvlibsdk/*` | parsed documents, a log file | sequential calls |

### 1.2 How they interact

    application thread ── ioctl ──> VCanOsIf ──> queue.c ──> driver's transmit
          ^                          ^    ^                        │
          │ read, wait               │    └ objbuf worker          │ bus
          └──── receive ring <── vCanDispatchEvent <── interrupt, URB or
                                                       another channel's send

* Application threads enter through ioctls. Most ioctls of a channel take turns
  (`ioctl_completion` of the channel); `RECVMSG*`, `SENDMSG`, the flush of the
  receive buffer, open and close do not.
* A writer puts a message on the channel's transmit queue and asks the driver to
  send. The virtual driver sends in the caller's thread; others in an interrupt
  or a kernel thread.
* Received messages reach `vCanDispatchEvent` in an interrupt, a USB thread or,
  with the virtual driver, in the sender's thread. It goes over all handles of
  the channel under `openLock` and pushes into each handle's ring under its
  `rcvLock`.
* A received frame that matches an auto response buffer sets a bit and queues
  work; the worker writes to the transmit queue of the channel.
* The leaf driver's worker puts commands and messages into the card's only write
  URB; its receive thread completes the threads that wait for a reply, counts
  acknowledged messages down and dispatches received ones.
* Removal of the card clears `cardPresent`, wakes everybody, waits until the
  files are closed and frees the card.
* kvlclib and the other conversion libraries are sequential: one thread calls
  them. What is hard there are long call sequences and failing files.

### 1.3 What is hard

* the transmit queue's lock is taken in one function and dropped in another, and
  its emptiness is tested without it;
* the receive ring is read by the condition of a wait without its lock, and may
  hold holes that a specific read left;
* open and close do not wait for the ioctls of other handles, and the bus-on
  mutex is held over calls to the hardware that may fail;
* the auto response worker reads a mask once, serves it and clears it while the
  dispatcher sets bits;
* nobody polls the virtual bus: a message that could not be sent waits until
  some call tries again;
* a command's node is on the stack of a thread that may time out while the
  receive thread completes it;
* the leaf's write URB is owned by a count that a stalled write, a failed write
  and a removal all change;
* a flush starts the leaf's counting of messages again with messages on their way;
* the converter learns the times of a file when some of its events are already
  buffered, and buffers, drains and writes through in one call;
* both kvlclib queues turn from writing to reading in the middle, with half a
  block in memory.

The full list, with the line at which each bites and the properties that would
show it going wrong, is `hazards` in `PROJECT.json`.

### 1.4 What makes each component correct

* transmit queue: a FIFO, whoever calls what when; the lock is always dropped.
* receive buffer: arrival order, each message once, a loss is always marked, a
  reader sleeps only when there is nothing to read.
* channel: the count equals the handles on bus, the controller is on bus exactly
  with them, rights are exclusive, a close ends.
* auto response buffers: a response answers a frame, a marked buffer is served,
  no work on freed memory.
* virtual card: a message that can be delivered does not stay in the queue;
  `canWriteSync` returns.
* leaf commands: a reply goes to who asked for it, none to a frame that is gone,
  the write URB has one owner, removal ends every wait and frees what nobody uses.
* leaf messages: an acknowledgement echoes the message it is for; every message
  goes out; `canWriteSync` returns when what was written is acknowledged.
* converter: events are written once and in order, with the times of their own
  file and a number without gaps, and none of the window is left behind.
* kvlclib queues: a FIFO across memory and file, write protected exactly while it
  is read.

## 2. The modules

| module | models | abstract specification |
|---|---|---|
| `BoundedFifo` | | what the transmit queue promises |
| `TxQueue` | `queue.c` and its callers | implements `BoundedFifo` |
| `TxQueue_proofs` | theorems about `TxQueue` | |
| `Mailbox` | | what the receive buffer promises |
| `RcvBuffer` | the ring, the dispatcher, the receive ioctls | implements `Mailbox` |
| `RcvBuffer_proofs` | theorems about `RcvBuffer` | |
| `VCanChannel` | open, close and the ioctls that change shared state | |
| `VCanChannel_proofs` | theorems about `VCanChannel` | |
| `VirtualCan` | `virtualcan.c` with `SENDMSG`, `canWriteSync`, flush | |
| `VirtualCan_proofs` | theorems about `VirtualCan` | |
| `ObjBuf` | driver-implemented auto response buffers | |
| `ObjBuf_proofs` | theorems about `ObjBuf` | |
| `LeafCmd` | commands, replies, the worker's write and the removal of `leafHWIf.c` | |
| `LeafCmd_proofs` | theorems about `LeafCmd` | |
| `LeafTx` | messages of a channel, their acknowledgement, flush, bus on and off and `canWriteSync` in `leafHWIf.c` | |
| `LeafTx_proofs` | theorems about `LeafTx` | |
| `ProtectedFifo` | | what a kvlclib queue promises |
| `BQueue` | `BufQueue.cpp` | implements `ProtectedFifo` |
| `BqueVarSize` | `bque_var_size.cpp`, as operators | |
| `Converter` | `kvaConverter.cpp` with a `BqueVarSize` | its use of the buffer implements `ProtectedFifo` |
| `Kvlclib_proofs` | theorems about `Converter`, its queue, and `BQueue` | |

`MC…` modules give TLC the constants. Operators named `Bug_…` stand before the
definition they are a plausible mistake in; no specification uses them, and each
property names in `PROJECT.json` the mistake that breaks it.

Names are those of the code. A function that does something in several steps
others can come between is split into actions with a `pc`; a spinlock section
nobody can look into is one action.

### TxQueue

`head`, `tail`, `length`, `lock` are the fields of `Queue`, `slot` the array of
the caller. `pc` says where a thread is between `queue_back`/`queue_front` and
the call that ends it; `pos` is what it returned. The writer (`queue_back`,
`Fill`, `queue_push`), the sender (`Check_not_empty`, `queue_front`, `Take`,
`queue_pop`) and the flush may each be done by any thread. `queue_release` ends
both when there is nothing to do, and a transmission that failed. The flush is
one step because it holds the lock throughout. `delivered` is a history
variable. Left out: the wait queue of pollers.

### RcvBuffer

`bufHead`, `bufTail`, `valid`, `fileRcvBuffer` are the fields of
`VCanReceiveData`. `vCanPushReceiveBuffer` and `Dispatch_room`/`Dispatch_overrun`
are the two halves of the dispatcher's critical section: a reader's wait
condition can see the ring between them. A reader's ioctl goes through
`prepare_to_wait`, `Check_condition`, sleep, `After_wait` and one of the locked
bodies; `RECVMSG_SPECIFIC` is `read_specific` and `RECVMSG_SPECIFIC_none`, with
its three ways to leave the message found. Timeouts are none, some and for ever.
`lost` is a history variable: a message was dropped and the reader has not been
told. `Mailbox` sees a row of places (some taken) and no indices, locks or
waits. Left out: event filters, the text buffer, messages the hardware has
already marked.

### VCanChannel

`openFileList` is the set of handles on the list, `fileOpenCount`, `busOnCount`
and `chanId` the atomics, `busOnCountLock` the mutex, `ioctl_completion` the
turn; `isBusOn`, `channelOpen`, `channelLocked`, `init_access` and `transId` the
fields of the handles; `driverMode` the cached output mode. The controller is
`isOnBus` and `silent`, and any call to it may fail. `vCanOpen` is three actions
(read the number, add one, insert), `vCanClose` up to six, bus on and off three
each; ioctls under `openLock` are one action. History variables: `overrode` and
`granted` (what a handle was given), `refused` (a controller that would not go
off bus for a close), `crowded` (closes that met). `OPEN_MODE` reads the number
of handles and acts on it later; a handle opened in between has no mode granted,
so one step tells the properties the same. `CHECK_DEADLOCK FALSE`: without its
card the channel comes to rest when all handles are closed.

### VirtualCan

A queue is its length, since `TxQueue` has shown it a FIFO. `SENDMSG` and
`virtualRequestSend` put a message on the queue and look at the count of
outstanding transmissions; `Look`, `Front_empty`, `Transmit`, `Transmit_fails` and
`Empty` are the loop of `virtualSend`; `virtualBusOn`, `Kick` and `Kick_end` the
loop over the other channels, during which the handle has its channel's turn.
`wait_tx_queue_empty` is the wait of `canWriteSync`. `excused` is a history
variable: the channels that a flush or a silent channel has left to themselves,
see `NoStuckMessage` below. Left out: what receivers do with a message
(`RcvBuffer` has it), echoes, bus parameters, closing a handle that is on bus
(`VCanChannel` has it).

### ObjBuf

`in_use` and `active` are the flags of the buffers, `objbufActive` the atomic
mask, `objbufWork` the queued work. The worker copies the mask
(`objbuf_write_all`), tests a buffer (`Skip_buffer`, `Test_buffer`), writes its
response (`Respond`), and clears what is done (`Clear`). The clearing is chosen
by `ClearsDone`, since the source has three branches for it: the branches for
ARM and for kernels before 4.3 clear the bits that are done, the branch for
newer kernels on other machines keeps exactly those. `isLast` says whether the
handle is the last of its channel when it is closed. A frame may match any
enabled buffers; filters and contents are left out. `CHECK_DEADLOCK FALSE`: a
closed handle has nothing left to do.

### LeafCmd

`replyWaitList` is the card's list of `WaitNode`s; a node is in `node[t]` from
`Call` to `Return`, that is while the frame of `leaf_send_and_wait_reply` exists.
`List_add`, `leaf_queue_cmd`, the wait and `List_del` are steps of their own, and
`Time_out` and `Leave` end the call between any two steps of the others. The
worker `leaf_send` waits for the write, fills the buffer and submits it;
`write_finished` counts the completions of the URB, as in the code, so it can be
more than one after a write that took longer than `LEAF_CMD_RESP_WAIT_TIME`
(`Write_stalls`). `Write_ends` is the URB's callback. The device answers in order
or not at all. `leaf_handle_command` completes every node that an answer matches;
`Unchecked` are the commands matched without `transId`. `leaf_remove` is one
action per wait. `lost` is a history variable, the threads whose request came to
nothing. Left out: messages (`LeafTx`), contents of commands, plug-in.

### LeafTx

One channel. `outstanding_tx`, `transId` and `waitEmpty` are its fields; a message
on its way is its number, and so is a command (`Flush`, `Start`, `Stop`). The worker takes a message (`Take`) and removes it
(`Pop`) while it holds the queue's lock, in between the receive thread may run;
`Tx_acknowledge` counts down, starts the worker if the device was full and wakes
`canWriteSync`. `leaf_flush_tx_buffer` is six steps of a thread that has the
channel's turn; so are the tests of `wait_tx_queue_empty`. `BUS_ON` of the first
handle is that flush followed by `leaf_bus_on`, `BUS_OFF` of the last is
`leaf_bus_off`; a command that a failed transfer lost times out, which ends `BUS_ON`
and which `leaf_bus_off` does not notice. `running` is the device's chip, `isBusOn`
what the handles believe. When the chip is stopped or started the device may keep
or drop what it has not sent, for the code depends on neither. `Present` bounds what
is queued and on its way. History variables: `awaited` (what `canWriteSync` has
to wait for), `overtaken`, and `miscounted` and `failed`, which `BUS_ON` resets: after it nothing
is excused that happened before. Left out: several channels in one URB, and closes,
which do not wait for the channel's turn (`VCanChannel` has them).

### Converter, BqueVarSize

`BqueVarSize` has `push`, `pop`, `write_block` and `read_block` as operators on a
record: `push_index` is the bytes pushed to the block in memory, `storage` the
elements there, `file` the blocks that were written. `Converter` uses one: an event is either
buffered (`Buffer_event`), refused because a drain was interrupted
(`Buffer_refuses`) or written (`Write_through`). When the last unknown time
becomes known the call goes on as `"drain"`: `Crop_event` and `Write_buffered` for
each event, `Drained` at the end. `next_file` forgets the times;
`kvlcDeleteConverter` writes what is left. An event's time is its number. `lost`
and `interrupted` are history variables: events of calls that failed, and that a
write failed in the middle of a drain. Left out: splitting of output files,
overruns, properties other than the pre-trigger's.

### BQueue

`mem` is the storage with `head` and `current_size`, which are written to the
file with it; `file` the blocks written. `push` writes a full block out first;
`pop` turns the queue round the first time, reads a block when the one in memory
is used up and starts over at the end. `pop_cannot_read` is a first pop that
fails after it has written. Other failures either change nothing, and stutter,
or leave the queue unusable, and are left out. Callers ask `size()` before they
pop (`mdf3.cpp:918`, `mdf4.cpp:1356`, `KvaLogWriter_Famos.cpp:471`).

## 3. The runs

| run | instance | what it shows |
|---|---|---|
| `tx_queue` | 3 threads, array of 4, 2 messages | `LockDiscipline`, `PositionsStayValid`, refinement `FifoSpec` |
| `receive` | ring of 3, 1 reader, 2 identifiers | `NoSilentLoss`, `NoFalseAlarm`, `SleeperIsTold`, refinement `MailSpec`, liveness `MessageWakesReader`, `RemovalEndsWait` |
| `channel` | 3 handles, bus, rights and mode ioctls, 2 modes | `OnBusTogether`, `Exclusive`, `ModeAgreed`, `SilentIsTrusted` |
| `channel_close` | 3 handles, bus and buffer ioctls, 1 mode | `OffBusTogether`, `NoBufferIsLeft`, liveness `CloseEnds` |
| `virtual_bus` | 2 handles on one channel, 1 on another | `NoStuckMessage`, `SleeperIsWoken` |
| `objbuf` | 3 buffers, queue of 2 | `MarkedIsQueued`, `NoWorkAfterClose`, `ResponsesAreOwed` |
| `leaf_commands` | 2 threads with a channel each, queue of 1, 2 requests on their way, 1 stalled write | `NodesAreInside`, `AnswerIsOurs`, `CallIsUnderWay`, `OneWrite`, `FreedIsUnused`, liveness `CallIsAnswered`, `WaitersAreStopped`, `RemovalEnds` |
| `leaf_transmit` | 1 writer, bus on and off, queue of 2, 2 outstanding, 4 messages | `NobodyIsForgotten`, `EchoIsOwn`, `SyncMeansSent`, liveness `MessagesGoOut`, `WriteSyncReturns` |
| `buffered_queue` | blocks of 2, up to 6 elements | refinement `FifoSpec` |
| `converter` | 5 events, 2 files, 1 failed write, blocks of 3 bytes | `InOrder`, `WindowIsKept`, `TimedByOwnFile`, `Numbered`, refinement `FifoSpec` |
| `receive_lost_wakeup` | as `receive` | finding: `ReadWaitSeesMessage` fails |
| `leaf_write_sync` | as `leaf_transmit`, 3 messages | finding: `WriteSyncAlwaysReturns` fails |

No run checks a `TypeOK`: each is proved, for every instance (section 4).

### Properties worth a word

* `MailSpec` holds whatever is read in whichever order while the ring overruns:
  a specific read leaves holes, and the overrun handling must drop the oldest
  message that is still there and mark the next one.
* `MessageWakesReader` excuses a reader once a message was dropped. Without the
  excuse it fails, and that is the first finding: the push that fills the last
  place makes `bufHead` equal `bufTail` for a moment; a reader that looks then
  sleeps again; the overrun handling makes room and wakes nobody.
* `OffBusTogether` excuses a controller that would not go off bus for the last
  close (`vCanClose` does not look at the result).
* `SilentIsTrusted` is one-sided on purpose: opening a handle resets the cached
  mode and not the controller's, so `GET_OUTPUT_MODE` may answer normal of a
  silent controller, never the reverse.
* `NoBufferIsLeft` excuses closes that meet: each sees the other in
  `fileOpenCount` and neither frees the buffers.
* `NoStuckMessage` excuses a channel from its flush to its next bus on, and the
  other channels of one that was silent: a channel that leaves silent mode tells
  nobody, and one that is set silent again lets the others count failures that no
  message stands for.
* The count of outstanding transmissions in `VirtualCan` may exceed what is in the
  queue: two senders may both count a failure of the same message. The surplus
  stays below the number of handles, which is why `NothingIsStuck` asks that
  `MaxOutstanding` is not below it.
* `SleeperIsWoken` does not say that `canWriteSync` returns: with two handles a
  waiter woken by an empty queue may find it filled again, with its request bit
  already cleared. In the leaf driver one writer is enough, which is the second
  finding: `leaf_write_sync`.
* `AnswerIsOurs` lets a call take the answer to an earlier call of its own channel
  that timed out, and nobody else's. Commands matched without `transId` (four
  callers pass `check_trans_id = 0`) are excepted.
* `SleeperIsTold`, `CallIsUnderWay` and `NobodyIsForgotten` are what the liveness
  properties rest on, as invariants: in every state in which somebody waits, what
  it waits for is on its way and somebody is due to go on with it. A lost wakeup, a
  work that is not queued or a count that does not come down breaks them in the
  step that loses it.
* `OneWrite` says both that two owners of the write never meet and that there is
  always one until the removal has waited for it: with none, the removal and the
  worker would wait for ever.
* `CallIsAnswered` says that a call ends with an answer unless its request was
  lost. It excuses nothing else: no path may drop a command quietly.
* `FreedIsUnused` is about the worker, the files and the URB. The receive thread is
  not in it: `leaf_remove` does not wait for it, see section 5.
* `EchoIsOwn` and `SyncMeansSent` excuse a flush that met messages on their way,
  until nothing is on its way any more or the channel goes on bus again. That bus on
  starts from nothing depends on the flush it makes first: without it TLC finds an
  acknowledgement from before that echoes a message from after.
* `WindowIsKept` allows an event to be missing only if the call that read it, or
  the one that would have written it, reported a failure or was the deletion.
* `InOrder` excuses an interrupted drain: what is left in the buffer is written
  after the events that came later.

### Bounds, and why they are enough

* `Size = 4`, `size = 3`: the ring wraps, is full, and for the receive ring has a
  hole before, between and after messages. Three threads: one inside the lock,
  one waiting for it, one that flushes.
* Handles 3: two that meet and one that shares the channel throughout. The
  periodic buffers and the rights and modes share no state, so each has a run of
  its own with the bus. `TransIds
  = 1` where numbers do not matter (they would multiply the states);
  `TransIds = 256`, the size of the type, where they do.
* `Capacity = 1`, `MaxOutstanding = 2` in `VirtualCan`: the count reaches its
  limit and the queue is full. The limit must not be below the number of senders
  on a channel, see above. `OutstandingBound` (a channel tells others only while
  no count is past the limit by more than one) keeps the count finite.
* `LeafCmd`: two threads tell a reply of one's own from another's; two requests on
  their way are a late reply and the next; one stalled write makes
  `write_finished` two. A queue of one is full with a request of the other thread.
* `LeafTx`: `max_outstanding_tx = 2` is the smallest the code works with (with 1
  nobody is ever woken, `left` being at the limit less one at 0); 4 messages make
  the numbers go round twice.
* `Converter`: 5 events are an RTC, a trigger and messages before, between and
  after, in two files; 3 bytes of storage are a block of one large or up to three
  small events, so that 5 events need a second block in the temporary file. A
  pre-trigger of 2 lies in the middle.
* `MAX_OBJECT_BUFFERS = 3`, `Capacity = 2`: the queue is full in the middle of a
  scan, before and after the last buffer.
* `size_of_queue = 2`, `MaxSize = 6`: three blocks, and totals that are and are
  not multiples of a block. `MaxFaults = 1`: with two failures a block without
  elements comes before others and `FifoSpec` fails.
* Symmetry is used where no operator tells the values apart and only safety is
  checked: threads and messages of `TxQueue`, handles and modes of
  `VCanChannel` (not in `channel_close`, which checks liveness), the two handles on
  one channel of `VirtualCan`.
* `CHECK_DEADLOCK FALSE` stands where the system may come to rest: a channel
  without its card when all handles are closed, a closed handle of `ObjBuf`, a
  freed card, a channel of the leaf whose bounded messages are used up, a deleted
  converter.

### Fairness

* `RcvBuffer`: weak fairness of the dispatcher's second half (it holds a
  spinlock), of each reader's ioctl in progress (a runnable thread is
  scheduled), and of `vCanRemoveCardChannel` (whoever clears `cardPresent` goes
  on). Nothing makes a message arrive or an application call.
* `VCanChannel`: strong fairness of a close or a bus ioctl in progress, because
  the mutex it waits for is free again and again and the kernel's mutex hands it
  to waiters in turn; the hardware answers or fails, both of which end the call.
* `LeafCmd`: weak fairness of the worker and of the removal (kernel threads), of
  each thread that is in a call, of the end of a write (the USB core completes or
  cancels every URB) and of the receive thread. Nobody must call, close or remove,
  and neither a time-out nor an answer of the device is assumed.
* `LeafTx`: weak fairness of the worker, of the receive thread, of a call in
  progress, of `leaf_schedule_send` after a message was queued, and of the device,
  which acknowledges what it gets in turn. The time-out of `canWriteSync` is not
  assumed: it may wait for ever.
* The other modules are checked for safety alone.

## 4. Proofs

`TxQueue_proofs` proves, from `Size >= 2`, `NoMsg \notin Msg` and
`"none" \notin Thread` alone:

| theorem | statement |
|---|---|
| `TypeCorrect` | `Spec => []TypeOK` |
| `MutualExclusion` | `Spec => []LockDiscipline` |
| `RingConsistent` | `Spec => []LengthIsDistance` |
| `PositionsValid` | `Spec => []PositionsStayValid` |
| `ImplementsFifo` | `Spec => FifoSpec` |

The inductive invariant `IInv` is the conjunction of the four invariants. None
is inductive alone: the type of `length` needs `PositionsStayValid` at a push (a
writer that holds a position knows there is room) and at a pop; the position
stays valid only because `LockDiscipline` excludes any other thread that could
move an index; and `LengthIsDistance` needs the bounds on `length` to tell full
from empty. One lemma per conjunct goes over the actions. For the refinement,
lemmas say what `Queued` is after a push (`Append`), a pop (`Tail`) and a step
that fills an element outside the queue (unchanged); every other step stutters.

`VCanChannel_proofs` proves, from `NoHandle \notin Handle`, `IsFiniteSet(Handle)`
and `TransIds >= 1`, all safety properties of the channel that the runs find to
hold, for every finite number of handles, every set of modes and every choice of
ioctls:

| theorem | statement |
|---|---|
| `TypeCorrect` | `Spec => []TypeOK` |
| `BusOnCountExact` | `Spec => []CountIsExact` |
| `ChannelOnBusTogether` | `Spec => []OnBusTogether` |
| `ChannelOffBusTogether` | `Spec => []OffBusTogether` |
| `BuffersFreed` | `Spec => []NoBufferIsLeft` |
| `SilenceTrusted` | `Spec => []SilentIsTrusted` |
| `ExclusiveAccess` | `Spec => []Exclusive` |
| `SingleInitAccess` | `Spec => []OneInitAccess` |
| `OneMode` | `Spec => []ModeAgreed` |
| `NoDeadlock` | `Spec => []LocksAreGivenBack` |

The properties speak of moments at which the mutex is free; the inductive
invariant says what holds while it is taken. `Counts` equates `busOnCount` with
the set `Counted` of handles on bus but those that `BUS_OFF` has taken out of the
count and not yet out of `isBusOn`, and `fileOpenCount` with the set `Opened`, so
that every action adds or removes one element (`OneMore`, `OneLess`). `Mutex` says
that whoever is at the hardware holds `busOnCountLock`, so there is one at most.
`Controller` and `OffWithLast` say what the controller does meanwhile: a handle
at `busOn` is the only one counted, and with one at `busOff` nobody is. `Places`
ties the list and `isBusOn` to where a handle is, `Rights` ties rights and modes
to the list, and `BuffersInUse` says that buffers have a handle on the list or a
close that has yet to pass the test for the last. The counts' types follow from
`Counts`, not the other way round. `LocksAreGivenBack` is inductive with the rest: the
mutex is held only at the hardware and the turn of the ioctls only in one, so who holds
the mutex waits for nobody, and on no path is one of them kept; it is the safety half
of `CloseEnds`.

`RcvBuffer_proofs` proves, from `size >= 2` and `NoId \notin Id`, for every length of
the ring and, where `Alone` is not assumed, any number of readers:

| theorem | statement |
|---|---|
| `TypeCorrect` | `Spec => []TypeOK` |
| `LossIsTold` | `Spec => NoSilentLoss` |
| `NotForNothing` | `Alone => (Spec => NoFalseAlarm)` |
| `SleepersAreTold` | `Alone => (Spec => []SleeperIsTold)` |
| `ImplementsMailbox` | `Spec => MailSpec` |

`RingInv` relates the ring to what readers are owed: `TailIsUnread` (the place at
the tail holds a message unless the ring is empty), `UnreadIsMessage`,
`PushedIsThere` (between the dispatcher's two halves the last place is valid) and
`LossIsMarked` (as long as a loss has not been told, the oldest message still there
carries the overrun flag). The overrun handling looks for the next valid place, so
its lemmas need the least element of a set of distances (`LeastElement`).
Two theorems are about a reader alone on its handle (`Alone`): with two, one may take
what the other was woken for. `NotForNothing` adds `WokenForSomething`: who was woken
finds a message or the card gone. `SleepersAreTold` is the converse and the
safety half of `MessageWakesReader` and `RemovalEndsWait`: between `prepare_to_wait`,
the test and the sleep no step of the dispatcher or of the removal comes too early
to be noticed, but in the overrun of the first finding. Its invariant (`Sleeping`) adds
that a removed channel has no card, which is what the sleeper tested.
For `ImplementsMailbox`, a reader
of `Mailbox` sees a row of places, taken or not; lemmas say what that row (`Row`)
is after a push, a read at the tail, a read in the middle and the overrun handling,
and every step of the detailed specification is then one step on the row or none.

`ObjBuf_proofs` proves, for every number of buffers and length of the queue:

| theorem | statement |
|---|---|
| `TypeCorrect` | `Spec => []TypeOK` |
| `CloseWaits` | `Spec => []NoWorkAfterClose`, whichever build |
| `NothingForgotten` | `ClearsDone => (Spec => []MarkedIsQueued)` |
| `OnlyOwed` | `ClearsDone => (Spec => ResponsesAreOwed)` |

The last two hold of builds that clear what is done. `Scanning` says what the
worker has copied and done of the mask, `Marks` that a bit that is set has work
queued or a worker that has still to come to it.

`VirtualCan_proofs` proves, for every set of channels and handles and every length
of the queue:

| theorem | statement |
|---|---|
| `TypeCorrect` | `Spec => []TypeOK` |
| `NothingIsStuck` | `Enough => (Spec => []NoStuckMessage)` |
| `SleeperWakes` | `Spec => []SleeperIsWoken` |

`NoStuckMessage` speaks of moments at which every call has returned; the
invariants say who will send meanwhile. `SomeoneSends`: a message that could be
delivered has a handle that will look at its queue (`WorksFor`), one whose request
finds the count below its limit included. That needs a bound on the count:
`FailuresCounted` says that count and attempts under way together stay below the
messages in the queue plus the handles. With `MaxOutstanding` not below the number
of handles (`Enough`; the code's limit is 300), a count at its limit therefore
means that a failure is still to be looked at. `SomeoneWakes` says that while
somebody sleeps on an empty queue with its bit set, whoever emptied it has not
looked at the bit yet. `OnBus` and `Turns` tie counts and loops to the handles.

`LeafCmd_proofs` proves, from one thread per channel (`ThreadAssumption`),
`Unchecked \subseteq Command`, a queue with room and any number of stalled writes:

| theorem | statement |
|---|---|
| `TypeCorrect` | `Spec => []TypeOK` |
| `NodesInside` | `Spec => []NodesAreInside` |
| `AnswersAreOurs` | `Spec => []AnswerIsOurs` |
| `CallsAreUnderWay` | `Spec => []CallIsUnderWay` |
| `WriteIsOne` | `Spec => []OneWrite` |
| `FreedSafely` | `Spec => []FreedIsUnused` |

`RequestsAreOwned` follows a request through queue, buffer, URB and device: where
it names its maker it names its channel, which is what tells answers apart.
`Inside` ties list, node and file to where a thread is. `WriteOwned` counts the
owners of the write (`Writes`: the semaphore, the worker, the URB): one while the
card is there, and after it at most one, but for a worker that gives back a write
it did not take as it runs for the last time; `WriteIsThere` says that there is one
at all until the worker is destroyed. `CallsAreUnderWay` needs that a request is that
of its maker's current call (`RequestsAreCurrent`) and that the buffer is empty but
between filling and submitting (`BufferIsFree`): a step that moves a request
between queue, buffer, URB and device then never drops it unseen. `Removing` says what the removal has
found before each of its steps.

`LeafTx_proofs` proves, from a queue with room, `max_outstanding_tx >= 2` and any
bound on the messages, for every set of writers:

| theorem | statement |
|---|---|
| `TypeCorrect` | `Spec => []TypeOK` |
| `EchoesAreOwn` | `Spec => []EchoIsOwn` |
| `SyncIsSent` | `Spec => []SyncMeansSent` |
| `NobodyForgotten` | `Spec => []NobodyIsForgotten` |

What is on its way is one sequence, `InFlight`: the device, the URB, the buffer and
the command queue, one behind the other. Every step of worker, device and receive
thread leaves it, moves a part of it, adds to a part or loses some of it.
`Thins(s, t, V)` says that the elements of `t` that are in `V` are elements of `s`, in
their order; lemmas say that concatenations thin part by part (`ThinsConcat`) and
that fewer are left. On that rest the conjuncts of `IInv`: `Counting` (what is on its
way is counted), `Numbering` (of two messages the older is further behind the next
number, and none is further behind than messages are counted, so that the
modulus never makes two meet) and `Awaiting` (what `canWriteSync` waits for is queued
or counted, at each of its tests). `OneFlush` and `Going_on` say why bus on starts from
nothing: its flush is behind every message, so when it is answered none is left.

`NobodyForgotten` needs the converse of `Counting`: that what is counted is on its way,
for a count that is too high is a device that is never found free again. That is
`Accounted`, and it fails only after a failed transfer and from the moment a flush
or a stop makes the device drop messages to the moment the count starts again
(`Dropping`). How long that is depends on the caller getting its reply, so
`CommandsAwaited` says that a command is on its way exactly while it is waited for.
Both count elements of `InFlight`; `NumberParts`, `CountConcat` and `CountTail` say how
the number of elements of a set changes as sequences are joined and taken from.
`Served` and `Waiting` say of each test the worker, the writers and `canWriteSync`
make one after the other what is due if it comes out the other way meanwhile; a writer
that found the device full relies on the acknowledgement that makes it less than
full (`Was_full`), which `Accounted` says is to come.

`Kvlclib_proofs` proves, of `Converter`, from elements of at most the size of the
storage, for every number of events and files and every set of pre-triggers:

| theorem | statement |
|---|---|
| `TypeCorrect` | `Spec => []TypeOK` |
| `OutputIsInOrder` | `Spec => []InOrder` |
| `TimesAreOwn` | `Spec => []TimedByOwnFile` |
| `NumbersHaveNoGap` | `Spec => []Numbered` |
| `WindowIsNotCropped` | `Spec => []WindowIsKept` |
| `BufferIsFifo` | `Spec => FifoSpec` |

The first part of the module is about `FlattenSeq`, by which `Contents` is defined:
what it gives, for all sequences of blocks, for one more at the end
(`FlattenAppend`) and for the one at the head (`FlattenHead`). The library's induction
cannot be cited here; `UpTo` takes its place, induction over a set of numbers, from the
least number that is missing. The second part says what `push` and `pop` make of a
sound queue, whether the block has room, is written, turned round or used up
(`Pushes`, `Pops`). `Shape` is what the converter's other invariants rest on: events
are numbered as they are read, and what waits, is written or lost was read.
`Ordering` and `Draining` give `InOrder`: what is written is older than what waits
unless a drain was interrupted, and nothing is written past a buffer that is not
empty. `Knowing` ties the flags of what is unknown to what was read of the file; with
it `Timing` says that what is drained has the times of its own file or is of one that
ended without them (`Over`), which is also what `TimedByOwnFile` excuses. `Cropping` says
that the edge in force is that of the file's first trigger, and `Keeping` that
what was read is written, waits, is lost or lies before that edge.

Of `BQueue` the module proves, through an instance with constants and variables of
its own (`BQ`), since the two specifications share their names:

| theorem | statement |
|---|---|
| `BlocksTyped` | `BQ!Spec /\ [][Worth_writing]_(BQ!vars) => []BQ!TypeOK` |
| `BQueueIsFifoMeanwhile` | `BQ!Spec /\ [][Worth_writing]_(BQ!vars) => BQ!FifoSpec` |
| `BQueueIsFifo` | `MaxFaults <= 1 => (BQ!Spec => BQ!FifoSpec)` |

The first two hold for any number of failures: what breaks the queue is not a
second failed first pop but one that writes a block with nothing in it
(`~Worth_writing`), which is one that is repeated at once, the first having emptied the
block in memory. With two failures TLC finds the queue broken, and with the
step excluded it is sound with three. That the first failure is never of that kind
(`In_memory`, `FirstFault`) gives the third theorem, which is what the run checks.
`Holding` says that every block on file holds something, but the one written last
while the queue is read; `Counted` that `total_size` is the length of the queue. With
both a pop never meets a block without an element before the queue is empty, and
leaves the tail of the queue (`PopOfBlocks`), whichever block the next element is in.
While the queue is written the block in memory starts at 0, so no index wraps until a
block is used up (`Kept`).

Only model-checked: the eight liveness properties, since fairness and `ENABLED` are
out of the prover's reach: `MessageWakesReader`, `RemovalEndsWait`, `CloseEnds`,
`CallIsAnswered`, `WaitersAreStopped`, `RemovalEnds`, `MessagesGoOut` and
`WriteSyncReturns`. Of the first four and the last two the safety half is proved: nobody
waits with nothing due to end the wait. `WaitersAreStopped` and `RemovalEnds` are about a
card that is gone, of which `OneWrite` says only that the write is there to wait for.
Every safety property and every refinement that a passing run checks has a theorem.

## 5. Differences between code and documentation

The two runs that end in a violation:

* `receive_lost_wakeup`: `canReadWait` may sleep on a full buffer.
* `leaf_write_sync`: `canWriteSync` may wait although all messages are
  acknowledged: the acknowledgement that empties the device clears the request bit,
  the waiter wakes to a message written meanwhile and waits on, and the next
  acknowledgement finds no bit.

Seen while modelling and kept as hazards without a run of their own:

* channel: two handles opened at once have the same `transId`, which is meant to
  tell where a message came from; `GET_OUTPUT_MODE` after another open;
  `canObjBufFreeAll` frees other handles' periodic buffers; a close frees the
  buffers of a handle opened meanwhile.
* virtual card: a channel that stops being silent does not make the others send
  what they have, setting a silent channel silent does; two handles in
  `canWriteSync`; a flush leaves outstanding transmissions; a TXACK for a message
  nobody received.
* auto response: on newer kernels a buffer responds again to no frame; a response
  half written by `OBJBUF_WRITE`; a frame received between response and clearing is
  never answered; a buffer that is allocated again is enabled still; handles freed
  with work queued.
* leaf: `leaf_bus_off` hides that stopping the chip failed, so all handles are off
  bus while it runs on; the result of a wait that the removal ended is never read, so the caller
  gets `VCAN_STAT_OK` with a reply nobody filled in; the receive thread is not
  waited for when the card is freed; a write that takes too long completes twice; a
  flush with messages on their way gives their numbers out again.
* converter: the edge of the pre-trigger is a local variable of the call, so a drain
  that a later event starts has lost it and crops nothing; a file that ends
  before its times are known has its events timed by the next file; a write that
  fails in the middle of a drain leaves a buffer that takes no more events until it
  is deleted.
* BQueue: a pop of an empty queue leaves it read only.

## 6. Plan

Done: the transmit queue, receive buffer, channel, virtual card, auto response
buffers, leaf commands, the leaf's messages, both queues of kvlclib and the
converter, each with its runs and its proofs.

Next modules, in this order:

1. `Notify`: the notification thread of canlib and its shutdown.
2. The time domains of canlib (`canlib.c:2160-2740`).
3. The mhydra driver, whose commands wait in the same way.
4. A composition of `VirtualCan` with `Mailbox`: what one handle sends another
   receives, in order.

Next theorems: that the messages of `LeafTx` reach the bus in the order of their
numbers (a refinement, with `Thins` as a channel that may lose), and what
`Converter` promises as a refinement of a converter that reads a whole file before it
writes it.

## 7. Not modelled

* mhydra and usbcanII: twins of the leaf driver, with other headers; what
  `LeafCmd` and `LeafTx` say is not claimed of them.
* pcican, pcican2, pciefd: register accesses and DMA, whose other side is hardware
  and firmware outside the repository.
* clock synchronisation: a regression in 64-bit arithmetic, beyond TLC's numbers.
* canlib, linlib, the flash tools and the t-script helpers: calls translated into
  ioctls, sequential but for canlib's notification thread.
* kvaDbLib, kvaMemoLibXML, kvmlib, and kvlclib's readers and writers: file formats
  and parsers, with no state that calls could reach in an unexpected order.
* event filters, text buffers, `/proc`, registration: one assignment each.
* examples, packaging and vendored code.
