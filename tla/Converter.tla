------------------------------ MODULE Converter -----------------------------
(* KvaConverter (kvlclib/kvaConverter.cpp): events of log files are written *)
(* in another format.  Until a file has shown the time of day (an RTC       *)
(* event) and where its clock starts (a trigger), its events are kept in a  *)
(* buffer; then the buffer is drained, cropped to the pre-trigger if the    *)
(* writer wants that, and from then on events are written at once.          *)
(*                                                                          *)
(* An event's time64 is its number here: times that grow, also from file to *)
(* file.  Calls that read no event and calls refused for want of a reader   *)
(* or a writer are left out; the writer opens its file with the first call. *)
EXTENDS BqueVarSize, Integers

CONSTANTS PreTrigger,  \* of triggers; 0 if inactive or without pre-trigger
          MaxEvents,   \* bound on the events read
          MaxFiles,    \* bound on the input files
          MaxFailures  \* bound on the writes that fail

ASSUME PreTriggerAssumption == PreTrigger \subseteq Nat /\ 0 \in PreTrigger
ASSUME BoundAssumption ==
    MaxEvents \in Nat /\ MaxFiles \in Nat \ {0} /\ MaxFailures \in Nat

VARIABLES
    pc,               \* "idle", or what the call in progress does
    crop,             \* the writer's property KVLC_PROPERTY_CROP_PRETRIGGER
    file,             \* the number of the input file
    read,             \* the events read; data_counter is its length
    event_buffer,
    unknown_time_fix, \* bits ABS and HRT
    unknown_last_hrt, unknown_last_rtc,
    rtc_file,         \* the file abs_last_rtc was read from
    delta_file,       \* the file whose abs_last_rtc delta_time was made from
    preTriggerTime, preTriggerEdge, keepEvent,
    written_frameno,
    tmp,              \* the event popped last
    written,          \* the output, each event with its frame number and times
    lost,             \* history: events whose write or push failed
    interrupted       \* history: a write failed while the buffer was drained

times == <<unknown_time_fix, unknown_last_hrt, unknown_last_rtc, rtc_file,
           delta_file>>
cropping == <<preTriggerTime, preTriggerEdge, keepEvent>>
output == <<written_frameno, written>>
history == <<lost, interrupted>>
vars == <<pc, crop, file, read, event_buffer, times, cropping, tmp, output,
          history>>

Event == [n : 1 .. MaxEvents, type : Type, pre : PreTrigger,
          file : 1 .. MaxFiles]
NoEvent == [n |-> 0]

Init ==
    /\ pc = "idle" /\ crop \in BOOLEAN
    /\ file = 1 /\ read = <<>>
    /\ event_buffer = New_queue
    /\ unknown_time_fix = {"HRT", "ABS"}
    /\ unknown_last_hrt = TRUE /\ unknown_last_rtc = TRUE
    /\ rtc_file = 0 /\ delta_file = 0
    /\ preTriggerTime = -1 /\ preTriggerEdge = 0 /\ keepEvent = FALSE
    /\ written_frameno = 0
    /\ tmp = NoEvent /\ written = <<>>
    /\ lost = {} /\ interrupted = FALSE

----------------------------------------------------------------------------
(* convert_event: one event of the reader, of a type the buffer knows.      *)

\* The next event the file or whoever feeds the converter has.
Reads(e) ==
    /\ pc = "idle" /\ Len(read) < MaxEvents
    /\ e.n = Len(read) + 1 /\ e.file = file
    /\ e.type = "TRIGGER" \/ e.pre = 0
    /\ read' = Append(read, e)

Unknown == unknown_last_rtc \/ unknown_last_hrt \/ unknown_time_fix # {}

\* Which of the two the event shows of when its file began.
Time_fix(e) ==
    IF e.type = "RTC" THEN unknown_time_fix \ {"ABS"}
    ELSE unknown_time_fix \ {"HRT"}

First_trigger(e) == unknown_last_hrt /\ e.type = "TRIGGER"

\* preTriggerEdge is a local variable of the call: it is set only if this event
\* is the trigger.
Pre_trigger(e) ==
    IF First_trigger(e) /\ preTriggerTime < 0 /\ e.pre > 0
    THEN /\ preTriggerTime' = e.pre
         /\ preTriggerEdge' = IF e.n < e.pre THEN 0 ELSE e.n - e.pre
    ELSE preTriggerEdge' = 0 /\ UNCHANGED preTriggerTime

\* The times are only taken to be complete with a trigger.
Bug_completes_with_a_trigger(e) == e.type = "TRIGGER" /\ ~Unknown'

Completes_times(e) == ~Unknown'

\* With the last unknown the offset of the file's times is computed and the
\* buffer is drained, this event included.
Buffer_event(e) ==
    /\ Reads(e)
    /\ Unknown /\ ~event_buffer.read_only
    /\ event_buffer' = push(event_buffer, e)
    /\ unknown_time_fix' = Time_fix(e)
    /\ unknown_last_hrt' = (unknown_last_hrt /\ e.type # "TRIGGER")
    /\ unknown_last_rtc' = (unknown_last_rtc /\ e.type # "RTC")
    /\ rtc_file' = IF unknown_last_rtc /\ e.type = "RTC" THEN file ELSE rtc_file
    /\ Pre_trigger(e)
    /\ IF Completes_times(e) THEN pc' = "drain" /\ delta_file' = rtc_file'
       ELSE UNCHANGED <<pc, delta_file>>
    /\ UNCHANGED <<crop, file, keepEvent, tmp, output, history>>

\* The buffer, not yet empty, takes no event: kvlcERR_INTERNAL_ERROR.
Buffer_refuses(e) ==
    /\ Reads(e)
    /\ Unknown /\ event_buffer.read_only
    /\ lost' = lost \cup {e}
    /\ UNCHANGED <<pc, crop, file, event_buffer, times, cropping, tmp, output,
                   interrupted>>

\* A number that only messages the file gets should take.
Frame(e) == written_frameno + IF e.type = "MESSAGE" THEN 1 ELSE 0

Fails(events) ==
    /\ Cardinality(lost) < MaxFailures
    /\ lost' = lost \cup events

write_event(e) ==
    written' = Append(written, [event |-> e, frame_counter |-> Frame(e),
                                delta_file |-> delta_file])

\* All times are known; the write may fail.
Write_through(e) ==
    /\ Reads(e)
    /\ ~Unknown
    /\ written_frameno' = Frame(e)
    /\ \/ write_event(e) /\ UNCHANGED lost
       \/ Fails({e}) /\ UNCHANGED written
    /\ UNCHANGED <<pc, crop, file, event_buffer, times, cropping, tmp,
                   interrupted>>

----------------------------------------------------------------------------
(* The loop that drains the buffer, until it is empty or a write fails.     *)

\* The event the window begins with is left out.
Bug_after_the_edge(e) == e.n > preTriggerEdge

In_window(e) == e.n >= preTriggerEdge

\* RTC and VERSION events go with the events before them.
Keeps(e) ==
    \/ keepEvent
    \/ ~(crop /\ preTriggerTime > 0)
    \/ e.type \notin {"RTC", "VERSION"} /\ In_window(e)

Pop(e) ==
    /\ event_buffer.n_pushed_element # 0
    /\ e = Popped(event_buffer)
    /\ tmp' = e /\ event_buffer' = pop(event_buffer)

\* What was left out counts.
Bug_numbers_what_it_crops(e) ==
    /\ pc = "drain"
    /\ Pop(e)
    /\ ~Keeps(e)
    /\ written_frameno' = Frame(e)
    /\ UNCHANGED <<pc, crop, file, read, times, cropping, written, history>>

Crop_event(e) ==
    /\ pc = "drain"
    /\ Pop(e)
    /\ ~Keeps(e)
    /\ UNCHANGED <<pc, crop, file, read, times, cropping, output, history>>

Write_buffered(e) ==
    /\ pc = "drain"
    /\ Pop(e)
    /\ Keeps(e) /\ keepEvent' = TRUE
    /\ written_frameno' = Frame(e)
    /\ \/ /\ write_event(e)
          /\ UNCHANGED <<pc, history>>
       \/ /\ Fails({e}) /\ interrupted' = TRUE
          /\ pc' = "idle"
          /\ UNCHANGED written
    /\ UNCHANGED <<crop, file, read, times, preTriggerTime, preTriggerEdge>>

Drained ==
    /\ pc = "drain" /\ event_buffer.n_pushed_element = 0
    /\ pc' = "idle"
    /\ UNCHANGED <<crop, file, read, event_buffer, times, cropping, tmp, output,
                   history>>

----------------------------------------------------------------------------

\* The time of day of the last file is kept.
Bug_keeps_the_rtc ==
    /\ unknown_time_fix' = {"HRT", "ABS"}
    /\ unknown_last_hrt' = TRUE
    /\ UNCHANGED <<unknown_last_rtc, rtc_file, delta_file>>

Forget_times ==
    /\ unknown_time_fix' = {"HRT", "ABS"}
    /\ unknown_last_hrt' = TRUE /\ unknown_last_rtc' = TRUE
    /\ UNCHANGED <<rtc_file, delta_file>>

\* next_file and next_input_file: what a file whose times did not become known
\* left in the buffer stays there.
next_file ==
    /\ pc = "idle" /\ file < MaxFiles
    /\ file' = file + 1
    /\ preTriggerTime' = -1 /\ keepEvent' = FALSE
    /\ Forget_times
    /\ UNCHANGED <<pc, crop, read, event_buffer, preTriggerEdge, tmp, output,
                   history>>

\* kvlcDeleteConverter writes what is left, cropped or not, until a write fails,
\* which it does not tell.
kvlcDeleteConverter ==
    /\ pc = "idle" /\ pc' = "flush"
    /\ UNCHANGED <<crop, file, read, event_buffer, times, cropping, tmp, output,
                   history>>

flush_event(e) ==
    /\ pc = "flush"
    /\ Pop(e)
    /\ written_frameno' = Frame(e)
    /\ \/ write_event(e) /\ UNCHANGED <<pc, lost>>
       \/ /\ Fails(Range(Contents(event_buffer)))
          /\ pc' = "deleted"
          /\ UNCHANGED written
    /\ UNCHANGED <<crop, file, read, times, cropping, interrupted>>

Delete ==
    /\ pc = "flush" /\ event_buffer.n_pushed_element = 0
    /\ pc' = "deleted"
    /\ UNCHANGED <<crop, file, read, event_buffer, times, cropping, tmp, output,
                   history>>

convert_event(e) == Buffer_event(e) \/ Buffer_refuses(e) \/ Write_through(e)

Next ==
    \/ \E e \in Event :
          \/ convert_event(e)
          \/ Crop_event(e) \/ Write_buffered(e)
          \/ flush_event(e)
    \/ Drained
    \/ next_file
    \/ kvlcDeleteConverter \/ Delete

Spec == Init /\ [][Next]_vars

----------------------------------------------------------------------------
(* What must hold.                                                          *)

\* Every variable has its type, and no block holds more than storage_size bytes.
TypeOK ==
    /\ pc \in {"idle", "drain", "flush", "deleted"} /\ crop \in BOOLEAN
    /\ file \in 1 .. MaxFiles /\ read \in Seq(Event)
    /\ event_buffer.storage \in Seq(Event) /\ event_buffer.file \in Seq(Seq(Event))
    /\ event_buffer.push_index \in 0 .. storage_size
    /\ event_buffer.pop_index \in 0 .. Len(event_buffer.storage)
    /\ event_buffer.read_only \in BOOLEAN
    /\ event_buffer.n_pushed_element = Len(Contents(event_buffer))
    /\ unknown_time_fix \subseteq {"HRT", "ABS"}
    /\ unknown_last_hrt \in BOOLEAN /\ unknown_last_rtc \in BOOLEAN
    /\ rtc_file \in 0 .. file /\ delta_file \in 0 .. rtc_file
    /\ preTriggerTime \in PreTrigger \cup {-1}
    /\ preTriggerEdge \in 0 .. MaxEvents
    /\ keepEvent \in BOOLEAN /\ interrupted \in BOOLEAN
    /\ written_frameno \in 0 .. Len(read)
    /\ tmp \in Event \cup {NoEvent}
    /\ lost \subseteq Range(read)

Fifo == INSTANCE ProtectedFifo
    WITH Element <- Event, NoElement <- NoEvent, popped <- tmp,
         queue <- Contents(event_buffer),
         write_protected <- event_buffer.read_only

\* Across memory and file, over files and failed writes, the converter uses its
\* buffer as the write protected FIFO it is: nothing comes back from the
\* temporary file twice, late or not at all.
FifoSpec == Fifo!Spec

\* The output has the events in the order they were read, those that had to wait
\* for their times and those that had not, unless a write failed while the buffer
\* was drained: later events are then written ahead of what is left in it.
InOrder ==
    ~interrupted =>
        \A i, j \in DOMAIN written :
            i < j => written[i].event.n < written[j].event.n

Of(f, type) == {i \in DOMAIN read : read[i].file = f /\ read[i].type = type}

Times_known(f) == Of(f, "RTC") # {} /\ Of(f, "TRIGGER") # {}

\* Where the output of the file may begin: at the pre-trigger of its first
\* trigger if that is to be cropped.
Begins(f) ==
    LET first == Min(Of(f, "TRIGGER"))
    IN  IF crop /\ read[first].pre > 0 THEN first - read[first].pre ELSE 0

Waiting == IF pc = "deleted" THEN {} ELSE Range(Contents(event_buffer))
Output == {written[i].event : i \in DOMAIN written}

\* A message or trigger of a file whose times became known, and which is not
\* before its pre-trigger, is in the output or still waits for it, and is not
\* waiting any more when the converter has been deleted; only those of calls that
\* failed may be missing.
WindowIsKept ==
    \A i \in DOMAIN read :
        LET e == read[i]
        IN  /\ Times_known(e.file) /\ i >= Begins(e.file)
            /\ e.type \in {"MESSAGE", "TRIGGER"}
            => e \in Output \cup Waiting \cup lost

\* The events of a file whose times became known get those times, not those of
\* an earlier file.
TimedByOwnFile ==
    \A i \in DOMAIN written :
        Times_known(written[i].event.file) =>
            written[i].delta_file = written[i].event.file

\* The messages of the output are numbered from one without a gap, whatever was
\* cropped, unless a write failed.
Numbered ==
    LET messages == {i \in DOMAIN written : written[i].event.type = "MESSAGE"}
    IN  lost = {} =>
            \A i \in messages :
                written[i].frame_counter = Cardinality({j \in messages : j <= i})
============================================================================
