------------------------------ MODULE Session -------------------------------
(***************************************************************************)
(* One acquisition session of pv/session.cpp: the GUI thread that starts   *)
(* and stops captures and selects devices, the sampling thread that runs   *)
(* the device, and the data feed that turns the device's packets into      *)
(* segments.  The data feed callback runs inside device_->run().           *)
(*                                                                         *)
(* A source is a SignalData of all_signal_data_ with enabled channels: one *)
(* Analog per analog channel and one Logic shared by all logic channels.   *)
(* The device is external: it delivers frames in which every source has    *)
(* data ("assuming that all signals have the same number of                *)
(* frames/segments", session.cpp:1445), or data without frames, starts no  *)
(* frame once it has been told to stop, and ends with SR_DF_END.           *)
(***************************************************************************)
EXTENDS Integers, Sequences, FiniteSets

CONSTANTS
    Sources,        \* the sources with enabled channels
    LogicData,      \* logic_data_, if it is one of them
    Devices,        \* kinds of devices that may be selected
    Framings,       \* bound: may the device use frames, may it not?
    MayFail,        \* may the device report errors, or memory run out?
    MaxFrames,      \* bound: frames in one acquisition
    MaxSamples,     \* bound: samples per segment
    MaxTriggers,    \* bound: triggers in one acquisition
    MaxCaptures     \* bound: acquisitions and device changes

ASSUME SessionAssumption ==
    /\ Devices \subseteq {"hardware", "sessionfile", "inputfile"}
    /\ Framings \subseteq BOOLEAN /\ MayFail \in BOOLEAN
    /\ {MaxFrames, MaxSamples, MaxTriggers, MaxCaptures} \subseteq Nat

VARIABLES
    data,           \* the segments of each source
    current,        \* sources with a cur_logic_segment_ / cur_analog_segments_ entry
    highest,        \* highest_segment_id_
    counts,         \* segment_sample_count_
    triggers,       \* trigger_list_, with the frame the device triggered in
    frameBegan,     \* frame_began_
    oom,            \* out_of_memory_
    state,          \* capture_state_
    saved,          \* data_saved_
    spc,            \* the sampling thread: where it is in sample_thread_proc
    gpc, goal,      \* the GUI thread, and what it will do once capture has stopped
    device,         \* device_
    framed,         \* does the device use frames in this acquisition?
    frames,         \* external: frames the device has begun
    inFrame,        \* external: the device is inside a frame
    stopping,       \* external: the device has been told to stop
    captures,       \* acquisitions and device changes so far (bounded)
    dirty,          \* history: holds hardware data that were never stored
    failed,         \* history: the last run of the device ended with an error
    unheard         \* history: a request to stop this acquisition went unheard

feedVars    == <<data, current, highest, counts, triggers, frameBegan, oom>>
deviceVars  == <<framed, frames, inFrame>>
historyVars == <<dirty, failed, unheard>>
sessionVars == <<feedVars, state, saved, spc, gpc, goal, device, deviceVars, stopping,
                 captures, historyVars>>

-----------------------------------------------------------------------------
Segment == [count : Nat, complete : BOOLEAN]
NoData  == [s \in Sources |-> <<>>]
Larger(m, n) == IF m < n THEN n ELSE m

-----------------------------------------------------------------------------
(* GUI thread                                                              *)

GuiFrame == <<current, highest, frameBegan, oom, state, saved, deviceVars>>

\* stop_capture() on the way to a goal: "idle" (stop only), "start" a capture,
\* select a "device", "close" the session.  Run/Stop starts only what is stopped.
StopCapture(next) ==
    /\ gpc = "idle"
    /\ next = "start" => state = "Stopped"
    /\ next \in {"start", "device"} => captures < MaxCaptures
    /\ gpc' = "stop" /\ goal' = next
    /\ UNCHANGED <<feedVars, state, saved, spc, device, deviceVars, stopping,
                   captures, historyVars>>

\* The sampling thread exists but has not announced itself yet.
Unannounced == spc \in {"begin", "starting", "announce"}

\* Mutant: a device that waits for its trigger is not stopped.
StopsDeviceRunning == state = "Running"

\* if (get_capture_state() != Stopped) device_->stop()
StopsDevice == state # "Stopped"

CheckState ==
    /\ gpc = "stop"
    /\ gpc' = "join"
    /\ stopping' = (stopping \/ StopsDevice)
    /\ unheard' = (unheard \/ (state = "Stopped" /\ Unannounced))
    /\ UNCHANGED <<feedVars, state, saved, spc, goal, device, deviceVars, captures,
                   dirty, failed>>

\* if (sampling_thread_.joinable()) sampling_thread_.join()
Joinable == spc # "none"

Join ==
    /\ gpc = "join"
    /\ \/ Joinable /\ spc = "done" /\ spc' = "none"
       \/ ~Joinable /\ UNCHANGED spc
    /\ gpc' = goal /\ goal' = "idle"
    /\ UNCHANGED <<feedVars, state, saved, device, deviceVars, stopping,
                   captures, historyVars>>

\* The rest of start_capture(): with a device and an enabled channel, clear the
\* data, the triggers and the sample counts, and launch the sampling thread.
StartCapture ==
    /\ gpc = "start"
    /\ gpc' = "idle"
    /\ \/ /\ UNCHANGED <<data, triggers, counts, spc, captures, historyVars>>
       \/ /\ device # "none" /\ Sources # {}
          /\ data' = NoData /\ triggers' = <<>> /\ counts' = <<>>
          /\ spc' = "begin"
          /\ captures' = captures + 1
          /\ dirty' = FALSE /\ failed' = FALSE /\ unheard' = FALSE
    /\ UNCHANGED <<GuiFrame, goal, device, stopping>>

\* The rest of set_device(): the new device may fail to open.
SetDevice ==
    /\ gpc = "device"
    /\ gpc' = "idle"
    /\ data' = NoData /\ dirty' = FALSE
    /\ current' = current \ {LogicData}
    /\ device' \in Devices \union {"none"}
    /\ captures' = captures + 1
    /\ UNCHANGED <<highest, counts, triggers, frameBegan, oom, state, saved, spc, goal,
                   deviceVars, stopping, failed, unheard>>

GuiStep == CheckState \/ Join \/ StartCapture \/ SetDevice

-----------------------------------------------------------------------------
(* Sampling thread                                                         *)

ThreadFrame == <<gpc, goal, device, captures>>

\* sample_thread_proc clears what update_signals or the GUI may have left.
Prepare ==
    /\ spc = "begin"
    /\ spc' = "starting"
    /\ data' = NoData /\ current' = {} /\ highest' = -1
    /\ frameBegan' = FALSE /\ oom' = FALSE
    /\ UNCHANGED <<ThreadFrame, counts, triggers, state, saved, deviceVars, stopping, historyVars>>

\* device_->start(); that of an InputFile does nothing.
DeviceStart ==
    /\ spc = "starting"
    /\ \/ /\ spc' = "announce"
          /\ framed' \in Framings /\ frames' = 0 /\ inFrame' = FALSE
          /\ stopping' = FALSE
          /\ UNCHANGED failed
       \/ /\ MayFail /\ device # "inputfile"
          /\ spc' = "done" /\ failed' = TRUE
          /\ UNCHANGED <<deviceVars, stopping>>
    /\ UNCHANGED <<ThreadFrame, feedVars, state, saved, dirty, unheard>>

Announce ==
    /\ spc = "announce"
    /\ spc' = "run"
    /\ state' \in {"AwaitingTrigger", "Running"}
    /\ UNCHANGED <<ThreadFrame, feedVars, saved, deviceVars, stopping, historyVars>>

\* device_->run(); InputFile::run() clears its interrupt flag first.
Run ==
    /\ spc = "run"
    /\ spc' = "feeding"
    /\ stopping' = (stopping /\ device # "inputfile")
    /\ unheard' = (unheard \/ (stopping /\ device = "inputfile"))
    /\ UNCHANGED <<ThreadFrame, feedVars, state, saved, deviceVars, dirty, failed>>

\* set_capture_state(Stopped) once the device has returned.
AnnounceStop ==
    /\ spc = "returned"
    /\ spc' = "flag"
    /\ state' = "Stopped"
    /\ UNCHANGED <<ThreadFrame, feedVars, saved, deviceVars, stopping, historyVars>>

\* Mutant: data from files count as unsaved, those of hardware do not.
FromFileInverted == device = "hardware"

FromFile == device # "hardware"

\* free_unused_memory(), then the data are unsaved unless they came from a file.
Finish ==
    /\ spc = "flag"
    /\ spc' = "done"
    /\ saved' = (saved /\ FromFile)
    /\ UNCHANGED <<ThreadFrame, feedVars, state, deviceVars, stopping, historyVars>>

\* The device throws; error_handler has been called.
RunFails ==
    /\ spc = "feeding" /\ MayFail
    /\ spc' = "failed" /\ failed' = TRUE
    /\ UNCHANGED <<ThreadFrame, feedVars, state, saved, deviceVars, stopping, dirty, unheard>>

FailStop ==
    /\ spc = "failed"
    /\ spc' = "done"
    /\ state' = "Stopped"
    /\ UNCHANGED <<ThreadFrame, feedVars, saved, deviceVars, stopping, historyVars>>

-----------------------------------------------------------------------------
(* Data feed                                                               *)

FeedFrame == <<ThreadFrame, spc, saved, failed, unheard>>

FrameBegin ==
    /\ spc = "feeding" /\ framed /\ ~inFrame /\ ~stopping
    /\ frames < MaxFrames
    /\ frames' = frames + 1 /\ inFrame' = TRUE
    /\ frameBegan' = TRUE
    /\ UNCHANGED <<FeedFrame, data, current, highest, counts, triggers, oom, state,
                   framed, stopping, dirty>>

\* Mutant: the segment after the highest, with data or without.
TriggerSegmentNext == IF frameBegan THEN highest + 1 ELSE 0

\* "we use highest segment ID + 1 if no sample data came in yet and the highest
\* segment ID otherwise", and 0 when no frames are used.
TriggerSegment ==
    IF ~frameBegan THEN 0 ELSE IF current = {} THEN highest + 1 ELSE highest

\* feed_in_trigger()
Trigger ==
    /\ spc = "feeding" /\ (framed => inFrame)
    /\ Len(triggers) < MaxTriggers
    /\ triggers' = Append(triggers, [segment |-> TriggerSegment,
                                     frame |-> Larger(frames - 1, 0)])
    /\ UNCHANGED <<FeedFrame, data, current, highest, counts, frameBegan, oom, state,
                   deviceVars, stopping, dirty>>

\* The source whose segment count signal_new_segment() looks at: the logic data or
\* those of the first channel in cur_analog_segments_, a map ordered by address.
Anchors(sources) == IF LogicData \in sources THEN {LogicData} ELSE sources

\* The segments of source s after n more samples.
Extended(s, n) ==
    IF s \in current THEN [data EXCEPT ![s][Len(data[s])].count = @ + n]
                     ELSE [data EXCEPT ![s] = Append(@, [count |-> n, complete |-> FALSE])]

\* signal_new_segment() when source s has got a new segment: the highest segment id
\* and the list of sample counts, after the push into the sources.
SignalNewSegment(s, h, c) ==
    IF s \in current THEN h = highest /\ c = counts
    ELSE \E anchor \in Anchors(current \union {s}) :
            LET id == Len(data[anchor]) - (IF anchor = s THEN 0 ELSE 1) IN
            IF id > highest THEN h = id /\ c = Append(counts, 0)
                            ELSE h = highest /\ c = counts

\* Mutant: the last packet's size instead of the largest count.
CountedLast(c, h, n) == [c EXCEPT ![h + 1] = n]

\* segment_sample_count_[highest_segment_id_] = max(..., get_sample_count())
Counted(c, h, n) == [c EXCEPT ![h + 1] = Larger(@, n)]

\* feed_in_logic(), feed_in_analog() for one channel: create the segment if the
\* source has none, append the samples, count them.
Feed(s) ==
    /\ spc = "feeding" /\ (framed => inFrame)
    /\ \E n \in 1 .. MaxSamples, h \in -1 .. MaxFrames, c \in {counts, Append(counts, 0)} :
        /\ data' = Extended(s, n)
        /\ data'[s][Len(data'[s])].count <= MaxSamples
        /\ SignalNewSegment(s, h, c)
        /\ highest' = h
        /\ counts' = Counted(c, h, data'[s][Len(data'[s])].count)
    /\ state' = IF s \in current THEN state ELSE "Running"
    /\ current' = current \union {s}
    /\ dirty' = (dirty \/ device = "hardware")
    /\ UNCHANGED <<FeedFrame, triggers, frameBegan, oom, deviceVars, stopping>>

\* bad_alloc while a packet is stored: maybe nothing has happened, maybe some of
\* its samples have been stored but not counted.  The device is told to stop.
FeedOutOfMemory(s) ==
    /\ spc = "feeding" /\ (framed => inFrame) /\ MayFail /\ ~oom
    /\ \/ /\ UNCHANGED <<data, highest, counts, current, dirty>>
          /\ state' = IF s = LogicData /\ s \notin current THEN "Running" ELSE state
       \/ /\ \E n \in 0 .. MaxSamples, h \in -1 .. MaxFrames, c \in {counts, Append(counts, 0)} :
                /\ data' = Extended(s, n)
                /\ data'[s][Len(data'[s])].count <= MaxSamples
                /\ SignalNewSegment(s, h, c)
                /\ highest' = h /\ counts' = c
          /\ state' = IF s = LogicData /\ s \notin current THEN "Running" ELSE state
          /\ current' = current \union {s}
          /\ dirty' = (dirty \/ device = "hardware")
    /\ oom' = TRUE /\ stopping' = TRUE
    /\ UNCHANGED <<FeedFrame, triggers, frameBegan, deviceVars>>

\* Mutant: the logic segment stays current.
StillCurrentLogic == current \intersect {LogicData}

\* Which sources keep their segment after a frame: none.
StillCurrent == {}

\* set_complete() on every current segment; then there are none.
CompleteCurrent ==
    /\ data' = [s \in Sources |->
                  IF s \in current THEN [data[s] EXCEPT ![Len(data[s])].complete = TRUE]
                                   ELSE data[s]]
    /\ current' = StillCurrent

\* feed_in_frame_end()
FrameEnd ==
    /\ spc = "feeding" /\ inFrame
    /\ current = Sources \/ oom
    /\ inFrame' = FALSE
    /\ \/ ~frameBegan /\ UNCHANGED <<data, current, frameBegan>>
       \/ frameBegan /\ CompleteCurrent /\ frameBegan' = FALSE
    /\ UNCHANGED <<FeedFrame, highest, counts, triggers, oom, state, framed, frames,
                   stopping, dirty>>

\* SR_DF_END, after which the device returns from run().
End ==
    /\ spc = "feeding"
    /\ CompleteCurrent
    /\ spc' = "returned"
    /\ inFrame' = FALSE
    /\ UNCHANGED <<ThreadFrame, highest, counts, triggers, frameBegan, oom, state, saved,
                   framed, frames, stopping, historyVars>>

DataFeed == FrameBegin \/ Trigger \/ FrameEnd \/ \E s \in Sources : Feed(s) \/ FeedOutOfMemory(s)
ThreadStep == Prepare \/ DeviceStart \/ Announce \/ Run \/ AnnounceStop \/ Finish \/ FailStop
Sampling == ThreadStep \/ DataFeed \/ RunFails \/ End

-----------------------------------------------------------------------------
\* A session gets its device before the user gets the session.  highest_segment_id_
\* is not initialised.
Init ==
    /\ data = NoData /\ current = {} /\ counts = <<>> /\ triggers = <<>>
    /\ highest \in {-1, 0}
    /\ frameBegan = FALSE /\ oom = FALSE
    /\ state = "Stopped" /\ saved = TRUE
    /\ spc = "none" /\ gpc = "idle" /\ goal = "idle"
    /\ device \in Devices \union {"none"}
    /\ framed = FALSE /\ frames = 0 /\ inFrame = FALSE /\ stopping = FALSE
    /\ captures = 0
    /\ dirty = FALSE /\ failed = FALSE /\ unheard = FALSE

Request == \E next \in {"idle", "start", "device", "close"} : StopCapture(next)

SessionNext == Request \/ GuiStep \/ Sampling

SessionSpec == Init /\ [][SessionNext]_sessionVars
=============================================================================
