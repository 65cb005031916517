----------------------------- MODULE Conversion -----------------------------
(***************************************************************************)
(* The conversion of an analog signal to logic (pv/data/signalbase.cpp).   *)
(*                                                                         *)
(* The sampling thread appends to analog segments and posts events to the  *)
(* GUI thread; the GUI thread starts and stops the conversion thread and   *)
(* passes notifications on to it; the conversion thread fills a logic      *)
(* segment for each analog one.  Neither the notifications nor the tests   *)
(* before a wait hold the mutex of the condition.                          *)
(***************************************************************************)
EXTENDS Naturals, Sequences, SequencesExt, FiniteSets

CONSTANTS
    Block,          \* ConversionBlockSize
    MaxSamples,     \* bound: samples of a segment
    MaxSegments,    \* bound: segments of the first acquisition; one less in each later one
    MaxCaptures,    \* bound: acquisitions
    MaxEdits,       \* bound: changes of the conversion, of the range of the values,
                    \* and spurious wakeups
    MaxQueued       \* bound: queued signals

ASSUME ConversionAssumption ==
    /\ Block \in Nat \ {0}
    /\ {MaxSamples, MaxSegments, MaxCaptures, MaxEdits, MaxQueued} \subseteq Nat

VARIABLES
    analog,         \* the segments Analog holds, [count, complete]
    acq,            \* the acquisition they are of
    sampler,        \* "off", "starting", "awaiting" (a trigger) or "running"
    events,         \* queued signals for the GUI thread
    conv,           \* is a conversion selected?
    gpc, goal,      \* GUI thread: "idle", "join", "gone"; what stop_conversion is for
    timer,          \* is delayed_conversion_starter_ active?
    edits,
    interrupt,      \* conversion_interrupt_
    logic,          \* converted_data_: [acq, index, count, complete]
    tpc,            \* the conversion thread
    input,          \* asegment, as [acq, index]; index 0 before it is taken
    frozen,         \* asegment after Analog was cleared
    output,         \* lsegment: its position in logic, 0 when that was cleared
    orphan,         \* lsegment after converted_data_ was cleared
    cursor, end, full,  \* start_sample or i, end_sample and complete_state
    more,           \* end_sample - old_end_sample >= ConversionBlockSize
    missed,         \* history: a notification of data was lost and none has come since
    raced,          \* history: a segment grew or was completed between two looks at it
    deaf            \* history: the notification of an interrupt was lost

samplerVars == <<analog, acq, sampler>>
guiVars     == <<conv, gpc, goal, timer, edits>>
localVars   == <<input, frozen, output, orphan, cursor, end, full, more>>
historyVars == <<missed, raced, deaf>>
conversionVars ==
    <<samplerVars, events, guiVars, interrupt, logic, tpc, localVars, historyVars>>

\* The segments the thread holds, which live on when the lists are cleared.
Input == IF input.acq = acq THEN analog[input.index] ELSE frozen

Output == IF output = 0 THEN orphan ELSE logic[output]

NoInput == [acq |-> 0, index |-> 0]

EmptySegment == [count |-> 0, complete |-> FALSE]

LogicFor(i) == [acq |-> acq, index |-> i, count |-> 0, complete |-> FALSE]

NoOutput == [acq |-> 0, index |-> 0, count |-> 0, complete |-> FALSE]

\* The signal was made, and restore_settings() may have selected a conversion.
ConversionInit ==
    /\ analog = <<>> /\ acq = 0 /\ sampler = "off" /\ events = <<>>
    /\ conv \in BOOLEAN /\ gpc = "idle" /\ goal = "none" /\ timer = FALSE /\ edits = 0
    /\ interrupt = FALSE /\ logic = <<>> /\ tpc = IF conv THEN "start" ELSE "none"
    /\ input = NoInput /\ frozen = EmptySegment /\ output = 0 /\ orphan = NoOutput
    /\ cursor = 0 /\ end = 0 /\ full = FALSE /\ more = FALSE
    /\ missed = FALSE /\ raced = FALSE /\ deaf = FALSE

-----------------------------------------------------------------------------
(* The sampling thread; see Session. *)

SamplerStays == <<conv, gpc, goal, timer, interrupt, logic, tpc, localVars, missed, deaf>>

\* It announces Running, or AwaitingTrigger, before it runs the device; or start fails.
Announce ==
    /\ sampler = "starting" /\ Len(events) < MaxQueued
    /\ \/ sampler' = "running" /\ events' = Append(events, "running")
       \/ sampler' \in {"awaiting", "off"} /\ UNCHANGED events
    /\ UNCHANGED <<analog, acq, SamplerStays, edits, raced>>

Growing == analog # <<>> /\ ~Last(analog).complete

\* feed_in_analog(): push_segment() ...
NewSegment ==
    /\ sampler \in {"running", "awaiting"} /\ ~Growing /\ Len(analog) + acq <= MaxSegments
    /\ analog' = Append(analog, EmptySegment)
    /\ UNCHANGED <<acq, sampler, events, SamplerStays, edits, raced>>

\* ... and the samples, which may extend the range of the values; that matters if the
\* threshold is computed from it.  The first packet after a trigger makes the state
\* Running.
Feed(n, widens) ==
    /\ sampler \in {"running", "awaiting"} /\ Growing /\ Len(events) < MaxQueued
    /\ Last(analog).count + n <= MaxSamples
    /\ analog' = [analog EXCEPT ![Len(analog)].count = @ + n]
    /\ sampler' = "running"
    /\ widens => edits < MaxEdits
    /\ edits' = IF widens THEN edits + 1 ELSE edits
    /\ events' = events \o (IF widens THEN <<"minmax">> ELSE <<>>) \o <<"added">>
                        \o (IF sampler = "awaiting" THEN <<"running">> ELSE <<>>)
    /\ UNCHANGED <<acq, SamplerStays, raced>>

\* The thread looks at sample count and completeness in two steps, and at the
\* completeness again before it leaves the segment.
BetweenLooks == {"full", "refull", "leave"}

\* completed() is queued if the thread has connected it.
Complete ==
    /\ sampler = "running" /\ Growing /\ Last(analog).count > 0 /\ Len(events) < MaxQueued
    /\ analog' = [analog EXCEPT ![Len(analog)].complete = TRUE]
    /\ events' = IF input = [acq |-> acq, index |-> Len(analog)] /\ tpc \notin {"none", "done"}
                 THEN Append(events, "completed") ELSE events
    /\ raced' = (raced \/ (tpc \in BetweenLooks /\ input = [acq |-> acq, index |-> Len(analog)]))
    /\ UNCHANGED <<acq, sampler, SamplerStays, edits>>

\* The acquisition is over; after a device error the last segment stays incomplete.
EndCapture ==
    /\ sampler \in {"running", "awaiting"}
    /\ Growing => Last(analog).count > 0
    /\ sampler' = "off"
    /\ UNCHANGED <<analog, acq, events, SamplerStays, edits, raced>>

SamplerStep ==
    \/ Announce \/ NewSegment \/ Complete \/ EndCapture
    \/ \E n \in 1..MaxSamples, widens \in BOOLEAN : Feed(n, widens)

-----------------------------------------------------------------------------
(* The GUI thread. *)

\* converted_data_->clear(): the thread may still hold a segment of it.
ClearLogic ==
    /\ logic' = <<>>
    /\ output' = 0
    /\ orphan' = IF output = 0 THEN orphan ELSE logic[output]

\* Session::start_capture(): the data are cleared, and with them, in
\* on_samples_cleared(), the converted ones, while the conversion thread runs on.
StartCapture ==
    /\ gpc = "idle" /\ sampler = "off" /\ acq < MaxCaptures
    /\ acq' = acq + 1 /\ sampler' = "starting"
    /\ analog' = <<>>
    /\ frozen' = IF input.index > 0 THEN Input ELSE frozen
    /\ ClearLogic
    /\ UNCHANGED <<events, guiVars, interrupt, tpc, input, cursor, end, full, more, historyVars>>

\* Where the thread has looked at the data for the last time before it waits.
Deciding == {"block0", "full", "refull", "leave", "block"}

\* conversion_input_cond_.notify_one(), for data.
NotifyData ==
    /\ tpc' = CASE tpc = "wait" -> "loop" [] tpc = "wait0" -> "woken" [] OTHER -> tpc
    /\ missed' = (tpc \in Deciding \/ (missed /\ tpc' = tpc))

\* Mutant: the thread is not notified.
StopForSilently(what) ==
    /\ gpc' = "join" /\ goal' = what
    /\ interrupt' = TRUE
    /\ UNCHANGED <<tpc, deaf>>

\* stop_conversion(), for what follows it.  The notification ends a wait; or it comes
\* before the wait, after the interrupt flag was tested (if it is).
StopFor(what) ==
    /\ gpc' = "join" /\ goal' = what
    /\ interrupt' = TRUE
    /\ tpc' = CASE tpc = "wait" -> "loop" [] tpc = "wait0" -> "woken" [] OTHER -> tpc
    /\ deaf' = (deaf \/ tpc \in {"block", "block0"} \/ (tpc = "start" /\ analog = <<>>))

Joinable == tpc \notin {"none", "done"}

StartsThread ==
    /\ interrupt' = FALSE
    /\ tpc' = IF conv' THEN "start" ELSE "done"
    /\ missed' = FALSE /\ raced' = FALSE

\* join() returns, and the caller of stop_conversion goes on: start_conversion()
\* clears what was converted; set_conversion_type() replaces converted_data_ first.
Stopped ==
    /\ gpc = "join" /\ ~Joinable
    /\ goal' = "none" /\ gpc' = IF goal = "destroy" THEN "gone" ELSE "idle"
    /\ conv' = IF goal = "retype" THEN ~conv ELSE conv
    /\ IF goal = "destroy"
       THEN tpc' = "none" /\ UNCHANGED <<interrupt, logic, missed, raced>>
       ELSE StartsThread /\ logic' = <<>>
    /\ input' = NoInput /\ frozen' = EmptySegment /\ output' = 0 /\ orphan' = NoOutput
    /\ UNCHANGED <<samplerVars, events, timer, edits, cursor, end, full, more, deaf>>

\* Mutant: completion is not passed on.
PassedOn(e) == e = "added"

\* Events that only matter to a thread that runs.
NotifiesThread(e) == e \in {"added", "completed"}

\* on_samples_added(), on_input_segment_completed(), on_min_max_changed() and
\* on_capture_state_changed().
Deliver ==
    /\ gpc = "idle" /\ events # <<>>
    /\ events' = Tail(events)
    /\ LET e == Head(events) IN
        IF ~conv \/ (e = "completed" /\ tpc = "none")
        THEN UNCHANGED <<gpc, goal, timer, interrupt, tpc, missed, deaf>>
        ELSE IF NotifiesThread(e) /\ tpc # "none"
        THEN NotifyData /\ UNCHANGED <<gpc, goal, timer, interrupt, deaf>>
        ELSE IF e = "minmax"
        THEN timer' = TRUE /\ UNCHANGED <<gpc, goal, interrupt, tpc, missed, deaf>>
        ELSE IF e = "added" /\ timer
        THEN UNCHANGED <<gpc, goal, timer, interrupt, tpc, missed, deaf>>
        ELSE IF e = "completed"
        THEN UNCHANGED <<gpc, goal, timer, interrupt, tpc, missed, deaf>>
        ELSE StopFor("restart") /\ UNCHANGED <<timer, missed>>
    /\ UNCHANGED <<samplerVars, conv, edits, logic, localVars, raced>>

\* set_conversion_type(), start_conversion() with a new threshold or preset, with or
\* without delay, and the end of the signal.
Edit(what) ==
    /\ gpc = "idle" /\ edits < MaxEdits
    /\ what = "restart" => conv
    /\ edits' = edits + 1
    /\ StopFor(what)
    /\ UNCHANGED <<samplerVars, events, conv, timer, logic, localVars, missed, raced>>

TimerFires ==
    /\ gpc = "idle" /\ timer
    /\ timer' = FALSE
    /\ StopFor("restart")
    /\ UNCHANGED <<samplerVars, events, conv, edits, logic, localVars, missed, raced>>

EditStep == \E what \in {"retype", "restart", "destroy"} : Edit(what)

-----------------------------------------------------------------------------
(* The conversion thread. *)

ThreadStays == <<samplerVars, events, guiVars, interrupt, raced, deaf>>

\* conversion_thread_proc(): without segments it waits, whether it is to end or not.
Begin ==
    /\ tpc = "start"
    /\ tpc' = IF analog = <<>> THEN "block0" ELSE "woken"
    /\ UNCHANGED <<ThreadStays, logic, localVars, missed>>

Waits ==
    /\ \/ tpc = "block0" /\ tpc' = "wait0"
       \/ tpc = "block" /\ tpc' = "wait"
    /\ UNCHANGED <<ThreadStays, logic, localVars, missed>>

\* The standard lets a wait return by itself.
WakesUp ==
    /\ tpc \in {"wait", "wait0"} /\ edits < MaxEdits
    /\ edits' = edits + 1
    /\ tpc' = IF tpc = "wait" THEN "loop" ELSE "woken"
    /\ missed' = FALSE
    /\ UNCHANGED <<samplerVars, events, conv, gpc, goal, timer, interrupt, logic, localVars, raced, deaf>>

\* analog_segments().front(), of a list that may be empty by now; the initial logic
\* segment is pushed.
TakeFirst ==
    /\ tpc = "woken"
    /\ IF interrupt THEN tpc' = "done" /\ UNCHANGED <<logic, input>>
       ELSE IF analog = <<>> THEN tpc' = "undefined" /\ UNCHANGED <<logic, input>>
       ELSE /\ tpc' = "front"
            /\ input' = [acq |-> acq, index |-> 1]
            /\ logic' = IF logic = <<>>
                        THEN <<LogicFor(1)>> ELSE logic
    /\ UNCHANGED <<ThreadStays, frozen, output, orphan, cursor, end, full, more, missed>>

\* logic_segments().front() or back() ...
NewOutput == IF tpc = "front" THEN 1 ELSE Len(logic)

\* ... of a list that may have been cleared.
TakeOutput ==
    /\ tpc \in {"front", "back"}
    /\ IF logic = <<>> THEN tpc' = "undefined" /\ UNCHANGED output
       ELSE tpc' = (IF tpc = "front" THEN "count" ELSE "loop") /\ output' = NewOutput
    /\ UNCHANGED <<ThreadStays, logic, input, frozen, orphan, cursor, end, full, more, missed>>

\* The outer loop ends with an interrupt.
EndThread ==
    /\ tpc = "loop" /\ interrupt
    /\ tpc' = "done"
    /\ UNCHANGED <<ThreadStays, logic, localVars, missed>>

\* convert_single_segment(): both counts are read ...
CountSamples ==
    /\ tpc \in {"count", "recount"} \/ (tpc = "loop" /\ ~interrupt)
    /\ cursor' = Output.count /\ end' = Input.count
    /\ more' = (tpc = "recount" /\ Input.count - end >= Block)
    /\ tpc' = IF tpc = "recount" THEN "refull" ELSE "full"
    /\ UNCHANGED <<ThreadStays, logic, input, frozen, output, orphan, full, missed>>

\* Its local variables end with the call.
Returns ==
    /\ tpc' = "leave"
    /\ cursor' = 0 /\ end' = 0 /\ full' = FALSE /\ more' = FALSE

\* ... then whether the segment is complete.
TestComplete ==
    /\ tpc = "full"
    /\ IF ~Input.complete /\ end - cursor < Block THEN Returns
       ELSE tpc' = "convert" /\ full' = Input.complete /\ UNCHANGED <<cursor, end, more>>
    /\ UNCHANGED <<ThreadStays, logic, input, frozen, output, orphan, missed>>

WriteOutput(new) ==
    IF output = 0 THEN orphan' = new /\ UNCHANGED logic
                  ELSE logic' = [logic EXCEPT ![output] = new] /\ UNCHANGED orphan

\* Mutant: a whole block even at the end of the range.
BlockEndWhole == cursor + Block

BlockEnd == IF end - cursor > Block THEN cursor + Block ELSE end

\* convert_single_segment_range(), block by block, the rest last.
ConvertBlock ==
    /\ tpc = "convert"
    /\ IF cursor >= end THEN tpc' = "recount" /\ UNCHANGED <<logic, orphan, cursor>>
       ELSE /\ WriteOutput([Output EXCEPT !.count = @ + (BlockEnd - cursor)])
            /\ cursor' = BlockEnd
            /\ UNCHANGED tpc
    /\ UNCHANGED <<ThreadStays, input, frozen, output, end, full, more, missed>>

\* Mutant: a completion in the meanwhile is not looked for.
GoesOnForSamples == more

\* The condition of the do-while loop.
GoesOn == more \/ Input.complete # full

\* Another round, or the end; the logic segment is complete if the analog one was.
TestAgain ==
    /\ tpc = "refull"
    /\ IF GoesOn THEN tpc' = "convert" /\ full' = Input.complete /\ UNCHANGED <<logic, orphan, cursor, end, more>>
       ELSE /\ Returns
            /\ IF Input.complete THEN WriteOutput([Output EXCEPT !.complete = TRUE])
                                 ELSE UNCHANGED <<logic, orphan>>
    /\ UNCHANGED <<ThreadStays, input, frozen, output, missed>>

\* Only advance to next segment if the current input segment is complete.
MovesOn == Input.complete /\ Len(analog) > Len(logic)

\* The next segment, if the list still has one at that place; a logic segment is
\* pushed for it.  Without one the thread is going to wait, unless it is interrupted.
NextSegment ==
    /\ tpc = "leave"
    /\ IF ~MovesOn THEN tpc' = (IF interrupt THEN "done" ELSE "block") /\ UNCHANGED <<logic, input>>
       ELSE IF input.index + 1 > Len(analog) THEN tpc' = "done" /\ UNCHANGED <<logic, input>>
       ELSE /\ tpc' = "back"
            /\ input' = [acq |-> acq, index |-> input.index + 1]
            /\ logic' = Append(logic, LogicFor(input.index + 1))
    /\ UNCHANGED <<ThreadStays, frozen, output, orphan, cursor, end, full, more, missed>>

ConversionThread ==
    \/ Begin \/ Waits \/ TakeFirst \/ TakeOutput \/ CountSamples \/ TestComplete
    \/ ConvertBlock \/ TestAgain \/ NextSegment \/ EndThread

GuiStep == Stopped \/ Deliver \/ TimerFires

ConversionNext ==
    \/ SamplerStep \/ StartCapture \/ GuiStep \/ EditStep
    \/ ConversionThread \/ WakesUp

ConversionSpec == ConversionInit /\ [][ConversionNext]_conversionVars

FairConversionSpec ==
    /\ ConversionSpec
    /\ WF_conversionVars(GuiStep) /\ WF_conversionVars(ConversionThread)
=============================================================================
