---------------------------- MODULE CaptureTools ----------------------------
(***************************************************************************)
(* The tools start_capture and get_capture of the MCP server               *)
(* (pv/mcp/tools.cpp), beside everything that goes on in a Session.  They  *)
(* run on the GUI thread.  start_capture waits in a loop that processes    *)
(* events, so that the user may stop, restart or change the device under   *)
(* it; then it looks at state, segment and count one after the other,      *)
(* while the sampling thread changes them.                                 *)
(***************************************************************************)
EXTENDS SessionProperties

CONSTANT MaxCalls       \* bound: calls of tools

ASSUME CallsAssumption == MaxCalls \in Nat

VARIABLES
    tool,           \* where the tool is; "none"
    own,            \* the acquisition it has started, as a value of captures; 0
    toolError,      \* capture_error is not empty
    observed,       \* observed_running
    readState,      \* the state it has read
    segment,        \* the segment it has read, or was asked for
    answer,         \* what it answers: kind, segment, count
    calls,
    unsettled       \* history: it found the state Stopped of a capture that was about to run

waitVars   == <<own, toolError, observed, readState, unsettled>>
toolVars   == <<tool, waitVars, segment, answer, calls>>
captureVars == <<sessionVars, toolVars>>

Nothing == [kind |-> "none", segment |-> 0, count |-> 0]

-----------------------------------------------------------------------------
(* The session beside the tool *)

\* error_handler of the acquisition the tool has started: the device does not start, it
\* fails, or memory ran out, which is reported last.
ReportsError ==
    /\ captures = own
    /\ (failed' /\ ~failed) \/ (spc = "flag" /\ oom)

SamplingBeside ==
    /\ Sampling
    /\ toolError' = (toolError \/ ReportsError)
    /\ UNCHANGED <<tool, own, observed, readState, unsettled, segment, answer, calls>>

\* The GUI thread is inside the tool, unless that processes events.  A session that a tool
\* waits for is not destroyed.
UserBeside ==
    /\ tool \in {"none", "events"}
    /\ \/ \E next \in {"idle", "start", "device"} : StopCapture(next)
       \/ StopCapture("close") /\ tool = "none"
       \/ GuiStep
    /\ UNCHANGED toolVars

-----------------------------------------------------------------------------
(* start_capture *)

Call ==
    /\ tool = "none" /\ calls < MaxCalls
    /\ calls' = calls + 1
    /\ device # "none" /\ StopCapture("start")
    /\ tool' = "start"
    /\ UNCHANGED <<waitVars, segment, answer>>

\* Session::start_capture(); the tool may have been asked not to wait.
StartTool ==
    /\ tool = "start"
    /\ \/ CheckState /\ UNCHANGED <<tool, own, toolError>>
       \/ Join /\ UNCHANGED <<tool, own, toolError>>
       \/ /\ StartCapture
          /\ IF captures' > captures THEN own' = captures' /\ UNCHANGED toolError
                                     ELSE toolError' = TRUE /\ UNCHANGED own
          /\ tool' \in {"again", "leave"}
    /\ UNCHANGED <<observed, readState, unsettled, segment, answer, calls>>

\* timer.elapsed() < timeout_ms
Again ==
    /\ tool = "again"
    /\ tool' = "events"
    /\ UNCHANGED <<sessionVars, waitVars, segment, answer, calls>>

TimeOut ==
    /\ tool = "again"
    /\ tool' = "final"
    /\ UNCHANGED <<sessionVars, waitVars, segment, answer, calls>>

EventsProcessed ==
    /\ tool = "events" /\ gpc = "idle"
    /\ tool' = "error"
    /\ UNCHANGED <<sessionVars, waitVars, segment, answer, calls>>

TestError ==
    /\ tool = "error"
    /\ IF toolError THEN tool' = "leave" /\ answer' = [Nothing EXCEPT !.kind = "error"]
                    ELSE tool' = "state" /\ UNCHANGED answer
    /\ UNCHANGED <<sessionVars, waitVars, segment, calls>>

ReadState ==
    /\ tool = "state"
    /\ readState' = state /\ observed' = (observed \/ state # "Stopped")
    /\ tool' = "segment"
    /\ UNCHANGED <<sessionVars, own, toolError, unsettled, segment, answer, calls>>

\* get_highest_segment_id().  State and segment are forgotten where they are not used again.
ReadSegment ==
    /\ tool = "segment"
    /\ segment' = IF readState = "Stopped" /\ ~observed THEN highest ELSE 0
    /\ readState' = "Stopped"
    /\ tool' = IF readState # "Stopped" THEN "again" ELSE IF observed THEN "final" ELSE "count"
    /\ UNCHANGED <<sessionVars, own, toolError, observed, unsettled, answer, calls>>

\* get_segment_sample_count()
CountOf(id) == IF id \in 0 .. Len(counts) - 1 THEN counts[id + 1] ELSE 0

ReadCount ==
    /\ tool = "count"
    /\ tool' = IF CountOf(segment) > 0 THEN "final" ELSE "again"
    /\ segment' = 0
    /\ UNCHANGED <<sessionVars, waitVars, answer, calls>>

\* Mutant: a capture that has samples is taken for finished.
FinishedWithSamples == TRUE

\* The test after the loop
Finished == state = "Stopped"

Unfinished == [Nothing EXCEPT !.kind = "unfinished"]

TestState ==
    /\ tool = "final"
    /\ IF Finished THEN tool' = "finalSegment" /\ UNCHANGED answer
                   ELSE tool' = "leave" /\ answer' = Unfinished
    /\ unsettled' = Unannounced
    /\ UNCHANGED <<sessionVars, own, toolError, observed, readState, segment, calls>>

ReadFinalSegment ==
    /\ tool = "finalSegment"
    /\ segment' = highest
    /\ tool' = "finalCount"
    /\ UNCHANGED <<sessionVars, waitVars, answer, calls>>

TestCount ==
    /\ tool = "finalCount"
    /\ IF CountOf(segment) > 0 THEN tool' = "report" /\ UNCHANGED answer
                               ELSE tool' = "leave" /\ answer' = Unfinished
    /\ UNCHANGED <<sessionVars, waitVars, segment, calls>>

\* get_highest_segment_id() twice, and the count.
ReportSegment ==
    /\ tool = "report"
    /\ answer' = [Nothing EXCEPT !.segment = highest]
    /\ tool' = "reportSegment"
    /\ UNCHANGED <<sessionVars, waitVars, segment, calls>>

ReadReported ==
    /\ tool = "reportSegment"
    /\ segment' = highest
    /\ tool' = "reportCount"
    /\ UNCHANGED <<sessionVars, waitVars, answer, calls>>

ReportCount ==
    /\ tool = "reportCount"
    /\ answer' = [answer EXCEPT !.kind = "stopped", !.count = CountOf(segment)]
    /\ tool' = "leave"
    /\ UNCHANGED <<sessionVars, waitVars, segment, calls>>

Leave ==
    /\ tool = "leave"
    /\ tool' = "none" /\ own' = 0 /\ toolError' = FALSE /\ observed' = FALSE
    /\ readState' = "Stopped" /\ unsettled' = FALSE /\ segment' = 0 /\ answer' = Nothing
    /\ UNCHANGED <<sessionVars, calls>>

-----------------------------------------------------------------------------
(* get_capture *)

\* The current segment of the view, or one that is asked for: "Unknown segment ID" if it
\* is above the highest, and nothing is if that is -1.
Ask(id) ==
    /\ tool = "none" /\ gpc = "idle" /\ calls < MaxCalls
    /\ calls' = calls + 1
    /\ highest = -1 \/ id <= highest
    /\ segment' = id
    /\ tool' = "range"
    /\ UNCHANGED <<sessionVars, waitVars, answer>>

\* Mutant: a range is not limited.
RangeOfAll(id) == MaxSamples

\* The range may be as long as get_segment_sample_count().
RangeOf(id) == CountOf(id)

TakeRange ==
    /\ tool = "range"
    /\ answer' = [kind |-> "range", segment |-> segment, count |-> RangeOf(segment)]
    /\ tool' = "read"
    /\ UNCHANGED <<sessionVars, waitVars, segment, calls>>

\* Channels whose logic data have no such segment are left out.
ReadRange ==
    /\ tool = "read"
    /\ tool' = "leave"
    /\ UNCHANGED <<sessionVars, waitVars, segment, answer, calls>>

-----------------------------------------------------------------------------
CaptureInit ==
    /\ Init
    /\ tool = "none" /\ own = 0 /\ toolError = FALSE /\ observed = FALSE /\ readState = "Stopped" /\ unsettled = FALSE
    /\ segment = 0 /\ answer = Nothing /\ calls = 0

ToolStep ==
    \/ StartTool \/ TestError \/ ReadState \/ ReadSegment \/ ReadCount
    \/ TestState \/ ReadFinalSegment \/ TestCount \/ ReportSegment \/ ReadReported \/ ReportCount
    \/ Leave \/ TakeRange \/ ReadRange

CaptureNext ==
    \/ SamplingBeside \/ UserBeside
    \/ Call \/ EventsProcessed \/ Again \/ TimeOut \/ ToolStep \/ \E id \in 0 .. MaxFrames : Ask(id)

CaptureSpec == CaptureInit /\ [][CaptureNext]_captureVars

-----------------------------------------------------------------------------
\* When start_capture answers that the capture it started has stopped, it has: segment and
\* count are the last ones of that acquisition, all of it is complete unless an error came
\* after the last test for errors, and none is running.  It may be wrong only where it gave
\* up before the sampling thread had announced itself (unsettled), or where the user has
\* restarted or changed the device meanwhile.
ReportsFinished ==
    tool = "leave" /\ answer.kind = "stopped" /\ captures = own /\ ~unsettled =>
        /\ spc \in {"flag", "failed", "done", "none"}
        /\ answer.segment = highest /\ answer.count = counts[highest + 1]
        /\ ~toolError => \A s \in Sources : \A i \in DOMAIN data[s] : data[s][i].complete

\* get_capture reads no further than the logic segment goes (the assertion at
\* logicsegment.cpp:399), however it grows or is cleared between the steps.  The range is
\* limited by the longest source, so that must be the logic data.
RangeHeld ==
    tool = "read" /\ LogicData \in Sources /\ segment < Len(data[LogicData]) =>
        LET held == data[LogicData][segment + 1].count IN
        (\A s \in Sources : segment < Len(data[s]) => data[s][segment + 1].count <= held)
            => answer.count <= held
=============================================================================
