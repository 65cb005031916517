------------------------ MODULE ConversionProperties ------------------------
(***************************************************************************)
(* What the users of a converted signal (decoders, logic traces) rely on.  *)
(***************************************************************************)
EXTENDS Conversion

\* The signal is going to be restarted: the acquisition has begun, and its state Running
\* has not yet reached the GUI thread, or not the conversion thread.
RestartDue ==
    \/ sampler \in {"starting", "awaiting"}
    \/ \E i \in DOMAIN events : events[i] = "running"
    \/ gpc # "idle"

\* Logic segment i is made from analog segment i of this acquisition, and from nothing
\* that was not received, however the thread was overtaken by clears and restarts.  If it
\* is complete it holds all samples of a complete analog one, unless that grew between
\* two looks at it.
ConvertsItsOwn ==
    ~RestartDue =>
        /\ Len(logic) <= Len(analog)
        /\ \A i \in DOMAIN logic :
            /\ logic[i].acq = acq /\ logic[i].index = i /\ logic[i].count <= analog[i].count
            /\ logic[i].complete /\ ~raced =>
                  analog[i].complete /\ logic[i].count = analog[i].count

\* Nothing is left to happen but the next acquisition or the user's next edit.
Quiescent ==
    /\ sampler = "off" /\ events = <<>> /\ gpc = "idle" /\ ~timer /\ conv
    /\ tpc \in {"wait", "wait0", "done"}

\* When everything has come to rest, all complete segments are converted to their ends
\* and an incomplete one up to the last block, unless a notification fell between a test
\* and the wait, or a segment grew between two looks at it.
ConvertsAll ==
    Quiescent /\ ~missed /\ ~raced =>
        /\ Len(logic) = Len(analog)
        /\ \A i \in DOMAIN logic :
            IF analog[i].complete
            THEN logic[i].complete /\ logic[i].count = analog[i].count
            ELSE analog[i].count < logic[i].count + Block

\* Converted data are a source of samples like acquired ones, for decoders that take
\* either: in each step segments only grow at the end, one at a time, or all go.
AsSource ==
    INSTANCE SampleSource WITH
        Sources <- {"converted"},
        data <- [s \in {"converted"} |->
                    [i \in DOMAIN logic |->
                        [count |-> logic[i].count, complete |-> logic[i].complete]]]

ConvertedIsSource ==
    [][~raced /\ ~RestartDue => AsSource!Next \/ UNCHANGED logic]_conversionVars

\* stop_conversion() returns, unless its notification was lost or the thread has
\* taken the first element of an empty list.
StopConversionReturns ==
    []~deaf => (gpc = "join" ~> gpc # "join" \/ tpc = "undefined")
=============================================================================
