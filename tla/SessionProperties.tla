------------------------- MODULE SessionProperties --------------------------
(* The correctness properties of Session. *)
EXTENDS Session

FeedTypeOK ==
    /\ data \in [Sources -> Seq(Segment)] /\ current \in SUBSET Sources
    /\ highest \in Int /\ counts \in Seq(Nat)
    /\ triggers \in Seq([segment : Nat, frame : Nat])

ControlTypeOK ==
    /\ frameBegan \in BOOLEAN /\ oom \in BOOLEAN /\ saved \in BOOLEAN
    /\ state \in {"Stopped", "AwaitingTrigger", "Running"}
    /\ spc \in {"none", "begin", "starting", "announce", "run", "feeding",
                "returned", "flag", "failed", "done"}
    /\ gpc \in {"idle", "stop", "join", "start", "device", "close"}
    /\ goal \in {"idle", "start", "device", "close"}
    /\ device \in Devices \union {"none"}
    /\ framed \in BOOLEAN /\ frames \in Nat /\ inFrame \in BOOLEAN
    /\ stopping \in BOOLEAN /\ captures \in Nat
    /\ dirty \in BOOLEAN /\ failed \in BOOLEAN /\ unheard \in BOOLEAN

\* The states the variables of session.hpp and the two threads may be in.
SessionTypeOK == FeedTypeOK /\ ControlTypeOK

\* What all consumers of the data rely on: however packets, frames, triggers and
\* memory errors interleave with stopping and restarting, segments grow at the end,
\* at most the last one is incomplete, and clearing empties all sources.
Source == INSTANCE SampleSource
SourceSpec == Source!Spec

\* Segment ids of the session and its sources agree (session.cpp:1445): within an
\* acquisition there is one sample count per segment, which is the count of the
\* source that has most samples there (or, once memory ran out, not more than that).
CountsFollowSegments ==
    spc \notin {"none", "begin"} =>
        /\ Len(counts) = highest + 1
        /\ \A s \in Sources : Len(data[s]) <= Len(counts)
        /\ \A i \in 1 .. Len(counts) :
              /\ \E s \in Sources : i <= Len(data[s]) /\ counts[i] <= data[s][i].count
              /\ ~oom => \A s \in Sources :
                            i <= Len(data[s]) => data[s][i].count <= counts[i]

\* A trigger is filed under the segment that holds the data of the frame in which
\* the device triggered (session.cpp:1579-1584), even if they arrive later.
TriggersMatchFrames ==
    \A i \in 1 .. Len(triggers) : triggers[i].segment = triggers[i].frame

\* start_capture, set_device and the destructor run without the sampling thread:
\* they touch the data it appends to.
ClearsAlone == gpc \in {"start", "device", "close"} => spc = "none"

\* A capture that ends without an error leaves complete segments only, and as soon
\* as it is over the session knows that hardware data have not been saved.
RegularEnd ==
    spc \in {"none", "done"} /\ ~failed =>
        /\ \A s \in Sources : \A i \in 1 .. Len(data[s]) : data[s][i].complete
        /\ dirty => ~saved
=============================================================================
