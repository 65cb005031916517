--------------------------- MODULE Session_proofs ---------------------------
(***************************************************************************)
(* Proofs about Session.  The invariant says, for every point of the       *)
(* sampling thread, how the segments of the sources, the set of current    *)
(* segments and the session's own segment id, counts and frames relate.    *)
(* A session with tools beside it is a session as well, so that all this   *)
(* holds of it; what the tools report follows from the places at which     *)
(* nothing but the sampling thread runs.  The same goes for a session that *)
(* is stored: the file follows the range that is left to write, and the    *)
(* segments held follow the session's data as long as these are of the     *)
(* same acquisition.                                                       *)
(***************************************************************************)
EXTENDS CaptureTools, StoreSessionProperties, FiniteSetTheorems, TLAPS

\* Only current segments are incomplete, and those of a living thread really exist.
Shape ==
    /\ \A s \in Sources : \A i \in 1 .. Len(data[s]) :
          ~data[s][i].complete => s \in current /\ i = Len(data[s])
    /\ spc \notin {"none", "begin"} =>
          \A s \in current : data[s] # <<>> /\ ~data[s][Len(data[s])].complete

\* Before the device runs, nothing of an earlier acquisition is left.
Fresh ==
    /\ spc # "none" => Sources # {}
    /\ spc = "begin" => counts = <<>>
    /\ spc \in {"starting", "announce", "run"} =>
          /\ data = NoData /\ current = {} /\ highest = -1 /\ counts = <<>>
          /\ frameBegan = FALSE /\ oom = FALSE
    /\ spc \in {"announce", "run"} => frames = 0 /\ inFrame = FALSE

\* While it runs, all sources are in the same segment or just behind it.
Uniform ==
    spc = "feeding" =>
        /\ frameBegan = inFrame /\ (inFrame => framed) /\ (oom => stopping)
        /\ ~framed => frames = 0
        /\ (framed => inFrame) =>
              \A s \in Sources : Len(data[s]) = IF s \in current \/ current = {}
                                                THEN highest + 1 ELSE highest
        /\ framed /\ inFrame =>
              frames - 1 = IF current = {} THEN highest + 1 ELSE highest
        /\ framed /\ ~inFrame =>
              /\ current = {}
              /\ ~oom => /\ frames - 1 = highest
                         /\ \A s \in Sources : Len(data[s]) = highest + 1

\* What is known of the data once the device has returned.
Ended ==
    /\ spc \in {"returned", "flag"} => current = {}
    /\ spc \in {"none", "done"} /\ ~failed => current = {} /\ (dirty => ~saved)
    /\ spc \in {"begin", "starting", "announce", "run"} => ~dirty
    /\ spc \in {"feeding", "returned", "flag"} /\ dirty => device = "hardware"
    /\ spc = "failed" => failed

SessionInv ==
    /\ SessionTypeOK /\ ClearsAlone /\ Shape /\ Fresh /\ Uniform /\ Ended
    /\ CountsFollowSegments /\ TriggersMatchFrames

-----------------------------------------------------------------------------
(* What appending to a segment and completing one do to the sources' data.  *)

LEMMA SegmentFields ==
    ASSUME NEW given \in Segment
    PROVE  /\ given.count \in Nat
           /\ \A n \in Nat :
                 LET grown == [given EXCEPT !.count = @ + n] IN
                 /\ grown \in Segment /\ grown.complete = given.complete
                 /\ grown.count = given.count + n
           /\ LET closed == [given EXCEPT !.complete = TRUE] IN
                 /\ closed \in Segment /\ closed.complete = TRUE
                 /\ closed.count = given.count
  <1>1. ASSUME NEW n \in Nat
        PROVE  LET grown == [given EXCEPT !.count = @ + n] IN
               /\ grown \in Segment /\ grown.complete = given.complete
               /\ grown.count = given.count + n
    <2>1. given.count + n \in Nat
      BY DEF Segment
    <2> QED BY <2>1 DEF Segment
  <1>2. LET closed == [given EXCEPT !.complete = TRUE] IN
        /\ closed \in Segment /\ closed.complete = TRUE /\ closed.count = given.count
    BY DEF Segment
  <1>3. given.count \in Nat
    BY DEF Segment
  <1> QED BY <1>1, <1>2, <1>3

LEMMA LastReplaced ==
    ASSUME NEW segments \in Seq(Segment), segments # <<>>, NEW last \in Segment
    PROVE  LET new == [segments EXCEPT ![Len(segments)] = last] IN
           /\ new \in Seq(Segment) /\ Len(new) = Len(segments)
           /\ \A i \in 1 .. Len(segments) :
                 new[i] = IF i = Len(segments) THEN last ELSE segments[i]
  OBVIOUS

LEMMA Appended ==
    ASSUME NEW segments \in Seq(Segment), NEW last \in Segment
    PROVE  LET new == Append(segments, last) IN
           /\ new \in Seq(Segment) /\ Len(new) = Len(segments) + 1
           /\ \A i \in 1 .. Len(segments) : new[i] = segments[i]
           /\ new[Len(segments) + 1] = last
  OBVIOUS

LEMMA LastSegment ==
    ASSUME NEW segments \in Seq(Segment), segments # <<>>
    PROVE  Len(segments) \in Nat \ {0} /\ segments[Len(segments)] \in Segment
  OBVIOUS

\* Samples go to the last segment of a current source and to a new one of any other.
LEMMA ExtendedData ==
    ASSUME data \in [Sources -> Seq(Segment)], NEW s \in Sources,
           s \in current => data[s] # <<>>, NEW n \in Nat,
           NEW D, D = Extended(s, n)
    PROVE  /\ D \in [Sources -> Seq(Segment)]
           /\ \A t \in Sources : t # s => D[t] = data[t]
           /\ Len(D[s]) = IF s \in current THEN Len(data[s]) ELSE Len(data[s]) + 1
           /\ \A i \in 1 .. Len(data[s]) :
                 /\ D[s][i].complete = data[s][i].complete
                 /\ D[s][i].count = IF s \in current /\ i = Len(data[s])
                                    THEN data[s][i].count + n ELSE data[s][i].count
           /\ s \notin current => D[s][Len(data[s]) + 1] = [count |-> n, complete |-> FALSE]
  <1>1. data[s] \in Seq(Segment)
    OBVIOUS
  <1>2. CASE s \in current
    <2> DEFINE last == data[s][Len(data[s])]
               grown == [last EXCEPT !.count = @ + n]
               segments == [data[s] EXCEPT ![Len(data[s])] = grown]
    <2>1. last \in Segment
      BY <1>1, <1>2, LastSegment
    <2>2. grown \in Segment /\ grown.complete = last.complete /\ grown.count = last.count + n
      BY <2>1, SegmentFields
    <2>3. D = [data EXCEPT ![s] = segments]
      BY <1>2 DEF Extended
    <2>4. /\ segments \in Seq(Segment) /\ Len(segments) = Len(data[s])
          /\ \A i \in 1 .. Len(data[s]) :
                segments[i] = IF i = Len(data[s]) THEN grown ELSE data[s][i]
      <3> HIDE DEF grown
      <3> QED BY <1>1, <1>2, <2>2, LastReplaced
    <2> HIDE DEF segments, grown
    <2>5. /\ D[s] = segments /\ D \in [Sources -> Seq(Segment)]
          /\ \A t \in Sources : t # s => D[t] = data[t]
      BY <2>3, <2>4
    <2> QED BY <1>2, <2>2, <2>4, <2>5
  <1>3. CASE s \notin current
    <2> DEFINE new == [count |-> n, complete |-> FALSE]
               segments == Append(data[s], new)
    <2>1. new \in Segment
      BY DEF Segment
    <2>2. D = [data EXCEPT ![s] = segments]
      BY <1>3 DEF Extended
    <2>3. /\ segments \in Seq(Segment) /\ Len(segments) = Len(data[s]) + 1
          /\ \A i \in 1 .. Len(data[s]) : segments[i] = data[s][i]
          /\ segments[Len(data[s]) + 1] = new
      <3> HIDE DEF new
      <3> QED BY <1>1, <2>1, Appended
    <2> HIDE DEF segments
    <2>4. /\ D[s] = segments /\ D \in [Sources -> Seq(Segment)]
          /\ \A t \in Sources : t # s => D[t] = data[t]
      BY <2>2, <2>3
    <2> QED BY <1>3, <2>3, <2>4
  <1> QED BY <1>2, <1>3

\* set_complete() on the last segments of the current sources.
LEMMA CompletedData ==
    ASSUME data \in [Sources -> Seq(Segment)], CompleteCurrent,
           \A s \in Sources : s \in current => data[s] # <<>>
    PROVE  /\ data' \in [Sources -> Seq(Segment)] /\ current' = {}
           /\ \A s \in Sources :
                 /\ Len(data'[s]) = Len(data[s])
                 /\ \A i \in 1 .. Len(data[s]) :
                       /\ data'[s][i].count = data[s][i].count
                       /\ data'[s][i].complete =
                             IF s \in current /\ i = Len(data[s]) THEN TRUE ELSE data[s][i].complete
  <1> DEFINE done(s) == [data[s] EXCEPT ![Len(data[s])].complete = TRUE]
  <1>1. ASSUME NEW s \in Sources, s \in current
        PROVE  /\ done(s) \in Seq(Segment) /\ Len(done(s)) = Len(data[s])
               /\ \A i \in 1 .. Len(data[s]) :
                     /\ done(s)[i].count = data[s][i].count
                     /\ done(s)[i].complete = IF i = Len(data[s]) THEN TRUE ELSE data[s][i].complete
    <2> DEFINE last == data[s][Len(data[s])]
               closed == [last EXCEPT !.complete = TRUE]
    <2>1. data[s] \in Seq(Segment) /\ data[s] # <<>>
      BY <1>1
    <2>2. last \in Segment
      BY <2>1, LastSegment
    <2>3. closed \in Segment /\ closed.complete = TRUE /\ closed.count = last.count
      BY <2>2, SegmentFields
    <2>4. done(s) = [data[s] EXCEPT ![Len(data[s])] = closed]
      OBVIOUS
    <2>5. /\ done(s) \in Seq(Segment) /\ Len(done(s)) = Len(data[s])
          /\ \A i \in 1 .. Len(data[s]) :
                done(s)[i] = IF i = Len(data[s]) THEN closed ELSE data[s][i]
      <3> HIDE DEF closed, done
      <3> QED BY <2>1, <2>3, <2>4, LastReplaced
    <2> HIDE DEF closed, done
    <2> QED BY <2>3, <2>5
  <1>2. data' = [s \in Sources |-> IF s \in current THEN done(s) ELSE data[s]]
        /\ current' = {}
    BY DEF CompleteCurrent, StillCurrent
  <1>3. \A s \in Sources : data[s] \in Seq(Segment)
    OBVIOUS
  <1> HIDE DEF done
  <1>4. data' \in [Sources -> Seq(Segment)]
    BY <1>1, <1>2, <1>3
  <1>5. ASSUME NEW s \in Sources, s \notin current PROVE data'[s] = data[s]
    BY <1>2, <1>5
  <1>6. ASSUME NEW s \in Sources, s \in current PROVE data'[s] = done(s)
    BY <1>2, <1>6
  <1>7. ASSUME NEW s \in Sources
        PROVE  /\ Len(data'[s]) = Len(data[s])
               /\ \A i \in 1 .. Len(data[s]) :
                     /\ data'[s][i].count = data[s][i].count
                     /\ data'[s][i].complete =
                           IF s \in current /\ i = Len(data[s]) THEN TRUE ELSE data[s][i].complete
    <2>1. CASE s \in current
      BY <1>1, <1>6, <2>1
    <2>2. CASE s \notin current
      BY <1>5, <2>2
    <2> QED BY <2>1, <2>2
  <1> QED BY <1>2, <1>4, <1>7

-----------------------------------------------------------------------------
(* Initially, and across the steps of the GUI thread.                      *)

LEMMA EmptyTyped ==
    /\ NoData \in [Sources -> Seq(Segment)] /\ <<>> \in Seq(Nat)
    /\ <<>> \in Seq([segment : Nat, frame : Nat]) /\ -1 \in Int
    /\ \A n \in Nat : n + 1 \in Nat
  <1>1. \A S : <<>> \in Seq(S)
    OBVIOUS
  <1>2. <<>> \in Seq(Segment)
    BY <1>1
  <1> QED BY <1>1, <1>2 DEF NoData

LEMMA InitInv == Init => SessionInv
  <1> SUFFICES ASSUME Init PROVE SessionInv
    OBVIOUS
  <1> USE DEF Init
  <1>1. FeedTypeOK
    BY EmptyTyped DEF FeedTypeOK
  <1>2. ControlTypeOK
    BY DEF ControlTypeOK
  <1>3. ClearsAlone /\ Shape /\ Fresh
    BY DEF ClearsAlone, Shape, Fresh, NoData
  <1>4. Uniform /\ Ended /\ CountsFollowSegments /\ TriggersMatchFrames
    BY DEF Uniform, Ended, CountsFollowSegments, TriggersMatchFrames
  <1> QED BY <1>1, <1>2, <1>3, <1>4 DEF SessionInv, SessionTypeOK

\* Steps of which the data and the sampling thread notice nothing.
LEMMA UnnoticedInv ==
    ASSUME SessionInv, SessionTypeOK', ClearsAlone',
           UNCHANGED <<feedVars, saved, spc, device, deviceVars, dirty, failed>>,
           stopping => stopping'
    PROVE  SessionInv'
  <1>1. Shape' /\ Fresh'
    BY DEF SessionInv, Shape, Fresh, feedVars, deviceVars
  <1>2. Uniform' /\ Ended'
    BY DEF SessionInv, Uniform, Ended, feedVars, deviceVars
  <1>3. CountsFollowSegments' /\ TriggersMatchFrames'
    BY DEF SessionInv, CountsFollowSegments, TriggersMatchFrames, feedVars, deviceVars
  <1> QED BY <1>1, <1>2, <1>3 DEF SessionInv

LEMMA RequestInv == ASSUME SessionInv, Request PROVE SessionInv'
  <1> USE DEF SessionInv, SessionTypeOK, Request, StopCapture, feedVars, deviceVars, historyVars
  <1>1. FeedTypeOK'
    BY DEF FeedTypeOK
  <1>2. ControlTypeOK'
    BY DEF ControlTypeOK
  <1>3. ClearsAlone'
    BY DEF ClearsAlone
  <1> QED BY <1>1, <1>2, <1>3, UnnoticedInv

LEMMA CheckStateInv == ASSUME SessionInv, CheckState PROVE SessionInv'
  <1> USE DEF SessionInv, SessionTypeOK, CheckState, StopsDevice, Unannounced,
          feedVars, deviceVars
  <1>1. FeedTypeOK'
    BY DEF FeedTypeOK
  <1>2. ControlTypeOK'
    BY DEF ControlTypeOK
  <1>3. ClearsAlone'
    BY DEF ClearsAlone
  <1> QED BY <1>1, <1>2, <1>3, UnnoticedInv

\* The sampling thread is gone when the join is over.
LEMMA JoinInv == ASSUME SessionInv, Join PROVE SessionInv'
  <1> USE DEF SessionInv, SessionTypeOK, Join, Joinable, feedVars, deviceVars, historyVars
  <1>1. FeedTypeOK'
    BY DEF FeedTypeOK
  <1>2. ControlTypeOK'
    BY DEF ControlTypeOK
  <1>3. ClearsAlone'
    BY DEF ClearsAlone
  <1>4. Shape' /\ Fresh'
    BY DEF Shape, Fresh
  <1>5. Uniform' /\ Ended'
    BY DEF Uniform, Ended
  <1>6. CountsFollowSegments' /\ TriggersMatchFrames'
    BY DEF CountsFollowSegments, TriggersMatchFrames
  <1> QED BY <1>1, <1>2, <1>3, <1>4, <1>5, <1>6

\* No sampling thread: start_capture() has the data to itself.
LEMMA StartCaptureInv == ASSUME SessionInv, StartCapture PROVE SessionInv'
  <1>1. spc = "none"
    BY DEF SessionInv, ClearsAlone, StartCapture
  <1> USE DEF SessionInv, SessionTypeOK, StartCapture, GuiFrame, deviceVars, historyVars
  <1>2. CASE UNCHANGED <<data, triggers, counts, spc, captures, historyVars>>
    <2>1. FeedTypeOK'
      BY <1>2 DEF FeedTypeOK
    <2>2. ControlTypeOK'
      BY <1>2 DEF ControlTypeOK
    <2>3. ClearsAlone'
      BY <1>2 DEF ClearsAlone
    <2> QED BY <1>2, <2>1, <2>2, <2>3, UnnoticedInv DEF feedVars
  <1>3. CASE /\ device # "none" /\ Sources # {}
             /\ data' = NoData /\ triggers' = <<>> /\ counts' = <<>>
             /\ spc' = "begin"
             /\ captures' = captures + 1
             /\ dirty' = FALSE /\ failed' = FALSE /\ unheard' = FALSE
    <2>1. FeedTypeOK'
      BY <1>3, EmptyTyped DEF FeedTypeOK
    <2>2. ControlTypeOK'
      BY ZenonT(60), <1>3, EmptyTyped DEF ControlTypeOK
    <2>3. ClearsAlone' /\ Shape' /\ Fresh'
      BY <1>1, <1>3 DEF ClearsAlone, Shape, Fresh, NoData
    <2>4. Uniform' /\ Ended'
      BY <1>1, <1>3 DEF Uniform, Ended
    <2>5. CountsFollowSegments' /\ TriggersMatchFrames'
      BY <1>3 DEF CountsFollowSegments, TriggersMatchFrames
    <2> QED BY <2>1, <2>2, <2>3, <2>4, <2>5
  <1> QED BY <1>2, <1>3

\* Nor does set_device() meet one.
LEMMA SetDeviceInv == ASSUME SessionInv, SetDevice PROVE SessionInv'
  <1>1. spc = "none"
    BY DEF SessionInv, ClearsAlone, SetDevice
  <1> USE <1>1 DEF SessionInv, SessionTypeOK, SetDevice, deviceVars
  <1>2. FeedTypeOK'
    BY EmptyTyped DEF FeedTypeOK
  <1>3. ControlTypeOK'
    BY ZenonT(60), EmptyTyped DEF ControlTypeOK
  <1>4. ClearsAlone' /\ Shape' /\ Fresh'
    BY DEF ClearsAlone, Shape, Fresh, NoData
  <1>5. Uniform' /\ Ended'
    BY DEF Uniform, Ended
  <1>6. CountsFollowSegments' /\ TriggersMatchFrames'
    BY DEF CountsFollowSegments, TriggersMatchFrames
  <1> QED BY <1>2, <1>3, <1>4, <1>5, <1>6

-----------------------------------------------------------------------------
(* Across the steps of the sampling thread around device_->run().          *)

LEMMA PrepareInv == ASSUME SessionInv, Prepare PROVE SessionInv'
  <1> USE DEF SessionInv, SessionTypeOK, Prepare, ThreadFrame, deviceVars, historyVars
  <1>1. FeedTypeOK'
    BY EmptyTyped DEF FeedTypeOK
  <1>2. ControlTypeOK'
    <2>1. spc' = "starting" /\ frameBegan' \in BOOLEAN /\ oom' \in BOOLEAN
      OBVIOUS
    <2>2. UNCHANGED <<saved, state, gpc, goal, device, framed, frames, inFrame, stopping,
                      captures, dirty, failed, unheard>>
      OBVIOUS
    <2> QED BY <2>1, <2>2 DEF ControlTypeOK
  <1>3. ClearsAlone' /\ Shape' /\ Fresh'
    BY DEF ClearsAlone, Shape, Fresh, NoData
  <1>4. Uniform' /\ Ended'
    BY DEF Uniform, Ended
  <1>5. CountsFollowSegments' /\ TriggersMatchFrames'
    BY DEF CountsFollowSegments, TriggersMatchFrames, Fresh, NoData
  <1> QED BY <1>1, <1>2, <1>3, <1>4, <1>5

LEMMA DeviceStartInv == ASSUME SessionInv, DeviceStart PROVE SessionInv'
  <1> USE DEF SessionInv, SessionTypeOK, DeviceStart, ThreadFrame, feedVars, deviceVars
  <1>1. FeedTypeOK'
    BY DEF FeedTypeOK
  <1>2. ControlTypeOK'
    <2>1. spc' \in {"announce", "done"} /\ frames' \in Nat
      BY DEF ControlTypeOK
    <2>2. framed' \in BOOLEAN /\ inFrame' \in BOOLEAN
      BY SessionAssumption DEF ControlTypeOK
    <2>3. stopping' \in BOOLEAN /\ failed' \in BOOLEAN
      BY DEF ControlTypeOK
    <2>4. UNCHANGED <<saved, state, gpc, goal, device, captures, dirty, unheard, frameBegan, oom>>
      OBVIOUS
    <2> QED BY <2>1, <2>2, <2>3, <2>4 DEF ControlTypeOK
  <1>3. ClearsAlone' /\ Shape' /\ Fresh'
    BY DEF ClearsAlone, Shape, Fresh
  <1>4. Uniform' /\ Ended'
    BY DEF Uniform, Ended
  <1>5. CountsFollowSegments' /\ TriggersMatchFrames'
    BY DEF CountsFollowSegments, TriggersMatchFrames
  <1> QED BY <1>1, <1>2, <1>3, <1>4, <1>5

\* The device begins with nothing: every source is at the end of "no segment".
LEMMA RunInv == ASSUME SessionInv, Run PROVE SessionInv'
  <1> USE DEF SessionInv, SessionTypeOK, Run, ThreadFrame, feedVars, deviceVars
  <1>1. FeedTypeOK'
    BY DEF FeedTypeOK
  <1>2. ControlTypeOK'
    BY DEF ControlTypeOK
  <1>3. ClearsAlone' /\ Shape' /\ Fresh'
    BY DEF ClearsAlone, Shape, Fresh
  <1>4. Uniform'
    <2>1. /\ data = NoData /\ current = {} /\ highest = -1 /\ frames = 0
          /\ frameBegan = FALSE /\ oom = FALSE /\ inFrame = FALSE
      BY DEF Fresh
    <2>2. \A s \in Sources : Len(data[s]) = 0
      BY <2>1 DEF NoData
    <2>3. /\ UNCHANGED <<data, current, highest, frames, frameBegan, oom, inFrame>>
          /\ current = {} /\ highest = -1 /\ frames = 0
          /\ frameBegan = FALSE /\ oom = FALSE /\ inFrame = FALSE
      BY <2>1
    <2>4. /\ (frameBegan = inFrame /\ (inFrame => framed) /\ (oom => stopping))'
          /\ (~framed => frames = 0)'
      BY ONLY <2>2, <2>3
    <2>5. \A s \in Sources : Len(data'[s]) = IF s \in current' \/ current' = {}
                                             THEN highest' + 1 ELSE highest'
      BY ONLY <2>2, <2>3
    <2>6. (framed /\ ~inFrame =>
              /\ current = {}
              /\ ~oom => /\ frames - 1 = highest
                         /\ \A s \in Sources : Len(data[s]) = highest + 1)'
      BY ONLY <2>2, <2>3
    <2> QED BY <2>3, <2>4, <2>5, <2>6 DEF Uniform
  <1>5. Ended'
    BY DEF Ended
  <1>6. CountsFollowSegments' /\ TriggersMatchFrames'
    BY DEF CountsFollowSegments, TriggersMatchFrames
  <1> QED BY <1>1, <1>2, <1>3, <1>4, <1>5, <1>6

LEMMA ThreadStepInv ==
    ASSUME SessionInv, Announce \/ AnnounceStop \/ Finish \/ RunFails \/ FailStop
    PROVE  SessionInv'
  <1> USE DEF SessionInv, SessionTypeOK, Announce, AnnounceStop, Finish, RunFails, FailStop,
          FromFile, ThreadFrame, feedVars, deviceVars, historyVars
  <1>1. FeedTypeOK'
    BY DEF FeedTypeOK
  <1>2. ControlTypeOK'
    BY ZenonT(60) DEF ControlTypeOK
  <1>3. ClearsAlone' /\ Shape' /\ Fresh'
    BY DEF ClearsAlone, Shape, Fresh
  <1>4. Uniform'
    BY DEF Uniform
  <1>5. Ended'
    <2>1. CASE Announce \/ AnnounceStop
      BY <2>1 DEF Ended
    <2>2. CASE Finish
      BY <2>2 DEF Ended
    <2>3. CASE RunFails \/ FailStop
      BY <2>3 DEF Ended
    <2> QED BY <2>1, <2>2, <2>3
  <1>6. CountsFollowSegments' /\ TriggersMatchFrames'
    BY DEF CountsFollowSegments, TriggersMatchFrames
  <1> QED BY <1>1, <1>2, <1>3, <1>4, <1>5, <1>6

-----------------------------------------------------------------------------
(* Across the data feed: frames and triggers.                              *)

\* A frame begins only between frames, and not after a stop, so not out of memory.
LEMMA FrameBeginInv == ASSUME SessionInv, FrameBegin PROVE SessionInv'
  <1> USE DEF SessionInv, SessionTypeOK, FrameBegin, FeedFrame, ThreadFrame
  <1>1. FeedTypeOK'
    BY DEF FeedTypeOK
  <1>2. ControlTypeOK'
    <2>1. frames' \in Nat /\ inFrame' \in BOOLEAN /\ frameBegan' \in BOOLEAN
      BY DEF ControlTypeOK
    <2>2. UNCHANGED <<oom, saved, state, spc, gpc, goal, device, framed, stopping, captures,
                      dirty, failed, unheard>>
      OBVIOUS
    <2> QED BY <2>1, <2>2 DEF ControlTypeOK
  <1>3. ClearsAlone' /\ Shape' /\ Fresh'
    BY DEF ClearsAlone, Shape, Fresh
  <1>4. Uniform'
    <2>1. /\ framed /\ current = {} /\ ~oom /\ frames - 1 = highest
          /\ \A s \in Sources : Len(data[s]) = highest + 1
      BY DEF Uniform
    <2>2. UNCHANGED <<data, current, highest, oom, framed>> /\ frames' = frames + 1
          /\ inFrame' = TRUE /\ frameBegan' = TRUE
      OBVIOUS
    <2>3. frames \in Nat /\ highest \in Int
      BY DEF FeedTypeOK, ControlTypeOK
    <2> QED BY <2>1, <2>2, <2>3 DEF Uniform
  <1>5. Ended'
    BY DEF Ended
  <1>6. CountsFollowSegments' /\ TriggersMatchFrames'
    BY DEF CountsFollowSegments, TriggersMatchFrames
  <1> QED BY <1>1, <1>2, <1>3, <1>4, <1>5, <1>6

\* The segment a trigger is filed under is that of the device's frame.
LEMMA TriggerInv == ASSUME SessionInv, Trigger PROVE SessionInv'
  <1> USE DEF SessionInv, SessionTypeOK, Trigger, FeedFrame, ThreadFrame, deviceVars
  <1>1. TriggerSegment = Larger(frames - 1, 0) /\ TriggerSegment \in Nat
    <2>1. frames \in Nat /\ highest \in Int /\ framed \in BOOLEAN /\ Len(counts) = highest + 1
          /\ Len(counts) \in Nat
      BY DEF FeedTypeOK, ControlTypeOK, CountsFollowSegments
    <2>2. CASE ~framed
      BY <2>1, <2>2 DEF Uniform, Fresh, TriggerSegment, Larger
    <2>3. CASE framed
      <3>1. frameBegan /\ inFrame
            /\ frames - 1 = IF current = {} THEN highest + 1 ELSE highest
        BY <2>3 DEF Uniform
      <3>2. ASSUME NEW s \in current PROVE highest >= 0
        BY <2>1, <2>3, <3>1 DEF Uniform, Shape, FeedTypeOK
      <3> QED BY <2>1, <3>1, <3>2 DEF TriggerSegment, Larger
    <2> QED BY <2>2, <2>3
  <1> DEFINE trigger == [segment |-> TriggerSegment, frame |-> Larger(frames - 1, 0)]
  <1>2. trigger \in [segment : Nat, frame : Nat] /\ trigger.segment = trigger.frame
    BY <1>1
  <1>3. triggers' = Append(triggers, trigger)
    OBVIOUS
  <1> HIDE DEF trigger
  <1>4. FeedTypeOK'
    BY <1>2, <1>3 DEF FeedTypeOK
  <1>5. TriggersMatchFrames'
    BY SMTT(30), <1>2, <1>3 DEF FeedTypeOK, TriggersMatchFrames
  <1>6. ControlTypeOK'
    BY DEF ControlTypeOK
  <1>7. ClearsAlone' /\ Shape' /\ Fresh'
    BY DEF ClearsAlone, Shape, Fresh
  <1>8. Uniform' /\ Ended'
    BY DEF Uniform, Ended
  <1>9. CountsFollowSegments'
    BY DEF CountsFollowSegments
  <1> QED BY <1>4, <1>5, <1>6, <1>7, <1>8, <1>9

\* The segments of all current sources are completed, all others were complete already.
LEMMA CompletedInv ==
    ASSUME SessionInv, spc = "feeding", CompleteCurrent,
           UNCHANGED <<highest, counts, triggers>>, oom' = oom,
           spc' \in {"feeding", "returned"}
    PROVE  /\ FeedTypeOK' /\ Shape' /\ CountsFollowSegments' /\ TriggersMatchFrames'
           /\ current' = {}
           /\ \A s \in Sources : Len(data'[s]) = Len(data[s])
  <1> USE DEF SessionInv, SessionTypeOK
  <1>1. data \in [Sources -> Seq(Segment)] /\ \A s \in Sources : s \in current => data[s] # <<>>
    BY DEF FeedTypeOK, Shape
  <1>2. /\ data' \in [Sources -> Seq(Segment)] /\ current' = {}
        /\ \A s \in Sources :
              /\ Len(data'[s]) = Len(data[s])
              /\ \A i \in 1 .. Len(data[s]) :
                    /\ data'[s][i].count = data[s][i].count
                    /\ data'[s][i].complete =
                          IF s \in current /\ i = Len(data[s]) THEN TRUE ELSE data[s][i].complete
    BY <1>1, CompletedData
  <1>3. FeedTypeOK'
    BY <1>2 DEF FeedTypeOK
  <1>4. Shape'
    <2>1. ASSUME NEW s \in Sources, NEW i \in 1 .. Len(data'[s]) PROVE data'[s][i].complete
      <3>1. i \in 1 .. Len(data[s])
        BY <1>2
      <3>2. CASE s \in current /\ i = Len(data[s])
        BY <1>2, <3>1, <3>2
      <3>3. CASE ~(s \in current /\ i = Len(data[s]))
        <4>1. data[s][i].complete
          BY <3>1, <3>3 DEF Shape
        <4>2. data'[s][i].complete = data[s][i].complete
          BY <1>2, <3>1, <3>3
        <4> QED BY <4>1, <4>2
      <3> QED BY <3>2, <3>3
    <2> QED BY <1>2, <2>1 DEF Shape
  <1>5. CountsFollowSegments'
    <2>1. /\ Len(counts) = highest + 1 /\ Len(counts) \in Nat
          /\ \A s \in Sources : Len(data[s]) <= Len(counts) /\ Len(data[s]) \in Nat
      BY <1>1 DEF CountsFollowSegments, FeedTypeOK
    <2>2. ASSUME NEW i \in 1 .. Len(counts)
          PROVE  \E s \in Sources : i <= Len(data'[s]) /\ counts[i] <= data'[s][i].count
      <3>1. PICK s \in Sources : i <= Len(data[s]) /\ counts[i] <= data[s][i].count
        BY DEF CountsFollowSegments
      <3>2. i \in 1 .. Len(data[s])
        BY <2>1, <3>1
      <3>3. i <= Len(data'[s]) /\ counts[i] <= data'[s][i].count
        BY <1>2, <3>1, <3>2
      <3> QED BY <3>3
    <2>3. ASSUME ~oom, NEW i \in 1 .. Len(counts), NEW s \in Sources, i <= Len(data'[s])
          PROVE  data'[s][i].count <= counts[i]
      <3>1. i \in 1 .. Len(data[s])
        <4>1. Len(data'[s]) = Len(data[s])
          BY <1>2
        <4> QED BY <2>1, <2>3, <4>1
      <3>2. data[s][i].count <= counts[i]
        BY <2>3, <3>1 DEF CountsFollowSegments
      <3> QED BY <1>2, <3>1, <3>2
    <2>4. UNCHANGED <<highest, counts, oom>> /\ \A s \in Sources : Len(data'[s]) = Len(data[s])
      BY <1>2
    <2> QED BY <2>1, <2>2, <2>3, <2>4 DEF CountsFollowSegments
  <1>6. TriggersMatchFrames'
    BY DEF TriggersMatchFrames
  <1> QED BY <1>2, <1>3, <1>4, <1>5, <1>6

LEMMA FrameEndInv == ASSUME SessionInv, FrameEnd PROVE SessionInv'
  <1> USE DEF SessionInv, SessionTypeOK, FrameEnd, FeedFrame, ThreadFrame
  <1>1. frameBegan /\ framed /\ CompleteCurrent /\ frameBegan' = FALSE
    BY DEF Uniform
  <1>2. /\ FeedTypeOK' /\ Shape' /\ CountsFollowSegments' /\ TriggersMatchFrames'
        /\ current' = {} /\ \A s \in Sources : Len(data'[s]) = Len(data[s])
    BY <1>1, CompletedInv
  <1>3. ControlTypeOK'
    <2>1. inFrame' \in BOOLEAN /\ frameBegan' \in BOOLEAN
      BY <1>1
    <2>2. UNCHANGED <<oom, saved, state, spc, gpc, goal, device, framed, frames, stopping,
                      captures, dirty, failed, unheard>>
      OBVIOUS
    <2> QED BY <2>1, <2>2 DEF ControlTypeOK
  <1>4. ClearsAlone' /\ Fresh'
    BY DEF ClearsAlone, Fresh
  <1>5. Uniform'
    <2>1. ~oom => /\ frames - 1 = highest
                  /\ \A s \in Sources : Len(data[s]) = highest + 1
      BY <1>1 DEF Uniform, Fresh
    <2>2. UNCHANGED <<spc, oom, stopping, highest, frames, framed>>
          /\ inFrame' = FALSE /\ frameBegan' = FALSE /\ framed
      BY <1>1
    <2>3. ((framed => inFrame) => FALSE)' /\ (framed /\ inFrame => FALSE)'
      BY <2>2
    <2>4. (framed /\ ~inFrame =>
              /\ current = {}
              /\ ~oom => /\ frames - 1 = highest
                         /\ \A s \in Sources : Len(data[s]) = highest + 1)'
      BY <1>2, <2>1, <2>2
    <2>5. (oom => stopping)'
      BY <2>2 DEF Uniform
    <2> QED BY <2>2, <2>3, <2>4, <2>5 DEF Uniform
  <1>6. Ended'
    BY DEF Ended
  <1> QED BY <1>2, <1>3, <1>4, <1>5, <1>6

LEMMA EndInv == ASSUME SessionInv, End PROVE SessionInv'
  <1> USE DEF SessionInv, SessionTypeOK, End, ThreadFrame, historyVars
  <1>1. /\ FeedTypeOK' /\ Shape' /\ CountsFollowSegments' /\ TriggersMatchFrames'
        /\ current' = {}
    BY CompletedInv
  <1>2. ControlTypeOK'
    <2>1. inFrame' \in BOOLEAN /\ spc' = "returned"
      OBVIOUS
    <2>2. UNCHANGED <<frameBegan, oom, saved, state, gpc, goal, device, framed, frames,
                      stopping, captures, dirty, failed, unheard>>
      OBVIOUS
    <2> QED BY <2>1, <2>2 DEF ControlTypeOK
  <1>3. ClearsAlone' /\ Fresh' /\ Uniform'
    BY DEF ClearsAlone, Fresh, Uniform
  <1>4. Ended'
    BY <1>1 DEF Ended
  <1> QED BY <1>1, <1>2, <1>3, <1>4

-----------------------------------------------------------------------------
(* Across the data feed: packets.                                          *)

\* A new segment is announced exactly when no source has got one since the last frame.
LEMMA NewSegmentId ==
    ASSUME SessionInv, spc = "feeding", framed => inFrame, NEW s \in Sources,
           NEW h, NEW c, SignalNewSegment(s, h, c)
    PROVE  /\ h = IF current = {} THEN highest + 1 ELSE highest
           /\ c = IF current = {} THEN Append(counts, 0) ELSE counts
  <1>1. /\ highest \in Int /\ current \subseteq Sources
        /\ \A t \in Sources : Len(data[t]) = IF t \in current \/ current = {}
                                             THEN highest + 1 ELSE highest
    BY DEF SessionInv, SessionTypeOK, FeedTypeOK, Uniform
  <1>2. CASE s \in current
    BY <1>2 DEF SignalNewSegment
  <1>3. CASE s \notin current
    <2>1. PICK anchor \in Anchors(current \union {s}) :
            LET id == Len(data[anchor]) - (IF anchor = s THEN 0 ELSE 1) IN
            IF id > highest THEN h = id /\ c = Append(counts, 0)
                            ELSE h = highest /\ c = counts
      BY <1>3 DEF SignalNewSegment
    <2>2. anchor \in current \union {s}
      BY DEF Anchors
    <2>3. CASE current = {}
      <3>1. anchor = s /\ Len(data[anchor]) = highest + 1
        BY <1>1, <2>2, <2>3
      <3> QED BY <1>1, <2>1, <2>3, <3>1
    <2>4. CASE current # {} /\ anchor = s
      <3>1. Len(data[anchor]) = highest
        BY <1>1, <1>3, <2>4
      <3> QED BY <1>1, <2>1, <2>4, <3>1
    <2>5. CASE current # {} /\ anchor # s
      <3>1. Len(data[anchor]) = highest + 1
        BY <1>1, <2>2, <2>5
      <3> QED BY <1>1, <2>1, <2>5, <3>1
    <2> QED BY <2>3, <2>4, <2>5
  <1> QED BY <1>2, <1>3

\* Where the samples of a packet go, and which counts there are before it is counted.
LEMMA StoredSegments ==
    ASSUME SessionInv, spc = "feeding", framed => inFrame, NEW s \in Sources, NEW n \in Nat,
           data' = Extended(s, n), NEW c, SignalNewSegment(s, highest', c),
           current' = current \union {s}, UNCHANGED spc
    PROVE  /\ data' \in [Sources -> Seq(Segment)] /\ Shape'
           /\ highest' = IF current = {} THEN highest + 1 ELSE highest
           /\ c \in Seq(Nat) /\ Len(c) = highest' + 1
           /\ \A t \in Sources : Len(data'[t]) = IF t \in current' THEN highest' + 1 ELSE highest'
  <1> USE DEF SessionInv, SessionTypeOK
  <1>1. /\ data \in [Sources -> Seq(Segment)] /\ (s \in current => data[s] # <<>>)
        /\ highest \in Int /\ counts \in Seq(Nat) /\ Len(counts) = highest + 1
        /\ \A t \in Sources : Len(data[t]) = IF t \in current \/ current = {}
                                             THEN highest + 1 ELSE highest
    BY DEF FeedTypeOK, Shape, CountsFollowSegments, Uniform
  <1>2. /\ highest' = IF current = {} THEN highest + 1 ELSE highest
        /\ c = IF current = {} THEN Append(counts, 0) ELSE counts
    BY NewSegmentId
  <1>3. c \in Seq(Nat) /\ Len(c) = highest' + 1
    BY <1>1, <1>2
  <1>4. /\ data' \in [Sources -> Seq(Segment)]
        /\ \A t \in Sources : t # s => data'[t] = data[t]
        /\ Len(data'[s]) = IF s \in current THEN Len(data[s]) ELSE Len(data[s]) + 1
        /\ \A i \in 1 .. Len(data[s]) : data'[s][i].complete = data[s][i].complete
        /\ s \notin current => data'[s][Len(data[s]) + 1] = [count |-> n, complete |-> FALSE]
    BY <1>1, ExtendedData
  <1>5. \A t \in Sources : Len(data'[t]) = IF t \in current' THEN highest' + 1 ELSE highest'
    BY <1>1, <1>2, <1>4
  <1>6. Shape'
    <2>1. ASSUME NEW t \in Sources, NEW i \in 1 .. Len(data'[t]), ~data'[t][i].complete
          PROVE  t \in current' /\ i = Len(data'[t])
      <3>1. CASE t # s
        BY <1>4, <2>1, <3>1 DEF Shape
      <3>2. CASE t = s /\ i \in 1 .. Len(data[s])
        BY <1>4, <2>1, <3>2 DEF Shape
      <3>3. CASE t = s /\ i \notin 1 .. Len(data[s])
        <4>1. Len(data[s]) \in Nat
          BY <1>1
        <4> QED BY <1>4, <2>1, <3>3, <4>1
      <3> QED BY <3>1, <3>2, <3>3
    <2>2. ASSUME NEW t \in current'
          PROVE  data'[t] # <<>> /\ ~data'[t][Len(data'[t])].complete
      <3>1. CASE t # s
        BY <1>4, <2>2, <3>1 DEF Shape, FeedTypeOK
      <3>2. CASE t = s /\ s \in current
        <4>1. /\ Len(data[s]) \in 1 .. Len(data[s]) /\ Len(data'[s]) = Len(data[s])
              /\ ~data[s][Len(data[s])].complete
          BY <1>1, <1>4, <3>2 DEF Shape
        <4> QED BY <1>4, <3>2, <4>1
      <3>3. CASE t = s /\ s \notin current
        <4>1. Len(data[s]) \in Nat /\ Len(data'[s]) = Len(data[s]) + 1
          BY <1>1, <1>4, <3>3
        <4> QED BY <1>4, <3>3, <4>1
      <3> QED BY <3>1, <3>2, <3>3
    <2> QED BY <2>1, <2>2 DEF Shape
  <1> QED BY <1>2, <1>3, <1>4, <1>5, <1>6

\* The relation of the counts to the segments before the packet is counted.
LEMMA StoredCounts ==
    ASSUME SessionInv, spc = "feeding", framed => inFrame, NEW s \in Sources, NEW n \in Nat,
           data' = Extended(s, n), NEW c, SignalNewSegment(s, highest', c),
           current' = current \union {s}, UNCHANGED spc
    PROVE  /\ \A i \in 1 .. Len(c) : \E t \in Sources :
                 i <= Len(data'[t]) /\ c[i] <= data'[t][i].count
           /\ ~oom => \A i \in 1 .. Len(c), t \in Sources :
                 i <= Len(data'[t]) /\ ~(t = s /\ i = highest' + 1)
                 => data'[t][i].count <= c[i]
  <1> USE DEF SessionInv, SessionTypeOK
  <1>1. /\ data \in [Sources -> Seq(Segment)] /\ (s \in current => data[s] # <<>>)
        /\ highest \in Int /\ counts \in Seq(Nat) /\ Len(counts) = highest + 1
        /\ \A t \in Sources : Len(data[t]) = IF t \in current \/ current = {}
                                             THEN highest + 1 ELSE highest
    BY DEF FeedTypeOK, Shape, CountsFollowSegments, Uniform
  <1>2. /\ highest' = IF current = {} THEN highest + 1 ELSE highest
        /\ c = IF current = {} THEN Append(counts, 0) ELSE counts
    BY NewSegmentId
  <1>3. /\ \A t \in Sources : t # s => data'[t] = data[t]
        /\ Len(data'[s]) = IF s \in current THEN Len(data[s]) ELSE Len(data[s]) + 1
        /\ \A i \in 1 .. Len(data[s]) :
              data'[s][i].count = IF s \in current /\ i = Len(data[s])
                                  THEN data[s][i].count + n ELSE data[s][i].count
        /\ s \notin current => data'[s][Len(data[s]) + 1].count = n
    <2>1. /\ \A t \in Sources : t # s => data'[t] = data[t]
          /\ Len(data'[s]) = IF s \in current THEN Len(data[s]) ELSE Len(data[s]) + 1
          /\ \A i \in 1 .. Len(data[s]) :
                data'[s][i].count = IF s \in current /\ i = Len(data[s])
                                    THEN data[s][i].count + n ELSE data[s][i].count
          /\ s \notin current => data'[s][Len(data[s]) + 1] = [count |-> n, complete |-> FALSE]
      BY <1>1, ExtendedData
    <2> QED BY <2>1
  <1>4. \A t \in Sources : \A i \in 1 .. Len(data[t]) : data[t][i].count \in Nat
    <2>1. \A t \in Sources : \A i \in 1 .. Len(data[t]) : data[t][i] \in Segment
      BY <1>1
    <2> QED BY <2>1 DEF Segment
  <1>5. \A i \in 1 .. Len(counts) : c[i] = counts[i] /\ counts[i] \in Nat
    BY <1>1, <1>2
  <1>6. Len(c) = highest' + 1 /\ (current = {} => c[Len(counts) + 1] = 0)
    BY <1>1, <1>2
  <1>7. ASSUME NEW i \in 1 .. Len(c)
        PROVE  \E t \in Sources : i <= Len(data'[t]) /\ c[i] <= data'[t][i].count
    <2>1. CASE i \in 1 .. Len(counts)
      <3>1. PICK t \in Sources : i <= Len(data[t]) /\ counts[i] <= data[t][i].count
        BY <2>1 DEF CountsFollowSegments
      <3>2. i \in 1 .. Len(data[t])
        BY <1>1, <2>1, <3>1
      <3>3. i <= Len(data'[t]) /\ c[i] <= data'[t][i].count
        <4>1. CASE t = s
          <5>1. /\ data[s][i].count \in Nat
                /\ data'[s][i].count \in {data[s][i].count, data[s][i].count + n}
            BY <1>3, <1>4, <3>2, <4>1
          <5>2. i <= Len(data'[s])
            <6>1. Len(data'[s]) >= Len(data[s])
              BY <1>1, <1>3
            <6> QED BY <1>1, <3>2, <4>1, <6>1
          <5>3. c[i] = counts[i] /\ counts[i] \in Nat /\ counts[i] <= data[s][i].count
            BY <1>5, <2>1, <3>1, <4>1
          <5> QED BY <4>1, <5>1, <5>2, <5>3
        <4>2. CASE t # s
          BY <1>3, <1>5, <2>1, <3>1, <4>2
        <4> QED BY <4>1, <4>2
      <3> QED BY <3>3
    <2>2. CASE i \notin 1 .. Len(counts)
      <3>1. current = {} /\ i = Len(counts) + 1 /\ Len(data[s]) = Len(counts) /\ s \notin current
        BY <1>1, <1>2, <1>6, <2>2
      <3>2. i <= Len(data'[s]) /\ c[i] = 0 /\ data'[s][i].count = n
        BY <1>1, <1>3, <1>6, <3>1
      <3> QED BY <3>2
    <2> QED BY <2>1, <2>2
  <1>8. ASSUME ~oom, NEW i \in 1 .. Len(c), NEW t \in Sources,
               i <= Len(data'[t]), ~(t = s /\ i = highest' + 1)
        PROVE  data'[t][i].count <= c[i]
    <2>1. i \in 1 .. Len(counts) /\ i \in 1 .. Len(data[t])
      BY <1>1, <1>2, <1>3, <1>6, <1>8
    <2>2. data[t][i].count <= counts[i]
      BY <1>8, <2>1 DEF CountsFollowSegments
    <2>3. data'[t][i].count = data[t][i].count
      BY <1>1, <1>2, <1>3, <1>8, <2>1
    <2> QED BY <1>5, <2>1, <2>2, <2>3
  <1> QED BY <1>7, <1>8

\* Between frames no source has data in a segment that is not there for all.
LEMMA StoredUniform ==
    ASSUME SessionInv, spc = "feeding", framed => inFrame, NEW s \in Sources,
           highest' = IF current = {} THEN highest + 1 ELSE highest,
           current' = current \union {s}, UNCHANGED <<spc, frameBegan, deviceVars>>,
           oom' => stopping',
           \A t \in Sources : Len(data'[t]) = IF t \in current' THEN highest' + 1 ELSE highest'
    PROVE  Uniform'
  <1>1. current' # {}
    OBVIOUS
  <1>2. framed /\ inFrame => frames - 1 = highest'
    BY DEF SessionInv, Uniform
  <1>3. frameBegan = inFrame /\ (inFrame => framed) /\ (~framed => frames = 0)
    BY DEF SessionInv, Uniform
  <1> QED BY <1>1, <1>2, <1>3 DEF Uniform, deviceVars

\* The counts follow the largest source, also in a segment that other sources are
\* still to enter.
LEMMA FeedInv == ASSUME SessionInv, NEW s \in Sources, Feed(s) PROVE SessionInv'
  <1> USE DEF FeedFrame, ThreadFrame
  <1>1. PICK n \in 1 .. MaxSamples, c \in {counts, Append(counts, 0)} :
            /\ data' = Extended(s, n)
            /\ SignalNewSegment(s, highest', c)
            /\ counts' = Counted(c, highest', data'[s][Len(data'[s])].count)
    BY DEF Feed
  <1>2. /\ spc = "feeding" /\ (framed => inFrame) /\ current' = current \union {s}
        /\ n \in Nat /\ UNCHANGED <<spc, triggers, frameBegan, oom, deviceVars, stopping>>
    BY DEF Feed
  <1>3. /\ data' \in [Sources -> Seq(Segment)] /\ Shape'
        /\ highest' = IF current = {} THEN highest + 1 ELSE highest
        /\ c \in Seq(Nat) /\ Len(c) = highest' + 1
        /\ \A t \in Sources : Len(data'[t]) = IF t \in current' THEN highest' + 1 ELSE highest'
    BY <1>1, <1>2, StoredSegments
  <1>4. highest \in Int /\ highest' \in Int /\ Len(c) \in Nat \ {0} /\ Len(data'[s]) = Len(c)
    <2>1. highest \in Int /\ Len(c) \in Nat
      BY <1>3 DEF SessionInv, SessionTypeOK, FeedTypeOK
    <2>2. data'[s] # <<>> /\ Len(data'[s]) = Len(c)
      BY <1>2, <1>3 DEF Shape
    <2>3. data'[s] \in Seq(Segment)
      BY <1>3
    <2> QED BY <1>3, <2>1, <2>2, <2>3
  <1> DEFINE id == Len(c)
             count == data'[s][id].count
  <1>5. count \in Nat
    <2>1. data'[s] \in Seq(Segment) /\ id \in 1 .. Len(data'[s])
      BY <1>3, <1>4
    <2>2. data'[s][id] \in Segment
      BY <2>1
    <2> QED BY <2>2, SegmentFields
  <1>6. /\ counts' \in Seq(Nat) /\ Len(counts') = id
        /\ \A i \in 1 .. id : counts'[i] = IF i = id THEN Larger(c[i], count) ELSE c[i]
        /\ \A i \in 1 .. id : c[i] \in Nat
    <2>1. counts' = [c EXCEPT ![id] = Larger(c[id], count)]
      BY <1>1, <1>3, <1>4 DEF Counted
    <2>2. c[id] \in Nat /\ Larger(c[id], count) \in Nat
      BY <1>3, <1>4, <1>5 DEF Larger
    <2> DEFINE new == Larger(c[id], count)
    <2>3. id \in 1 .. Len(c) /\ id = Len(c) /\ c \in Seq(Nat)
      BY <1>3, <1>4
    <2> HIDE DEF new, id
    <2>4. counts' = [c EXCEPT ![id] = new] /\ new \in Nat
      BY <2>1, <2>2 DEF new
    <2>5. /\ counts' \in Seq(Nat) /\ Len(counts') = id
          /\ \A i \in 1 .. id : counts'[i] = IF i = id THEN new ELSE c[i]
          /\ \A i \in 1 .. id : c[i] \in Nat
      BY <2>3, <2>4
    <2> QED BY <2>5 DEF new
  <1>7. CountsFollowSegments'
    <2>1. /\ \A i \in 1 .. id : \E t \in Sources : i <= Len(data'[t]) /\ c[i] <= data'[t][i].count
          /\ ~oom => \A i \in 1 .. id, t \in Sources :
                        i <= Len(data'[t]) /\ ~(t = s /\ i = id) => data'[t][i].count <= c[i]
      BY <1>1, <1>2, <1>3, StoredCounts
    <2>2. ASSUME NEW i \in 1 .. id
          PROVE  \E t \in Sources : i <= Len(data'[t]) /\ counts'[i] <= data'[t][i].count
      <3>1. PICK t \in Sources : i <= Len(data'[t]) /\ c[i] <= data'[t][i].count
        BY <2>1
      <3>2. CASE counts'[i] = c[i]
        BY <3>1, <3>2
      <3>3. CASE counts'[i] # c[i]
        <4>1. i = id /\ counts'[i] = count /\ i <= Len(data'[s])
          BY <1>4, <1>6, <3>3 DEF Larger
        <4> QED BY <1>5, <4>1
      <3> QED BY <3>2, <3>3
    <2>3. ASSUME ~oom, NEW i \in 1 .. id, NEW t \in Sources, i <= Len(data'[t])
          PROVE  data'[t][i].count <= counts'[i]
      <3>1. counts'[i] >= c[i] /\ counts'[i] \in Nat /\ c[i] \in Nat
            /\ (i = id => counts'[i] >= count)
        BY <1>5, <1>6 DEF Larger
      <3>2. CASE t = s /\ i = id
        BY <1>5, <3>1, <3>2
      <3>3. CASE ~(t = s /\ i = id)
        <4>1. data'[t][i].count <= c[i]
          BY <2>1, <2>3, <3>3
        <4>2. data'[t][i].count \in Nat
          <5>1. data'[t] \in Seq(Segment) /\ i \in 1 .. Len(data'[t])
            BY <1>3, <1>4, <2>3
          <5>2. data'[t][i] \in Segment
            BY <5>1
          <5> QED BY <5>2, SegmentFields
        <4> QED BY <3>1, <4>1, <4>2
      <3> QED BY <3>2, <3>3
    <2>4. \A t \in Sources : Len(data'[t]) <= id
      BY <1>3, <1>4
    <2> QED BY <1>2, <1>3, <1>6, <2>2, <2>3, <2>4 DEF CountsFollowSegments
  <1>8. FeedTypeOK'
    BY <1>2, <1>3, <1>4, <1>6 DEF SessionInv, SessionTypeOK, FeedTypeOK
  <1>9. ControlTypeOK'
    <2>1. /\ state' \in {state, "Running"} /\ dirty' \in BOOLEAN
          /\ UNCHANGED <<spc, saved, gpc, goal, device, captures, failed, unheard>>
      BY DEF Feed, SessionInv, SessionTypeOK, ControlTypeOK
    <2> QED BY <1>2, <2>1 DEF SessionInv, SessionTypeOK, ControlTypeOK, deviceVars
  <1>10. ClearsAlone' /\ Fresh' /\ TriggersMatchFrames'
    BY <1>2 DEF Feed, SessionInv, ClearsAlone, Fresh, TriggersMatchFrames
  <1>11. Uniform'
    <2>1. oom' => stopping'
      BY <1>2 DEF SessionInv, Uniform
    <2> QED BY <1>2, <1>3, <2>1, StoredUniform
  <1>12. Ended'
    BY <1>2 DEF Feed, SessionInv, Ended
  <1> QED BY <1>3, <1>7, <1>8, <1>9, <1>10, <1>11, <1>12 DEF SessionInv, SessionTypeOK

\* Out of memory, samples may have been stored without having been counted.
LEMMA FeedOutOfMemoryInv ==
    ASSUME SessionInv, NEW s \in Sources, FeedOutOfMemory(s) PROVE SessionInv'
  <1> USE DEF FeedFrame, ThreadFrame
  <1>1. /\ spc = "feeding" /\ (framed => inFrame) /\ oom' = TRUE /\ stopping' = TRUE
        /\ UNCHANGED <<spc, saved, failed, unheard, gpc, goal, device, captures, triggers,
                       frameBegan, deviceVars>>
        /\ state' \in {state, "Running"} /\ dirty' \in {dirty, dirty \/ device = "hardware"}
    BY DEF FeedOutOfMemory
  <1>2. ControlTypeOK'
    <2>1. oom' \in BOOLEAN /\ stopping' \in BOOLEAN
      BY <1>1
    <2>2. dirty' \in BOOLEAN
      BY <1>1 DEF SessionInv, SessionTypeOK, ControlTypeOK
    <2> QED BY <1>1, <2>1, <2>2 DEF SessionInv, SessionTypeOK, ControlTypeOK, deviceVars
  <1>3. ClearsAlone' /\ Fresh' /\ TriggersMatchFrames'
    BY <1>1 DEF SessionInv, ClearsAlone, Fresh, TriggersMatchFrames
  <1>4. Ended'
    BY <1>1 DEF SessionInv, Ended
  <1>5. CASE UNCHANGED <<data, highest, counts, current, dirty>>
    <2>1. FeedTypeOK' /\ Shape'
      BY <1>1, <1>5 DEF SessionInv, SessionTypeOK, FeedTypeOK, Shape
    <2>2. CountsFollowSegments'
      BY <1>1, <1>5 DEF SessionInv, CountsFollowSegments
    <2>3. Uniform'
      <3>1. \A t \in Sources : Len(data'[t]) = IF t \in current' \/ current' = {}
                                               THEN highest' + 1 ELSE highest'
        BY <1>1, <1>5 DEF SessionInv, Uniform
      <3>2. framed /\ inFrame => frames - 1 = IF current' = {} THEN highest' + 1 ELSE highest'
        BY <1>1, <1>5 DEF SessionInv, Uniform
      <3>3. frameBegan = inFrame /\ (inFrame => framed) /\ (~framed => frames = 0)
        BY <1>1 DEF SessionInv, Uniform
      <3> QED BY <1>1, <3>1, <3>2, <3>3 DEF Uniform, deviceVars
    <2> QED BY <1>2, <1>3, <1>4, <2>1, <2>2, <2>3 DEF SessionInv, SessionTypeOK
  <1>6. CASE /\ \E n \in 0 .. MaxSamples, h \in -1 .. MaxFrames, c \in {counts, Append(counts, 0)} :
                   /\ data' = Extended(s, n)
                   /\ data'[s][Len(data'[s])].count <= MaxSamples
                   /\ SignalNewSegment(s, h, c)
                   /\ highest' = h /\ counts' = c
             /\ current' = current \union {s}
    <2>1. PICK n \in 0 .. MaxSamples :
              data' = Extended(s, n) /\ SignalNewSegment(s, highest', counts')
      BY <1>6
    <2>2. n \in Nat
      OBVIOUS
    <2>3. /\ data' \in [Sources -> Seq(Segment)] /\ Shape'
          /\ highest' = IF current = {} THEN highest + 1 ELSE highest
          /\ counts' \in Seq(Nat) /\ Len(counts') = highest' + 1
          /\ \A t \in Sources : Len(data'[t]) = IF t \in current' THEN highest' + 1 ELSE highest'
      BY <1>1, <1>6, <2>1, <2>2, StoredSegments
    <2>4. \A i \in 1 .. Len(counts') : \E t \in Sources :
              i <= Len(data'[t]) /\ counts'[i] <= data'[t][i].count
      BY <1>1, <1>6, <2>1, <2>2, StoredCounts
    <2>5. highest \in Int /\ highest' \in Int
      BY <2>3 DEF SessionInv, SessionTypeOK, FeedTypeOK
    <2>6. FeedTypeOK'
      BY <1>1, <1>6, <2>3, <2>5 DEF SessionInv, SessionTypeOK, FeedTypeOK
    <2>7. CountsFollowSegments'
      <3>1. \A t \in Sources : Len(data'[t]) <= Len(counts')
        BY <2>3, <2>5
      <3> QED BY <1>1, <2>3, <2>4, <3>1 DEF CountsFollowSegments
    <2>8. Uniform'
      BY <1>1, <1>6, <2>3, StoredUniform
    <2> QED BY <1>2, <1>3, <1>4, <2>3, <2>6, <2>7, <2>8 DEF SessionInv, SessionTypeOK
  <1> QED BY <1>5, <1>6 DEF FeedOutOfMemory

-----------------------------------------------------------------------------
(* The theorems                                                            *)

LEMMA StepInv == SessionInv /\ [SessionNext]_sessionVars => SessionInv'
  <1> SUFFICES ASSUME SessionInv, [SessionNext]_sessionVars PROVE SessionInv'
    OBVIOUS
  <1>1. CASE Request
    BY <1>1, RequestInv
  <1>2. CASE GuiStep
    BY <1>2, CheckStateInv, JoinInv, StartCaptureInv, SetDeviceInv DEF GuiStep
  <1>3. CASE ThreadStep \/ RunFails
    BY <1>3, PrepareInv, DeviceStartInv, RunInv, ThreadStepInv DEF ThreadStep
  <1>4. CASE DataFeed
    BY <1>4, FrameBeginInv, TriggerInv, FrameEndInv, FeedInv, FeedOutOfMemoryInv DEF DataFeed
  <1>5. CASE End
    BY <1>5, EndInv
  <1>6. CASE UNCHANGED sessionVars
    <2>1. UNCHANGED <<feedVars, saved, spc, device, deviceVars, dirty, failed>>
          /\ (stopping => stopping')
      BY <1>6 DEF sessionVars, historyVars
    <2>2. FeedTypeOK'
      BY <1>6 DEF sessionVars, feedVars, SessionInv, SessionTypeOK, FeedTypeOK
    <2>3. ControlTypeOK'
      BY <1>6 DEF sessionVars, feedVars, deviceVars, historyVars, SessionInv, SessionTypeOK,
         ControlTypeOK
    <2>4. ClearsAlone'
      BY <1>6 DEF sessionVars, SessionInv, ClearsAlone
    <2> QED BY <2>1, <2>2, <2>3, <2>4, UnnoticedInv DEF SessionTypeOK
  <1> QED BY <1>1, <1>2, <1>3, <1>4, <1>5, <1>6 DEF SessionNext, Sampling

\* Wherever the two threads of a session are, the invariant holds.
THEOREM SessionInvariant == SessionSpec => []SessionInv
  BY InitInv, StepInv, PTL DEF SessionSpec

THEOREM SessionTypeCorrect == SessionSpec => []SessionTypeOK
  <1>1. SessionInv => SessionTypeOK
    BY DEF SessionInv
  <1> QED BY <1>1, SessionInvariant, PTL

\* start_capture(), set_device() and the destructor never meet the sampling thread,
\* whatever the user asked for while the thread was starting, failing or finishing.
THEOREM ClearingAlone == SessionSpec => []ClearsAlone
  <1>1. SessionInv => ClearsAlone
    BY DEF SessionInv
  <1> QED BY <1>1, SessionInvariant, PTL

\* highest_segment_id_ and segment_sample_count_ follow the sources' segments, for any
\* number of sources, frames and samples and any order of their packets.
THEOREM CountsFollow == SessionSpec => []CountsFollowSegments
  <1>1. SessionInv => CountsFollowSegments
    BY DEF SessionInv
  <1> QED BY <1>1, SessionInvariant, PTL

\* Triggers are filed under the segment of the frame the device triggered in.
THEOREM TriggersMatch == SessionSpec => []TriggersMatchFrames
  <1>1. SessionInv => TriggersMatchFrames
    BY DEF SessionInv
  <1> QED BY <1>1, SessionInvariant, PTL

\* A capture that ended regularly leaves complete segments and says what is unsaved.
THEOREM EndsRegularly == SessionSpec => []RegularEnd
  <1>1. SessionInv => RegularEnd
    <2> SUFFICES ASSUME SessionInv, spc \in {"none", "done"}, ~failed PROVE RegularEnd
      BY DEF RegularEnd
    <2>1. current = {} /\ (dirty => ~saved)
      BY DEF SessionInv, Ended
    <2>2. \A s \in Sources : \A i \in 1 .. Len(data[s]) : data[s][i].complete
      BY <2>1 DEF SessionInv, Shape
    <2> QED BY <2>1, <2>2 DEF RegularEnd
  <1> QED BY <1>1, SessionInvariant, PTL

-----------------------------------------------------------------------------
(* The sources of a session are those its consumers rely on.               *)

\* The segment in progress of a source is the one the session holds as current.
LEMMA GrowingIsCurrent ==
    ASSUME SessionInv, spc = "feeding", NEW s \in Sources
    PROVE  Source!Growing(s) <=> s \in current
  <1>1. data[s] \in Seq(Segment)
    BY DEF SessionInv, SessionTypeOK, FeedTypeOK
  <1>2. s \in current => data[s] # <<>> /\ ~data[s][Len(data[s])].complete
    BY DEF SessionInv, Shape
  <1>3. data[s] # <<>> => Len(data[s]) \in 1 .. Len(data[s])
    BY <1>1
  <1>4. data[s] # <<>> /\ ~data[s][Len(data[s])].complete => s \in current
    BY <1>3 DEF SessionInv, Shape
  <1> QED BY <1>2, <1>4 DEF Source!Growing, Source!Last

\* A packet is received by its source, or is empty.
LEMMA StoresAreReceived ==
    ASSUME SessionInv, spc = "feeding", NEW s \in Sources, NEW n \in Nat, data' = Extended(s, n)
    PROVE  Source!Receive(s) \/ data' = data
  <1>1. data \in [Sources -> Seq(Segment)] /\ (s \in current => data[s] # <<>>)
    BY DEF SessionInv, SessionTypeOK, FeedTypeOK, Shape
  <1>2. /\ Len(data'[s]) = IF s \in current THEN Len(data[s]) ELSE Len(data[s]) + 1
        /\ \A i \in 1 .. Len(data[s]) :
              data'[s][i].count = IF s \in current /\ i = Len(data[s])
                                  THEN data[s][i].count + n ELSE data[s][i].count
        /\ s \notin current => data'[s][Len(data[s]) + 1] = [count |-> n, complete |-> FALSE]
    BY <1>1, ExtendedData
  <1>3. CASE s \in current
    <2> DEFINE id == Len(data[s])
               old  == data[s][id].count
    <2>1. data[s] \in Seq(Segment) /\ data[s] # <<>>
      BY <1>1, <1>3
    <2>2. id \in 1 .. id /\ data[s][id] \in Segment
      BY <2>1, LastSegment
    <2>3. old \in Nat /\ Len(data'[s]) = id /\ data'[s][id].count = old + n
      BY <1>2, <1>3, <2>2, SegmentFields
    <2>4. data' = [data EXCEPT ![s][id].count = old + n]
      BY <1>3 DEF Extended
    <2>5. CASE n # 0
      <3>1. Source!Growing(s)
        BY <1>3, GrowingIsCurrent
      <3>2. data'[s][Len(data'[s])].count > Source!Last(s).count
        BY <2>3, <2>5 DEF Source!Last
      <3>3. data' = [data EXCEPT ![s][Len(data[s])].count = data'[s][Len(data'[s])].count]
        BY <2>3, <2>4
      <3> QED BY <2>3, <3>1, <3>2, <3>3 DEF Source!Receive
    <2>6. CASE n = 0
      <3>1. [data[s][id] EXCEPT !.count = old] = data[s][id]
        BY <2>2 DEF Segment
      <3>2. [data[s] EXCEPT ![id] = data[s][id]] = data[s]
        BY <2>1, <2>2
      <3>3. [data EXCEPT ![s] = data[s]] = data
        BY <1>1
      <3>4. old + n = old
        BY <2>3, <2>6
      <3>5. data' = [data EXCEPT ![s] = [data[s] EXCEPT ![id] = [data[s][id] EXCEPT !.count = old]]]
        BY <2>4, <3>4
      <3> QED BY <3>1, <3>2, <3>3, <3>5
    <2> QED BY <2>5, <2>6
  <1>4. CASE s \notin current
    <2>1. ~Source!Growing(s)
      BY <1>4, GrowingIsCurrent
    <2>2. data'[s][Len(data'[s])].count = n
      BY <1>2, <1>4
    <2>3. data' = [data EXCEPT ![s] = Append(@, [count |-> n, complete |-> FALSE])]
      BY <1>4 DEF Extended
    <2> QED BY <1>2, <1>4, <2>1, <2>2, <2>3 DEF Source!Receive
  <1> QED BY <1>3, <1>4

LEMMA CompletesComplete ==
    ASSUME SessionInv, spc = "feeding", CompleteCurrent PROVE Source!Complete
  <1>1. \A s \in Sources : Source!Growing(s) <=> s \in current
    BY GrowingIsCurrent
  <1> QED BY <1>1 DEF CompleteCurrent, Source!Complete

LEMMA StepMapsToStep ==
    ASSUME SessionInv, [SessionNext]_sessionVars PROVE [Source!Next]_data
  <1>1. CASE Request \/ CheckState \/ Join \/ FrameBegin \/ Trigger \/ UNCHANGED sessionVars
    BY <1>1 DEF Request, StopCapture, CheckState, Join, FrameBegin, Trigger, FeedFrame,
       sessionVars, feedVars
  <1>2. CASE StartCapture \/ SetDevice \/ Prepare
    BY <1>2 DEF StartCapture, SetDevice, Prepare, NoData, Source!Next, Source!Clear
  <1>3. CASE DeviceStart \/ Announce \/ Run \/ AnnounceStop \/ Finish \/ FailStop \/ RunFails
    BY <1>3 DEF DeviceStart, Announce, Run, AnnounceStop, Finish, FailStop, RunFails, feedVars
  <1>4. ASSUME NEW s \in Sources, Feed(s) \/ FeedOutOfMemory(s) PROVE [Source!Next]_data
    <2>1. spc = "feeding"
      BY <1>4 DEF Feed, FeedOutOfMemory
    <2>2. data' = data \/ \E n \in 0 .. MaxSamples : data' = Extended(s, n)
      BY <1>4 DEF Feed, FeedOutOfMemory
    <2>3. ASSUME NEW n \in 0 .. MaxSamples, data' = Extended(s, n)
          PROVE  Source!Receive(s) \/ data' = data
      <3>1. n \in Nat
        OBVIOUS
      <3> QED BY <2>1, <2>3, <3>1, StoresAreReceived
    <2> QED BY <2>2, <2>3 DEF Source!Next
  <1>5. CASE FrameEnd \/ End
    <2>1. spc = "feeding" /\ (data' = data \/ CompleteCurrent)
      BY <1>5 DEF FrameEnd, End
    <2> QED BY <2>1, CompletesComplete DEF Source!Next
  <1> QED BY <1>1, <1>2, <1>3, <1>4, <1>5
          DEF SessionNext, GuiStep, Sampling, ThreadStep, DataFeed

\* However packets, frames, triggers and errors interleave with stopping, restarting
\* and changing devices, the sources behave as SampleSource promises.
THEOREM ImplementsSource == SessionSpec => SourceSpec
  <1>1. Init => Source!Init
    BY DEF Init, Source!Init, NoData
  <1> QED BY <1>1, StepMapsToStep, SessionInvariant, PTL DEF SessionSpec, SourceSpec, Source!Spec

-----------------------------------------------------------------------------
(* The tools do to a session what its users do.                            *)

LEMMA StepBeside ==
    ASSUME [CaptureNext]_captureVars PROVE [SessionNext]_sessionVars
  <1>1. CASE SamplingBeside \/ UserBeside
    BY <1>1 DEF SamplingBeside, UserBeside, SessionNext, Request
  <1>2. CASE Call \/ StartTool
    BY <1>2 DEF Call, StartTool, SessionNext, Request, GuiStep
  <1>3. CASE EventsProcessed \/ Again \/ TimeOut \/ TestError \/ ReadState \/ ReadSegment
             \/ ReadCount \/ TestState
    BY <1>3 DEF EventsProcessed, Again, TimeOut, TestError, ReadState, ReadSegment,
                ReadCount, TestState
  <1>4. CASE ReadFinalSegment \/ TestCount \/ ReportSegment \/ ReadReported \/ ReportCount
             \/ Leave \/ TakeRange \/ ReadRange \/ \E id \in 0 .. MaxFrames : Ask(id)
    BY <1>4 DEF ReadFinalSegment, TestCount, ReportSegment, ReadReported, ReportCount,
                Leave, TakeRange, ReadRange, Ask
  <1>5. CASE UNCHANGED captureVars
    BY <1>5 DEF captureVars
  <1> QED BY <1>1, <1>2, <1>3, <1>4, <1>5 DEF CaptureNext, ToolStep

\* With start_capture and get_capture beside it a session does nothing that its users
\* could not have made it do.
THEOREM BesideSession == CaptureSpec => SessionSpec
  <1>1. CaptureInit => Init
    BY DEF CaptureInit
  <1> QED BY <1>1, StepBeside, PTL DEF CaptureSpec, SessionSpec

-----------------------------------------------------------------------------
(* start_capture                                                           *)

\* The state that the tool tests tells where the sampling thread is.
StateInv == state # "Stopped" <=> spc \in {"run", "feeding", "returned", "failed"}

\* Where the tool is once it has taken the acquisition for stopped.
Reporting == {"finalSegment", "finalCount", "report", "reportSegment", "reportCount"}
Reported  == tool = "leave" /\ answer.kind = "stopped"

\* The acquisition the tool has started, if any, is not newer than the last one, and if
\* it is that one its errors have been heard.
OwnInv ==
    /\ own \in Nat /\ own <= captures
    /\ own # 0 /\ captures = own /\ failed => toolError

\* From the test of the state on, the sampling thread has at most its last step to do,
\* which changes nothing of what is read.
ReportInv ==
    ~unsettled /\ (tool \in Reporting \/ Reported) =>
        /\ spc \in {"flag", "done", "none"}
        /\ tool \in {"report", "reportSegment", "reportCount", "leave"} => CountOf(highest) # 0
        /\ tool \in {"finalCount", "reportCount"} => segment = highest
        /\ tool \in {"reportSegment", "reportCount", "leave"} => answer.segment = highest
        /\ tool = "leave" => answer.count = CountOf(highest)

\* Before the first acquisition there is nothing to report.
UnusedInv == captures = 0 => spc = "none" /\ counts = <<>>

ToolPlaces == {"none", "start", "again", "events", "error", "state", "segment", "count", "final",
               "leave", "range", "read"} \union Reporting
Answers    == [kind : {"none", "error", "unfinished", "stopped", "range"}, segment : Int, count : Nat]

ToolInv ==
    /\ tool \in ToolPlaces /\ answer \in Answers /\ segment \in Int
    /\ tool \in {"none", "start"} => own = 0
    /\ tool # "leave" => answer.kind # "stopped"
    /\ StateInv /\ UnusedInv /\ OwnInv /\ ReportInv

LEMMA ToolInitially == CaptureInit => ToolInv
BY DEF CaptureInit, Init, ToolInv, ToolPlaces, Answers, Nothing, StateInv, UnusedInv, OwnInv, ReportInv,
       Reporting, Reported

\* What the sampling thread does to the state and, where it has stopped, to the rest.
LEMMA SamplingState ==
    ASSUME SessionInv, StateInv, Sampling
    PROVE  /\ StateInv' /\ captures' = captures
           /\ spc \in {"flag", "done", "none"} =>
                 spc' \in {"flag", "done", "none"} /\ UNCHANGED <<feedVars, failed>>
  <1>1. CASE Prepare \/ DeviceStart \/ Announce \/ Run
    BY <1>1 DEF Prepare, DeviceStart, Announce, Run, StateInv, ThreadFrame
  <1>2. CASE AnnounceStop \/ Finish \/ FailStop \/ RunFails \/ End
    BY <1>2 DEF AnnounceStop, Finish, FailStop, RunFails, End, StateInv, ThreadFrame, historyVars
  <1>3. CASE FrameBegin \/ Trigger \/ FrameEnd
    BY <1>3 DEF FrameBegin, Trigger, FrameEnd, StateInv, FeedFrame, ThreadFrame
  <1>4. ASSUME NEW s \in Sources, Feed(s) \/ FeedOutOfMemory(s) PROVE
               spc = "feeding" /\ spc' = spc /\ captures' = captures
               /\ state' \in {state, "Running"}
    BY <1>4 DEF Feed, FeedOutOfMemory, FeedFrame, ThreadFrame
  <1> QED BY <1>1, <1>2, <1>3, <1>4 DEF Sampling, ThreadStep, DataFeed, StateInv

LEMMA NotUsed == ASSUME spc = "none" PROVE ~Sampling
BY DEF Sampling, ThreadStep, DataFeed, Prepare, DeviceStart, Announce, Run, AnnounceStop, Finish, FailStop,
       RunFails, FrameBegin, Trigger, FrameEnd, Feed, FeedOutOfMemory, FeedFrame, End

LEMMA SamplingTools == ASSUME SessionInv, ToolInv, SamplingBeside PROVE ToolInv'
  <1>1. /\ StateInv' /\ captures' = captures
        /\ spc \in {"flag", "done", "none"} =>
              spc' \in {"flag", "done", "none"} /\ UNCHANGED <<feedVars, failed>>
    BY SamplingState DEF SamplingBeside, ToolInv
  <1>2. UNCHANGED <<tool, own, observed, readState, unsettled, segment, answer, calls>>
        /\ toolError' = (toolError \/ ReportsError)
    BY DEF SamplingBeside
  <1>3. failed' \in BOOLEAN /\ failed \in BOOLEAN
    <2>1. SessionInv'
      BY StepInv DEF SamplingBeside, SessionNext
    <2> QED BY <2>1 DEF SessionInv, SessionTypeOK, ControlTypeOK
  <1>4. OwnInv'
    BY <1>1, <1>2, <1>3 DEF ToolInv, OwnInv, ReportsError, Reported
  <1>5. ReportInv'
    BY <1>1, <1>2 DEF ToolInv, ReportInv, Reported, CountOf, feedVars
  <1>6. UnusedInv'
    BY <1>1, NotUsed DEF SamplingBeside, ToolInv, UnusedInv
  <1> QED BY <1>1, <1>2, <1>4, <1>5, <1>6 DEF ToolInv

LEMMA UserTools == ASSUME SessionInv, ToolInv, UserBeside PROVE ToolInv'
  <1>1. tool \in {"none", "events"} /\ UNCHANGED toolVars
    BY DEF UserBeside
  <1>2. captures \in Nat
    BY DEF SessionInv, SessionTypeOK, ControlTypeOK
  <1>3. StateInv' /\ captures' \in {captures, captures + 1}
        /\ (captures' = captures => (failed' => failed))
        /\ UnusedInv'
    <2>1. CASE \E next \in {"idle", "start", "device", "close"} : StopCapture(next)
      BY <2>1 DEF StopCapture, ToolInv, StateInv, UnusedInv, feedVars, historyVars
    <2>2. CASE CheckState \/ Join
      BY <2>2 DEF CheckState, Join, ToolInv, StateInv, UnusedInv, feedVars, historyVars
    <2>3. CASE StartCapture
      BY <2>3, <1>2 DEF StartCapture, SessionInv, ClearsAlone, ToolInv, StateInv, UnusedInv, historyVars, GuiFrame
    <2>4. CASE SetDevice
      BY <2>4, <1>2 DEF SetDevice, ToolInv, StateInv, UnusedInv
    <2> QED BY <2>1, <2>2, <2>3, <2>4 DEF UserBeside, GuiStep
  <1>4. OwnInv'
    BY <1>1, <1>2, <1>3 DEF ToolInv, OwnInv, toolVars, waitVars, Reported
  <1>5. ReportInv'
    BY <1>1 DEF ReportInv, toolVars, waitVars, Reporting, Reported
  <1> QED BY <1>1, <1>3, <1>4, <1>5 DEF ToolInv, toolVars, waitVars

LEMMA LaunchTools == ASSUME SessionInv, ToolInv, Call \/ StartTool PROVE ToolInv'
  <1>1. captures \in Nat
    BY DEF SessionInv, SessionTypeOK, ControlTypeOK
  <1>2. CASE Call
    BY <1>1, <1>2 DEF Call, StopCapture, ToolInv, ToolPlaces, StateInv, UnusedInv, OwnInv, ReportInv, historyVars,
       feedVars, waitVars, Reporting, Reported
  <1>3. CASE StartTool /\ (CheckState \/ Join)
    BY <1>1, <1>3 DEF StartTool, CheckState, Join, StartCapture, ToolInv, StateInv, UnusedInv, OwnInv, ReportInv,
       feedVars, historyVars, Reporting, Reported
  <1>4. CASE StartTool /\ StartCapture
    <2>1. /\ tool = "start" /\ tool' \in {"again", "leave"} /\ UNCHANGED <<unsettled, answer, segment>>
          /\ IF captures' > captures THEN own' = captures' /\ UNCHANGED toolError
                                     ELSE toolError' = TRUE /\ UNCHANGED own
      BY <1>4 DEF StartTool, CheckState, Join, StartCapture
    <2>2. spc = "none" /\ state' = state /\ spc' \in {"none", "begin"}
      BY <1>4 DEF StartCapture, SessionInv, ClearsAlone, GuiFrame
    <2>3. StateInv' /\ UnusedInv'
      BY <1>1, <1>4, <2>2 DEF ToolInv, StateInv, UnusedInv, StartCapture, historyVars
    <2>4. captures' = captures \/ (captures' = captures + 1 /\ failed' = FALSE)
      BY <1>4 DEF StartCapture
    <2>5. tool' # "none" /\ ToolPlaces' = ToolPlaces /\ tool' \in ToolPlaces
      BY <2>1 DEF ToolPlaces
    <2>6. own = 0 /\ answer.kind # "stopped"
      BY <2>1 DEF ToolInv
    <2> QED BY <1>1, <2>1, <2>2, <2>3, <2>4, <2>5, <2>6
            DEF ToolInv, OwnInv, ReportInv, Answers, Reporting, Reported
  <1> QED BY <1>2, <1>3, <1>4 DEF StartTool

\* The tool's own steps leave the session alone.
LEMMA WaitTools ==
    ASSUME SessionInv, ToolInv,
           EventsProcessed \/ Again \/ TimeOut \/ TestError \/ ReadState \/ ReadSegment \/ ReadCount
    PROVE  ToolInv'
  <1>1. /\ UNCHANGED <<sessionVars, own, toolError, unsettled>>
        /\ tool \in {"events", "error", "again", "state", "segment", "count"}
        /\ tool' \in {"events", "error", "again", "state", "segment", "count", "final", "leave"}
        /\ IF tool' = "leave" THEN answer' = [Nothing EXCEPT !.kind = "error"] ELSE UNCHANGED answer
    BY DEF EventsProcessed, Again, TimeOut, TestError, ReadState, ReadSegment, ReadCount, waitVars
  <1>2. answer' \in Answers /\ answer'.kind # "stopped"
    <2>1. [Nothing EXCEPT !.kind = "error"] = [kind |-> "error", segment |-> 0, count |-> 0]
      BY DEF Nothing
    <2> QED BY <1>1, <2>1 DEF ToolInv, Answers
  <1>3. StateInv' /\ UnusedInv'
    BY <1>1 DEF ToolInv, StateInv, UnusedInv, sessionVars, feedVars
  <1>4. OwnInv'
    BY <1>1 DEF ToolInv, OwnInv, sessionVars, historyVars, Reported
  <1>5. ReportInv'
    BY <1>1, <1>2 DEF ReportInv, Reporting, Reported
  <1>6. segment' \in Int
    BY DEF SessionInv, SessionTypeOK, FeedTypeOK, ToolInv, EventsProcessed, Again, TimeOut, TestError,
       ReadState, ReadSegment, ReadCount
  <1> QED BY <1>1, <1>2, <1>3, <1>4, <1>5, <1>6 DEF ToolInv, ToolPlaces

LEMMA ReportTools ==
    ASSUME SessionInv, ToolInv,
           TestState \/ ReadFinalSegment \/ TestCount \/ ReportSegment \/ ReadReported \/ ReportCount
    PROVE  ToolInv'
  <1>1. UNCHANGED <<sessionVars, own, toolError>>
        /\ tool \in {"final", "finalSegment", "finalCount", "report", "reportSegment", "reportCount"}
    BY DEF TestState, ReadFinalSegment, TestCount, ReportSegment, ReadReported, ReportCount, waitVars
  <1>2. answer.kind # "stopped"
    BY <1>1 DEF ToolInv
  <1>3. highest \in Int /\ counts \in Seq(Nat) /\ spc \in
           {"none", "begin", "starting", "announce", "run", "feeding", "returned", "flag", "failed", "done"}
    BY DEF SessionInv, SessionTypeOK, FeedTypeOK, ControlTypeOK
  <1>4. ASSUME NEW id \in Int PROVE CountOf(id) \in Nat
    BY <1>3 DEF CountOf
  <1>5. CountOf(highest)' = CountOf(highest) /\ highest' = highest /\ spc' = spc
    BY <1>1 DEF CountOf, sessionVars, feedVars
  <1>6. Unfinished = [kind |-> "unfinished", segment |-> 0, count |-> 0]
        /\ [Nothing EXCEPT !.segment = highest] = [kind |-> "none", segment |-> highest, count |-> 0]
    BY DEF Unfinished, Nothing
  <1>7. StateInv' /\ UnusedInv'
    BY <1>1 DEF ToolInv, StateInv, UnusedInv, sessionVars, feedVars
  <1>8. SUFFICES tool' \in ToolPlaces /\ answer' \in Answers /\ segment' \in Int /\ tool' \notin {"none", "start"}
                 /\ (tool' # "leave" => answer'.kind # "stopped") /\ ReportInv'
    <2>1. OwnInv'
      BY <1>1 DEF ToolInv, OwnInv, sessionVars, historyVars
    <2> QED BY <1>7, <1>8, <2>1 DEF ToolInv
  <1>9. CASE TestState
    <2>1. Finished /\ ~Unannounced => spc \in {"flag", "done", "none"}
      BY <1>3 DEF ToolInv, StateInv, Finished, Unannounced
    <2> QED BY <1>2, <1>5, <1>6, <1>9, <2>1
            DEF TestState, ToolInv, ToolPlaces, Answers, ReportInv, Reporting, Reported
  <1>10. CASE ReadFinalSegment
    BY <1>2, <1>3, <1>5, <1>10 DEF ReadFinalSegment, waitVars, ToolInv, ToolPlaces,
       ReportInv, Reporting, Reported
  <1>11. CASE TestCount
    <2>1. tool = "finalCount" /\ UNCHANGED <<unsettled, segment>>
          /\ IF CountOf(segment) > 0 THEN tool' = "report" /\ UNCHANGED answer
                                     ELSE tool' = "leave" /\ answer' = Unfinished
      BY <1>11 DEF TestCount, waitVars
    <2>2. ReportInv'
      <3>1. CASE tool' = "report"
        BY <1>2, <1>4, <1>3, <1>5, <2>1, <3>1 DEF ToolInv, ReportInv, Reporting, Reported
      <3>2. CASE tool' = "leave"
        BY <1>6, <2>1, <3>2 DEF ReportInv, Reporting, Reported
      <3> QED BY <2>1, <3>1, <3>2
    <2>3. tool' \in ToolPlaces /\ tool' \notin {"none", "start"} /\ segment' \in Int
      BY <2>1 DEF ToolInv, ToolPlaces, Reporting
    <2>4. answer' \in Answers /\ (tool' # "leave" => answer'.kind # "stopped")
      BY <1>2, <1>6, <2>1 DEF ToolInv, Answers
    <2> QED BY <2>2, <2>3, <2>4
  <1>12. CASE ReportSegment
    BY <1>2, <1>3, <1>5, <1>6, <1>12 DEF ReportSegment, waitVars, ToolInv, ToolPlaces, Answers,
       ReportInv, Reporting, Reported
  <1>13. CASE ReadReported
    BY <1>2, <1>3, <1>5, <1>13 DEF ReadReported, waitVars, ToolInv, ToolPlaces,
       ReportInv, Reporting, Reported
  <1>14. CASE ReportCount
    <2>1. tool = "reportCount" /\ tool' = "leave" /\ UNCHANGED <<unsettled, segment>>
          /\ answer' = [answer EXCEPT !.kind = "stopped", !.count = CountOf(segment)]
      BY <1>14 DEF ReportCount, waitVars
    <2>2. answer \in Answers
      BY DEF ToolInv
    <2>3. answer'.kind = "stopped" /\ answer'.count = CountOf(segment) /\ answer'.segment = answer.segment
      BY <2>1, <2>2 DEF Answers
    <2>4. CountOf(segment) \in Nat
      BY <1>3 DEF CountOf
    <2>5. answer' \in Answers
      BY <2>1, <2>2, <2>4 DEF Answers
    <2>6. ReportInv'
      BY <1>5, <2>1, <2>3 DEF ToolInv, ReportInv, Reporting, Reported
    <2> QED BY <2>1, <2>5, <2>6 DEF ToolPlaces, ToolInv
  <1> QED BY <1>9, <1>10, <1>11, <1>12, <1>13, <1>14

LEMMA RangeTools ==
    ASSUME SessionInv, ToolInv,
           Leave \/ TakeRange \/ ReadRange \/ \E id \in 0 .. MaxFrames : Ask(id)
    PROVE  ToolInv'
  <1>1. UNCHANGED sessionVars
    BY DEF Leave, TakeRange, ReadRange, Ask
  <1>2. StateInv' /\ UnusedInv'
    BY <1>1 DEF ToolInv, StateInv, UnusedInv, sessionVars, feedVars
  <1>3. captures \in Nat /\ counts \in Seq(Nat)
    BY DEF SessionInv, SessionTypeOK, FeedTypeOK, ControlTypeOK
  <1>4. CASE Leave
    BY <1>1, <1>2, <1>3, <1>4 DEF Leave, ToolInv, ToolPlaces, Answers, Nothing, OwnInv, ReportInv,
       Reporting, Reported, sessionVars
  <1>5. CASE TakeRange
    <2>1. tool' = "read" /\ UNCHANGED <<own, toolError, segment>>
          /\ answer' = [kind |-> "range", segment |-> segment, count |-> RangeOf(segment)]
      BY <1>5 DEF TakeRange, waitVars
    <2>2. RangeOf(segment) \in Nat
      BY <1>3 DEF RangeOf, CountOf
    <2> QED BY <1>1, <1>2, <2>1, <2>2 DEF ToolInv, ToolPlaces, Answers, OwnInv, ReportInv,
            Reporting, Reported, sessionVars, historyVars
  <1>6. CASE ReadRange \/ \E id \in 0 .. MaxFrames : Ask(id)
    BY <1>1, <1>2, <1>6 DEF ReadRange, Ask, waitVars, ToolInv, ToolPlaces, OwnInv, ReportInv,
       Reporting, Reported, sessionVars, historyVars
  <1> QED BY <1>4, <1>5, <1>6

LEMMA ToolKeeps == SessionInv /\ ToolInv /\ [CaptureNext]_captureVars => ToolInv'
  <1> SUFFICES ASSUME SessionInv, ToolInv, [CaptureNext]_captureVars PROVE ToolInv'
    OBVIOUS
  <1>1. CASE SamplingBeside BY <1>1, SamplingTools
  <1>2. CASE UserBeside BY <1>2, UserTools
  <1>3. CASE Call \/ StartTool BY <1>3, LaunchTools
  <1>4. CASE EventsProcessed \/ Again \/ TimeOut \/ TestError \/ ReadState \/ ReadSegment \/ ReadCount
    BY <1>4, WaitTools
  <1>5. CASE TestState \/ ReadFinalSegment \/ TestCount \/ ReportSegment \/ ReadReported \/ ReportCount
    BY <1>5, ReportTools
  <1>6. CASE Leave \/ TakeRange \/ ReadRange \/ \E id \in 0 .. MaxFrames : Ask(id)
    BY <1>6, RangeTools
  <1>7. CASE UNCHANGED captureVars
    BY <1>7 DEF captureVars, toolVars, waitVars, sessionVars, feedVars, historyVars, ToolInv, StateInv, UnusedInv, OwnInv,
       ReportInv, Reported, CountOf
  <1> QED BY <1>1, <1>2, <1>3, <1>4, <1>5, <1>6, <1>7 DEF CaptureNext, ToolStep

\* The places of tool and sampling thread fit together in every state, whatever the user
\* does to the capture the tool waits for.
THEOREM ToolInvariant == CaptureSpec => []ToolInv
BY ToolInitially, ToolKeeps, BesideSession, SessionInvariant, PTL DEF CaptureSpec

\* start_capture reports the acquisition it has started as stopped only if it is over,
\* with its last segment and count, and complete segments unless an error came last.
THEOREM FinishedIsReported == CaptureSpec => []ReportsFinished
  <1>1. SessionInv /\ ToolInv => ReportsFinished
    <2> SUFFICES ASSUME SessionInv, ToolInv, Reported, captures = own, ~unsettled
                 PROVE  /\ spc \in {"flag", "failed", "done", "none"}
                        /\ answer.segment = highest /\ answer.count = counts[highest + 1]
                        /\ ~toolError => \A s \in Sources : \A i \in DOMAIN data[s] : data[s][i].complete
      BY DEF ReportsFinished, Reported
    <2>1. spc \in {"flag", "done", "none"} /\ CountOf(highest) # 0 /\ answer.segment = highest
          /\ answer.count = CountOf(highest)
      BY DEF ToolInv, ReportInv, Reported
    <2>2. answer.count = counts[highest + 1]
      BY <2>1 DEF CountOf
    <2>3. ASSUME ~toolError PROVE current = {}
      <3>1. failed \in BOOLEAN
        BY DEF SessionInv, SessionTypeOK, ControlTypeOK
      <3>2. captures # 0
        <4>1. captures = 0 => CountOf(highest) = 0
          BY DEF ToolInv, UnusedInv, CountOf
        <4> QED BY <2>1, <4>1
      <3>3. ~failed
        BY <2>3, <3>1, <3>2 DEF ToolInv, OwnInv
      <3> QED BY <2>1, <3>3 DEF SessionInv, Ended
    <2>4. ASSUME ~toolError, NEW s \in Sources, NEW i \in DOMAIN data[s] PROVE data[s][i].complete
      <3>1. i \in 1 .. Len(data[s])
        BY DEF SessionInv, SessionTypeOK, FeedTypeOK
      <3> QED BY <2>3, <2>4, <3>1 DEF SessionInv, Shape
    <2> QED BY <2>1, <2>2, <2>4
  <1> QED BY <1>1, ToolInvariant, BesideSession, SessionInvariant, PTL

-----------------------------------------------------------------------------
(* get_capture                                                             *)

\* Some source has n samples in its i-th segment.
Covers(i, n) == \E s \in Sources : i <= Len(data[s]) /\ n <= data[s][i].count

\* The counts that are left between two acquisitions are those of the data, unless these
\* have been cleared for another device.
LeftInv == spc = "none" => data = NoData \/ \A i \in 1 .. Len(counts) : Covers(i, counts[i])

\* A range that was taken is covered by some source as long as it is read.
ReadInv ==
    /\ tool \in {"range", "read"} => segment \in Nat
    /\ tool = "read" => answer.count \in Nat
    /\ tool = "read" /\ answer.count # 0 =>
          /\ spc \notin {"begin", "starting", "announce", "run"}
          /\ Covers(segment + 1, answer.count) \/ (spc = "none" /\ data = NoData)

\* While the device runs, and when it has, the segments that are there only grow.
LEMMA SegmentsGrow ==
    ASSUME SessionInv, Sampling, spc # "begin"
    PROVE  \A s \in Sources : \A i \in 1 .. Len(data[s]) :
              i <= Len(data'[s]) /\ data[s][i].count <= data'[s][i].count
  <1>1. data \in [Sources -> Seq(Segment)]
    BY DEF SessionInv, SessionTypeOK, FeedTypeOK
  <1>2. ASSUME NEW s \in Sources, NEW i \in 1 .. Len(data[s]) PROVE data[s][i].count \in Nat
    <2>1. data[s][i] \in Segment
      BY <1>1, <1>2
    <2> QED BY <2>1 DEF Segment
  <1>3. CASE data' = data
    BY <1>1, <1>2, <1>3
  <1>4. ASSUME NEW s \in Sources, spc = "feeding", NEW n \in Nat, data' = Extended(s, n)
        PROVE  \A t \in Sources : \A i \in 1 .. Len(data[t]) :
                  i <= Len(data'[t]) /\ data[t][i].count <= data'[t][i].count
    <2>1. s \in current => data[s] # <<>>
      BY <1>4 DEF SessionInv, Shape
    <2> DEFINE after == Extended(s, n)
    <2>2. /\ data' \in [Sources -> Seq(Segment)]
          /\ \A t \in Sources : t # s => data'[t] = data[t]
          /\ Len(data'[s]) = IF s \in current THEN Len(data[s]) ELSE Len(data[s]) + 1
          /\ \A i \in 1 .. Len(data[s]) :
                /\ data'[s][i].complete = data[s][i].complete
                /\ data'[s][i].count = IF s \in current /\ i = Len(data[s])
                                       THEN data[s][i].count + n ELSE data[s][i].count
          /\ s \notin current => data'[s][Len(data[s]) + 1] = [count |-> n, complete |-> FALSE]
      <3>1. /\ after \in [Sources -> Seq(Segment)]
            /\ \A t \in Sources : t # s => after[t] = data[t]
            /\ Len(after[s]) = IF s \in current THEN Len(data[s]) ELSE Len(data[s]) + 1
            /\ \A i \in 1 .. Len(data[s]) :
                  /\ after[s][i].complete = data[s][i].complete
                  /\ after[s][i].count = IF s \in current /\ i = Len(data[s])
                                         THEN data[s][i].count + n ELSE data[s][i].count
            /\ s \notin current => after[s][Len(data[s]) + 1] = [count |-> n, complete |-> FALSE]
        BY <1>1, <2>1, ExtendedData
      <3> QED BY <1>4, <3>1
    <2>3. ASSUME NEW t \in Sources, NEW i \in 1 .. Len(data[t])
          PROVE  i <= Len(data'[t]) /\ data[t][i].count <= data'[t][i].count
      <3>1. Len(data[t]) \in Nat /\ data[t][i].count \in Nat /\ i \in Nat
        BY <1>1, <1>2, <2>3
      <3>2. CASE t # s
        BY <2>2, <3>1, <3>2
      <3>3. CASE t = s
        <4>1. data'[s][i].count = data[s][i].count \/ data'[s][i].count = data[s][i].count + n
          BY <2>2, <2>3, <3>3
        <4>2. Len(data'[s]) = Len(data[s]) \/ Len(data'[s]) = Len(data[s]) + 1
          BY <2>2
        <4> QED BY <1>4, <2>3, <3>1, <3>3, <4>1, <4>2
      <3> QED BY <3>2, <3>3
    <2> QED BY <2>3
  <1>5. CASE spc = "feeding" /\ CompleteCurrent
    <2>1. \A s \in Sources : s \in current => data[s] # <<>>
      BY <1>5 DEF SessionInv, Shape
    <2>2. \A s \in Sources : Len(data'[s]) = Len(data[s])
            /\ \A i \in 1 .. Len(data[s]) : data'[s][i].count = data[s][i].count
      BY <1>1, <1>5, <2>1, CompletedData
    <2>3. ASSUME NEW s \in Sources, NEW i \in 1 .. Len(data[s])
          PROVE  i <= Len(data'[s]) /\ data[s][i].count <= data'[s][i].count
      <3>1. Len(data[s]) \in Nat /\ data[s][i].count \in Nat /\ i \in Nat
        BY <1>1, <1>2, <2>3
      <3> QED BY <2>2, <2>3, <3>1
    <2> QED BY <2>3
  <1>6. CASE DeviceStart \/ Announce \/ Run \/ AnnounceStop \/ Finish \/ FailStop \/ RunFails
             \/ FrameBegin \/ Trigger
    BY <1>3, <1>6 DEF DeviceStart, Announce, Run, AnnounceStop, Finish, FailStop, RunFails, feedVars,
       FrameBegin, Trigger
  <1>7. CASE FrameEnd \/ End
    BY <1>3, <1>5, <1>7 DEF FrameEnd, End
  <1>8. ASSUME NEW s \in Sources, Feed(s) \/ FeedOutOfMemory(s)
        PROVE  data' = data \/ (spc = "feeding" /\ \E n \in 0 .. MaxSamples : data' = Extended(s, n))
    BY <1>8 DEF Feed, FeedOutOfMemory
  <1> QED BY <1>3, <1>4, <1>6, <1>7, <1>8 DEF Sampling, ThreadStep, DataFeed, Prepare

LEMMA CoveredWhileSampling ==
    ASSUME SessionInv, Sampling, spc # "begin", NEW i \in Nat \ {0}, NEW n \in Nat, Covers(i, n)
    PROVE  Covers(i, n)'
  <1>1. PICK s \in Sources : i <= Len(data[s]) /\ n <= data[s][i].count
    BY DEF Covers
  <1>2. data \in [Sources -> Seq(Segment)] /\ data' \in [Sources -> Seq(Segment)]
    <2>1. SessionInv'
      BY StepInv DEF SessionNext
    <2> QED BY <2>1 DEF SessionInv, SessionTypeOK, FeedTypeOK
  <1>3. i \in 1 .. Len(data[s]) /\ i <= Len(data'[s]) /\ data[s][i].count <= data'[s][i].count
    BY <1>1, <1>2, SegmentsGrow
  <1>4. data[s][i] \in Segment /\ data'[s][i] \in Segment
    BY <1>2, <1>3
  <1>5. data[s][i].count \in Nat /\ data'[s][i].count \in Nat
    BY <1>4 DEF Segment
  <1> QED BY <1>1, <1>3, <1>5 DEF Covers

LEMMA LeftKeeps == SessionInv /\ LeftInv /\ [SessionNext]_sessionVars => LeftInv'
  <1> SUFFICES ASSUME SessionInv, LeftInv, [SessionNext]_sessionVars, spc' = "none"
               PROVE  (data = NoData \/ \A i \in 1 .. Len(counts) : Covers(i, counts[i]))'
    BY DEF LeftInv
  <1>1. CASE spc = "none" /\ UNCHANGED <<data, counts>>
    BY <1>1 DEF LeftInv, Covers, NoData
  <1>2. CASE Join
    <2>1. UNCHANGED <<data, counts>> /\ spc \in {"none", "done"}
      BY <1>2 DEF Join, Joinable, feedVars
    <2>2. spc = "done" => \A i \in 1 .. Len(counts) : Covers(i, counts[i])
      BY DEF SessionInv, CountsFollowSegments, Covers
    <2> QED BY <1>1, <2>1, <2>2 DEF Covers
  <1>3. CASE SetDevice
    BY <1>3 DEF SetDevice, NoData
  <1>4. CASE StartCapture
    BY <1>1, <1>4 DEF StartCapture
  <1>5. CASE Request \/ CheckState \/ UNCHANGED sessionVars
    BY <1>1, <1>5 DEF Request, StopCapture, CheckState, sessionVars, feedVars
  <1>6. ~Sampling
    BY DEF Sampling, ThreadStep, DataFeed, Prepare, DeviceStart, Announce, Run, AnnounceStop, Finish, FailStop,
       RunFails, FrameBegin, Trigger, FrameEnd, Feed, FeedOutOfMemory, FeedFrame, End
  <1> QED BY <1>2, <1>3, <1>4, <1>5, <1>6 DEF SessionNext, GuiStep

LEMMA TakenIsCovered ==
    ASSUME SessionInv, LeftInv, ReadInv, TakeRange PROVE ReadInv'
  <1>1. /\ UNCHANGED sessionVars /\ segment' = segment /\ segment \in Nat
        /\ tool' = "read" /\ answer'.count = CountOf(segment)
    BY DEF TakeRange, RangeOf, ReadInv
  <1>2. counts \in Seq(Nat)
    BY DEF SessionInv, SessionTypeOK, FeedTypeOK
  <1>3. CountOf(segment) \in Nat
    BY <1>1, <1>2 DEF CountOf
  <1>4. ASSUME CountOf(segment) # 0
        PROVE  /\ spc \notin {"begin", "starting", "announce", "run"}
               /\ Covers(segment + 1, CountOf(segment)) \/ (spc = "none" /\ data = NoData)
    <2>1. segment + 1 \in 1 .. Len(counts) /\ CountOf(segment) = counts[segment + 1]
      BY <1>1, <1>2, <1>4 DEF CountOf
    <2>2. counts # <<>>
      BY <2>1, <1>2
    <2>3. spc \notin {"begin", "starting", "announce", "run"}
      BY <2>2 DEF SessionInv, Fresh
    <2>4. spc # "none" => Covers(segment + 1, counts[segment + 1])
      BY <2>1, <2>3 DEF SessionInv, CountsFollowSegments, Covers
    <2> QED BY <2>1, <2>3, <2>4 DEF LeftInv
  <1> QED BY <1>1, <1>3, <1>4 DEF ReadInv, Covers, NoData, sessionVars, feedVars

LEMMA ReadKeeps ==
    SessionInv /\ LeftInv /\ ReadInv /\ [CaptureNext]_captureVars => ReadInv'
  <1> SUFFICES ASSUME SessionInv, LeftInv, ReadInv, [CaptureNext]_captureVars PROVE ReadInv'
    OBVIOUS
  <1>1. CASE SamplingBeside
    <2>1. Sampling /\ UNCHANGED <<tool, segment, answer>>
      BY <1>1 DEF SamplingBeside
    <2>2. spc # "none"
      BY <2>1, NotUsed
    <2>3. spc \notin {"begin", "starting", "announce", "run"} =>
             spc' \notin {"begin", "starting", "announce", "run"}
      BY <2>1 DEF Sampling, ThreadStep, DataFeed, Prepare, DeviceStart, Announce, Run, AnnounceStop,
         Finish, FailStop, RunFails, FrameBegin, Trigger, FrameEnd, Feed, FeedOutOfMemory, FeedFrame, End
    <2>4. ASSUME tool = "read", answer.count # 0 PROVE Covers(segment + 1, answer.count)'
      <3>1. Covers(segment + 1, answer.count) /\ spc # "begin"
            /\ segment + 1 \in Nat \ {0} /\ answer.count \in Nat
        BY <2>2, <2>4 DEF ReadInv
      <3> DEFINE i == segment + 1
                 n == answer.count
      <3>2. \E s \in Sources : i <= Len(data'[s]) /\ n <= data'[s][i].count
        <4> HIDE DEF i, n
        <4>1. i \in Nat \ {0} /\ n \in Nat /\ Covers(i, n)
          BY <3>1 DEF i, n
        <4> QED BY <2>1, <3>1, <4>1, CoveredWhileSampling DEF Covers
      <3> QED BY <2>1, <3>2 DEF Covers
    <2> QED BY <2>1, <2>3, <2>4 DEF ReadInv
  <1>2. CASE TakeRange BY <1>2, TakenIsCovered
  <1>3. ASSUME NEW id \in 0 .. MaxFrames, Ask(id) PROVE ReadInv'
    BY <1>3 DEF Ask, ReadInv
  <1>4. CASE ReadRange \/ Leave \/ Call \/ StartTool \/ EventsProcessed \/ Again \/ TimeOut \/ TestError
             \/ ReadState \/ ReadSegment \/ ReadCount
    BY <1>4 DEF ReadRange, Leave, Call, StartTool, EventsProcessed, Again, TimeOut, TestError, ReadState,
       ReadSegment, ReadCount, ReadInv
  <1>5. CASE TestState \/ ReadFinalSegment \/ TestCount \/ ReportSegment \/ ReadReported \/ ReportCount
    BY <1>5 DEF TestState, ReadFinalSegment, TestCount, ReportSegment, ReadReported, ReportCount, ReadInv
  <1>6. CASE UserBeside
    BY <1>6 DEF UserBeside, toolVars, ReadInv
  <1>7. CASE UNCHANGED captureVars
    BY <1>7 DEF captureVars, toolVars, sessionVars, feedVars, ReadInv, Covers, NoData
  <1> QED BY <1>1, <1>2, <1>3, <1>4, <1>5, <1>6, <1>7 DEF CaptureNext, ToolStep

\* get_capture reads no further than the logic segment goes if that is the longest one,
\* however the data grow or are cleared between its steps.
THEOREM RangeIsHeld == CaptureSpec => []RangeHeld
  <1>1. CaptureInit => LeftInv /\ ReadInv
    BY DEF CaptureInit, Init, LeftInv, ReadInv
  <1>2. SessionInv /\ ReadInv => RangeHeld
    <2> SUFFICES ASSUME SessionInv, ReadInv, tool = "read", LogicData \in Sources,
                        segment < Len(data[LogicData]),
                        \A s \in Sources : segment < Len(data[s]) =>
                            data[s][segment + 1].count <= data[LogicData][segment + 1].count
                 PROVE  answer.count <= data[LogicData][segment + 1].count
      BY DEF RangeHeld
    <2>1. data \in [Sources -> Seq(Segment)] /\ segment \in Nat /\ answer.count \in Nat
      BY DEF SessionInv, SessionTypeOK, FeedTypeOK, ReadInv
    <2>2. ASSUME NEW s \in Sources, segment < Len(data[s]) PROVE data[s][segment + 1].count \in Nat
      <3>1. data[s][segment + 1] \in Segment
        BY <2>1, <2>2
      <3> QED BY <3>1 DEF Segment
    <2>3. data # NoData
      BY <2>1 DEF NoData
    <2>4. ASSUME answer.count # 0
          PROVE  \E s \in Sources : segment < Len(data[s]) /\ answer.count <= data[s][segment + 1].count
      BY <2>1, <2>3, <2>4 DEF ReadInv, Covers
    <2> QED BY <2>1, <2>2, <2>4
  <1>3. SessionInv /\ LeftInv /\ [CaptureNext]_captureVars => LeftInv'
    BY StepBeside, LeftKeeps
  <1> QED BY <1>1, <1>2, <1>3, ReadKeeps, BesideSession, SessionInvariant, PTL DEF CaptureSpec

-----------------------------------------------------------------------------
(* Storing.  A queued announcement of progress implies that the store      *)
(* thread has counted its units or has finished.                           *)

Signals == {"progress", "successful", "delete"}

Writing == xpc \in {"begin", "loop", "block"}

Written == xpc \in {"end", "zero", "zeroed", "notify", "done"}

\* What the store needs to know of the session: data are emptied only for a new
\* acquisition or device, and a current segment is there.
DataInv ==
    /\ data \in [Sources -> Seq(Segment)] /\ captures \in Nat
    /\ goal \in {"idle", "start", "device", "close", "export"}
    /\ gpc \in {"start", "device"} => spc = "none"
    /\ spc \in {"begin", "starting", "announce", "run"} => data = NoData
    /\ spc \in {"starting", "announce", "run"} => current = {}
    /\ spc = "feeding" => \A s \in Sources : s \in current => data[s] # <<>>

\* From the first look at the segments on, they are held.
Held == xpc = "launching" \/ Writing \/ Written

\* The segments held are those of their acquisition while it lasts, and hold the range.
KeptInv ==
    Held =>
        /\ keptOf <= captures
        /\ keptOf = captures =>
              \A s \in Sources : data[s] # <<>> /\ kept[s] = data[s][1].count
        /\ ~uneven /\ ~wrapped /\ ~Written => \A s \in Sources : start + left <= kept[s]

OverreadInv ==
    /\ overread => uneven \/ wrapped
    /\ ~(Writing \/ Written) => ~overread

\* What has been written and what is left are together what is wanted.
FileInv ==
    Held =>
        /\ Len(written) <= start
        /\ \A i \in 1 .. Len(written) : written[i] = start - Len(written) + i - 1
        /\ ~wrapped => wanted = (start - Len(written)) .. (start + left - 1)
        /\ Written /\ ~interrupt /\ ~xerror => left = 0

\* An announcement of progress is queued, or being served, only if there are units left
\* to count or the thread has finished.
Announced ==
    \/ xpc \in {"loop", "block", "end", "zero"} /\ units > 0
    \/ xpc \in {"zeroed", "notify", "done"}

QueueInv ==
    /\ \A i \in 1 .. Len(signals) :
        /\ signals[i] = "progress" => Announced /\ mode = "dialog"
        /\ signals[i] = "delete" => mode = "dialog" /\ (Writing \/ Written)
    /\ gpc = "progress" =>
        /\ Announced /\ mode = "dialog"
        /\ seen[1] = "units" /\ seen[2] = 0 => xpc \in {"zeroed", "notify", "done"}
    /\ gpc = "close dialog" => mode = "dialog" /\ (Writing \/ Written)
    /\ xpc = "block" => left > 0
    /\ xpc \in {"loop", "block", "end", "zero"} => left <= units

\* A file is asked for while nothing else is written.
ExportInv ==
    /\ goal = "export" => gpc \in {"stop", "join"}
    /\ goal = "export" \/ gpc = "export" => xpc = "none"

\* start() has taken its range, and the GUI thread is in it.
LaunchInv == gpc = "launch" <=> xpc = "launching"

StoreInv == ExportInv /\ LaunchInv /\ DataInv /\ StoreTypeOK /\ KeptInv /\ OverreadInv /\ FileInv /\ QueueInv

\* What a step of the session may do to the data.
DataGrows ==
    \/ captures' = captures + 1
    \/ /\ captures' = captures
       /\ \A s \in Sources :
            data[s] # <<>> => data'[s] # <<>> /\ data'[s][1].count >= data[s][1].count

-----------------------------------------------------------------------------
(* The session's part. *)

LEMMA FirstCount ==
    ASSUME NEW segments \in Seq(Segment), segments # <<>>
    PROVE  Len(segments) \in Nat /\ Len(segments) >= 1 /\ segments[1].count \in Nat
<1>1. segments[1] \in Segment /\ Len(segments) >= 1 OBVIOUS
<1> QED BY <1>1 DEF Segment

LEMMA DataStays ==
    ASSUME DataInv, UNCHANGED <<data, current, captures>>,
           goal' \in {"idle", "start", "device", "close", "export"},
           gpc' \in {"start", "device"} => spc' = "none",
           spc' = spc \/ spc' \in {"none", "returned", "flag", "failed", "done"}
                      \/ (spc = "starting" /\ spc' = "announce")
                      \/ (spc = "announce" /\ spc' = "run") \/ (spc = "run" /\ spc' = "feeding")
    PROVE  DataInv' /\ DataGrows
<1>1. \A s \in Sources : data[s] # <<>> => data[s][1].count \in Nat
  BY FirstCount DEF DataInv
<1>2. DataGrows BY <1>1 DEF DataGrows
<1> QED BY <1>2 DEF DataInv

LEMMA GuiKeepsData ==
    ASSUME DataInv, Request \/ GuiStep
    PROVE  DataInv' /\ DataGrows
<1>1. ASSUME NEW next \in {"idle", "start", "device", "close"}, StopCapture(next)
      PROVE DataInv' /\ DataGrows
  BY <1>1, DataStays DEF StopCapture, feedVars
<1>2. CASE CheckState BY <1>2, DataStays DEF CheckState, feedVars, DataInv
<1>3. CASE Join BY <1>3, DataStays DEF Join, Joinable, feedVars, DataInv
<1>4. CASE StartCapture
  <2>1. CASE UNCHANGED <<data, spc, captures>>
    BY <1>4, <2>1, DataStays DEF StartCapture, GuiFrame, DataInv
  <2>2. CASE data' = NoData /\ spc' = "begin" /\ captures' = captures + 1
    BY <1>4, <2>2, EmptyTyped DEF StartCapture, DataInv, DataGrows
  <2> QED BY <1>4, <2>1, <2>2 DEF StartCapture
<1>5. CASE SetDevice
  BY <1>5, EmptyTyped DEF SetDevice, DataInv, DataGrows
<1> QED BY <1>1, <1>2, <1>3, <1>4, <1>5 DEF Request, GuiStep

\* What n more samples do to a source.
LEMMA FirstExtended ==
    ASSUME data \in [Sources -> Seq(Segment)], NEW s \in Sources,
           s \in current => data[s] # <<>>, NEW n \in Nat
    PROVE  LET D == Extended(s, n) IN
           /\ D \in [Sources -> Seq(Segment)]
           /\ \A t \in Sources : t # s => D[t] = data[t]
           /\ D[s] # <<>>
           /\ data[s] # <<>> => D[s][1].count >= data[s][1].count
<1> DEFINE D == Extended(s, n)
<1>0. data[s] \in Seq(Segment) OBVIOUS
<1>1. D \in [Sources -> Seq(Segment)] /\ \A t \in Sources : t # s => D[t] = data[t]
  <2>1. Extended(s, n) \in [Sources -> Seq(Segment)] BY ExtendedData
  <2>2. \A t \in Sources : t # s => Extended(s, n)[t] = data[t] BY DEF Extended
  <2> QED BY <2>1, <2>2
<1>2. CASE s \in current
  <2> DEFINE last == data[s][Len(data[s])]
             grown == [last EXCEPT !.count = @ + n]
             segments == [data[s] EXCEPT ![Len(data[s])] = grown]
  <2>1. last \in Segment BY <1>0, <1>2, LastSegment
  <2>2. grown \in Segment /\ grown.count = last.count + n /\ last.count \in Nat
    BY <2>1, SegmentFields
  <2>3. D[s] = segments BY <1>2 DEF Extended
  <2>4. /\ segments \in Seq(Segment) /\ Len(segments) = Len(data[s])
        /\ \A i \in 1 .. Len(data[s]) :
              segments[i] = IF i = Len(data[s]) THEN grown ELSE data[s][i]
    <3> HIDE DEF grown
    <3> QED BY <1>0, <1>2, <2>2, LastReplaced
  <2> HIDE DEF segments, grown, D
  <2>5. Len(data[s]) >= 1 /\ data[s][1].count \in Nat BY <1>0, <1>2, FirstCount
  <2>6. segments[1].count >= data[s][1].count
    <3>1. CASE Len(data[s]) = 1 BY <2>2, <2>4, <2>5, <3>1
    <3>2. CASE Len(data[s]) # 1
      <4>1. segments[1] = data[s][1] BY <1>0, <2>4, <2>5, <3>2
      <4> QED BY <2>5, <4>1
    <3> QED BY <3>1, <3>2
  <2>7. segments # <<>> BY <2>4, <2>5
  <2> QED BY <1>1, <2>3, <2>6, <2>7 DEF D
<1>3. CASE s \notin current
  <2> DEFINE new == [count |-> n, complete |-> FALSE]
             segments == Append(data[s], new)
  <2>1. new \in Segment BY DEF Segment
  <2>2. D[s] = segments BY <1>3 DEF Extended
  <2>3. /\ segments \in Seq(Segment) /\ Len(segments) = Len(data[s]) + 1
        /\ \A i \in 1 .. Len(data[s]) : segments[i] = data[s][i]
    <3> HIDE DEF new
    <3> QED BY <1>0, <2>1, Appended
  <2> HIDE DEF segments, D
  <2>4. segments # <<>> BY <1>0, <2>3
  <2>5. data[s] # <<>> => segments[1] = data[s][1] /\ data[s][1].count \in Nat
    BY <1>0, <2>3, FirstCount
  <2>6. data[s] # <<>> => segments[1].count >= data[s][1].count BY <2>5
  <2> QED BY <1>1, <2>2, <2>4, <2>6 DEF D
<1> QED BY <1>2, <1>3

\* A packet with samples, stored as a whole or in part.
LEMMA StoredGrows ==
    ASSUME DataInv, spc = "feeding", spc' = spc, NEW s \in Sources, NEW n \in Nat,
           data' = Extended(s, n), current' = current \union {s},
           UNCHANGED <<captures, gpc, goal>>
    PROVE  DataInv' /\ DataGrows
<1>1. data \in [Sources -> Seq(Segment)] /\ (s \in current => data[s] # <<>>) BY DEF DataInv
<1>2. /\ data' \in [Sources -> Seq(Segment)]
      /\ \A t \in Sources : t # s => data'[t] = data[t]
      /\ data'[s] # <<>>
      /\ data[s] # <<>> => data'[s][1].count >= data[s][1].count
  BY <1>1, FirstExtended
<1>3. ASSUME NEW t \in Sources, data[t] # <<>>
      PROVE  data'[t] # <<>> /\ data'[t][1].count >= data[t][1].count
  <2>1. data[t][1].count \in Nat BY <1>1, <1>3, FirstCount
  <2> QED BY <1>2, <1>3, <2>1
<1>4. DataGrows BY <1>3 DEF DataGrows
<1>5. \A t \in Sources : t \in current' => data'[t] # <<>>
  BY <1>2, <1>3 DEF DataInv
<1> QED BY <1>2, <1>4, <1>5 DEF DataInv

LEMMA CompletedGrows ==
    ASSUME DataInv, spc = "feeding", CompleteCurrent, spc' \in {"feeding", "returned"},
           UNCHANGED <<captures, gpc, goal>>
    PROVE  DataInv' /\ DataGrows
<1>1. /\ data' \in [Sources -> Seq(Segment)] /\ current' = {}
      /\ \A s \in Sources :
            /\ Len(data'[s]) = Len(data[s])
            /\ \A i \in 1 .. Len(data[s]) : data'[s][i].count = data[s][i].count
  BY CompletedData DEF DataInv
<1>2. ASSUME NEW t \in Sources, data[t] # <<>>
      PROVE  data'[t] # <<>> /\ data'[t][1].count >= data[t][1].count
  <2>1. data[t] \in Seq(Segment) /\ data'[t] \in Seq(Segment) BY <1>1 DEF DataInv
  <2>2. 1 \in 1 .. Len(data[t]) /\ data[t][1].count \in Nat BY <1>2, <2>1, FirstCount
  <2>3. data'[t][1].count = data[t][1].count /\ Len(data'[t]) >= 1 BY <1>1, <2>1, <2>2
  <2> QED BY <2>1, <2>2, <2>3
<1>3. DataGrows BY <1>2 DEF DataGrows
<1> QED BY <1>1, <1>3 DEF DataInv

LEMMA SamplingKeepsData ==
    ASSUME DataInv, Sampling
    PROVE  DataInv' /\ DataGrows
<1>1. CASE Prepare
  <2>1. data' = NoData /\ data = NoData /\ UNCHANGED <<captures, gpc, goal>>
    BY <1>1 DEF Prepare, ThreadFrame, DataInv
  <2>2. \A s \in Sources : data[s] = <<>> BY <2>1 DEF NoData
  <2>3. DataGrows BY <2>1, <2>2 DEF DataGrows
  <2> QED BY <1>1, <2>1, <2>3 DEF Prepare, DataInv
<1>2. CASE DeviceStart \/ Announce \/ Run \/ AnnounceStop \/ Finish \/ FailStop \/ RunFails
  BY <1>2, DataStays
  DEF DeviceStart, Announce, Run, AnnounceStop, Finish, FailStop, RunFails, ThreadFrame,
      feedVars, DataInv
<1>3. CASE FrameBegin \/ Trigger
  BY <1>3, DataStays DEF FrameBegin, Trigger, FeedFrame, ThreadFrame, DataInv
<1>4. CASE FrameEnd
  <2>1. CASE CompleteCurrent
    BY <1>4, <2>1, CompletedGrows DEF FrameEnd, FeedFrame, ThreadFrame
  <2>2. CASE UNCHANGED <<data, current>>
    BY <1>4, <2>2, DataStays DEF FrameEnd, FeedFrame, ThreadFrame, DataInv
  <2> QED BY <1>4, <2>1, <2>2 DEF FrameEnd
<1>5. ASSUME NEW s \in Sources, Feed(s) PROVE DataInv' /\ DataGrows
  <2>1. PICK n \in 1 .. MaxSamples : data' = Extended(s, n) BY <1>5 DEF Feed
  <2>2. n \in Nat BY SessionAssumption
  <2> QED BY <1>5, <2>1, <2>2, StoredGrows DEF Feed, FeedFrame, ThreadFrame
<1>6. ASSUME NEW s \in Sources, FeedOutOfMemory(s) PROVE DataInv' /\ DataGrows
  <2>1. spc = "feeding" /\ UNCHANGED <<spc, captures, gpc, goal>>
    BY <1>6 DEF FeedOutOfMemory, FeedFrame, ThreadFrame
  <2>2. CASE UNCHANGED <<data, current>>
    BY <2>1, <2>2, DataStays DEF DataInv
  <2>3. ASSUME NEW n \in 0 .. MaxSamples, data' = Extended(s, n), current' = current \union {s}
        PROVE DataInv' /\ DataGrows
    <3>1. n \in Nat BY SessionAssumption
    <3> QED BY <2>1, <2>3, <3>1, StoredGrows
  <2>4. \/ UNCHANGED <<data, current>>
        \/ \E n \in 0 .. MaxSamples : data' = Extended(s, n) /\ current' = current \union {s}
    BY <1>6 DEF FeedOutOfMemory
  <2> QED BY <2>2, <2>3, <2>4
<1>7. CASE End BY <1>7, CompletedGrows DEF End, ThreadFrame
<1> QED BY <1>1, <1>2, <1>3, <1>4, <1>5, <1>6, <1>7 DEF Sampling, ThreadStep, DataFeed

LEMMA SessionKeepsData ==
    ASSUME DataInv, SessionNext
    PROVE  /\ DataInv' /\ DataGrows
           /\ gpc \in {"progress", "close dialog", "launch"} => gpc' = gpc
           /\ gpc' \in {"progress", "close dialog", "launch"} => gpc' = gpc
           /\ ExportInv /\ xpc' = xpc => ExportInv'
<1>1. DataInv' /\ DataGrows BY GuiKeepsData, SamplingKeepsData DEF SessionNext
<1>2. CASE Request \/ GuiStep
  <2>1. /\ gpc \notin {"progress", "close dialog", "launch"}
        /\ gpc' \notin {"progress", "close dialog", "launch"}
    BY <1>2 DEF Request, GuiStep, StopCapture, CheckState, Join, StartCapture, SetDevice, DataInv
  <2>2. ExportInv /\ xpc' = xpc => ExportInv'
    BY <1>2
    DEF Request, GuiStep, StopCapture, CheckState, Join, StartCapture, SetDevice, ExportInv
  <2> QED BY <1>1, <2>1, <2>2
<1>3. CASE Sampling
  <2>1. gpc' = gpc /\ goal' = goal
    BY <1>3 DEF Sampling, ThreadStep, DataFeed, Prepare, DeviceStart, Announce, Run, AnnounceStop,
       Finish, FailStop, RunFails, FrameBegin, Trigger, FrameEnd, Feed, FeedOutOfMemory, End,
       FeedFrame, ThreadFrame
  <2> QED BY <1>1, <2>1 DEF ExportInv
<1> QED BY <1>2, <1>3 DEF SessionNext

LEMMA HoldingKeeps ==
    ASSUME StoreInv, SessionNext, Holding
    PROVE  StoreInv'
<1>1. DataInv' /\ DataGrows BY SessionKeepsData DEF StoreInv
<1>2. /\ gpc \in {"progress", "close dialog", "launch"} => gpc' = gpc
      /\ gpc' \in {"progress", "close dialog", "launch"} => gpc' = gpc
      /\ kept \in [Sources -> Nat] /\ keptOf \in Nat /\ captures \in Nat
      /\ start \in Nat /\ left \in Nat
  BY SessionKeepsData DEF StoreInv, StoreTypeOK, DataInv
<1>3. /\ UNCHANGED <<xpc, keptOf, start, left, written, wanted, uneven, wrapped, units, stored, interrupt,
                     xerror, signals, mode, seen, overread, stores>>
      /\ kept' = [s \in Sources |-> IF xpc \notin {"none", "asking"} /\ keptOf = captures' /\ data'[s] # <<>>
                                    THEN data'[s][1].count ELSE kept[s]]
  BY DEF Holding, dialogVars
<1>4. \A s \in Sources : data'[s] # <<>> => data'[s][1].count \in Nat
  BY <1>1, FirstCount DEF DataInv
<1>5. kept' \in [Sources -> Nat] BY <1>2, <1>3, <1>4
<1>6. StoreTypeOK' BY <1>3, <1>5 DEF StoreInv, StoreTypeOK
<1>11. \/ captures' = captures + 1
       \/ /\ captures' = captures
          /\ \A s \in Sources :
               data[s] # <<>> => data'[s] # <<>> /\ data'[s][1].count >= data[s][1].count
  BY <1>1 DEF DataGrows
<1>12. captures' = captures + 1 \/ captures' = captures BY <1>11
<1>13. keptOf \in Nat /\ captures \in Nat BY <1>2
<1>14. start \in Nat /\ left \in Nat BY <1>2
<1>7. ASSUME Held
      PROVE  /\ keptOf <= captures'
             /\ keptOf = captures' => \A s \in Sources : data'[s] # <<>> /\ kept'[s] = data'[s][1].count
             /\ \A s \in Sources : kept'[s] >= kept[s]
  <2>1. keptOf <= captures BY <1>7 DEF StoreInv, KeptInv
  <2>2. xpc \notin {"none", "asking"} BY <1>7 DEF Held, Writing, Written
  <2>3. CASE keptOf = captures'
    <3>1. captures' = captures BY <1>12, <1>13, <2>1, <2>3
    <3>2. \A s \in Sources : data[s] # <<>> /\ kept[s] = data[s][1].count
      BY <1>7, <2>3, <3>1 DEF StoreInv, KeptInv
    <3>5. \A s \in Sources : data[s][1].count \in Nat BY <3>2, FirstCount DEF StoreInv, DataInv
    <3>3. \A s \in Sources : data'[s] # <<>> /\ data'[s][1].count >= data[s][1].count
      BY <1>11, <1>13, <3>1, <3>2
    <3>4. \A s \in Sources : kept'[s] = data'[s][1].count BY <1>3, <2>2, <2>3, <3>3
    <3> QED BY <2>1, <3>1, <3>2, <3>3, <3>4
  <2>4. CASE keptOf # captures'
    <3>1. \A s \in Sources : kept'[s] = kept[s] BY <1>3, <2>4
    <3>2. keptOf <= captures' BY <1>12, <1>13, <2>1
    <3>3. \A s \in Sources : kept[s] \in Nat BY <1>2
    <3> QED BY <2>4, <3>1, <3>2, <3>3
  <2> QED BY <2>3, <2>4
<1>8. KeptInv'
  <2> SUFFICES ASSUME Held PROVE KeptInv'
    BY <1>3 DEF KeptInv, Held, Writing, Written
  <2>1. ASSUME ~uneven, ~wrapped, ~Written, NEW s \in Sources PROVE start + left <= kept'[s]
    <3>1. start + left <= kept[s] BY <2>1 DEF StoreInv, KeptInv
    <3>2. kept'[s] \in Nat /\ kept[s] \in Nat BY <1>2, <1>5
    <3>3. kept'[s] >= kept[s] BY <1>7
    <3> QED BY <1>14, <3>1, <3>2, <3>3
  <2> QED BY <1>3, <1>7, <2>1 DEF KeptInv, Held, Writing, Written
<1>9. OverreadInv' /\ FileInv'
  BY <1>3 DEF StoreInv, OverreadInv, FileInv, Held, Writing, Written
<1>10. QueueInv'
  BY <1>2, <1>3 DEF StoreInv, QueueInv, Announced, Writing, Written
<1>15. ExportInv' BY SessionKeepsData, <1>3 DEF StoreInv
<1>16. LaunchInv' BY <1>2, <1>3 DEF StoreInv, LaunchInv
<1> QED BY <1>1, <1>6, <1>8, <1>9, <1>10, <1>15, <1>16 DEF StoreInv

-----------------------------------------------------------------------------
(* The store's own steps leave the data alone. *)

LEMMA DataUntouched ==
    ASSUME DataInv, UNCHANGED <<data, current, captures, spc>>,
           goal' = goal \/ goal' = "export", gpc' = gpc \/ gpc' \notin {"start", "device"}
    PROVE  DataInv'
BY DEF DataInv

LEMMA ClampedTyped ==
    ASSUME NEW r \in Nat \X Nat, NEW n \in Nat
    PROVE  Clamped(r, n).from \in Nat /\ Clamped(r, n).length \in Nat
<1> DEFINE low == Smaller(r[1], r[2])
           to == Smaller(Larger(r[1], r[2]), n)
<1>1. r[1] \in Nat /\ r[2] \in Nat /\ WordSize \in Nat \ {0} BY StoreAssumption
<1>2. low \in Nat /\ to \in Nat BY <1>1 DEF Smaller, Larger
<1>3. CASE r[1] = r[2] BY <1>3 DEF Clamped
<1>4. CASE r[1] # r[2]
  <2>1. Clamped(r, n).from = low /\ Clamped(r, n).length = (to - low) % WordSize
    BY <1>4 DEF Clamped
  <2> HIDE DEF low, to
  <2>2. (to - low) % WordSize \in Nat BY <1>1, <1>2
  <2> QED BY <1>2, <2>1, <2>2
<1> QED BY <1>3, <1>4

LEMMA ClampedRange ==
    ASSUME NEW r \in Nat \X Nat, r[1] < WordSize, r[2] < WordSize, NEW n \in Nat,
           Clamped(r, n).from <= n
    PROVE  LET c == Clamped(r, n) IN
           /\ c.from \in Nat /\ c.length \in Nat /\ c.from + c.length <= n
           /\ {i \in 0 .. (n - 1) : r[1] = r[2] \/ i \in Smaller(r[1], r[2]) .. (Larger(r[1], r[2]) - 1)}
                = c.from .. (c.from + c.length - 1)
<1> DEFINE low == Smaller(r[1], r[2])
           high == Larger(r[1], r[2])
           to == Smaller(high, n)
           c == Clamped(r, n)
<1>1. r[1] \in Nat /\ r[2] \in Nat /\ r[1] < WordSize /\ r[2] < WordSize /\ WordSize \in Nat \ {0}
  BY StoreAssumption
<1>2. low \in Nat /\ high \in Nat /\ low <= high /\ high < WordSize /\ (r[1] # r[2] => low < high)
  BY <1>1 DEF Smaller, Larger
<1>3. CASE r[1] = r[2]
  <2>1. c.from = 0 /\ c.length = n BY <1>3 DEF Clamped
  <2> QED BY <1>3, <2>1
<1>4. CASE r[1] # r[2]
  <2>1. c.from = low /\ c.length = (to - low) % WordSize BY <1>4 DEF Clamped
  <2>2. to \in Nat /\ to <= n /\ to <= high /\ (to = n \/ to = high) BY <1>2 DEF Smaller
  <2>3. low <= n BY <2>1
  <2> HIDE DEF low, high, to, c
  <2>4. low <= to BY <1>2, <2>2, <2>3
  <2>5. to - low \in Nat /\ to - low < WordSize BY <1>1, <1>2, <2>2, <2>4
  <2>6. (to - low) % WordSize = to - low BY <1>1, <2>5
  <2>7. {i \in 0 .. (n - 1) : i \in low .. (high - 1)} = low .. (to - 1)
    BY <1>2, <2>2, <2>4
  <2> QED BY <1>2, <1>4, <2>1, <2>2, <2>4, <2>6, <2>7 DEF low, high, c
<1> QED BY <1>3, <1>4

LEMMA TakenRange ==
    ASSUME StoreInv, NEW who, NEW r \in Nat \X Nat, r[1] < WordSize, r[2] < WordSize, Start(who, r)
    PROVE  /\ start' \in Nat /\ left' \in Nat /\ uneven' \in BOOLEAN /\ wrapped' \in BOOLEAN
           /\ wanted' \in SUBSET Nat
           /\ ~wrapped' => wanted' = start' .. (start' + left' - 1)
           /\ ~uneven' /\ ~wrapped' => \A s \in Sources : start' + left' <= data[s][1].count
<1>1. PICK taken \in Sources :
        LET count == data[taken][1].count
            range == Clamped(r, count) IN
        /\ start' = range.from /\ left' = range.length
        /\ wanted' = {i \in 0 .. (count - 1) : r[1] = r[2] \/ i \in Smaller(r[1], r[2]) .. (Larger(r[1], r[2]) - 1)}
        /\ uneven' = \E s \in Sources : data[s][1].count < count
        /\ wrapped' = (range.from > count)
  BY DEF Start
<1> DEFINE count == data[taken][1].count
<1>2. \A s \in Sources : data[s] \in Seq(Segment) /\ data[s] # <<>>
  BY DEF Start, StoreInv, DataInv
<1>3. \A s \in Sources : data[s][1].count \in Nat BY <1>2, FirstCount
<1>4. count \in Nat BY <1>3
<1>5. start' \in Nat /\ left' \in Nat BY <1>1, <1>4, ClampedTyped
<1>6. uneven' \in BOOLEAN /\ wrapped' \in BOOLEAN BY <1>1
<1>7. wanted' \in SUBSET Nat
  <2>1. \A i \in wanted' : i \in 0 .. (count - 1) BY <1>1
  <2> HIDE DEF count
  <2> QED BY <1>4, <2>1
<1>8. ASSUME ~wrapped' PROVE wanted' = start' .. (start' + left' - 1) /\ start' + left' <= count
  <2>1. ~(Clamped(r, count).from > count) BY <1>1, <1>8
  <2>2. Clamped(r, count).from \in Nat BY <1>4, ClampedTyped
  <2>3. Clamped(r, count).from <= count
    <3> HIDE DEF count
    <3> QED BY <1>4, <2>1, <2>2
  <2> QED BY <1>1, <1>4, <2>3, ClampedRange
<1>9. ASSUME ~uneven', ~wrapped', NEW s \in Sources PROVE start' + left' <= data[s][1].count
  <2>1. PICK from \in Nat, length \in Nat : start' = from /\ left' = length BY <1>5
  <2> DEFINE n == data[s][1].count
  <2>2. ~(n < count) BY <1>1, <1>9
  <2>3. n \in Nat BY <1>3
  <2>4. from + length <= count BY <1>8, <1>9, <2>1
  <2> HIDE DEF count, n
  <2>5. from + length <= n BY <1>4, <2>2, <2>3, <2>4
  <2> QED BY <2>1, <2>5 DEF n
<1> QED BY <1>5, <1>6, <1>7, <1>8, <1>9

LEMMA TakeKeeps ==
    ASSUME StoreInv, NEW who \in {"dialog", "tool"},
           Start(who, <<0, 0>>) \/ \E r \in Ranges : Start(who, r),
           xpc \in {"none", "asking"}, gpc = "idle"
    PROVE  StoreInv'
<1>1. /\ start' \in Nat /\ left' \in Nat /\ uneven' \in BOOLEAN /\ wrapped' \in BOOLEAN
      /\ wanted' \in SUBSET Nat
      /\ ~wrapped' => wanted' = start' .. (start' + left' - 1)
      /\ ~uneven' /\ ~wrapped' => \A s \in Sources : start' + left' <= data[s][1].count
  <2>1. <<0, 0>> \in Nat \X Nat /\ 0 < WordSize /\ Ranges \subseteq Nat \X Nat
        /\ \A r \in Ranges : r[1] < WordSize /\ r[2] < WordSize
    BY StoreAssumption
  <2>2. CASE Start(who, <<0, 0>>) BY <2>1, <2>2, TakenRange
  <2>3. CASE \E r \in Ranges : Start(who, r) BY <2>1, <2>3, TakenRange
  <2> QED BY <2>2, <2>3
<1>2. /\ \A s \in Sources : data[s] # <<>>
      /\ kept' = [s \in Sources |-> data[s][1].count] /\ keptOf' = captures
      /\ xpc' = "launching" /\ gpc' = "launch" /\ mode' = who
      /\ written' = <<>> /\ units' = 0 /\ stored' = 0
      /\ interrupt' = FALSE /\ xerror' = FALSE /\ signals' = signals
      /\ stores' = stores + 1 /\ overread' = overread
      /\ UNCHANGED <<data, current, captures, spc, goal>>
  BY DEF Start, feedVars
<1>3. \A s \in Sources : data[s][1].count \in Nat BY <1>2, FirstCount DEF StoreInv, DataInv
<1>4. DataInv' BY <1>2, DataUntouched DEF StoreInv
<1>5. kept' \in [Sources -> Nat] BY <1>2, <1>3
<1>6. captures \in Nat /\ stores \in Nat /\ overread \in BOOLEAN
      /\ signals \in Seq({"progress", "successful", "delete"})
  BY DEF StoreInv, DataInv, StoreTypeOK
<1>7. StoreTypeOK'
  <2>1. written' \in Seq(Nat) BY <1>2
  <2>2. keptOf' \in Nat /\ stores' \in Nat /\ units' \in Nat /\ stored' \in Nat BY <1>2, <1>6
  <2>3. interrupt' \in BOOLEAN /\ xerror' \in BOOLEAN /\ overread' \in BOOLEAN BY <1>2, <1>6
  <2>4. signals' \in Seq({"progress", "successful", "delete"}) BY <1>2, <1>6
  <2> QED BY <1>1, <1>2, <1>5, <2>1, <2>2, <2>3, <2>4 DEF StoreTypeOK
<1>8. KeptInv'
  <2>1. \A s \in Sources : kept'[s] = data[s][1].count BY <1>2
  <2>2. keptOf' <= captures' BY <1>2, <1>6
  <2>3. ~uneven' /\ ~wrapped' => \A s \in Sources : start' + left' <= kept'[s] BY <1>1, <2>1
  <2> QED BY <1>2, <2>1, <2>2, <2>3 DEF KeptInv, Held, Writing, Written
<1>9. OverreadInv' BY <1>2 DEF StoreInv, OverreadInv, Writing, Written
<1>10. FileInv'
  <2>1. Len(written') = 0 BY <1>2
  <2>2. (~wrapped' => wanted' = (start' - 0) .. (start' + left' - 1)) /\ 0 <= start' BY <1>1
  <2>3. \A i \in 1 .. 0 : FALSE OBVIOUS
  <2> QED BY <1>2, <2>1, <2>2, <2>3 DEF FileInv, Held, Writing, Written
<1>11. \A i \in 1 .. Len(signals) : signals[i] \notin {"progress", "delete"}
  BY DEF StoreInv, QueueInv, Announced, Writing, Written
<1>12. QueueInv' BY <1>2, <1>11 DEF QueueInv
<1>13. ExportInv' BY <1>2 DEF StoreInv, ExportInv
<1>14. LaunchInv' BY <1>2 DEF LaunchInv
<1> QED BY <1>4, <1>7, <1>8, <1>9, <1>10, <1>12, <1>13, <1>14 DEF StoreInv

\* What a step that writes nothing leaves alone.
LEMMA FileStays ==
    ASSUME StoreInv, UNCHANGED <<fileVars, data, captures>>,
           Writing' => Writing, Written' => Writing \/ Written, xpc' # "launching",
           Written' /\ ~interrupt' /\ ~xerror' => (Written /\ ~interrupt /\ ~xerror) \/ left = 0,
           (Writing \/ Written)' \/ ~overread', overread' => overread
    PROVE  KeptInv' /\ FileInv' /\ OverreadInv'
<1>0. /\ Held' => Held
      /\ Held' /\ ~Written' => ~Written
  BY DEF Held, Writing, Written
<1>1. KeptInv' BY <1>0 DEF StoreInv, KeptInv, fileVars
<1>2. FileInv' BY <1>0 DEF StoreInv, FileInv, fileVars
<1>3. OverreadInv' BY DEF StoreInv, OverreadInv, fileVars
<1> QED BY <1>1, <1>2, <1>3

\* Where the thread is when it takes a step, and what the step leaves alone.
LEMMA ThreadLeaves ==
    ASSUME StoreInv, UNCHANGED ThreadStay, Writing \/ Written, (Writing \/ Written)'
    PROVE  DataInv' /\ ExportInv' /\ LaunchInv' /\ UNCHANGED <<data, captures, gpc, mode, seen, stores>>
<1>1. UNCHANGED <<data, current, captures, spc, goal, gpc, mode, seen, stores>>
  BY DEF ThreadStay, sessionVars, feedVars, dialogVars
<1>2. DataInv' BY <1>1, DataUntouched DEF StoreInv
<1>3. goal # "export" /\ gpc # "export" BY DEF StoreInv, ExportInv, Writing, Written
<1>4. LaunchInv' BY <1>1 DEF StoreInv, LaunchInv, Writing, Written
<1> QED BY <1>1, <1>2, <1>3, <1>4 DEF ExportInv

LEMMA BeginKeeps == ASSUME StoreInv, StoreBegin PROVE StoreInv'
<1>1. /\ xpc = "begin" /\ xpc' = "loop" /\ units' = left
      /\ UNCHANGED <<ThreadStay, fileVars, stored, interrupt, xerror, signals, overread>>
  BY DEF StoreBegin
<1>2. /\ DataInv' /\ ExportInv' /\ LaunchInv' /\ UNCHANGED <<data, captures, gpc, mode, seen, stores>>
  BY <1>1, ThreadLeaves DEF Writing, Written
<1>3. KeptInv' /\ FileInv' /\ OverreadInv' BY <1>1, <1>2, FileStays DEF Writing, Written
<1>4. StoreTypeOK' BY <1>1, <1>2 DEF StoreInv, StoreTypeOK, fileVars
<1>5. left \in Nat /\ left' = left BY <1>1 DEF StoreInv, StoreTypeOK, fileVars
<1>6. ~Announced /\ (Writing \/ Written)' BY <1>1 DEF Announced, Writing, Written
<1>7. gpc # "progress" /\ \A i \in 1 .. Len(signals) : signals[i] # "progress"
  BY <1>6 DEF StoreInv, QueueInv
<1>8. QueueInv'
  <2>1. left' <= units' BY <1>1, <1>5
  <2> QED BY <1>1, <1>2, <1>6, <1>7, <2>1 DEF StoreInv, QueueInv
<1> QED BY <1>2, <1>3, <1>4, <1>8 DEF StoreInv

LEMMA LoopKeeps == ASSUME StoreInv, StoreLoop PROVE StoreInv'
<1>1. /\ xpc = "loop" /\ xpc' \in {"block", "end"}
      /\ UNCHANGED <<ThreadStay, fileVars, units, stored, interrupt, xerror, overread>>
      /\ xpc' = "block" => left > 0 /\ Emit("progress")
      /\ xpc' = "end" => (interrupt \/ left = 0) /\ signals' = signals
  BY DEF StoreLoop
<1>2. /\ DataInv' /\ ExportInv' /\ LaunchInv' /\ UNCHANGED <<data, captures, gpc, mode, seen, stores>>
  BY <1>1, ThreadLeaves DEF Writing, Written
<1>3. KeptInv' /\ FileInv' /\ OverreadInv' BY <1>1, <1>2, FileStays DEF Writing, Written
<1>4. /\ left \in Nat /\ left' = left /\ units \in Nat /\ left <= units
      /\ signals \in Seq({"progress", "successful", "delete"})
  BY <1>1 DEF StoreInv, StoreTypeOK, QueueInv, fileVars
<1>5. signals' = signals \/ (signals' = Append(signals, "progress") /\ mode = "dialog" /\ xpc' = "block")
  BY <1>1 DEF Emit
<1>6. signals' \in Seq({"progress", "successful", "delete"}) BY <1>4, <1>5
<1>7. StoreTypeOK' BY <1>1, <1>2, <1>6 DEF StoreInv, StoreTypeOK, fileVars
<1>8. xpc' = "block" => units > 0 BY <1>1, <1>4
<1>9. Announced => Announced' BY <1>1 DEF Announced
<1>10. \A i \in 1 .. Len(signals') :
        /\ signals'[i] = "progress" => Announced' /\ mode' = "dialog"
        /\ signals'[i] = "delete" => mode' = "dialog" /\ (Writing \/ Written)'
  <2>1. (Writing \/ Written)' BY <1>1 DEF Writing, Written
  <2>2. CASE signals' = signals BY <1>2, <1>9, <2>1, <2>2 DEF StoreInv, QueueInv
  <2>3. CASE signals' = Append(signals, "progress") /\ mode = "dialog" /\ xpc' = "block"
    <3>1. Announced' BY <1>1, <1>8, <2>3 DEF Announced
    <3> QED BY <1>2, <2>1, <2>3, <3>1
  <2> QED BY <1>5, <2>2, <2>3
<1>11. QueueInv'
  BY <1>1, <1>2, <1>4, <1>9, <1>10 DEF StoreInv, QueueInv, Writing, Written
<1> QED BY <1>2, <1>3, <1>7, <1>11 DEF StoreInv

LEMMA BlockAppended ==
    ASSUME NEW w \in Seq(Nat), NEW first \in Nat, NEW p \in Nat, NEW new,
           new = w \o [i \in 1 .. p |-> first + i - 1]
    PROVE  /\ new \in Seq(Nat) /\ Len(new) = Len(w) + p
           /\ \A i \in 1 .. Len(w) : new[i] = w[i]
           /\ \A i \in 1 .. p : new[Len(w) + i] = first + i - 1
<1> DEFINE block == [i \in 1 .. p |-> first + i - 1]
<1>1. block \in Seq(Nat) /\ Len(block) = p OBVIOUS
<1>2. \A i \in 1 .. p : block[i] = first + i - 1 OBVIOUS
<1>3. new = w \o block OBVIOUS
<1> HIDE DEF block
<1>4. new \in Seq(Nat) /\ Len(new) = Len(w) + p BY <1>1, <1>3
<1>5. \A i \in 1 .. Len(w) : new[i] = w[i] BY <1>1, <1>3
<1>6. ASSUME NEW i \in 1 .. p PROVE new[Len(w) + i] = block[i]
  <2> DEFINE k == Len(w) + i
  <2>1. Len(w) \in Nat OBVIOUS
  <2>2. k \in (Len(w) + 1) .. (Len(w) + Len(block)) /\ k - Len(w) = i BY <1>1, <2>1
  <2> HIDE DEF k
  <2>3. (w \o block)[k] = block[k - Len(w)] BY <1>1, <2>2
  <2> QED BY <1>3, <2>2, <2>3 DEF k
<1> QED BY <1>2, <1>4, <1>5, <1>6

LEMMA BlockKeeps == ASSUME StoreInv, StoreBlock PROVE StoreInv'
<1> DEFINE p == PacketLength
<1>1. /\ xpc = "block" /\ xpc' \in {"loop", "end"}
      /\ overread' = (overread \/ \E s \in Sources : start + p > kept[s])
      /\ \/ /\ xerror' = TRUE /\ xpc' = "end"
            /\ UNCHANGED <<start, left, stored, written>>
         \/ /\ written' = written \o [i \in 1 .. p |-> start + i - 1]
            /\ left' = left - p /\ start' = start + p /\ stored' = units - left'
            /\ xpc' = "loop" /\ xerror' = xerror
      /\ UNCHANGED <<ThreadStay, kept, keptOf, wanted, uneven, wrapped, units, interrupt, signals>>
  BY DEF StoreBlock
<1>2. /\ DataInv' /\ ExportInv' /\ LaunchInv' /\ UNCHANGED <<data, captures, gpc, mode, seen, stores>>
  BY <1>1, ThreadLeaves DEF Writing, Written
<1>3. /\ start \in Nat /\ left \in Nat /\ units \in Nat /\ left <= units /\ written \in Seq(Nat)
      /\ kept \in [Sources -> Nat]
  BY <1>1 DEF StoreInv, StoreTypeOK, QueueInv
<1>4. p \in Nat /\ p <= left BY <1>3, StoreAssumption DEF PacketLength, Smaller
<1> HIDE DEF p
<1>5. overread' \in BOOLEAN /\ (overread' => uneven \/ wrapped)
  <2>1. ASSUME ~uneven, ~wrapped, NEW s \in Sources PROVE ~(start + p > kept[s])
    <3>1. start + left <= kept[s] /\ kept[s] \in Nat
      BY <1>1, <1>3, <2>1 DEF StoreInv, KeptInv, Held, Writing, Written
    <3> QED BY <1>3, <1>4, <3>1
  <2>2. overread => uneven \/ wrapped BY DEF StoreInv, OverreadInv
  <2> QED BY <1>1, <2>1, <2>2
<1>6. /\ start' \in Nat /\ left' \in Nat /\ stored' \in Nat /\ left' <= units
      /\ xpc' = "loop" => start' = start + p /\ left' = left - p
      /\ xpc' = "end" => start' = start /\ left' = left
  <2>1. stored \in Nat BY DEF StoreInv, StoreTypeOK
  <2>2. left - p \in Nat /\ units - (left - p) \in Nat /\ start + p \in Nat BY <1>3, <1>4
  <2> QED BY <1>1, <1>3, <2>1, <2>2
<1>7. xpc' \in {"loop", "end"} BY <1>1
<1>8. CASE xpc' = "loop"
  <2> DEFINE n == Len(written)
  <2>2. written' = written \o [i \in 1 .. p |-> start + i - 1] BY <1>1, <1>8
  <2>3. /\ written' \in Seq(Nat) /\ Len(written') = n + p
        /\ \A i \in 1 .. n : written'[i] = written[i]
        /\ \A i \in 1 .. p : written'[n + i] = start + i - 1
    BY <1>3, <1>4, <2>2, BlockAppended
  <2>4. /\ n \in Nat /\ n <= start
        /\ \A i \in 1 .. n : written[i] = start - n + i - 1
        /\ ~wrapped => wanted = (start - n) .. (start + left - 1)
    BY <1>1, <1>3 DEF StoreInv, FileInv, Held, Writing
  <2> HIDE DEF n
  <2>6. ASSUME NEW i \in 1 .. (n + p) PROVE written'[i] = (start + p) - (n + p) + i - 1
    <3>1. CASE i <= n BY <1>3, <1>4, <2>3, <2>4, <3>1
    <3>2. CASE i > n
      <4>1. i - n \in 1 .. p /\ n + (i - n) = i BY <1>4, <2>4, <3>2
      <4>2. written'[n + (i - n)] = start + (i - n) - 1 BY <2>3, <4>1
      <4> QED BY <1>3, <1>4, <2>4, <4>1, <4>2
    <3> QED BY <2>4, <3>1, <3>2
  <2>7. (start - n) .. (start + left - 1) = ((start + p) - (n + p)) .. ((start + p) + (left - p) - 1)
    BY <1>3, <1>4, <2>4
  <2>8. n + p <= start + p BY <1>3, <1>4, <2>4
  <2>9. FileInv'
    BY <1>1, <1>6, <1>8, <2>3, <2>4, <2>6, <2>7, <2>8 DEF FileInv, Held, Writing, Written
  <2>10. KeptInv'
    <3>1. start' + left' = start + left BY <1>3, <1>4, <1>6, <1>8
    <3> QED BY <1>1, <1>2, <1>8, <3>1 DEF StoreInv, KeptInv, Held, Writing, Written
  <2>11. written' \in Seq(Nat) /\ xerror' \in BOOLEAN BY <1>1, <1>8, <2>3 DEF StoreInv, StoreTypeOK
  <2> QED BY <2>9, <2>10, <2>11, <1>1, <1>2, <1>5, <1>6, <1>8
      DEF StoreInv, StoreTypeOK, OverreadInv, QueueInv, Announced, Writing, Written
<1>9. CASE xpc' = "end"
  <2>1. KeptInv' /\ FileInv'
    BY <1>1, <1>2, <1>9 DEF StoreInv, KeptInv, FileInv, Held, Writing, Written
  <2> QED BY <2>1, <1>1, <1>2, <1>5, <1>6, <1>9
      DEF StoreInv, StoreTypeOK, OverreadInv, QueueInv, Announced, Writing, Written
<1> QED BY <1>7, <1>8, <1>9

\* A step that queues no signal.
LEMMA QueueStays ==
    ASSUME QueueInv, UNCHANGED <<signals, mode>>, UNCHANGED seen \/ gpc' # "progress",
           gpc' = gpc \/ gpc' \notin {"progress", "close dialog"},
           xpc' # "block", Announced => Announced',
           Writing \/ Written => (Writing \/ Written)',
           xpc \in {"zeroed", "notify", "done"} => xpc' \in {"zeroed", "notify", "done"},
           xpc' \in {"loop", "end", "zero"} => left' <= units'
    PROVE  QueueInv'
BY DEF QueueInv

LEMMA EndKeeps == ASSUME StoreInv, StoreEnd PROVE StoreInv'
<1>1. /\ xpc = "end" /\ xpc' = "zero" /\ xerror' \in {xerror, xerror \/ FormatMayFail}
      /\ UNCHANGED <<ThreadStay, fileVars, units, stored, interrupt, signals, overread>>
  BY DEF StoreEnd
<1>2. /\ DataInv' /\ ExportInv' /\ LaunchInv' /\ UNCHANGED <<data, captures, gpc, mode, seen, stores>>
  BY <1>1, ThreadLeaves DEF Writing, Written
<1>3. xerror' \in BOOLEAN /\ (~xerror' => ~xerror)
  BY <1>1, StoreAssumption DEF StoreInv, StoreTypeOK
<1>4. KeptInv' /\ FileInv' /\ OverreadInv' BY <1>1, <1>2, <1>3, FileStays DEF Writing, Written
<1>5. StoreTypeOK' BY <1>1, <1>2, <1>3 DEF StoreInv, StoreTypeOK, fileVars
<1>6. left' <= units' BY <1>1 DEF StoreInv, QueueInv, fileVars
<1>7. (Announced => Announced') /\ (Writing \/ Written)' BY <1>1 DEF Announced, Writing, Written
<1>8. QueueInv' BY <1>1, <1>2, <1>6, <1>7, QueueStays DEF StoreInv
<1> QED BY <1>2, <1>4, <1>5, <1>8 DEF StoreInv

LEMMA ZeroKeeps == ASSUME StoreInv, StoreZero PROVE StoreInv'
<1>1. /\ \/ xpc = "zero" /\ xpc' = "zeroed" /\ units' = 0 /\ stored' = stored
         \/ xpc = "zeroed" /\ xpc' = "notify" /\ units' = units /\ stored' = 0
      /\ UNCHANGED <<ThreadStay, fileVars, interrupt, xerror, signals, overread>>
  BY DEF StoreZero
<1>2. /\ DataInv' /\ ExportInv' /\ LaunchInv' /\ UNCHANGED <<data, captures, gpc, mode, seen, stores>>
  BY <1>1, ThreadLeaves DEF Writing, Written
<1>3. KeptInv' /\ FileInv' /\ OverreadInv' BY <1>1, <1>2, FileStays DEF Writing, Written
<1>4. StoreTypeOK' BY <1>1, <1>2 DEF StoreInv, StoreTypeOK, fileVars
<1>5. Announced' /\ (Writing \/ Written)' BY <1>1 DEF Announced, Writing, Written
<1>6. QueueInv' BY <1>1, <1>2, <1>5, QueueStays DEF StoreInv
<1> QED BY <1>2, <1>3, <1>4, <1>6 DEF StoreInv

LEMMA QueueExtended ==
    ASSUME NEW q \in Seq(Signals), NEW new \in Seq(Signals), NEW p, p = q \o new
    PROVE  /\ p \in Seq(Signals)
           /\ \A i \in 1 .. Len(p) :
                \/ i \in 1 .. Len(q) /\ p[i] = q[i]
                \/ \E k \in 1 .. Len(new) : p[i] = new[k]
<1> HIDE DEF Signals
<1>1. p \in Seq(Signals) /\ Len(p) = Len(q) + Len(new) OBVIOUS
<1>2. Len(q) \in Nat /\ Len(new) \in Nat OBVIOUS
<1>3. ASSUME NEW i \in 1 .. Len(p)
      PROVE  \/ i \in 1 .. Len(q) /\ p[i] = q[i]
             \/ \E k \in 1 .. Len(new) : p[i] = new[k]
  <2>1. CASE i <= Len(q) BY <1>1, <1>2, <2>1
  <2>2. CASE i > Len(q)
    <3>1. i - Len(q) \in 1 .. Len(new) BY <1>1, <1>2, <2>2
    <3>2. p[i] = new[i - Len(q)] BY <1>1, <1>2, <2>2
    <3> QED BY <3>1, <3>2
  <2> QED BY <1>2, <2>1, <2>2
<1> QED BY <1>1, <1>3

LEMMA NotifyKeeps == ASSUME StoreInv, StoreNotify PROVE StoreInv'
<1> DEFINE new == <<"successful", "progress">>
<1>1. /\ xpc = "notify" /\ xpc' = "done"
      /\ signals' = signals \/ (mode = "dialog" /\ signals' = signals \o new)
      /\ UNCHANGED <<ThreadStay, fileVars, units, stored, interrupt, xerror, overread>>
  <2>1. signals \in Seq(Signals) BY DEF StoreInv, StoreTypeOK, Signals
  <2>2. (signals \o <<"successful">>) \o <<"progress">> = signals \o new BY <2>1 DEF Signals
  <2>3. mode \in {"dialog", "tool"} BY DEF StoreInv, StoreTypeOK
  <2> QED BY <2>2, <2>3 DEF StoreNotify
<1>2. /\ DataInv' /\ ExportInv' /\ LaunchInv' /\ UNCHANGED <<data, captures, gpc, mode, seen, stores>>
  BY <1>1, ThreadLeaves DEF Writing, Written
<1>3. KeptInv' /\ FileInv' /\ OverreadInv' BY <1>1, <1>2, FileStays DEF Writing, Written
<1>4. signals \in Seq(Signals) /\ new \in Seq(Signals) BY DEF StoreInv, StoreTypeOK, Signals
<1>5. /\ signals' \in Seq(Signals)
      /\ \A i \in 1 .. Len(signals') :
            \/ i \in 1 .. Len(signals) /\ signals'[i] = signals[i]
            \/ mode = "dialog" /\ signals'[i] # "delete"
  <2>1. CASE signals' = signals BY <1>4, <2>1
  <2>2. CASE mode = "dialog" /\ signals' = signals \o new
    <3>1. /\ signals' \in Seq(Signals)
          /\ \A i \in 1 .. Len(signals') :
                \/ i \in 1 .. Len(signals) /\ signals'[i] = signals[i]
                \/ \E k \in 1 .. Len(new) : signals'[i] = new[k]
      <4> HIDE DEF new
      <4> QED BY <1>4, <2>2, QueueExtended
    <3>2. \A k \in 1 .. Len(new) : new[k] # "delete" OBVIOUS
    <3> QED BY <2>2, <3>1, <3>2
  <2> QED BY <1>1, <2>1, <2>2
<1>6. StoreTypeOK' BY <1>1, <1>2, <1>5 DEF StoreInv, StoreTypeOK, fileVars, Signals
<1>7. Announced' /\ (Writing \/ Written)' /\ (Writing \/ Written)
  BY <1>1 DEF Announced, Writing, Written
<1>8. QueueInv' BY <1>1, <1>2, <1>5, <1>7 DEF StoreInv, QueueInv
<1> QED BY <1>2, <1>3, <1>6, <1>8 DEF StoreInv

-----------------------------------------------------------------------------
(* The steps of the user and of the GUI thread. *)

\* What a step that leaves the data, the file and the queue alone must still respect.
LEMMA UserKeeps ==
    ASSUME StoreInv, UNCHANGED <<data, current, captures, spc, stores>>, ExportInv', QueueInv',
           goal' = goal \/ goal' = "export", gpc' = gpc \/ gpc' \notin {"start", "device"},
           UNCHANGED <<fileVars, units, stored, overread, mode, xerror>>,
           xpc' = xpc \/ (xpc \in {"none", "asking"} /\ xpc' \in {"none", "asking"}),
           gpc # "launch", gpc' # "launch",
           interrupt' \in BOOLEAN, interrupt => interrupt', signals' \in Seq(Signals)
    PROVE  StoreInv'
<1>1. DataInv' BY DataUntouched DEF StoreInv
<1>2. (Writing' <=> Writing) /\ (Written' <=> Written) /\ (Held' <=> Held) BY DEF Held, Writing, Written
<1>3. KeptInv' /\ FileInv' /\ OverreadInv'
  BY <1>2 DEF StoreInv, KeptInv, FileInv, OverreadInv, fileVars
<1>4. StoreTypeOK' BY DEF StoreInv, StoreTypeOK, fileVars, Signals
<1>5. LaunchInv' BY DEF StoreInv, LaunchInv
<1> QED BY <1>1, <1>3, <1>4, <1>5 DEF StoreInv

LEMMA RequestKeeps ==
    ASSUME StoreInv, RequestExport \/ AskUser
    PROVE  StoreInv'
<1>1. /\ UNCHANGED <<data, current, captures, spc, stores, fileVars, units, stored, overread, mode,
                     xerror, interrupt, signals>>
      /\ \/ gpc = "idle" /\ xpc = "none" /\ xpc' = "none" /\ gpc' = "stop" /\ goal' = "export"
         \/ gpc = "export" /\ gpc' = "idle" /\ xpc' \in {xpc, "asking"} /\ goal' = goal
  BY DEF RequestExport, AskUser, storeVars, feedVars, dialogVars
<1>2. xpc = "none" /\ xpc' \in {"none", "asking"} BY <1>1 DEF StoreInv, ExportInv
<1>3. ExportInv' BY <1>1, <1>2 DEF StoreInv, ExportInv
<1>4. \A i \in 1 .. Len(signals) : signals[i] \notin {"progress", "delete"}
  BY <1>2 DEF StoreInv, QueueInv, Announced, Writing, Written
<1>5. QueueInv' BY <1>1, <1>2, <1>4 DEF QueueInv
<1>6. interrupt \in BOOLEAN /\ signals \in Seq(Signals) BY DEF StoreInv, StoreTypeOK, Signals
<1> QED BY <1>1, <1>2, <1>3, <1>5, <1>6, UserKeeps

LEMMA StartsKeep == ASSUME StoreInv, Export \/ SaveTool PROVE StoreInv'
<1>1. CASE Export /\ xpc' = "none"
           /\ UNCHANGED <<sessionVars, fileVars, dialogVars, units, stored, interrupt, xerror, signals,
                          overread, stores>>
  <2>1. /\ UNCHANGED <<data, current, captures, spc, goal, gpc, seen, stores, fileVars, units, stored,
                       overread, mode, xerror, interrupt, signals>>
        /\ xpc = "asking" /\ xpc' = "none" /\ gpc = "idle"
    BY <1>1 DEF Export, feedVars, sessionVars, dialogVars
  <2>2. ExportInv' BY <2>1 DEF StoreInv, ExportInv
  <2>3. \A i \in 1 .. Len(signals) : signals[i] \notin {"progress", "delete"}
    BY <2>1 DEF StoreInv, QueueInv, Announced, Writing, Written
  <2>4. QueueInv' BY <2>1, <2>3 DEF QueueInv
  <2>5. interrupt \in BOOLEAN /\ signals \in Seq(Signals) BY DEF StoreInv, StoreTypeOK, Signals
  <2> QED BY <2>1, <2>2, <2>4, <2>5, UserKeeps
<1>2. CASE Export /\ \E r \in Ranges : Start("dialog", r)
  BY <1>2, TakeKeeps DEF Export
<1>3. CASE SaveTool
  BY <1>3, TakeKeeps DEF SaveTool
<1> QED BY <1>1, <1>2, <1>3 DEF Export

\* A signal is queued behind the others, or the first one is taken.
LEMMA QueueShifts ==
    ASSUME NEW q \in Seq(Signals)
    PROVE  /\ \A x \in Signals :
                /\ Append(q, x) \in Seq(Signals)
                /\ \A i \in 1 .. Len(Append(q, x)) :
                     (i \in 1 .. Len(q) /\ Append(q, x)[i] = q[i]) \/ Append(q, x)[i] = x
           /\ q # <<>> =>
                /\ Head(q) = q[1] /\ 1 \in 1 .. Len(q)
                /\ Tail(q) \in Seq(Signals)
                /\ \A i \in 1 .. Len(Tail(q)) : i + 1 \in 1 .. Len(q) /\ Tail(q)[i] = q[i + 1]
<1> HIDE DEF Signals
<1> QED OBVIOUS

LEMMA CancelKeeps == ASSUME StoreInv, Cancel PROVE StoreInv'
<1>1. /\ UNCHANGED <<data, current, captures, spc, goal, gpc, seen, stores, fileVars, units, stored,
                     overread, mode, xerror, xpc>>
      /\ mode = "dialog" /\ xpc \notin {"none", "asking", "done"} /\ gpc = "idle"
      /\ interrupt' = TRUE
      /\ signals' = signals \/ signals' = Append(signals, "delete")
  BY DEF Cancel, GuiStay, FileStay, feedVars
<1>2. ExportInv' BY <1>1 DEF StoreInv, ExportInv
<1>3. Writing \/ Written
  BY <1>1 DEF StoreInv, StoreTypeOK, LaunchInv, Writing, Written
<1>4. signals \in Seq(Signals) /\ "delete" \in Signals BY DEF StoreInv, StoreTypeOK, Signals
<1>5. /\ signals' \in Seq(Signals)
      /\ \A i \in 1 .. Len(signals') :
            (i \in 1 .. Len(signals) /\ signals'[i] = signals[i]) \/ signals'[i] = "delete"
  BY <1>1, <1>4, QueueShifts
<1>6. (Announced <=> Announced') /\ (Writing \/ Written)' /\ UNCHANGED <<left, units>>
  BY <1>1, <1>3 DEF Announced, Writing, Written, fileVars
<1>7. QueueInv' BY <1>1, <1>5, <1>6 DEF StoreInv, QueueInv
<1> QED BY <1>1, <1>2, <1>5, <1>7, UserKeeps

LEMMA ServeKeeps ==
    ASSUME StoreInv, OnDataSaved \/ ReadProgress \/ DeleteDialog
    PROVE  StoreInv'
<1>1. /\ UNCHANGED <<data, current, captures, spc, goal, stores, fileVars, units, stored,
                     overread, mode, xerror, xpc, interrupt>>
      /\ gpc = "idle" /\ signals # <<>>
  BY DEF OnDataSaved, ReadProgress, DeleteDialog, GuiStay, FileStay, feedVars
<1>2. interrupt \in BOOLEAN /\ signals \in Seq(Signals) BY DEF StoreInv, StoreTypeOK, Signals
<1>3. /\ Head(signals) = signals[1] /\ 1 \in 1 .. Len(signals) /\ Tail(signals) \in Seq(Signals)
      /\ \A i \in 1 .. Len(Tail(signals)) :
            i + 1 \in 1 .. Len(signals) /\ Tail(signals)[i] = signals[i + 1]
  BY <1>1, <1>2, QueueShifts
<1>4. (Announced <=> Announced') /\ (Writing <=> Writing') /\ (Written <=> Written')
      /\ UNCHANGED <<left, units>>
  BY <1>1 DEF Announced, Writing, Written, fileVars
<1>5. ASSUME signals' = Tail(signals)
      PROVE  \A i \in 1 .. Len(signals') :
                /\ signals'[i] = "progress" => Announced' /\ mode' = "dialog"
                /\ signals'[i] = "delete" => mode' = "dialog" /\ (Writing \/ Written)'
  BY <1>1, <1>3, <1>4, <1>5 DEF StoreInv, QueueInv
<1>6. CASE OnDataSaved
  <2>1. gpc' = gpc /\ seen' = seen /\ signals' = Tail(signals) BY <1>6 DEF OnDataSaved
  <2>2. ExportInv' BY <1>1, <2>1 DEF StoreInv, ExportInv
  <2>3. QueueInv' BY <1>1, <1>4, <1>5, <2>1 DEF StoreInv, QueueInv
  <2> QED BY <1>1, <1>2, <1>3, <2>1, <2>2, <2>3, UserKeeps
<1>7. CASE ReadProgress
  <2>1. /\ gpc' = "progress" /\ signals' = Tail(signals) /\ signals[1] = "progress"
        /\ seen' \in {<<"stored", stored>>, <<"units", units>>}
    BY <1>3, <1>7 DEF ReadProgress
  <2>2. ExportInv' BY <1>1, <2>1 DEF StoreInv, ExportInv
  <2>3. Announced /\ mode = "dialog" BY <1>3, <2>1 DEF StoreInv, QueueInv
  <2>4. seen'[1] = "units" => seen'[2] = units BY <2>1
  <2>5. units = 0 => xpc \in {"zeroed", "notify", "done"} BY <2>3 DEF Announced
  <2>6. QueueInv' BY <1>1, <1>4, <1>5, <2>1, <2>3, <2>4, <2>5 DEF StoreInv, QueueInv
  <2> QED BY <1>1, <1>2, <1>3, <2>1, <2>2, <2>6, UserKeeps
<1>8. CASE DeleteDialog
  <2>1. gpc' = "close dialog" /\ signals' = signals /\ seen' = seen /\ signals[1] = "delete"
    BY <1>3, <1>8 DEF DeleteDialog
  <2>2. ExportInv' BY <1>1, <2>1 DEF StoreInv, ExportInv
  <2>3. mode = "dialog" /\ (Writing \/ Written) BY <1>3, <2>1 DEF StoreInv, QueueInv
  <2>4. QueueInv' BY <1>1, <1>4, <2>1, <2>3 DEF StoreInv, QueueInv
  <2> QED BY <1>1, <1>2, <2>1, <2>2, <2>4, UserKeeps
<1> QED BY <1>6, <1>7, <1>8

\* Whichever counter is read first, zero units are read only of a finished store.
LEMMA ShownWhenFinished ==
    ASSUME StoreInv, ShowProgress, interrupt' # interrupt
    PROVE  xpc \in {"zeroed", "notify", "done"}
<1> DEFINE second == IF seen[1] = "units" THEN seen[2] ELSE units
<1>1. gpc = "progress" /\ interrupt' = (interrupt \/ second = 0)
  BY DEF ShowProgress, Completed
<1>2. second = 0 BY <1>1 DEF StoreInv, StoreTypeOK
<1>3. Announced BY <1>1 DEF StoreInv, QueueInv
<1>4. CASE seen[1] = "units" BY <1>1, <1>2, <1>4 DEF StoreInv, QueueInv
<1>5. CASE seen[1] # "units" BY <1>2, <1>3, <1>5 DEF Announced
<1> QED BY <1>4, <1>5

LEMMA ShowKeeps == ASSUME StoreInv, ShowProgress PROVE StoreInv'
<1>1. /\ UNCHANGED <<data, current, captures, spc, goal, stores, fileVars, units, stored,
                     overread, mode, xerror, xpc>>
      /\ gpc = "progress" /\ gpc' = "idle"
      /\ interrupt' \in BOOLEAN /\ (interrupt => interrupt')
      /\ signals' = signals \/ signals' = Append(signals, "delete")
  BY DEF ShowProgress, GuiStay, FileStay, feedVars, Completed, StoreInv, StoreTypeOK
<1>2. ExportInv' BY <1>1 DEF StoreInv, ExportInv
<1>3. mode = "dialog" /\ Announced BY <1>1 DEF StoreInv, QueueInv
<1>4. signals \in Seq(Signals) /\ "delete" \in Signals BY DEF StoreInv, StoreTypeOK, Signals
<1>5. /\ signals' \in Seq(Signals)
      /\ \A i \in 1 .. Len(signals') :
            (i \in 1 .. Len(signals) /\ signals'[i] = signals[i]) \/ signals'[i] = "delete"
  BY <1>1, <1>4, QueueShifts
<1>6. Announced' /\ (Writing \/ Written)' /\ UNCHANGED <<left, units>>
  BY <1>1, <1>3 DEF Announced, Writing, Written, fileVars
<1>7. QueueInv' BY <1>1, <1>3, <1>5, <1>6 DEF StoreInv, QueueInv
<1> QED BY <1>1, <1>2, <1>5, <1>7, UserKeeps

LEMMA DestroyedKeeps ==
    ASSUME StoreInv, Destroyed, UNCHANGED <<data, current, captures, spc, goal, stores, seen>>,
           gpc \in {"idle", "close dialog", "launch"}, gpc' = "idle", signals' \in Seq(Signals),
           \A i \in 1 .. Len(signals') : signals'[i] \notin {"progress", "delete"}
    PROVE  StoreInv'
<1>1. /\ xpc' = "none" /\ mode' = "dialog" /\ kept' = [s \in Sources |-> 0] /\ keptOf' = 0
      /\ start' = 0 /\ left' = 0 /\ units' = 0 /\ stored' = 0
      /\ interrupt' = FALSE /\ xerror' = FALSE
      /\ written' = <<>> /\ wanted' = {} /\ uneven' = FALSE /\ wrapped' = FALSE /\ overread' = FALSE
  BY DEF Destroyed
<1>2. DataInv' BY DataUntouched DEF StoreInv
<1>3. StoreTypeOK'
  <2>1. kept' = [s \in Sources |-> 0] BY <1>1
  <2>2. [s \in Sources |-> 0] \in [Sources -> Nat] OBVIOUS
  <2>3. written' \in Seq(Nat) BY <1>1, EmptyTyped, Zenon
  <2>4. kept' \in [Sources -> Nat] BY <2>1, <2>2, Zenon
  <2> QED BY <1>1, <2>3, <2>4 DEF StoreInv, StoreTypeOK, Signals
<1>4. KeptInv' /\ OverreadInv' /\ FileInv'
  BY <1>1 DEF KeptInv, OverreadInv, FileInv, Held, Writing, Written
<1>5. QueueInv' BY <1>1 DEF QueueInv
<1>6. ExportInv' /\ LaunchInv' BY <1>1 DEF StoreInv, ExportInv, LaunchInv
<1> QED BY <1>2, <1>3, <1>4, <1>5, <1>6 DEF StoreInv

LEMMA DoneKeeps == ASSUME StoreInv, CloseDialog \/ ToolDone PROVE StoreInv'
<1>1. Destroyed /\ UNCHANGED <<data, current, captures, spc, goal, stores, seen>>
  BY DEF CloseDialog, ToolDone, GuiStay, feedVars
<1>2. signals \in Seq(Signals) BY DEF StoreInv, StoreTypeOK, Signals
<1>3. CASE CloseDialog
  <2>1. IsFiniteSet(DOMAIN signals) BY <1>2, FS_Interval
  <2>2. {k \in DOMAIN signals : signals[k] = "successful"} \in SUBSET DOMAIN signals OBVIOUS
  <2>3. IsFiniteSet({k \in DOMAIN signals : signals[k] = "successful"}) BY <2>1, <2>2, FS_Subset
  <2>4. Successes(signals) \in Nat BY <2>3, FS_CardinalityType DEF Successes
  <2>5. /\ signals' \in Seq(Signals)
        /\ \A i \in 1 .. Len(signals') : signals'[i] \notin {"progress", "delete"}
    <3>1. PICK n \in Nat : n = Successes(signals) BY <2>4
    <3>2. signals' = [k \in 1 .. n |-> "successful"] BY <1>3, <3>1 DEF CloseDialog
    <3>3. [k \in 1 .. n |-> "successful"] \in Seq(Signals) BY <3>1 DEF Signals
    <3>4. Len(signals') = n /\ \A i \in 1 .. n : signals'[i] = "successful" BY <3>1, <3>2
    <3> QED BY <3>2, <3>3, <3>4
  <2>6. gpc = "close dialog" /\ gpc' = "idle" BY <1>3 DEF CloseDialog
  <2> QED BY <1>1, <2>5, <2>6, DestroyedKeeps
<1>4. CASE ToolDone
  <2>1. gpc = "idle" /\ gpc' = "idle" /\ signals' = signals /\ mode = "tool"
    BY <1>4 DEF ToolDone
  <2>2. \A i \in 1 .. Len(signals') : signals'[i] \notin {"progress", "delete"}
    BY <2>1 DEF StoreInv, QueueInv
  <2> QED BY <1>1, <1>2, <2>1, <2>2, DestroyedKeeps
<1> QED BY <1>3, <1>4

\* Between the two looks at any_segment nothing but its length has changed.
LEMMA LaunchKeeps == ASSUME StoreInv, Launch PROVE StoreInv'
<1>1. /\ gpc = "launch" /\ gpc' = "idle" /\ xpc = "launching"
      /\ UNCHANGED <<data, current, captures, spc, goal, stores, seen, signals>>
  BY DEF Launch, GuiStay, feedVars, StoreInv, LaunchInv
<1>2. signals \in Seq(Signals) BY DEF StoreInv, StoreTypeOK, Signals
<1>3. \A i \in 1 .. Len(signals) : signals[i] \notin {"progress", "delete"}
  BY <1>1 DEF StoreInv, QueueInv, Announced, Writing, Written
<1>4. CASE Destroyed BY <1>1, <1>2, <1>3, <1>4, DestroyedKeeps
<1>5. CASE xpc' = "begin" /\ UNCHANGED <<fileVars, units, stored, interrupt, xerror, overread, mode>>
  <2>1. DataInv' BY <1>1, DataUntouched DEF StoreInv
  <2>2. StoreTypeOK' BY <1>1, <1>5 DEF StoreInv, StoreTypeOK, fileVars
  <2>3. Held /\ ~Written /\ Held' /\ ~Written' BY <1>1, <1>5 DEF Held, Writing, Written
  <2>4. KeptInv' /\ FileInv' BY <1>1, <1>5, <2>3 DEF StoreInv, KeptInv, FileInv, fileVars
  <2>5. OverreadInv' BY <1>1, <1>5 DEF StoreInv, OverreadInv, Writing, Written, fileVars
  <2>6. QueueInv' BY <1>1, <1>3, <1>5 DEF QueueInv
  <2>7. ExportInv' /\ LaunchInv' BY <1>1, <1>5 DEF StoreInv, ExportInv, LaunchInv
  <2> QED BY <2>1, <2>2, <2>4, <2>5, <2>6, <2>7 DEF StoreInv
<1> QED BY <1>4, <1>5 DEF Launch

-----------------------------------------------------------------------------
(* The invariant and the theorems. *)

LEMMA StoreInitially == StoreInit => StoreInv
<1> SUFFICES ASSUME StoreInit PROVE StoreInv OBVIOUS
<1>1. /\ data = NoData /\ current = {} /\ captures = 0 /\ goal = "idle" /\ gpc = "idle"
      /\ spc = "none"
  BY DEF StoreInit, Init
<1>2. /\ xpc = "none" /\ mode = "dialog" /\ keptOf = 0
      /\ start = 0 /\ left = 0 /\ units = 0 /\ stored = 0
      /\ interrupt = FALSE /\ xerror = FALSE /\ written = <<>> /\ wanted = {}
      /\ uneven = FALSE /\ wrapped = FALSE
      /\ signals = <<>> /\ seen = <<>> /\ overread = FALSE /\ stores = 0
  BY DEF StoreInit
<1>3. DataInv BY <1>1, EmptyTyped DEF DataInv
<1>4. StoreTypeOK
  <2>1. kept = [s \in Sources |-> 0] BY DEF StoreInit
  <2>2. kept \in [Sources -> Nat] BY ONLY <2>1
  <2>3. written \in Seq(Nat) BY <1>2
  <2>4. signals \in Seq({"progress", "successful", "delete"}) BY <1>2
  <2> QED BY <1>2, <2>2, <2>3, <2>4 DEF StoreTypeOK
<1>5. ExportInv /\ LaunchInv /\ KeptInv /\ OverreadInv /\ FileInv /\ QueueInv
  BY <1>1, <1>2
  DEF ExportInv, LaunchInv, KeptInv, OverreadInv, FileInv, QueueInv, Held, Writing, Written
<1> QED BY <1>3, <1>4, <1>5 DEF StoreInv

LEMMA StoreStep == StoreInv /\ [StoreNext]_vars => StoreInv'
<1> SUFFICES ASSUME StoreInv, [StoreNext]_vars PROVE StoreInv' OBVIOUS
<1>1. CASE SessionNext /\ Holding BY <1>1, HoldingKeeps
<1>2. CASE RequestExport \/ AskUser BY <1>2, RequestKeeps
<1>3. CASE Export \/ SaveTool BY <1>3, StartsKeep
<1>4. CASE Cancel BY <1>4, CancelKeeps
<1>5. CASE StoreThread
  BY <1>5, BeginKeeps, LoopKeeps, BlockKeeps, EndKeeps, ZeroKeeps, NotifyKeeps DEF StoreThread
<1>6. CASE OnDataSaved \/ ReadProgress \/ DeleteDialog BY <1>6, ServeKeeps
<1>7. CASE ShowProgress BY <1>7, ShowKeeps
<1>8. CASE CloseDialog \/ ToolDone \/ Launch BY <1>8, DoneKeeps, LaunchKeeps
<1>9. CASE UNCHANGED vars
  <2>1. UNCHANGED <<data, current, captures, spc, goal, gpc, fileVars, mode, seen, xpc, units, stored,
                   interrupt, xerror, signals, overread, stores>>
    BY <1>9 DEF vars, sessionVars, feedVars, storeVars, dialogVars
  <2>2. QueueInv' /\ ExportInv' /\ LaunchInv'
    BY <2>1 DEF StoreInv, QueueInv, ExportInv, LaunchInv, Announced, Writing, Written, fileVars
  <2>3. DataInv' BY <2>1, DataUntouched DEF StoreInv
  <2>4. KeptInv' /\ FileInv' /\ OverreadInv'
    BY <2>1 DEF StoreInv, KeptInv, FileInv, OverreadInv, Held, Writing, Written, fileVars
  <2>5. StoreTypeOK' BY <2>1 DEF StoreInv, StoreTypeOK, fileVars
  <2> QED BY <2>2, <2>3, <2>4, <2>5 DEF StoreInv
<1> QED BY <1>1, <1>2, <1>3, <1>4, <1>5, <1>6, <1>7, <1>8, <1>9 DEF StoreNext, StoreUser

\* Wherever the store thread, the sampling thread and the GUI thread are, the range
\* left to write, the segments held and the queue of signals fit together.
THEOREM StoreInvariant == StoreSpec => []StoreInv
BY StoreInitially, StoreStep, PTL DEF StoreSpec

\* A store that neither failed nor was cancelled has written all that was asked for, if
\* its range began within the samples that start() counted first.
THEOREM StoresAsked == StoreSpec => []StoresWhatWasAsked
<1>1. ASSUME StoreInv PROVE StoresWhatWasAsked
  <2> SUFFICES ASSUME xpc \in {"zero", "zeroed", "notify", "done"}, ~interrupt, ~xerror, ~wrapped
               PROVE  /\ Len(written) = Cardinality(wanted)
                      /\ ToSet(written) = wanted
                      /\ \A i \in 1 .. Len(written) - 1 : written[i] < written[i + 1]
    BY DEF StoresWhatWasAsked
  <2>1. written \in Seq(Nat) /\ start \in Nat /\ left \in Nat
    BY <1>1 DEF StoreInv, StoreTypeOK
  <2> DEFINE n == Len(written)
  <2>2. n \in Nat /\ DOMAIN written = 1 .. n BY <2>1
  <2>3. /\ n <= start /\ left = 0
        /\ \A i \in 1 .. n : written[i] = start - n + i - 1
        /\ wanted = (start - n) .. (start + left - 1)
    BY <1>1 DEF StoreInv, FileInv, Held, Written
  <2> HIDE DEF n
  <2>4. wanted = (start - n) .. (start - 1) BY <2>1, <2>2, <2>3
  <2>5. Cardinality((start - n) .. (start - 1)) = n
    <3>1. start - n \in Int /\ start - 1 \in Int BY <2>1, <2>2
    <3>2. Cardinality((start - n) .. (start - 1))
            = IF start - n > start - 1 THEN 0 ELSE (start - 1) - (start - n) + 1
      BY <3>1, FS_Interval
    <3> QED BY <2>1, <2>2, <3>2
  <2>6. ToSet(written) = wanted
    <3>1. ASSUME NEW i \in 1 .. n PROVE written[i] \in wanted
      BY <2>1, <2>2, <2>3, <2>4
    <3>2. ASSUME NEW k \in wanted PROVE \E i \in 1 .. n : written[i] = k
      <4>1. k - (start - n) + 1 \in 1 .. n BY <2>1, <2>2, <2>4
      <4>2. written[k - (start - n) + 1] = k BY <2>1, <2>2, <2>3, <2>4, <4>1
      <4> QED BY <4>1, <4>2
    <3> QED BY <2>2, <3>1, <3>2 DEF ToSet
  <2>7. ASSUME NEW i \in 1 .. (n - 1) PROVE written[i] < written[i + 1]
    <3>1. i \in 1 .. n /\ i + 1 \in 1 .. n BY <2>2
    <3>2. written[i] = start - n + i - 1 /\ written[i + 1] = start - n + (i + 1) - 1
      BY <2>3, <3>1
    <3> QED BY <2>1, <2>2, <3>2
  <2> QED BY <2>4, <2>5, <2>6, <2>7 DEF n
<1> QED BY <1>1, StoreInvariant, PTL

\* The store thread never asks a segment for samples it does not have, unless a source
\* had fewer than the one that was counted or the range began behind those;
\* clearing or capturing anew changes nothing.
THEOREM ReadsWithin == StoreSpec => []ReadsWithinSegments
<1>1. StoreInv => ReadsWithinSegments BY DEF StoreInv, OverreadInv, ReadsWithinSegments
<1> QED BY <1>1, StoreInvariant, PTL

\* The dialog never cancels a store that is still writing, whatever it has read of
\* the two counters and however long its events have been waiting.
THEOREM CancelsFinished == StoreSpec => CancelsOnlyFinished
<1>1. ASSUME StoreInv, [StoreNext]_vars
      PROVE  [gpc = "progress" /\ interrupt' # interrupt => xpc \in {"zeroed", "notify", "done"}]_vars
  <2> SUFFICES ASSUME StoreNext, gpc = "progress", interrupt' # interrupt
               PROVE  xpc \in {"zeroed", "notify", "done"}
    BY <1>1
  <2>1. ~(SessionNext /\ Holding) BY DEF Holding
  <2>2. ~RequestExport /\ ~Export /\ ~SaveTool /\ ~Cancel
    BY DEF RequestExport, Export, SaveTool, Cancel
  <2>3. ~StoreThread
    BY DEF StoreThread, StoreBegin, StoreLoop, StoreBlock, StoreEnd, StoreZero, StoreNotify
  <2>4. ShowProgress
    BY <2>1, <2>2, <2>3
    DEF StoreNext, StoreUser, AskUser, Launch, OnDataSaved, ReadProgress, DeleteDialog, CloseDialog, ToolDone
  <2> QED BY <1>1, <2>4, ShownWhenFinished
<1> QED BY <1>1, StoreInvariant, PTL DEF StoreSpec, CancelsOnlyFinished
=============================================================================
