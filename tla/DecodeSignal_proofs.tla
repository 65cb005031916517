----------------------- MODULE DecodeSignal_proofs --------------------------
(***************************************************************************)
(* Proofs about DecodeSignal.  First, who may live when: the lifetimes of  *)
(* the decode thread, the mux thread and the libsigrokdecode session under *)
(* begin_decode(), reset_decode() and the destructor.  Then what is muxed  *)
(* and decoded.                                                            *)
(***************************************************************************)
EXTENDS DecodeSignalProperties, FiniteSetTheorems, WellFoundedInduction, TLAPS

-----------------------------------------------------------------------------
(* Neither thread is alive while results and session are torn down.        *)

\* From the join on, the GUI thread is alone: first the decode thread is gone, then the
\* mux thread.
ThreadInv ==
    /\ gpc \in {"stopMux", "joinMux", "finish", "launch", "gone"} => dpc = "none"
    /\ gpc \in {"finish", "launch", "gone"} => mpc = "none"

\* The threads neither start nor end anything on behalf of the GUI thread.
LEMMA ThreadsKeepThreadInv ==
    ASSUME ThreadInv, DecodeThread \/ MuxThread \/ SpuriousWake \/ Sampling
    PROVE  ThreadInv'
  <1>1. CASE Sampling
    BY <1>1 DEF Sampling, BeginSampling, EndSampling, PushSegment, AppendSamples,
       CompleteSegment, ThreadInv, guiVars, decodeVars, muxVars
  <1>2. CASE DecodeThread
    <2>1. dpc # "none" /\ UNCHANGED <<gpc, mpc>>
      BY <1>2 DEF DecodeThread, DecodeStart, DecodeBlock, DecodeWoken, DecodeCount, DecodeChunk,
         DecodeSend, DecodePauseCheck, DecodeExhausted, DecodeComplete, DecodeUnchanged,
         guiVars, muxVars
    <2> QED BY <2>1 DEF ThreadInv
  <1>3. CASE MuxThread
    <2>1. mpc # "none" /\ UNCHANGED gpc /\ (dpc = "none" => dpc' = "none")
      BY <1>3 DEF MuxThread, MuxStart, MuxBlock, MuxWoken, MuxCount, MuxSamples,
         MuxExhausted, MuxComplete, MuxUnchanged, guiVars, NotifyDecode, Notified
    <2> QED BY <2>1 DEF ThreadInv
  <1>4. CASE SpuriousWake
    BY <1>4 DEF SpuriousWake, Notified, guiVars, ThreadInv
  <1> QED BY <1>1, <1>2, <1>3, <1>4

\* The GUI thread starts the threads only when it leaves "launch", having joined both.
LEMMA GuiKeepsThreadInv ==
    ASSUME ThreadInv, GuiStep \/ DeliverEvent \/ UserStep
    PROVE  ThreadInv'
  <1>1. CASE GuiStep
    <2>1. CASE Resume \/ Unpause \/ StopDecode \/ JoinDecode
      BY <2>1 DEF ThreadInv, Resume, Unpause, StopDecode, DecodeJoinable, JoinDecode, NotifyDecode
    <2>2. CASE StopMux \/ JoinMux
      BY <2>2 DEF ThreadInv, StopMux, JoinMux, MuxJoinable
    <2>3. CASE FinishReset \/ Launch
      BY <2>3 DEF ThreadInv, FinishReset, Launch, ConfigError, StartThreads
    <2> QED BY <1>1, <2>1, <2>2, <2>3 DEF GuiStep
  <1>2. CASE DeliverEvent
    <2>1. gpc' \in {"idle", "stopDecode"}
      BY <1>2 DEF DeliverEvent, OnCaptureRunning, OnDataReceived, OnInputSegmentCompleted,
         OnNothing, BeginDecode, guiVars
    <2> QED BY <2>1 DEF ThreadInv
  <1>3. CASE UserStep
    <2>1. gpc' \in {"idle", "stopDecode", "resume", "stacking"}
      BY <1>3 DEF UserStep, StartCapture, Pause, ResumeDecode, ChangeOption, AssignSignal,
         StackDecoder, RemoveDecoder, RestoreSettings, StackConfigChanged,
         RemoveConversion, Destroy, BeginDecode, ResetDecode,
         Edit, guiVars
    <2> QED BY <2>1 DEF ThreadInv
  <1> QED BY <1>1, <1>2, <1>3

\* Results and the srd session are only ever dropped while neither thread lives.
THEOREM TearingDownAlone == Spec => []TearsDownAlone
  <1>1. Init => ThreadInv
    BY DEF Init, ThreadInv
  <1>2. ThreadInv /\ [Next]_vars => ThreadInv'
    <2>1. CASE UNCHANGED vars
      BY <2>1 DEF ThreadInv, vars, guiVars, decodeVars, muxVars
    <2> QED BY <2>1, ThreadsKeepThreadInv, GuiKeepsThreadInv DEF Next
  <1>3. ThreadInv => TearsDownAlone
    BY DEF ThreadInv, TearsDownAlone
  <1> QED BY <1>1, <1>2, <1>3, PTL DEF Spec

-----------------------------------------------------------------------------
(* The mux thread and the srd session                                      *)

\* Beside a living mux thread there is the decode thread it works for.
MuxInv == MuxServesDecoder

\* A session built for another stack is one that stackChanged will have destroyed,
\* and begin_decode and reset_decode have done so when they are over.
Settled == gpc \in {"idle", "launch", "gone"} \/ (gpc \in {"resume", "unpause"} /\ gstage = "user")
SessionInv ==
    /\ srd \notin {0, noted} => stackChanged
    /\ Settled => srd \in {0, noted}
    /\ srd = 0 => noted = version

\* The mux thread is started with a decode thread on its output, and stopped right
\* after it.
LEMMA StepMuxInv ==
    ASSUME ThreadInv, MuxInv, Next PROVE MuxInv'
  <1>1. CASE Sampling
    BY <1>1 DEF MuxInv, Sampling, BeginSampling, EndSampling, PushSegment, AppendSamples,
       CompleteSegment, MuxServesDecoder, guiVars, decodeVars, muxVars
  <1>2. CASE DecodeThread
    <2>1. dpc' # "none" /\ UNCHANGED <<gpc, mpc, din>>
      BY <1>2 DEF DecodeThread, DecodeStart, DecodeBlock, DecodeWoken, DecodeCount, DecodeChunk,
         DecodeSend, DecodePauseCheck, DecodeExhausted, DecodeComplete, DecodeUnchanged,
         guiVars, muxVars
    <2> QED BY <2>1 DEF MuxInv, MuxServesDecoder
  <1>3. CASE MuxThread
    <2>1. mpc # "none" /\ UNCHANGED <<gpc, din>> /\ (dpc # "none" => dpc' # "none")
      BY <1>3 DEF MuxThread, MuxStart, MuxBlock, MuxWoken, MuxCount, MuxSamples,
         MuxExhausted, MuxComplete, MuxUnchanged, guiVars, NotifyDecode, Notified
    <2> QED BY <2>1 DEF MuxInv, MuxServesDecoder
  <1>4. CASE SpuriousWake
    BY <1>4 DEF SpuriousWake, Notified, guiVars, MuxInv, MuxServesDecoder
  <1>5. CASE GuiStep
    <2>1. CASE Resume \/ Unpause \/ StopDecode \/ JoinDecode
      BY <2>1 DEF MuxInv, MuxServesDecoder, ThreadInv, Resume, Unpause, StopDecode, DecodeJoinable, JoinDecode, NotifyDecode, Notified, GuiFrame
    <2>2. CASE StopMux \/ JoinMux
      BY <2>2 DEF MuxInv, MuxServesDecoder, ThreadInv, StopMux, JoinMux, MuxJoinable, NotifyMux, Notified, GuiFrame
    <2>3. CASE FinishReset \/ Launch
      BY <2>3 DEF MuxInv, MuxServesDecoder, ThreadInv, FinishReset, Launch, ConfigError, StartThreads, GuiFrame
    <2> QED BY <1>5, <2>1, <2>2, <2>3 DEF GuiStep
  <1>6. CASE DeliverEvent
    <2>1. UNCHANGED din /\ (mpc' # "none" => mpc # "none") /\ (dpc # "none" => dpc' # "none") /\ gpc = "idle"
      BY <1>6 DEF DeliverEvent, OnCaptureRunning, OnDataReceived, OnInputSegmentCompleted,
         OnNothing, BeginDecode, guiVars, SlotFrame, NoWake, NotifyDecode, NotifyMux, Notified
    <2> QED BY <2>1 DEF MuxInv, MuxServesDecoder
  <1>7. CASE UserStep
    <2>1. UNCHANGED <<din, mpc, dpc>> /\ gpc \in {"idle", "stacking"}
      BY <1>7 DEF UserStep, StartCapture, Pause, ResumeDecode, ChangeOption, AssignSignal,
         StackDecoder, RemoveDecoder, RestoreSettings, StackConfigChanged,
         RemoveConversion, Destroy, BeginDecode, ResetDecode,
         Edit, guiVars, EditFrame, UserFrame, decodeVars, muxVars
    <2> QED BY <2>1 DEF MuxInv, MuxServesDecoder
  <1> QED BY <1>1, <1>2, <1>3, <1>4, <1>5, <1>6, <1>7 DEF Next

\* Every change of the stack is noted in stack_config_changed_, which only the creation of
\* a session clears; and a session is replaced only when no thread uses it.
LEMMA StepSessionInv ==
    ASSUME ThreadInv, SessionInv, Next
    PROVE  SessionInv' /\ (srd' # srd => dpc = "none" \/ (dpc \in {"start", "startWoken"} /\ srd = 0))
  <1>1. CASE Sampling \/ MuxThread \/ SpuriousWake \/ DeliverEvent
    <2>1. UNCHANGED <<srd, version, stackChanged, noted>>
      BY <1>1 DEF Sampling, BeginSampling, EndSampling, PushSegment, AppendSamples, CompleteSegment,
         MuxThread, MuxStart, MuxBlock, MuxWoken, MuxCount, MuxSamples, MuxExhausted, MuxComplete,
         MuxUnchanged, SpuriousWake, DeliverEvent, SlotFrame, decodeVars, configVars
    <2>2. Settled' => Settled
      BY <1>1 DEF Sampling, BeginSampling, EndSampling, PushSegment, AppendSamples, CompleteSegment,
         MuxThread, MuxStart, MuxBlock, MuxWoken, MuxCount, MuxSamples, MuxExhausted, MuxComplete,
         MuxUnchanged, SpuriousWake, DeliverEvent, SlotFrame, guiVars, Settled
    <2> QED BY <2>1, <2>2 DEF SessionInv
  <1>2. CASE DecodeThread
    <2>1. UNCHANGED <<gpc, gstage, version, noted>>
      BY <1>2 DEF DecodeThread, DecodeStart, DecodeBlock, DecodeWoken, DecodeCount, DecodeChunk,
         DecodeSend, DecodePauseCheck, DecodeExhausted, DecodeComplete, DecodeUnchanged,
         guiVars, configVars
    <2>2. CASE DecodeStart
      BY <2>1, <2>2 DEF DecodeStart, StartSrdSession, SessionInv, Settled
    <2>3. CASE ~DecodeStart
      <3>1. UNCHANGED <<srd, stackChanged>>
        BY <1>2, <2>3 DEF DecodeThread, DecodeBlock, DecodeWoken, DecodeCount, DecodeChunk,
           DecodeSend, DecodePauseCheck, DecodeExhausted, DecodeComplete, DecodeUnchanged, configVars
      <3> QED BY <2>1, <3>1 DEF SessionInv, Settled
    <2> QED BY <2>2, <2>3
  <1>3. CASE GuiStep
    <2>1. CASE FinishReset
      BY <2>1 DEF FinishReset, DestroysSession, SessionInv, Settled, ThreadInv, configVars
    <2>2. CASE Launch
      <3>1. gpc = "launch" /\ UNCHANGED <<srd, stackChanged>>
            /\ (UNCHANGED <<version, noted>> \/ noted' = IF srd = 0 THEN version' ELSE noted)
        BY <2>2 DEF Launch, DropVanished
      <3> QED BY <3>1 DEF SessionInv, Settled
    <2>3. CASE ~FinishReset /\ ~Launch
      BY <1>3, <2>3 DEF GuiStep, Resume, Unpause, StopDecode, DecodeJoinable, JoinDecode, StopMux, JoinMux,
         SessionInv, Settled, GuiFrame, configVars
    <2> QED BY <2>1, <2>2, <2>3
  <1>4. CASE UserStep
    <2>1. UNCHANGED srd
      BY <1>4 DEF UserStep, StartCapture, Pause, ResumeDecode, ChangeOption, AssignSignal,
         StackDecoder, RemoveDecoder, RestoreSettings, StackConfigChanged,
         RemoveConversion, Destroy, EditFrame, UserFrame, decodeVars
    <2>2. CASE StartCapture \/ Pause \/ ResumeDecode \/ ChangeOption \/ RemoveConversion \/ Destroy
      BY <2>1, <2>2 DEF StartCapture, Pause, ResumeDecode, ChangeOption, RemoveConversion, Destroy, BeginDecode,
         ResetDecode, Edit, guiVars, EditFrame, configVars, SessionInv, Settled
    <2>3. CASE AssignSignal \/ StackDecoder \/ RemoveDecoder \/ RestoreSettings
      BY <2>1, <2>3 DEF AssignSignal, StackDecoder, RemoveDecoder, RestoreSettings, BeginDecode,
         StackConfigChanged, SessionInv, Settled
    <2> QED BY <1>4, <2>2, <2>3 DEF UserStep
  <1> QED BY <1>1, <1>2, <1>3, <1>4 DEF Next

\* logic_mux_thread_ never outlives the decode thread it feeds (decodesignal.cpp:160-203, 371-424).
THEOREM MuxServes == Spec => []MuxServesDecoder
  <1>1. Init => ThreadInv /\ MuxInv
    BY DEF Init, ThreadInv, MuxInv, MuxServesDecoder
  <1>2. ThreadInv /\ MuxInv /\ [Next]_vars => ThreadInv' /\ MuxInv'
    <2>1. CASE UNCHANGED vars
      BY <2>1 DEF ThreadInv, MuxInv, MuxServesDecoder, vars, guiVars, decodeVars, muxVars
    <2> QED BY <2>1, ThreadsKeepThreadInv, GuiKeepsThreadInv, StepMuxInv DEF Next
  <1> QED BY <1>1, <1>2, PTL DEF Spec, MuxInv

\* The inductive invariant about srd_session_ and stack_config_changed_.
THEOREM SessionInvariant == Spec => [](ThreadInv /\ SessionInv)
  <1>1. Init => ThreadInv /\ SessionInv
    BY DEF Init, ThreadInv, SessionInv
  <1>2. ThreadInv /\ SessionInv /\ [Next]_vars => ThreadInv' /\ SessionInv'
    <2>1. CASE UNCHANGED vars
      BY <2>1 DEF ThreadInv, SessionInv, Settled, vars, guiVars, decodeVars, muxVars, configVars
    <2> QED BY <2>1, ThreadsKeepThreadInv, GuiKeepsThreadInv, StepSessionInv DEF Next
  <1> QED BY <1>1, <1>2, PTL DEF Spec

\* No chunk is sent to decoder instances built before the last change of stack or channel
\* map that stack_config_changed_ records.
THEOREM SessionMatches == Spec => []SessionMatchesStack
  <1>1. SessionInv => SessionMatchesStack
    BY DEF SessionInv, Settled, SessionMatchesStack
  <1> QED BY <1>1, SessionInvariant, PTL

\* srd_session_ is not destroyed or replaced under a living decode thread.
THEOREM SessionOutlives == Spec => SessionOutlivesUse
  <1>1. ThreadInv /\ SessionInv /\ [Next]_vars =>
          [srd' # srd => dpc = "none" \/ (dpc \in {"start", "startWoken"} /\ srd = 0)]_vars
    BY StepSessionInv DEF vars, decodeVars
  <1> QED BY <1>1, SessionInvariant, PTL DEF Spec, SessionOutlivesUse

-----------------------------------------------------------------------------
(***************************************************************************)
(* What is decoded: proofs about the sample counts that the decode thread  *)
(* publishes, and about the indices with which both threads go through     *)
(* segment lists that grow, and are cleared, under them.                   *)
(***************************************************************************)

-----------------------------------------------------------------------------
(* The invariant, and lemmas about its data                                *)

\* Where the threads are.
DecodeStarts == dpc \in {"start", "startWoken", "firstBlock", "firstWait"}
DecodeRuns == dpc \in {"count", "chunk", "send", "pauseCheck", "pauseBlock", "pauseWait",
                       "exhausted", "complete", "block", "wait", "woken"}
MuxStarts == mpc \in {"start", "startWoken", "firstBlock", "firstWait"}
MuxRuns == mpc \in {"count", "mux", "exhausted", "complete", "block", "wait", "woken"}

\* Threads are launched on a clean slate.
LaunchInv == gpc = "launch" => segs = <<>> /\ muxed = <<>> /\ orphan = <<>>

\* The segments the decode thread works on exist, in its input and in its results.
DecodeIndexInv ==
    /\ DecodeStarts => segs = <<>> /\ orphan = <<>> /\ dseg = 0 /\ dpos = 0
    /\ DecodeRuns => /\ Len(segs) = dseg + 1
                     /\ orphan # <<>> \/ dseg < Len(DecodeInput)

MuxIndexInv ==
    /\ MuxStarts => muxed = <<>> /\ mseg = 0
    /\ MuxRuns => Len(muxed) = mseg + 1
    /\ mpc = "mux" => mend > muxed[mseg + 1].count

\* What the two counts of a segment keep, whatever the thread does.
Bracketed(r) == r.excl <= r.incl /\ r.incl <= r.excl + ChunkSamples

\* How the counts of the current segment follow the decode thread's locals.
Following ==
    LET now == segs[dseg + 1] IN
    /\ now.incl <= InputSegment.count
    /\ dpc \in {"count", "exhausted", "complete", "block", "wait", "woken"} =>
          now.incl = dpos /\ now.excl = dpos
    /\ dpc \in {"chunk", "pauseBlock", "pauseWait"} =>
          now.incl = Smaller(dchunk, dend) /\ now.excl = now.incl
    /\ dpc = "send" => now.incl = ChunkEnd /\ now.excl = dchunk /\ dchunk < dend
    /\ dpc = "pauseCheck" => now.incl = ChunkEnd /\ now.excl = ChunkEnd
    /\ dpc \in {"chunk", "send", "pauseCheck", "pauseBlock", "pauseWait"} =>
          dend <= InputSegment.count

BracketInv == \A i \in 1 .. Len(segs) : Bracketed(segs[i])
CountInv == BracketInv /\ (DecodeRuns => Following)

\* The inductive invariant.
IInv == TypeOK /\ ThreadInv /\ LaunchInv /\ DecodeIndexInv /\ MuxIndexInv /\ CountInv

\* A set of naturals that is not empty has a least element.
LEMMA LeastIsLeast ==
    ASSUME NEW S \in SUBSET Nat, S # {}
    PROVE  Least(S) \in S /\ \A m \in S : Least(S) <= m
  <1> DEFINE R == {ss \in Nat \X Nat : ss[1] < ss[2]}
  <1>1. IsWellFoundedOn(R, Nat)
    BY NatLessThanWellFounded, Zenon DEF OpToRel
  <1>2. \A m, n \in Nat : <<m, n>> \notin R => n <= m
    OBVIOUS
  <1> HIDE DEF R
  <1>3. PICK n \in S : \A m \in S : ~(<<m, n>> \in R)
    BY <1>1, WFMin
  <1>4. \A m \in S : n <= m
    BY <1>2, <1>3
  <1> QED BY <1>3, <1>4 DEF Least

\* get_working_sample_count() always returns a count.
LEMMA WorkingSampleCountType ==
    ASSUME TypeOK, NEW i \in Nat PROVE WorkingSampleCount(i) \in Nat
  <1>1. CASE Used = {} \/ Provided # Used \/ \E s \in Used : i >= SegmentCount(s)
    BY <1>1 DEF WorkingSampleCount
  <1>2. CASE Used # {} /\ Provided = Used /\ \A s \in Used : ~(i >= SegmentCount(s))
    <2> DEFINE counts == {input[s][i + 1].count : s \in Used}
    <2>1. Used \subseteq Sources
      BY DEF TypeOK, ConfigTypeOK, Assignment, Used
    <2>2. \A s \in Used : input[s][i + 1].count \in Nat
      <3> TAKE s \in Used
      <3>1. input[s] \in Seq(Segment) /\ ~(i >= Len(input[s]))
        BY <1>2, <2>1 DEF TypeOK, InputTypeOK, SegmentCount
      <3>2. input[s][i + 1] \in Segment
        BY <3>1
      <3> QED BY <3>2 DEF Segment
    <2>3. counts \in SUBSET Nat /\ counts # {}
      BY <1>2, <2>2
    <2> QED BY <1>2, <2>3, LeastIsLeast DEF WorkingSampleCount
  <1> QED BY <1>1, <1>2

\* The segments of a Logic are segments.
LEMMA CountType ==
    ASSUME NEW q \in Seq(Segment), NEW i \in 1 .. Len(q)
    PROVE  q[i] \in Segment /\ q[i].count \in Nat /\ q[i].complete \in BOOLEAN
  <1>1. q[i] \in Segment
    OBVIOUS
  <1> QED BY <1>1 DEF Segment

\* The sample count of one segment can be replaced alone.
LEMMA ReplaceCount ==
    ASSUME NEW q \in Seq(Segment), NEW i \in 1 .. Len(q), NEW n \in Nat
    PROVE  /\ [q EXCEPT ![i].count = n] \in Seq(Segment)
           /\ Len([q EXCEPT ![i].count = n]) = Len(q)
           /\ \A j \in 1 .. Len(q) : j # i => [q EXCEPT ![i].count = n][j] = q[j]
           /\ [q EXCEPT ![i].count = n][i].count = n
           /\ [q EXCEPT ![i].count = n][i].complete = q[i].complete
  <1> DEFINE r == [q[i] EXCEPT !.count = n]
  <1>1. r \in Segment /\ r.count = n /\ r.complete = q[i].complete
    <2>1. q[i] \in Segment
      OBVIOUS
    <2> QED BY <2>1 DEF Segment
  <1>2. [q EXCEPT ![i].count = n] = [q EXCEPT ![i] = r]
    OBVIOUS
  <1> HIDE DEF r
  <1> QED BY <1>1, <1>2

\* set_complete() on one segment changes no count.
LEMMA ReplaceComplete ==
    ASSUME NEW q \in Seq(Segment), NEW i \in 1 .. Len(q)
    PROVE  /\ [q EXCEPT ![i].complete = TRUE] \in Seq(Segment)
           /\ Len([q EXCEPT ![i].complete = TRUE]) = Len(q)
           /\ \A j \in 1 .. Len(q) : [q EXCEPT ![i].complete = TRUE][j].count = q[j].count
           /\ \A j \in 1 .. Len(q) : j # i => [q EXCEPT ![i].complete = TRUE][j] = q[j]
           /\ [q EXCEPT ![i].complete = TRUE][i].complete
  <1> DEFINE r == [q[i] EXCEPT !.complete = TRUE]
  <1>1. r \in Segment /\ r.count = q[i].count /\ r.complete
    <2>1. q[i] \in Segment
      OBVIOUS
    <2> QED BY <2>1 DEF Segment
  <1>2. [q EXCEPT ![i].complete = TRUE] = [q EXCEPT ![i] = r]
    OBVIOUS
  <1> HIDE DEF r
  <1>3. \A j \in 1 .. Len(q) : [q EXCEPT ![i] = r][j] = IF j = i THEN r ELSE q[j]
    OBVIOUS
  <1>4. [q EXCEPT ![i] = r] \in Seq(Segment) /\ Len([q EXCEPT ![i] = r]) = Len(q)
    BY <1>1
  <1> QED BY <1>1, <1>2, <1>3, <1>4

\* How the input of a thread may change under it: new segments and samples, and segments
\* that become complete.
Grows(p, q) ==
    /\ Len(p) <= Len(q)
    /\ \A i \in 1 .. Len(p) : p[i].count <= q[i].count /\ (p[i].complete => q[i].complete)

\* A segment list that stays as it is has grown by nothing.
LEMMA GrowsReflexive == ASSUME NEW q \in Seq(Segment) PROVE Grows(q, q)
  <1>1. \A i \in 1 .. Len(q) : q[i].count \in Nat
    BY CountType
  <1> QED BY <1>1 DEF Grows

\* push_segment() lets a segment list grow.
LEMMA AppendGrows ==
    ASSUME NEW q \in Seq(Segment)
    PROVE  Append(q, NewSegment) \in Seq(Segment) /\ Grows(q, Append(q, NewSegment))
  <1>1. NewSegment \in Segment
    BY DEF NewSegment, Segment
  <1>2. \A i \in 1 .. Len(q) : q[i].count \in Nat
    BY CountType
  <1> QED BY <1>1, <1>2 DEF Grows

\* append_payload() lets a segment list grow.
LEMMA ReplaceCountGrows ==
    ASSUME NEW q \in Seq(Segment), NEW i \in 1 .. Len(q), NEW n \in Nat, q[i].count <= n
    PROVE  Grows(q, [q EXCEPT ![i].count = n])
  <1>1. \A j \in 1 .. Len(q) : q[j].count \in Nat
    BY CountType
  <1> QED BY <1>1, ReplaceCount DEF Grows

\* set_complete() lets a segment list grow.
LEMMA ReplaceCompleteGrows ==
    ASSUME NEW q \in Seq(Segment), NEW i \in 1 .. Len(q)
    PROVE  Grows(q, [q EXCEPT ![i].complete = TRUE])
  <1>1. \A j \in 1 .. Len(q) : q[j].count \in Nat
    BY CountType
  <1> QED BY <1>1, ReplaceComplete DEF Grows

-----------------------------------------------------------------------------
(* Growing inputs                                                          *)

DecodeData == <<segs, dseg, dpos, dend, dchunk, orphan>>

\* How other threads may move the decode thread: by a notification.
DecodeNudged == \/ dpc' = dpc \/ dpc' = Notified(dpc) \/ (dpc = "pauseWait" /\ dpc' = "chunk")

\* decode_input_data_ is a list of segments, whatever it points to.
LEMMA DecodeInputType == TypeOK => DecodeInput \in Seq(Segment)
  <1>1. <<>> \in Seq(Segment)
    OBVIOUS
  <1> QED BY <1>1 DEF TypeOK, InputTypeOK, MuxTypeOK, DecodeInput

\* The counts kept for a decode segment are naturals.
LEMMA DecodedType ==
    ASSUME NEW q \in Seq(Decoded), NEW i \in 1 .. Len(q)
    PROVE  q[i] \in Decoded /\ q[i].incl \in Nat /\ q[i].excl \in Nat
  <1>1. q[i] \in Decoded
    OBVIOUS
  <1> QED BY <1>1 DEF Decoded

\* While the decode thread runs, its current segment exists in the results.
LEMMA CurrentType ==
    ASSUME TypeOK, DecodeIndexInv, DecodeRuns
    PROVE  /\ dseg + 1 \in 1 .. Len(segs) /\ dseg + 1 = Len(segs)
           /\ segs[dseg + 1].incl \in Nat /\ segs[dseg + 1].excl \in Nat
  <1>1. segs \in Seq(Decoded) /\ dseg + 1 \in 1 .. Len(segs)
    BY DEF TypeOK, DecodeTypeOK, DecodeIndexInv
  <1> QED BY <1>1, DecodedType DEF DecodeIndexInv

\* The decode thread's invariants survive notifications and a growing input.
LEMMA DecodeFrame ==
    ASSUME TypeOK, TypeOK', DecodeIndexInv, CountInv,
           UNCHANGED DecodeData, DecodeNudged,
           DecodeRuns /\ orphan = <<>> => Grows(DecodeInput, DecodeInput')
    PROVE  DecodeIndexInv' /\ CountInv'
  <1>1. DecodeInput \in Seq(Segment) /\ DecodeInput' \in Seq(Segment)
    <2>1. DecodeInput \in Seq(Segment)
      BY DecodeInputType
    <2>2. <<>> \in Seq(Segment)
      OBVIOUS
    <2>3. DecodeInput' \in Seq(Segment)
      BY <2>2 DEF TypeOK, InputTypeOK, MuxTypeOK, DecodeInput
    <2> QED BY <2>1, <2>3
  <1>2. (DecodeRuns' <=> DecodeRuns) /\ (DecodeStarts' <=> DecodeStarts)
    BY DEF DecodeNudged, Notified, DecodeRuns, DecodeStarts
  <1>3. DecodeRuns => InputSegment \in Segment /\ InputSegment' \in Segment
                      /\ InputSegment.count <= InputSegment'.count
                      /\ (orphan # <<>> \/ dseg < Len(DecodeInput'))
    <2> SUFFICES ASSUME DecodeRuns
                 PROVE  InputSegment \in Segment /\ InputSegment' \in Segment
                        /\ InputSegment.count <= InputSegment'.count
                        /\ (orphan # <<>> \/ dseg < Len(DecodeInput'))
      OBVIOUS
    <2>1. CASE orphan # <<>>
      <3>1. orphan \in Seq(Segment) /\ 1 \in 1 .. Len(orphan)
        BY <2>1 DEF TypeOK, DecodeTypeOK
      <3>2. orphan[1] \in Segment /\ orphan[1].count \in Nat
        BY <3>1, CountType
      <3> QED BY <2>1, <3>2 DEF InputSegment, DecodeData
    <2>2. CASE orphan = <<>>
      <3>1. dseg + 1 \in 1 .. Len(DecodeInput) /\ dseg + 1 \in 1 .. Len(DecodeInput')
        BY <1>1, <2>2 DEF DecodeIndexInv, Grows, TypeOK, DecodeTypeOK
      <3>2. DecodeInput[dseg + 1] \in Segment /\ DecodeInput'[dseg + 1] \in Segment
            /\ DecodeInput[dseg + 1].count <= DecodeInput'[dseg + 1].count
        BY <1>1, <2>2, <3>1, CountType DEF Grows
      <3>3. InputSegment = DecodeInput[dseg + 1] /\ InputSegment' = DecodeInput'[dseg + 1]
        BY <2>2 DEF InputSegment, DecodeData
      <3> QED BY <3>1, <3>2, <3>3, <1>1 DEF TypeOK, DecodeTypeOK
    <2> QED BY <2>1, <2>2
  <1>4. DecodeIndexInv'
    BY <1>2, <1>3 DEF DecodeIndexInv, DecodeData
  <1>5. CountInv'
    <2>1. BracketInv'
      BY DEF CountInv, DecodeData, BracketInv, Bracketed
    <2>2. ASSUME DecodeRuns PROVE Following'
      <3> DEFINE now == segs[dseg + 1]
      <3>1. InputSegment.count \in Nat /\ InputSegment'.count \in Nat
        BY <1>3, <2>2 DEF Segment
      <3>2. now.incl \in Nat
        BY <2>2, CurrentType
      <3>3. dend \in Nat
        BY DEF TypeOK, DecodeTypeOK
      <3>4. segs' = segs /\ dseg' = dseg /\ dpos' = dpos /\ dend' = dend /\ dchunk' = dchunk
            /\ ChunkEnd' = ChunkEnd
        BY DEF DecodeData, ChunkEnd, Smaller
      <3>5. Following
        BY <2>2 DEF CountInv
      <3> QED BY <1>3, <2>2, <3>1, <3>2, <3>3, <3>4, <3>5 DEF Following, DecodeNudged, Notified, DecodeRuns
    <2> QED BY <1>2, <2>1, <2>2 DEF CountInv
  <1> QED BY <1>4, <1>5

\* The mux thread's invariant survives notifications.
LEMMA MuxFrame ==
    ASSUME MuxIndexInv, UNCHANGED <<mseg, mend, muxed>>, mpc' = mpc \/ mpc' = Notified(mpc)
    PROVE  MuxIndexInv'
  BY DEF MuxIndexInv, MuxStarts, MuxRuns, Notified

-----------------------------------------------------------------------------
(* The sampling thread                                                     *)

\* The signals the sampling thread queues are events.
LEMMA EventType == \A k \in {"running", "received", "completed"}, s \in Sources \union {NoSource} :
                       Event(k, s) \in Events
  BY DEF Event, Events

\* Only the input changes, and only by growing: the rest of the type invariant is kept.
LEMMA StepSampling ==
    ASSUME IInv, Sampling PROVE IInv' /\ \A s \in Sources : Grows(input[s], input'[s])
  <1>1. UNCHANGED <<vanished, configVars, guiVars, din, dint, mint, paused, error, decodeVars, muxVars, missed>>
    BY DEF Sampling, BeginSampling, EndSampling, PushSegment, AppendSamples, CompleteSegment
  <1>2. events' \in Seq(Events) /\ capture' \in {"stopped", "running"} \union {capture} /\ captures' \in Nat
    <2>1. events \in Seq(Events) /\ captures \in Nat
      BY DEF IInv, TypeOK, InputTypeOK
    <2>2. CASE BeginSampling
      <3>1. Event("running", NoSource) \in Events
        BY EventType
      <3> QED BY <2>1, <2>2, <3>1 DEF BeginSampling
    <2>3. CASE EndSampling
      BY <2>1, <2>3 DEF EndSampling
    <2>4. ASSUME NEW s \in Sources, PushSegment(s) \/ AppendSamples(s) \/ CompleteSegment(s)
          PROVE events' \in Seq(Events) /\ capture' = capture /\ captures' = captures
      <3>1. Event("received", s) \in Events /\ Event("completed", s) \in Events
        BY EventType
      <3>2. capture' = capture /\ captures' = captures
        BY <2>4 DEF PushSegment, AppendSamples, CompleteSegment
      <3>3. \/ events' = events
            \/ events' = Append(events, Event("received", s))
            \/ events' = Append(events, Event("completed", s))
        BY <2>4 DEF PushSegment, AppendSamples, CompleteSegment
      <3> QED BY <2>1, <3>1, <3>2, <3>3
    <2> QED BY <2>1, <2>2, <2>3, <2>4 DEF Sampling
  <1>3. /\ input' \in [Sources -> Seq(Segment)]
        /\ \A s \in Sources : Grows(input[s], input'[s])
    <2>1. input \in [Sources -> Seq(Segment)]
      BY DEF IInv, TypeOK, InputTypeOK
    <2>2. \A s \in Sources : Grows(input[s], input[s])
      BY <2>1, GrowsReflexive
    <2>3. CASE BeginSampling \/ EndSampling
      BY <2>1, <2>2, <2>3 DEF BeginSampling, EndSampling
    <2>4. ASSUME NEW s \in Sources, NEW q \in Seq(Segment), Grows(input[s], q),
                 input' = [input EXCEPT ![s] = q]
          PROVE  /\ input' \in [Sources -> Seq(Segment)]
                 /\ \A t \in Sources : Grows(input[t], input'[t])
      BY <2>1, <2>2, <2>4
    <2>5. ASSUME NEW s \in Sources, PushSegment(s)
          PROVE  \E q \in Seq(Segment) : Grows(input[s], q) /\ input' = [input EXCEPT ![s] = q]
      <3>1. input[s] \in Seq(Segment)
        BY <2>1
      <3>2. input' = [input EXCEPT ![s] = Append(input[s], NewSegment)]
        BY <2>5 DEF PushSegment
      <3> QED BY <3>1, <3>2, AppendGrows
    <2>6. ASSUME NEW s \in Sources, AppendSamples(s)
          PROVE  \E q \in Seq(Segment) : Grows(input[s], q) /\ input' = [input EXCEPT ![s] = q]
      <3>1. CASE UNCHANGED input
        <4>1. input' = [input EXCEPT ![s] = input[s]] /\ input[s] \in Seq(Segment)
          BY <2>1, <3>1
        <4> QED BY <2>2, <4>1
      <3>2. CASE ~UNCHANGED input
        <4>1. input[s] \in Seq(Segment) /\ Len(input[s]) \in 1 .. Len(input[s])
          BY <2>1, <2>6, <3>2 DEF AppendSamples
        <4>2. input[s][Len(input[s])].count \in Nat /\ MaxSamples \in Nat
          BY <4>1, CountType, ConstantAssumption
        <4>3. PICK n \in (input[s][Len(input[s])].count + 1) .. MaxSamples :
                input' = [input EXCEPT ![s][Len(input[s])].count = n]
          BY <2>6, <3>2 DEF AppendSamples
        <4>4. input' = [input EXCEPT ![s] = [input[s] EXCEPT ![Len(input[s])].count = n]]
          BY <4>3
        <4>5. n \in Nat /\ input[s][Len(input[s])].count <= n
          BY <4>2
        <4> QED BY <4>1, <4>4, <4>5, ReplaceCount, ReplaceCountGrows
      <3> QED BY <3>1, <3>2
    <2>7. ASSUME NEW s \in Sources, CompleteSegment(s)
          PROVE  \E q \in Seq(Segment) : Grows(input[s], q) /\ input' = [input EXCEPT ![s] = q]
      <3>1. input[s] \in Seq(Segment) /\ Len(input[s]) \in 1 .. Len(input[s])
        BY <2>1, <2>7 DEF CompleteSegment
      <3>2. input' = [input EXCEPT ![s] = [input[s] EXCEPT ![Len(input[s])].complete = TRUE]]
        BY <2>7 DEF CompleteSegment
      <3> QED BY <3>1, <3>2, ReplaceComplete, ReplaceCompleteGrows
    <2> QED BY <2>3, <2>4, <2>5, <2>6, <2>7 DEF Sampling
  <1>4. TypeOK'
    BY <1>1, <1>2, <1>3 DEF IInv, TypeOK, InputTypeOK, ConfigTypeOK, ControlTypeOK, DecodeTypeOK,
       MuxTypeOK, configVars, guiVars, decodeVars, muxVars
  <1>5. Grows(DecodeInput, DecodeInput')
    <2>1. muxed \in Seq(Segment) /\ <<>> \in Seq(Segment)
      BY DEF IInv, TypeOK, MuxTypeOK
    <2>2. Grows(muxed, muxed) /\ Grows(<<>>, <<>>)
      BY <2>1, GrowsReflexive
    <2> QED BY <1>1, <1>3, <2>2 DEF DecodeInput, muxVars
  <1>6. DecodeIndexInv' /\ CountInv'
    <2>1. DecodeNudged /\ UNCHANGED DecodeData
      BY <1>1 DEF DecodeNudged, DecodeData, decodeVars
    <2> QED BY <1>4, <1>5, <2>1, DecodeFrame DEF IInv
  <1>7. MuxIndexInv' /\ LaunchInv'
    BY <1>1, MuxFrame DEF IInv, LaunchInv, muxVars, guiVars, decodeVars
  <1>8. ThreadInv'
    BY ThreadsKeepThreadInv DEF IInv
  <1> QED BY <1>3, <1>4, <1>6, <1>7, <1>8 DEF IInv

-----------------------------------------------------------------------------
(* The decode thread                                                       *)

\* What the invariant says of the decode thread.
DecodeInv == DecodeTypeOK /\ DecodeIndexInv /\ CountInv

\* While the decode thread runs, input_segment points to a segment.
LEMMA InputSegmentType ==
    ASSUME TypeOK, DecodeIndexInv, DecodeRuns
    PROVE  InputSegment \in Segment /\ InputSegment.count \in Nat
  <1>1. CASE orphan # <<>>
    <2>1. orphan \in Seq(Segment) /\ 1 \in 1 .. Len(orphan)
      BY <1>1 DEF TypeOK, DecodeTypeOK
    <2> QED BY <1>1, <2>1, CountType DEF InputSegment
  <1>2. CASE orphan = <<>>
    <2>1. DecodeInput \in Seq(Segment)
      BY DecodeInputType
    <2>2. dseg + 1 \in 1 .. Len(DecodeInput)
      BY <1>2, <2>1 DEF DecodeIndexInv, TypeOK, DecodeTypeOK
    <2> QED BY <1>2, <2>1, <2>2, CountType DEF InputSegment
  <1> QED BY <1>1, <1>2

\* One of the counts of the current segment is updated.
LEMMA UpdateIncl ==
    ASSUME NEW q \in Seq(Decoded), NEW i \in 1 .. Len(q), NEW n \in Nat
    PROVE  LET r == [q EXCEPT ![i].incl = n] IN
           /\ r \in Seq(Decoded) /\ Len(r) = Len(q)
           /\ \A j \in 1 .. Len(q) : j # i => r[j] = q[j]
           /\ r[i].incl = n /\ r[i].excl = q[i].excl
  <1>1. q[i] \in Decoded
    OBVIOUS
  <1> DEFINE v == [q[i] EXCEPT !.incl = n]
  <1>2. v \in Decoded /\ v.incl = n /\ v.excl = q[i].excl
    BY <1>1 DEF Decoded
  <1>3. [q EXCEPT ![i].incl = n] = [q EXCEPT ![i] = v]
    OBVIOUS
  <1> HIDE DEF v
  <1>4. /\ [q EXCEPT ![i] = v] \in Seq(Decoded) /\ Len([q EXCEPT ![i] = v]) = Len(q)
        /\ \A j \in 1 .. Len(q) : [q EXCEPT ![i] = v][j] = IF j = i THEN v ELSE q[j]
    BY <1>2
  <1> QED BY <1>2, <1>3, <1>4

\* The same for samples_decoded_excl.
LEMMA UpdateExcl ==
    ASSUME NEW q \in Seq(Decoded), NEW i \in 1 .. Len(q), NEW n \in Nat
    PROVE  LET r == [q EXCEPT ![i].excl = n] IN
           /\ r \in Seq(Decoded) /\ Len(r) = Len(q)
           /\ \A j \in 1 .. Len(q) : j # i => r[j] = q[j]
           /\ r[i].excl = n /\ r[i].incl = q[i].incl
  <1>1. q[i] \in Decoded
    OBVIOUS
  <1> DEFINE v == [q[i] EXCEPT !.excl = n]
  <1>2. v \in Decoded /\ v.excl = n /\ v.incl = q[i].incl
    BY <1>1 DEF Decoded
  <1>3. [q EXCEPT ![i].excl = n] = [q EXCEPT ![i] = v]
    OBVIOUS
  <1> HIDE DEF v
  <1>4. /\ [q EXCEPT ![i] = v] \in Seq(Decoded) /\ Len([q EXCEPT ![i] = v]) = Len(q)
        /\ \A j \in 1 .. Len(q) : [q EXCEPT ![i] = v][j] = IF j = i THEN v ELSE q[j]
    BY <1>2
  <1> QED BY <1>2, <1>3, <1>4

\* decode_proc up to its main loop.
LEMMA StepDecodeStart ==
    ASSUME IInv, DecodeStart PROVE DecodeInv'
  <1>1. CASE dpc' = "done" \/ dpc' = "firstBlock"
    <2>1. UNCHANGED <<segs, srd, dseg, dpos, dend, dchunk, orphan, finished>>
      BY <1>1 DEF DecodeStart
    <2>2. DecodeTypeOK'
      BY <1>1, <2>1 DEF IInv, TypeOK, DecodeTypeOK, DecodePcs
    <2>3. DecodeIndexInv'
      BY <1>1, <2>1 DEF IInv, DecodeIndexInv, DecodeStarts, DecodeRuns, DecodeStart
    <2>4. CountInv'
      BY <1>1, <2>1 DEF IInv, CountInv, BracketInv, Bracketed, DecodeRuns
    <2> QED BY <2>2, <2>3, <2>4 DEF DecodeInv
  <1>2. CASE dpc' = "count"
    <2>1. /\ segs = <<>> /\ orphan = <<>> /\ dseg = 0 /\ dpos = 0
          /\ DecodeSegmentCount > 0
          /\ segs' = Append(segs, NewDecoded)
          /\ UNCHANGED <<dseg, dpos, dend, dchunk, orphan, finished, din, input, muxed>>
      BY <1>2 DEF IInv, DecodeIndexInv, DecodeStarts, DecodeStart, CreateDecodeSegment, inputVars, muxVars
    <2>2. segs' = <<NewDecoded>> /\ NewDecoded \in Decoded
      BY <2>1 DEF NewDecoded, Decoded
    <2>3. srd' \in Nat
      BY <1>2 DEF DecodeStart, StartSrdSession, IInv, TypeOK, DecodeTypeOK, ConfigTypeOK
    <2>4. DecodeTypeOK'
      BY <1>2, <2>1, <2>2, <2>3 DEF IInv, TypeOK, DecodeTypeOK, DecodePcs
    <2>5. DecodeInput' = DecodeInput /\ DecodeInput \in Seq(Segment)
      BY <2>1, DecodeInputType DEF DecodeInput, IInv
    <2>6. DecodeIndexInv'
      BY <1>2, <2>1, <2>2, <2>5 DEF DecodeIndexInv, DecodeStarts, DecodeRuns, DecodeSegmentCount
    <2>7. CountInv'
      <3>1. InputSegment' = DecodeInput[1] /\ DecodeInput[1].count \in Nat
        BY <2>1, <2>5, CountType DEF InputSegment, DecodeSegmentCount
      <3>2. BracketInv'
        BY <2>2, ConstantAssumption DEF BracketInv, Bracketed, NewDecoded
      <3>3. Following'
        BY <1>2, <2>1, <2>2, <3>1 DEF Following, NewDecoded
      <3> QED BY <3>2, <3>3 DEF CountInv
    <2> QED BY <2>4, <2>6, <2>7 DEF DecodeInv
  <1> QED BY <1>1, <1>2 DEF DecodeStart

\* The steps of the decode thread that only change its locals.
LEMMA StepDecodeLocals ==
    ASSUME IInv, DecodeBlock \/ DecodeWoken \/ DecodeCount \/ DecodePauseCheck \/ DecodeExhausted
    PROVE  DecodeInv'
  <1>1. UNCHANGED <<segs, srd, dseg, dpos, orphan, finished, din, input, muxed>>
    BY DEF DecodeBlock, DecodeWoken, DecodeCount, DecodePauseCheck, DecodeExhausted,
       DecodeUnchanged, inputVars, muxVars
  <1>2. DecodeInput' = DecodeInput /\ InputSegment' = InputSegment
    BY <1>1 DEF DecodeInput, InputSegment
  <1>3. BracketInv'
    BY <1>1 DEF IInv, CountInv, BracketInv, Bracketed
  <1>4. dpos \in Nat /\ dend \in Nat /\ dchunk \in Nat /\ ChunkSamples \in Nat \ {0}
    BY ConstantAssumption DEF IInv, TypeOK, DecodeTypeOK
  <1>5. DecodeRuns => InputSegment.count \in Nat /\ segs[dseg + 1].incl \in Nat /\ Following
    BY InputSegmentType, CurrentType DEF IInv, CountInv
  <1>6. CASE DecodeBlock \/ DecodeWoken \/ DecodeExhausted
    <2>1. UNCHANGED <<dend, dchunk>>
      BY <1>6 DEF DecodeBlock, DecodeWoken, DecodeExhausted
    <2>2. DecodeTypeOK'
      BY <1>1, <1>6, <2>1 DEF DecodeBlock, DecodeWoken, DecodeExhausted, IInv, TypeOK,
         DecodeTypeOK, DecodePcs
    <2>3. DecodeIndexInv'
      BY <1>1, <1>2, <1>6 DEF DecodeBlock, DecodeWoken, DecodeExhausted, IInv, DecodeIndexInv,
         DecodeStarts, DecodeRuns
    <2>4. DecodeRuns' => Following'
      BY <1>1, <1>2, <1>5, <1>6, <2>1 DEF DecodeBlock, DecodeWoken, DecodeExhausted,
         DecodeRuns, Following
    <2> QED BY <1>3, <2>2, <2>3, <2>4 DEF DecodeInv, CountInv
  <1>7. CASE DecodeCount
    <2>1. DecodeRuns /\ dend' = InputSegment.count /\ dchunk' = dpos
          /\ dpc' = IF dend' > dpos THEN "chunk" ELSE "exhausted"
      BY <1>7 DEF DecodeCount, DecodeRuns
    <2>2. DecodeTypeOK'
      BY <1>1, <1>4, <1>5, <2>1 DEF IInv, TypeOK, DecodeTypeOK, DecodePcs
    <2>3. DecodeIndexInv'
      BY <1>1, <1>2, <2>1 DEF IInv, DecodeIndexInv, DecodeStarts, DecodeRuns
    <2>4. Following'
      BY <1>1, <1>2, <1>4, <1>5, <1>7, <2>1 DEF DecodeCount, Following, Smaller
    <2> QED BY <1>3, <2>2, <2>3, <2>4 DEF DecodeInv, CountInv
  <1>8. CASE DecodePauseCheck
    <2>1. DecodeRuns /\ dchunk' = dchunk + ChunkSamples /\ dpc' \in {"pauseBlock", "chunk"}
          /\ UNCHANGED dend
      BY <1>8 DEF DecodePauseCheck, DecodeRuns
    <2>2. DecodeTypeOK'
      BY <1>1, <1>4, <2>1 DEF IInv, TypeOK, DecodeTypeOK, DecodePcs
    <2>3. DecodeIndexInv'
      BY <1>1, <1>2, <2>1 DEF IInv, DecodeIndexInv, DecodeStarts, DecodeRuns
    <2>4. Following'
      BY <1>1, <1>2, <1>4, <1>5, <1>8, <2>1 DEF DecodePauseCheck, Following, Smaller, ChunkEnd
    <2> QED BY <1>3, <2>2, <2>3, <2>4 DEF DecodeInv, CountInv
  <1> QED BY <1>6, <1>7, <1>8

\* decode_data announces a chunk, sends it and reports it.
LEMMA StepDecodeChunk ==
    ASSUME IInv, DecodeChunk \/ DecodeSend
    PROVE  DecodeInv'
  <1>1. UNCHANGED <<srd, dseg, dend, dchunk, orphan, finished, din, input, muxed>> /\ DecodeRuns
    BY DEF DecodeChunk, DecodeSend, DecodeUnchanged, inputVars, muxVars, DecodeRuns
  <1>2. DecodeInput' = DecodeInput /\ InputSegment' = InputSegment /\ ChunkEnd' = ChunkEnd
    BY <1>1 DEF DecodeInput, InputSegment, ChunkEnd
  <1>3. dpos \in Nat /\ dend \in Nat /\ dchunk \in Nat /\ ChunkSamples \in Nat \ {0}
        /\ ChunkEnd \in Nat /\ ChunkEnd <= dend /\ ChunkEnd <= dchunk + ChunkSamples
    BY ConstantAssumption DEF IInv, TypeOK, DecodeTypeOK, ChunkEnd, Smaller
  <1>4. /\ InputSegment.count \in Nat /\ Following /\ segs \in Seq(Decoded)
        /\ dseg + 1 \in 1 .. Len(segs) /\ dseg + 1 = Len(segs)
        /\ \A i \in 1 .. Len(segs) : segs[i].incl \in Nat /\ segs[i].excl \in Nat
    BY <1>1, InputSegmentType, CurrentType, DecodedType DEF IInv, CountInv, TypeOK, DecodeTypeOK
  <1>5. CASE DecodeChunk /\ dpc' = "send"
    <2>1. segs' = [segs EXCEPT ![dseg + 1].incl = ChunkEnd] /\ dchunk < dend /\ UNCHANGED dpos
          /\ dpc = "chunk"
      BY <1>5 DEF DecodeChunk
    <2>2. /\ segs' \in Seq(Decoded) /\ Len(segs') = Len(segs)
          /\ \A j \in 1 .. Len(segs) : j # dseg + 1 => segs'[j] = segs[j]
          /\ segs'[dseg + 1].incl = ChunkEnd /\ segs'[dseg + 1].excl = segs[dseg + 1].excl
      BY <1>3, <1>4, <2>1, UpdateIncl
    <2>3. segs[dseg + 1].excl = dchunk
      BY <1>3, <1>4, <2>1 DEF Following, Smaller
    <2>4. BracketInv'
      BY <1>3, <1>4, <2>1, <2>2, <2>3 DEF IInv, CountInv, BracketInv, Bracketed, ChunkEnd, Smaller
    <2>5. Following'
      BY <1>1, <1>2, <1>3, <1>4, <1>5, <2>1, <2>2, <2>3 DEF Following
    <2>6. DecodeTypeOK'
      BY <1>1, <1>5, <2>1, <2>2 DEF IInv, TypeOK, DecodeTypeOK, DecodePcs
    <2>7. DecodeIndexInv'
      BY <1>1, <1>2, <1>5, <2>2 DEF IInv, DecodeIndexInv, DecodeStarts, DecodeRuns
    <2> QED BY <2>4, <2>5, <2>6, <2>7 DEF DecodeInv, CountInv
  <1>6. CASE DecodeChunk /\ dpc' # "send"
    <2>1. UNCHANGED segs /\ dpos' = dend /\ dpc = "chunk"
          /\ (dpc' = "done" \/ (dpc' = "count" /\ dchunk >= dend))
      BY <1>6 DEF DecodeChunk
    <2>2. BracketInv'
      BY <2>1 DEF IInv, CountInv, BracketInv, Bracketed
    <2>3. DecodeRuns' => Following'
      BY <1>1, <1>2, <1>3, <1>4, <2>1 DEF Following, DecodeRuns, Smaller
    <2>4. DecodeTypeOK'
      BY <1>1, <1>3, <2>1 DEF IInv, TypeOK, DecodeTypeOK, DecodePcs
    <2>5. DecodeIndexInv'
      BY <1>1, <1>2, <2>1 DEF IInv, DecodeIndexInv, DecodeStarts, DecodeRuns
    <2> QED BY <2>2, <2>3, <2>4, <2>5 DEF DecodeInv, CountInv
  <1>7. CASE DecodeSend
    <2>1. segs' = [segs EXCEPT ![dseg + 1].excl = ChunkEnd] /\ UNCHANGED dpos
          /\ dpc = "send" /\ dpc' = "pauseCheck"
      BY <1>7 DEF DecodeSend
    <2>2. /\ segs' \in Seq(Decoded) /\ Len(segs') = Len(segs)
          /\ \A j \in 1 .. Len(segs) : j # dseg + 1 => segs'[j] = segs[j]
          /\ segs'[dseg + 1].excl = ChunkEnd /\ segs'[dseg + 1].incl = segs[dseg + 1].incl
      BY <1>3, <1>4, <2>1, UpdateExcl
    <2>3. segs[dseg + 1].incl = ChunkEnd
      BY <1>4, <2>1 DEF Following
    <2>4. BracketInv'
      BY <1>3, <1>4, <2>1, <2>2, <2>3 DEF IInv, CountInv, BracketInv, Bracketed
    <2>5. Following'
      BY <1>1, <1>2, <1>3, <1>4, <2>1, <2>2, <2>3 DEF Following
    <2>6. DecodeTypeOK'
      BY <1>1, <2>1, <2>2 DEF IInv, TypeOK, DecodeTypeOK, DecodePcs
    <2>7. DecodeIndexInv'
      BY <1>1, <1>2, <2>1, <2>2 DEF IInv, DecodeIndexInv, DecodeStarts, DecodeRuns
    <2> QED BY <2>4, <2>5, <2>6, <2>7 DEF DecodeInv, CountInv
  <1> QED BY <1>5, <1>6, <1>7

-----------------------------------------------------------------------------
(* The end of a segment, and the mux thread                                *)

\* decode_proc at the end of a segment.
LEMMA StepDecodeComplete ==
    ASSUME IInv, DecodeComplete PROVE DecodeInv'
  <1>1. UNCHANGED <<srd, dend, dchunk, din, input, muxed>> /\ DecodeRuns /\ dpc = "complete"
    BY DEF DecodeComplete, DecodeUnchanged, inputVars, muxVars, DecodeRuns
  <1>2. DecodeInput' = DecodeInput /\ DecodeInput \in Seq(Segment)
    BY <1>1, DecodeInputType DEF DecodeInput, IInv
  <1>3. /\ Following /\ BracketInv /\ segs \in Seq(Decoded) /\ dseg \in Nat /\ Len(segs) = dseg + 1
        /\ orphan \in Seq(Segment) /\ finished \in BOOLEAN /\ dint \in BOOLEAN /\ dpos \in Nat
    BY <1>1 DEF IInv, CountInv, TypeOK, DecodeTypeOK, DecodeIndexInv, ControlTypeOK
  <1>4. finished' \in BOOLEAN
    BY <1>3 DEF DecodeComplete
  <1>5. CASE dpc' = "done" /\ UNCHANGED <<segs, dpos, orphan>>
    <2>1. dseg' \in Nat
      BY <1>3 DEF DecodeComplete
    <2>2. BracketInv'
      BY <1>3, <1>5 DEF BracketInv, Bracketed
    <2> QED BY <1>1, <1>4, <1>5, <2>1, <2>2 DEF DecodeInv, DecodeTypeOK, IInv, TypeOK, DecodePcs,
            DecodeIndexInv, DecodeStarts, DecodeRuns, CountInv
  <1>6. CASE dpc' = "block" /\ UNCHANGED <<dseg, segs, dpos, orphan>>
    <2>1. BracketInv'
      BY <1>3, <1>6 DEF BracketInv, Bracketed
    <2>2. InputSegment' = InputSegment
      BY <1>2, <1>6 DEF InputSegment
    <2>3. Following'
      BY <1>1, <1>3, <1>6, <2>2 DEF Following
    <2>4. DecodeIndexInv'
      BY <1>1, <1>2, <1>6 DEF IInv, DecodeIndexInv, DecodeStarts, DecodeRuns
    <2> QED BY <1>1, <1>4, <1>6, <2>1, <2>3, <2>4 DEF DecodeInv, DecodeTypeOK, IInv, TypeOK,
            DecodePcs, CountInv
  <1>7. CASE /\ dseg + 1 < DecodeSegmentCount /\ dseg' = dseg + 1 /\ segs' = Append(segs, NewDecoded)
             /\ dpos' = 0 /\ orphan' = <<>> /\ dpc' \in {"done", "count"}
    <2>1. NewDecoded \in Decoded /\ NewDecoded.incl = 0 /\ NewDecoded.excl = 0
      BY DEF NewDecoded, Decoded
    <2>2. /\ segs' \in Seq(Decoded) /\ Len(segs') = Len(segs) + 1
          /\ \A i \in 1 .. Len(segs) : segs'[i] = segs[i]
          /\ segs'[Len(segs) + 1] = NewDecoded
      BY <1>3, <1>7, <2>1
    <2>3. BracketInv'
      <3>1. Bracketed(NewDecoded)
        BY <2>1, ConstantAssumption DEF Bracketed
      <3>2. \A i \in 1 .. Len(segs') : Bracketed(segs'[i])
        BY <1>3, <2>2, <3>1 DEF BracketInv
      <3> QED BY <3>2 DEF BracketInv, Bracketed
    <2>4. InputSegment' = DecodeInput[dseg + 2] /\ DecodeInput[dseg + 2].count \in Nat
      BY <1>2, <1>3, <1>7, CountType DEF InputSegment, DecodeSegmentCount
    <2>5. dpc' = "count" => Following'
      BY <1>3, <1>7, <2>1, <2>2, <2>4 DEF Following
    <2>6. DecodeIndexInv'
      BY <1>2, <1>3, <1>7, <2>2 DEF DecodeIndexInv, DecodeStarts, DecodeRuns, DecodeSegmentCount
    <2> QED BY <1>1, <1>3, <1>4, <1>7, <2>2, <2>3, <2>5, <2>6 DEF DecodeInv, DecodeTypeOK, IInv,
            TypeOK, DecodePcs, CountInv, DecodeRuns
  <1> QED BY <1>5, <1>6, <1>7 DEF DecodeComplete, CreateDecodeSegment

\* The decode thread keeps the invariant.
LEMMA StepDecodeThread ==
    ASSUME IInv, DecodeThread PROVE IInv'
  <1>1. DecodeInv'
    BY StepDecodeStart, StepDecodeLocals, StepDecodeChunk, StepDecodeComplete DEF DecodeThread
  <1>2. /\ UNCHANGED <<inputVars, guiVars, din, mint, paused, muxVars, events, missed, assigned, connected,
                       depth, version, noted, edits>>
        /\ dpc # "none"
    BY DEF DecodeThread, DecodeStart, DecodeBlock, DecodeWoken, DecodeCount, DecodeChunk,
         DecodeSend, DecodePauseCheck, DecodeExhausted, DecodeComplete, DecodeUnchanged, configVars
  <1>3. dint' \in BOOLEAN /\ stackChanged' \in BOOLEAN /\ error' \in {"decoder", error}
    BY DEF DecodeThread, DecodeStart, DecodeBlock, DecodeWoken, DecodeCount, DecodeChunk,
         DecodeSend, DecodePauseCheck, DecodeExhausted, DecodeComplete, DecodeUnchanged, configVars,
         StartSrdSession, IInv, TypeOK, ConfigTypeOK, ControlTypeOK
  <1>4. TypeOK'
    BY <1>1, <1>2, <1>3 DEF DecodeInv, IInv, TypeOK, InputTypeOK, ConfigTypeOK, ControlTypeOK,
       MuxTypeOK, inputVars, guiVars, muxVars
  <1>5. LaunchInv' /\ ThreadInv'
    BY <1>2, ThreadsKeepThreadInv DEF LaunchInv, ThreadInv, IInv, guiVars
  <1>6. MuxIndexInv'
    BY <1>2, MuxFrame DEF IInv, muxVars
  <1> QED BY <1>1, <1>4, <1>5, <1>6 DEF IInv, DecodeInv

\* What the mux thread does to its output and its locals.
LEMMA StepMuxData ==
    ASSUME IInv, MuxThread
    PROVE  MuxTypeOK' /\ MuxIndexInv' /\ Grows(muxed, muxed') /\ mint' \in BOOLEAN
  <1>1. /\ mseg \in Nat /\ mend \in Nat /\ muxed \in Seq(Segment) /\ mint \in BOOLEAN
        /\ ChunkSamples \in Nat \ {0} /\ MuxIndexInv
    BY ConstantAssumption DEF IInv, TypeOK, MuxTypeOK, ControlTypeOK
  <1>2. Grows(muxed, muxed)
    BY <1>1, GrowsReflexive
  <1>3. /\ Append(muxed, NewSegment) \in Seq(Segment) /\ Len(Append(muxed, NewSegment)) = Len(muxed) + 1
        /\ Grows(muxed, Append(muxed, NewSegment))
    BY <1>1, AppendGrows DEF NewSegment
  <1>4. CASE MuxBlock \/ MuxWoken
    <2>1. UNCHANGED <<mseg, mend, muxed, mint>>
      BY <1>4 DEF MuxBlock, MuxWoken
    <2> QED BY <1>1, <1>2, <1>4, <2>1 DEF MuxBlock, MuxWoken, MuxTypeOK, MuxPcs, MuxIndexInv,
               MuxStarts, MuxRuns
  <1>5. CASE MuxStart
    <2>1. UNCHANGED <<mseg, mend, mint>> /\ MuxStarts
      BY <1>5 DEF MuxStart, MuxStarts
    <2>2. \/ UNCHANGED muxed /\ mpc' \in {"done", "firstBlock"}
          \/ muxed' = Append(muxed, NewSegment) /\ mpc' = "count"
      BY <1>5 DEF MuxStart
    <2> QED BY <1>1, <1>2, <1>3, <2>1, <2>2 DEF MuxTypeOK, MuxPcs, MuxIndexInv, MuxStarts, MuxRuns
  <1>6. CASE MuxCount
    <2>1. mend' \in Nat
      BY <1>1, <1>6, WorkingSampleCountType DEF MuxCount, IInv
    <2>2. UNCHANGED <<mseg, muxed, mint>> /\ MuxRuns /\ mpc' \in {"mux", "exhausted"}
          /\ (mpc' = "mux" => mend' > muxed[mseg + 1].count)
      BY <1>6 DEF MuxCount, MuxRuns
    <2> QED BY <1>1, <1>2, <2>1, <2>2 DEF MuxTypeOK, MuxPcs, MuxIndexInv, MuxStarts, MuxRuns
  <1>7. CASE MuxSamples
    <2> DEFINE start == muxed[mseg + 1].count
               end == Smaller(start + ChunkSamples, mend)
    <2>1. UNCHANGED <<mseg, mend>> /\ mpc = "mux" /\ mint' \in BOOLEAN
      BY <1>1, <1>7 DEF MuxSamples
    <2>2. /\ mseg + 1 \in 1 .. Len(muxed) /\ Len(muxed) = mseg + 1 /\ start \in Nat
          /\ mend > start
      BY <1>1, <2>1, CountType DEF MuxIndexInv, MuxRuns
    <2>3. end \in Nat /\ start <= end /\ end <= mend
      BY <1>1, <2>2 DEF Smaller
    <2>4. \/ UNCHANGED muxed /\ mpc' \in {"done", "crashed"}
          \/ muxed' = [muxed EXCEPT ![mseg + 1].count = end]
             /\ (mpc' \in {"done", "count"} \/ (mpc' = "mux" /\ end < mend))
      BY <1>7 DEF MuxSamples
    <2> HIDE DEF end
    <2>5. CASE UNCHANGED muxed /\ mpc' \in {"done", "crashed"}
      BY <1>1, <1>2, <2>1, <2>5 DEF MuxTypeOK, MuxPcs, MuxIndexInv, MuxStarts, MuxRuns
    <2>6. CASE muxed' = [muxed EXCEPT ![mseg + 1].count = end]
      <3>1. muxed' \in Seq(Segment) /\ Len(muxed') = Len(muxed) /\ muxed'[mseg + 1].count = end
        BY <1>1, <2>2, <2>3, <2>6, ReplaceCount
      <3>2. Grows(muxed, muxed')
        BY <1>1, <2>2, <2>3, <2>6, ReplaceCountGrows
      <3>3. MuxIndexInv'
        BY <1>1, <2>1, <2>2, <2>3, <2>4, <3>1 DEF MuxIndexInv, MuxStarts, MuxRuns
      <3>4. MuxTypeOK'
        BY <1>1, <2>1, <2>4, <3>1 DEF MuxTypeOK, MuxPcs
      <3> QED BY <2>1, <3>2, <3>3, <3>4
    <2> QED BY <2>4, <2>5, <2>6
  <1>8. CASE MuxExhausted
    <2>1. UNCHANGED <<mseg, mend, mint>> /\ mpc = "exhausted" /\ mpc' \in {"done", "complete", "block"}
      BY <1>8 DEF MuxExhausted
    <2>2. mseg + 1 \in 1 .. Len(muxed) /\ Len(muxed) = mseg + 1
      BY <1>1, <2>1 DEF MuxIndexInv, MuxRuns
    <2>3. UNCHANGED muxed \/ muxed' = [muxed EXCEPT ![mseg + 1].complete = TRUE]
      BY <1>8 DEF MuxExhausted
    <2>4. muxed' \in Seq(Segment) /\ Len(muxed') = Len(muxed) /\ Grows(muxed, muxed')
      <3>1. CASE UNCHANGED muxed
        BY <1>1, <1>2, <3>1
      <3>2. CASE muxed' = [muxed EXCEPT ![mseg + 1].complete = TRUE]
        <4>1. muxed' \in Seq(Segment) /\ Len(muxed') = Len(muxed)
          BY <1>1, <2>2, <3>2, ReplaceComplete
        <4> QED BY <1>1, <2>2, <3>2, <4>1, ReplaceCompleteGrows
      <3> QED BY <2>3, <3>1, <3>2
    <2> QED BY <1>1, <2>1, <2>2, <2>4 DEF MuxTypeOK, MuxPcs, MuxIndexInv, MuxStarts, MuxRuns
  <1>9. CASE MuxComplete
    <2>1. UNCHANGED <<mend, mint>> /\ mpc = "complete" /\ mpc' \in {"done", "count", "block"}
      BY <1>9 DEF MuxComplete
    <2>2. \/ UNCHANGED <<mseg, muxed>>
          \/ mseg' = mseg + 1 /\ muxed' = Append(muxed, NewSegment)
      BY <1>9 DEF MuxComplete
    <2>3. Len(muxed) = mseg + 1
      BY <1>1, <2>1 DEF MuxIndexInv, MuxRuns
    <2>4. CASE UNCHANGED <<mseg, muxed>>
      BY <1>1, <1>2, <2>1, <2>3, <2>4 DEF MuxTypeOK, MuxPcs, MuxIndexInv, MuxStarts, MuxRuns
    <2>5. CASE mseg' = mseg + 1 /\ muxed' = Append(muxed, NewSegment)
      BY <1>1, <1>3, <2>1, <2>3, <2>5 DEF MuxTypeOK, MuxPcs, MuxIndexInv, MuxStarts, MuxRuns
    <2> QED BY <2>2, <2>4, <2>5
  <1> QED BY <1>4, <1>5, <1>6, <1>7, <1>8, <1>9 DEF MuxThread

\* The mux thread keeps the invariant.
LEMMA StepMuxThread ==
    ASSUME IInv, MuxThread PROVE IInv'
  <1>1. /\ UNCHANGED <<inputVars, events, configVars, guiVars, din, dint, paused, error,
                      dseg, dpos, dend, dchunk, orphan, segs, srd, finished>>
        /\ mpc # "none"
    BY DEF MuxThread, MuxStart, MuxBlock, MuxWoken, MuxCount, MuxSamples, MuxExhausted,
       MuxComplete, MuxUnchanged
  <1>2. (dpc' = dpc \/ dpc' = Notified(dpc)) /\ missed' \in {missed, missed \union {"decode"}}
    BY DEF MuxThread, MuxStart, MuxBlock, MuxWoken, MuxCount, MuxSamples, MuxExhausted,
       MuxComplete, MuxUnchanged, NotifyDecode
  <1>3. dpc' \in DecodePcs
    BY <1>2 DEF Notified, DecodePcs, IInv, TypeOK, DecodeTypeOK
  <1>4. TypeOK'
    BY <1>1, <1>2, <1>3, StepMuxData DEF IInv, TypeOK, InputTypeOK, ConfigTypeOK, ControlTypeOK,
       DecodeTypeOK, MuxTypeOK, inputVars, guiVars, configVars
  <1>5. Grows(DecodeInput, DecodeInput')
    <2>1. \A s \in Sources : Grows(input[s], input[s])
      BY GrowsReflexive DEF IInv, TypeOK, InputTypeOK
    <2>2. Grows(<<>>, <<>>)
      <3>1. <<>> \in Seq(Segment)
        OBVIOUS
      <3> QED BY <3>1, GrowsReflexive
    <2> QED BY <1>1, <2>1, <2>2, StepMuxData DEF DecodeInput, inputVars
  <1>6. DecodeIndexInv' /\ CountInv'
    BY <1>1, <1>2, <1>4, <1>5, DecodeFrame DEF IInv, DecodeNudged, DecodeData
  <1>7. LaunchInv' /\ ThreadInv'
    BY <1>1, ThreadsKeepThreadInv DEF LaunchInv, ThreadInv, IInv, guiVars
  <1> QED BY <1>4, <1>6, <1>7, StepMuxData DEF IInv

-----------------------------------------------------------------------------
(* The GUI thread                                                          *)

\* Steps that leave the input and the results alone.
Quiet == UNCHANGED <<input, din, muxed, segs, dseg, dpos, dend, dchunk, orphan, mseg, mend>>

\* Such steps keep the invariants of both threads.
LEMMA StepQuiet ==
    ASSUME IInv, TypeOK', Quiet, DecodeNudged, mpc' = mpc \/ mpc' = Notified(mpc)
    PROVE  DecodeIndexInv' /\ MuxIndexInv' /\ CountInv'
  <1>1. DecodeInput' = DecodeInput /\ Grows(DecodeInput, DecodeInput)
    BY DecodeInputType, GrowsReflexive DEF IInv, Quiet, DecodeInput
  <1> QED BY <1>1, DecodeFrame, MuxFrame DEF IInv, Quiet, DecodeData

\* A wakeup that nobody asked for keeps the invariant.
LEMMA StepSpuriousWake ==
    ASSUME IInv, SpuriousWake PROVE IInv'
  <1>1. /\ UNCHANGED <<inputVars, events, configVars, guiVars, din, dint, mint, paused, error,
                       dseg, dpos, dend, dchunk, orphan, segs, srd, finished, mseg, mend, muxed, missed>>
        /\ DecodeNudged /\ (mpc' = mpc \/ mpc' = Notified(mpc))
    BY DEF SpuriousWake, DecodeNudged
  <1>2. dpc' \in DecodePcs /\ mpc' \in MuxPcs
    BY <1>1 DEF IInv, TypeOK, DecodeTypeOK, MuxTypeOK, DecodePcs, MuxPcs, DecodeNudged, Notified
  <1>3. TypeOK'
    BY <1>1, <1>2 DEF IInv, TypeOK, InputTypeOK, ConfigTypeOK, ControlTypeOK, DecodeTypeOK,
       MuxTypeOK, inputVars, configVars, guiVars
  <1>4. DecodeIndexInv' /\ MuxIndexInv' /\ CountInv'
    BY <1>1, <1>3, StepQuiet DEF Quiet, inputVars
  <1>5. LaunchInv' /\ ThreadInv'
    BY <1>1, ThreadsKeepThreadInv DEF LaunchInv, IInv, guiVars
  <1> QED BY <1>3, <1>4, <1>5 DEF IInv

\* Resuming, interrupting and joining the threads.
LEMMA StepGuiQuiet ==
    ASSUME IInv, Resume \/ Unpause \/ StopDecode \/ JoinDecode \/ StopMux \/ JoinMux
    PROVE  TypeOK' /\ LaunchInv' /\ DecodeIndexInv' /\ MuxIndexInv' /\ CountInv'
  <1>1. /\ UNCHANGED <<GuiFrame, gnext, error, segs, srd, finished, muxed>>
        /\ gpc # "launch" /\ gpc' # "launch"
    BY DEF Resume, Unpause, StopDecode, DecodeJoinable, JoinDecode, StopMux, JoinMux
  <1>2. /\ DecodeNudged \/ dpc' = "none"
        /\ mpc' = mpc \/ mpc' = Notified(mpc) \/ mpc' = "none"
    BY DEF Resume, Unpause, StopDecode, DecodeJoinable, JoinDecode, StopMux, JoinMux, DecodeNudged, NotifyDecode, NotifyMux
  <1>3. /\ gpc' \in GuiPcs /\ gstage' \in {"user", "restart", "reset"}
        /\ dint' \in BOOLEAN /\ mint' \in BOOLEAN /\ paused' \in BOOLEAN
    BY DEF Resume, Unpause, StopDecode, DecodeJoinable, JoinDecode, StopMux, JoinMux, IInv, TypeOK, ControlTypeOK, GuiPcs
  <1>4. missed' \in SUBSET {"decode", "mux"}
    <2>1. missed' \in {missed, missed \union {"decode"}, missed \union {"mux"}}
      BY DEF Resume, Unpause, StopDecode, DecodeJoinable, JoinDecode, StopMux, JoinMux, NotifyDecode, NotifyMux
    <2> QED BY <2>1 DEF IInv, TypeOK, ControlTypeOK
  <1>5. dpc' \in DecodePcs /\ mpc' \in MuxPcs
    BY <1>2 DEF IInv, TypeOK, DecodeTypeOK, MuxTypeOK, DecodePcs, MuxPcs, DecodeNudged, Notified
  <1>6. TypeOK'
    BY <1>1, <1>3, <1>4, <1>5 DEF IInv, TypeOK, InputTypeOK, ConfigTypeOK, ControlTypeOK,
       DecodeTypeOK, MuxTypeOK, GuiFrame, inputVars, configVars
  <1>7. LaunchInv'
    BY <1>1 DEF LaunchInv
  <1>8. DecodeIndexInv' /\ CountInv'
    <2>1. CASE DecodeNudged
      <3>1. DecodeInput' = DecodeInput /\ Grows(DecodeInput, DecodeInput)
        BY <1>1, DecodeInputType, GrowsReflexive DEF IInv, GuiFrame, inputVars, DecodeInput
      <3> QED BY <1>1, <1>6, <2>1, <3>1, DecodeFrame DEF IInv, DecodeData, GuiFrame
    <2>2. CASE dpc' = "none"
      BY <1>1, <2>2 DEF IInv, DecodeIndexInv, DecodeStarts, DecodeRuns, CountInv, BracketInv, Bracketed
    <2> QED BY <1>2, <2>1, <2>2
  <1>9. MuxIndexInv'
    <2>1. CASE mpc' = "none"
      BY <2>1 DEF MuxIndexInv, MuxStarts, MuxRuns
    <2> QED BY <1>1, <1>2, <2>1, MuxFrame DEF IInv, GuiFrame
  <1> QED BY <1>6, <1>7, <1>8, <1>9

\* reset_decode() drops all results while no thread is alive.
LEMMA StepFinishReset ==
    ASSUME IInv, FinishReset
    PROVE  TypeOK' /\ LaunchInv' /\ DecodeIndexInv' /\ MuxIndexInv' /\ CountInv'
  <1>1. /\ dpc' = "none" /\ mpc' = "none" /\ segs' = <<>> /\ muxed' = <<>> /\ orphan' = <<>>
        /\ gpc' \in GuiPcs
    BY DEF FinishReset, IInv, ThreadInv, TypeOK, ControlTypeOK, GuiPcs
  <1>2. srd' \in Nat /\ capture' \in {"stopped", "clearing", "starting", "running"}
    BY DEF FinishReset, IInv, TypeOK, InputTypeOK, DecodeTypeOK
  <1>3. TypeOK'
    <2>1. InputTypeOK'
      BY <1>2 DEF FinishReset, IInv, TypeOK, InputTypeOK
    <2>2. ConfigTypeOK'
      BY DEF FinishReset, IInv, TypeOK, ConfigTypeOK
    <2>3. ControlTypeOK'
      <3>1. ControlTypeOK
        BY DEF IInv, TypeOK
      <3> QED BY <1>1, <3>1 DEF FinishReset, ControlTypeOK
    <2>4. DecodeTypeOK' /\ MuxTypeOK'
      <3>1. DecodeTypeOK /\ MuxTypeOK
        BY DEF IInv, TypeOK
      <3>2. UNCHANGED <<dseg, dpos, dend, dchunk, mseg, mend>> /\ finished' = FALSE
        BY DEF FinishReset
      <3>3. segs' \in Seq(Decoded) /\ orphan' \in Seq(Segment) /\ muxed' \in Seq(Segment)
        BY <1>1
      <3> QED BY <1>1, <1>2, <3>1, <3>2, <3>3 DEF DecodeTypeOK, MuxTypeOK, DecodePcs, MuxPcs
    <2> QED BY <2>1, <2>2, <2>3, <2>4 DEF TypeOK
  <1>4. BracketInv'
    BY <1>1 DEF BracketInv
  <1> QED BY <1>1, <1>3, <1>4 DEF LaunchInv, DecodeIndexInv, DecodeStarts, DecodeRuns,
          MuxIndexInv, MuxStarts, MuxRuns, CountInv

\* begin_decode() starts the threads on empty results.
LEMMA StepLaunch ==
    ASSUME IInv, Launch
    PROVE  TypeOK' /\ LaunchInv' /\ DecodeIndexInv' /\ MuxIndexInv' /\ CountInv'
  <1>1. /\ gpc = "launch" /\ gpc' = "idle" /\ segs = <<>> /\ muxed = <<>> /\ orphan = <<>>
        /\ dpc = "none" /\ mpc = "none"
        /\ UNCHANGED <<inputVars, events, connected, depth, stackChanged, edits, gstage, gnext,
                       paused, orphan, segs, srd, finished, muxed>>
    BY DEF Launch, IInv, LaunchInv, ThreadInv
  <1>2. BracketInv'
    BY <1>1 DEF BracketInv
  <1>c. ConfigTypeOK'
    <2>1. ConfigTypeOK
      BY DEF IInv, TypeOK
    <2>2. UNCHANGED <<assigned, version, noted>> \/ DropVanished
      BY DEF Launch
    <2>3. assigned' \in Assignment
      BY <2>1, <2>2 DEF DropVanished, ConfigTypeOK, Assignment
    <2>4. version' \in Nat \ {0} /\ noted' \in Nat \ {0}
      BY <2>1, <2>2 DEF DropVanished, ConfigTypeOK
    <2> QED BY <1>1, <2>1, <2>3, <2>4 DEF ConfigTypeOK
  <1>3. CASE UNCHANGED <<din, dint, mint, dpc, dseg, dpos, dend, dchunk, mpc, mseg, mend, missed>>
             /\ error' = "config"
    <2>1. TypeOK'
      BY <1>1, <1>3, <1>c DEF IInv, TypeOK, InputTypeOK, ControlTypeOK, DecodeTypeOK,
         MuxTypeOK, inputVars, GuiPcs
    <2> QED BY <1>1, <1>2, <1>3, <2>1 DEF LaunchInv, DecodeIndexInv, DecodeStarts, DecodeRuns,
            MuxIndexInv, MuxStarts, MuxRuns, CountInv
  <1>4. CASE /\ din' = ChosenInput' /\ error' \in {"noInput", "none"} /\ dint' = FALSE
             /\ dpc' = "start" /\ dseg' = 0 /\ dpos' = 0 /\ dend' = 0 /\ dchunk' = 0
             /\ \/ mint' = FALSE /\ mpc' = "start" /\ mseg' = 0 /\ mend' = 0
                \/ UNCHANGED <<mint, mpc, mseg, mend>>
             /\ missed' = {}
    <2>1. ChosenInput' \in Sources \union {Mux}
      <3>1. Used' \subseteq Sources
        BY <1>c DEF Used, ConfigTypeOK, Assignment
      <3>2. CASE Used' = {}
        <4>1. Cardinality(Used') = 0
          BY <3>2, FS_EmptySet
        <4> QED BY <4>1 DEF ChosenInput
      <3> QED BY <3>1, <3>2 DEF ChosenInput
    <2>2. TypeOK'
      <3>1. ControlTypeOK'
        BY <1>1, <1>4, <2>1 DEF IInv, TypeOK, ControlTypeOK, GuiPcs
      <3>2. DecodeTypeOK'
        BY <1>1, <1>4 DEF IInv, TypeOK, DecodeTypeOK, DecodePcs
      <3>3. MuxTypeOK'
        BY <1>1, <1>4 DEF IInv, TypeOK, MuxTypeOK, MuxPcs
      <3> QED BY <1>1, <1>c, <3>1, <3>2, <3>3 DEF IInv, TypeOK, InputTypeOK, inputVars
    <2>3. DecodeIndexInv' /\ (~DecodeRuns)'
      BY <1>1, <1>4 DEF DecodeIndexInv, DecodeStarts, DecodeRuns
    <2>4. MuxIndexInv'
      BY <1>1, <1>4 DEF MuxIndexInv, MuxStarts, MuxRuns
    <2> QED BY <1>1, <1>2, <2>2, <2>3, <2>4 DEF LaunchInv, CountInv
  <1> QED BY <1>3, <1>4 DEF Launch, ConfigError, StartThreads

\* begin_decode() and reset_decode() keep the invariant.
LEMMA StepGui == ASSUME IInv, GuiStep PROVE IInv'
  <1>1. ThreadInv'
    BY GuiKeepsThreadInv DEF IInv
  <1> QED BY <1>1, StepGuiQuiet, StepFinishReset, StepLaunch DEF GuiStep, IInv

\* The slots keep the invariant.
LEMMA StepDeliverEvent == ASSUME IInv, DeliverEvent PROVE IInv'
  <1>1. UNCHANGED SlotFrame /\ events' = Tail(events) /\ events # <<>> /\ gpc' \in {"idle", "stopDecode"}
    BY DEF DeliverEvent, OnCaptureRunning, OnDataReceived, OnInputSegmentCompleted,
         OnNothing, BeginDecode, guiVars
  <1>2. /\ dpc' = dpc \/ dpc' = Notified(dpc)
        /\ mpc' = mpc \/ mpc' = Notified(mpc)
        /\ missed' \in {missed, missed \union {"decode"}, missed \union {"mux"}}
    BY DEF DeliverEvent, OnCaptureRunning, OnDataReceived, OnInputSegmentCompleted,
         OnNothing, NoWake, NotifyDecode, NotifyMux
  <1>3. error' \in {error, "none"} /\ gstage' \in {"restart", gstage} /\ gnext' \in {"launch", gnext}
    BY DEF DeliverEvent, OnCaptureRunning, OnDataReceived, OnInputSegmentCompleted,
         OnNothing, BeginDecode, guiVars
  <1>4. dpc' \in DecodePcs /\ mpc' \in MuxPcs
    BY <1>2 DEF IInv, TypeOK, DecodeTypeOK, MuxTypeOK, DecodePcs, MuxPcs, Notified
  <1>5. events' \in Seq(Events) /\ missed' \in SUBSET {"decode", "mux"}
    BY <1>1, <1>2 DEF IInv, TypeOK, InputTypeOK, ControlTypeOK
  <1>6. TypeOK'
    BY <1>1, <1>3, <1>4, <1>5 DEF IInv, TypeOK, InputTypeOK, ConfigTypeOK, ControlTypeOK,
       DecodeTypeOK, MuxTypeOK, SlotFrame, inputVars, configVars, GuiPcs
  <1>7. DecodeIndexInv' /\ MuxIndexInv' /\ CountInv'
    BY <1>1, <1>2, <1>6, StepQuiet DEF Quiet, SlotFrame, inputVars, DecodeNudged
  <1>8. LaunchInv' /\ ThreadInv'
    BY <1>1, GuiKeepsThreadInv DEF LaunchInv, IInv
  <1> QED BY <1>6, <1>7, <1>8 DEF IInv

\* The operations of the user keep the invariant; StartCapture, which clears the
\* sources, leaves the decode thread the segment it works on.
LEMMA StepUser == ASSUME IInv, UserStep PROVE IInv'
  <1>1. /\ UNCHANGED <<events, din, dint, mint, error, dpc, dseg, dpos, dend, dchunk, segs, srd,
                       finished, muxVars, missed>>
        /\ gpc' \in {"idle", "stacking", "resume", "stopDecode"}
    BY DEF UserStep, StartCapture, Pause, ResumeDecode, ChangeOption, AssignSignal,
         StackDecoder, RemoveDecoder, RestoreSettings, StackConfigChanged,
         RemoveConversion, Destroy, BeginDecode, ResetDecode,
         Edit, guiVars, EditFrame, UserFrame, decodeVars
  <1>2. /\ gstage' \in {"restart", "reset", "user", gstage} /\ gnext' \in {"launch", "idle", "gone", gnext}
        /\ paused' \in {TRUE, paused}
    BY DEF UserStep, StartCapture, Pause, ResumeDecode, ChangeOption, AssignSignal,
         StackDecoder, RemoveDecoder, RestoreSettings, StackConfigChanged,
         RemoveConversion, Destroy, BeginDecode, ResetDecode,
         guiVars, EditFrame, UserFrame
  <1>3. /\ edits' \in {edits, edits + 1} /\ version' \in {version, version + 1}
        /\ noted' \in {noted, version + 1}
        /\ stackChanged' \in {TRUE, stackChanged}
        /\ capture' \in {capture, "starting", "clearing"} /\ captures' \in {captures, captures + 1}
    BY DEF UserStep, StartCapture, Pause, ResumeDecode, ChangeOption, AssignSignal,
         StackDecoder, RemoveDecoder, RestoreSettings, StackConfigChanged,
         RemoveConversion, Destroy, Edit, EditFrame, configVars
  <1>4. depth' \in Nat
    BY ConstantAssumption DEF UserStep, StartCapture, Pause, ResumeDecode, ChangeOption, AssignSignal,
         StackDecoder, RemoveDecoder, RestoreSettings, StackConfigChanged,
         RemoveConversion, Destroy, EditFrame, configVars,
         IInv, TypeOK, ConfigTypeOK
  <1>5. assigned' \in Assignment
    <2>1. assigned \in Assignment
      BY DEF IInv, TypeOK, ConfigTypeOK
    <2>2. CASE StartCapture \/ Pause \/ ResumeDecode \/ ChangeOption \/ RemoveConversion \/ Destroy
      BY <2>1, <2>2 DEF StartCapture, Pause, ResumeDecode, ChangeOption, RemoveConversion, Destroy, configVars
    <2>3. CASE AssignSignal
      BY <2>1, <2>3 DEF AssignSignal, Assignment
    <2>4. CASE StackDecoder
      BY <2>4 DEF StackDecoder
    <2>5. CASE RemoveDecoder
      BY <2>1, <2>5 DEF RemoveDecoder, Assignment
    <2>6. CASE RestoreSettings
      BY <2>6, ConstantAssumption DEF RestoreSettings
    <2> QED BY <2>2, <2>3, <2>4, <2>5, <2>6 DEF UserStep
  <1>6. connected' \in SUBSET Sources
    <2>1. Used' \subseteq Sources
      BY <1>5 DEF Used, Assignment
    <2>2. connected' \subseteq connected \union Used'
      BY DEF UserStep, StartCapture, Pause, ResumeDecode, ChangeOption, AssignSignal,
         StackDecoder, RemoveDecoder, RestoreSettings, StackConfigChanged,
         RemoveConversion, Destroy, EditFrame, configVars
    <2> QED BY <2>1, <2>2 DEF IInv, TypeOK, ConfigTypeOK
  <1>7. /\ input' \in [Sources -> Seq(Segment)] /\ orphan' \in Seq(Segment)
        /\ DecodeRuns /\ orphan = <<>> /\ din \in Sources => orphan' # <<>> \/ input'[din] = input[din]
        /\ orphan # <<>> \/ segs = <<>> => orphan' = orphan
        /\ DecodeRuns /\ orphan = <<>> /\ orphan' # <<>> => orphan'[1] = InputSegment
    <2>1. /\ input \in [Sources -> Seq(Segment)] /\ orphan \in Seq(Segment) /\ dseg \in Nat
          /\ segs \in Seq(Decoded)
      BY DEF IInv, TypeOK, InputTypeOK, DecodeTypeOK
    <2>2. CASE StartCapture
      <3>1. CASE orphan = <<>> /\ din \in Sources \ vanished /\ segs # <<>> /\ dseg < Len(input[din])
        <4>1. input[din] \in Seq(Segment) /\ dseg + 1 \in 1 .. Len(input[din])
          BY <2>1, <3>1
        <4>2. input[din][dseg + 1] \in Segment
          BY <4>1
        <4>3. InputSegment = input[din][dseg + 1]
          BY <3>1, ConstantAssumption DEF InputSegment, DecodeInput
        <4>4. orphan' = <<input[din][dseg + 1]>>
              /\ input' = [s \in Sources |-> IF s \in vanished THEN input[s] ELSE <<>>]
          BY <2>2, <3>1 DEF StartCapture
        <4>5. input' \in [Sources -> Seq(Segment)]
          BY <2>1, <4>4
        <4> QED BY <3>1, <4>2, <4>3, <4>4, <4>5
      <3>2. CASE ~(orphan = <<>> /\ din \in Sources \ vanished /\ segs # <<>> /\ dseg < Len(input[din]))
        <4>1. orphan' = orphan
              /\ input' = [s \in Sources |-> IF s \in vanished THEN input[s] ELSE <<>>]
          BY <2>2, <3>2 DEF StartCapture
        <4>2. DecodeRuns /\ orphan = <<>> /\ din \in Sources => din \in vanished
          BY <2>1, <3>2, ConstantAssumption DEF IInv, DecodeIndexInv, DecodeInput
        <4>3. input' \in [Sources -> Seq(Segment)] /\ (din \in Sources /\ din \in vanished => input'[din] = input[din])
          BY <2>1, <4>1
        <4> QED BY <2>1, <4>1, <4>2, <4>3
      <3> QED BY <3>1, <3>2
    <2>3. CASE ~StartCapture
      <3>1. UNCHANGED <<input, orphan>>
        BY <2>3 DEF UserStep, Pause, ResumeDecode, ChangeOption, AssignSignal,
           StackDecoder, RemoveDecoder, RestoreSettings, StackConfigChanged,
         RemoveConversion, Destroy, EditFrame, UserFrame, decodeVars
      <3> QED BY <2>1, <3>1
    <2> QED BY <2>2, <2>3
  <1>8. TypeOK'
    <2>1. InputTypeOK'
      <3>1. InputTypeOK
        BY DEF IInv, TypeOK
      <3>3. vanished' \in SUBSET Converted
        BY <3>1 DEF InputTypeOK, UserStep, StartCapture, Pause, ResumeDecode, ChangeOption, AssignSignal,
           StackDecoder, RemoveDecoder, RestoreSettings, RemoveConversion, Destroy, EditFrame, UserFrame
      <3>2. captures' \in Nat /\ capture' \in {"stopped", "clearing", "starting", "running"}
        BY <1>3, <3>1 DEF InputTypeOK
      <3> QED BY <1>1, <1>7, <3>1, <3>2, <3>3 DEF InputTypeOK
    <2>2. ConfigTypeOK'
      <3>1. ConfigTypeOK
        BY DEF IInv, TypeOK
      <3>2. edits' \in Nat /\ version' \in Nat \ {0} /\ noted' \in Nat \ {0} /\ stackChanged' \in BOOLEAN
        <4>1. edits' \in Nat /\ version' \in Nat \ {0} /\ noted' \in Nat \ {0}
          BY <1>3, <3>1 DEF ConfigTypeOK
        <4>2. stackChanged' \in BOOLEAN
          BY <1>3, <3>1, Zenon DEF ConfigTypeOK
        <4> QED BY <4>1, <4>2
      <3> QED BY <1>4, <1>5, <1>6, <3>2 DEF ConfigTypeOK
    <2>3. ControlTypeOK'
      <3>1. ControlTypeOK
        BY DEF IInv, TypeOK
      <3>2. paused' \in BOOLEAN
        BY <1>2, <3>1, Zenon DEF ControlTypeOK
      <3>3. gpc' \in GuiPcs /\ gstage' \in {"user", "restart", "reset"} /\ gnext' \in {"idle", "launch", "gone"}
        BY <1>1, <1>2, <3>1 DEF ControlTypeOK, GuiPcs
      <3> QED BY <1>1, <3>1, <3>2, <3>3 DEF ControlTypeOK
    <2>4. DecodeTypeOK' /\ MuxTypeOK'
      BY <1>1, <1>7 DEF IInv, TypeOK, DecodeTypeOK, MuxTypeOK, muxVars
    <2> QED BY <2>1, <2>2, <2>3, <2>4 DEF TypeOK
  <1>9. (DecodeRuns' <=> DecodeRuns) /\ (DecodeStarts' <=> DecodeStarts) /\ UNCHANGED <<segs, dseg, dpos, dend, dchunk, dpc>>
    BY <1>1 DEF DecodeRuns, DecodeStarts
  <1>10. DecodeRuns => InputSegment' = InputSegment /\ (orphan' # <<>> \/ dseg < Len(DecodeInput'))
    <2> SUFFICES ASSUME DecodeRuns PROVE InputSegment' = InputSegment /\ (orphan' # <<>> \/ dseg < Len(DecodeInput'))
      OBVIOUS
    <2>1. CASE orphan' # <<>>
      BY <1>7, <2>1 DEF InputSegment
    <2>2. CASE orphan' = <<>>
      <3>1. orphan = <<>>
        BY <1>7, <2>2
      <3>2. DecodeInput' = DecodeInput
        BY <1>1, <1>7, <2>2, <3>1 DEF DecodeInput, muxVars
      <3> QED BY <1>9, <2>2, <3>1, <3>2 DEF InputSegment, IInv, DecodeIndexInv
    <2> QED BY <2>1, <2>2
  <1>11. DecodeIndexInv'
    BY <1>7, <1>9, <1>10 DEF IInv, DecodeIndexInv
  <1>12. CountInv'
    <2>1. BracketInv'
      BY <1>9 DEF IInv, CountInv, BracketInv, Bracketed
    <2>2. DecodeRuns => Following'
      BY <1>9, <1>10 DEF IInv, CountInv, Following, ChunkEnd, Smaller
    <2> QED BY <1>9, <2>1, <2>2 DEF CountInv
  <1>13. LaunchInv' /\ ThreadInv' /\ MuxIndexInv'
    BY <1>1, GuiKeepsThreadInv, MuxFrame DEF LaunchInv, IInv, muxVars
  <1> QED BY <1>8, <1>11, <1>12, <1>13 DEF IInv

-----------------------------------------------------------------------------
(* The theorems                                                             *)

\* The invariant holds before anything has been received or decoded.
LEMMA InitIInv == Init => IInv
  <1> SUFFICES ASSUME Init PROVE IInv
    OBVIOUS
  <1>1. <<>> \in Seq(Segment) /\ <<>> \in Seq(Events) /\ <<>> \in Seq(Decoded)
    OBVIOUS
  <1>2. InputTypeOK
    BY <1>1 DEF Init, InputTypeOK
  <1>3. ConfigTypeOK
    BY DEF Init, ConfigTypeOK, Assignment
  <1>4. ControlTypeOK
    BY DEF Init, ControlTypeOK, GuiPcs
  <1>5. DecodeTypeOK /\ MuxTypeOK
    BY <1>1 DEF Init, DecodeTypeOK, MuxTypeOK, DecodePcs, MuxPcs
  <1>6. ThreadInv /\ LaunchInv
    BY DEF Init, ThreadInv, LaunchInv
  <1>7. DecodeIndexInv /\ MuxIndexInv
    BY DEF Init, DecodeIndexInv, MuxIndexInv, DecodeStarts, DecodeRuns, MuxStarts, MuxRuns
  <1>8. CountInv
    BY DEF Init, CountInv, BracketInv, DecodeRuns
  <1> QED BY <1>2, <1>3, <1>4, <1>5, <1>6, <1>7, <1>8 DEF IInv, TypeOK

\* Steps of the environment that touch none of our variables keep the invariant.
LEMMA StutterIInv == IInv /\ UNCHANGED vars => IInv'
  <1> SUFFICES ASSUME IInv, UNCHANGED vars PROVE IInv'
    OBVIOUS
  <1>1. UNCHANGED <<inputVars, events, configVars, guiVars, din, dint, mint, paused, error,
                    decodeVars, muxVars, missed>>
    BY DEF vars
  <1>2. TypeOK'
    BY <1>1 DEF IInv, TypeOK, InputTypeOK, ConfigTypeOK, ControlTypeOK, DecodeTypeOK,
       MuxTypeOK, inputVars, configVars, guiVars, decodeVars, muxVars
  <1>3. DecodeIndexInv' /\ MuxIndexInv' /\ CountInv'
    BY <1>1, <1>2, StepQuiet DEF Quiet, DecodeNudged, inputVars, decodeVars, muxVars
  <1>4. ThreadInv' /\ LaunchInv'
    BY <1>1 DEF IInv, ThreadInv, LaunchInv, guiVars, decodeVars, muxVars
  <1> QED BY <1>2, <1>3, <1>4 DEF IInv

\* The inductive invariant of the pipeline: it holds in every reachable state.
THEOREM CountsInvariant == Spec => []IInv
  <1>1. IInv /\ [Next]_vars => IInv'
    BY StepSampling, StepDeliverEvent, StepUser, StepGui, StepDecodeThread, StepMuxThread,
       StepSpuriousWake, StutterIInv DEF Next
  <1> QED BY <1>1, InitIInv, PTL DEF Spec

\* Every variable keeps its type, for every number of sources, channels, segments and samples.
THEOREM TypeCorrect == Spec => []TypeOK
  <1>1. IInv => TypeOK
    BY DEF IInv
  <1> QED BY <1>1, CountsInvariant, PTL

\* decode_data never announces or sends samples that the input has not got, and never
\* has more than one chunk under way (decodesignal.cpp:1275-1335).
THEOREM OnlyReceivedDecoded == Spec => []DecodesOnlyReceived
  <1>1. IInv => DecodesOnlyReceived
    <2> SUFFICES ASSUME IInv, NEW i \in 1 .. Len(segs)
                 PROVE  /\ segs[i].excl <= segs[i].incl
                        /\ segs[i].incl <= segs[i].excl + ChunkSamples
                        /\ i = Len(segs) /\ dpc \notin {"none", "done"} => segs[i].incl <= InputSegment.count
      BY DEF DecodesOnlyReceived
    <2>1. Bracketed(segs[i])
      BY DEF IInv, CountInv, BracketInv
    <2>2. ASSUME i = Len(segs), dpc \notin {"none", "done"} PROVE segs[i].incl <= InputSegment.count
      <3>1. DecodeStarts \/ DecodeRuns
        BY <2>2 DEF IInv, TypeOK, DecodeTypeOK, DecodePcs, DecodeStarts, DecodeRuns
      <3>2. ~DecodeStarts
        BY DEF IInv, DecodeIndexInv
      <3>3. Following /\ Len(segs) = dseg + 1
        BY <3>1, <3>2 DEF IInv, CountInv, DecodeIndexInv
      <3> QED BY <2>2, <3>3 DEF Following
    <2> QED BY <2>1, <2>2 DEF Bracketed
  <1> QED BY <1>1, CountsInvariant, PTL

\* Every step is an operation of DecodeProgress on segments_ or leaves segments_ alone.
LEMMA StepProgress ==
    ASSUME IInv, [Next]_vars PROVE [Progress!Next]_segs
  <1>1. CASE DecodeStart
    BY <1>1 DEF DecodeStart, CreateDecodeSegment, Progress!Next, Progress!Enter, NewDecoded, Progress!Untouched
  <1>2. CASE DecodeComplete
    BY <1>2 DEF DecodeComplete, CreateDecodeSegment, Progress!Next, Progress!Enter, NewDecoded, Progress!Untouched
  <1>3. CASE DecodeChunk \/ DecodeSend
    <2>1. DecodeRuns
      BY <1>3 DEF DecodeChunk, DecodeSend, DecodeRuns
    <2>2. /\ Following /\ segs \in Seq(Decoded) /\ dseg + 1 = Len(segs) /\ dseg + 1 \in 1 .. Len(segs)
          /\ segs # <<>>
          /\ segs[dseg + 1].incl \in Nat /\ segs[dseg + 1].excl \in Nat
      BY <2>1, CurrentType DEF IInv, CountInv, TypeOK, DecodeTypeOK
    <2>3. /\ dend \in Nat /\ dchunk \in Nat /\ ChunkSamples \in Nat \ {0}
          /\ ChunkEnd \in Nat /\ (dchunk < dend => ChunkEnd > dchunk)
      BY ConstantAssumption DEF IInv, TypeOK, DecodeTypeOK, ChunkEnd, Smaller
    <2>4. CASE DecodeSend
      <3>1. segs' = [segs EXCEPT ![Len(segs)].excl = segs[Len(segs)].incl]
        BY <2>2, <2>4 DEF DecodeSend, Following
      <3>2. segs[Len(segs)].incl > segs[Len(segs)].excl
        BY <2>2, <2>3, <2>4 DEF DecodeSend, Following
      <3> QED BY <2>2, <3>1, <3>2 DEF Progress!Next, Progress!Deliver
    <2>5. CASE DecodeChunk /\ segs' # segs
      <3>1. segs' = [segs EXCEPT ![Len(segs)].incl = ChunkEnd] /\ dchunk < dend /\ dpc = "chunk"
        BY <2>2, <2>5 DEF DecodeChunk
      <3>2. segs[Len(segs)].incl = dchunk /\ segs[Len(segs)].excl = dchunk
        BY <2>2, <2>3, <3>1 DEF Following, Smaller
      <3>3. Len(segs') = Len(segs) /\ segs'[Len(segs)].incl = ChunkEnd
        BY <2>2, <2>3, <3>1, UpdateIncl
      <3>4. Progress!Announce
        BY <2>2, <2>3, <3>1, <3>2, <3>3 DEF Progress!Announce
      <3> QED BY <3>4 DEF Progress!Next
    <2> QED BY <1>3, <2>4, <2>5
  <1>4. CASE FinishReset
    BY <1>4 DEF FinishReset, Progress!Next, Progress!Drop
  <1>5. CASE \/ Sampling \/ DeliverEvent \/ UserStep \/ MuxThread \/ SpuriousWake \/ UNCHANGED vars
    BY <1>5 DEF Sampling, BeginSampling, EndSampling, PushSegment, AppendSamples, CompleteSegment,
       DeliverEvent, SlotFrame, UserStep, StartCapture, Pause, ResumeDecode, ChangeOption,
       AssignSignal, StackDecoder, RemoveDecoder, RestoreSettings, StackConfigChanged,
         RemoveConversion, Destroy, EditFrame, UserFrame,
       MuxThread, MuxStart, MuxBlock, MuxWoken, MuxCount, MuxSamples, MuxExhausted, MuxComplete,
       MuxUnchanged, SpuriousWake, vars, decodeVars
  <1>6. CASE GuiStep /\ ~FinishReset
    BY <1>6 DEF GuiStep, Resume, Unpause, StopDecode, DecodeJoinable, JoinDecode, StopMux, JoinMux, Launch,
       ConfigError, StartThreads
  <1>7. CASE DecodeThread /\ ~DecodeStart /\ ~DecodeComplete /\ ~DecodeChunk /\ ~DecodeSend
    BY <1>7 DEF DecodeThread, DecodeBlock, DecodeWoken, DecodeCount, DecodePauseCheck, DecodeExhausted
  <1> QED BY <1>1, <1>2, <1>3, <1>4, <1>5, <1>6, <1>7 DEF Next, DecodeThread

\* Refinement: get_decoded_sample_count only ever shows what DecodeProgress allows.
THEOREM ImplementsProgress == Spec => ProgressSpec
  <1>1. Init => Progress!Init
    BY DEF Init, Progress!Init
  <1>2. IInv /\ [Next]_vars => [Progress!Next]_segs
    BY StepProgress
  <1> QED BY <1>1, <1>2, CountsInvariant, PTL DEF Spec, ProgressSpec, Progress!Spec

-----------------------------------------------------------------------------
(* What is muxed                                                            *)

\* The GUI thread is in no begin_decode() or reset_decode(): it leaves the mux thread alone.
Steady == gpc = "idle" \/ (gpc \in {"resume", "unpause"} /\ gstage = "user")

\* Where a thread may work, every channel it is connected to has its data.
ProvidedInv ==
    Steady /\ (dpc # "none" \/ mpc # "none") /\ Used \subseteq connected => Provided = Used

\* A channel whose data are gone is given up before a thread is started again.
LEMMA StepProvided ==
    ASSUME ThreadInv, ProvidedInv, [Next]_vars PROVE ProvidedInv'
  <1>1. CASE Sampling \/ DecodeThread \/ MuxThread \/ SpuriousWake \/ DeliverEvent \/ UNCHANGED vars
    <2>1. UNCHANGED <<assigned, connected, vanished>> /\ (Steady' => Steady)
      BY <1>1 DEF Sampling, BeginSampling, EndSampling, PushSegment, AppendSamples, CompleteSegment,
         DecodeThread, DecodeStart, DecodeBlock, DecodeWoken, DecodeCount, DecodeChunk,
         DecodeSend, DecodePauseCheck, DecodeExhausted, DecodeComplete, DecodeUnchanged,
         MuxThread, MuxStart, MuxBlock, MuxWoken, MuxCount, MuxSamples, MuxExhausted, MuxComplete,
         MuxUnchanged, SpuriousWake, DeliverEvent, SlotFrame, vars, inputVars, configVars, guiVars, Steady
    <2>2. (dpc' # "none" => dpc # "none") /\ (mpc' # "none" => mpc # "none")
      <3>1. CASE Sampling \/ UNCHANGED vars
        BY <3>1 DEF Sampling, BeginSampling, EndSampling, PushSegment, AppendSamples, CompleteSegment,
           vars, decodeVars, muxVars
      <3>2. CASE DecodeThread
        BY <3>2 DEF DecodeThread, DecodeStart, DecodeBlock, DecodeWoken, DecodeCount, DecodeChunk,
           DecodeSend, DecodePauseCheck, DecodeExhausted, DecodeComplete, DecodeUnchanged, muxVars
      <3>3. CASE MuxThread
        BY <3>3 DEF MuxThread, MuxStart, MuxBlock, MuxWoken, MuxCount, MuxSamples, MuxExhausted,
           MuxComplete, MuxUnchanged, NotifyDecode, Notified
      <3>4. CASE SpuriousWake \/ DeliverEvent
        BY <3>4 DEF SpuriousWake, DeliverEvent, OnCaptureRunning, OnDataReceived, OnNothing,
           OnInputSegmentCompleted, NoWake, NotifyDecode, NotifyMux, Notified
      <3> QED BY <1>1, <3>1, <3>2, <3>3, <3>4
    <2> QED BY <2>1, <2>2 DEF ProvidedInv, Provided, Used
  <1>2. CASE GuiStep
    <2>1. CASE Resume \/ Unpause
      <3>1. /\ UNCHANGED <<assigned, connected, vanished, mpc>> /\ (Steady' => Steady)
            /\ (dpc' # "none" => dpc # "none")
        BY <2>1 DEF Resume, Unpause, GuiFrame, inputVars, configVars, Steady
      <3> QED BY <3>1 DEF ProvidedInv, Provided, Used
    <2>2. CASE StopDecode \/ JoinDecode \/ StopMux \/ JoinMux
      BY <2>2 DEF StopDecode, JoinDecode, StopMux, JoinMux, Steady, ProvidedInv
    <2>3. CASE FinishReset
      BY <2>3 DEF FinishReset, ThreadInv, ProvidedInv
    <2>4. CASE Launch
      <3>1. CASE dpc' = "none" /\ mpc' = "none"
        BY <3>1 DEF ProvidedInv
      <3>2. CASE DropVanished /\ UNCHANGED vanished
        BY <3>2 DEF DropVanished, ProvidedInv, Provided, Used
      <3> QED BY <2>4, <3>1, <3>2 DEF Launch, ConfigError, inputVars, ThreadInv
    <2> QED BY <1>2, <2>1, <2>2, <2>3, <2>4 DEF GuiStep
  <1>3. CASE UserStep
    <2>1. CASE StartCapture \/ Pause \/ ResumeDecode
      <3>1. UNCHANGED <<assigned, connected, vanished, dpc, mpc>> /\ Steady
        BY <2>1 DEF StartCapture, Pause, ResumeDecode, Edit, UserFrame, configVars, decodeVars,
           muxVars, Steady
      <3> QED BY <3>1 DEF ProvidedInv, Provided, Used
    <2>2. CASE ChangeOption \/ AssignSignal \/ StackDecoder \/ RemoveDecoder \/ RestoreSettings \/ Destroy
      BY <2>2 DEF ChangeOption, AssignSignal, StackDecoder, RemoveDecoder, RestoreSettings, Destroy,
         BeginDecode, ResetDecode, Steady, ProvidedInv
    <2>3. CASE RemoveConversion
      <3>1. PICK s \in Converted \ vanished :
              /\ vanished' = vanished \union {s}
              /\ (s \in connected /\ ResetDecode("idle")) \/ (s \notin connected /\ UNCHANGED guiVars)
        BY <2>3 DEF RemoveConversion
      <3>2. UNCHANGED <<assigned, connected, dpc, mpc>> /\ Steady
        BY <2>3 DEF RemoveConversion, Edit, decodeVars, muxVars, Steady
      <3>3. CASE ResetDecode("idle")
        BY <3>3 DEF ResetDecode, Steady, ProvidedInv
      <3>4. CASE s \notin connected
        BY <3>1, <3>2, <3>4 DEF ProvidedInv, Provided, Used
      <3> QED BY <3>1, <3>3, <3>4
    <2> QED BY <1>3, <2>1, <2>2, <2>3 DEF UserStep
  <1> QED BY <1>1, <1>2, <1>3 DEF Next

\* The inductive invariant about channels whose data may go.
LEMMA ProvidedInvariant == Spec => [](ThreadInv /\ ProvidedInv)
  <1>1. Init => ThreadInv /\ ProvidedInv
    BY DEF Init, ThreadInv, ProvidedInv
  <1>2. ThreadInv /\ ProvidedInv /\ [Next]_vars => ThreadInv' /\ ProvidedInv'
    <2>1. CASE UNCHANGED vars
      BY <2>1, StepProvided DEF ThreadInv, vars, guiVars, decodeVars, muxVars
    <2> QED BY <2>1, ThreadsKeepThreadInv, GuiKeepsThreadInv, StepProvided DEF Next
  <1> QED BY <1>1, <1>2, PTL DEF Spec

\* begin_decode leaves no decoder with a channel whose converted data are gone, whenever
\* the conversion is removed.
THEOREM ProvidedChannels == Spec => []DecodesProvidedChannels
  <1>1. ProvidedInv => DecodesProvidedChannels
    BY DEF ProvidedInv, DecodesProvidedChannels, Steady
  <1> QED BY <1>1, ProvidedInvariant, PTL

\* The mux thread works, and clear() on any of its sources would be noticed.
MuxAttended == Steady /\ mpc # "none" /\ Used \subseteq connected

\* What the muxed segments may hold of the sources' segments.
Follows ==
    \A i \in 1 .. Len(muxed), s \in Used :
        /\ i <= Len(input[s])
        /\ muxed[i].count <= input[s][i].count
        /\ muxed[i].complete => input[s][i].complete

\* The samples that logic_mux_proc has counted are still there when it muxes them.
Counted == mpc = "mux" => \A s \in Used : mend <= input[s][mseg + 1].count

FollowInv == MuxAttended => Follows /\ Counted

\* Sources are Logic objects of the session.
LEMMA UsedType ==
    ASSUME TypeOK, NEW s \in Used PROVE s \in Sources /\ input[s] \in Seq(Segment)
  BY DEF TypeOK, InputTypeOK, ConfigTypeOK, Assignment, Used

\* Where the mux thread is, in its output and so in its input.
LEMMA MuxCurrent ==
    ASSUME IInv, FollowInv, MuxAttended, MuxRuns
    PROVE  /\ mseg + 1 \in 1 .. Len(muxed) /\ Len(muxed) = mseg + 1
           /\ \A s \in Used : mseg + 1 \in 1 .. Len(input[s])
  <1>1. mseg \in Nat /\ muxed \in Seq(Segment) /\ Len(muxed) = mseg + 1
    BY DEF IInv, TypeOK, MuxTypeOK, MuxIndexInv
  <1>2. \A s \in Used : Len(input[s]) \in Nat
    BY UsedType DEF IInv
  <1> QED BY <1>1, <1>2 DEF FollowInv, Follows

\* Others may notify the mux thread and let its sources grow.
LEMMA FollowFrame ==
    ASSUME IInv, FollowInv, UNCHANGED <<assigned, connected, mseg, mend, muxed>>,
           mpc' = mpc \/ mpc' = Notified(mpc), Steady' => Steady,
           \A s \in Used : Grows(input[s], input'[s]) /\ input'[s] \in Seq(Segment)
    PROVE  FollowInv'
  <1> SUFFICES ASSUME MuxAttended' PROVE Follows' /\ Counted'
    BY DEF FollowInv
  <1>1. Used' = Used /\ MuxAttended /\ (mpc' = "mux" => mpc = "mux")
    BY DEF Used, MuxAttended, Notified
  <1>2. Follows /\ Counted /\ muxed \in Seq(Segment) /\ mend \in Nat
    BY <1>1 DEF FollowInv, IInv, TypeOK, MuxTypeOK
  <1>3. ASSUME NEW s \in Used, NEW i \in 1 .. Len(input[s])
        PROVE  /\ i \in 1 .. Len(input'[s])
               /\ input[s][i].count \in Nat /\ input'[s][i].count \in Nat
               /\ input[s][i].count <= input'[s][i].count
               /\ input[s][i].complete => input'[s][i].complete
    <2>1. input[s] \in Seq(Segment) /\ Len(input[s]) <= Len(input'[s])
      BY UsedType DEF IInv, Grows
    <2>2. i \in 1 .. Len(input'[s])
      BY <2>1
    <2> QED BY <2>1, <2>2, CountType DEF Grows
  <1>4. Follows'
    <2> SUFFICES ASSUME NEW i \in 1 .. Len(muxed), NEW s \in Used
                 PROVE  /\ i <= Len(input'[s])
                        /\ muxed[i].count <= input'[s][i].count
                        /\ muxed[i].complete => input'[s][i].complete
      BY <1>1 DEF Follows
    <2>1. i \in 1 .. Len(input[s]) /\ muxed[i].count \in Nat
      BY <1>2, CountType, UsedType DEF Follows, IInv
    <2> QED BY <1>2, <1>3, <2>1 DEF Follows
  <1>5. Counted'
    <2> SUFFICES ASSUME mpc = "mux", NEW s \in Used PROVE mend <= input'[s][mseg + 1].count
      BY <1>1 DEF Counted
    <2>1. mseg + 1 \in 1 .. Len(input[s])
      BY <1>1, MuxCurrent DEF MuxRuns
    <2> QED BY <1>2, <1>3, <2>1 DEF Counted
  <1> QED BY <1>4, <1>5

\* get_working_sample_count() of a segment that all sources have is in none of them exceeded.
LEMMA WorkingSampleCountIsLeast ==
    ASSUME TypeOK, Provided = Used, NEW i \in Nat, \A s \in Used : i + 1 \in 1 .. Len(input[s])
    PROVE  \A s \in Used : WorkingSampleCount(i) <= input[s][i + 1].count
  <1> DEFINE counts == {input[s][i + 1].count : s \in Used}
  <1> SUFFICES ASSUME NEW t \in Used PROVE WorkingSampleCount(i) <= input[t][i + 1].count
    OBVIOUS
  <1>1. \A s \in Used : ~(i >= SegmentCount(s)) /\ input[s][i + 1].count \in Nat
    <2> TAKE s \in Used
    <2>1. input[s] \in Seq(Segment) /\ i + 1 \in 1 .. Len(input[s])
      BY UsedType
    <2> QED BY <2>1, CountType DEF SegmentCount
  <1>2. WorkingSampleCount(i) = Least(counts)
    BY <1>1 DEF WorkingSampleCount
  <1>3. counts \in SUBSET Nat /\ counts # {}
    BY <1>1
  <1>4. \A n \in counts : Least(counts) <= n
    BY <1>3, LeastIsLeast
  <1> QED BY <1>2, <1>4

\* get_input_segment_count() is the number of segments that every source has.
LEMMA InputSegmentCountIsLeast ==
    ASSUME TypeOK
    PROVE  InputSegmentCount \in Nat /\ \A s \in Used : InputSegmentCount <= Len(input[s])
  <1> DEFINE counts == {SegmentCount(s) : s \in Used}
  <1>1. counts \in SUBSET Nat
    BY UsedType DEF SegmentCount
  <1>2. CASE Used = {} \/ Provided # Used
    BY <1>1, <1>2, UsedType DEF InputSegmentCount, SegmentCount
  <1>3. CASE Used # {} /\ Provided = Used
    <2>1. counts # {}
      BY <1>3
    <2>2. Least(counts) \in counts /\ \A n \in counts : Least(counts) <= n
      BY <1>1, <2>1, LeastIsLeast
    <2> QED BY <1>1, <1>3, <2>2 DEF InputSegmentCount, SegmentCount
  <1> QED BY <1>2, <1>3

\* logic_mux_proc copies what all sources have, and looks at all of them for the end.
LEMMA MuxThreadFollows ==
    ASSUME IInv, FollowInv, ProvidedInv, MuxThread PROVE FollowInv'
  <1> SUFFICES ASSUME MuxAttended' PROVE Follows' /\ Counted'
    BY DEF FollowInv
  <1>1. UNCHANGED <<input, assigned, connected, gpc, gstage>> /\ mpc # "none"
    BY DEF MuxThread, MuxStart, MuxBlock, MuxWoken, MuxCount, MuxSamples, MuxExhausted,
       MuxComplete, MuxUnchanged, inputVars, configVars, guiVars
  <1>2. Used' = Used /\ MuxAttended /\ Follows /\ Counted /\ Provided = Used
    BY <1>1 DEF Used, MuxAttended, Steady, FollowInv, ProvidedInv
  <1>3. /\ TypeOK /\ mseg \in Nat /\ mend \in Nat /\ muxed \in Seq(Segment)
        /\ ChunkSamples \in Nat \ {0} /\ WordSize \in Nat \ {0}
    BY ConstantAssumption DEF IInv, TypeOK, MuxTypeOK
  <1>4. CASE MuxStart
    <2>1. CASE UNCHANGED <<muxed, mseg, mend>> /\ mpc' # "mux"
      BY <1>1, <1>2, <2>1 DEF Follows, Counted
    <2>2. CASE muxed' = Append(muxed, NewSegment) /\ InputSegmentCount > 0 /\ mpc' # "mux"
      <3>1. Len(muxed') = 1 /\ muxed'[1].count = 0 /\ ~muxed'[1].complete
        <4>1. muxed = <<>>
          BY <1>4 DEF MuxStart, IInv, MuxIndexInv, MuxStarts
        <4> QED BY <2>2, <4>1 DEF NewSegment
      <3>2. \A s \in Used : Len(input[s]) >= 1 /\ input[s][1].count \in Nat
        <4> TAKE s \in Used
        <4>1. input[s] \in Seq(Segment) /\ InputSegmentCount <= Len(input[s]) /\ InputSegmentCount \in Nat
          BY <1>3, UsedType, InputSegmentCountIsLeast
        <4>2. 1 \in 1 .. Len(input[s])
          BY <2>2, <4>1
        <4> QED BY <4>1, <4>2, CountType
      <3>3. \A i \in 1 .. Len(muxed') : i = 1
        BY <3>1
      <3> QED BY <1>1, <1>2, <2>2, <3>1, <3>2, <3>3 DEF Follows, Counted
    <2> QED BY <1>4, <2>1, <2>2 DEF MuxStart
  <1>5. CASE MuxBlock \/ MuxWoken
    BY <1>1, <1>2, <1>5 DEF MuxBlock, MuxWoken, Follows, Counted
  <1>6. CASE MuxCount
    <2>1. MuxRuns /\ UNCHANGED <<muxed, mseg>> /\ mend' = WorkingSampleCount(mseg)
      BY <1>6 DEF MuxCount, MuxRuns
    <2>2. \A s \in Used : mend' <= input[s][mseg + 1].count
      BY <1>2, <1>3, <2>1, MuxCurrent, WorkingSampleCountIsLeast
    <2> QED BY <1>1, <1>2, <2>1, <2>2 DEF Follows, Counted
  <1>7. CASE MuxSamples
    <2> DEFINE start == muxed[mseg + 1].count
               end == Smaller(start + ChunkSamples, mend)
    <2>1. MuxRuns /\ UNCHANGED <<mseg, mend>> /\ mpc = "mux" /\ mpc' \in {"done", "mux", "count", "crashed"}
      BY <1>7 DEF MuxSamples, MuxRuns
    <2>2. mseg + 1 \in 1 .. Len(muxed) /\ \A s \in Used : mseg + 1 \in 1 .. Len(input[s])
      BY <1>2, <2>1, MuxCurrent
    <2>3. start \in Nat /\ end \in Nat /\ end <= mend
      BY <1>3, <2>2, CountType DEF Smaller
    <2>4. CASE UNCHANGED muxed /\ mpc' \in {"done", "crashed"}
      BY <1>1, <1>2, <2>4 DEF Follows, Counted
    <2>5. CASE muxed' = [muxed EXCEPT ![mseg + 1].count = end]
      <3>1. /\ Len(muxed') = Len(muxed)
            /\ \A j \in 1 .. Len(muxed) : j # mseg + 1 => muxed'[j] = muxed[j]
            /\ muxed'[mseg + 1].count = end
            /\ muxed'[mseg + 1].complete = muxed[mseg + 1].complete
        BY <1>3, <2>2, <2>3, <2>5, ReplaceCount
      <3>2. \A s \in Used : input[s][mseg + 1].count \in Nat /\ mend <= input[s][mseg + 1].count
        BY <1>2, <1>3, <2>1, <2>2, UsedType, CountType DEF Counted
      <3>3. Follows'
        BY <1>1, <1>2, <1>3, <2>2, <2>3, <3>1, <3>2 DEF Follows
      <3>4. Counted'
        BY <1>1, <1>2, <2>1, <3>2 DEF Counted
      <3> QED BY <3>3, <3>4
    <2> QED BY <1>7, <2>4, <2>5 DEF MuxSamples
  <1>8. CASE MuxExhausted
    <2>1. MuxRuns /\ UNCHANGED mseg /\ mpc' # "mux"
      BY <1>8 DEF MuxExhausted, MuxRuns
    <2>2. CASE UNCHANGED muxed
      BY <1>1, <1>2, <2>1, <2>2 DEF Follows, Counted
    <2>3. CASE AllInputSegmentsComplete(mseg) /\ muxed' = [muxed EXCEPT ![mseg + 1].complete = TRUE]
      <3>1. mseg + 1 \in 1 .. Len(muxed)
        BY <1>2, <2>1, MuxCurrent
      <3>2. /\ Len(muxed') = Len(muxed)
            /\ \A j \in 1 .. Len(muxed) : muxed'[j].count = muxed[j].count
            /\ \A j \in 1 .. Len(muxed) : j # mseg + 1 => muxed'[j] = muxed[j]
        BY <1>3, <2>3, <3>1, ReplaceComplete
      <3>3. \A s \in Used : input[s][mseg + 1].complete
        BY <1>2, <2>3 DEF AllInputSegmentsComplete
      <3> QED BY <1>1, <1>2, <2>1, <3>2, <3>3 DEF Follows, Counted
    <2> QED BY <1>8, <2>2, <2>3 DEF MuxExhausted
  <1>9. CASE MuxComplete
    <2>1. MuxRuns /\ mpc' # "mux"
      BY <1>9 DEF MuxComplete, MuxRuns
    <2>2. CASE UNCHANGED muxed
      BY <1>1, <1>2, <2>1, <2>2 DEF Follows, Counted
    <2>3. CASE mseg < LastIndex(InputSegmentCount) /\ muxed' = Append(muxed, NewSegment)
      <3>1. Len(muxed) = mseg + 1 /\ \A s \in Used : mseg + 1 \in 1 .. Len(input[s])
        BY <1>2, <2>1, MuxCurrent
      <3>2. ASSUME NEW s \in Used PROVE mseg + 2 \in 1 .. Len(input[s])
        <4>1. InputSegmentCount \in Nat /\ InputSegmentCount <= Len(input[s]) /\ Len(input[s]) \in Nat
          BY <1>3, UsedType, InputSegmentCountIsLeast
        <4>2. InputSegmentCount # 0
          <5>1. InputSegmentCount \in {SegmentCount(u) : u \in Used}
            <6> DEFINE counts == {SegmentCount(u) : u \in Used}
            <6>1. counts \in SUBSET Nat
              BY <1>3, UsedType DEF SegmentCount
            <6>2. counts # {} /\ Used # {}
              BY <3>2
            <6>3. InputSegmentCount = Least(counts)
              BY <1>2, <6>2 DEF InputSegmentCount
            <6> HIDE DEF counts
            <6>4. Least(counts) \in counts
              BY <6>1, <6>2, LeastIsLeast
            <6>5. InputSegmentCount \in counts
              BY <6>3, <6>4
            <6> QED BY <6>5 DEF counts
          <5> QED BY <1>3, <3>1, <5>1, UsedType DEF SegmentCount
        <4>3. (InputSegmentCount - 1) % WordSize <= InputSegmentCount - 1
          BY <1>3, <4>1, <4>2
        <4> QED BY <1>3, <2>3, <4>1, <4>3 DEF LastIndex
      <3>3. \A s \in Used : input[s][mseg + 2].count \in Nat
        BY <1>3, <3>2, UsedType, CountType
      <3>4. /\ Len(muxed') = mseg + 2 /\ muxed'[mseg + 2] = NewSegment
            /\ \A j \in 1 .. Len(muxed) : muxed'[j] = muxed[j]
        BY <1>3, <2>3, <3>1
      <3>5. Follows'
        <4> SUFFICES ASSUME NEW i \in 1 .. Len(muxed'), NEW s \in Used
                     PROVE  /\ i <= Len(input[s])
                            /\ muxed'[i].count <= input[s][i].count
                            /\ muxed'[i].complete => input[s][i].complete
          BY <1>1, <1>2 DEF Follows
        <4>1. CASE i \in 1 .. Len(muxed)
          BY <1>2, <3>4, <4>1 DEF Follows
        <4>2. CASE i \notin 1 .. Len(muxed)
          <5>1. i = mseg + 2
            BY <1>3, <3>1, <3>4, <4>2
          <5>2. i \in 1 .. Len(input[s]) /\ input[s][i].count \in Nat /\ muxed'[i] = NewSegment
            BY <3>2, <3>3, <3>4, <5>1
          <5>3. i <= Len(input[s])
            BY <1>3, <5>2, UsedType
          <5> QED BY <5>2, <5>3 DEF NewSegment
        <4> QED BY <4>1, <4>2
      <3> QED BY <2>1, <3>5 DEF Counted
    <2> QED BY <1>9, <2>2, <2>3 DEF MuxComplete
  <1> QED BY <1>4, <1>5, <1>6, <1>7, <1>8, <1>9 DEF MuxThread

\* begin_decode() and reset_decode() start the mux thread on an empty output.
LEMMA GuiFollows ==
    ASSUME IInv, FollowInv, GuiStep PROVE FollowInv'
  <1>1. CASE Resume \/ Unpause
    <2>1. /\ UNCHANGED <<input, assigned, connected, mseg, mend, muxed, mpc, gstage>>
          /\ Steady' => Steady
      BY <1>1 DEF Resume, Unpause, GuiFrame, inputVars, configVars, Steady
    <2>2. \A s \in Used : input[s] \in Seq(Segment) /\ Grows(input[s], input[s])
      BY UsedType, GrowsReflexive DEF IInv
    <2> QED BY <2>1, <2>2, FollowFrame
  <1>2. CASE StopDecode \/ JoinDecode \/ StopMux \/ JoinMux
    <2>1. ~Steady'
      BY <1>2 DEF StopDecode, JoinDecode, StopMux, JoinMux, Steady
    <2> QED BY <2>1 DEF FollowInv, MuxAttended
  <1>3. CASE FinishReset
    BY <1>3 DEF FinishReset, IInv, ThreadInv, FollowInv, MuxAttended
  <1>4. CASE Launch
    <2>1. muxed' = <<>> /\ (mpc' = "none" \/ mpc' = "start")
      BY <1>4 DEF Launch, ConfigError, StartThreads, IInv, LaunchInv, ThreadInv
    <2> QED BY <2>1 DEF FollowInv, Follows, Counted
  <1> QED BY <1>1, <1>2, <1>3, <1>4 DEF GuiStep

\* An operation of the user that goes on without begin_decode() or reset_decode() leaves the
\* sources alone, or clears them when there is nothing in those that are used.
LEMMA UserFollows ==
    ASSUME IInv, FollowInv, UserStep PROVE FollowInv'
  <1> SUFFICES ASSUME MuxAttended' PROVE FollowInv'
    BY DEF FollowInv
  <1>1. CASE StartCapture
    <2>1. /\ gpc = "idle" /\ UNCHANGED <<assigned, connected, mpc, mseg, mend, muxed>>
          /\ \A s \in connected \ vanished : input[s] = <<>>
          /\ input' = [s \in Sources |-> IF s \in vanished THEN input[s] ELSE <<>>]
      BY <1>1 DEF StartCapture, ResetDecode, MuxAttended, Steady, configVars, muxVars
    <2>2. Used' = Used /\ Used \subseteq connected /\ Used \subseteq Sources
      BY <2>1, UsedType DEF MuxAttended, Used, IInv
    <2>3. \A s \in Used : input'[s] = input[s] /\ input[s] \in Seq(Segment) /\ Grows(input[s], input[s])
      <3>1. \A s \in Used : input'[s] = input[s]
        BY <2>1, <2>2
      <3> QED BY <3>1, UsedType, GrowsReflexive DEF IInv
    <2> QED BY <2>1, <2>2, <2>3, FollowFrame DEF Steady
  <1>2. CASE Pause \/ ResumeDecode
    <2>1. UNCHANGED <<input, assigned, connected, mseg, mend, muxed, mpc>> /\ Steady
      BY <1>2 DEF Pause, ResumeDecode, Edit, UserFrame, configVars, muxVars, Steady
    <2>2. \A s \in Used : input[s] \in Seq(Segment) /\ Grows(input[s], input[s])
      BY UsedType, GrowsReflexive DEF IInv
    <2> QED BY <2>1, <2>2, FollowFrame
  <1>3. CASE ChangeOption \/ AssignSignal \/ StackDecoder \/ RemoveDecoder \/ RestoreSettings \/ Destroy
    <2>1. ~Steady'
      BY <1>3 DEF ChangeOption, AssignSignal, StackDecoder, RemoveDecoder, RestoreSettings, Destroy,
         BeginDecode, ResetDecode, Steady
    <2> QED BY <2>1 DEF MuxAttended
  <1>4. CASE RemoveConversion
    <2>1. UNCHANGED <<input, assigned, connected, mseg, mend, muxed, mpc>> /\ Steady
      BY <1>4 DEF RemoveConversion, Edit, muxVars, Steady
    <2>2. \A s \in Used : input[s] \in Seq(Segment) /\ Grows(input[s], input[s])
      BY UsedType, GrowsReflexive DEF IInv
    <2> QED BY <2>1, <2>2, FollowFrame
  <1> QED BY <1>1, <1>2, <1>3, <1>4 DEF UserStep

\* Every step keeps the muxed data behind its sources.
LEMMA StepFollows ==
    ASSUME IInv, FollowInv, ProvidedInv, [Next]_vars PROVE FollowInv'
  <1>1. \A s \in Used : input[s] \in Seq(Segment) /\ Grows(input[s], input[s]) /\ s \in Sources
    BY UsedType, GrowsReflexive DEF IInv
  <1>2. CASE Sampling
    <2>1. UNCHANGED <<assigned, connected, mseg, mend, muxed, mpc, gpc, gstage>>
      BY <1>2 DEF Sampling, BeginSampling, EndSampling, PushSegment, AppendSamples, CompleteSegment,
         configVars, guiVars, muxVars
    <2>2. \A s \in Used : Grows(input[s], input'[s]) /\ input'[s] \in Seq(Segment)
      BY <1>1, <1>2, StepSampling DEF IInv, TypeOK, InputTypeOK
    <2> QED BY <2>1, <2>2, FollowFrame DEF Steady
  <1>3. CASE DecodeThread \/ SpuriousWake \/ DeliverEvent \/ UNCHANGED vars
    <2>1. /\ UNCHANGED <<input, assigned, connected, mseg, mend, muxed>>
          /\ mpc' = mpc \/ mpc' = Notified(mpc)
      BY <1>3 DEF DecodeThread, DecodeStart, DecodeBlock, DecodeWoken, DecodeCount, DecodeChunk,
         DecodeSend, DecodePauseCheck, DecodeExhausted, DecodeComplete, DecodeUnchanged,
         SpuriousWake, DeliverEvent, OnCaptureRunning, OnDataReceived, OnInputSegmentCompleted,
         OnNothing, SlotFrame, NoWake, NotifyDecode, NotifyMux, vars, inputVars, configVars, muxVars
    <2>2. Steady' => Steady
      BY <1>3 DEF DecodeThread, DecodeStart, DecodeBlock, DecodeWoken, DecodeCount, DecodeChunk,
         DecodeSend, DecodePauseCheck, DecodeExhausted, DecodeComplete, DecodeUnchanged,
         SpuriousWake, DeliverEvent, vars, guiVars, Steady
    <2> QED BY <1>1, <2>1, <2>2, FollowFrame
  <1> QED BY <1>2, <1>3, MuxThreadFollows, GuiFollows, UserFollows DEF Next

\* The muxed Logic holds no sample that some assigned source has not delivered, and is complete
\* only where all of them are: whatever is cleared, reassigned or restarted in between
\* (decodesignal.cpp:1082-1270).
THEOREM MuxFollows == Spec => []MuxFollowsSources
  <1>1. Init => FollowInv
    BY DEF Init, FollowInv, MuxAttended
  <1>2. IInv /\ ProvidedInv /\ FollowInv /\ [Next]_vars => FollowInv'
    BY StepFollows
  <1>3. FollowInv => MuxFollowsSources
    BY DEF FollowInv, MuxAttended, Steady, Follows, MuxFollowsSources
  <1> QED BY <1>1, <1>2, <1>3, CountsInvariant, ProvidedInvariant, PTL DEF Spec
=============================================================================
