---------------------------- MODULE DecodeSignal ----------------------------
(***************************************************************************)
(* The protocol decoder pipeline of pv/data/decodesignal.cpp: three        *)
(* threads of one DecodeSignal object and the logic data they consume.     *)
(*                                                                         *)
(*   GUI thread     runs slots and user operations one at a time; it       *)
(*                  (re)starts, pauses and tears down the other two.       *)
(*   decode thread  decode_proc/decode_data: feeds chunks of the input     *)
(*                  segments to the libsigrokdecode session.               *)
(*   mux thread     logic_mux_proc: repacks the channels of several        *)
(*                  sources into one muxed Logic when they do not all      *)
(*                  come from one packed source (common_input_logic).      *)
(*                                                                         *)
(* A condition variable is its wait set: a thread whose pc is "firstWait"  *)
(* or "wait" sits in the wait() of its own input condition variable and    *)
(* one in "pauseWait" in that of decode_pause_cond_.  The pcs "firstBlock",*)
(* "block" and "pauseBlock" are the windows between the test and the       *)
(* wait(): no notifier holds the mutex, so a notify_one() there is lost.   *)
(***************************************************************************)
EXTENDS Integers, Sequences, FiniteSets

CONSTANTS
    Sources,        \* Logic objects of the session that channels may come from
    Converted,      \* those of them that a conversion makes, which may be removed
    Channels,       \* decode channels of the decoder stack
    Required,       \* the channels the decoders cannot do without
    NoSource,       \* null assigned_signal / null decode_input_data_
    Mux,            \* decode_input_data_ = logic_mux_data_
    ChunkSamples,   \* DecodeChunkLength / unit_size
    WordSize,       \* 2^32 or 2^64: unsigned arithmetic on segment indices
    MayFail,        \* may libsigrokdecode calls report errors?
    MaxSegments,    \* bound: segments per source in one acquisition
    MaxSamples,     \* bound: samples per segment
    MaxCaptures,    \* bound: acquisitions
    MaxDepth,       \* bound: decoders in the stack
    MaxEdits,       \* bound: user operations
    MaxQueue,       \* bound: signals queued for the GUI thread
    UserOps,        \* bound: the kinds of user operations considered
    SavedInputs,    \* the channel assignments a settings file may hold,
    SavedDepths     \* and the numbers of decoders

Assignment == [Channels -> Sources \union {NoSource}]

ASSUME ConstantAssumption ==
    /\ NoSource \notin Sources /\ Mux \notin Sources \union {NoSource}
    /\ Required \subseteq Channels /\ Converted \subseteq Sources
    /\ SavedInputs \subseteq Assignment /\ SavedDepths \subseteq Nat
    /\ ChunkSamples \in Nat \ {0} /\ WordSize \in Nat \ {0}
    /\ MayFail \in BOOLEAN
    /\ {MaxSegments, MaxSamples, MaxCaptures, MaxDepth, MaxEdits, MaxQueue} \subseteq Nat
    /\ MaxSegments < WordSize
    /\ UserOps \subseteq {"pause", "option", "assign", "stack", "remove", "unconvert", "destroy"}

VARIABLES
    input,          \* the segments each source has received
    vanished,       \* sources that their signals have dropped: logic_data() is null
    capture,        \* the acquisition: "stopped", "clearing" the old data,
                    \* "starting" the sampling thread or "running"
    captures,       \* acquisitions started (bounded)
    events,         \* slot calls queued for the GUI thread
    assigned,       \* channels_: the source each channel is assigned to
    connected,      \* sources whose signals are connected to our slots
    depth,          \* stack_.size()
    version,        \* identifies the contents of stack_ and channels_
    stackChanged,   \* stack_config_changed_
    noted,          \* history: the version that the srd session is meant for, going by
                    \* stack_config_changed_
    edits,          \* user operations so far (bounded)
    gpc, gstage, gnext,  \* the GUI thread inside begin_decode/reset_decode
    din,            \* decode_input_data_; using_direct_input_ iff a source
    dint, mint,     \* decode_interrupt_, logic_mux_interrupt_
    paused,         \* decode_paused_
    error,          \* error_message_
    srd,            \* srd_session_: 0 for null, else the version it was built for
    segs,           \* segments_: [incl, excl] sample counts of each
    dpc, dseg, dpos, dend, dchunk,  \* decode thread and its locals
    orphan,         \* <<input_segment>> once its Logic no longer lists it, else <<>>
    finished,       \* decode_finished() emitted since the last reset
    mpc, mseg, mend,  \* mux thread and its locals; "crashed" ends the program
    muxed,          \* segments of logic_mux_data_
    missed          \* history: threads that lost a notification while blocking

inputVars  == <<input, vanished, capture, captures>>
configVars == <<assigned, connected, depth, version, stackChanged, noted, edits>>
guiVars    == <<gpc, gstage, gnext>>
decodeVars == <<dpc, dseg, dpos, dend, dchunk, orphan, segs, srd, finished>>
muxVars    == <<mpc, mseg, mend, muxed>>
vars == <<inputVars, events, configVars, guiVars, din, dint, mint, paused,
          error, decodeVars, muxVars, missed>>

-----------------------------------------------------------------------------
Segment    == [count : Nat, complete : BOOLEAN]
NewSegment == [count |-> 0, complete |-> FALSE]
Decoded    == [incl : Nat, excl : Nat]   \* samples_decoded_incl, samples_decoded_excl
NewDecoded == [incl |-> 0, excl |-> 0]

Least(S) == CHOOSE n \in S : \A m \in S : n <= m
Smaller(m, n) == IF m < n THEN m ELSE n

\* The sources that assigned channels take their data from, and those still there.
Used == {assigned[c] : c \in Channels} \ {NoSource}
Provided == Used \ vanished

\* logic_segments().size() of a source
SegmentCount(s) == Len(input[s])

\* get_input_segment_count()
InputSegmentCount ==
    IF Used = {} \/ Provided # Used THEN 0 ELSE Least({SegmentCount(s) : s \in Used})

\* get_working_sample_count(segment_id)
WorkingSampleCount(i) ==
    IF Used = {} \/ Provided # Used \/ \E s \in Used : i >= SegmentCount(s) THEN 0
    ELSE Least({input[s][i + 1].count : s \in Used})

\* Mutant: one complete source is enough.
AllInputSegmentsCompleteAny(i) ==
    \E s \in Provided : i < SegmentCount(s) /\ input[s][i + 1].complete

\* all_input_segments_complete(segment_id)
AllInputSegmentsComplete(i) ==
    \A s \in Provided : i < SegmentCount(s) /\ input[s][i + 1].complete

\* The segments behind decode_input_data_, and logic_segments().size() of it.
DecodeInput == IF din = Mux THEN muxed ELSE IF din \in Sources THEN input[din] ELSE <<>>
DecodeSegmentCount == Len(DecodeInput)

\* What input_segment points to.
InputSegment == IF orphan # <<>> THEN orphan[1] ELSE DecodeInput[dseg + 1]

\* size() - 1 on an unsigned type
LastIndex(size) == (size - 1) % WordSize

\* Mutant: using_direct_input_ confused with the existence of an input.
UsingDirectInputAlways == din # NoSource

UsingDirectInput == din \in Sources

\* Mutant: nobody notifies a thread that still waits for its first input.
NotifiedLate(pc) == IF pc = "wait" THEN "woken" ELSE pc

\* notify_one() on the input condition variable of a thread.
Notified(pc) == CASE pc = "firstWait" -> "startWoken"
                  [] pc = "wait"      -> "woken"
                  [] OTHER            -> pc

\* Where a notification goes unheard: about new data, after the thread has taken its
\* sample count and before it waits; about an interrupt, wherever the next thing the
\* thread may do is to wait without having looked at its interrupt flag.
DataWindow == {"firstBlock", "exhausted", "complete", "block"}
InterruptWindow == {"start", "firstBlock", "complete", "block"}

NotifyDecode(window) ==
    /\ dpc' = Notified(dpc)
    /\ missed' = IF dpc \in window THEN missed \union {"decode"} ELSE missed
NotifyMux(window) ==
    /\ mpc' = Notified(mpc)
    /\ missed' = IF mpc \in window THEN missed \union {"mux"} ELSE missed

-----------------------------------------------------------------------------
(* Acquisition: what the sampling thread and other producers do to the     *)
(* sources.  Their signals are queued for the GUI thread.                  *)

Producing == capture = "running" /\ Len(events) < MaxQueue
Event(kind, s) == [kind |-> kind, source |-> s]
Events == [kind : {"running", "received", "completed"}, source : Sources \union {NoSource}]

\* Session::sample_thread_proc announces Running before any data arrive.
BeginSampling ==
    /\ capture = "starting" /\ Len(events) < MaxQueue
    /\ capture' = "running"
    /\ events' = Append(events, Event("running", NoSource))
    /\ UNCHANGED <<input, vanished, captures, configVars, guiVars, din, dint, mint,
                   paused, error, decodeVars, muxVars, missed>>

\* Logic::push_segment once the previous segment is complete.
PushSegment(s) ==
    /\ Producing /\ s \notin vanished
    /\ Len(input[s]) < MaxSegments
    /\ input[s] # <<>> => input[s][Len(input[s])].complete
    /\ input' = [input EXCEPT ![s] = Append(@, NewSegment)]
    /\ UNCHANGED <<vanished, capture, captures, events, configVars, guiVars, din,
                   dint, mint, paused, error, decodeVars, muxVars, missed>>

\* LogicSegment::append_payload, then samples_added.  The signal of a conversion that
\* has been removed goes on announcing what its analog data receive.
AppendSamples(s) ==
    /\ Producing
    /\ \/ s \in vanished /\ UNCHANGED input
       \/ /\ s \notin vanished /\ input[s] # <<>>
          /\ LET last == Len(input[s]) IN
              /\ ~input[s][last].complete
              /\ \E n \in (input[s][last].count + 1) .. MaxSamples :
                    input' = [input EXCEPT ![s][last].count = n]
    /\ events' = Append(events, Event("received", s))
    /\ UNCHANGED <<vanished, capture, captures, configVars, guiVars, din, dint, mint,
                   paused, error, decodeVars, muxVars, missed>>

\* Segment::set_complete, then segment_completed.
CompleteSegment(s) ==
    /\ Producing /\ s \notin vanished
    /\ input[s] # <<>>
    /\ LET last == Len(input[s]) IN
        /\ ~input[s][last].complete
        /\ input' = [input EXCEPT ![s][last].complete = TRUE]
    /\ events' = Append(events, Event("completed", s))
    /\ UNCHANGED <<vanished, capture, captures, configVars, guiVars, din, dint, mint,
                   paused, error, decodeVars, muxVars, missed>>

\* The acquisition is over once every segment of it has been completed.
EndSampling ==
    /\ capture = "running"
    /\ \A s \in Sources \ vanished : input[s] # <<>> => input[s][Len(input[s])].complete
    /\ capture' = "stopped"
    /\ UNCHANGED <<input, vanished, captures, events, configVars, guiVars, din, dint,
                   mint, paused, error, decodeVars, muxVars, missed>>

-----------------------------------------------------------------------------
(* Decode thread                                                           *)

DecodeUnchanged == <<inputVars, configVars, guiVars, din, mint, paused, muxVars>>

\* Mutant: the new segment replaces the earlier ones.
CreateDecodeSegmentAnew == segs' = <<NewDecoded>>

\* create_decode_segment()
CreateDecodeSegment == segs' = Append(segs, NewDecoded)

\* start_srd_session(): an existing session is reused, else one is built for
\* the stack as it is now; building it may fail and leave the session null.
StartSrdSession ==
    \/ srd # 0 /\ UNCHANGED <<srd, stackChanged, error>>
    \/ srd = 0 /\ srd' = version /\ stackChanged' = FALSE /\ UNCHANGED error
    \/ MayFail /\ srd = 0 /\ error' = "decoder" /\ UNCHANGED <<srd, stackChanged>>

\* decode_proc up to its main loop.
DecodeStart ==
    /\ dpc \in {"start", "startWoken"}
    /\ \/ /\ dint /\ (dpc = "startWoken" \/ DecodeSegmentCount > 0)
          /\ dpc' = "done"
          /\ UNCHANGED <<segs, srd, stackChanged, error>>
       \/ /\ DecodeSegmentCount = 0 /\ (dpc = "startWoken" => ~dint)
          /\ dpc' = "firstBlock"
          /\ UNCHANGED <<segs, srd, stackChanged, error>>
       \/ /\ DecodeSegmentCount > 0 /\ ~dint
          /\ CreateDecodeSegment
          /\ StartSrdSession
          /\ dpc' = "count"
    /\ UNCHANGED <<dseg, dpos, dend, dchunk, orphan, finished, dint, events, missed, assigned,
                   connected, depth, version, noted, edits, inputVars, guiVars, din, mint,
                   paused, muxVars>>

\* wait() on decode_input_cond_; libc may also end a wait without a notification.
DecodeBlock ==
    /\ \/ dpc = "firstBlock" /\ dpc' = "firstWait"
       \/ dpc = "block" /\ dpc' = "wait"
       \/ dpc = "pauseBlock" /\ dpc' = "pauseWait"
    /\ UNCHANGED <<dseg, dpos, dend, dchunk, orphan, segs, srd, finished, dint, error, events,
                   missed, DecodeUnchanged>>

\* The loop conditions evaluated after the wait for more input.
DecodeWoken ==
    /\ dpc = "woken"
    /\ dpc' = IF dint THEN "done" ELSE "count"
    /\ UNCHANGED <<dseg, dpos, dend, dchunk, orphan, segs, srd, finished, dint, error, events,
                   missed, DecodeUnchanged>>

\* samples_to_process = input_segment->get_sample_count() - abs_start_samplenum
DecodeCount ==
    /\ dpc = "count"
    /\ dend' = InputSegment.count
    /\ dchunk' = dpos
    /\ dpc' = IF dend' > dpos THEN "chunk" ELSE "exhausted"
    /\ UNCHANGED <<dseg, dpos, orphan, segs, srd, finished, dint, error, events, missed,
                   DecodeUnchanged>>

\* Mutant: the last chunk is not cut to the samples there are.
ChunkEndUnclamped == dchunk + ChunkSamples

ChunkEnd == Smaller(dchunk + ChunkSamples, dend)

\* decode_data: loop test, then announce the chunk in samples_decoded_incl.
DecodeChunk ==
    /\ dpc = "chunk"
    /\ \/ /\ ~dint /\ dchunk < dend
          /\ segs' = [segs EXCEPT ![dseg + 1].incl = ChunkEnd]
          /\ dpc' = "send"
          /\ UNCHANGED dpos
       \/ /\ dint \/ dchunk >= dend
          /\ dpos' = dend
          /\ dpc' = IF dint THEN "done" ELSE "count"
          /\ UNCHANGED segs
    /\ UNCHANGED <<dseg, dend, dchunk, orphan, srd, finished, dint, error, events, missed,
                   DecodeUnchanged>>

\* decode_data: srd_session_send (an error, certain without a session, stops the
\* thread), then samples_decoded_excl catches up.
DecodeSend ==
    /\ dpc = "send"
    /\ \/ srd # 0 /\ UNCHANGED <<dint, error>>
       \/ (srd = 0 \/ MayFail) /\ dint' = TRUE /\ error' = "decoder"
    /\ segs' = [segs EXCEPT ![dseg + 1].excl = ChunkEnd]
    /\ dpc' = "pauseCheck"
    /\ UNCHANGED <<dseg, dpos, dend, dchunk, orphan, srd, finished, events, missed,
                   DecodeUnchanged>>

\* decode_data: if (decode_paused_) wait on decode_pause_cond_, once.
DecodePauseCheck ==
    /\ dpc = "pauseCheck"
    /\ dpc' = IF paused THEN "pauseBlock" ELSE "chunk"
    /\ dchunk' = dchunk + ChunkSamples
    /\ UNCHANGED <<dseg, dpos, dend, orphan, segs, srd, finished, dint, error, events, missed,
                   DecodeUnchanged>>

\* decode_proc with samples_to_process = 0: is the input segment complete?
DecodeExhausted ==
    /\ dpc = "exhausted"
    /\ dpc' = IF dint THEN "done"
              ELSE IF InputSegment.complete THEN "complete" ELSE "block"
    /\ UNCHANGED <<dseg, dpos, dend, dchunk, orphan, segs, srd, finished, dint, error, events,
                   missed, DecodeUnchanged>>

\* decode_proc at the end of a segment: enter the next one, or report that all
\* are processed.  A segment list emptied meanwhile makes size() - 1 wrap and
\* at() throw, which ends the thread.
DecodeComplete ==
    /\ dpc = "complete"
    /\ \/ /\ dseg < LastIndex(DecodeSegmentCount)
          /\ dseg' = dseg + 1
          /\ \/ /\ dseg + 1 >= DecodeSegmentCount
                /\ dint' = TRUE /\ dpc' = "done"
                /\ UNCHANGED <<segs, dpos, orphan>>
             \/ /\ dseg + 1 < DecodeSegmentCount
                /\ CreateDecodeSegment
                /\ dpos' = 0 /\ orphan' = <<>>
                /\ dpc' = IF dint THEN "done" ELSE "count"
                /\ UNCHANGED dint
          /\ UNCHANGED finished
       \/ /\ dseg >= LastIndex(DecodeSegmentCount)
          /\ finished' = (finished \/ ~dint)
          /\ dpc' = "block"
          /\ UNCHANGED <<dseg, dpos, orphan, segs, dint>>
    /\ UNCHANGED <<dend, dchunk, srd, error, events, missed, DecodeUnchanged>>

DecodeThread ==
    \/ DecodeStart \/ DecodeBlock \/ DecodeWoken \/ DecodeCount \/ DecodeChunk
    \/ DecodeSend \/ DecodePauseCheck \/ DecodeExhausted \/ DecodeComplete

-----------------------------------------------------------------------------
(* Mux thread                                                              *)

MuxUnchanged == <<inputVars, events, configVars, guiVars, din, dint, paused, error,
                  dseg, dpos, dend, dchunk, orphan, segs, srd, finished>>

\* logic_mux_proc up to its main loop.
MuxStart ==
    /\ mpc \in {"start", "startWoken"}
    /\ \/ /\ mint /\ (mpc = "startWoken" \/ InputSegmentCount > 0)
          /\ mpc' = "done"
          /\ UNCHANGED muxed
       \/ /\ InputSegmentCount = 0 /\ (mpc = "startWoken" => ~mint)
          /\ mpc' = "firstBlock"
          /\ UNCHANGED muxed
       \/ /\ InputSegmentCount > 0 /\ ~mint
          /\ muxed' = Append(muxed, NewSegment)
          /\ mpc' = "count"
    /\ UNCHANGED <<mseg, mend, mint, dpc, missed, MuxUnchanged>>

\* wait() on logic_mux_cond_
MuxBlock ==
    /\ \/ mpc = "firstBlock" /\ mpc' = "firstWait"
       \/ mpc = "block" /\ mpc' = "wait"
    /\ UNCHANGED <<mseg, mend, muxed, mint, dpc, missed, MuxUnchanged>>

MuxWoken ==
    /\ mpc = "woken"
    /\ mpc' = IF mint THEN "done" ELSE "count"
    /\ UNCHANGED <<mseg, mend, muxed, mint, dpc, missed, MuxUnchanged>>

\* samples_to_process from the working and the output sample counts.
MuxCount ==
    /\ mpc = "count"
    /\ mend' = WorkingSampleCount(mseg)
    /\ mpc' = IF mend' > muxed[mseg + 1].count THEN "mux" ELSE "exhausted"
    /\ UNCHANGED <<mseg, muxed, mint, dpc, missed, MuxUnchanged>>

\* One chunk of mux_logic_samples, and the notification of the decode thread.
\* A source without this segment is an error that stops the thread; a signal without
\* logic data is not asked for it but dereferenced.
MuxSamples ==
    /\ mpc = "mux"
    /\ LET start == muxed[mseg + 1].count
           end == Smaller(start + ChunkSamples, mend) IN
        \/ /\ Provided # Used
           /\ mpc' = "crashed"
           /\ UNCHANGED <<muxed, mint>>
        \/ /\ \E s \in Provided : mseg >= SegmentCount(s)
           /\ mint' = TRUE /\ mpc' = "done"
           /\ UNCHANGED muxed
        \/ /\ Provided = Used /\ \A s \in Used : mseg < SegmentCount(s)
           /\ muxed' = [muxed EXCEPT ![mseg + 1].count = end]
           /\ mpc' = IF mint THEN "done" ELSE IF end < mend THEN "mux" ELSE "count"
           /\ UNCHANGED mint
    /\ NotifyDecode(DataWindow)
    /\ UNCHANGED <<mseg, mend, MuxUnchanged>>

\* With nothing left to mux: complete the output segment with its inputs.
MuxExhausted ==
    /\ mpc = "exhausted"
    /\ \/ /\ mint
          /\ mpc' = "done"
          /\ UNCHANGED muxed
       \/ /\ ~mint /\ AllInputSegmentsComplete(mseg)
          /\ muxed' = [muxed EXCEPT ![mseg + 1].complete = TRUE]
          /\ mpc' = "complete"
       \/ /\ ~mint /\ ~AllInputSegmentsComplete(mseg)
          /\ mpc' = "block"
          /\ UNCHANGED muxed
    /\ UNCHANGED <<mseg, mend, mint, dpc, missed, MuxUnchanged>>

\* segment_id < get_input_segment_count() - 1, which wraps when there are none.
MuxComplete ==
    /\ mpc = "complete"
    /\ \/ /\ mseg < LastIndex(InputSegmentCount)
          /\ mseg' = mseg + 1
          /\ muxed' = Append(muxed, NewSegment)
          /\ mpc' = IF mint THEN "done" ELSE "count"
       \/ /\ mseg >= LastIndex(InputSegmentCount)
          /\ mpc' = "block"
          /\ UNCHANGED <<mseg, muxed>>
    /\ UNCHANGED <<mend, mint, dpc, missed, MuxUnchanged>>

MuxThread ==
    \/ MuxStart \/ MuxBlock \/ MuxWoken \/ MuxCount \/ MuxSamples
    \/ MuxExhausted \/ MuxComplete

\* std::condition_variable may wake a waiter that nobody notified.
SpuriousWake ==
    /\ \/ /\ dpc \in {"firstWait", "wait"} /\ dpc' = Notified(dpc) /\ UNCHANGED mpc
       \/ /\ dpc = "pauseWait" /\ dpc' = "chunk" /\ UNCHANGED mpc
       \/ /\ mpc \in {"firstWait", "wait"} /\ mpc' = Notified(mpc) /\ UNCHANGED dpc
    /\ UNCHANGED <<inputVars, events, configVars, guiVars, din, dint, mint, paused,
                   error, dseg, dpos, dend, dchunk, orphan, segs, srd, finished, mseg, mend,
                   muxed, missed>>

-----------------------------------------------------------------------------
(* GUI thread.  begin_decode() first stops both threads (stage "restart"), *)
(* then runs reset_decode() (stage "reset") and launches; reset_decode()   *)
(* alone is stage "reset" followed by "idle" or, from the destructor,      *)
(* "gone".  Stage "user" is resume_decode() called by itself.              *)

GuiFrame == <<inputVars, events, configVars, din, dend, dchunk, dseg,
              dpos, orphan, mseg, mend>>

BeginDecode == gpc' = "stopDecode" /\ gstage' = "restart" /\ gnext' = "launch"
ResetDecode(next) == gpc' = "resume" /\ gstage' = "reset" /\ gnext' = next

\* resume_decode(): notify first, clear the flag afterwards.
Resume ==
    /\ gpc = "resume"
    /\ dpc' = IF dpc = "pauseWait" THEN "chunk" ELSE dpc
    /\ gpc' = "unpause"
    /\ UNCHANGED <<GuiFrame, gstage, gnext, dint, mint, paused, error, segs,
                   srd, finished, mpc, muxed, missed>>

Unpause ==
    /\ gpc = "unpause"
    /\ paused' = FALSE
    /\ gpc' = IF gstage = "user" THEN "idle" ELSE "stopDecode"
    /\ UNCHANGED <<GuiFrame, gstage, gnext, dint, mint, error, segs, srd,
                   finished, dpc, mpc, muxed, missed>>

\* Mutant: the decode thread is left running.
DecodeJoinableNever == FALSE

\* decode_thread_.joinable()
DecodeJoinable == dpc # "none"

\* If it can be joined, interrupt it, notify it ...
StopDecode ==
    /\ gpc = "stopDecode"
    /\ \/ /\ ~DecodeJoinable
          /\ gpc' = "stopMux"
          /\ UNCHANGED <<dint, dpc, missed>>
       \/ /\ DecodeJoinable
          /\ dint' = TRUE
          /\ NotifyDecode(InterruptWindow)
          /\ gpc' = "joinDecode"
    /\ UNCHANGED <<GuiFrame, gstage, gnext, mint, paused, error, segs, srd,
                   finished, mpc, muxed>>

\* join() returns once the thread function has returned.
Joined(pc) == pc = "done"

JoinDecode ==
    /\ gpc = "joinDecode" /\ Joined(dpc)
    /\ dpc' = "none"
    /\ gpc' = "stopMux"
    /\ UNCHANGED <<GuiFrame, gstage, gnext, dint, mint, paused, error, segs,
                   srd, finished, mpc, muxed, missed>>

\* Mutant: the mux thread is left running.
MuxJoinableNever == FALSE

\* logic_mux_thread_.joinable()
MuxJoinable == mpc # "none"

StopMux ==
    /\ gpc = "stopMux"
    /\ \/ /\ ~MuxJoinable
          /\ gpc' = IF gstage = "restart" THEN "resume" ELSE "finish"
          /\ gstage' = "reset"
          /\ UNCHANGED <<mint, mpc, missed>>
       \/ /\ MuxJoinable
          /\ mint' = TRUE
          /\ NotifyMux(InterruptWindow)
          /\ gpc' = "joinMux"
          /\ UNCHANGED gstage
    /\ UNCHANGED <<GuiFrame, gnext, dint, paused, error, segs, srd, finished,
                   dpc, muxed>>

JoinMux ==
    /\ gpc = "joinMux" /\ Joined(mpc)
    /\ mpc' = "none"
    /\ gpc' = IF gstage = "restart" THEN "resume" ELSE "finish"
    /\ gstage' = "reset"
    /\ UNCHANGED <<GuiFrame, gnext, dint, mint, paused, error, segs, srd,
                   finished, dpc, muxed, missed>>

\* Mutant: a stack change is forgotten.
DestroysSessionAtEnd == gnext = "gone"

\* Is the libsigrokdecode session destroyed, or only terminated and reset?
DestroysSession == stackChanged \/ gnext = "gone"

\* The rest of reset_decode(): all results are dropped.
\* Returning from samples_cleared lets start_capture() go on.
FinishReset ==
    /\ gpc = "finish"
    /\ srd' = IF DestroysSession THEN 0 ELSE srd
    /\ noted' = IF DestroysSession THEN version ELSE noted
    /\ segs' = <<>> /\ muxed' = <<>>
    /\ din' = NoSource
    /\ error' = "none"
    /\ finished' = FALSE
    /\ gpc' = gnext
    /\ orphan' = <<>>
    /\ capture' = IF capture = "clearing" THEN "starting" ELSE capture
    /\ UNCHANGED <<input, vanished, captures, events, assigned, connected, depth, version,
                   stackChanged, edits, gstage, gnext, dint, mint, paused, dpc, dseg, dpos, dend, dchunk, mpc, mseg, mend, missed>>

\* common_input_logic(): the packed source of all assigned channels, if there is one.
ChosenInput == IF Cardinality(Used) = 1 THEN CHOOSE s \in Used : TRUE ELSE Mux

\* Mutant: channels whose signals provide no logic data any more are kept.
DropVanishedNever == UNCHANGED <<assigned, version, noted>>

\* Channels whose signals no longer provide logic data are given up, without setting
\* stack_config_changed_.
DropVanished ==
    /\ assigned' = [c \in Channels |->
                       IF assigned[c] \in vanished THEN NoSource ELSE assigned[c]]
    /\ \/ assigned' = assigned /\ UNCHANGED <<version, noted>>
       \/ /\ assigned' # assigned
          /\ version' = version + 1
          /\ noted' = IF srd = 0 THEN version' ELSE noted

ConfigError ==
    /\ error' = "config"
    /\ UNCHANGED <<din, dint, mint, dpc, dseg, dpos, dend, dchunk, mpc, mseg, mend, missed>>

StartThreads ==
    /\ din' = ChosenInput'
    /\ error' = IF InputSegmentCount' = 0 THEN "noInput" ELSE "none"
    /\ dint' = FALSE
    /\ dpc' = "start" /\ dseg' = 0 /\ dpos' = 0 /\ dend' = 0 /\ dchunk' = 0
    /\ IF din' = Mux
       THEN mint' = FALSE /\ mpc' = "start" /\ mseg' = 0 /\ mend' = 0
       ELSE UNCHANGED <<mint, mpc, mseg, mend>>
    /\ missed' = {}

\* The rest of begin_decode(): configuration errors, input selection, threads.
Launch ==
    /\ gpc = "launch"
    /\ gpc' = "idle"
    /\ UNCHANGED <<inputVars, events, connected, depth, stackChanged, edits, gstage, gnext,
                   paused, orphan, segs, srd, finished, muxed>>
    /\ \/ /\ depth = 0 \/ Used = {}
          /\ ConfigError
          /\ UNCHANGED <<assigned, version, noted>>
       \/ /\ depth > 0 /\ Used # {}
          /\ DropVanished
          /\ IF \E c \in Required : assigned'[c] = NoSource THEN ConfigError ELSE StartThreads

GuiStep == Resume \/ Unpause \/ StopDecode \/ JoinDecode \/ StopMux \/ JoinMux
           \/ FinishReset \/ Launch

-----------------------------------------------------------------------------
(* Slots, run from the event queue when the GUI thread is idle.            *)

SlotFrame == <<inputVars, configVars, din, dint, mint, paused, dseg, dpos, dend,
               dchunk, orphan, segs, srd, finished, mseg, mend, muxed>>
NoWake == UNCHANGED <<dpc, mpc, missed>>

\* on_capture_state_changed(Running)
OnCaptureRunning ==
    /\ Head(events).kind = "running"
    /\ BeginDecode
    /\ NoWake /\ UNCHANGED error

\* on_data_received()
OnDataReceived ==
    /\ Head(events).kind = "received" /\ Head(events).source \in connected
    /\ \/ /\ error # "none" /\ InputSegmentCount = 0
          /\ NoWake /\ UNCHANGED <<error, guiVars>>
       \/ /\ error = "none" \/ InputSegmentCount > 0
          /\ error' = "none"
          /\ \/ dpc = "none" /\ BeginDecode /\ NoWake
             \/ /\ dpc # "none" /\ UNCHANGED guiVars
                /\ IF UsingDirectInput THEN NotifyDecode(DataWindow) /\ UNCHANGED mpc
                                       ELSE NotifyMux(DataWindow) /\ UNCHANGED dpc

\* on_input_segment_completed()
OnInputSegmentCompleted ==
    /\ Head(events).kind = "completed" /\ Head(events).source \in connected
    /\ IF UsingDirectInput /\ dpc # "none" THEN NotifyDecode(DataWindow) /\ UNCHANGED mpc
       ELSE IF mpc # "none" THEN NotifyMux(DataWindow) /\ UNCHANGED dpc
       ELSE NoWake
    /\ UNCHANGED <<error, guiVars>>

\* A signal of a source whose connection has been dropped.
OnNothing ==
    /\ Head(events).kind # "running" /\ Head(events).source \notin connected
    /\ NoWake /\ UNCHANGED <<error, guiVars>>

DeliverEvent ==
    /\ gpc = "idle" /\ events # <<>>
    /\ OnCaptureRunning \/ OnDataReceived \/ OnInputSegmentCompleted \/ OnNothing
    /\ events' = Tail(events)
    /\ UNCHANGED SlotFrame

-----------------------------------------------------------------------------
(* User operations                                                         *)

\* One operation of the user, within the bounds.
Edit(op) ==
    /\ gpc = "idle" /\ op \in UserOps /\ edits < MaxEdits
    /\ edits' = edits + 1

UserFrame == <<input, vanished, events, din, dint, mint, error, decodeVars, muxVars, missed>>

\* Session::start_capture: clear every source; if one that we listen to had data,
\* on_data_cleared() runs reset_decode() from within its clear().  A decode thread
\* that goes on still holds the segment it works on.  Of a removed conversion only the
\* analog data are cleared, of which there may be some or none.
StartCapture ==
    /\ gpc = "idle" /\ capture = "stopped" /\ captures < MaxCaptures
    /\ captures' = captures + 1
    /\ input' = [s \in Sources |-> IF s \in vanished THEN input[s] ELSE <<>>]
    /\ orphan' = IF orphan = <<>> /\ din \in Sources \ vanished /\ segs # <<>> /\ dseg < Len(input[din])
                 THEN <<input[din][dseg + 1]>> ELSE orphan
    /\ \/ /\ \A s \in connected \ vanished : input[s] = <<>>
          /\ capture' = "starting"
          /\ UNCHANGED guiVars
       \/ /\ \E s \in connected : s \in vanished \/ input[s] # <<>>
          /\ capture' = "clearing"
          /\ ResetDecode("idle")
    /\ UNCHANGED <<vanished, events, configVars, din, dint, mint, paused, error, dpc, dseg, dpos,
                   dend, dchunk, segs, srd, finished, muxVars, missed>>

\* DecodeTrace::on_pause_decode
Pause ==
    /\ Edit("pause") /\ ~paused
    /\ paused' = TRUE
    /\ UNCHANGED <<UserFrame, capture, captures, assigned, connected, depth,
                   version, stackChanged, noted, guiVars>>

ResumeDecode ==
    /\ gpc = "idle" /\ paused
    /\ gpc' = "resume" /\ gstage' = "user" /\ gnext' = "idle"
    /\ UNCHANGED <<UserFrame, capture, captures, configVars, paused>>

EditFrame == <<UserFrame, capture, captures, paused>>

\* begin_decode() because an option of a decoder has changed.
ChangeOption ==
    /\ Edit("option") /\ depth > 0
    /\ BeginDecode
    /\ UNCHANGED <<EditFrame, assigned, connected, depth, version, stackChanged, noted>>

\* What changes of stack_ and channels_ are recorded by.
StackConfigChanged ==
    stackChanged' = TRUE /\ version' = version + 1 /\ noted' = version'

\* assign_signal(): reconnect, then begin_decode().
AssignSignal ==
    /\ Edit("assign") /\ depth > 0
    /\ \E c \in Channels, s \in (Sources \ vanished) \union {NoSource} :
          assigned' = [assigned EXCEPT ![c] = s]
    /\ connected' = (connected \ Used) \union Used'
    /\ StackConfigChanged
    /\ BeginDecode
    /\ UNCHANGED <<EditFrame, depth>>

\* stack_decoder(): auto_assign_signals() drops every connection and makes them
\* anew only if it found a signal for one of the new decoder's channels.  Several
\* decoders may be stacked on a new trace before the first begin_decode().
StackDecoder ==
    /\ Edit("stack") \/ (gpc = "stacking" /\ UNCHANGED edits)
    /\ depth < MaxDepth
    /\ depth' = depth + 1
    /\ \E a \in Assignment :
        /\ \A c \in Channels : a[c] = assigned[c] \/ (assigned[c] = NoSource /\ a[c] \notin vanished)
        /\ assigned' = a
    /\ connected' = (connected \ Used) \union (IF assigned' = assigned THEN {} ELSE Used')
    /\ StackConfigChanged
    /\ \/ BeginDecode
       \/ /\ depth = 0 \/ gpc = "stacking"
          /\ depth' < MaxDepth
          /\ gpc' = "stacking" /\ UNCHANGED <<gstage, gnext>>
    /\ UNCHANGED EditFrame

\* remove_decoder(): the channels of that decoder go, their connections stay.
RemoveDecoder ==
    /\ Edit("remove") /\ depth > 0
    /\ depth' = depth - 1
    /\ \E gone \in SUBSET Channels :
        /\ depth' = 0 => gone = Channels
        /\ assigned' = [c \in Channels |-> IF c \in gone THEN NoSource ELSE assigned[c]]
    /\ StackConfigChanged
    /\ BeginDecode
    /\ UNCHANGED <<EditFrame, connected>>

\* restore_settings() of a signal created from a settings file.
RestoreSettings ==
    /\ gpc = "idle" /\ depth = 0 /\ version = 1
    /\ depth' \in SavedDepths
    /\ assigned' \in SavedInputs
    /\ connected' = connected \union Used'
    /\ StackConfigChanged
    /\ BeginDecode
    /\ UNCHANGED <<EditFrame, edits>>

\* SignalBase::set_conversion_type() of a signal: its converted data go, and if we listen
\* to it, samples_cleared runs reset_decode().
RemoveConversion ==
    /\ Edit("unconvert")
    /\ \E s \in Converted \ vanished :
        /\ vanished' = vanished \union {s}
        /\ \/ s \in connected /\ ResetDecode("idle")
           \/ s \notin connected /\ UNCHANGED guiVars
    /\ UNCHANGED <<input, events, din, dint, mint, error, decodeVars, muxVars, missed, capture,
                   captures, paused, assigned, connected, depth, version, stackChanged, noted>>

\* ~DecodeSignal(): reset_decode(true)
Destroy ==
    /\ Edit("destroy")
    /\ ResetDecode("gone")
    /\ UNCHANGED <<EditFrame, assigned, connected, depth, version, stackChanged, noted>>

UserStep ==
    \/ StartCapture \/ Pause \/ ResumeDecode \/ ChangeOption \/ AssignSignal
    \/ StackDecoder \/ RemoveDecoder \/ RestoreSettings \/ RemoveConversion \/ Destroy

Sampling ==
    \/ BeginSampling \/ EndSampling
    \/ \E s \in Sources : PushSegment(s) \/ AppendSamples(s) \/ CompleteSegment(s)

Init ==
    /\ input = [s \in Sources |-> <<>>] /\ vanished = {}
    /\ capture = "stopped" /\ captures = 0
    /\ events = <<>>
    /\ assigned = [c \in Channels |-> NoSource] /\ connected = {}
    /\ depth = 0 /\ version = 1 /\ stackChanged = TRUE /\ noted = 1 /\ edits = 0
    /\ gpc = "idle" /\ gstage = "user" /\ gnext = "idle"
    /\ din = NoSource /\ dint = FALSE /\ mint = FALSE /\ paused = FALSE
    /\ error = "none" /\ srd = 0 /\ segs = <<>>
    /\ dpc = "none" /\ dseg = 0 /\ dpos = 0 /\ dend = 0 /\ dchunk = 0
    /\ orphan = <<>> /\ finished = FALSE
    /\ mpc = "none" /\ mseg = 0 /\ mend = 0 /\ muxed = <<>>
    /\ missed = {}

\* A crash of the mux thread is the end of the program.
Alive == mpc # "crashed"

Next ==
    /\ Alive
    /\ \/ Sampling \/ DeliverEvent \/ UserStep \/ GuiStep
       \/ DecodeThread \/ MuxThread \/ SpuriousWake

Spec == Init /\ [][Next]_vars

\* The operating system runs every thread that can run, and the GUI thread keeps
\* running its slots and its event loop.  Nothing makes users or devices act, and
\* no wait ends by itself.
Fairness ==
    /\ WF_vars(Alive /\ GuiStep) /\ WF_vars(Alive /\ DeliverEvent)
    /\ WF_vars(Alive /\ BeginSampling)
    /\ WF_vars(Alive /\ DecodeThread) /\ WF_vars(Alive /\ MuxThread)

FairSpec == Spec /\ Fairness

-----------------------------------------------------------------------------
DecodePcs == {"none", "start", "startWoken", "firstBlock", "firstWait", "count",
              "chunk", "send", "pauseCheck", "pauseBlock", "pauseWait", "exhausted",
              "complete", "block", "wait", "woken", "done"}
MuxPcs == {"none", "start", "startWoken", "firstBlock", "firstWait", "count", "mux",
           "exhausted", "complete", "block", "wait", "woken", "done", "crashed"}
GuiPcs == {"idle", "stacking", "resume", "unpause", "stopDecode", "joinDecode",
           "stopMux", "joinMux", "finish", "launch", "gone"}

InputTypeOK ==
    /\ input \in [Sources -> Seq(Segment)] /\ vanished \in SUBSET Converted
    /\ capture \in {"stopped", "clearing", "starting", "running"} /\ captures \in Nat
    /\ events \in Seq(Events)
ConfigTypeOK ==
    /\ assigned \in Assignment /\ connected \in SUBSET Sources
    /\ depth \in Nat /\ version \in Nat \ {0} /\ stackChanged \in BOOLEAN
    /\ noted \in Nat \ {0} /\ edits \in Nat
ControlTypeOK ==
    /\ gpc \in GuiPcs /\ gstage \in {"user", "restart", "reset"}
    /\ gnext \in {"idle", "launch", "gone"}
    /\ din \in Sources \union {Mux, NoSource}
    /\ dint \in BOOLEAN /\ mint \in BOOLEAN /\ paused \in BOOLEAN
    /\ error \in {"none", "config", "noInput", "decoder"}
    /\ missed \in SUBSET {"decode", "mux"}
DecodeTypeOK ==
    /\ srd \in Nat /\ segs \in Seq(Decoded)
    /\ dpc \in DecodePcs /\ dseg \in Nat /\ dpos \in Nat /\ dend \in Nat /\ dchunk \in Nat
    /\ orphan \in Seq(Segment) /\ finished \in BOOLEAN
MuxTypeOK ==
    mpc \in MuxPcs /\ mseg \in Nat /\ mend \in Nat /\ muxed \in Seq(Segment)

\* Every variable holds a value of its type.
TypeOK == InputTypeOK /\ ConfigTypeOK /\ ControlTypeOK /\ DecodeTypeOK /\ MuxTypeOK
=============================================================================
