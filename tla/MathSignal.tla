----------------------------- MODULE MathSignal ------------------------------
(***************************************************************************)
(* A math signal (pv/data/mathsignal.cpp): the generation thread evaluates *)
(* an expression over the samples of other analog signals, segment by      *)
(* segment, while the sampling thread appends to these and the GUI thread  *)
(* restarts it and passes notifications on to it.                          *)
(*                                                                         *)
(* An expression is what it reads: `scalars`, the signals that are         *)
(* variables of it and known when it is compiled, and `call`, the signal   *)
(* it names in sample(), known when that is evaluated first.  There is one *)
(* such signal at most: the function object keeps what it found.           *)
(***************************************************************************)
EXTENDS Integers, Sequences, FiniteSets, FiniteSetsExt

CONSTANTS
    Sources,        \* the analog signals of the session
    Self,           \* the math signal, as named in its own expression
    NoCall,         \* sample() is not used
    Expressions,    \* the valid expressions a user may enter
    Invalid,        \* any expression that is empty, wrong, or reads a disabled signal
    Chunk,          \* ChunkLength
    MaxSamples,     \* bound: samples of a segment
    MaxSegments,    \* bound: segments of the first acquisition; one less in each later one
    MaxCaptures,    \* bound: acquisitions
    MaxEdits,       \* bound: changes of the expression and spurious wakeups
    MaxQueued       \* bound: queued signals

ASSUME MathAssumption ==
    /\ Chunk \in Nat \ {0}
    /\ {MaxSamples, MaxSegments, MaxCaptures, MaxEdits, MaxQueued} \subseteq Nat
    /\ \A e \in Expressions : e.scalars \subseteq Sources /\ e.call \in Sources \union {Self, NoCall}
    /\ Self \notin Sources /\ NoCall \notin Sources \union {Self}

VARIABLES
    data,           \* the segments of each source, [count, complete]
    acq,            \* the acquisition they are of
    current,        \* sources whose last segment is being written
    highest,        \* highest_segment_id_
    counts,         \* segment_sample_count_
    rate,           \* a segment of the signals has a samplerate
    sampler,        \* the sampling thread
    state,          \* capture_state_
    events,         \* queued signals for the GUI thread
    expr,           \* expression_
    compiled,       \* exprtk_expression_
    gpc, goal,      \* GUI thread: "idle", "join", "gone"; what reset_generation is for
    edits,
    interrupt,      \* gen_interrupt_
    inputs,         \* the keys of input_signals_
    chunk,          \* generation_chunk_size_
    own,            \* the segments of the math signal: [acq, count, complete]
    tpc,            \* the generation thread
    seg,            \* segment_id, from 1
    orphan,         \* output_segment, after own was cleared; NoSegment before
    output, todo, processed, part,  \* output_sample_count, samples_to_process,
                    \* processed_samples, and the samples of this chunk
    missed,         \* history: the thread went to wait without looking at what had come
    lacking,        \* history: more was counted than one of the signals the expression
                    \* reads had: one not looked up yet, or without the segment
    deaf            \* history: the notification of an interrupt was lost

samplerVars == <<data, acq, current, highest, counts, rate, sampler, state>>
guiVars     == <<expr, compiled, gpc, goal, edits>>
localVars   == <<seg, output, todo, processed, part>>
mathVars    == <<samplerVars, events, guiVars, interrupt, inputs, chunk, own, tpc, localVars,
                 orphan, missed, lacking, deaf>>

NoSegment == [acq |-> 0, count |-> 0, complete |-> FALSE]

MathInit ==
    /\ data = [s \in Sources |-> <<>>] /\ acq = 0 /\ current = {}
    /\ highest = -1 /\ counts = <<>> /\ rate = FALSE /\ sampler = "off" /\ state = "Stopped" /\ events = <<>>
    /\ expr \in Expressions \union {Invalid} /\ compiled = Invalid
    /\ gpc = "idle" /\ goal = "none" /\ edits = 0
    /\ interrupt = FALSE /\ inputs = {} /\ chunk = Chunk /\ own = <<>> /\ tpc = "none"
    /\ seg = 1 /\ orphan = NoSegment /\ output = 0 /\ todo = 0 /\ processed = 0 /\ part = 0
    /\ missed = FALSE /\ lacking = FALSE /\ deaf = FALSE

-----------------------------------------------------------------------------
(* The sampling thread; see Session. *)

MathStays == <<guiVars, interrupt, inputs, chunk, tpc, localVars, missed, lacking, deaf>>

\* samples_added of a source in use, and data_received of the session if no source was
\* known when the expression was compiled.
SourcePosts(s) == IF s \in inputs THEN <<"data">> ELSE <<>>
SessionPosts == IF compiled # Invalid /\ compiled.scalars = {} THEN <<"data">> ELSE <<>>

\* All signals are cleared, the math signal's among them.
Prepare ==
    /\ sampler = "starting"
    /\ sampler' = "prepared" /\ current' = {} /\ highest' = -1
    /\ data' = [s \in Sources |-> <<>>]
    /\ own' = <<>>
    /\ orphan' = IF own # <<>> /\ seg <= Len(own) THEN own[seg] ELSE orphan
    /\ rate' = FALSE
    /\ UNCHANGED <<acq, counts, state, events, MathStays>>

\* It announces Running, or AwaitingTrigger; or the device fails to start.
Announce ==
    /\ sampler = "prepared" /\ Len(events) < MaxQueued
    /\ \/ sampler' = "feeding" /\ state' = "Running" /\ events' = Append(events, "running")
       \/ sampler' = "feeding" /\ state' = "AwaitingTrigger" /\ UNCHANGED events
       \/ sampler' = "off" /\ UNCHANGED <<state, events>>
    /\ UNCHANGED <<data, acq, current, highest, counts, rate, own, orphan, MathStays>>

\* feed_in_analog(): a segment if there is none, with the samplerate that is known by
\* then, or none; the samples, the counts; the first packet after a trigger makes the
\* state Running.
Feed(s, n) ==
    /\ sampler = "feeding" /\ Len(events) < MaxQueued
    /\ \/ s \in current /\ data' = [data EXCEPT ![s][Len(data[s])].count = @ + n] /\ UNCHANGED rate
       \/ /\ s \notin current /\ Len(data[s]) + acq <= MaxSegments
          /\ data' = [data EXCEPT ![s] = Append(@, [count |-> n, complete |-> FALSE])]
          /\ rate' \in {rate, TRUE}
    /\ LET id == Len(data'[s])
           count == data'[s][id].count IN
        /\ count <= MaxSamples
        /\ highest' = IF id - 1 > highest THEN id - 1 ELSE highest
        /\ counts' = IF id - 1 > highest THEN Append(counts, count)
                     ELSE [counts EXCEPT ![highest + 1] = IF count > @ THEN count ELSE @]
    /\ current' = current \union {s}
    /\ state' = "Running"
    /\ events' = events \o SourcePosts(s)
                        \o (IF state # "Running" THEN <<"running">> ELSE <<>>) \o SessionPosts
    /\ UNCHANGED <<acq, sampler, own, orphan, MathStays>>

Completed ==
    [s \in Sources |->
        IF s \in current THEN [data[s] EXCEPT ![Len(data[s])].complete = TRUE] ELSE data[s]]

\* The end of a frame, in which all sources have got data, or of the acquisition.
EndSegment ==
    /\ sampler = "feeding" /\ Len(events) < MaxQueued
    /\ data' = Completed /\ current' = {}
    /\ events' = IF current \intersect inputs # {} THEN Append(events, "data") ELSE events
    /\ \/ current = Sources /\ UNCHANGED sampler
       \/ sampler' = "ending"
    /\ UNCHANGED <<acq, highest, counts, rate, state, own, orphan, MathStays>>

\* The device may fail as well, which leaves segments incomplete.
AnnounceStop ==
    /\ sampler \in {"feeding", "ending"} /\ Len(events) < MaxQueued
    /\ sampler' = "off" /\ state' = "Stopped" /\ events' = Append(events, "stopped")
    /\ UNCHANGED <<data, acq, current, highest, counts, rate, own, orphan, MathStays>>

SamplerStep ==
    \/ Prepare \/ Announce \/ EndSegment \/ AnnounceStop
    \/ \E s \in Sources, n \in 1..MaxSamples : Feed(s, n)

-----------------------------------------------------------------------------
(* The GUI thread. *)

\* Session::start_capture()
StartCapture ==
    /\ gpc = "idle" /\ sampler = "off" /\ acq < MaxCaptures
    /\ acq' = acq + 1 /\ sampler' = "starting"
    /\ data' = [s \in Sources |-> <<>>] /\ counts' = <<>> /\ rate' = FALSE
    /\ UNCHANGED <<current, highest, state, events, own, orphan, MathStays>>

\* "Don't do anything until we have a valid sample rate": that of a session is 1 as long as
\* no segment has another.
Rated == rate

Joinable == tpc \notin {"none", "done"}

Woken == CASE tpc = "wait" -> "loop" [] tpc = "ratewait" -> "rewait" [] OTHER -> tpc

\* Mutant: the thread is not notified.
ResetSilently(what) ==
    /\ gpc' = "join" /\ goal' = what
    /\ interrupt' = Joinable
    /\ UNCHANGED <<tpc, deaf>>

\* reset_generation(), up to join().  The notification is lost on a thread that has
\* tested the interrupt flag, or has just begun, and is going to wait.
ResetGeneration(what) ==
    /\ gpc' = "join" /\ goal' = what
    /\ interrupt' = (interrupt \/ Joinable)
    /\ tpc' = Woken
    /\ deaf' = (deaf \/ tpc \in {"rateblock", "block"} \/ (tpc = "rate" /\ ~Rated))

\* The rest of reset_generation(), and of begin_generation() unless that has found an
\* error.
Restart ==
    /\ gpc = "join" /\ ~Joinable
    /\ goal' = "none" /\ gpc' = IF goal = "destroy" THEN "gone" ELSE "idle"
    /\ own' = <<>> /\ chunk' = Chunk
    /\ compiled' = IF goal = "destroy" THEN Invalid ELSE expr
    /\ IF compiled' = Invalid
       THEN tpc' = "none" /\ inputs' = {} /\ UNCHANGED interrupt
       ELSE tpc' = "rate" /\ inputs' = expr.scalars /\ interrupt' = FALSE
    /\ seg' = 1 /\ output' = 0 /\ todo' = 0 /\ processed' = 0 /\ part' = 0
    /\ orphan' = NoSegment
    /\ missed' = FALSE /\ lacking' = FALSE
    /\ UNCHANGED <<samplerVars, events, expr, edits, deaf>>

\* set_expression(), and the end of the signal.
SetExpression(e) ==
    /\ gpc = "idle" /\ edits < MaxEdits
    /\ edits' = edits + 1 /\ expr' = e
    /\ ResetGeneration("begin")
    /\ UNCHANGED <<samplerVars, events, compiled, inputs, chunk, own, orphan, localVars, missed, lacking>>

Destroy ==
    /\ gpc = "idle" /\ edits < MaxEdits
    /\ edits' = edits + 1
    /\ ResetGeneration("destroy")
    /\ UNCHANGED <<samplerVars, events, expr, compiled, inputs, chunk, own, orphan, localVars,
                   missed, lacking>>

\* Where the thread will wait although something has come.
Deciding == tpc = "rateblock" \/ (tpc \in {"complete", "next", "block"} /\ todo = 0)

NotifyData ==
    /\ tpc' = Woken
    /\ missed' = (Deciding \/ (missed /\ tpc' = tpc))

\* Mutant: the end of the acquisition is not passed on.
NotifiesData(e) == e = "data"

NotifiesThread(e) == e \in {"data", "stopped"}

\* on_data_received() and on_capture_state_changed()
Deliver ==
    /\ gpc = "idle" /\ events # <<>>
    /\ events' = Tail(events)
    /\ IF NotifiesThread(Head(events))
       THEN NotifyData /\ UNCHANGED <<gpc, goal, interrupt, deaf>>
       ELSE IF Head(events) = "running"
       THEN ResetGeneration("begin") /\ UNCHANGED missed
       ELSE UNCHANGED <<gpc, goal, interrupt, tpc, missed, deaf>>
    /\ UNCHANGED <<samplerVars, expr, compiled, edits, inputs, chunk, own, orphan, localVars, lacking>>

GuiStep == Restart \/ Deliver
EditStep == Destroy \/ \E e \in Expressions \union {Invalid} : SetExpression(e)

-----------------------------------------------------------------------------
(* The generation thread. *)

ThreadStays == <<samplerVars, guiVars, interrupt, deaf>>

AwaitRate ==
    /\ tpc = "rate"
    /\ tpc' = IF ~Rated THEN "rateblock" ELSE IF interrupt THEN "done" ELSE "begin"
    /\ UNCHANGED <<ThreadStays, events, inputs, chunk, own, orphan, localVars, missed, lacking>>

Waits ==
    /\ \/ tpc = "rateblock" /\ tpc' = "ratewait"
       \/ tpc = "rewait" /\ tpc' = IF interrupt THEN "done" ELSE "rate"
       \/ tpc = "block" /\ tpc' = "wait"
    /\ UNCHANGED <<ThreadStays, events, inputs, chunk, own, orphan, localVars, missed, lacking>>

\* The standard lets a wait return by itself.
WakesUp ==
    /\ tpc \in {"wait", "ratewait"} /\ edits < MaxEdits
    /\ edits' = edits + 1
    /\ tpc' = Woken /\ missed' = FALSE
    /\ UNCHANGED <<samplerVars, expr, compiled, gpc, goal, interrupt, deaf, events, inputs, chunk, own,
                   orphan, localVars, lacking>>

NewOwn == [acq |-> acq, count |-> 0, complete |-> FALSE]

\* "Create initial analog segment"; samples are counted for it at once, whether the
\* thread is interrupted or not.
Begin ==
    /\ tpc = "begin"
    /\ tpc' = "first"
    /\ own' = Append(own, NewOwn)
    /\ UNCHANGED <<ThreadStays, events, inputs, chunk, orphan, localVars, missed, lacking>>

\* analog_segments() of an input, which may be the math signal itself.
SegmentsOf(s) == IF s = Self THEN own ELSE data[s]

Has(s, i) == i <= Len(SegmentsOf(s))

\* output_segment
Output == IF seg <= Len(own) THEN own[seg] ELSE orphan

\* The largest 64-bit integer, for an input count that nothing limits.
Unlimited == MaxSamples + 1

\* get_segment_sample_count()
SessionCount(i) == IF i <= Len(counts) THEN counts[i] ELSE 0

\* Mutant: the longest of the inputs.
WorkingCountLongest(i) ==
    LET available == {SegmentsOf(s)[i].count : s \in {t \in inputs : Has(t, i)}} IN
    CASE inputs = {} -> SessionCount(i)
      [] \E s \in inputs : SegmentsOf(s) = <<>> -> 0
      [] OTHER -> IF available = {} THEN Unlimited ELSE Max(available)

\* get_working_sample_count(): inputs that do not have the segment yet do not count, but
\* inputs that have none at all do.
WorkingCount(i) ==
    LET available == {SegmentsOf(s)[i].count : s \in {t \in inputs : Has(t, i)}} IN
    CASE inputs = {} -> SessionCount(i)
      [] \E s \in inputs : SegmentsOf(s) = <<>> -> 0
      [] OTHER -> Min(available \union {Unlimited})

Reads == compiled.scalars \union ({compiled.call} \ {NoCall, Self})

\* More is counted than what a signal has that sample() has not looked up yet, or one
\* that has not begun the segment.
Overlooked ==
    \E s \in Reads : ~Has(s, seg) \/ (s \notin inputs /\ data[s][seg].count < WorkingCount(seg))

Count ==
    /\ tpc = "first" \/ (tpc = "loop" /\ ~interrupt)
    /\ output' = Output.count
    /\ todo' = IF WorkingCount(seg) > Output.count THEN WorkingCount(seg) - Output.count ELSE 0
    /\ processed' = 0
    /\ tpc' = IF todo' > 0 THEN "chunk" ELSE "complete"
    /\ lacking' = (lacking \/ (todo' > 0 /\ Overlooked))
    /\ UNCHANGED <<ThreadStays, events, inputs, chunk, own, orphan, seg, part, missed>>

Interrupted ==
    /\ tpc = "loop" /\ interrupt
    /\ tpc' = "done"
    /\ UNCHANGED <<ThreadStays, events, inputs, chunk, own, orphan, localVars, missed, lacking>>

AtMost(n) == IF todo - processed < n THEN todo - processed ELSE n

\* sample() of the math signal itself: the sample before, which sample 0 does not have.
FindsSelf == compiled.call = Self /\ Self \notin inputs /\ output + processed + AtMost(chunk) > 1

\* A chunk of generate_samples() begins: it takes the segment, looks the signal of
\* sample() up, and asserts that each input has the segment.
StartChunk ==
    /\ tpc = "chunk"
    /\ inputs' = inputs \union (IF FindsSelf \/ compiled.call \in Sources THEN {compiled.call} ELSE {})
    /\ chunk' = IF FindsSelf THEN 1 ELSE chunk
    /\ part' = IF FindsSelf /\ output + processed = 0 THEN 2 ELSE AtMost(chunk')
    /\ tpc' = IF seg <= Len(own) /\ \A s \in inputs' : Has(s, seg) THEN "append" ELSE "crashed"
    /\ UNCHANGED <<ThreadStays, events, own, orphan, seg, output, todo, processed, missed, lacking>>

\* Its last sample is evaluated, and the chunk appended.
AppendChunk ==
    /\ tpc = "append"
    /\ processed' = processed + part
    /\ tpc' = IF \E s \in inputs \ {Self} : ~Has(s, seg) THEN "crashed"
              ELSE IF ~interrupt /\ processed' < todo THEN "chunk" ELSE "complete"
    /\ IF seg <= Len(own)
       THEN own' = [own EXCEPT ![seg].count = @ + part] /\ UNCHANGED orphan
       ELSE orphan' = [orphan EXCEPT !.count = @ + part] /\ UNCHANGED own
    /\ events' = IF Self \in inputs /\ Len(events) < MaxQueued THEN Append(events, "data") ELSE events
    /\ UNCHANGED <<ThreadStays, inputs, chunk, seg, output, todo, part, missed, lacking>>

\* output_complete in update_completeness()
IsComplete ==
    IF inputs # {}
    THEN \A s \in inputs :
            Has(s, seg) /\ SegmentsOf(s)[seg].complete /\ output >= SegmentsOf(s)[seg].count
    ELSE state = "Stopped" /\ output >= SessionCount(seg)

UpdateCompleteness ==
    /\ tpc = "complete"
    /\ IF ~IsComplete THEN tpc' = "next" /\ UNCHANGED own
       ELSE IF seg > Len(own) THEN tpc' = "crashed" /\ UNCHANGED own
       ELSE tpc' = "next" /\ own' = [own EXCEPT ![seg].complete = TRUE]
    /\ UNCHANGED <<ThreadStays, events, inputs, chunk, orphan, localVars, missed, lacking>>

\* segment_id < get_highest_segment_id(), which is unsigned: -1 is the largest.
MovesOn == Output.complete /\ (highest = -1 \/ seg - 1 < highest)

\* "Process next segment" begins with a wait for more input, which may be there already.
NextSegment ==
    /\ tpc = "next"
    /\ IF MovesOn THEN seg' = seg + 1 /\ own' = Append(own, NewOwn) /\ orphan' = IF Len(own) = seg THEN orphan ELSE NewOwn
                  ELSE UNCHANGED <<seg, own, orphan>>
    /\ tpc' = IF ~interrupt /\ todo = 0 THEN "block" ELSE "loop"
    /\ missed' = (missed \/ (MovesOn /\ tpc' = "block" /\ WorkingCount(seg + 1) > 0))
    /\ UNCHANGED <<ThreadStays, events, inputs, chunk, output, todo, processed, part, lacking>>

GenerationThread ==
    \/ AwaitRate \/ Waits \/ Begin \/ Count \/ Interrupted \/ StartChunk \/ AppendChunk
    \/ UpdateCompleteness \/ NextSegment

\* A failed assertion, or at() out of range, ends the program.
MathNext ==
    /\ tpc # "crashed"
    /\ \/ SamplerStep \/ StartCapture \/ GuiStep \/ EditStep
       \/ GenerationThread \/ WakesUp

MathSpec == MathInit /\ [][MathNext]_mathVars

FairMathSpec == MathSpec /\ WF_mathVars(GuiStep) /\ WF_mathVars(GenerationThread)
=============================================================================
