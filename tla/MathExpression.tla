--------------------------- MODULE MathExpression ----------------------------
(***************************************************************************)
(* How a math signal reads the samples its expression names                *)
(* (pv/data/mathsignal.cpp: generate_samples, update_signal_sample and the *)
(* function sample()).  What a term reads is the sample itself, named by   *)
(* its signal, segment and number, or Zero; what the expression makes of   *)
(* these is left to the expression library, which evaluates the terms in   *)
(* their order.                                                            *)
(***************************************************************************)
EXTENDS Integers, Sequences, SequencesExt

CONSTANTS
    Inputs, Self,   \* the other signals, and the math signal
    Zero, NoSignal,
    Expressions,    \* sequences of terms
    Chunk,          \* ChunkLength
    Length,         \* bound: samples of a segment
    MaxSegments     \* bound: segments

(* A term is a variable, "now", or sample() with a number relative to the  *)
(* current one, "before" (s - 1), or a constant, "first" (0).              *)
Term == [kind : {"now"}, signal : Inputs]
        \union [kind : {"before", "first"}, signal : Inputs \union {Self}]

ASSUME ExpressionAssumption ==
    /\ Expressions \subseteq Seq(Term) /\ Chunk \in Nat \ {0} /\ {Length, MaxSegments} \subseteq Nat
    /\ Self \notin Inputs /\ NoSignal \notin Inputs \union {Self}

VARIABLES
    expr,
    arrived,        \* input -> its samples in this segment, -1: it has not begun it
    own,            \* per segment, per sample: what its terms have read
    todo,           \* samples_to_process - processed_samples
    chunk,          \* generation_chunk_size_
    pc, limit,      \* in generate_samples, and its sample_count
    buffer,         \* sample_data
    values,         \* what the terms of this sample have read so far
    known,          \* input_signals_: signal -> sample_num and sample_value
    counted,        \* history: the signals whose counts this batch keeps to
    found,          \* sig_data of the function object
    foundAt,        \* history: the sample at which the math signal found itself
    carried,        \* history: segments begun with a sample 0 of the one before
    excused         \* history: <<signal, segment, sample>>, a signal that was read past its
                    \* end for this sample of the math signal without having been counted

expressionVars ==
    <<expr, arrived, own, todo, chunk, pc, limit, buffer, values, known, counted,
      found, foundAt, carried, excused>>

Unread == [number |-> -1, value |-> Zero]

\* begin_generation(): the variables are looked up when the expression is compiled.
ExpressionInit ==
    /\ expr \in Expressions
    /\ arrived = [s \in Inputs |-> -1] /\ own = << <<>> >> /\ todo = 0 /\ chunk = Chunk
    /\ pc = "idle" /\ limit = 0 /\ buffer = <<>> /\ values = <<>>
    /\ known = [s \in {t.signal : t \in {u \in Range(expr) : u.kind = "now"}} |-> Unread]
    /\ found = NoSignal /\ foundAt = <<>> /\ carried = {}
    /\ counted = {} /\ excused = {}

Segment == Len(own)

\* exprtk_current_sample_
Number == Len(own[Segment]) + Len(buffer)

Begun(s)  == s = Self \/ arrived[s] >= 0
Stored(s) == IF s = Self THEN Len(own[Segment]) ELSE arrived[s]

\* An input begins the segment or has another sample.  What it receives of later segments
\* is not looked at before the math signal is there.
Arrives(s) ==
    /\ arrived[s] < Length
    /\ arrived' = [arrived EXCEPT ![s] = @ + 1]
    /\ UNCHANGED <<expr, own, todo, chunk, pc, limit, buffer, values, known, counted, found, foundAt,
                   carried, excused>>

\* get_segment_sample_count(): the longest
SessionCount == Max({arrived[s] : s \in Inputs} \union {0})

\* get_working_sample_count(): the shortest of those that have begun the segment; without
\* any there is no limit, which Length stands for.  Once the math signal is an input of
\* itself, it waits for its own samples.
WorkingCount ==
    CASE DOMAIN known = {} -> SessionCount
      [] Segment = 1 /\ ~ (\A s \in DOMAIN known : Begun(s)) -> 0
      [] OTHER -> Min({Stored(s) : s \in {r \in DOMAIN known : Begun(r)}} \union {Length})

\* generation_proc(): all samples that are there are generated, chunk by chunk.
StartBatch ==
    /\ pc = "idle" /\ WorkingCount > Len(own[Segment])
    /\ todo' = WorkingCount - Len(own[Segment])
    /\ counted' = {s \in DOMAIN known : Begun(s)}
    /\ pc' = "chunk"
    /\ UNCHANGED <<expr, arrived, own, chunk, limit, buffer, values, known, found, foundAt, carried, excused>>

StartChunk ==
    /\ pc = "chunk"
    /\ limit' = IF todo < chunk THEN todo ELSE chunk
    /\ buffer' = <<>>
    /\ pc' = "sample"
    /\ UNCHANGED <<expr, arrived, own, todo, chunk, values, known, counted, found, foundAt, carried, excused>>

\* update_signal_sample(): "only if a different sample is requested"
Updated(entry, s, n) ==
    IF entry.number = n THEN entry
    ELSE [number |-> n, value |-> IF n < Stored(s) THEN <<s, Segment, n>> ELSE Zero]

\* The assertion on the segment fails.
Fails(entry, s, n) == entry.number # n /\ ~Begun(s)

\* An input is read past its end, and was not counted for this batch.
Excuse(entry, s, n) ==
    IF s # Self /\ s \notin counted /\ entry.number # n /\ n >= Stored(s) THEN {<<s, Segment, Number>>} ELSE {}

Crash ==
    /\ pc' = "crashed"
    /\ UNCHANGED <<expr, arrived, own, todo, chunk, limit, buffer, values, known, counted, found, foundAt,
                   carried, excused>>

\* The signals that are known are brought to the current sample.
StartSample ==
    /\ pc = "sample"
    /\ \A s \in DOMAIN known : ~Fails(known[s], s, Number)
    /\ known' = [s \in DOMAIN known |-> Updated(known[s], s, Number)]
    /\ excused' = excused \union UNION {Excuse(known[s], s, Number) : s \in DOMAIN known}
    /\ values' = <<>>
    /\ pc' = "term"
    /\ UNCHANGED <<expr, arrived, own, todo, chunk, limit, buffer, counted, found, foundAt, carried>>

SampleFails ==
    /\ pc = "sample" /\ \E s \in DOMAIN known : Fails(known[s], s, Number)
    /\ Crash

Current == expr[Len(values) + 1]

\* What the term names, as a number of a sample.
Named(term, n) == CASE term.kind = "now" -> n [] term.kind = "before" -> n - 1 [] OTHER -> 0

\* A variable has the value its signal was given last.
ReadVariable ==
    /\ pc = "term" /\ Len(values) < Len(expr) /\ Current.kind = "now"
    /\ values' = Append(values, known[Current.signal].value)
    /\ UNCHANGED <<expr, arrived, own, todo, chunk, pc, limit, buffer, known, counted, found, foundAt,
                   carried, excused>>

\* fnc_sample::operator() with a negative number
ReadNothing ==
    /\ pc = "term" /\ Len(values) < Len(expr) /\ Current.kind # "now" /\ Named(Current, Number) < 0
    /\ values' = Append(values, Zero)
    /\ UNCHANGED <<expr, arrived, own, todo, chunk, pc, limit, buffer, known, counted, found, foundAt,
                   carried, excused>>

\* Mutant: chunks stay as long as they are.
ChunkFor(s) == chunk

\* "If the expression contains the math signal itself, we must add every sample to the
\* output segment immediately"
ChunkWith(s) == IF s = Self THEN 1 ELSE chunk

\* fnc_sample::operator(): signal_from_name() the first time, for all calls there are.
Calling == pc = "term" /\ Len(values) < Len(expr) /\ Current.kind # "now" /\ Named(Current, Number) >= 0
Called  == IF found = NoSignal THEN Current.signal ELSE found
Entry   == IF Called \in DOMAIN known THEN known[Called] ELSE Unread

CallSample ==
    /\ Calling /\ ~Fails(Entry, Called, Named(Current, Number))
    /\ found' = Called
    /\ chunk' = IF found = NoSignal THEN ChunkWith(Called) ELSE chunk
    /\ foundAt' = IF found = NoSignal /\ Called = Self THEN <<Segment, Number>> ELSE foundAt
    /\ LET updated == Updated(Entry, Called, Named(Current, Number)) IN
        /\ known' = [s \in DOMAIN known \union {Called} |-> IF s = Called THEN updated ELSE known[s]]
        /\ values' = Append(values, updated.value)
    /\ excused' = excused \union Excuse(Entry, Called, Named(Current, Number))
    /\ UNCHANGED <<expr, arrived, own, todo, pc, limit, buffer, counted, carried>>

CallFails ==
    /\ Calling /\ Fails(Entry, Called, Named(Current, Number))
    /\ Crash

\* The sample is computed; with chunks of one it is the last of its chunk.  The chunk is
\* appended when it is full.
EndSample ==
    /\ pc = "term" /\ Len(values) = Len(expr)
    /\ LET all == Append(buffer, values) IN
        IF Len(all) = limit \/ chunk = 1
        THEN /\ own' = [own EXCEPT ![Segment] = @ \o all]
             /\ buffer' = <<>>
             /\ todo' = todo - Len(all)
             /\ pc' = IF todo' = 0 THEN "idle" ELSE "chunk"
        ELSE buffer' = all /\ pc' = "sample" /\ UNCHANGED <<own, todo>>
    /\ UNCHANGED <<expr, arrived, chunk, limit, values, known, counted, found, foundAt, carried, excused>>

\* update_completeness(): all that the inputs have is generated, and the session has gone on;
\* never if the math signal waits for itself.  What is known of the signals is of the last
\* segment.
NextSegment ==
    /\ pc = "idle" /\ Segment < MaxSegments
    /\ Self \notin DOMAIN known
    /\ \A s \in DOMAIN known : Begun(s) /\ Len(own[Segment]) >= Stored(s)
    /\ DOMAIN known = {} => Len(own[Segment]) >= SessionCount
    /\ own' = Append(own, <<>>)
    /\ arrived' = [s \in Inputs |-> -1]
    /\ carried' = IF \E s \in DOMAIN known : known[s].number = 0
                  THEN carried \union {Segment + 1} ELSE carried
    /\ UNCHANGED <<expr, todo, chunk, pc, limit, buffer, values, known, counted, found, foundAt, excused>>

ExpressionNext ==
    \/ \E s \in Inputs : Arrives(s)
    \/ StartBatch \/ StartChunk \/ StartSample \/ SampleFails \/ ReadVariable \/ ReadNothing
    \/ CallSample \/ CallFails \/ EndSample \/ NextSegment

ExpressionSpec == ExpressionInit /\ [][ExpressionNext]_expressionVars

\* For TLC: the expressions of one or two terms.
AllShort == {<<t>> : t \in Term} \union {<<t, u>> : t, u \in Term}

-----------------------------------------------------------------------------
\* The sample a term names, if there is one: inputs have it, and of the math signal itself
\* what comes before the current sample.
Meant(term, k, n) ==
    LET number == Named(term, n) IN
    IF number < 0 \/ (term.signal = Self /\ number >= n) THEN Zero
    ELSE <<term.signal, k, number>>

\* sample() in another place of the expression has not changed what this term reads: it is
\* always of the signal that was found first, and sets the variable of that signal.
Unaffected(t) ==
    LET calls == {u \in DOMAIN expr : expr[u].kind # "now"} IN
    IF expr[t].kind = "now"
    THEN ~ \E u \in calls : u < t /\ expr[u].signal = expr[t].signal
    ELSE \A u \in calls : expr[u].signal = expr[t].signal

\* Each term reads the sample it names, however the samples of the inputs arrive and the
\* chunks fall: but for terms that affect each other, the sample at which a recursive
\* expression is discovered, the first sample of a segment after a sample 0 was read last,
\* and a signal that has less than the batch asks for because the batch was counted before
\* sample() named it, or before it had begun the segment.
ReadsWhatItNames ==
    \A k \in DOMAIN own : \A n \in DOMAIN own[k] : \A t \in DOMAIN expr :
        /\ Unaffected(t) /\ foundAt # <<k, n - 1>> /\ ~(n = 1 /\ k \in carried)
        /\ <<expr[t].signal, k, n - 1>> \notin excused
        => own[k][n][t] = Meant(expr[t], k, n - 1)
=============================================================================
