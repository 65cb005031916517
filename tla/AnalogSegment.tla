---------------------------- MODULE AnalogSegment ---------------------------
(***************************************************************************)
(* The analog samples of pv/data/analogsegment.cpp, the envelope levels    *)
(* used to draw them zoomed out, and the value range of the segment.       *)
(***************************************************************************)
EXTENDS Segment, FiniteSetsExt

CONSTANTS
    AnalogValues,           \* the values of an analog sample
    EnvelopeScaleFactor,    \* 16 in the code
    EnvelopeSteps           \* ScaleStepCount: levels of the envelope

ASSUME EnvelopeAssumption ==
    /\ EnvelopeScaleFactor \in Nat \ {0, 1}
    /\ EnvelopeSteps \in Nat \ {0}

VARIABLES
    envelope,       \* envelope_levels_: per level, the [min, max] of each block
    range           \* min_value_ and max_value_

envelopeVars == <<envelope, range>>

EnvelopeLevels == 0..(EnvelopeSteps - 1)

-----------------------------------------------------------------------------
Bounds(values) == [min |-> Min(values), max |-> Max(values)]
Span(bounds)   == [min |-> Min({b.min : b \in bounds}), max |-> Max({b.max : b \in bounds})]

\* Block i (from 1) of a level holds the entries below it at these positions.
BlockOf(i) == (i - 1) * EnvelopeScaleFactor + 1 .. i * EnvelopeScaleFactor

EnvelopeExtend(entries, below) ==
    [i \in 1..(Len(below) \div EnvelopeScaleFactor) |->
        IF i <= Len(entries) THEN entries[i] ELSE Span({below[k] : k \in BlockOf(i)})]

\* The samples that go into the range now: all of them while there are too few for
\* an envelope, then those of the blocks that have become complete.
Measured(samples) ==
    LET old == Len(envelope[0])
        new == Len(samples) \div EnvelopeScaleFactor
    IN IF new = 0 THEN samples
       ELSE SubSeq(samples, old * EnvelopeScaleFactor + 1, new * EnvelopeScaleFactor)

Bottom(samples) ==
    [i \in 1..(Len(samples) \div EnvelopeScaleFactor) |->
        IF i <= Len(envelope[0]) THEN envelope[0][i]
        ELSE Bounds({samples[k] : k \in BlockOf(i)})]

\* append_payload_to_envelope_levels(), after the samples have been stored.
EnvelopeAppend(samples) ==
    LET Level[l \in EnvelopeLevels] ==
            IF l = 0 THEN Bottom(samples) ELSE EnvelopeExtend(envelope[l], Level[l - 1])
        new == Measured(samples)
    IN /\ envelope' = Level
       /\ range' = Span({range} \union {Bounds({new[k]}) : k \in DOMAIN new})

-----------------------------------------------------------------------------
\* append_interleaved_samples(): the samples, and with the last of them the envelope.
AnalogAppendBegin ==
    /\ \E samples \in Packets(AnalogValues) : AppendBegin(samples)
    /\ UNCHANGED envelopeVars

AnalogCopyRun ==
    /\ CopyRun
    /\ IF rest' = <<>> THEN EnvelopeAppend(Content') ELSE UNCHANGED envelopeVars

AnalogAllocationFails == AllocationFails /\ UNCHANGED envelopeVars

AnalogNext == AnalogAppendBegin \/ AnalogCopyRun \/ AnalogAllocationFails

EnvelopeInit ==
    /\ envelope = [l \in EnvelopeLevels |-> <<>>]
    /\ range = [min |-> 0, max |-> 0]

\* get_envelope_section() reads this part of a level for the samples from start to end.
EnvelopeSize(level) == EnvelopeScaleFactor ^ (level + 1)

Section(level, start, end) ==
    LET size == EnvelopeSize(level)
    IN [first |-> start \div size + 1, last |-> end \div size]

AnalogInit == SegmentInit /\ EnvelopeInit
=============================================================================
