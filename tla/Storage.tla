------------------------------- MODULE Storage ------------------------------
(***************************************************************************)
(* The two kinds of segments an acquisition fills (feed_in_logic and       *)
(* feed_in_analog of pv/session.cpp), and the sequence of samples that     *)
(* either is to those who read it.                                         *)
(***************************************************************************)
EXTENDS LogicSegment, AnalogSegment

VARIABLE kind               \* what the channel of this segment is

storageVars == <<segmentVars, mipMapVars, envelopeVars, kind>>

StorageInit ==
    /\ kind \in {"logic", "analog"}
    /\ SegmentInit /\ MipMapInit /\ EnvelopeInit
    \* A unit of four bytes fills the chunks of an analog segment evenly.
    /\ kind = "analog" => perChunk % EnvelopeScaleFactor = 0

StorageNext ==
    \/ kind = "logic" /\ LogicNext /\ UNCHANGED <<envelopeVars, kind>>
    \/ kind = "analog" /\ AnalogNext /\ UNCHANGED <<mipMapVars, kind>>

StorageSpec == StorageInit /\ [][StorageNext]_storageVars

-----------------------------------------------------------------------------
\* Segment implements SampleSequence: whatever the division into packets and chunks,
\* readers see packets appended whole and in order, a packet that memory ran out for
\* not at all, and never a change of what they could read before.
Sequence == INSTANCE SampleSequence WITH
    Values   <- LogicValues \union AnalogValues,
    samples  <- Content,
    incoming <- packet

SequenceSpec == Sequence!Spec
=============================================================================
