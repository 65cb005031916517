------------------------------- MODULE Segment ------------------------------
(***************************************************************************)
(* Sample storage of pv/data/segment.cpp: samples are appended to chunks   *)
(* of a fixed size, and a new chunk is allocated as soon as one is full.   *)
(* The mutex is held during a whole append, so readers see samples         *)
(* only between appends; they read sample_count_ first.                    *)
(* Not modelled: trimming the last chunk after the last append             *)
(* (free_unused_memory), which no reader can tell.                         *)
(***************************************************************************)
EXTENDS Integers, Sequences

CONSTANTS
    ChunkSizes,     \* samples per chunk: it depends on the unit size
    MayFail,        \* may memory run out (bound: once)?
    MaxSamples,     \* bound: samples in the segment
    MaxPacket       \* bound: samples appended at once

ASSUME SegmentAssumption ==
    /\ ChunkSizes \subseteq Nat \ {0}
    /\ MayFail \in BOOLEAN
    /\ MaxSamples \in Nat /\ MaxPacket \in Nat

VARIABLES
    perChunk,       \* chunk_size_ / unit_size_
    chunks,         \* data_chunks_, each with its used part
    count,          \* sample_count_
    packet,         \* the samples append_samples() was given; <<>>: no append
    rest,           \* those of them it has not copied yet
    failed          \* history: an append ended in bad_alloc

segmentVars == <<perChunk, chunks, count, packet, rest, failed>>

Packets(values) == UNION {[1..n -> values] : n \in 1..MaxPacket}

-----------------------------------------------------------------------------
(* Reading                                                                 *)

\* Sample number n, counted from 0.
RawSample(n) == chunks[(n \div perChunk) + 1][(n % perChunk) + 1]

RawSamples(start, length) == [i \in 1..length |-> RawSample(start + i - 1)]

Content == RawSamples(0, count)

-----------------------------------------------------------------------------
(* Appending                                                               *)

LastChunk == Len(chunks)
Unused    == perChunk - Len(chunks[LastChunk])

AppendBegin(samples) ==
    /\ rest = <<>>
    /\ count + Len(samples) <= MaxSamples
    /\ packet' = samples /\ rest' = samples
    /\ UNCHANGED <<perChunk, chunks, count, failed>>

CopyCount == IF Len(rest) <= Unused THEN Len(rest) ELSE Unused
Copied == [chunks EXCEPT ![LastChunk] = @ \o SubSeq(rest, 1, CopyCount)]
FillsChunk == CopyCount = Unused

\* A full chunk is followed by a new one at once.
Allocated == IF FillsChunk THEN Append(Copied, <<>>) ELSE Copied

\* Mutant: every run is counted when it has been copied.
CountRun == count + CopyCount

CountWhole == IF CopyCount = Len(rest) THEN count + Len(packet) ELSE count

\* One pass of the loop; the last one makes the samples visible.
CopyRun ==
    /\ rest # <<>>
    /\ chunks' = Allocated
    /\ rest' = SubSeq(rest, CopyCount + 1, Len(rest))
    /\ count' = CountWhole
    /\ packet' = IF rest' = <<>> THEN <<>> ELSE packet
    /\ UNCHANGED <<perChunk, failed>>

\* The new chunk cannot be had: the append is given up with bad_alloc.
AllocationFails ==
    /\ MayFail /\ ~failed /\ rest # <<>> /\ FillsChunk
    /\ chunks' = Copied
    /\ packet' = <<>> /\ rest' = <<>> /\ failed' = TRUE
    /\ UNCHANGED <<perChunk, count>>

SegmentInit ==
    /\ perChunk \in ChunkSizes
    /\ chunks = << <<>> >> /\ count = 0
    /\ packet = <<>> /\ rest = <<>> /\ failed = FALSE
=============================================================================
