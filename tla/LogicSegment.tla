---------------------------- MODULE LogicSegment ----------------------------
(***************************************************************************)
(* The logic samples of pv/data/logicsegment.cpp and their mip-map: entry  *)
(* k of level l says whether the signal changes within the k-th block of   *)
(* MipMapScaleFactor^(l+1) samples.  One signal stands for the bits of a   *)
(* sample, which the code treats alike.                                    *)
(***************************************************************************)
EXTENDS Segment, SequencesExt

CONSTANTS
    LogicValues,            \* the values of a logic sample
    MipMapScaleFactor,      \* 16 in the code
    ScaleStepCount          \* levels of the mip-map, 10 in the code

ASSUME MipMapAssumption ==
    /\ MipMapScaleFactor \in Nat \ {0, 1}
    /\ ScaleStepCount \in Nat \ {0}

VARIABLES
    mipMap,         \* mip_map_: per level, the entries
    context         \* last_append_sample_, _accumulator_ and _extra_

mipMapVars == <<mipMap, context>>

Levels == 0..(ScaleStepCount - 1)

-----------------------------------------------------------------------------
\* Does the signal change at one of the positions i..j of run, which follows sample prev?
Changes(prev, run, i, j) ==
    \E k \in i..j : run[k] # (IF k = 1 THEN prev ELSE run[k - 1])

LastSample(prev, run) == IF run = <<>> THEN prev ELSE run[Len(run)]

\* Mutant: the last sample of the previous run is forgotten.
DownsampleForget(c, run) ==
    LET blocks == Len(run) \div MipMapScaleFactor
    IN [c EXCEPT !.out = @ \o [b \in 1..blocks |->
            Changes(run[1], run, (b - 1) * MipMapScaleFactor + 1, b * MipMapScaleFactor)]]

\* downsampleT / downsampleGeneric: c is the context with the entries written so
\* far, run the samples that are contiguous in memory.
Downsample(c, run) ==
    LET done   == IF c.extra = 0 THEN 0
                  ELSE IF Len(run) < MipMapScaleFactor - c.extra THEN Len(run)
                       ELSE MipMapScaleFactor - c.extra
        acc    == c.acc \/ Changes(c.prev, run, 1, done)
        blocks == (Len(run) - done) \div MipMapScaleFactor
        left   == done + blocks * MipMapScaleFactor
        Block(b) == Changes(c.prev, run, done + (b - 1) * MipMapScaleFactor + 1,
                                         done + b * MipMapScaleFactor)
    IN IF c.extra > 0 /\ done = Len(run)
       THEN [c EXCEPT !.prev = LastSample(@, run), !.acc = acc, !.extra = @ + done]
       ELSE [prev  |-> LastSample(c.prev, run),
             acc   |-> Changes(c.prev, run, left + 1, Len(run)),
             extra |-> Len(run) - left,
             out   |-> c.out \o (IF c.extra > 0 THEN <<acc>> ELSE <<>>)
                             \o [b \in 1..blocks |-> Block(b)]]

\* The samples first..last-1, cut at the borders of the chunks.
Runs(samples, first, last) ==
    LET lower == first \div perChunk
        From(c) == IF c * perChunk < first THEN first ELSE c * perChunk
        To(c)   == IF (c + 1) * perChunk > last THEN last ELSE (c + 1) * perChunk
    IN [k \in 1..((last - 1) \div perChunk - lower + 1) |->
            SubSeq(samples, From(lower + k - 1) + 1, To(lower + k - 1))]

\* The entries of a level that exist, then those computed from the level below.
Extend(entries, below) ==
    [i \in 1..(Len(below) \div MipMapScaleFactor) |->
        IF i <= Len(entries) THEN entries[i]
        ELSE \E k \in (i - 1) * MipMapScaleFactor + 1 .. i * MipMapScaleFactor : below[k]]

\* append_payload_to_mipmap(), after the new samples have been stored.  An entry the
\* downsampling does not reach keeps what the memory held (any value).
MipMapAppend(samples) ==
    LET old     == mipMap[0]
        length  == Len(samples) \div MipMapScaleFactor
        written == FoldLeft(Downsample, [context EXCEPT !.out = <<>>],
                            Runs(samples, Len(old) * MipMapScaleFactor,
                                          length * MipMapScaleFactor))
    IN IF length = Len(old) THEN UNCHANGED mipMapVars
       ELSE \E memory \in [(Len(old) + Len(written.out) + 1)..length -> BOOLEAN] :
              LET Bottom == [i \in 1..length |->
                                IF i <= Len(old) THEN old[i]
                                ELSE IF i - Len(old) <= Len(written.out)
                                     THEN written.out[i - Len(old)] ELSE memory[i]]
                  Level[l \in Levels] ==
                      IF l = 0 THEN Bottom ELSE Extend(mipMap[l], Level[l - 1])
              IN /\ mipMap' = Level
                 /\ context' = [written EXCEPT !.out = <<>>]

-----------------------------------------------------------------------------
\* append_payload(): the samples, and with the last of them the mip-map.
LogicAppendBegin ==
    /\ \E samples \in Packets(LogicValues) : AppendBegin(samples)
    /\ UNCHANGED mipMapVars

LogicCopyRun ==
    /\ CopyRun
    /\ IF rest' = <<>> THEN MipMapAppend(Content') ELSE UNCHANGED mipMapVars

LogicAllocationFails == AllocationFails /\ UNCHANGED mipMapVars

LogicNext == LogicAppendBegin \/ LogicCopyRun \/ LogicAllocationFails

MipMapInit ==
    /\ mipMap = [l \in Levels |-> <<>>]
    /\ context = [prev |-> 0, acc |-> FALSE, extra |-> 0, out |-> <<>>]

LogicInit == SegmentInit /\ MipMapInit
=============================================================================
