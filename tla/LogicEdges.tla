----------------------------- MODULE LogicEdges -----------------------------
(***************************************************************************)
(* The searches of pv/data/logicsegment.cpp over a stored signal and its   *)
(* mip-map.  min_length is a whole number of samples here; the search      *)
(* reads it only through its integer part and its level.                   *)
(***************************************************************************)
EXTENDS LogicSegment, FiniteSetsExt

CONSTANT SearchWindow       \* the first window of get_surrounding_edges, 1024 in the code

Edge(index, value) == <<index, value>>

\* pow2_ceil: the next multiple of size.
Ceil(x, size) == ((x + size - 1) \div size) * size

RECURSIVE BlockSize(_)
BlockSize(level) == MipMapScaleFactor * (IF level = 0 THEN 1 ELSE BlockSize(level - 1))

\* The level whose blocks are no longer than min_length, and the bottom if none is.
MinLevel(minLength) ==
    Max({0} \union {l \in Levels : BlockSize(l) <= minLength})

\* No entry says that nothing changes from here to the end of the block.
Busy(level, index) ==
    LET offset == index \div BlockSize(level)
    IN offset >= Len(mipMap[level]) \/ mipMap[level][offset + 1]

NextBlock(level, index) == Ceil(index + 1, BlockSize(level))

\* The first position from index on, before end, that differs from value, or end.
NextChange(index, end, value) ==
    Min({end} \union {i \in index..(end - 1) : RawSample(i) # value})

\* Slide right and zoom out at the beginnings of higher-level blocks.
RECURSIVE ZoomOut(_, _)
ZoomOut(level, index) ==
    IF Busy(level, index) THEN <<level, index>>
    ELSE IF (index \div BlockSize(level)) % MipMapScaleFactor # 0
    THEN ZoomOut(level, NextBlock(level, index))
    ELSE IF level + 1 >= ScaleStepCount \/ mipMap[level + 1] = <<>> THEN <<level, index>>
    ELSE ZoomOut(level + 1, index)

\* Zoom in and slide right until a change, at the lowest level.
RECURSIVE ZoomIn(_, _, _)
ZoomIn(level, index, minLevel) ==
    IF ~Busy(level, index) THEN ZoomIn(level, NextBlock(level, index), minLevel)
    ELSE IF level = minLevel THEN index
    ELSE ZoomIn(level - 1, index, minLevel)

FastForward(index, end, minLength, value) ==
    LET out   == ZoomOut(MinLevel(minLength), index)
        found == ZoomIn(out[1], out[2], MinLevel(minLength))
    IN IF minLength < MipMapScaleFactor THEN NextChange(found, end, value) ELSE found

\* Mutant: the search always goes on at the next block.
BlockStartNext(index, end, minLength, value) == Ceil(index, BlockSize(MinLevel(minLength)))

\* Where the search goes on: short of the next block if there is a change before it.
BlockStart(index, end, minLength, value) ==
    IF minLength >= MipMapScaleFactor THEN Ceil(index, BlockSize(MinLevel(minLength)))
    ELSE IF index % MipMapScaleFactor = 0 THEN index
    ELSE NextChange(index, Min({end, Ceil(index, MipMapScaleFactor)}), value)

\* A change before or at the block forbids to skip it.
ChangesAt(index, end, minLength, value) ==
    IF minLength >= MipMapScaleFactor THEN RawSample(index) # value
    ELSE index < end /\ index % MipMapScaleFactor # 0 /\ RawSample(index) # value

RECURSIVE EdgeLoop(_, _, _, _, _, _)
EdgeLoop(edges, index, end, minLength, value, firstOnly) ==
    LET start == BlockStart(index, end, minLength, value)
        skip  == mipMap[MinLevel(minLength)] # <<>> /\ ~ChangesAt(start, end, minLength, value)
        here  == IF skip THEN FastForward(start, end, minLength, value) ELSE start
        final == RawSample(here + minLength - 1)
    IN IF index + minLength > end THEN [edges |-> edges, value |-> value]
       ELSE IF minLength >= MipMapScaleFactor /\ start >= end
            THEN [edges |-> edges, value |-> value]
       ELSE IF here + minLength > end THEN [edges |-> edges, value |-> value]
       ELSE IF firstOnly THEN [edges |-> Append(edges, Edge(here, final)), value |-> final]
       ELSE EdgeLoop(Append(edges, Edge(here, final)), here + minLength, end, minLength,
                     final, firstOnly)

\* get_subsampled_edges() with first_change_only.
FirstEdge(start, end, minLength) ==
    EdgeLoop(<<>>, start, end, minLength, RawSample(start), TRUE).edges

\* get_subsampled_edges(): the state at start, the edges, the state at end.
SubsampledEdges(start, end, minLength) ==
    LET search == EdgeLoop(<<Edge(start, RawSample(start))>>, start + 1, end, minLength,
                           RawSample(start), FALSE)
        last   == RawSample(end)
    IN search.edges
       \o (IF search.value # last THEN <<Edge(end, last)>> ELSE <<>>)
       \o <<Edge(end + 1, last)>>

-----------------------------------------------------------------------------
LeftLimit(origin, radius) == IF radius > 0 /\ origin > radius THEN origin - radius ELSE 0

\* The backward search of get_surrounding_edges(), in windows of growing size.
RECURSIVE EdgeBefore(_, _, _, _)
EdgeBefore(position, limit, window, minLength) ==
    IF position <= limit THEN <<>>
    ELSE LET start == position - Min({window, position - limit})
             edges == SubsampledEdges(start, position, minLength)
         IN IF Len(edges) > 2 THEN <<edges[Len(edges) - 1]>>
            ELSE EdgeBefore(start, limit, window * 4, minLength)

SurroundingEdges(origin, minLength, radius) ==
    LET window == IF radius > 0 THEN Min({Max({minLength, SearchWindow}), radius})
                  ELSE Max({minLength, SearchWindow})
        right  == IF radius > 0 /\ radius < count - origin THEN origin + radius ELSE count
    IN EdgeBefore(origin, LeftLimit(origin, radius), window, minLength)
       \o FirstEdge(origin, right, minLength)
=============================================================================
