-------------------------- MODULE StorageProperties -------------------------
(***************************************************************************)
(* What those who draw, decode or export the samples rely on: what is kept *)
(* beside them, and what the searches make of it.                          *)
(***************************************************************************)
EXTENDS Storage, LogicEdges

CONSTANT MinLengths         \* bound: the resolutions edges are asked for at

\* For TLC: the values of an analog sample.
Voltages == {-1, 1}

-----------------------------------------------------------------------------
\* Readable: no append is in progress, so the mutex is free.
Readable == rest = <<>>

\* With chunks that hold whole blocks, entry i of level l is set exactly if the signal
\* changes in block i, the step from the sample before the block included: what the
\* search skips holds no edge, and no level was left behind when a block completed.
MipMapExact ==
    kind = "logic" /\ perChunk % MipMapScaleFactor = 0 /\ Readable =>
        \A l \in Levels :
            /\ Len(mipMap[l]) = count \div BlockSize(l)
            /\ \A i \in DOMAIN mipMap[l] :
                 mipMap[l][i] = Changes(0, Content, (i - 1) * BlockSize(l) + 1, i * BlockSize(l))

EvenChunks == perChunk % MipMapScaleFactor = 0

\* The positions in a range at which the signal differs from the sample before.
EdgesIn(first, last) == {i \in first..last : RawSample(i) # RawSample(i - 1)}

EdgeList(positions) ==
    LET sorted == SetToSortSeq(positions, <) IN [k \in DOMAIN sorted |-> Edge(sorted[k], RawSample(sorted[k]))]

\* At full resolution the search by mip-map finds every edge and nothing else.
FindsEveryEdge ==
    kind = "logic" /\ EvenChunks /\ Readable =>
        \A start \in 0..(count - 1) : \A end \in start..(count - 1) :
            SubsampledEdges(start, end, 1) =
                <<Edge(start, RawSample(start))>>
                \o EdgeList(EdgesIn(start + 1, end))
                \o <<Edge(end + 1, RawSample(end))>>

\* Snapping the cursor: the nearest edges on both sides of a sample, whatever the
\* windows of the search.  The first samples of a segment without mip-map are excepted:
\* there the search reports its own start as an edge.
NearestEdges ==
    kind = "logic" /\ EvenChunks /\ Readable =>
        \A origin \in 0..(count - 1) : \A radius \in {0, 2} :
            LET left  == EdgesIn((IF radius > 0 /\ origin > radius THEN origin - radius ELSE 0) + 1, origin)
                right == EdgesIn(origin + 1, IF radius > 0 /\ radius < count - origin
                                             THEN origin + radius - 1 ELSE count - 1)
            IN origin > 0 \/ mipMap[0] # <<>> =>
               SurroundingEdges(origin, 1, radius) =
                   EdgeList((IF left = {} THEN {} ELSE {Max(left)})
                            \union (IF right = {} THEN {} ELSE {Min(right)}))

\* Zoomed out, edges are at least min_length apart, and whatever the signal does for
\* longer than a block of the level is drawn: where it has been steady for that long
\* and stays so for min_length samples, the last edge shows its value.
ShowsLongPulses ==
    kind = "logic" /\ EvenChunks /\ Readable =>
        \A m \in MinLengths, start \in 0..(count - 1) : \A end \in start..(count - 1) :
            LET edges == SubsampledEdges(start, end, m)
                steady == m + BlockSize(MinLevel(m))
            IN /\ \A k \in 2..(Len(edges) - 2) : edges[k + 1][1] - edges[k][1] >= m
                                                 \/ edges[k + 1][1] >= end
               /\ \A p \in (start + steady)..end :
                    (\A q \in (p - steady)..Min({p + m - 1, end}) : RawSample(q) = RawSample(p)) =>
                        edges[Max({k \in DOMAIN edges : edges[k][1] <= p})][2] = RawSample(p)

\* The searches over the mip-map find what a scan of the samples finds: everything at
\* full resolution, the nearest edges for the cursor, and what is drawn zoomed out.
SearchesExact == FindsEveryEdge /\ NearestEdges /\ ShowsLongPulses

\* Each level of the envelope holds the exact extremes of its blocks, the value range
\* contains them, and its ends are values the signal has had (or zero).  The section a
\* view gets for a range of samples consists of entries that are there.
EnvelopeExact ==
    kind = "analog" /\ Readable =>
        /\ \A l \in EnvelopeLevels :
            /\ Len(envelope[l]) = count \div EnvelopeSize(l)
            /\ \A i \in DOMAIN envelope[l] :
                 envelope[l][i] = Bounds({RawSample(n) :
                                    n \in (i - 1) * EnvelopeSize(l) .. i * EnvelopeSize(l) - 1})
        /\ \A i \in DOMAIN envelope[0] : /\ range.min <= envelope[0][i].min
                                         /\ range.max >= envelope[0][i].max
        /\ {range.min, range.max} \subseteq {0} \union {Content[i] : i \in DOMAIN Content}
        /\ \A l \in EnvelopeLevels, start \in 0..count : \A end \in start..count :
            Section(l, start, end).last <= Len(envelope[l])

\* What is kept beside the samples is exact at every append, for both kinds of segments:
\* mip-map and envelope are those of the samples, whatever packets and chunks they fill.
SummariesExact == MipMapExact /\ EnvelopeExact
=============================================================================
