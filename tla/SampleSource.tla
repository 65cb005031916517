---------------------------- MODULE SampleSource ----------------------------
(***************************************************************************)
(* What the consumers of acquired data (decoders, math signals, views) may *)
(* rely on: each source is a list of segments that only grows at its end,  *)
(* only the last segment is still being written, a complete segment never  *)
(* changes again, and data only disappear from all sources at once.        *)
(***************************************************************************)
EXTENDS Naturals, Sequences

CONSTANT Sources
VARIABLE data     \* per source: its segments [count, complete]

Last(s) == data[s][Len(data[s])]
Growing(s) == data[s] # <<>> /\ ~Last(s).complete

Init == data = [s \in Sources |-> <<>>]

\* New samples go to the segment in progress or open a new one after a complete one.
Receive(s) ==
    LET segments == data'[s]
        n == segments[Len(segments)].count IN
    \/ /\ Growing(s) /\ Len(segments) = Len(data[s])
       /\ n > Last(s).count
       /\ data' = [data EXCEPT ![s][Len(data[s])].count = n]
    \/ /\ ~Growing(s) /\ Len(segments) = Len(data[s]) + 1
       /\ data' = [data EXCEPT ![s] = Append(@, [count |-> n, complete |-> FALSE])]

\* The segments in progress are complete.
Complete ==
    data' = [s \in Sources |->
                IF Growing(s) THEN [data[s] EXCEPT ![Len(data[s])].complete = TRUE]
                              ELSE data[s]]

Clear == data' = [s \in Sources |-> <<>>]

Next == (\E s \in Sources : Receive(s)) \/ Complete \/ Clear

Spec == Init /\ [][Next]_data
=============================================================================
