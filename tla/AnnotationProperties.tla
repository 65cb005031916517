------------------------ MODULE AnnotationProperties ------------------------
(***************************************************************************)
(* What those who draw, list and export annotations rely on.               *)
(***************************************************************************)
EXTENDS AnnotationTable

CONSTANTS
    Windows,        \* bound: the parts of a trace that are drawn, [from, to]
    Limits          \* bound: how many annotations are asked for

ASSUME QueryAssumption ==
    /\ Limits \subseteq Nat
    /\ \A w \in Windows : w.from \in Nat /\ w.to \in Nat

InOrder(list) == \A i, j \in DOMAIN list : i < j => list[i].start <= list[j].start

\* Unless an annotation was put in front of an earlier one, a row is drawn completely,
\* whatever was appended and inserted into its blocks before: all visible annotations that
\* overlap the window, and no other; and if a limit applies, only such, up to the limit.
QueryExact ==
    \A r \in Rows : InOrder(rows[r].list) =>
        \A w \in Windows :
            LET list == rows[r].list
                wanted == {i \in DOMAIN list : /\ list[i].end > w.from /\ list[i].start <= w.to
                                               /\ Visible(list[i])}
            IN /\ Subset(r, w.from, w.to, 0) = wanted
               /\ \A limit \in Limits :
                    LET drawn == Subset(r, w.from, w.to, limit) IN
                    drawn \subseteq wanted /\ (Cardinality(drawn) <= limit \/ drawn = wanted)

\* However annotations move within their rows, the list of all annotations points to each
\* of them once, unless an insertion moved the ones in front of it.
ListedOnce ==
    ~mislaid =>
        /\ IsInjective(all)
        /\ ToSet(all) = UNION {{[row |-> r, place |-> rows[r].base + i - 1] :
                                    i \in DOMAIN rows[r].list} : r \in Rows}

Shown == [i \in DOMAIN filtered |-> At(rows, filtered[i])]
Passing == {k \in 1 .. taken : Admits(At(rows, all[k]))}

\* Between updates the table shows, of what it has taken in, what is visible and passes the
\* filters, in the order of the list, unless annotations were put among or added to those
\* while it had taken them.
TableShowsFiltered ==
    attached /\ Idle /\ ~stale =>
        /\ Len(Shown) = Cardinality(Passing)
        /\ \A k \in Passing : Shown[Cardinality({j \in Passing : j <= k})] = At(rows, all[k])
=============================================================================
