--------------------------- MODULE AnnotationTable --------------------------
(***************************************************************************)
(* The tabular view of annotations (pv/views/tabular_decoder), beside the  *)
(* decode thread that adds annotations.  The model of the table takes in   *)
(* the list of all annotations entry by entry, without the lock that the   *)
(* decode thread holds, and keeps pointers to those it shows.  It is       *)
(* refreshed some time after new annotations are announced, from the entry *)
(* on that it had come to; it starts anew when the visibility or a filter  *)
(* changes.  hide_hidden_ is TRUE throughout, as the view sets it.         *)
(***************************************************************************)
EXTENDS AnnotationStore

CONSTANT Filters        \* bound: the filters used, as [classes, from, to]

VARIABLES
    attached,       \* does the table show the signal (signal_ # nullptr)?
    filter,         \* the filters by type, group and decoder, and by samples
    filtered,       \* all_annotations_without_hidden_
    taken,          \* processed_annotation_count_, and the index of the loop
    tpc,            \* in update_annotations_without_hidden: "idle", "loop", "count"
    stale           \* history: the list changed where, or while, it had been taken in

tableVars == <<attached, filter, filtered, taken, tpc, stale>>
annotationVars == <<storeVars, tableVars>>

AllClasses(f) == [f EXCEPT !.classes = Classes]

AnnotationInit ==
    /\ StoreInit
    /\ attached = FALSE /\ filter \in {AllClasses(f) : f \in Filters}
    /\ filtered = <<>> /\ taken = 0 /\ tpc = "idle" /\ stale = FALSE

Admits(ann) ==
    /\ Visible(ann)
    /\ ann.end >= filter.from /\ ann.start <= filter.to
    /\ ann.class \in filter.classes

-----------------------------------------------------------------------------
(* update_annotations_without_hidden(start), on the GUI thread. *)

\* Mutant: what was shown stays.
UpdateKeeping(start) ==
    /\ filtered' = filtered /\ stale' = (stale /\ start # 0)
    /\ taken' = IF all = <<>> THEN 0 ELSE start
    /\ tpc' = IF all = <<>> THEN "idle" ELSE "loop"

Update(start) ==
    LET anew == start = 0 \/ all = <<>> IN
    /\ filtered' = IF anew THEN <<>> ELSE filtered
    /\ stale' = (stale /\ ~anew)
    /\ taken' = IF all = <<>> THEN 0 ELSE start
    /\ tpc' = IF all = <<>> THEN "idle" ELSE "loop"

Take ==
    /\ tpc = "loop" /\ taken < Len(all)
    /\ filtered' = IF Admits(At(rows, all[taken + 1])) THEN Append(filtered, all[taken + 1])
                                                       ELSE filtered
    /\ taken' = taken + 1
    /\ UNCHANGED <<storeVars, attached, filter, tpc, stale>>

AllTaken ==
    /\ tpc = "loop" /\ taken = Len(all)
    /\ tpc' = "count"
    /\ UNCHANGED <<storeVars, attached, filter, filtered, taken, stale>>

Count ==
    /\ tpc = "count"
    /\ tpc' = "idle" /\ taken' = Len(all)
    /\ stale' = (stale \/ taken # Len(all))
    /\ UNCHANGED <<storeVars, attached, filter, filtered>>

-----------------------------------------------------------------------------
(* The other slots of the GUI thread. *)

Idle == tpc = "idle"

\* on_new_annotations and the delayed updater; in set_signal_and_segment.
Refresh ==
    /\ Idle /\ attached
    /\ Update(taken)
    /\ UNCHANGED <<storeVars, attached, filter>>

\* The signal is selected: the filters that name its parts are rebuilt.
Attach ==
    /\ Idle /\ ~attached
    /\ attached' = TRUE /\ filter' = AllClasses(filter)
    /\ Update(0)
    /\ UNCHANGED storeVars

\* Another signal, another segment or none is selected.
Detach ==
    /\ Idle /\ attached
    /\ attached' = FALSE /\ filter' = AllClasses(filter)
    /\ filtered' = <<>> /\ taken' = 0 /\ stale' = FALSE
    /\ UNCHANGED <<storeVars, tpc>>

SetFilter(f) ==
    /\ Idle /\ attached /\ f # filter
    /\ filter' = f
    /\ Update(0)
    /\ UNCHANGED <<storeVars, attached>>

\* A class is hidden or shown; the decoder announces it to the table it is shown in.
SetVisible(c) ==
    /\ Idle
    /\ hidden' = IF c \in hidden THEN hidden \ {c} ELSE hidden \union {c}
    /\ IF attached THEN Update(0) ELSE UNCHANGED <<filtered, taken, tpc, stale>>
    /\ UNCHANGED <<rows, all, mislaid, attached, filter>>

\* reset_decode, and on_decoder_reset before anything else can happen.
Reset ==
    /\ Idle /\ all # <<>>
    /\ ClearAnnotations
    /\ filtered' = <<>> /\ taken' = 0 /\ stale' = FALSE
    /\ UNCHANGED <<attached, filter, tpc>>

-----------------------------------------------------------------------------
\* The decode thread.
Annotate(ann) ==
    /\ AnnotationCallback(ann)
    /\ stale' = (stale \/ (taken > 0 /\ PutAmong(ann)))
    /\ UNCHANGED <<attached, filter, filtered, taken, tpc>>

AnnotationNext ==
    \/ \E c \in Classes : \E range \in Ranges[c] :
            Annotate([start |-> range.start, end |-> range.end, class |-> c])
    \/ Take \/ AllTaken \/ Count
    \/ Refresh \/ Attach \/ Detach \/ Reset
    \/ \E f \in Filters : SetFilter(f)
    \/ \E c \in Hideable : SetVisible(c)

AnnotationSpec == AnnotationInit /\ [][AnnotationNext]_annotationVars
=============================================================================
