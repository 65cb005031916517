--------------------------- MODULE AnnotationStore --------------------------
(***************************************************************************)
(* The annotations of a decode signal: per row a list with an index        *)
(* (pv/data/decode/rowdata.cpp), and a list of pointers to all of them     *)
(* (annotation_callback in pv/data/decodesignal.cpp).  The rows hold their *)
(* annotations in deques, so an insertion moves the elements before or     *)
(* after it by one place, whichever are fewer, and what points to a place  *)
(* then sees another annotation: places are modelled, as numbers.          *)
(* One decoded segment is modelled; segments have lists of their own.      *)
(***************************************************************************)
EXTENDS Integers, SequencesExt

CONSTANTS
    Rows, Classes,
    RowOf,              \* the row of each class of annotations
    IndexBlockSize,     \* AnnotationIndexBlockSize, 256 in the code
    Hideable,           \* bound: the classes that are hidden at times
    Ranges,             \* bound: the [start, end] of the annotations of a class
    MaxAnnotations      \* bound: annotations in the segment

ASSUME AnnotationAssumption ==
    /\ RowOf \in [Classes -> Rows] /\ Hideable \subseteq Classes
    /\ IndexBlockSize \in Nat \ {0} /\ MaxAnnotations \in Nat
    /\ \A c \in Classes : \A range \in Ranges[c] :
        range.start \in Nat /\ range.end \in Nat /\ range.start <= range.end

VARIABLES
    rows,       \* annotation_rows: annotations, place of the first one, start of the last
                \* one appended, and the greatest end up to the end of each index block
    all,        \* all_annotations: the row and the place each entry points to
    hidden,     \* the classes that are not visible
    mislaid     \* history: an insertion moved entries whose pointers were left as they were

storeVars == <<rows, all, hidden, mislaid>>

NoAnnotations == [list |-> <<>>, base |-> 0, latest |-> 0, maxEnds |-> <<>>]

StoreInit ==
    /\ rows = [r \in Rows |-> NoAnnotations] /\ all = <<>>
    /\ hidden = {} /\ mislaid = FALSE

-----------------------------------------------------------------------------
(* RowData. *)

Blocks(n) == (n + IndexBlockSize - 1) \div IndexBlockSize

\* Where both lists insert, searching backwards from the end: behind the last entry not to
\* come later, but never second.
InsertPosition(earlier) == IF earlier \subseteq {1} THEN 1 ELSE Max(earlier) + 1

OutOfOrder(row, ann) == ann.start < row.latest

RowPosition(row, ann) ==
    IF OutOfOrder(row, ann)
    THEN InsertPosition({i \in DOMAIN row.list : row.list[i].start <= ann.start})
    ELSE Len(row.list) + 1

\* Mutant: only the block of the insertion, and new blocks.
ReindexedOne(maxEnds, list, p) ==
    [block \in 1 .. Blocks(Len(list)) |->
        IF block \in DOMAIN maxEnds \ {(p - 1) \div IndexBlockSize + 1} THEN maxEnds[block]
        ELSE Max({list[i].end : i \in 1 .. Min({block * IndexBlockSize, Len(list)})})]

\* The index from the block of position p on, after an insertion there.
Reindexed(maxEnds, list, p) ==
    LET first == (p - 1) \div IndexBlockSize
        before == IF first = 0 THEN {0} ELSE {maxEnds[first]}
        ends(block) == {list[i].end : i \in first * IndexBlockSize + 1
                                           .. Min({block * IndexBlockSize, Len(list)})}
    IN [block \in 1 .. Blocks(Len(list)) |->
            IF block <= first THEN maxEnds[block] ELSE Max(before \union ends(block))]

\* A deque moves the elements in front of the new one if they are fewer than half.
MovesFront(row, p) == p = 1 \/ p - 1 < Len(row.list) \div 2

Emplaced(row, ann) ==
    LET p == RowPosition(row, ann)
        list == InsertAt(row.list, p, ann)
        end == Max({ann.end} \union (IF row.maxEnds = <<>> THEN {} ELSE {Last(row.maxEnds)}))
    IN IF OutOfOrder(row, ann)
       THEN [list |-> list, latest |-> row.latest,
             base |-> IF MovesFront(row, p) THEN row.base - 1 ELSE row.base,
             maxEnds |-> Reindexed(row.maxEnds, list, p)]
       ELSE [list |-> list, latest |-> ann.start, base |-> row.base,
             maxEnds |-> IF Blocks(Len(list)) > Len(row.maxEnds)
                         THEN Append(row.maxEnds, end)
                         ELSE [row.maxEnds EXCEPT ![Len(row.maxEnds)] = end]]

Visible(ann) == ann.class \notin hidden

\* get_annotation_subset: the positions in a row of what is drawn between two samples;
\* limit 0 is none.  It searches for the end by bisection, that is, for a sorted row.
Subset(r, from, to, limit) ==
    LET list == rows[r].list
        classes == {c \in Classes : RowOf[c] = r}
        skipped == Cardinality({b \in DOMAIN rows[r].maxEnds : rows[r].maxEnds[b] <= from})
        first == Min({skipped * IndexBlockSize, Len(list)})
        last == first + Cardinality({i \in DOMAIN list : i > first /\ list[i].start <= to})
        stride == IF hidden \intersect classes = {} /\ limit > 0 /\ last - first > limit
                  THEN (last - first + limit - 1) \div limit
                  ELSE 1
    IN {k \in first + 1 .. last : /\ (k - first - 1) % stride = 0
                                  /\ list[k].end > from /\ Visible(list[k])}

-----------------------------------------------------------------------------
(* annotation_callback, called by libsigrokdecode on the decode thread. *)

At(rowData, pointer) == rowData[pointer.row].list[pointer.place - rowData[pointer.row].base + 1]

Length(ann) == ann.end - ann.start

\* A new annotation is placed among the others only if it starts earlier, and is longer,
\* than the last; which are looked at after its row has moved.
ListPosition(rowData, ann) ==
    LET ComesLater(other) ==
            \/ ann.start < other.start
            \/ ann.start = other.start /\ Length(ann) > Length(other)
        last == At(rowData, Last(all))
    IN IF all # <<>> /\ ann.start < last.start /\ Length(ann) > Length(last)
       THEN InsertPosition({i \in DOMAIN all : ~ComesLater(At(rowData, all[i]))})
       ELSE Len(all) + 1

\* Mutant: one pointer too few.
RenumberedShort(pointers, rowData, r, p) ==
    LET Rank(i) == Cardinality({j \in 1 .. i : pointers[j].row = r})
    IN [i \in DOMAIN pointers |->
            IF pointers[i].row = r /\ Rank(i) > p
            THEN [row |-> r, place |-> rowData[r].base + Rank(i) - 1]
            ELSE pointers[i]]

\* The pointers to row r from its p-th one on are dealt out anew, in the order of the row.
Renumbered(pointers, rowData, r, p) ==
    LET Rank(i) == Cardinality({j \in 1 .. i : pointers[j].row = r})
    IN [i \in DOMAIN pointers |->
            IF pointers[i].row = r /\ Rank(i) >= p
            THEN [row |-> r, place |-> rowData[r].base + Rank(i) - 1]
            ELSE pointers[i]]

AnnotationCallback(ann) ==
    LET r == RowOf[ann.class]
        p == RowPosition(rows[r], ann)
        rowData == [rows EXCEPT ![r] = Emplaced(@, ann)]
        pointer == [row |-> r, place |-> rowData[r].base + p - 1]
        listed == InsertAt(all, ListPosition(rowData, ann), pointer)
    IN /\ Len(all) < MaxAnnotations
       /\ rows' = rowData
       /\ all' = IF p <= Len(rows[r].list) THEN Renumbered(listed, rowData, r, p) ELSE listed
       /\ mislaid' = (mislaid \/ (OutOfOrder(rows[r], ann) /\ p # 1 /\ MovesFront(rows[r], p)))
       /\ UNCHANGED hidden

\* Is it put among, rather than behind, those that are there?
PutAmong(ann) ==
    \/ OutOfOrder(rows[RowOf[ann.class]], ann)
    \/ ListPosition([rows EXCEPT ![RowOf[ann.class]] = Emplaced(@, ann)], ann) <= Len(all)

\* reset_decode clears the segments.
ClearAnnotations ==
    /\ rows' = [r \in Rows |-> NoAnnotations] /\ all' = <<>>
    /\ mislaid' = FALSE /\ UNCHANGED hidden
=============================================================================
