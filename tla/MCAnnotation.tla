---------------------------- MODULE MCAnnotation ----------------------------
(* Instances of AnnotationProperties for TLC. *)
EXTENDS AnnotationProperties

CONSTANTS bits, bytes, bit, byte, frame

\* Bytes, and frames of bytes, share a row.
ClassRows == [c \in Classes |-> IF c = bit THEN bits ELSE bytes]

Starting(starts, length) == {[start |-> s, end |-> s + length] : s \in starts}

AnnotationRanges ==
    [c \in Classes |-> CASE c = bit   -> Starting(0 .. 2, 1)
                         [] c = byte  -> Starting(0 .. 1, 2)
                         [] c = frame -> Starting({0}, 4)]

AnnotationWindows == {[from |-> s, to |-> e] : s \in 0 .. 3, e \in {1, 3}}

TableFilters ==
    {[classes |-> Classes, from |-> 0, to |-> 4], [classes |-> {byte}, from |-> 2, to |-> 2]}
=============================================================================
