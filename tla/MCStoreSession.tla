--------------------------- MODULE MCStoreSession ---------------------------
(* Instances of StoreSession for TLC. *)
EXTENDS StoreSessionProperties

CONSTANTS logic, a1

LogicAndAnalog == {logic, a1}

\* No range, and one with its cursors swapped that ends beyond the data of every
\* segment and starts beyond those of the shortest.
SomeRanges == {<<0, 0>>, <<4, 2>>}
=============================================================================
