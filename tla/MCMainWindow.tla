---------------------------- MODULE MCMainWindow ----------------------------
(* Instances of MainWindowProperties for TLC. *)
EXTENDS MainWindowProperties

CONSTANTS a, b

\* Where an object lives makes no difference; for the safety properties only.
AddressSymmetry == Permutations(Addresses)
=============================================================================
