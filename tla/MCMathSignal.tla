---------------------------- MODULE MCMathSignal ----------------------------
(* Instances of MathProperties for TLC. *)
EXTENDS MathProperties

CONSTANTS A, B

\* Both signals as variables, none at all, one in sample(), and the signal itself.
AllKinds ==
    {[scalars |-> {A, B}, call |-> NoCall], [scalars |-> {}, call |-> NoCall],
     [scalars |-> {}, call |-> A], [scalars |-> {A}, call |-> Self]}
=============================================================================
