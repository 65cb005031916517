--------------------------- MODULE SampleSequence ---------------------------
(***************************************************************************)
(* What a segment promises to those who read it: a sequence of samples to  *)
(* which packets are appended whole or not at all.  Once memory has run    *)
(* out, later packets may be stored wrongly, but nothing that was readable *)
(* before ever changes.                                                    *)
(***************************************************************************)
EXTENDS Naturals, Sequences

CONSTANT Values
VARIABLES samples,    \* what readers see
          incoming,   \* the packet being appended, or <<>>
          failed      \* has memory run out?

Init == samples = <<>> /\ incoming = <<>> /\ failed = FALSE

Offer ==
    /\ incoming = <<>>
    /\ incoming' \in Seq(Values) \ {<<>>}
    /\ UNCHANGED <<samples, failed>>

Accept ==
    /\ incoming # <<>>
    /\ \E stored \in [DOMAIN incoming -> Values] :
            /\ failed \/ stored = incoming
            /\ samples' = samples \o stored
    /\ incoming' = <<>>
    /\ UNCHANGED failed

Drop ==
    /\ incoming # <<>>
    /\ incoming' = <<>> /\ failed' = TRUE
    /\ UNCHANGED samples

Next == Offer \/ Accept \/ Drop

Spec == Init /\ [][Next]_<<samples, incoming, failed>>
=============================================================================
