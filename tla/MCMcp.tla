------------------------------- MODULE MCMcp --------------------------------
(* Instances of McpProperties for TLC. *)
EXTENDS McpProperties, TLC

CONSTANTS p1, p2, bridge, program, call1, call2, big, other, list

KindOf ==
    LET kinds == (call1 :> "call") @@ (call2 :> "call") @@ (big :> "oversize")
                 @@ (other :> "garbage") @@ (list :> "listing")
    IN [r \in Requests |-> kinds[r]]

SentBy == [r \in Requests |-> IF r \in {call1, big, list} THEN bridge ELSE program]
=============================================================================
