--------------------------- MODULE MCDecodeSignal ---------------------------
(* Instances of DecodeSignal for TLC. *)
EXTENDS DecodeSignalProperties, TLC

CONSTANTS s1, s2, s3, c1, c2

OneSource  == {s1}
TwoSources == {s1, s2}

BothChannels == {c1, c2}

\* Both channels from one packed source: decoded in place.
PackedInput == {[c \in BothChannels |-> s1]}
\* The channels from different sources: decoded through the mux thread.
SplitInput == {(c1 :> s1) @@ (c2 :> s2)}
=============================================================================
