--------------------------- MODULE DecodeProgress ---------------------------
(***************************************************************************)
(* What a DecodeSignal promises to those who watch get_decoded_sample_count*)
(* (decodesignal.hpp:162-168): the segments it decodes form a list that    *)
(* only grows at its end; in the last one a range of samples is first      *)
(* announced as being processed and then reported as processed; results    *)
(* are otherwise only ever dropped all together.                           *)
(***************************************************************************)
EXTENDS Naturals, Sequences

VARIABLE result   \* per segment: samples processed, with and without the current ones

Untouched == [incl |-> 0, excl |-> 0]

Init == result = <<>>

Enter == result' = Append(result, Untouched)

Announce ==
    /\ result # <<>>
    /\ result[Len(result)].incl = result[Len(result)].excl
    /\ Len(result') = Len(result)
    /\ LET n == result'[Len(result)].incl IN
        /\ n > result[Len(result)].incl
        /\ result' = [result EXCEPT ![Len(result)].incl = n]

Deliver ==
    /\ result # <<>>
    /\ result[Len(result)].incl > result[Len(result)].excl
    /\ result' = [result EXCEPT ![Len(result)].excl = result[Len(result)].incl]

Drop == result' = <<>>

Next == Enter \/ Announce \/ Deliver \/ Drop

Spec == Init /\ [][Next]_result
=============================================================================
