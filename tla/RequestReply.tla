---------------------------- MODULE RequestReply ----------------------------
(***************************************************************************)
(* What the client of a tool server may rely on.  A request is handed to a *)
(* tool at most once and answered at most once; a result comes from a tool *)
(* that ran, a refusal from one that did not; and once there is an answer, *)
(* whatever it says, the tool is not run any more: a retry is safe from    *)
(* the late arrival of the first attempt.                                  *)
(***************************************************************************)
EXTENDS Sequences

CONSTANT Requests
VARIABLES asked,      \* the requests sent
          executed,   \* those handed to a tool
          answer      \* what the client was told, reply by reply

Results  == {"result"}                          \* a tool ran
Refusals == {"info", "refused", "absent"}       \* no tool ran
Unknown  == {"gone"}                            \* the server went; it may or may not have run
Answers  == Results \union Refusals \union Unknown

Init == asked = {} /\ executed = {} /\ answer = [r \in Requests |-> <<>>]

Ask(r) ==
    /\ r \notin asked
    /\ asked' = asked \union {r}
    /\ UNCHANGED <<executed, answer>>

Execute(r) ==
    /\ r \in asked \ executed
    /\ answer[r] = <<>>
    /\ executed' = executed \union {r}
    /\ UNCHANGED <<asked, answer>>

\* When the server goes, several requests are answered at once.
Reply(rs, a) ==
    /\ rs \subseteq asked
    /\ \A r \in rs : answer[r] = <<>>
    /\ a \in Results => rs \subseteq executed
    /\ a \in Refusals => rs \intersect executed = {}
    /\ answer' = [r \in Requests |-> IF r \in rs THEN <<a>> ELSE answer[r]]
    /\ UNCHANGED <<asked, executed>>

Next ==
    \/ \E r \in Requests : Ask(r) \/ Execute(r)
    \/ \E rs \in SUBSET Requests, a \in Answers : Reply(rs, a)

Spec == Init /\ [][Next]_<<asked, executed, answer>>
=============================================================================
