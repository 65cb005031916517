--------------------------- MODULE McpProperties ----------------------------
(***************************************************************************)
(* What makes the MCP server and its bridge correct.                       *)
(***************************************************************************)
EXTENDS McpBridge

\* The bridge and the server implement RequestReply, whatever crashes, quits, is
\* rejected or reconnects in between: no request runs twice or is answered twice, a
\* result means that the tool ran and a refusal that it did not, and after any
\* answer, "PulseView disconnected" included, the tool does not run any more.
RequestReply == INSTANCE RequestReply

RequestSpec == RequestReply!Spec

\* What is in a connection, what is answered first in front: the requests that the
\* replies name, the one whose tool runs, and those that have not come to it yet.
Requested(replies) == [i \in DOMAIN replies |-> replies[i].req]

Pipeline(c) == Requested(from[c]) \o Requested(unsent[c]) \o <<running[c]>> \o input[c] \o to[c]

Answerable == {r \in Requests : Kind[r] # "note"}

Before(s, r, q) == \E i, j \in DOMAIN s : i < j /\ s[i] = r /\ s[j] = q

\* While a connection stands and was not rejected, pending_ids_ holds exactly the
\* requests that are somewhere between the bridge and the tool or on their way back,
\* each once and in that order: none is lost, none is answered by the loss of a later
\* connection, and replies cannot overtake each other.  (Notifications are dropped on
\* the way.)
PendingIsPipeline ==
    \A c \in Clients :
        home[c] # Nobody /\ linked[c] /\ ~closing[c] =>
            /\ ToSet(pending[c]) \intersect Answerable = ToSet(Pipeline(c)) \intersect Answerable
            /\ \A r, q \in Answerable : Before(pending[c], r, q) <=> Before(Pipeline(c), r, q)
            /\ \A r \in Answerable : ~Before(pending[c], r, r)

\* Every request that a client gives to its bridge is answered, be it by the loss of
\* the connection, unless the client goes.
EveryRequestAnswered ==
    \A c \in Bridged, r \in Requests :
        (r \in ToSet(stdin[c]) /\ Kind[r] # "note") ~> (answer[r] # <<>> \/ c \in left)

-----------------------------------------------------------------------------
\* "Another PulseView MCP server is already listening at %1" (server.cpp:64) refuses a
\* second instance so that the first stays reachable: an instance that listens is the
\* one clients reach.
ListenerReachable == \A p \in Instances : phase[p] = "listening" => path = p
=============================================================================
