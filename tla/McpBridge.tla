----------------------------- MODULE McpBridge ------------------------------
(***************************************************************************)
(* The bridge (tools/pulseview-mcp/main.cpp), which gives an MCP client a  *)
(* server on stdin and stdout that outlives PulseView, composed with       *)
(* McpServer; and programs that connect to PulseView without a bridge.     *)
(***************************************************************************)
EXTENDS McpServer

CONSTANTS
    Bridged,        \* the clients behind a bridge
    Sender,         \* bound: the client that may send a request
    Leavers         \* bound: the clients that may end

ASSUME BridgeAssumption == Bridged \subseteq Clients /\ Sender \in [Requests -> Clients]

VARIABLES
    asked, answer,      \* the requests sent, and the replies the client got to each
    stdin,              \* per bridge: lines sent by the client and not yet handled
    linked,             \* per client: its socket is in the state Connected
    pending,            \* pending_ids_ of each bridge; for others, what they wait for
    left                \* clients that have closed their end for good

bridgeVars == <<asked, answer, stdin, linked, pending, left>>
vars == <<pathVars, linkVars, serverVars, bridgeVars>>

McpInit ==
    /\ McpServerInit
    /\ asked = {} /\ answer = [r \in Requests |-> <<>>]
    /\ stdin = [c \in Clients |-> <<>>] /\ pending = [c \in Clients |-> <<>>]
    /\ linked = [c \in Clients |-> FALSE] /\ left = {}

Answer(r, a) == answer' = [answer EXCEPT ![r] = Append(@, a)]

\* The client's side of a connection that succeeds; accept_connections().
Connected(c) ==
    /\ home' = [home EXCEPT ![c] = path]
    /\ linked' = [linked EXCEPT ![c] = TRUE]

-----------------------------------------------------------------------------
\* The client of a bridge sends a line.
Ask(c, r) ==
    /\ c \in Bridged \ left /\ r \notin asked /\ Sender[r] = c
    /\ asked' = asked \union {r}
    /\ stdin' = [stdin EXCEPT ![c] = Append(@, r)]
    /\ UNCHANGED <<pathVars, linkVars, serverVars, answer, linked, pending, left>>

NextLine(c, kinds) ==
    /\ c \in Bridged \ left
    /\ stdin[c] # <<>> /\ Kind[Head(stdin[c])] \in kinds
    /\ stdin' = [stdin EXCEPT ![c] = Tail(@)]

\* handle_client_message(): what the bridge answers itself or drops.
AnswerLocally(c) ==
    /\ NextLine(c, {"garbage", "note", "listing"})
    /\ LET r == Head(stdin[c]) IN
        CASE Kind[r] = "garbage" -> Answer(r, "refused")
          [] Kind[r] = "listing" -> Answer(r, "info")
          [] OTHER               -> UNCHANGED answer
    /\ UNCHANGED <<pathVars, linkVars, serverVars, asked, linked, pending, left>>

Forwarded == {"call", "malformed", "oversize"}

\* Mutant: the id is remembered only when the bridge had to connect.
AwaitedIfNew(c, r) == IF linked[c] THEN pending[c] ELSE Append(pending[c], r)

Awaited(c, r) == Append(pending[c], r)

\* ... what it forwards: pending_ids_.append(id), write.  A socket that still counts
\* as connected may have lost its peer, and with it what is written.
Forward(c) ==
    /\ NextLine(c, Forwarded)
    /\ \/ linked[c] /\ UNCHANGED <<home, linked>>
       \/ ~linked[c] /\ Reachable /\ Connected(c)
    /\ LET r == Head(stdin[c]) IN
        /\ pending' = [pending EXCEPT ![c] = Awaited(c, r)]
        /\ to' = IF home'[c] = Nobody THEN to ELSE [to EXCEPT ![c] = Append(@, r)]
    /\ UNCHANGED <<pathVars, from, serverVars, asked, answer, left>>

\* ... and ensure_backend() failing.
AnswerAbsent(c) ==
    /\ NextLine(c, Forwarded)
    /\ ~linked[c] /\ ~Reachable
    /\ Answer(Head(stdin[c]), "absent")
    /\ UNCHANGED <<pathVars, linkVars, serverVars, asked, linked, pending, left>>

\* read_backend(): a reply is passed on, its id removed from pending_ids_.
ReadBackend(c) ==
    /\ linked[c] /\ from[c] # <<>>
    /\ from' = [from EXCEPT ![c] = Tail(@)]
    /\ LET reply == Head(from[c]) IN
        IF reply.req = NoRequest THEN UNCHANGED <<answer, pending>>
        ELSE /\ Answer(reply.req, reply.ans)
             /\ pending' = [pending EXCEPT ![c] = RemoveFirst(@, reply.req)]
    /\ UNCHANGED <<pathVars, home, to, serverVars, asked, stdin, linked, left>>

\* Mutant: pending_ids_ is not cleared.
BackendDisconnectedKeeps(c) ==
    /\ linked[c] /\ home[c] = Nobody /\ from[c] = <<>>
    /\ linked' = [linked EXCEPT ![c] = FALSE]
    /\ answer' = [r \in Requests |->
                    IF c \in Bridged /\ r \in ToSet(pending[c]) THEN Append(answer[r], "gone") ELSE answer[r]]
    /\ UNCHANGED <<pathVars, linkVars, serverVars, asked, stdin, pending, left>>

\* Mutant: what is pending waits for the next connection.
BackendDisconnectedSilently(c) ==
    /\ linked[c] /\ home[c] = Nobody /\ from[c] = <<>>
    /\ linked' = [linked EXCEPT ![c] = FALSE]
    /\ pending' = [pending EXCEPT ![c] = <<>>]
    /\ UNCHANGED <<pathVars, linkVars, serverVars, asked, answer, stdin, left>>

\* The peer has closed and everything it wrote was read: backend_disconnected()
\* answers what is pending.  Without a bridge there is nobody to do that.
BackendDisconnected(c) ==
    /\ linked[c] /\ home[c] = Nobody /\ from[c] = <<>>
    /\ linked' = [linked EXCEPT ![c] = FALSE]
    /\ pending' = [pending EXCEPT ![c] = <<>>]
    /\ answer' = [r \in Requests |->
                    IF c \in Bridged /\ r \in ToSet(pending[c]) THEN Append(answer[r], "gone") ELSE answer[r]]
    /\ UNCHANGED <<pathVars, linkVars, serverVars, asked, stdin, left>>

\* A program without bridge connects, and sends.
ConnectDirectly(c) ==
    /\ c \in Clients \ (Bridged \union left)
    /\ ~linked[c] /\ Reachable
    /\ Connected(c)
    /\ UNCHANGED <<pathVars, to, from, serverVars, asked, answer, stdin, pending, left>>

SendDirectly(c, r) ==
    /\ c \notin Bridged /\ linked[c] /\ r \notin asked /\ Sender[r] = c
    /\ asked' = asked \union {r}
    /\ pending' = [pending EXCEPT ![c] = Append(@, r)]
    /\ to' = IF home[c] = Nobody THEN to ELSE [to EXCEPT ![c] = Append(@, r)]
    /\ UNCHANGED <<pathVars, home, from, serverVars, answer, stdin, linked, left>>

\* End of file on stdin quits the bridge: nobody waits for answers any more.  The
\* server finds the connection closed when it has read what was sent.
ClientLeaves(c) ==
    /\ c \in Leavers \ left
    /\ left' = left \union {c}
    /\ linked' = [linked EXCEPT ![c] = FALSE]
    /\ stdin' = [stdin EXCEPT ![c] = <<>>] /\ pending' = [pending EXCEPT ![c] = <<>>]
    /\ UNCHANGED <<pathVars, linkVars, serverVars, asked, answer>>

\* Connection: disconnected() -> deleteLater().
PeerGone(p, c) ==
    /\ home[c] = p /\ c \in left /\ Serves(p)
    /\ to[c] = <<>> /\ c \notin ToSet(readers[p])
    /\ home' = [home EXCEPT ![c] = Nobody]
    /\ unsent' = [unsent EXCEPT ![c] = <<>>] /\ closing' = [closing EXCEPT ![c] = FALSE]
    /\ UNCHANGED <<pathVars, to, from, input, readers, running, executed, bridgeVars>>

-----------------------------------------------------------------------------
BridgeStep(c) ==
    AnswerLocally(c) \/ Forward(c) \/ AnswerAbsent(c) \/ ReadBackend(c) \/ BackendDisconnected(c)

ClientStep(c) ==
    \/ \E r \in Requests : Ask(c, r) \/ SendDirectly(c, r)
    \/ ConnectDirectly(c) \/ ClientLeaves(c)

McpNext ==
    \/ \E p \in Instances : (InstanceStep(p) \/ ServeStep(p)) /\ UNCHANGED bridgeVars
    \/ \E p \in Instances, c \in Clients : PeerGone(p, c)
    \/ \E c \in Clients : BridgeStep(c) \/ ClientStep(c)

McpSpec == McpInit /\ [][McpNext]_vars

\* The event loops of the bridge and of PulseView run, each ready socket gets its
\* turn, and tools return.  Nothing is assumed of clients, starts, ends and crashes.
FairMcpSpec ==
    /\ McpSpec
    /\ \A c \in Clients : WF_vars(BridgeStep(c))
    /\ \A p \in Instances :
        /\ WF_vars((HandleMessage(p) \/ ToolReturns(p) \/ ReadDone(p)) /\ UNCHANGED bridgeVars)
        /\ \A c \in Clients :
            /\ WF_vars(ReadMessages(p, c) /\ UNCHANGED bridgeVars)
            /\ WF_vars(WriteReplies(p, c) /\ UNCHANGED bridgeVars)
            /\ WF_vars(CloseRejected(p, c) /\ UNCHANGED bridgeVars)
=============================================================================
