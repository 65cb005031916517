----------------------------- MODULE McpServer ------------------------------
(***************************************************************************)
(* The MCP server inside PulseView (pv/mcp/server.cpp, connection.cpp and  *)
(* protocol.cpp): how instances of PulseView share one socket path, and    *)
(* how each serves its connections from the one GUI thread.                *)
(*                                                                         *)
(* Read_messages runs until its input is used up.  A tool that waits       *)
(* (start_capture, save_session) runs a nested event loop; that loop       *)
(* excludes sockets, but a session tab closed in it runs another one       *)
(* (MainWindow::remove_session) that does not, so that a second connection *)
(* can be served inside the first one's tool call: hence a stack.          *)
(***************************************************************************)
EXTENDS Naturals, Sequences, SequencesExt, FiniteSets

CONSTANTS
    Instances,      \* processes of PulseView, in the order they can be started
    Clients,        \* bridges, and programs that connect themselves
    Requests,
    NoRequest,      \* a reply that names no request, or no tool call running
    Nobody,         \* no socket file, no peer
    Kind,           \* what each request is
    MaxStarts,      \* bound: starts of instances
    MaxNesting      \* bound: tool calls inside each other

Kinds == {"call", "listing", "malformed", "note", "garbage", "oversize"}

ASSUME McpAssumption ==
    /\ Kind \in [Requests -> Kinds]
    /\ NoRequest \notin Requests /\ Nobody \notin Instances
    /\ MaxStarts \in Nat /\ MaxNesting \in Nat

VARIABLES
    phase,          \* per instance: "off", "free" or "stale" in listen(), "listening", "deaf"
    path,           \* the instance whose listen() made the socket file, or Nobody
    starts,
    home,           \* per client: the instance its connection is with, or Nobody
    to, from,       \* per client: what is on the way to the server, and back
    input, unsent,  \* of each Connection: messages read, replies not yet written
    closing,        \* connections that were rejected and are being closed
    readers,        \* per instance: connections in read_messages, innermost last
    running,        \* per connection: the request whose tool is running
    executed        \* history: requests handed to a tool

pathVars   == <<phase, path, starts>>
linkVars   == <<home, to, from>>
serverVars == <<input, unsent, closing, readers, running, executed>>

McpServerInit ==
    /\ phase = [p \in Instances |-> "off"] /\ path = Nobody /\ starts = 0
    /\ home = [c \in Clients |-> Nobody]
    /\ to = [c \in Clients |-> <<>>] /\ from = [c \in Clients |-> <<>>]
    /\ input = [c \in Clients |-> <<>>] /\ unsent = [c \in Clients |-> <<>>]
    /\ closing = [c \in Clients |-> FALSE]
    /\ readers = [p \in Instances |-> <<>>]
    /\ running = [c \in Clients |-> NoRequest]
    /\ executed = {}

-----------------------------------------------------------------------------
(* The socket path.  listen() asks whether somebody answers there, removes *)
(* what it takes for a stale file, and binds; another process can do the   *)
(* same in between.                                                        *)

Reachable == path # Nobody /\ phase[path] = "listening"

\* listen(): nothing is at the path, somebody answers there, or the file is stale.
Probe(p) ==
    /\ phase[p] = "off" /\ starts < MaxStarts
    /\ starts' = starts + 1
    /\ phase' = [phase EXCEPT ![p] = IF path = Nobody THEN "free" ELSE IF Reachable THEN "deaf" ELSE "stale"]
    /\ UNCHANGED <<path, linkVars, serverVars>>

\* removeServer(): whatever is there by now.
RemoveStale(p) ==
    /\ phase[p] = "stale"
    /\ phase' = [phase EXCEPT ![p] = "free"]
    /\ path' = Nobody
    /\ UNCHANGED <<starts, linkVars, serverVars>>

\* bind() fails if a file has appeared since.
Bind(p) ==
    /\ phase[p] = "free"
    /\ phase' = [phase EXCEPT ![p] = IF path = Nobody THEN "listening" ELSE "deaf"]
    /\ path' = IF path = Nobody THEN p ELSE path
    /\ UNCHANGED <<starts, linkVars, serverVars>>

\* What becomes of the connections of an instance that ends.  Replies that were
\* written to the socket still arrive; those in the write buffer are lost.
ConnectionsEnd(p) ==
    LET Of(c) == home[c] = p IN
    /\ home' = [c \in Clients |-> IF Of(c) THEN Nobody ELSE home[c]]
    /\ to' = [c \in Clients |-> IF Of(c) THEN <<>> ELSE to[c]]
    /\ input' = [c \in Clients |-> IF Of(c) THEN <<>> ELSE input[c]]
    /\ unsent' = [c \in Clients |-> IF Of(c) THEN <<>> ELSE unsent[c]]
    /\ closing' = [c \in Clients |-> ~Of(c) /\ closing[c]]
    /\ running' = [c \in Clients |-> IF Of(c) THEN NoRequest ELSE running[c]]
    /\ readers' = [readers EXCEPT ![p] = <<>>]
    /\ UNCHANGED <<from, executed>>

\* ~Server removes the file at its path, whether it listens there or not.
Quit(p) ==
    /\ phase[p] \in {"listening", "deaf"} /\ readers[p] = <<>>
    /\ phase' = [phase EXCEPT ![p] = "off"]
    /\ path' = Nobody
    /\ ConnectionsEnd(p)
    /\ UNCHANGED starts

Crash(p) ==
    /\ phase[p] # "off"
    /\ phase' = [phase EXCEPT ![p] = "off"]
    /\ ConnectionsEnd(p)
    /\ UNCHANGED <<path, starts>>

-----------------------------------------------------------------------------
(* Connection and Protocol. *)

Innermost(p) == Last(readers[p])

\* The GUI thread of p is in an event loop that serves sockets.
Serves(p) ==
    readers[p] # <<>> => running[Innermost(p)] # NoRequest /\ Len(readers[p]) <= MaxNesting

\* reject(): a reply without id, then disconnectFromServer(); nothing more is read.
Reject(c) ==
    /\ unsent' = [unsent EXCEPT ![c] = Append(@, [req |-> NoRequest, ans |-> "refused"])]
    /\ closing' = [closing EXCEPT ![c] = TRUE]

\* read_messages(): readAll() returns what has arrived so far.  The size limit is
\* tested on all of it, before the first message is handled.
ReadMessages(p, c) ==
    /\ home[c] = p /\ ~closing[c]
    /\ Serves(p) /\ c \notin ToSet(readers[p])
    /\ \E n \in 1..Len(to[c]) :
        LET arrived == SubSeq(to[c], 1, n) IN
        /\ to' = [to EXCEPT ![c] = SubSeq(@, n + 1, Len(@))]
        /\ IF \E i \in 1..n : Kind[arrived[i]] = "oversize"
           THEN Reject(c) /\ UNCHANGED <<input, readers>>
           ELSE /\ input' = [input EXCEPT ![c] = arrived]
                /\ readers' = [readers EXCEPT ![p] = Append(@, c)]
                /\ UNCHANGED <<unsent, closing>>
    /\ UNCHANGED <<pathVars, home, from, running, executed>>

\* send(): into the write buffer of the socket.
Send(c, r, a) == unsent' = [unsent EXCEPT ![c] = Append(@, [req |-> r, ans |-> a])]

Leave(p) == readers' = [readers EXCEPT ![p] = Front(@)]

\* The next message of the innermost read_messages(), up to the reply, or up to the
\* wait in a tool.
HandleMessage(p) ==
    /\ readers[p] # <<>>
    /\ LET c == Innermost(p) IN
        /\ running[c] = NoRequest /\ input[c] # <<>>
        /\ LET r == Head(input[c]) IN
            /\ input' = [input EXCEPT ![c] = Tail(@)]
            /\ CASE Kind[r] = "garbage"   -> Reject(c) /\ Leave(p) /\ UNCHANGED <<running, executed>>
                 [] Kind[r] = "note"      -> UNCHANGED <<unsent, closing, readers, running, executed>>
                 [] Kind[r] = "malformed" -> Send(c, r, "refused") /\ UNCHANGED <<closing, readers, running, executed>>
                 [] Kind[r] = "listing"   -> Send(c, r, "info") /\ UNCHANGED <<closing, readers, running, executed>>
                 [] OTHER                 -> /\ running' = [running EXCEPT ![c] = r]
                                             /\ executed' = executed \union {r}
                                             /\ UNCHANGED <<unsent, closing, readers>>
    /\ UNCHANGED <<pathVars, linkVars>>

\* The tool returns, with a result or an error of its own.
ToolReturns(p) ==
    /\ readers[p] # <<>>
    /\ LET c == Innermost(p) IN
        /\ running[c] # NoRequest
        /\ Send(c, running[c], "result")
        /\ running' = [running EXCEPT ![c] = NoRequest]
    /\ UNCHANGED <<pathVars, linkVars, input, closing, readers, executed>>

\* The buffer holds no further message: back to the event loop.
ReadDone(p) ==
    /\ readers[p] # <<>>
    /\ running[Innermost(p)] = NoRequest /\ input[Innermost(p)] = <<>>
    /\ Leave(p)
    /\ UNCHANGED <<pathVars, linkVars, input, unsent, closing, running, executed>>

\* The event loop writes the buffer to the socket.
WriteReplies(p, c) ==
    /\ home[c] = p /\ Serves(p) /\ unsent[c] # <<>>
    /\ from' = [from EXCEPT ![c] = @ \o unsent[c]]
    /\ unsent' = [unsent EXCEPT ![c] = <<>>]
    /\ UNCHANGED <<pathVars, home, to, input, closing, readers, running, executed>>

\* A rejected connection is closed once its replies are written.
CloseRejected(p, c) ==
    /\ home[c] = p /\ Serves(p) /\ closing[c] /\ unsent[c] = <<>>
    /\ c \notin ToSet(readers[p])
    /\ home' = [home EXCEPT ![c] = Nobody]
    /\ to' = [to EXCEPT ![c] = <<>>] /\ input' = [input EXCEPT ![c] = <<>>]
    /\ closing' = [closing EXCEPT ![c] = FALSE]
    /\ UNCHANGED <<pathVars, from, unsent, readers, running, executed>>

ServeStep(p) ==
    \/ HandleMessage(p) \/ ToolReturns(p) \/ ReadDone(p)
    \/ \E c \in Clients : ReadMessages(p, c) \/ WriteReplies(p, c) \/ CloseRejected(p, c)

InstanceStep(p) == Probe(p) \/ RemoveStale(p) \/ Bind(p) \/ Quit(p) \/ Crash(p)
=============================================================================
