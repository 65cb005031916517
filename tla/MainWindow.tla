----------------------------- MODULE MainWindow -----------------------------
(***************************************************************************)
(* Sessions as the main window keeps them (pv/mainwindow.cpp): a list, a   *)
(* window and a tab for each, the focused one, the run/stop button, and    *)
(* the registry by which an MCP client names them.                         *)
(*                                                                         *)
(* The GUI thread runs one slot at a time, except inside remove_session,   *)
(* which processes events half-way so that the last state change of the    *)
(* session is delivered: everything the user and the client can do may     *)
(* happen there as well, another remove_session included.                  *)
(***************************************************************************)
EXTENDS SessionRegistry, Sequences, SequencesExt

CONSTANTS
    Addresses,          \* where Session objects can live
    MaxSessions,        \* bound: sessions added
    MaxChanges,         \* bound: changes of names, devices and views
    MaxCaptures,        \* bound: captures started
    MaxNested           \* bound: remove_session inside each other

ASSUME WindowAssumption ==
    /\ NoSession \notin Addresses
    /\ {MaxSessions, MaxChanges, MaxCaptures, MaxNested} \subseteq Nat

VARIABLES
    sessions,           \* sessions_, in order of creation
    windows,            \* those with a window in session_windows_
    tabs, current,      \* the tabs in their order, and the one shown
    lastFocused,        \* last_focused_session_
    registry,           \* mcp_session_registry_
    frames,             \* slots and tools that process events, innermost last
    crashed,            \* an exception left a slot
    closed,             \* the window was closed; ~MainWindow removes all sessions
    capture,            \* per session: "idle", "starting" or "running"
    posted,             \* per session: capture_state_changed due and not yet delivered
    button,             \* does the run/stop button say "Stop"?
    strayed,            \* history: it was last set for a session that is not in the list
    captures, changes,  \* counters for the bounds
    seen,               \* the client's last get_session, and what was posted then
    misdirected         \* history: a write that named its session hit what was not read

listVars    == <<sessions, windows, tabs, current, lastFocused>>
captureVars == <<capture, posted, captures>>
mcpVars     == <<seen, misdirected>>
controlVars == <<frames, crashed, closed>>
buttonVars  == <<button, strayed>>
windowVars  == <<listVars, registry, controlVars, captureVars, buttonVars, changes, mcpVars>>

NothingSeen == [id |-> 0, generation |-> 0, running |-> FALSE, posted |-> 0]

WindowInit ==
    /\ sessions = <<>> /\ windows = {} /\ tabs = <<>>
    /\ current = NoSession /\ lastFocused = NoSession
    /\ registry = EmptyRegistry
    /\ frames = <<>> /\ crashed = FALSE /\ closed = FALSE
    /\ capture = [s \in Addresses |-> "idle"] /\ posted = [s \in Addresses |-> 0] /\ captures = 0
    /\ button = FALSE /\ strayed = FALSE /\ changes = 0
    /\ seen = NothingSeen /\ misdirected = FALSE

\* The user and the client can act, be it in an event loop inside some slot.
EventLoop == ~crashed /\ ~closed

\* A frame of remove_session, called from a tab's close button, the close button of a
\* main view or ~MainWindow; or of a tool that waits.  Frames share their session.
Frame(slot, s) == [slot |-> slot, session |-> s]

Frames(slots) == SelectSeq(frames, LAMBDA f : f.slot \in slots)

Removing == Frames({"tab", "view", "destructor"})

\* A Session object lives while the list or some frame refers to it.
Owned(s, list, stack) == s \in ToSet(list) \/ \E i \in DOMAIN stack : stack[i].session = s

Alive(s) == Owned(s, sessions, frames)

Running(s) == capture[s] = "running"

-----------------------------------------------------------------------------
\* on_focused_session_changed(), for a registry that the caller may have changed.
FocusIn(reg, s, isRunning) ==
    /\ lastFocused' = s
    /\ registry' = Activate(reg, s)
    /\ button' = isRunning /\ strayed' = FALSE

\* add_session(): the new tab becomes the current one.
AddSession(s) ==
    /\ EventLoop /\ ~Alive(s) /\ registry.next <= MaxSessions
    /\ sessions' = Append(sessions, s)
    /\ windows' = windows \union {s}
    /\ tabs' = Append(tabs, s) /\ current' = s
    /\ capture' = [capture EXCEPT ![s] = "idle"] /\ posted' = [posted EXCEPT ![s] = 0]
    /\ FocusIn(AddEntry(registry, s), s, FALSE)
    /\ UNCHANGED <<captures, controlVars, changes, mcpVars>>

\* on_tab_changed(), after a click on a tab; on_focus_changed(), after a click into a
\* floating view of a session in another tab, which switches to that tab first.
SwitchTo(s) ==
    /\ EventLoop
    /\ s \in ToSet(tabs) /\ s # current
    /\ current' = s
    /\ FocusIn(registry, s, Running(s))
    /\ UNCHANGED <<sessions, windows, tabs, controlVars, captureVars, changes, mcpVars>>

\* Mutant: the button follows every session.
ShownByAll(s) == TRUE

\* The button belongs to the focused session, or to the only one.
Shown(s) == Len(sessions) <= 1 \/ s = lastFocused

\* update_acq_button() for a session that announces something: the state found now.
ShowState(s) ==
    IF Shown(s) THEN button' = Running(s) /\ strayed' = (s \notin ToSet(sessions))
                ELSE UNCHANGED buttonVars

\* name_changed, device_changed and view_context_changed reach the main window at once;
\* device_changed sets the button as well.  Names and devices are not told apart here:
\* what counts is the generation.  (Much of what get_session reports is not announced
\* at all, such as channels, decoders, the configuration, data_saved and the path.)
ChangeSession(s) ==
    /\ EventLoop /\ Alive(s) /\ changes < MaxChanges
    /\ changes' = changes + 1
    /\ registry' = Bump(registry, s)
    /\ UNCHANGED buttonVars \/ ShowState(s)
    /\ UNCHANGED <<listVars, controlVars, captureVars, mcpVars>>

-----------------------------------------------------------------------------
(* Captures.  A session runs its own thread; see Session. *)

\* Every step of a capture announces the new state; so does the thread that stops.
Announced(c, s) == CASE c[s] = "idle" -> 0 [] c[s] = "running" -> 1 [] OTHER -> 2

\* start_capture() and stop_capture() of the sessions in S; both wait for the thread
\* of an earlier capture first.
SetCapturing(S, on) ==
    /\ capture' = [s \in Addresses |-> IF s \in S THEN (IF on THEN "starting" ELSE "idle") ELSE capture[s]]
    /\ posted' = [s \in Addresses |-> IF s \in S THEN posted[s] + Announced(capture, s) ELSE posted[s]]

\* on_run_stop_clicked(), for the focused session or for all of them.
RunStop(all) ==
    /\ EventLoop /\ lastFocused # NoSession
    /\ LET targets == IF all THEN ToSet(sessions) ELSE {lastFocused}
           on == \A s \in targets : ~Running(s)
       IN /\ on => captures < MaxCaptures
          /\ captures' = IF on THEN captures + 1 ELSE captures
          /\ SetCapturing(targets, on)
    /\ UNCHANGED <<listVars, registry, controlVars, buttonVars, changes, mcpVars>>

CaptureRuns(s) ==
    /\ capture[s] = "starting" /\ Alive(s)
    /\ capture' = [capture EXCEPT ![s] = "running"]
    /\ posted' = [posted EXCEPT ![s] = @ + 1]
    /\ UNCHANGED <<listVars, registry, controlVars, captures, buttonVars, changes, mcpVars>>

CaptureEnds(s) ==
    /\ capture[s] = "running" /\ Alive(s)
    /\ capture' = [capture EXCEPT ![s] = "idle"]
    /\ posted' = [posted EXCEPT ![s] = @ + 1]
    /\ UNCHANGED <<listVars, registry, controlVars, captures, buttonVars, changes, mcpVars>>

\* on_session_capture_state_changed()
DeliverState(s) ==
    /\ ~crashed /\ posted[s] > 0 /\ Alive(s)
    /\ posted' = [posted EXCEPT ![s] = @ - 1]
    /\ registry' = Bump(registry, s)
    /\ ShowState(s)
    /\ UNCHANGED <<listVars, controlVars, capture, captures, changes, mcpVars>>

-----------------------------------------------------------------------------
(* remove_session(). *)

\* It stops the capture and processes events, among them the announcement of that.
\* (Tabs and main views ask before unsaved data are lost; the answer was yes.)
RemoveBegins(slot, s) ==
    /\ ~crashed /\ s \in ToSet(sessions) /\ Len(Removing) <= MaxNested
    /\ IF closed THEN slot = "destructor" /\ frames = <<>> /\ s = Head(sessions)
                 ELSE slot \in {"tab", "view"}
    /\ frames' = Append(frames, Frame(slot, s))
    /\ SetCapturing({s}, FALSE)
    /\ UNCHANGED <<listVars, registry, crashed, closed, captures, buttonVars, changes, mcpVars>>

\* A list of distinct sessions without s.
Position(list, s) == CHOOSE i \in DOMAIN list : list[i] = s

Without(list, s) == RemoveAt(list, Position(list, s))

\* The tab that QTabWidget shows once s is gone: the right neighbour of the current
\* one, or the last.
Neighbour(s) ==
    LET i == Position(tabs, s)
        rest == Without(tabs, s)
    IN IF current # s THEN current
       ELSE IF rest = <<>> THEN NoSession ELSE IF i <= Len(rest) THEN rest[i] ELSE Last(rest)

\* It emits currentChanged if the index of the current tab changes or refers to another.
CurrentChanges(s) ==
    /\ Len(tabs) > 1
    /\ \E i, j \in DOMAIN tabs : i <= j /\ tabs[i] = s /\ tabs[j] = current

\* A session whose last reference goes stops its capture and drops what it has posted.
Released(s, list, stack) ==
    /\ capture' = IF Owned(s, list, stack) THEN capture ELSE [capture EXCEPT ![s] = "idle"]
    /\ posted' = IF Owned(s, list, stack) THEN posted ELSE [posted EXCEPT ![s] = 0]

\* Mutant: the session stays in session_windows_.
WithoutWindowKept(s) == windows

WithoutWindow(s) == windows \ {s}

\* The events have been processed.  session_windows_.at() throws if somebody has
\* removed the session meanwhile.  Otherwise everything that belongs to it goes, and a
\* change of the current tab focuses another session.  (Focus events from the views
\* that go can bring about the same change a little earlier.)
RemoveEnds ==
    /\ ~crashed /\ frames # <<>> /\ Last(frames).slot \in {"tab", "view", "destructor"}
    /\ LET s == Last(frames).session IN
        /\ posted[s] = 0
        /\ IF s \notin windows
           THEN crashed' = TRUE /\ UNCHANGED <<listVars, registry, frames, capture, posted, buttonVars>>
           ELSE /\ frames' = Front(frames)
                /\ sessions' = Without(sessions, s)
                /\ tabs' = Without(tabs, s)
                /\ windows' = WithoutWindow(s)
                /\ current' = Neighbour(s)
                /\ IF CurrentChanges(s)
                   THEN FocusIn(RemoveEntry(registry, s), current', Running(current'))
                   ELSE /\ lastFocused' = IF lastFocused = s THEN NoSession ELSE lastFocused
                        /\ registry' = RemoveEntry(registry, s)
                        \* on_tab_close_requested() only: no session is left
                        /\ button' = (button /\ (sessions' = <<>> => Last(frames).slot # "tab"))
                        /\ UNCHANGED strayed
                /\ Released(s, sessions', frames')
                /\ UNCHANGED crashed
    /\ UNCHANGED <<closed, captures, changes, mcpVars>>

\* closeEvent(), confirmed.  The event loop ends when the slots inside it have
\* returned; ~MainWindow then removes all sessions.
CloseWindow ==
    /\ EventLoop
    /\ closed' = TRUE
    /\ UNCHANGED <<listVars, registry, frames, crashed, captureVars, buttonVars, changes, mcpVars>>

-----------------------------------------------------------------------------
(* The MCP client: reads, and writes on the strength of what it has read.   *)
(* A tool call excludes others, unless it waits while a tab is closed.      *)

ToolMayRun == EventLoop /\ (Frames({"tool"}) # <<>> => Last(frames).slot # "tool")

\* get_session, for the active session or for one by its id.  Of all it reports, the
\* state of the capture is what another thread changes under the client.
GetSession(s) ==
    /\ ToolMayRun /\ s \in Registered(registry)
    /\ seen' = [id |-> registry.entries[s].id, generation |-> registry.entries[s].generation,
                running |-> Running(s), posted |-> posted[s]]
    /\ UNCHANGED <<listVars, registry, controlVars, captureVars, buttonVars, changes, misdirected>>

\* resolve_session() for the id read, or for none, which means the active session.
Target(explicit) == Resolve(registry, IF explicit THEN seen.id ELSE registry.active)

\* require_generation()
Accepts(s) == s # NoSession /\ registry.entries[s].generation = seen.generation

\* Nothing has been posted since the read that is not delivered, yet the capture is in
\* another state; or the session is not the one read.
ReadAnother(s) ==
    \/ registry.entries[s].id # seen.id
    \/ posted[s] <= seen.posted /\ Running(s) # seen.running

\* A tool has accepted the generation and acts on s.  One that does not name its
\* session may hit any that is at the same generation.
ActsOn(s, explicit) == misdirected' = (misdirected \/ (explicit /\ ReadAnother(s)))

\* set_cursors, zoom_to_range, set_session, load_session: a change of the target.  Error
\* paths of set_session and start_capture return with a part of it applied and nothing
\* announced.
Write(explicit) ==
    /\ ToolMayRun /\ seen # NothingSeen /\ changes < MaxChanges
    /\ LET s == Target(explicit) IN
        /\ Accepts(s)
        /\ ActsOn(s, explicit)
        /\ registry' \in {registry, Bump(registry, s)}
    /\ changes' = changes + 1
    /\ UNCHANGED <<listVars, controlVars, captureVars, buttonVars, seen>>

\* start_capture and save_session wait, and hold the session as long as they do.
WaitingTool(explicit) ==
    /\ ToolMayRun /\ seen # NothingSeen /\ Frames({"tool"}) = <<>>
    /\ LET s == Target(explicit) IN
        /\ Accepts(s) /\ ~Running(s)
        /\ ActsOn(s, explicit)
        /\ frames' = Append(frames, Frame("tool", s))
        /\ IF captures < MaxCaptures
           THEN SetCapturing({s}, TRUE) /\ captures' = captures + 1
           ELSE UNCHANGED captureVars
    /\ UNCHANGED <<listVars, registry, crashed, closed, buttonVars, changes, seen>>

\* The capture has ended or the time is over.
ToolDone ==
    /\ ~crashed /\ frames # <<>> /\ Last(frames).slot = "tool"
    /\ frames' = Front(frames)
    /\ Released(Last(frames).session, sessions, frames')
    /\ UNCHANGED <<listVars, registry, crashed, closed, captures, buttonVars, changes, mcpVars>>

-----------------------------------------------------------------------------
WindowNext ==
    \/ \E s \in Addresses :
        \/ AddSession(s) \/ SwitchTo(s) \/ ChangeSession(s)
        \/ CaptureRuns(s) \/ CaptureEnds(s) \/ DeliverState(s)
        \/ GetSession(s)
        \/ \E slot \in {"tab", "view", "destructor"} : RemoveBegins(slot, s)
    \/ RemoveEnds \/ ToolDone \/ CloseWindow
    \/ \E all \in BOOLEAN : RunStop(all)
    \/ \E explicit \in BOOLEAN : Write(explicit) \/ WaitingTool(explicit)

WindowSpec == WindowInit /\ [][WindowNext]_windowVars
=============================================================================
