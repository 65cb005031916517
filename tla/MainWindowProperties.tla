------------------------ MODULE MainWindowProperties ------------------------
(***************************************************************************)
(* What makes the main window's bookkeeping correct.                       *)
(***************************************************************************)
EXTENDS MainWindow

\* However slots nest, a session is in the list exactly if it has a window, a tab and an
\* entry in the registry: a client can name what the user sees, and nothing else.
ListsAgree ==
    ~crashed =>
        /\ ToSet(sessions) = windows
        /\ ToSet(tabs) = windows /\ IsInjective(tabs)
        /\ Registered(registry) = windows

\* The tab shown, the session last focused (which run/stop and the shortcuts act on)
\* and the session that tools default to are one and the same.
FocusAgrees ==
    ~crashed =>
        /\ lastFocused = current
        /\ registry.active = IdOf(registry, lastFocused)
        /\ current = NoSession <=> tabs = <<>>

\* Once the announcements of the focused session are delivered, the run/stop button
\* shows what a click on it would do, unless it was last set for a session that a tool
\* held beyond its removal.
ButtonTellsState ==
    lastFocused # NoSession /\ posted[lastFocused] = 0 /\ ~strayed => button = Running(lastFocused)

\* A write that names a session and passes the test of its generation acts on the
\* session that was read, however addresses are reused; and unless announcements made
\* since the read are still on their way to the main window, the capture is in the
\* state that was read.
WritesWhatWasRead == ~misdirected

\* Ids are not given twice: the session behind an id is the one it was given to until
\* that is removed, and none afterwards.
IdsAreForever ==
    [][\A s \in Registered(registry)' :
          IF s \in Registered(registry) THEN IdOf(registry, s)' = IdOf(registry, s)
                                        ELSE IdOf(registry, s)' >= registry.next]_windowVars
=============================================================================
