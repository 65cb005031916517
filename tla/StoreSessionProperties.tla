---------------------- MODULE StoreSessionProperties -----------------------
(* The correctness properties of StoreSession and its users. *)
EXTENDS StoreSession, SequencesExt

\* The states the store thread and the queue of its signals may be in.
StoreTypeOK ==
    /\ xpc \in {"none", "asking", "launching", "begin", "loop", "block", "end", "zero", "zeroed", "notify",
                "done"}
    /\ mode \in {"dialog", "tool"}
    /\ kept \in [Sources -> Nat] /\ keptOf \in Nat /\ start \in Nat /\ left \in Nat
    /\ units \in Nat /\ stored \in Nat /\ wanted \in SUBSET Nat /\ written \in Seq(Nat)
    /\ interrupt \in BOOLEAN /\ xerror \in BOOLEAN
    /\ overread \in BOOLEAN /\ uneven \in BOOLEAN /\ wrapped \in BOOLEAN
    /\ signals \in Seq({"progress", "successful", "delete"}) /\ stores \in Nat

\* A file whose saving was neither cancelled nor failed holds every sample that was
\* asked for, whatever the cursors' order and the segment's end, once and in order;
\* unless the range began behind the samples there were when start() counted them, and
\* enough came before it looked again (wrapped).
StoresWhatWasAsked ==
    xpc \in {"zero", "zeroed", "notify", "done"} /\ ~interrupt /\ ~xerror /\ ~wrapped =>
        /\ Len(written) = Cardinality(wanted)
        /\ ToSet(written) = wanted
        /\ \A i \in 1 .. Len(written) - 1 : written[i] < written[i + 1]

\* The bounds assertions of Segment::get_raw_samples hold for the store thread, even
\* when the data are cleared or captured anew meanwhile, provided no source had
\* fewer samples than the one whose count was taken for all, and the range began
\* within those samples (wrapped).
ReadsWithinSegments == overread => uneven \/ wrapped

\* However late its events are served, on_progress_updated() takes only a finished
\* store for completed: it never cancels one that is still writing.
CancelsOnlyFinished ==
    [][gpc = "progress" /\ interrupt' # interrupt => xpc \in {"zeroed", "notify", "done"}]_vars

\* The GUI thread waits, in the join() of stop_capture() or in save_session.
Waiting == gpc = "join" \/ (mode = "tool" /\ xpc # "none")

\* It does not wait forever: stopping a capture returns, and so does save_session, even if
\* the format fails or the user stops, restarts or clears the capture meanwhile; unless
\* the device has not heard of a stop.
GuiReturns == []~unheard => (Waiting ~> ~Waiting \/ gpc = "close")
=============================================================================
