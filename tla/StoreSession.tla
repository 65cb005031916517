---------------------------- MODULE StoreSession ----------------------------
(***************************************************************************)
(* Saving captured data: pv/storesession.cpp, whose store thread writes    *)
(* the first segment of every source to a file, together with its two      *)
(* users, which run it beside the Session:                                 *)
(*   dialog   export_file() stops the capture and opens a StoreProgress    *)
(*            dialog; the user may go on with everything else.             *)
(*   tool     the MCP tool save_session polls in a nested event loop of    *)
(*            the GUI thread, which goes on serving the user.              *)
(* The output format (libsigrok) is external: it may fail.                 *)
(***************************************************************************)
EXTENDS Session

CONSTANTS
    BlockSamples,   \* samples_per_block
    WordSize,       \* 2^64: unsigned arithmetic on sample numbers
    FormatMayFail,  \* may the output format report errors?
    Ranges,         \* bound: sample ranges the cursors may select; <<0, 0>> is none
    MaxStores       \* bound: files written

ASSUME StoreAssumption ==
    /\ BlockSamples \in Nat \ {0} /\ WordSize \in Nat \ {0} /\ MaxStores \in Nat
    /\ FormatMayFail \in BOOLEAN
    /\ Ranges \subseteq Nat \X Nat
    /\ \A r \in Ranges : r[1] < WordSize /\ r[2] < WordSize

VARIABLES
    xpc,            \* start() and the store thread: where it is in store_proc
    mode,           \* who saves: "dialog" or "tool"
    kept,           \* sample counts of the segments held, one per source
    keptOf,         \* the acquisition they belong to
    any,            \* the source of any_segment
    start, left,    \* start_sample_, sample_count_
    units, stored,  \* unit_count_, units_stored_
    interrupt,      \* interrupt_
    xerror,         \* is error_ set?
    written,        \* the sample numbers in the file, in order
    wanted,         \* history: the samples asked for that there are
    uneven,         \* history: a source had fewer samples than any_segment
    wrapped,        \* history: the range began behind those samples
    signals,        \* signals of the store thread queued for the GUI thread
    seen,           \* what on_progress_updated() has read so far
    overread,       \* history: an assertion of get_raw_samples() has failed
    stores          \* files written (bounded)

fileVars  == <<kept, keptOf, any, start, left, written, wanted, uneven, wrapped>>
dialogVars == <<mode, seen>>
storeVars == <<xpc, fileVars, units, stored, interrupt, xerror, signals, dialogVars, overread, stores>>
vars == <<sessionVars, storeVars>>

-----------------------------------------------------------------------------
(* StoreSession::start()                                                   *)

Smaller(m, n) == IF m < n THEN m ELSE n

\* Mutant: the end of the range is not clamped to the samples there are.
ClampedStartOnly(r, n) ==
    LET from == Smaller(r[1], r[2])
        to   == Larger(r[1], r[2]) IN
    IF r[1] = r[2] THEN [from |-> 0, length |-> n]
                   ELSE [from |-> from, length |-> (to - from) % WordSize]

\* start_sample_ and sample_count_ for a segment of n samples.
Clamped(r, n) ==
    LET from == Smaller(r[1], r[2])
        to   == Smaller(Larger(r[1], r[2]), n) IN
    IF r[1] = r[2] THEN [from |-> 0, length |-> n]
                   ELSE [from |-> from, length |-> (to - from) % WordSize]

\* Every source has data: the range is limited to the samples that "any_segment", that
\* of the source looked at last, has now.
Start(who, r) ==
    /\ stores < MaxStores
    /\ \A s \in Sources : data[s] # <<>>
    /\ \E s \in Sources :
        LET count == data[s][1].count
            range == Clamped(r, count) IN
        /\ any' = s
        /\ start' = range.from /\ left' = range.length
        /\ wanted' = {i \in 0 .. (count - 1) : r[1] = r[2] \/ i \in Smaller(r[1], r[2]) .. (Larger(r[1], r[2]) - 1)}
        /\ uneven' = \E t \in Sources : data[t][1].count < count
        /\ wrapped' = (range.from > count)
    /\ kept' = [s \in Sources |-> data[s][1].count] /\ keptOf' = captures
    /\ xpc' = "launching" /\ gpc' = "launch" /\ mode' = who
    /\ written' = <<>> /\ units' = 0 /\ stored' = 0
    /\ interrupt' = FALSE /\ xerror' = FALSE /\ seen' = <<>>
    /\ stores' = stores + 1
    /\ UNCHANGED <<feedVars, state, saved, spc, goal, device, deviceVars, stopping, captures,
                   historyVars, signals, overread>>

\* export_file(): stop the capture, then ask for a file name and the format's options
\* while the GUI thread goes on serving others.
RequestExport ==
    /\ gpc = "idle" /\ xpc = "none"
    /\ gpc' = "stop" /\ goal' = "export"
    /\ UNCHANGED <<feedVars, state, saved, spc, device, deviceVars, stopping,
                   captures, historyVars, storeVars>>

AskUser ==
    /\ gpc = "export"
    /\ gpc' = "idle"
    /\ xpc' \in {xpc, "asking"}
    /\ UNCHANGED <<feedVars, state, saved, spc, goal, device, deviceVars, stopping, captures,
                   historyVars, fileVars, dialogVars, units, stored, interrupt, xerror,
                   signals, overread, stores>>

\* The user gives up, a source has no data, or start() takes a range.
Export ==
    /\ gpc = "idle" /\ xpc = "asking"
    /\ \/ /\ xpc' = "none"
          /\ UNCHANGED <<sessionVars, fileVars, dialogVars, units, stored, interrupt, xerror,
                         signals, overread, stores>>
       \/ \E r \in Ranges : Start("dialog", r)

\* Tools::save_session
SaveTool ==
    /\ gpc = "idle" /\ xpc = "none" /\ state = "Stopped"
    /\ Start("tool", <<0, 0>>)

-----------------------------------------------------------------------------
(* StoreSession::store_proc()                                              *)

ThreadStay == <<sessionVars, dialogVars, stores>>
Emit(signal) == signals' = IF mode = "dialog" THEN Append(signals, signal) ELSE signals

StoreBegin ==
    /\ xpc = "begin"
    /\ xpc' = "loop"
    /\ units' = left
    /\ UNCHANGED <<ThreadStay, fileVars, stored, interrupt, xerror, signals, overread>>

StoreLoop ==
    /\ xpc = "loop"
    /\ \/ /\ ~interrupt /\ left > 0
          /\ xpc' = "block"
          /\ Emit("progress")
       \/ /\ interrupt \/ left = 0
          /\ xpc' = "end"
          /\ UNCHANGED signals
    /\ UNCHANGED <<ThreadStay, fileVars, units, stored, interrupt, xerror, overread>>

\* Mutant: the block is always full.
PacketLengthFull == BlockSamples

PacketLength == Smaller(BlockSamples, left)

\* Samples [start, start + PacketLength) of every source; the format may fail.
StoreBlock ==
    /\ xpc = "block"
    /\ overread' = (overread \/ \E s \in Sources : start + PacketLength > kept[s])
    /\ \/ /\ FormatMayFail
          /\ xerror' = TRUE
          /\ xpc' = "end"
          /\ UNCHANGED <<start, left, stored, written>>
       \/ /\ written' = written \o [i \in 1 .. PacketLength |-> start + i - 1]
          /\ left' = left - PacketLength
          /\ start' = start + PacketLength
          /\ stored' = units - left'
          /\ xpc' = "loop"
          /\ UNCHANGED xerror
    /\ UNCHANGED <<ThreadStay, kept, keptOf, any, wanted, uneven, wrapped, units, interrupt,
                   signals>>

\* The end packet, which the format may fail to write.
StoreEnd ==
    /\ xpc = "end"
    /\ xpc' = "zero"
    /\ xerror' \in {xerror, xerror \/ FormatMayFail}
    /\ UNCHANGED <<ThreadStay, fileVars, units, stored, interrupt, signals, overread>>

\* "Zeroing the progress variables indicates completion": units_stored_ = unit_count_ = 0
StoreZero ==
    /\ \/ xpc = "zero" /\ xpc' = "zeroed" /\ units' = 0 /\ UNCHANGED stored
       \/ xpc = "zeroed" /\ xpc' = "notify" /\ stored' = 0 /\ UNCHANGED units
    /\ UNCHANGED <<ThreadStay, fileVars, interrupt, xerror, signals, overread>>

\* store_successful() is emitted at the end of every store.
StoreNotify ==
    /\ xpc = "notify"
    /\ xpc' = "done"
    /\ signals' = IF mode = "tool" THEN signals ELSE signals \o <<"successful", "progress">>
    /\ UNCHANGED <<ThreadStay, fileVars, units, stored, interrupt, xerror, overread>>

StoreThread == StoreBegin \/ StoreLoop \/ StoreBlock \/ StoreEnd \/ StoreZero \/ StoreNotify

-----------------------------------------------------------------------------
(* The two users, on the GUI thread                                        *)

GuiStay == <<feedVars, state, spc, goal, device, deviceVars, stopping, captures, historyVars,
             stores>>
FileStay == <<fileVars, units, stored, overread, mode>>

\* The StoreSession is destroyed once its thread has been joined.
Destroyed ==
    /\ xpc' = "none" /\ mode' = "dialog" /\ kept' = [s \in Sources |-> 0] /\ keptOf' = 0
    /\ any' = LogicData /\ start' = 0 /\ left' = 0 /\ units' = 0 /\ stored' = 0
    /\ interrupt' = FALSE /\ xerror' = FALSE
    /\ written' = <<>> /\ wanted' = {} /\ uneven' = FALSE /\ wrapped' = FALSE
    /\ overread' = FALSE

\* The second half of start(), which looks at the count of any_segment once more: the range
\* is refused if it begins behind the samples there are by now, or the format fails.
Launch ==
    /\ gpc = "launch"
    /\ gpc' = "idle"
    /\ \/ /\ start <= kept[any]
          /\ xpc' = "begin"
          /\ UNCHANGED <<fileVars, units, stored, interrupt, xerror, overread, mode>>
       \/ /\ start > kept[any] \/ FormatMayFail
          /\ Destroyed
    /\ UNCHANGED <<GuiStay, saved, signals, seen>>

\* store_successful is connected to Session::on_data_saved.
OnDataSaved ==
    /\ gpc = "idle" /\ signals # <<>> /\ Head(signals) = "successful"
    /\ signals' = Tail(signals)
    /\ saved' = TRUE
    /\ UNCHANGED <<GuiStay, FileStay, gpc, xpc, interrupt, xerror, seen>>

\* on_progress_updated() reads the two atomic counters in an unspecified order.
ReadProgress ==
    /\ gpc = "idle" /\ signals # <<>> /\ Head(signals) = "progress"
    /\ signals' = Tail(signals)
    /\ seen' \in {<<"stored", stored>>, <<"units", units>>}
    /\ gpc' = "progress"
    /\ UNCHANGED <<GuiStay, FileStay, saved, xpc, interrupt, xerror>>

\* Mutant: complete as soon as all units have been stored.
CompletedWhenStored(first, second) == first = second

\* What the dialog takes for the end of the store.
Completed(first, second) == second = 0

\* On completion the dialog closes, which cancels the store
\* and puts the deletion of the dialog into the queue.
ShowProgress ==
    /\ gpc = "progress"
    /\ LET first  == IF seen[1] = "stored" THEN seen[2] ELSE stored
           second == IF seen[1] = "units" THEN seen[2] ELSE units IN
        /\ interrupt' = (interrupt \/ Completed(first, second))
        /\ signals' = IF Completed(first, second) THEN Append(signals, "delete") ELSE signals
    /\ gpc' = "idle"
    /\ seen' = <<>>
    /\ UNCHANGED <<GuiStay, FileStay, saved, xpc, xerror>>

\* ~StoreProgress() waits for the store thread.  What else is queued for the dialog is
\* dropped; what is queued for the session is not.
DeleteDialog ==
    /\ gpc = "idle" /\ signals # <<>> /\ Head(signals) = "delete"
    /\ gpc' = "close dialog"
    /\ UNCHANGED <<GuiStay, FileStay, saved, signals, xpc, interrupt, xerror, seen>>

Successes(queue) == Cardinality({k \in DOMAIN queue : queue[k] = "successful"})

CloseDialog ==
    /\ gpc = "close dialog"
    /\ xpc = "done"
    /\ Destroyed
    /\ gpc' = "idle"
    /\ signals' = [k \in 1 .. Successes(signals) |-> "successful"]
    /\ UNCHANGED <<GuiStay, saved, seen>>

\* The user cancels the dialog, or closes it, which also deletes it.
Cancel ==
    /\ gpc = "idle" /\ mode = "dialog" /\ xpc \notin {"none", "asking", "done"} /\ ~interrupt
    /\ interrupt' = TRUE
    /\ UNCHANGED signals \/ signals' = Append(signals, "delete")
    /\ UNCHANGED <<GuiStay, FileStay, saved, gpc, xpc, xerror, seen>>

\* save_session after its loop: join, then the session's data are saved if no error.
ToolDone ==
    /\ gpc = "idle" /\ mode = "tool" /\ xpc = "done"
    /\ Destroyed
    /\ saved' = (saved \/ ~xerror)
    /\ UNCHANGED <<GuiStay, gpc, signals, seen>>

StoreUser == AskUser \/ Launch \/ OnDataSaved \/ ReadProgress \/ ShowProgress \/ DeleteDialog
             \/ CloseDialog \/ ToolDone

-----------------------------------------------------------------------------
\* The segments held stay those of their acquisition; while it lasts they may grow.
Holding ==
    /\ kept' = [s \in Sources |-> IF xpc \notin {"none", "asking"} /\ keptOf = captures' /\ data'[s] # <<>>
                                  THEN data'[s][1].count ELSE kept[s]]
    /\ UNCHANGED <<xpc, keptOf, any, start, left, written, wanted, uneven, wrapped, units, stored,
                   interrupt, xerror, signals, dialogVars, overread, stores>>

StoreInit ==
    /\ Init
    /\ xpc = "none" /\ mode = "dialog" /\ kept = [s \in Sources |-> 0] /\ keptOf = 0
    /\ any = LogicData /\ start = 0 /\ left = 0 /\ units = 0 /\ stored = 0
    /\ interrupt = FALSE /\ xerror = FALSE /\ written = <<>> /\ wanted = {}
    /\ uneven = FALSE /\ wrapped = FALSE
    /\ signals = <<>> /\ seen = <<>> /\ overread = FALSE /\ stores = 0

StoreNext ==
    \/ SessionNext /\ Holding
    \/ RequestExport \/ Export \/ SaveTool \/ Cancel
    \/ StoreThread \/ StoreUser

StoreSpec == StoreInit /\ [][StoreNext]_vars

\* The store thread runs, and the GUI thread serves its queue; the loop of save_session
\* looks for the end of the store whenever the events at hand have been processed.
FairStoreSpec == StoreSpec /\ WF_vars(StoreThread) /\ WF_vars(StoreUser) /\ SF_vars(ToolDone)
                 /\ WF_vars(GuiStep /\ Holding) /\ WF_vars(ThreadStep /\ Holding)
                 /\ WF_vars(stopping /\ End /\ Holding)
=============================================================================
