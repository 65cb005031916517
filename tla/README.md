# PulseView in TLA+

PulseView captures signals from logic analysers and oscilloscopes through libsigrok, keeps
them in segments, runs protocol decoders (libsigrokdecode) over them, shows and stores them,
and offers them to MCP clients.  This directory holds models of its core, the TLC
runs that check them on small instances, and TLAPS proofs about them for all instances.

    tlc -workers 2 -config Capture.cfg MCSession.tla     # any run of the table below
    tlapm Session_proofs.tla                             # any module named *_proofs

`PROJECT.json` maps every definition to the lines it stands for, and lists the runs, the
mutants that show that each property can fail, the hazards and the findings.

## The system

| Part | State | Operations | Talks to | Correct if |
|---|---|---|---|---|
| `Session` (pv/session.cpp) | capture state, sampling thread, current segments, sample counts, triggers, "data saved" flag, signals | start/stop capture, select device, datafeed callbacks, load file | devices (callbacks inside `device_->run()`), signal data, views (Qt signals) | the data, ids, counts and triggers agree; the sources are cleared by one thread at a time; a stop returns; unsaved data are known as such |
| `Segment`, `Logic`, `Analog` (pv/data) | chunks of samples, mip-maps, envelopes, completeness | append, read, iterate, push segment, clear | written by the sampling thread, read by all others | an append-only sequence per segment; the mip-map is that of the samples |
| `DecodeSignal` (pv/data/decodesignal.cpp) | decoder stack, channel map, decode thread, mux thread, srd session, progress, annotations | begin, reset, pause, resume; edits of stack, options and channels; slots | Session (capture state), Logic (`samples_added`, `segment_completed`, `samples_cleared`), libsigrokdecode | it decodes what was received and all of it, with decoders for this stack; threads are gone when what they use goes |
| Annotations (pv/data/decode, pv/views/tabular_decoder) | per row a deque with an index, a list of pointers to all, the list a table shows | emplace, query by samples, table updates and filters | written by decode thread callbacks, read by views and MCP | rows are drawn completely; each annotation is listed once; the table shows what passes its filters |
| `SignalBase` conversion, `MathSignal` | conversion and generation threads, derived segments | start, stop, data slots | Analog, Logic, Session | derived data follow their input |
| `StoreSession` (pv/storesession.cpp) | store thread, unit counters, range | start, cancel, wait, `store_proc` | Logic, Analog, the libsigrok output; `StoreProgress` dialog, MCP tool `save_session` | the file holds what was asked for |
| Devices (pv/devices) | libsigrok session, input file, interrupt flag | open, start, run, stop, close | Session | a stop that is asked for happens |
| MCP server and bridge (pv/mcp, tools/pulseview-mcp) | connections, session registry with generations, pending requests | requests, tool calls that wait in nested event loops | Session and StoreSession, through their public operations | each request is answered once, by the session it names |
| Main window (pv/mainwindow.cpp, pv/mcp/sessionregistry.cpp) | sessions, windows, tabs, focus, run/stop button, registry of sessions | add, switch, close, run/stop; slots that process events | Session, MCP tools | lists, focus, button and registry agree; a write by generation hits the session that was read |
| Views, toolbars, dialogs, settings | painting, forms | slots | everything above | layout |

There is one GUI thread, which runs slots and user operations one at a time (nested event
loops excepted: the file dialogs and the MCP tools that wait), and one thread each for
sampling, decoding, muxing, conversion, generation and storing.  The threads communicate by

* shared data with partial locking: `Session` data under `data_mutex_` and
  `sampling_mutex_`, but segment lists, completeness flags and interrupt flags without a
  lock that covers test and use;
* condition variables without predicates (`decode_input_cond_`, `logic_mux_cond_`,
  `decode_pause_cond_`), mostly notified without holding the mutex of the wait;
* Qt signals, direct when sender and receiver live in one thread and queued otherwise;
* `join()` from the GUI thread, which must therefore always return.

What is hard here: the windows between test, wait and notify; a capture that is stopped
while its thread has not said yet that it runs; data that are cleared, captured anew or that
grow while another thread reads them; frames, triggers, segment ids and sample counts that
must stay in step however packets arrive; device and memory errors in the middle of all
this; and events that are served when the state they report has gone.  `PROJECT.json` lists
the hazards one by one, each at its line, with the properties that are about it.

## Modules

| Module | Models | Extends / uses |
|---|---|---|
| `DecodeSignal` | GUI, decode and mux thread of one `DecodeSignal`, and the acquisition that feeds it | |
| `DecodeProgress` | abstract: what an observer of the decode progress sees | |
| `DecodeSignalProperties` | properties of `DecodeSignal` | `DecodeSignal`, INSTANCE `DecodeProgress` |
| `DecodeSignal_proofs` | theorems | `DecodeSignalProperties` |
| `AnnotationStore` | rows of annotations, their index, the list of all of them | |
| `AnnotationTable` | the tabular view beside the decode thread | `AnnotationStore` |
| `AnnotationProperties` | properties of both | `AnnotationTable` |
| `Annotation_proofs` | theorems | `AnnotationProperties` |
| `Session` | capture life cycle, device selection, data feed | |
| `SampleSource` | abstract: what consumers of acquired data may rely on | |
| `SessionProperties` | properties of `Session` | `Session`, INSTANCE `SampleSource` |
| `CaptureTools` | the MCP tools `start_capture` and `get_capture` beside all of `Session`, and their properties | `SessionProperties` |
| `StoreSession` | saving, by the dialog and by the MCP tool, composed with all of `Session` | `Session` |
| `StoreSessionProperties` | properties of saving | `StoreSession` |
| `Session_proofs` | theorems about the session, the tools and the store | `CaptureTools`, `StoreSessionProperties` |
| `SampleSequence` | abstract: an append-only sequence of samples, filled packet by packet | |
| `Segment` | chunks of samples; a packet is copied chunk by chunk | |
| `LogicSegment`, `AnalogSegment` | mip-map and envelope, kept up with each append | `Segment` |
| `LogicEdges` | the searches for edges over the mip-map | `LogicSegment` |
| `Storage` | a segment of either kind | `LogicSegment`, `AnalogSegment`, INSTANCE `SampleSequence` |
| `StorageProperties` | properties of segments, summaries and searches | `Storage`, `LogicEdges` |
| `Storage_proofs` | theorems | `Storage` |
| `Conversion` | conversion thread, GUI thread and sampling thread of a converted signal | |
| `ConversionProperties` | properties of conversion | `Conversion`, INSTANCE `SampleSource` |
| `Conversion_proofs` | theorems | `ConversionProperties` |
| `MathSignal` | generation thread, GUI thread and sampling thread of a math signal | |
| `MathProperties` | properties of generation | `MathSignal` |
| `MathSignal_proofs` | theorems | `MathProperties` |
| `MathExpression` | which samples the terms of an expression read, and its properties | |
| `RequestReply` | abstract: requests run at most once and answered at most once | |
| `McpServer` | socket path, connections, framing and dispatch in each PulseView | |
| `McpBridge` | the bridge and its client, composed with the server | `McpServer` |
| `McpProperties` | properties of both | `McpBridge`, INSTANCE `RequestReply` |
| `Mcp_proofs` | theorems | `McpProperties` |
| `SessionRegistry` | operations of the registry, as functions on a record | |
| `MainWindow` | sessions in the main window, and the tools that name them | `SessionRegistry` |
| `MainWindowProperties`, `MainWindow_proofs` | properties, theorems | `MainWindow` |
| `MCDecodeSignal`, `MCAnnotation`, `MCSession`, `MCStoreSession`, `MCMathSignal`, `MCMcp`, `MCMainWindow` | constants for TLC | the properties modules |

### DecodeSignal

State of the code and of the model:

| Code | Model |
|---|---|
| the GUI thread inside `begin_decode`/`reset_decode`/`resume_decode` | `gpc`, with `gstage` (which of them) and `gnext` (what follows) |
| `decode_thread_`, `logic_mux_thread_` | `dpc`, `mpc`; "none" = not joinable, "done" = returned, not joined |
| locals of `decode_proc`/`decode_data`, `logic_mux_proc` | `dseg dpos dend dchunk`, `mseg mend` |
| `decode_input_data_`, `using_direct_input_` | `din`: a source, `Mux` or `NoSource` |
| `segments_` (sample counts incl. / excl.) | `segs` |
| `srd_session_` | `srd`: 0, or the `version` of the stack it was built for |
| `stack_`, `channels_`, `stack_config_changed_` | `depth`, `assigned`, `version`, `stackChanged` |
| the connections of `connect_input_notifiers` | `connected` |
| the Logic objects of the session | `input`, `muxed` for `logic_mux_data_` |
| signals whose conversion was removed: `logic_data()` is null | `vanished` |
| queued slot calls | `events` |
| the segment the decode thread still holds after its list was cleared | `orphan` |

The body of a thread function is cut where another thread may see or change what it uses:
at every read of counts or flags, at every wait, and at each publication of progress.  A
condition variable is its wait set; the pcs "firstBlock", "block" and "pauseBlock" are the
windows between the test and the `wait()`, in which a `notify_one()` is lost, because the
notifiers do not hold the mutex.  `SpuriousWake` models spurious wakeups.  `missed` is a
history variable that notes a lost notification: it makes the liveness properties say what
holds if none is lost.  `noted` is another: the `version` the srd session should be of, if
every change of the channel map set `stack_config_changed_` (`Launch` makes one that does not,
in `DropVanished`).  `mpc = "crashed"` is the mux thread using data that have vanished, which
ends the program (`Alive`).

Abstracted: samples are counts; annotations and the data given to libsigrokdecode are left
out; libsigrokdecode is external and may fail at every call (`MayFail`); connections are
kept per source instead of per signal; sources are cleared together (as `Session` does);
a conversion that was removed under a decoder is not made again, and its Logic object stays as
long as the decoder uses it; the channels belong to the stack.  Unsigned index arithmetic keeps
its width (`WordSize`).

### Session

| Code | Model |
|---|---|
| `sampling_thread_` in `sample_thread_proc`, inside or outside a callback | `spc` |
| GUI thread in `stop_capture`, and what called it | `gpc`, `goal` |
| segments of `Logic`/`Analog`, `cur_logic_segment_`, `cur_analog_segments_` | `data`, `current` |
| `highest_segment_id_`, `segment_sample_count_`, `trigger_list_`, `frame_began_`, `out_of_memory_` | `highest`, `counts`, `triggers`, `frameBegan`, `oom` |
| `capture_state_`, `data_saved_`, `device_` | `state`, `saved`, `device` |
| the device: frames, and whether it was told to stop | `framed`, `frames`, `inFrame`, `stopping` |

One action per packet type (`FrameBegin`, `FrameEnd`, `Trigger`, `Feed(s)`, `End`), with
everything the callback does, including the memory error that `data_feed_in` catches
(`FeedOutOfMemory`), and one per step of `start_capture`, `stop_capture`, `set_device` and
`sample_thread_proc` that the other thread can see.  The device is external: it delivers any
interleaving of packets in which the sources have the same number of frames ("assuming that
all signals have the same number of frames/segments", session.cpp:1445), opens no frame once
it was told to stop and ends with `SR_DF_END`; it may fail to open, to start or to run.

Abstracted: a multi-channel analog packet is a sequence of single-channel ones; which source
comes first is arbitrary; trigger positions, metadata, sample rates and names are left out;
memory runs out at most once per acquisition; a device is there initially.
`dirty`, `failed` and `unheard` are history variables: data from hardware that were never
stored, a run that ended in an error, a stop that the device did not hear.

### CaptureTools

| Code | Model |
|---|---|
| the GUI thread in `Tools::start_capture` or `get_capture` | `tool` |
| the acquisition it has started; `capture_error` | `own`; `toolError` |
| `observed_running`, `state`, `latest_segment` or `segment_id` | `observed`, `readState`, `segment` |
| `result` | `answer` |

Each read of the session is a step of its own, since the sampling thread goes on beside it. The
loop of `start_capture` processes events ("events"), in which the user may stop, restart or
change the device; while a tool holds the session it is not destroyed.  The time-out may come
at any round, also before the first.  A range is taken for the whole segment: the longest a
client may ask for.  `unsettled` is a history: the tool found the state `Stopped` of a capture
that had not announced itself yet.

### StoreSession

Extends `Session`, so that everything a session does goes on while a file is saved.
`xpc` is the store thread in `store_proc`; `kept`, `keptOf` are the segments it holds (shared
pointers: they survive a clear), `start`, `left`, `units`, `stored` the range and the
counters.  A store is started by the dialog (`AskUser`, the nested event loop of the file
dialog, then `Export`) or by the MCP tool (`save_session`, which polls in a nested event
loop).  The dialog's slot `on_progress_updated` reads the two counters in two steps, as
`progress()` does.  `StoreSession::start()` looks at the length of `any_segment` twice, while
sampling may go on: `Start` computes the range, `Launch` tests it and launches the thread
(the GUI thread is in between, `gpc = "launch"`).  The unsigned `sample_count_` keeps its
width.  `uneven` and `wrapped` are histories: a source was shorter than `any_segment`, the range
began behind the samples counted first.  One store at a time (`MaxStores`); formats are
external and may fail (`FormatMayFail`).

### Annotations

| Code | Model |
|---|---|
| `annotations_`, `prev_ann_start_sample_`, `annotation_block_max_ends_` of each `RowData` | `rows[r]`: `list`, `latest`, `maxEnds` |
| addresses of the elements of that deque | `base + i - 1` for the i-th; an insertion moves the shorter side, as libstdc++ does |
| `all_annotations` | `all`: pointers, as a row and a place |
| visibility of the annotation classes | `hidden` |
| `all_annotations_without_hidden_`, `processed_annotation_count_` | `filtered`, `taken` |
| the GUI thread in `update_annotations_without_hidden` | `tpc` |

`AnnotationCallback` is one action, since the decode thread holds `output_mutex_`; the table
reads entry by entry, since it does not.  A pointer is followed at the time the code follows
it: `ListPosition` looks at entries whose row has moved already and whose pointers have not
been corrected yet.  Texts, colours and columns are left out; one segment stands for all
(switching segments is what `Detach` and `Attach` do to the table).  `mislaid` and `stale`
are histories of the two ways in which pointers go wrong (see Findings).

### Storage

| Code | Model |
|---|---|
| `data_chunks_`, `used_samples_`, `chunk_size_` | `chunks`, `perChunk` |
| `sample_count_` | `count` |
| the rest of the packet in `append_samples` | `packet`, `rest`; one step per chunk |
| `mip_map_`, `last_append_sample_`, `_accumulator_`, `_extra_` | `mipMap`, `context` |
| `envelope_levels_`, `min_value_`, `max_value_` | `envelope`, `range` |

One bit stands for the bits of a logic sample.  The searches of `get_subsampled_edges` and
`get_surrounding_edges` are recursive operators: they are pure functions of the state, and
`StorageProperties` compares them with scans of the samples; `Storage` does not reach them, so
that its refinement can be proved.  The abstract `SampleSequence` allows a
packet that arrives after an allocation has failed to be stored wrongly, because the code does
that (see Findings); nothing else may differ from what was given.

### Conversion

| Code | Model |
|---|---|
| `Analog` and the state of the acquisition | `analog`, `acq`, `sampler` |
| queued slots, `delayed_conversion_starter_` | `events`, `timer` |
| the GUI thread in `stop_conversion`, and what called it | `gpc`, `goal` |
| `conversion_interrupt_` | `interrupt` |
| `converted_data_` | `logic`: the acquisition and the index a segment was made from |
| the thread: `asegment`, `lsegment`, start, end and completeness in `convert_single_segment` | `tpc`, `input`, `output`, `cursor`, `end`, `full`, `more`; `frozen`, `orphan` for segments whose list was cleared |

Values are left out: a converted sample is one that was made from the sample at its position.
As in `DecodeSignal`, waits have no predicate and the windows before them are places of their
own.  Histories: `missed` (a notification of data fell into such a window), `raced` (a segment
grew or was completed between two looks at it), `deaf` (the same for an interrupt).
`tpc = "undefined"` is `front()` or `back()` of an empty vector.

### Math signals

| Code | Model |
|---|---|
| the signals an expression reads and their segments | `data`; `Self` for the math signal |
| the expression, as entered and as compiled | `expr`, `compiled`: its variables and the signal of `sample()` |
| `input_signals_`, `generation_chunk_size_`, `gen_interrupt_` | `inputs`, `chunk`, `interrupt` |
| whether the session has a samplerate (`get_samplerate`) | `rate` |
| segments of the math signal | `own`; `orphan` for one the thread holds after they were cleared |
| `generation_proc`, `generate_samples` | `tpc`, `seg`, `output`, `todo`, `processed`, `part` |
| queued slots; the GUI thread in `reset_generation` | `events`; `gpc`, `goal` |

A segment may come without a samplerate; while none has one, `generation_proc` stays in its
first loop.  `tpc = "first"` is the first round of the second, which does not look at the
interrupt.

`MathSignal` leaves the values out and `MathExpression` the threads: there each input begins
the segment and grows at its own speed (`arrived`), `known` is the cache in `input_signals_`,
`found` what the function object of `sample()` has looked up, and a computed sample is the list
of samples its terms have read.  What arrives of later segments is left out until the math
signal is there: the thread does not look at it before.

Histories of `MathSignal`: `missed` (the thread went to wait without looking at what had come),
`lacking` (it counted more than a signal has that `sample()` had not looked up yet, or that had
not begun the segment), `deaf` (the notification of an interrupt was lost).  Of
`MathExpression`: `foundAt` and `carried` (where the signal found itself in its own expression;
segments that began with a sample read in the one before), `counted` (the signals whose counts
the batch keeps to) and `excused` (for which samples another signal was read past its end).  A
failed assertion ends the program: `tpc = "crashed"`, `pc = "crashed"`.

### MCP

| Code | Model |
|---|---|
| `QLocalServer` and `socket_path_` of each process | `phase`, `path` |
| a socket, its two buffers | `home`, `to`, `from` |
| a `Connection`: unread input, unwritten replies, `reject()` | `input`, `unsent`, `closing` |
| `read_messages` inside a tool inside `read_messages` | `readers`, a stack; `running` |
| `stdin` of the bridge, its socket, `pending_ids_` | `stdin`, `linked`, `pending` |

A request is a model value with a kind (a call, a listing the bridge answers itself, a
notification, malformed, garbage, oversize).  PulseView may start, quit and crash at every
point; the bridge's client may leave.  What a tool does is not modelled here but in
`MainWindow` and `StoreSession`.

### MainWindow

| Code | Model |
|---|---|
| `sessions_`, `session_windows_`, tabs, `last_focused_session_` | `sessions`, `windows`, `tabs`, `current`, `lastFocused` |
| `mcp_session_registry_` | `registry`: entries by address, the next id, the active one |
| slots that process events half-way (`remove_session`, `~MainWindow`, tools that wait) | `frames`, innermost last |
| the state and the queued `capture_state_changed` of each session | `capture`, `posted`; `button` for what the run/stop button says |
| the client's last `get_session`, with what was posted when it was called | `seen` |

A session lives at an address, which a later one may get again.  `crashed` stops the model
where an exception leaves a slot.  Of what `get_session` reports, `seen` keeps the id, the
generation and whether the capture runs: the capture is what another thread changes, and its
announcement reaches the registry only when the event loop delivers it.  `misdirected` notes
that a write which named its session and passed the test of the generation acted on another
session, or found the capture in another state with no announcement outstanding.  Names, views
and devices are not told apart (their signals count the generation at once), and a write may
end on an error path that counts nothing.  What else `get_session` reports changes without any
announcement, and a write without a session id can hit a session that was never read: both are
findings, and no property speaks of them.

## Runs

Bounds are constants of the modules; each stands in a guard and is named there.

| Run | Shows | Bounds |
|---|---|---|
| `DecodeDirect` | Decoding one source in place, with decoder failures, restart by a second capture, and any one user operation (pause, option, channel, stack, remove, destroy, removing the conversion that makes the source) at any moment: `DecodesOnlyReceived`, `TearsDownAlone`, `SessionMatchesStack`, `DecodesProvidedChannels`, and refinement of `DecodeProgress` | 2 channels, 1 decoder and then up to 2, 2 segments of 2 samples, chunk of 2, 2 captures |
| `DecodeMux` | Under fairness, two sources that the mux thread merges: `MuxServesDecoder`, `MuxFollowsSources`, `JoinsReturn`, `DecoderCatchesUp` | 2 segments of 1 sample in each source, 1 capture, 1 queued signal |
| `Annotation` | Three classes of annotations in two rows, in any order, beside the table: `QueryExact`, `ListedOnce`, `TableShowsFiltered` | 4 annotations of 6 shapes, index blocks of 2, 2 filters, 1 class hidden at times, 8 windows, limits 1 and 2 |
| `Capture` | One logic and one analog source, with and without frames, hardware or input file, device and memory errors, stop, restart or device change at any moment, by the user or by `start_capture`, and `get_capture`: `CountsFollowSegments`, `TriggersMatchFrames`, `RegularEnd`, `ReportsFinished`, `RangeHeld`, and refinement of `SampleSource` | 2 frames, 2 samples, 1 trigger, 2 captures or device changes, 1 call of a tool |
| `Store` | Under fairness, saving beside everything the session can do: `StoresWhatWasAsked`, `ReadsWithinSegments`, `CancelsOnlyFinished`, `GuiReturns` | 1 source of at most 3 samples, blocks of 2, ranges "all" and (4,2), sample numbers modulo 5, 2 captures, 1 store |
| `Storage` | All segments of either kind: `SummariesExact` (mip-map and envelope), `SearchesExact` (every edge, the nearest edges, and pulses that show at a zoom), and refinement of `SampleSequence` | 7 samples in packets of up to 3, chunks of 3 and of 4, blocks of 2 on 2 levels, search window 1, lengths 1 to 4, one failing allocation |
| `Conversion` | Under fairness, with any interleaving of the three threads: `ConvertsItsOwn`, `ConvertsAll`, `ConvertedIsSource`, `StopConversionReturns` | 3 samples, 2 segments (then 1), blocks of 2, 2 captures, 1 edit or spurious wakeup, 2 queued signals |
| `MathSignal` | Under fairness, two inputs, as variables, in `sample()`, not at all, or with the signal itself: `GeneratesFromReceived`, `GeneratesAll`, `ResetReturns` | 2 samples, 2 segments (then 1), chunk of 2, 2 captures, 1 edit or spurious wakeup, 1 queued signal |
| `MathValues` | All expressions of one or two terms over two inputs, each at its own speed, and the signal itself, in any division into batches: `ReadsWhatItNames` | 3 samples, 2 segments, chunk of 2 |
| `Mcp` | Under fairness, a bridge and a program without one share a PulseView that starts, quits and crashes: `PendingIsPipeline`, `EveryRequestAnswered`, and refinement of `RequestReply` | 5 requests of 4 kinds, 2 starts, a call inside a call |
| `Windows` | Sessions opened, captured from, switched and closed in every way, with tools that read, write and wait: `ListsAgree`, `FocusAgrees`, `ButtonTellsState`, `WritesWhatWasRead` | 2 sessions at 2 addresses (symmetric), 2 changes, 1 capture, 1 close inside another |
| `McpPath` | violated: `ListenerReachable` | 2 instances, 2 starts |

Why the bounds are enough to be worth something.  Two segments are what the step to a next
segment, a stale index and a wrapped `size() - 1` need; two captures are what data, threads and
sessions left over from an earlier one need; two sources are what a slower source, an uneven
segment or a first-comer need; two samples tell an append to a segment from one that opens it;
three samples with blocks of two give a full and a partial block; one user operation meets
every state the threads can be in.  Ranges of several chunks are not in `DecodeDirect` (a chunk
of one sample makes the run too large): the count invariant is proved for every chunk length.
Seven samples fill three blocks of the lowest and one of the upper level and cross two borders
of chunks; with chunks of three, blocks straddle them (where the mip-map is known to be wrong,
and its properties say so).  Four annotations give a row with two index blocks and an insertion
in front of each; the seven it takes to mislay a pointer are beyond the run. Two addresses are
what an id or a window left over from a closed session needs, five requests what a reply that
overtakes, a rejected message and a call inside a call need together.  All runs switch the
deadlock check off because the system comes to rest when the bounds are used up, or when the
signal or the session was closed.

### Fairness

`FairSpec` (decoding) is weak fairness of the GUI thread's steps, of the delivery of queued
events, of the decode and of the mux thread, each of which the operating system or the event
loop runs again and again once it can go on, and of the beginning of an acquisition that was
started, all while the program is alive.  Nothing is assumed of the user or the device, and
nothing of spurious wakeups. `FairStoreSpec` is weak fairness of the GUI thread's and the
sampling thread's steps, of the store thread, its signals and the user's answer to the dialogs,
and of `End` for a device that has been told to stop: libsigrok devices end their session after
`stop()`, and that is all `stop_capture` relies on.  It is strong fairness for `save_session`'s
test whether the store has finished, which its loop repeats after each `processEvents()` while
other events come and go in between.  `CaptureSpec` states none: its run checks safety.
`FairConversionSpec` and `FairMathSpec` are weak fairness of the GUI thread and of the
conversion or generation thread; nothing is assumed of the acquisition.  `FairMcpSpec` is weak
fairness of the steps of each bridge and of each server (reading, handling a message, returning
from a tool, writing, closing a rejected connection): both are event loops.  Nothing is assumed
of starts, crashes or the client.

The liveness properties state their conditions: `JoinsReturn` and `DecoderCatchesUp` hold if no
notification is lost (`NoLostWakeup`), the latter if in addition the sources in use are
connected; `GuiReturns` holds if every stop was heard (`~unheard`); `StopConversionReturns` and
`ResetReturns` hold if the interrupt was (`~deaf`), and `ConvertsAll` where no notification was
lost and no segment raced.  That these conditions can fail is a finding each.
`EveryRequestAnswered` has none: a request is answered unless its client goes.

## Proofs

The assumptions are those on the constants, named `...Assumption` in the modules: bounds are
naturals, chunk length, block size and word size positive, the number of segments below the
word size.  Everything else, also the number of sources, channels, segments, samples, frames,
captures, addresses and edits, is arbitrary.

**Teardown** (`DecodeSignal_proofs`).  `ThreadInv` says at which places of `reset_decode`
neither thread can be alive; with it `TearsDownAlone` is inductive (`TearingDownAlone`).
`MuxServes` adds that the mux thread is started with, and stopped right after, the decode
thread.  `SessionInv` says that an srd session of an older stack than the last one noted
implies `stack_config_changed_`, except inside a restart; it gives `SessionMatches`, and
together with `ThreadInv` the action property `SessionOutlives`.  That the session is of the
stack of now is not so (`noted`).  `ProvidedInv` says that beside a running thread all
channels in use have their data, outside of resets and while the sources are connected
(`ProvidedChannels`).

**Counts** (`DecodeSignal_proofs`).  `DecodesOnlyReceived` is not inductive: that an announced
count does not pass the input depends on what the thread's locals were computed from, and
that depends on the segments the thread indexes being there.  `IInv` is `TypeOK`, `ThreadInv`,
`LaunchInv` (the threads start on empty results), `DecodeIndexInv` and `MuxIndexInv` (the
segments a thread works on exist, or the decode thread holds on to an orphan), and `CountInv`
(how the counts of the current segment follow the locals `dpos`, `dend`, `dchunk` at every
place of the loop).  The lemmas `Grows...` say that every step of the acquisition and of the
mux thread only makes segments grow, so that a count once read stays within its segment.
Theorems: `CountsInvariant`, `TypeCorrect`, `OnlyReceivedDecoded`, and `ImplementsProgress`:
every step of `DecodeSignal` is a step of `DecodeProgress` or leaves it alone.

**Mux** (`DecodeSignal_proofs`).  While the GUI thread is in no reset and all sources in use
are connected (`MuxAttended`, which with `ProvidedInv` have their data), `FollowInv` says that what is muxed has a segment, and a sample,
only where every source in use has one, and is complete only where they are (`Follows`), and
that the samples `logic_mux_proc` has counted are still there when it muxes them (`Counted`).
A `clear()` of a source empties it while the thread is at work; that the notifier of a
connected source takes the GUI thread into a reset is what saves the property.
Theorem: `MuxFollows`.

**Session** (`Session_proofs`).  `SessionInv` joins `SessionTypeOK`, `ClearsAlone` (the data
are cleared by one thread at a time), `CountsFollowSegments` and `TriggersMatchFrames` with
* `Shape`: at most the last segment of a source is incomplete, and only where the source is
  current;
* `Fresh`: before the first packet nothing is left of an earlier acquisition;
* `Uniform`: how the number of segments of each source relates to the frames begun, to
  `frame_began_` and to `highest_segment_id_`;
* `Ended`: what holds once the thread has returned from `device_->run()`.

`Uniform` is the heart: without it neither counts nor triggers can be shown to match, since
`feed_in_logic`/`feed_in_analog` decide from the sizes of the lists alone whether a segment
is new to the session.  There is one lemma per action, and `StoredSegments`, `StoredCounts`
and `StoredUniform` for what all packets with samples have in common.  Theorems:
`SessionInvariant`, `SessionTypeCorrect`, `ClearingAlone`, `CountsFollow`, `TriggersMatch`,
`EndsRegularly` and `ImplementsSource`.

**Tools** (`Session_proofs`).  `BesideSession` shows that every step of `CaptureSpec` is a
step of `Session` or leaves it alone, so that `SessionInvariant` holds beside the tools as
well.  `ToolInv` adds where the sampling thread may be at each place of the tool: `StateInv`
ties the state that is read to the place of the thread, and `ReportInv` says that from the
test of the state on only the last step of the thread can be left, which changes nothing the
tool reads.  `OwnInv` keeps the errors of the acquisition the tool has started; together they give
`FinishedIsReported`.  `RangeIsHeld` needs two more: counts that are left between two
acquisitions are those of some source (`LeftInv`), and a range that was taken stays covered by
that source, since segments only grow until the next acquisition, which cannot begin while the
tool holds the GUI thread (`ReadInv`).

**Store** (`Session_proofs`).  `StoreInv` adds to `DataInv` (what the store needs to know
of the session: data are emptied only for a new acquisition or device, and a current segment
is there) three arguments.  `KeptInv`: the segments held are those of the session as long as
its acquisition is the same, and hold the range that is left, unless lengths differed or the
range wrapped.  `FileInv`: what has been written and what is left are together what is wanted,
at every place of `store_proc`, unless the range wrapped; it gives `StoresAsked`.
`LaunchInv`: the GUI thread stays in `start()` between its two looks at the segment.
`QueueInv`: progress is announced only while there are units left to count or
after the thread has finished, so that a dialog that reads zero units has a finished store
before it; it gives `CancelsFinished`.  `OverreadInv` gives `ReadsWithin`.  That `Session`
goes on beside the store is covered by lemmas on what its steps leave alone.

**Annotations** (`Annotation_proofs`).  `RowInv` is about one row: no annotation starts after
`latest`, the last one starts there, those that start there come last, and every entry of the
index is the greatest end of all blocks up to its own (`Indexed`), after an append and after
everything from the insertion on was computed anew.  `PointersInv` is about the row and its
pointers in `all_annotations`: there are as many as annotations, all to places of the row
(`Placed`); and while nothing is mislaid they are distinct, and in the order of the row except
among annotations that start together and for the first of the row (`Sorted`).  `Sorted` is
what `ListedOnce` hangs on, and not obvious: `annotation_callback` corrects the pointers by
their rank in the list alone.  When an annotation is put at position p of its row (3 or more,
since position 2 is never found, see Findings), those in front of p keep their place, and no
two pointers are the wrong way round across p, as the two annotations there start at different
samples; hence the pointers of rank below p are those that should stay, and the rest are dealt
out anew (`Within`; `InFront` and `Behind` for the other positions).  `TableInv` says that
while not `stale` the table holds the pointers of what passes its filters, in order (`Ranked`).
`AnnotationsKept` proves all of it for any number of rows, classes and annotations, any block
size and all sample numbers.  `RowsDrawnExactly` adds what the query does: blocks that are
skipped end before the window, annotations that begin in it are an initial part of the row, and
strides pick no more than the limit (`Strides`).  `EachListedOnce` and `TableExact` follow from
the invariant by counting.

**Storage** (`Storage_proofs`).  What is read of a segment does not depend on its division into
chunks: all chunks but the last are full (`Regular`), so the sample that `get_raw_samples` looks
for by dividing is the one it should be (`At`, `PlaceOf`), and neither filling the last chunk
(`Filled`) nor adding one (`Allocation`) moves a sample that is there.  `StoreInv` says how far
an append has come (`Done`), and that until memory runs out the samples copied are the packet's
and stand just behind those counted; afterwards the chunks hold more than the count says, which
is the finding below and the reason why `SampleSequence` leaves open what is stored then.
`ImplementsSequence` is the simulation: of the passes over one packet, the last one makes it
visible whole.  It holds for chunks and packets of any size and all values of samples.
Theorems: `StoredInPlace` and `ImplementsSequence`.

**Conversion** (`Conversion_proofs`).  The thread holds pointers into lists that two other
threads clear, so `PlaceInv` says where its segments are, in the lists or with it alone, and
`OwnInv` that unless a restart is due (`Due`: Running is announced or still to be) everything
is `Clean`: logic segment i is made from analog segment i (`OwnLogic`), the thread is at the
last one (`OwnPlace`), and its locals say something true about both (`OwnCounts`).  The
exception in `OwnInv` is real: when an acquisition cannot start, no Running ever comes and the
thread stays with the segments of the one before.  `ConversionInvariant` gives `OwnSamples`,
and with a lemma for each way the output changes, `IsSource`: `Conversion` implements
`SampleSource`, which decoding builds on.  That nothing is left to convert (`AllConverted`)
is an invariant as well: `AllInv` says that whatever the thread has not looked at is announced
by a queued signal, or was missed (`Pending`), at each place where it is about to wait
(`WaitInv`, `RestInv`).

**Math signals** (`MathSignal_proofs`).  Unless a restart is due, or a count overlooked a
signal that the expression reads (`lacking`), the segments are `Clean`: no longer than any
input, complete only with everything (`OwnSegment`), and what the thread has counted is there
to be read (`OwnChunk`).  Clearing breaks that, so `OwnInv` says it up to the one state it
cannot be said of, that the device did not start and the signals stay empty.  There the thread
goes on with what it has, and `BlankInv` is needed to know that it generates nothing: every
segment it appends then is empty, and one can be complete only for an expression without
inputs.  `DataInv` is what the sampling thread keeps (which segments may still grow, how many
there are), `ThreadInv` what the thread has looked up, `LookInv` that what it has not is looked
up before the first sample is generated.  `MathInvariant` joins these for any number of
sources, expressions and chunk length.  That the segments are of this acquisition, one after
the other, all complete but the last, does not depend on `lacking`: `OrderInv` has it
(`OrderInvariant`).  The two give `ReceivedGenerated`, which is about lengths and completeness
only with `~lacking`.  For `AllGenerated`, `RestInv` says at each place where the thread is
about to wait that what it has decided on is still so (`Rest`), or that a queued signal will
tell it, or that it missed it (`Pending`).  With `lacking` there may be more than there is to
count, and never less.

**MCP** (`Mcp_proofs`).  Between its client and its answer a request is in one place: with the
bridge, in the socket, in the server's input, in the tool, in an unwritten reply or on its way
back (`PlaceInv`); it is unanswered there (`OpenInv`), and its tool has run if and only if it
is past it (`RunInv`).  For that, a connection that is gone must leave nothing behind
(`LinkInv`), and messages must be read only for connections of the same process, also while a
tool waits inside another (`ReaderInv`).  `McpInvariant` proves this for any number of
processes, clients and requests.  `ImplementsRequestReply` is then a simulation: each step of
the bridge and the server runs a tool, gives an answer, or does nothing that a client sees; a
lost connection, where many requests are answered at once, is a single step of `RequestReply`.
`PendingInOrder` proves `PendingIsPipeline`.  The queues of a connection are compared with
`pending_ids_` as an order: the same requests, and the same ones before the same ones
(`SameOrder`).  For each way in which a request moves from one queue to the next a lemma says
that the order stays (`ReadInOrder`, `RunInOrder`, `RepliedInOrder`, ...), and `PendInv` adds
what makes that possible: between two connections nothing is pending, and when a tool that
waits lets another connection be read, the messages of the first are still read by the loop
that took them (else its input would be overtaken), so that a connection nobody reads has an
empty input.  A rejected connection is left out: what it has not read is never answered but
by its end.

**Windows** (`MainWindow_proofs`).  `WindowInv` says that the two lists have no duplicates and
hold the sessions that have a window (`ListInv`), that the registry has an entry for each of
them with distinct ids below the next one (`IsRegistry`), that focus, current tab and active
entry are one (`FocusInv`), and that what a client has seen of a session that is still there
is at most as new as its generation; as long as it is equal to it, no announcement has been
delivered since the read, so that the capture is in the state read or a new announcement is
queued (`SeenInv`, which rests on every change of the state being announced, `CapturesKeep`).
`SeenInv` is also what makes a reused address harmless: an entry's id is compared before its
generation.  `ButtonAlwaysTellsState` has an invariant of its own on the
announcements that are queued.

Only model-checked are
* liveness, which the prover cannot do;
* `SummariesExact`, `SearchesExact` and `ReadsWhatItNames`: what recursive operators compute, or
  folds over arbitrary sequences, which would need induction over data.

Only proved are `SessionOutlives` (the session goes only without a decode thread) and what
the mux thread does beside a conversion that is removed: `DecodeDirect` removes it under a
decoder that reads its source in place, and `DecodeMux` with one user operation is too large.

`RegularEnd` is about `Session` alone: with a store beside it, `store_successful` may mark
newer data as saved (see below).

## Findings

With a run that shows it:

* A PulseView that was refused as a second MCP server removes the socket of the first one when
  it ends (mcp/server.cpp:44; `McpPath`).

Visible as a condition or a history variable of a property that holds only with it:

* `decode_interrupt_` and `conversion_interrupt_` are set and notified without the mutex: a
  thread that has tested but not yet waits never notices, and the GUI thread hangs in `join()`
  (decodesignal.cpp:1422, `NoLostWakeup`; signalbase.cpp:783, `deaf`).
* A decoder whose channel lost its converted data keeps the libsigrokdecode session that was
  built with that channel (decodesignal.cpp:240; `noted`).
* The mux thread uses the data of a signal whose conversion was just removed
  (decodesignal.cpp:1198; `"crashed"`).
* `begin_decode` joins a decode thread that is paused and that nobody will resume
  (decodesignal.cpp:211; `NoLostWakeup`).
* `start_capture` tests for errors before it reads the state, and memory errors are reported
  last: it may report a truncated capture as finished (mcp/tools.cpp:629; `toolError`).
* `get_capture` limits its range by the longest source, and reads past the end of shorter logic
  data (mcp/tools.cpp:430; the condition of `RangeHeld`).
* A stop before the sampling thread has announced itself does not reach the device
  (session.cpp:930; `unheard`).
* After a device error the data received count as saved (session.cpp:1397; `failed`).
* Saving sources with different sample counts reads past the end of the shorter one
  (storesession.cpp:152; `uneven`); a range behind the end passes the test of `start()` with a
  wrapped length if samples arrive in the middle of it (storesession.cpp:166; `wrapped`).
* A segment that grows and is completed between two looks at it is converted without its end
  (signalbase.cpp:760; `raced`); the thread takes the first element of lists that may have been
  emptied (signalbase.cpp:796; `"undefined"`).
* What only `sample()` names is not counted before the first sample is computed: the first
  batch goes past the end of a signal that is shorter than the others (mathsignal.cpp:206;
  `lacking`).
* A math signal is computed for segments that one of its inputs has not begun, or that were
  cleared meanwhile, which an assertion rules out (mathsignal.cpp:554; `"crashed"`); one that
  begins, or is found by `sample()`, in the middle of a batch is read as 0 where it has no
  sample yet, and the result stays (mathsignal.cpp:563; `excused`).
* Every `sample()` in an expression reads the signal of the one evaluated first
  (mathsignal.cpp:75; `found`).
* A math signal waits after it has moved on to a segment that has samples already
  (mathsignal.cpp:492; `missed`); its thread misses an interrupt like the others
  (mathsignal.cpp:258; `deaf`); the sample at which it finds itself recursive is wrong, and it
  stalls from there on (mathsignal.cpp:506; `foundAt`); sample 0 is taken from the segment
  before (mathsignal.cpp:547; `carried`).
* With unit sizes whose chunks do not hold whole blocks, the mip-map misses entries
  (logicsegment.cpp:166; `EvenChunks`); without a mip-map the edge search reports its own start
  (logicsegment.cpp:443); a packet after a failed allocation is stored in the wrong place
  (segment.cpp:200; `failed` in `SampleSequence`).
* An annotation that belongs second in its row is put first (rowdata.cpp:161; `InOrder`), an
  insertion near the front of a longer row leaves the pointers before it stale
  (decodesignal.cpp:1755; `mislaid`), and the table goes on from a position in a list that has
  changed before it (model.cpp:281; `stale`).
* A close inside the close of the same session throws (mainwindow.cpp:416; `crashed`); an
  announcement of a removed session sets the button (mainwindow.cpp:873; `strayed`) and
  closing the last one from its view does not reset it (mainwindow.cpp:887); a write without a
  session id can hit a session that was never read (tools.cpp:160; `misdirected` is about
  those with one); channels, decoders, the configuration and the path change, and `set_session`
  and `start_capture` fail half-way, without a new generation (tools.cpp:160; `Write`).

Seen while modelling: a segment that grows and is completed between the test of its count and
that of its completeness is left undecoded (decodesignal.cpp:1458); the mux thread completes a
segment without notifying the decode thread (decodesignal.cpp:1335); `progress()` may see the
two counters torn, which `StoreProgress` asserts it never does (storesession.cpp:317);
`store_successful` is emitted after cancelled and failed stores too (storesession.cpp:319);
only first segments are stored (storesession.cpp:118); `set_device` leaves triggers and counts
of the old device (session.cpp:662); the list of all annotations is not in order
(decodesignal.cpp:1735); docks of a closed session stay (mainwindow.cpp:395); `save_session`
reports a generation it has not read (tools.cpp:848); `set_data` disconnects the wrong object
(signalbase.cpp:276); a math signal of an acquisition
without segments gets one at every notification (mathsignal.cpp:483); `start_capture` answers
that a capture without samples did not finish (tools.cpp:645); the loop of `get_session` over
segment ids does not end before the first segment has come (tools.cpp:324).  Hazards no
property is about have a note in `PROJECT.json`.

## Not modelled, and the plan

Components without a module are listed in `PROJECT.json` with the reason.  Layout, painting,
formatting, property forms and the vendored expression library stay out.  Next, in this order:

1. *The rest of the session*: the signal list and generated signals, `InputFile`,
   `DeviceManager`, `GlobalSettings` with its undo of tracked changes, and the segment
   selection of the trace view.
2. *Composition*: `Session` with `DecodeSignal` and `Conversion`, the sampling thread of either
   shown to be what `Session` does.
3. *Proofs*: with each of these, its invariants; what the edge searches compute stays with TLC,
   they are recursive.
