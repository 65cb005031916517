----------------------- MODULE DecodeSignalProperties -----------------------
(* The correctness properties of DecodeSignal. *)
EXTENDS DecodeSignal

-----------------------------------------------------------------------------
(* Safety                                                                  *)

\* decode_data never announces or sends samples that the input has not got, and
\* reports as processed no more than it announced, one chunk at most apart.
DecodesOnlyReceived ==
    \A i \in 1 .. Len(segs) :
        /\ segs[i].excl <= segs[i].incl
        /\ segs[i].incl <= segs[i].excl + ChunkSamples
        /\ i = Len(segs) /\ dpc \notin {"none", "done"} => segs[i].incl <= InputSegment.count

\* "Stop the decode thread before destroying the srd session to avoid a race"
\* (decodesignal.cpp:169): no thread of ours is alive when results and session go.
TearsDownAlone ==
    gpc \in {"finish", "launch", "gone"} => dpc = "none" /\ mpc = "none"

\* The srd session is neither destroyed nor replaced while the decode thread lives,
\* except by that thread itself when it first creates it.
SessionOutlivesUse ==
    [][srd' # srd => dpc = "none" \/ (dpc \in {"start", "startWoken"} /\ srd = 0)]_vars

\* Samples never go to decoder instances built for another stack or channel map than
\* the one of the last change that stack_config_changed_ recorded.  begin_decode makes one
\* that it does not record, when a channel has lost its data (DropVanished).
SessionMatchesStack ==
    dpc = "send" /\ gpc = "idle" => srd \in {0, noted}

\* "Make sure that all assigned channels still provide logic data" (decodesignal.cpp:237):
\* a decoder at rest that is told of what its sources lose does not run on a channel
\* whose converted data are gone.
DecodesProvidedChannels ==
    gpc = "idle" /\ dpc # "none" /\ Used \subseteq connected => Provided = Used

\* The mux thread lives only beside a decode thread that consumes its output.
MuxServesDecoder ==
    mpc # "none" => \/ gpc \in {"stopMux", "joinMux"}
                    \/ dpc # "none" /\ din = Mux

\* The muxed Logic holds no sample that some assigned source has not delivered, and
\* is complete only where all of them are (as long as they report being cleared).
MuxFollowsSources ==
    gpc = "idle" /\ mpc # "none" /\ Used \subseteq connected =>
        \A i \in 1 .. Len(muxed), s \in Used :
            /\ i <= Len(input[s])
            /\ muxed[i].count <= input[s][i].count
            /\ muxed[i].complete => input[s][i].complete

\* What the view may observe of the decoder's progress.
Progress == INSTANCE DecodeProgress WITH result <- segs
ProgressSpec == Progress!Spec

-----------------------------------------------------------------------------
(* Liveness                                                                *)

\* No notification fell into the window between a thread's last look at its input
\* and its wait(), and no paused thread was left behind by resume or join.
NoLostWakeup ==
    /\ missed = {}
    /\ dpc = "pauseWait" => paused /\ gpc # "joinDecode"

\* Unless a wakeup is lost, begin_decode and reset_decode never hang in a join, however
\* the program may end.
JoinsReturn ==
    []NoLostWakeup =>
        (gpc \in {"joinDecode", "joinMux"} ~> gpc \notin {"joinDecode", "joinMux"} \/ ~Alive)

Decoding == gpc = "idle" /\ dpc \notin {"none", "done"} /\ ~paused

\* The last segment with data is decoded as far as all its sources have delivered.
CaughtUp ==
    LET n == InputSegmentCount IN
    n > 0 /\ WorkingSampleCount(n - 1) > 0 =>
        Len(segs) = n /\ segs[n].excl = WorkingSampleCount(n - 1)

\* Unless a wakeup is lost or a source is not connected, a running decoder catches
\* up with its input whenever that stands still (as it must: it is bounded).
DecoderCatchesUp ==
    [](NoLostWakeup /\ (gpc = "idle" => Used \subseteq connected))
        => []<>(Decoding => CaughtUp)
=============================================================================
