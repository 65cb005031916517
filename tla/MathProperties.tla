--------------------------- MODULE MathProperties ----------------------------
(***************************************************************************)
(* What the users of a math signal (traces, conversions, export) rely on.  *)
(***************************************************************************)
EXTENDS MathSignal

\* The signal is going to be restarted: an acquisition has begun, and its state Running
\* has not yet reached the GUI thread, or not the generation thread.
RestartDue ==
    \/ sampler \in {"starting", "prepared"} \/ state = "AwaitingTrigger"
    \/ \E i \in DOMAIN events : events[i] = "running"
    \/ gpc # "idle"

\* Segment i is complete because all its inputs are and it is as long as they; without
\* inputs it is as long as the segment of the session, which has stopped.
HoldsAll(i) ==
    IF inputs = {} THEN own[i].count = SessionCount(i)
    ELSE \A s \in inputs \ {Self} :
            Has(s, i) /\ data[s][i].complete /\ own[i].count = data[s][i].count

\* What is generated belongs to this acquisition, however the inputs grow, end and are
\* cleared meanwhile; no sample was computed before all signals it reads had theirs, and a
\* complete segment holds everything.  The latter two hold unless more was counted than one
\* of the signals had (lacking): because sample() had not looked it up yet and it was
\* shorter than the others, or than the session's longest, or because it had not even begun
\* the segment.
GeneratesFromReceived ==
    ~RestartDue =>
        \A i \in DOMAIN own :
            /\ own[i].acq = acq
            /\ ~lacking =>
                /\ \A s \in inputs \ {Self} : Has(s, i) => own[i].count <= data[s][i].count
                /\ own[i].complete => HoldsAll(i)

\* Nothing is left to happen but the next acquisition or the user's next edit.
Quiescent ==
    /\ sampler = "off" /\ state = "Stopped" /\ events = <<>> /\ gpc = "idle"
    /\ tpc \in {"wait", "ratewait"}

Available == IF inputs = {} THEN Len(counts) ELSE Max({Len(data[s]) : s \in inputs})

\* When everything has come to rest, the signal has all segments its inputs allow: those
\* before the last are complete and the last has all that there is to count, and more only
\* if lacking.  It has none while no segment of the session has a samplerate.  That holds
\* unless the thread waits for more input although there is some (missed), or reads
\* itself.
GeneratesAll ==
    Quiescent /\ ~missed /\ Self \notin inputs =>
        IF own = <<>> THEN ~Rated
        ELSE /\ \A i \in 1 .. Len(own) - 1 : own[i].complete
             /\ own[Len(own)].count >= WorkingCount(Len(own))
             /\ ~lacking => own[Len(own)].count = WorkingCount(Len(own))
             /\ own[Len(own)].complete => Len(own) >= Available

\* reset_generation() returns, unless its notification was lost or the program has ended.
ResetReturns == []~deaf => (gpc = "join" ~> gpc # "join" \/ tpc = "crashed")
=============================================================================
