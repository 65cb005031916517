------------------------- MODULE Conversion_proofs --------------------------
(***************************************************************************)
(* Whose samples a converted signal holds: proofs about the conversion     *)
(* thread, which the clearing of its input and of its output, restarts and *)
(* the growth of the segment it works on may overtake between any two of   *)
(* its steps.                                                              *)
(***************************************************************************)
EXTENDS ConversionProperties, SequenceTheorems, TLAPS

-----------------------------------------------------------------------------
(* The invariant                                                           *)

Sampled   == [count : Nat, complete : BOOLEAN]
Converted == [acq : Nat, index : Nat, count : Nat, complete : BOOLEAN]
Held      == [acq : Nat, index : Nat]
Signals   == {"running", "minmax", "added", "completed"}

\* Where the thread is: without a segment, about to take its output, or at work.
Beginning == {"start", "block0", "wait0", "woken"}
Taking    == {"front", "back"}
Working   == {"count", "full", "convert", "recount", "refull", "leave", "block", "wait", "loop"}
Ended     == {"none", "done", "undefined"}

SamplerTypeOK ==
    /\ analog \in Seq(Sampled) /\ acq \in Nat
    /\ sampler \in {"off", "starting", "awaiting", "running"}
    /\ events \in Seq(Signals)
GuiTypeOK ==
    /\ conv \in BOOLEAN /\ gpc \in {"idle", "join", "gone"}
    /\ goal \in {"none", "retype", "restart", "destroy"}
    /\ timer \in BOOLEAN /\ edits \in Nat /\ interrupt \in BOOLEAN
ThreadTypeOK ==
    /\ logic \in Seq(Converted)
    /\ tpc \in Beginning \union Taking \union Working \union Ended
    /\ input \in Held /\ frozen \in Sampled /\ output \in Nat /\ orphan \in Converted
    /\ cursor \in Nat /\ end \in Nat /\ full \in BOOLEAN /\ more \in BOOLEAN
    /\ missed \in BOOLEAN /\ raced \in BOOLEAN /\ deaf \in BOOLEAN
TypeOK == SamplerTypeOK /\ GuiTypeOK /\ ThreadTypeOK

\* The thread's pointers lead somewhere, to a segment of a list or to one of its own.
PlaceInv ==
    /\ output <= Len(logic)
    /\ tpc \in Taking \union Working => input.index > 0
    /\ input.acq = acq => input.index <= Len(analog)
    /\ input.acq <= acq
    /\ tpc \in Beginning => logic = <<>> /\ input = NoInput /\ output = 0

\* No conversion, no converted data; no data, no converted ones; only the last segment is
\* still being written, and before a trigger it is empty.
EmptyInv ==
    /\ ~conv => tpc \in {"none", "done"} /\ logic = <<>>
    /\ analog = <<>> => logic = <<>>
    /\ sampler = "starting" => analog = <<>>
    /\ \A i \in 1 .. Len(analog) : i # Len(analog) => analog[i].complete
    /\ sampler = "awaiting" => \A i \in 1 .. Len(analog) : analog[i].count = 0 /\ ~analog[i].complete

\* Running has not yet reached the conversion.
Due ==
    \/ sampler \in {"starting", "awaiting"}
    \/ \E i \in 1 .. Len(events) : events[i] = "running"

\* Each logic segment belongs to the analog segment of its position.
OwnLogic ==
    /\ Len(logic) <= Len(analog)
    /\ \A i \in 1 .. Len(logic) :
        /\ logic[i].acq = acq /\ logic[i].index = i /\ logic[i].count <= analog[i].count
        /\ logic[i].complete /\ ~raced =>
              analog[i].complete /\ logic[i].count = analog[i].count

\* The thread works on the last of them.
OwnPlace ==
    /\ tpc \in Taking \union Working =>
          logic # <<>> /\ input.acq = acq /\ input.index = Len(logic)
    /\ tpc = "front" => Len(logic) = 1
    /\ tpc \in Working => output = Len(logic)

\* What its locals say of both segments.
OwnCounts ==
    /\ tpc \in {"full", "convert", "refull"} =>
          cursor = Output.count /\ cursor <= end /\ end <= Input.count
    /\ tpc = "recount" => end = Output.count
    /\ tpc \in {"full", "refull"} /\ Input.complete /\ ~raced => end = Input.count
    /\ tpc \in {"convert", "recount"} /\ full /\ ~raced => Input.complete /\ end = Input.count
    /\ tpc = "refull" /\ full /\ ~raced => Input.complete /\ cursor = Input.count
    /\ tpc = "leave" /\ Input.complete /\ ~raced => Output.complete

Clean == OwnLogic /\ OwnPlace /\ OwnCounts

\* Unless a restart is due everything is of this acquisition, or there is nothing: a thread
\* left over from an acquisition that was followed by one that did not start.
OwnInv == ~Due /\ gpc = "idle" => Clean \/ (sampler = "off" /\ analog = <<>>)

\* The inductive invariant.
IInv == TypeOK /\ PlaceInv /\ EmptyInv /\ OwnInv

-----------------------------------------------------------------------------
(* Lemmas about the data                                                   *)

\* The segments of Analog are segments.
LEMMA SampledType ==
    ASSUME NEW q \in Seq(Sampled), NEW i \in 1 .. Len(q)
    PROVE  q[i] \in Sampled /\ q[i].count \in Nat /\ q[i].complete \in BOOLEAN
  <1>1. q[i] \in Sampled
    OBVIOUS
  <1> QED BY <1>1 DEF Sampled

\* The segments of the converted Logic are segments.
LEMMA ConvertedType ==
    ASSUME NEW q \in Seq(Converted), NEW i \in 1 .. Len(q)
    PROVE  /\ q[i] \in Converted /\ q[i].count \in Nat /\ q[i].complete \in BOOLEAN
           /\ q[i].acq \in Nat /\ q[i].index \in Nat
  <1>1. q[i] \in Converted
    OBVIOUS
  <1> QED BY <1>1 DEF Converted

\* asegment is a segment, of the list or of the thread.
LEMMA InputType ==
    ASSUME TypeOK, PlaceInv, tpc \in Taking \union Working \/ input.index > 0
    PROVE  Input \in Sampled /\ Input.count \in Nat /\ Input.complete \in BOOLEAN
  <1>1. input.index \in Nat \ {0}
    BY DEF TypeOK, ThreadTypeOK, PlaceInv, Held
  <1>2. CASE input.acq = acq
    <2>1. analog \in Seq(Sampled) /\ input.index \in 1 .. Len(analog)
      BY <1>1, <1>2 DEF TypeOK, SamplerTypeOK, PlaceInv
    <2> QED BY <1>2, <2>1, SampledType DEF Input
  <1>3. CASE input.acq # acq
    BY <1>3 DEF Input, TypeOK, ThreadTypeOK, Sampled
  <1> QED BY <1>2, <1>3

\* lsegment is a segment, of the list or of the thread.
LEMMA OutputType ==
    ASSUME TypeOK, PlaceInv
    PROVE  Output \in Converted /\ Output.count \in Nat /\ Output.complete \in BOOLEAN
  <1>1. CASE output = 0
    BY <1>1 DEF Output, TypeOK, ThreadTypeOK, Converted
  <1>2. CASE output # 0
    <2>1. logic \in Seq(Converted) /\ output \in 1 .. Len(logic)
      BY <1>2 DEF TypeOK, ThreadTypeOK, PlaceInv
    <2> QED BY <1>2, <2>1, ConvertedType DEF Output
  <1> QED BY <1>1, <1>2

\* What the samples of a list and their completion may become under the readers of it.
Grows(p, q) ==
    /\ Len(p) <= Len(q)
    /\ \A i \in 1 .. Len(p) :
        /\ p[i].count <= q[i].count
        /\ p[i].complete => q[i] = p[i]
        /\ i # Len(p) => q[i] = p[i]
        /\ q[i].complete /\ ~p[i].complete => q[i].count = p[i].count

\* A list that stays as it is has grown by nothing.
LEMMA GrowsReflexive == ASSUME NEW q \in Seq(Sampled) PROVE Grows(q, q)
  <1>1. \A i \in 1 .. Len(q) : q[i].count \in Nat
    BY SampledType
  <1> QED BY <1>1 DEF Grows

\* push_segment() lets the list grow.
LEMMA AppendGrows ==
    ASSUME NEW q \in Seq(Sampled)
    PROVE  LET r == Append(q, EmptySegment) IN
           /\ r \in Seq(Sampled) /\ Grows(q, r) /\ Len(r) = Len(q) + 1
           /\ r[Len(r)] = EmptySegment /\ \A i \in 1 .. Len(q) : r[i] = q[i]
  <1>1. EmptySegment \in Sampled
    BY DEF EmptySegment, Sampled
  <1>2. \A i \in 1 .. Len(q) : q[i].count \in Nat
    BY SampledType
  <1> QED BY <1>1, <1>2 DEF Grows

\* The sampling thread writes the last segment alone.
LEMMA WriteGrows ==
    ASSUME NEW q \in Seq(Sampled), NEW r \in Seq(Sampled), q # <<>>, Len(r) = Len(q),
           \A i \in 1 .. Len(q) : i # Len(q) => r[i] = q[i],
           ~q[Len(q)].complete, q[Len(q)].count <= r[Len(q)].count,
           r[Len(q)].complete => r[Len(q)].count = q[Len(q)].count
    PROVE  Grows(q, r)
  <1>1. \A i \in 1 .. Len(q) : q[i].count \in Nat
    BY SampledType
  <1> QED BY <1>1 DEF Grows

\* A list of signals keeps those it has when more are queued.
LEMMA QueueMore ==
    ASSUME NEW q \in Seq(Signals), NEW r \in Seq(Signals)
    PROVE  /\ q \o r \in Seq(Signals) /\ Len(q \o r) = Len(q) + Len(r)
           /\ \A i \in 1 .. Len(q) : i \in 1 .. Len(q \o r) /\ (q \o r)[i] = q[i]
           /\ \A i \in 1 .. Len(r) : Len(q) + i \in 1 .. Len(q \o r) /\ (q \o r)[Len(q) + i] = r[i]
  OBVIOUS

-----------------------------------------------------------------------------
(* The sampling thread                                                     *)

\* What the sampling thread does to the data.
LEMMA SamplerData ==
    ASSUME TypeOK, EmptyInv, SamplerStep
    PROVE  /\ analog' \in Seq(Sampled) /\ Grows(analog, analog')
           /\ \A i \in 1 .. Len(analog') : i # Len(analog') => analog'[i].complete
           /\ sampler = "off" => UNCHANGED analog
  <1>1. analog \in Seq(Sampled) /\ Grows(analog, analog)
    BY GrowsReflexive DEF TypeOK, SamplerTypeOK
  <1>2. CASE Announce \/ EndCapture
    BY <1>1, <1>2 DEF Announce, EndCapture, EmptyInv
  <1>3. CASE NewSegment
    <2>1. analog' = Append(analog, EmptySegment) /\ ~Growing /\ sampler # "off"
      BY <1>3 DEF NewSegment
    <2>2. \A i \in 1 .. Len(analog) : analog[i].complete
      BY <2>1 DEF Growing, Last, EmptyInv
    <2> QED BY <1>1, <2>1, <2>2, AppendGrows
  <1>4. ASSUME NEW v \in Sampled, analog # <<>>, ~Last(analog).complete, Last(analog).count <= v.count,
               v.complete => v.count = Last(analog).count, sampler # "off",
               analog' = [analog EXCEPT ![Len(analog)] = v]
        PROVE  /\ analog' \in Seq(Sampled) /\ Grows(analog, analog')
               /\ \A i \in 1 .. Len(analog') : i # Len(analog') => analog'[i].complete
               /\ sampler = "off" => UNCHANGED analog
    <2>1. \A i \in 1 .. Len(analog) : i # Len(analog) => analog[i].complete
      BY DEF EmptyInv
    <2>2. ~analog[Len(analog)].complete /\ analog[Len(analog)].count <= v.count
          /\ (v.complete => v.count = analog[Len(analog)].count)
      BY <1>4 DEF Last
    <2>3. /\ analog' \in Seq(Sampled) /\ Len(analog') = Len(analog) /\ analog'[Len(analog)] = v
          /\ \A i \in 1 .. Len(analog) : i # Len(analog) => analog'[i] = analog[i]
      BY <1>1, <1>4
    <2>4. Grows(analog, analog')
      BY <1>1, <1>4, <2>2, <2>3, WriteGrows
    <2> QED BY <1>4, <2>1, <2>3, <2>4
  <1>5. ASSUME NEW n \in 1 .. MaxSamples, NEW widens \in BOOLEAN, Feed(n, widens)
        PROVE  \E v \in Sampled :
                  /\ analog' = [analog EXCEPT ![Len(analog)] = v]
                  /\ Last(analog).count <= v.count /\ ~v.complete
    <2> DEFINE v == [analog[Len(analog)] EXCEPT !.count = @ + n]
    <2>1. analog # <<>> /\ ~Last(analog).complete /\ Len(analog) \in 1 .. Len(analog)
      BY <1>1, <1>5 DEF Feed, Growing
    <2>2. v \in Sampled /\ Last(analog).count <= v.count /\ ~v.complete
      <3>1. analog[Len(analog)] \in Sampled /\ n \in Nat
        BY <1>1, <2>1, ConversionAssumption
      <3> QED BY <2>1, <3>1 DEF Sampled, Last
    <2>3. analog' = [analog EXCEPT ![Len(analog)] = v]
      BY <1>5 DEF Feed
    <2> QED BY <2>2, <2>3
  <1>6. ASSUME Complete
        PROVE  \E v \in Sampled :
                  /\ analog' = [analog EXCEPT ![Len(analog)] = v]
                  /\ v.count = Last(analog).count
    <2> DEFINE v == [analog[Len(analog)] EXCEPT !.complete = TRUE]
    <2>1. analog # <<>> /\ Len(analog) \in 1 .. Len(analog)
      BY <1>1, <1>6 DEF Complete, Growing
    <2>2. v \in Sampled /\ v.count = Last(analog).count
      <3>1. analog[Len(analog)] \in Sampled
        BY <1>1, <2>1
      <3> QED BY <3>1 DEF Sampled, Last
    <2>3. analog' = [analog EXCEPT ![Len(analog)] = v]
      BY <1>6 DEF Complete
    <2> QED BY <2>2, <2>3
  <1>7. ASSUME NEW n \in 1 .. MaxSamples, NEW widens \in BOOLEAN, Feed(n, widens)
        PROVE  /\ analog' \in Seq(Sampled) /\ Grows(analog, analog')
               /\ \A i \in 1 .. Len(analog') : i # Len(analog') => analog'[i].complete
               /\ sampler = "off" => UNCHANGED analog
    <2>1. analog # <<>> /\ ~Last(analog).complete /\ sampler # "off"
      BY <1>7 DEF Feed, Growing
    <2> QED BY <1>4, <1>5, <1>7, <2>1
  <1>8. CASE Complete
    <2>1. analog # <<>> /\ ~Last(analog).complete /\ sampler # "off" /\ Last(analog).count \in Nat
      <3>1. analog # <<>> /\ ~Last(analog).complete /\ sampler # "off"
        BY <1>8 DEF Complete, Growing
      <3>2. Len(analog) \in 1 .. Len(analog)
        BY <1>1, <3>1
      <3> QED BY <1>1, <3>1, <3>2, SampledType DEF Last
    <2> QED BY <1>4, <1>6, <1>8, <2>1
  <1> QED BY <1>2, <1>3, <1>7, <1>8 DEF SamplerStep

\* Samples are announced, and with the first ones after a trigger, Running.
LEMMA FeedAnnounces ==
    ASSUME events \in Seq(Signals), NEW n \in 1 .. MaxSamples, NEW widens \in BOOLEAN, Feed(n, widens)
    PROVE  \E r \in Seq(Signals) :
              /\ events' = events \o r
              /\ \E i \in 1 .. Len(r) : r[i] = "added"
              /\ sampler = "awaiting" => \E i \in 1 .. Len(r) : r[i] = "running"
  <1> DEFINE a == IF widens THEN <<"minmax">> ELSE <<>>
             b == IF sampler = "awaiting" THEN <<"running">> ELSE <<>>
             c == a \o <<"added">>
             r == c \o b
  <1>1. a \in Seq(Signals) /\ b \in Seq(Signals) /\ <<"added">> \in Seq(Signals)
    <2>1. <<"minmax">> \in Seq(Signals) /\ <<"running">> \in Seq(Signals) /\ <<>> \in Seq(Signals)
          /\ <<"added">> \in Seq(Signals)
      BY DEF Signals
    <2> QED BY <2>1
  <1>2. c \in Seq(Signals) /\ \E i \in 1 .. Len(c) : c[i] = "added"
    <2> DEFINE d == <<"added">>
    <2>1. 1 \in 1 .. Len(d) /\ d[1] = "added" /\ d \in Seq(Signals)
      BY <1>1
    <2> HIDE DEF a, d
    <2>2. a \o d \in Seq(Signals) /\ \A i \in 1 .. Len(d) : Len(a) + i \in 1 .. Len(a \o d)
                                                        /\ (a \o d)[Len(a) + i] = d[i]
      BY <1>1, <2>1, QueueMore
    <2>3. a \o d \in Seq(Signals) /\ \E i \in 1 .. Len(a \o d) : (a \o d)[i] = "added"
      BY <2>1, <2>2
    <2> QED BY <2>3 DEF d
  <1>3. /\ r \in Seq(Signals)
        /\ \A i \in 1 .. Len(c) : i \in 1 .. Len(r) /\ r[i] = c[i]
        /\ \A i \in 1 .. Len(b) : Len(c) + i \in 1 .. Len(r) /\ r[Len(c) + i] = b[i]
    BY <1>1, <1>2, QueueMore
  <1>4. sampler = "awaiting" => \E i \in 1 .. Len(r) : r[i] = "running"
    <2> SUFFICES ASSUME sampler = "awaiting" PROVE \E i \in 1 .. Len(r) : r[i] = "running"
      OBVIOUS
    <2>1. 1 \in 1 .. Len(b) /\ b[1] = "running"
      OBVIOUS
    <2> HIDE DEF r, c, a, b
    <2> QED BY <1>3, <2>1
  <1>5. \E i \in 1 .. Len(r) : r[i] = "added"
    <2> HIDE DEF r, c
    <2> QED BY <1>2, <1>3
  <1>6. events' = events \o r
    <2>1. events' = ((events \o a) \o <<"added">>) \o b
      BY DEF Feed
    <2> HIDE DEF a, b
    <2>2. (events \o a) \o <<"added">> = events \o c
      BY <1>1, ConcatAssociative
    <2>3. (events \o c) \o b = events \o (c \o b)
      <3>1. c \in Seq(Signals) /\ b \in Seq(Signals)
        BY <1>1, <1>2
      <3> HIDE DEF c
      <3> QED BY <3>1, ConcatAssociative
    <2> QED BY <2>1, <2>2, <2>3
  <1> HIDE DEF r
  <1> QED BY <1>3, <1>4, <1>5, <1>6

\* What it does to the queue: signals are only added, and whenever it starts to run, Running.
LEMMA SamplerQueue ==
    ASSUME TypeOK, SamplerStep
    PROVE  /\ events' \in Seq(Signals)
           /\ sampler' \in {"off", "starting", "awaiting", "running"}
           /\ Due => Due' \/ (sampler \in {"starting", "awaiting"} /\ sampler' = "off")
           /\ sampler' = "awaiting" => sampler \in {"starting", "awaiting"}
           /\ sampler' # "starting"
           /\ edits' \in Nat
  <1>1. events \in Seq(Signals) /\ edits \in Nat /\ sampler \in {"off", "starting", "awaiting", "running"}
    BY DEF TypeOK, SamplerTypeOK, GuiTypeOK
  <1>2. ASSUME NEW r \in Seq(Signals), events' = events \o r
        PROVE  /\ events' \in Seq(Signals)
               /\ (\E i \in 1 .. Len(events) : events[i] = "running")
                     => \E i \in 1 .. Len(events') : events'[i] = "running"
               /\ (\E i \in 1 .. Len(r) : r[i] = "running")
                     => \E i \in 1 .. Len(events') : events'[i] = "running"
    <2>1. /\ events' \in Seq(Signals) /\ Len(events') = Len(events) + Len(r)
          /\ \A i \in 1 .. Len(events) : i \in 1 .. Len(events') /\ events'[i] = events[i]
          /\ \A i \in 1 .. Len(r) : Len(events) + i \in 1 .. Len(events')
                                    /\ events'[Len(events) + i] = r[i]
      BY <1>1, <1>2, QueueMore
    <2> QED BY <2>1
  <1>3. \A e \in Signals : Append(events, e) = events \o <<e>> /\ <<e>> \in Seq(Signals) /\ Len(<<e>>) = 1
    BY <1>1
  <1>4. <<>> \in Seq(Signals) /\ events \o <<>> = events
    BY <1>1
  <1>5. CASE Announce
    <2>1. CASE sampler' = "running" /\ events' = Append(events, "running")
      <3>1. <<"running">> \in Seq(Signals) /\ events' = events \o <<"running">> /\ Len(<<"running">>) = 1
        BY <1>3, <2>1 DEF Signals
      <3>2. \E i \in 1 .. Len(<<"running">>) : <<"running">>[i] = "running"
        BY <3>1
      <3>3. events' \in Seq(Signals) /\ \E i \in 1 .. Len(events') : events'[i] = "running"
        BY <1>2, <3>1, <3>2
      <3> QED BY <1>1, <1>5, <2>1, <3>3 DEF Announce, Due
    <2>2. CASE sampler' \in {"awaiting", "off"} /\ UNCHANGED events
      BY <1>1, <1>5, <2>2 DEF Announce, Due
    <2> QED BY <1>5, <2>1, <2>2 DEF Announce
  <1>6. CASE NewSegment
    BY <1>1, <1>6 DEF NewSegment, Due
  <1>7. ASSUME NEW n \in 1 .. MaxSamples, NEW widens \in BOOLEAN, Feed(n, widens)
        PROVE  /\ events' \in Seq(Signals) /\ sampler' = "running" /\ edits' \in Nat
               /\ Due => Due'
    <2>1. sampler' = "running" /\ edits' \in {edits, edits + 1} /\ sampler \in {"running", "awaiting"}
      BY <1>7 DEF Feed
    <2>2. PICK r \in Seq(Signals) :
              /\ events' = events \o r
              /\ sampler = "awaiting" => \E i \in 1 .. Len(r) : r[i] = "running"
      BY <1>1, <1>7, FeedAnnounces
    <2>3. events' \in Seq(Signals) /\ (Due => \E i \in 1 .. Len(events') : events'[i] = "running")
      BY <1>2, <2>1, <2>2 DEF Due
    <2> QED BY <1>1, <2>1, <2>3 DEF Due
  <1>8. CASE Complete
    <2>1. CASE events' = Append(events, "completed")
      <3>1. <<"completed">> \in Seq(Signals) /\ events' = events \o <<"completed">>
        BY <1>3, <2>1 DEF Signals
      <3> QED BY <1>1, <1>2, <1>8, <3>1 DEF Complete, Due
    <2>2. CASE events' = events
      BY <1>1, <1>8, <2>2 DEF Complete, Due
    <2> QED BY <1>8, <2>1, <2>2 DEF Complete
  <1>9. CASE EndCapture
    BY <1>1, <1>9 DEF EndCapture, Due
  <1> QED BY <1>5, <1>6, <1>7, <1>8, <1>9 DEF SamplerStep

\* A completion that the thread may have missed between two looks is noted.
LEMMA SamplerRaces ==
    ASSUME TypeOK, SamplerStep
    PROVE  /\ raced' \in BOOLEAN /\ (raced => raced')
           /\ \A i \in 1 .. Len(analog) :
                 ~analog[i].complete /\ analog'[i].complete /\ tpc \in BetweenLooks
                 /\ input.acq = acq /\ input.index = i => raced'
  <1>1. analog \in Seq(Sampled) /\ raced \in BOOLEAN /\ input \in Held
    BY DEF TypeOK, SamplerTypeOK, ThreadTypeOK
  <1>2. CASE Announce \/ EndCapture
    BY <1>1, <1>2 DEF Announce, EndCapture
  <1>3. CASE NewSegment
    <2>1. analog' = Append(analog, EmptySegment) /\ UNCHANGED raced
      BY <1>3 DEF NewSegment
    <2> QED BY <1>1, <2>1
  <1>4. ASSUME NEW n \in 1 .. MaxSamples, NEW widens \in BOOLEAN, Feed(n, widens)
        PROVE  UNCHANGED raced /\ \A i \in 1 .. Len(analog) : analog'[i].complete = analog[i].complete
    <2>1. UNCHANGED raced /\ analog' = [analog EXCEPT ![Len(analog)].count = @ + n]
      BY <1>4 DEF Feed
    <2>2. \A i \in 1 .. Len(analog) : analog[i] \in Sampled
      BY <1>1
    <2> QED BY <1>1, <2>1, <2>2 DEF Sampled
  <1>5. CASE Complete
    <2>1. analog' = [analog EXCEPT ![Len(analog)].complete = TRUE]
          /\ raced' = (raced \/ (tpc \in BetweenLooks /\ input = [acq |-> acq, index |-> Len(analog)]))
      BY <1>5 DEF Complete
    <2>2. \A i \in 1 .. Len(analog) : i # Len(analog) => analog'[i] = analog[i]
      BY <1>1, <2>1
    <2>3. input.acq = acq /\ input.index = Len(analog) => input = [acq |-> acq, index |-> Len(analog)]
      BY <1>1 DEF Held
    <2>4. raced' \in BOOLEAN /\ (raced => raced')
      BY <1>1, <2>1, Zenon
    <2> QED BY <2>1, <2>2, <2>3, <2>4
  <1> QED BY <1>1, <1>2, <1>3, <1>4, <1>5 DEF SamplerStep

\* Growing input does not disturb the thread: what it has converted is still there, and a
\* segment it has seen complete does not change.
LEMMA CleanWhileSampling ==
    ASSUME TypeOK, PlaceInv, Clean, raced' \in BOOLEAN, raced => raced',
           analog' \in Seq(Sampled), Grows(analog, analog'),
           UNCHANGED <<acq, logic, tpc, localVars>>,
           \A i \in 1 .. Len(analog) :
              ~analog[i].complete /\ analog'[i].complete /\ tpc \in BetweenLooks
              /\ input.acq = acq /\ input.index = i => raced'
    PROVE  Clean'
  <1>1. /\ UNCHANGED <<acq, logic, tpc, input, frozen, output, orphan, cursor, end, full>>
        /\ Output' = Output
    BY DEF localVars, Output
  <1>2. /\ analog \in Seq(Sampled) /\ logic \in Seq(Converted) /\ raced \in BOOLEAN
        /\ cursor \in Nat /\ end \in Nat
    BY DEF TypeOK, SamplerTypeOK, ThreadTypeOK
  <1>3. ASSUME NEW i \in 1 .. Len(analog)
        PROVE  /\ i \in 1 .. Len(analog')
               /\ analog[i].count \in Nat /\ analog'[i].count \in Nat
               /\ analog[i].count <= analog'[i].count
               /\ analog[i].complete => analog'[i].complete /\ analog'[i].count = analog[i].count
               /\ analog'[i].complete => analog'[i].count = analog[i].count
    <2>1. i \in 1 .. Len(analog')
      BY <1>2 DEF Grows
    <2>2. analog[i].count \in Nat /\ analog'[i].count \in Nat
      BY <1>2, <2>1, SampledType
    <2>3. analog[i].complete => analog'[i] = analog[i]
      BY DEF Grows
    <2>4. analog[i].count <= analog'[i].count
          /\ (analog'[i].complete /\ ~analog[i].complete => analog'[i].count = analog[i].count)
      BY DEF Grows
    <2> QED BY <2>1, <2>2, <2>3, <2>4
  <1>4. OwnLogic'
    <2>1. Len(logic) <= Len(analog')
      BY <1>2 DEF Clean, OwnLogic, Grows
    <2>2. ASSUME NEW i \in 1 .. Len(logic)
          PROVE  /\ logic[i].acq = acq /\ logic[i].index = i /\ logic[i].count <= analog'[i].count
                 /\ logic[i].complete /\ ~raced' =>
                       analog'[i].complete /\ logic[i].count = analog'[i].count
      <3>1. i \in 1 .. Len(analog) /\ logic[i].count \in Nat
        BY <1>2, ConvertedType DEF Clean, OwnLogic
      <3>2. logic[i].complete /\ ~raced => analog[i].complete /\ logic[i].count = analog[i].count
        BY DEF Clean, OwnLogic
      <3>3. logic[i].acq = acq /\ logic[i].index = i /\ logic[i].count <= analog[i].count
        BY DEF Clean, OwnLogic
      <3> QED BY <1>2, <1>3, <3>1, <3>2, <3>3
    <2> QED BY <1>1, <2>1, <2>2 DEF OwnLogic
  <1>5. OwnPlace'
    BY <1>1 DEF Clean, OwnPlace
  <1>6. OwnCounts'
    <2>1. CASE tpc \in Working
      <3>1. input.acq = acq /\ input.index \in 1 .. Len(analog)
        BY <1>2, <2>1 DEF Clean, OwnPlace, PlaceInv, TypeOK, ThreadTypeOK, Held
      <3>2. Input = analog[input.index] /\ Input' = analog'[input.index]
        BY <1>1, <3>1 DEF Input
      <3>3. /\ Input.count \in Nat /\ Input'.count \in Nat /\ Input.count <= Input'.count
            /\ Input.complete => Input'.complete /\ Input'.count = Input.count
            /\ Input'.complete => Input'.count = Input.count
        BY <1>3, <3>1, <3>2
      <3>4. Input'.complete /\ ~Input.complete /\ tpc \in BetweenLooks => raced'
        BY <3>1, <3>2
      <3>5. OwnCounts
        BY DEF Clean
      <3>6. /\ tpc \in {"full", "convert", "refull"} =>
                 cursor = Output.count /\ cursor <= end /\ end <= Input'.count
            /\ tpc = "recount" => end = Output.count
        BY <1>2, <3>3, <3>5 DEF OwnCounts
      <3>7. /\ tpc \in {"full", "refull"} /\ Input'.complete /\ ~raced' => end = Input'.count
            /\ tpc = "leave" /\ Input'.complete /\ ~raced' => Output.complete
        BY <1>2, <3>3, <3>4, <3>5 DEF OwnCounts, BetweenLooks
      <3>8. /\ tpc \in {"convert", "recount"} /\ full /\ ~raced' => Input'.complete /\ end = Input'.count
            /\ tpc = "refull" /\ full /\ ~raced' => Input'.complete /\ cursor = Input'.count
        BY <1>2, <3>3, <3>5 DEF OwnCounts
      <3> QED BY <1>1, <3>6, <3>7, <3>8 DEF OwnCounts
    <2>2. CASE tpc \notin Working
      BY <1>1, <2>2 DEF OwnCounts, Working
    <2> QED BY <2>1, <2>2
  <1> QED BY <1>4, <1>5, <1>6 DEF Clean

\* What was due still is, or the device did not start, or never triggered.
LEMMA SamplerDue ==
    ASSUME TypeOK, EmptyInv, SamplerStep, ~Due'
    PROVE  (sampler' = "off" /\ analog' = <<>>) \/ (~Due /\ sampler # "off")
  <1>1. CASE sampler \in {"starting", "awaiting"} /\ sampler' = "off"
    <2>1. Announce \/ EndCapture
      BY <1>1 DEF SamplerStep, NewSegment, Feed, Complete
    <2>2. UNCHANGED analog
      BY <2>1 DEF Announce, EndCapture
    <2>3. CASE Announce
      BY <1>1, <2>2, <2>3 DEF Announce, EmptyInv
    <2>4. CASE EndCapture
      <3>1. sampler = "awaiting" /\ (Growing => Last(analog).count > 0)
        BY <1>1, <2>4 DEF EndCapture
      <3>2. analog # <<>> => Len(analog) \in 1 .. Len(analog)
        BY DEF TypeOK, SamplerTypeOK
      <3>3. analog = <<>>
        BY <3>1, <3>2 DEF EmptyInv, Growing, Last
      <3> QED BY <1>1, <2>2, <3>3
    <2> QED BY <2>1, <2>3, <2>4
  <1>2. CASE ~(sampler \in {"starting", "awaiting"} /\ sampler' = "off")
    <2>1. sampler # "off"
      BY DEF SamplerStep, Announce, NewSegment, Feed, Complete, EndCapture
    <2> QED BY <1>2, <2>1, SamplerQueue
  <1> QED BY <1>1, <1>2

\* The sampling thread keeps the invariant.
LEMMA StepSampler == ASSUME IInv, SamplerStep PROVE IInv'
  <1>1. UNCHANGED <<acq, conv, gpc, goal, timer, interrupt, logic, tpc, localVars, missed, deaf>>
    BY DEF SamplerStep, Announce, NewSegment, Feed, Complete, EndCapture, SamplerStays
  <1>2. /\ analog \in Seq(Sampled) /\ analog' \in Seq(Sampled) /\ Grows(analog, analog')
        /\ events' \in Seq(Signals) /\ raced' \in BOOLEAN /\ edits' \in Nat
    BY SamplerData, SamplerQueue, SamplerRaces DEF IInv, TypeOK, SamplerTypeOK
  <1>3. TypeOK'
    <2>1. SamplerTypeOK'
      BY <1>1, <1>2, SamplerQueue DEF IInv, TypeOK, SamplerTypeOK
    <2>2. GuiTypeOK'
      BY <1>1, <1>2 DEF IInv, TypeOK, GuiTypeOK
    <2>3. ThreadTypeOK'
      <3>1. ThreadTypeOK
        BY DEF IInv, TypeOK
      <3> QED BY <1>1, <1>2, <3>1 DEF ThreadTypeOK, localVars
    <2> QED BY <2>1, <2>2, <2>3 DEF TypeOK
  <1>4. PlaceInv'
    <2>1. input.index \in Nat /\ Len(analog) <= Len(analog')
      BY <1>2 DEF IInv, TypeOK, ThreadTypeOK, Held, Grows
    <2> QED BY <1>1, <1>2, <2>1 DEF IInv, PlaceInv, localVars
  <1>5. EmptyInv'
    <2>1. analog' = <<>> => analog = <<>>
      BY <1>2 DEF Grows
    <2>2. sampler' = "awaiting" => \A i \in 1 .. Len(analog') : analog'[i].count = 0 /\ ~analog'[i].complete
      <3> SUFFICES ASSUME sampler' = "awaiting"
                   PROVE  \A i \in 1 .. Len(analog') : analog'[i].count = 0 /\ ~analog'[i].complete
        OBVIOUS
      <3>1. Announce \/ NewSegment
        BY DEF SamplerStep, Feed, Complete, EndCapture
      <3>2. CASE Announce
        <4>1. analog' = <<>>
          BY <3>2 DEF Announce, IInv, EmptyInv
        <4> QED BY <4>1
      <3>3. CASE NewSegment
        <4>1. analog' = Append(analog, EmptySegment) /\ sampler = "awaiting"
          BY <3>3 DEF NewSegment
        <4>2. \A i \in 1 .. Len(analog) : analog[i].count = 0 /\ ~analog[i].complete
          BY <4>1 DEF IInv, EmptyInv
        <4>3. Len(analog') = Len(analog) + 1 /\ analog'[Len(analog')] = EmptySegment
              /\ \A i \in 1 .. Len(analog) : analog'[i] = analog[i]
          BY <1>2, <4>1, AppendGrows
        <4> QED BY <1>2, <4>2, <4>3 DEF EmptySegment
      <3> QED BY <3>1, <3>2, <3>3
    <2>3. sampler' # "starting" /\ \A i \in 1 .. Len(analog') : i # Len(analog') => analog'[i].complete
      BY SamplerQueue, SamplerData DEF IInv
    <2> QED BY <1>1, <2>1, <2>2, <2>3 DEF IInv, EmptyInv
  <1>6. OwnInv'
    <2> SUFFICES ASSUME ~Due', gpc = "idle"
                 PROVE  Clean' \/ (sampler' = "off" /\ analog' = <<>>)
      BY <1>1 DEF OwnInv
    <2>1. (sampler' = "off" /\ analog' = <<>>) \/ (~Due /\ sampler # "off")
      BY SamplerDue DEF IInv
    <2>2. CASE Clean
      BY <1>1, <1>2, <2>2, SamplerRaces, CleanWhileSampling DEF IInv
    <2> QED BY <2>1, <2>2 DEF IInv, OwnInv
  <1> QED BY <1>3, <1>4, <1>5, <1>6 DEF IInv

-----------------------------------------------------------------------------
(* The GUI thread                                                          *)

\* How a notification moves the thread.
Nudged == tpc' = tpc \/ (tpc = "wait" /\ tpc' = "loop") \/ (tpc = "wait0" /\ tpc' = "woken")

\* A notification changes nothing that the invariant says of the thread.
LEMMA NudgedKeeps ==
    ASSUME IInv, Nudged, UNCHANGED <<samplerVars, logic, localVars, raced>>
    PROVE  /\ PlaceInv' /\ (Clean => Clean')
           /\ tpc' \in Beginning \union Taking \union Working \union Ended
           /\ tpc \in {"none", "done"} => tpc' = tpc
  <1>1. UNCHANGED <<analog, acq, sampler, logic, input, frozen, output, orphan, cursor, end, full, raced>>
        /\ Input' = Input /\ Output' = Output
    BY DEF samplerVars, localVars, Input, Output
  <1>2. PlaceInv'
    BY <1>1 DEF IInv, PlaceInv, Nudged, Beginning, Taking, Working
  <1>3. Clean => OwnLogic' /\ OwnPlace' /\ OwnCounts'
    BY <1>1 DEF Clean, OwnLogic, OwnPlace, OwnCounts, Nudged, Taking, Working
  <1>4. tpc' \in Beginning \union Taking \union Working \union Ended
    BY DEF IInv, TypeOK, ThreadTypeOK, Nudged, Beginning, Taking, Working, Ended
  <1> QED BY <1>2, <1>3, <1>4 DEF Clean, Nudged

\* stop_conversion() interrupts the thread, and holds the GUI thread until it has ended.
LEMMA StopForNudges ==
    ASSUME NEW what \in {"retype", "restart", "destroy"}, StopFor(what), TypeOK
    PROVE  Nudged /\ gpc' = "join" /\ goal' = what /\ interrupt' = TRUE /\ deaf' \in BOOLEAN
  <1>1. Nudged /\ gpc' = "join" /\ goal' = what /\ interrupt' = TRUE
    BY DEF StopFor, Nudged
  <1>2. deaf' \in BOOLEAN
    BY Zenon DEF StopFor, TypeOK, ThreadTypeOK
  <1> QED BY <1>1, <1>2

\* A step of the GUI thread that leaves data and results alone.
LEMMA GuiKeeps ==
    ASSUME IInv, Nudged, UNCHANGED <<samplerVars, conv, logic, localVars, raced>>,
           events' \in Seq(Signals), GuiTypeOK', missed' \in BOOLEAN, deaf' \in BOOLEAN,
           gpc' # "idle" \/ (gpc' = gpc /\ (~Due' => ~Due \/ ~conv))
    PROVE  IInv'
  <1>1. TypeOK'
    <2>1. SamplerTypeOK' /\ GuiTypeOK'
      BY DEF IInv, TypeOK, SamplerTypeOK, samplerVars
    <2>2. ThreadTypeOK'
      BY NudgedKeeps DEF IInv, TypeOK, ThreadTypeOK, localVars
    <2> QED BY <2>1, <2>2 DEF TypeOK
  <1>2. PlaceInv' /\ (Clean => Clean')
    BY NudgedKeeps
  <1>3. EmptyInv'
    BY NudgedKeeps DEF IInv, EmptyInv, samplerVars
  <1>4. OwnInv'
    <2> SUFFICES ASSUME ~Due', gpc' = "idle" PROVE Clean' \/ (sampler' = "off" /\ analog' = <<>>)
      BY DEF OwnInv
    <2>1. CASE ~Due
      BY <1>2, <2>1 DEF IInv, OwnInv, samplerVars
    <2>2. CASE ~conv
      <3>1. tpc \in {"none", "done"} /\ logic = <<>>
        BY <2>2 DEF IInv, EmptyInv
      <3>2. logic' = <<>> /\ tpc' \in {"none", "done"} /\ analog' \in Seq(Sampled)
        BY <1>1, <3>1, NudgedKeeps DEF TypeOK, SamplerTypeOK
      <3> QED BY <3>2 DEF Clean, OwnLogic, OwnPlace, OwnCounts, Taking, Working
    <2> QED BY <2>1, <2>2
  <1> QED BY <1>1, <1>2, <1>3, <1>4 DEF IInv

\* The slots keep the invariant: Running does not get past a selected conversion.
LEMMA StepDeliver == ASSUME IInv, Deliver PROVE IInv'
  <1>1. /\ gpc = "idle" /\ events # <<>> /\ events' = Tail(events)
        /\ UNCHANGED <<samplerVars, conv, edits, logic, localVars, raced>>
    BY DEF Deliver
  <1>2. events \in Seq(Signals) /\ events' \in Seq(Signals) /\ Head(events) \in Signals
    BY <1>1 DEF IInv, TypeOK, SamplerTypeOK
  <1>3. TypeOK
    BY DEF IInv
  <1>4. \/ Nudged /\ UNCHANGED <<gpc, goal, interrupt, deaf>> /\ timer' \in {timer, TRUE}
           /\ missed' \in BOOLEAN /\ (Head(events) = "running" => ~conv)
        \/ StopFor("restart") /\ UNCHANGED <<timer, missed>>
    <2>1. NotifyData => Nudged /\ missed' \in BOOLEAN
      <3>1. NotifyData => Nudged
        BY DEF NotifyData, Nudged
      <3>2. NotifyData => missed' \in BOOLEAN
        BY <1>3, Zenon DEF NotifyData, TypeOK, ThreadTypeOK
      <3> QED BY <3>1, <3>2
    <2>2. missed \in BOOLEAN
      BY <1>3 DEF TypeOK, ThreadTypeOK
    <2> QED BY <1>2, <2>1, <2>2 DEF Deliver, NotifiesThread, Nudged, Signals
  <1>5. Due => Due' \/ Head(events) = "running"
    <2>1. \A i \in 1 .. Len(events) : i # 1 => i - 1 \in 1 .. Len(events') /\ events'[i - 1] = events[i]
      BY <1>1, <1>2
    <2>2. Head(events) = events[1]
      BY <1>1, <1>2
    <2> QED BY <1>1, <2>1, <2>2 DEF Due, samplerVars
  <1>6. CASE StopFor("restart") /\ UNCHANGED <<timer, missed>>
    <2>1. Nudged /\ gpc' = "join" /\ goal' = "restart" /\ interrupt' = TRUE /\ deaf' \in BOOLEAN
      BY <1>3, <1>6, StopForNudges
    <2>2. GuiTypeOK' /\ missed' \in BOOLEAN
      BY <1>1, <1>3, <1>6, <2>1 DEF TypeOK, GuiTypeOK, ThreadTypeOK
    <2> QED BY <1>1, <1>2, <2>1, <2>2, GuiKeeps
  <1>7. CASE /\ Nudged /\ UNCHANGED <<gpc, goal, interrupt, deaf>> /\ timer' \in {timer, TRUE}
             /\ missed' \in BOOLEAN /\ (Head(events) = "running" => ~conv)
    <2>1. GuiTypeOK' /\ deaf' \in BOOLEAN
      BY <1>1, <1>3, <1>7 DEF TypeOK, GuiTypeOK, ThreadTypeOK
    <2> QED BY <1>1, <1>2, <1>5, <1>7, <2>1, GuiKeeps
  <1> QED BY <1>4, <1>6, <1>7

\* The operations that stop the conversion keep the invariant, and so does a wakeup that
\* nobody asked for.
LEMMA StepStops == ASSUME IInv, EditStep \/ TimerFires \/ WakesUp PROVE IInv'
  <1>1. TypeOK /\ events \in Seq(Signals)
    BY DEF IInv, TypeOK, SamplerTypeOK
  <1>2. UNCHANGED <<samplerVars, events, conv, logic, localVars, raced>>
    BY DEF EditStep, Edit, TimerFires, WakesUp
  <1>3. CASE EditStep \/ TimerFires
    <2>1. PICK what \in {"retype", "restart", "destroy"} : StopFor(what)
      BY <1>3 DEF EditStep, Edit, TimerFires
    <2>2. /\ Nudged /\ gpc' = "join" /\ goal' \in {"retype", "restart", "destroy"}
          /\ interrupt' = TRUE /\ deaf' \in BOOLEAN
      BY <1>1, <2>1, StopForNudges
    <2>3. timer' \in {timer, FALSE} /\ edits' \in {edits, edits + 1} /\ UNCHANGED missed
      BY <1>3 DEF EditStep, Edit, TimerFires
    <2>4. GuiTypeOK' /\ missed' \in BOOLEAN
      <3>1. timer' \in BOOLEAN /\ missed' \in BOOLEAN
        BY <1>1, <2>3, Zenon DEF TypeOK, GuiTypeOK, ThreadTypeOK
      <3>2. edits' \in Nat
        BY <1>1, <2>3 DEF TypeOK, GuiTypeOK
      <3> QED BY <1>1, <1>2, <2>2, <3>1, <3>2 DEF TypeOK, GuiTypeOK
    <2> QED BY <1>1, <1>2, <2>2, <2>4, GuiKeeps
  <1>4. CASE WakesUp
    <2>1. Nudged /\ UNCHANGED <<gpc, goal, timer, interrupt, deaf>> /\ missed' = FALSE
          /\ edits' = edits + 1
      BY <1>4 DEF WakesUp, Nudged
    <2>2. GuiTypeOK' /\ missed' \in BOOLEAN /\ deaf' \in BOOLEAN
      <3>1. missed' \in BOOLEAN /\ deaf' \in BOOLEAN
        BY <1>1, <2>1 DEF TypeOK, ThreadTypeOK
      <3>2. edits' \in Nat
        BY <1>1, <2>1 DEF TypeOK, GuiTypeOK
      <3> QED BY <1>1, <1>2, <2>1, <3>1, <3>2 DEF TypeOK, GuiTypeOK
    <2>3. Due' <=> Due
      BY <1>2 DEF Due, samplerVars
    <2> QED BY <1>1, <1>2, <2>1, <2>2, <2>3, GuiKeeps
  <1> QED BY <1>3, <1>4

\* start_capture() leaves the thread the segments it holds, and makes a restart due.
LEMMA StepStartCapture == ASSUME IInv, StartCapture PROVE IInv'
  <1>1. /\ acq' = acq + 1 /\ sampler' = "starting" /\ analog' = <<>> /\ logic' = <<>> /\ output' = 0
        /\ UNCHANGED <<events, conv, gpc, goal, timer, edits, interrupt, tpc, input, cursor, end, full, more,
                       missed, raced, deaf>>
    BY DEF StartCapture, ClearLogic, guiVars, historyVars
  <1>2. frozen' \in Sampled
    BY InputType DEF StartCapture, IInv, TypeOK, ThreadTypeOK
  <1>3. orphan' \in Converted
    <2>1. CASE output = 0
      BY <2>1 DEF StartCapture, ClearLogic, IInv, TypeOK, ThreadTypeOK
    <2>2. CASE output # 0
      <3>1. orphan' = Output
        BY <2>2 DEF StartCapture, ClearLogic, Output
      <3> QED BY <3>1, OutputType DEF IInv
    <2> QED BY <2>1, <2>2
  <1>4. TypeOK'
    <2>1. SamplerTypeOK' /\ GuiTypeOK'
      <3>1. <<>> \in Seq(Sampled) /\ acq + 1 \in Nat
        BY DEF IInv, TypeOK, SamplerTypeOK
      <3> QED BY <1>1, <3>1 DEF IInv, TypeOK, SamplerTypeOK, GuiTypeOK
    <2>2. ThreadTypeOK'
      <3>1. <<>> \in Seq(Converted)
        OBVIOUS
      <3> QED BY <1>1, <1>2, <1>3, <3>1 DEF IInv, TypeOK, ThreadTypeOK
    <2> QED BY <2>1, <2>2 DEF TypeOK
  <1>5. PlaceInv'
    <2>1. input.acq \in Nat /\ acq \in Nat /\ input.acq <= acq
      BY DEF IInv, TypeOK, SamplerTypeOK, ThreadTypeOK, PlaceInv, Held
    <2> QED BY <1>1, <2>1 DEF IInv, PlaceInv
  <1>6. EmptyInv'
    BY <1>1 DEF IInv, EmptyInv
  <1>7. OwnInv'
    BY <1>1 DEF OwnInv, Due
  <1> QED BY <1>4, <1>5, <1>6, <1>7 DEF IInv

\* start_conversion() starts on an empty output.
LEMMA StepStopped == ASSUME IInv, Stopped PROVE IInv'
  <1>1. /\ gpc = "join" /\ tpc \in {"none", "done"} /\ goal' = "none"
        /\ gpc' = (IF goal = "destroy" THEN "gone" ELSE "idle")
        /\ conv' = (IF goal = "retype" THEN ~conv ELSE conv)
        /\ input' = NoInput /\ frozen' = EmptySegment /\ output' = 0 /\ orphan' = NoOutput
        /\ UNCHANGED <<samplerVars, events, timer, edits, cursor, end, full, more, deaf>>
    BY DEF Stopped, Joinable
  <1>2. TypeOK
    BY DEF IInv
  <1>3. NoInput \in Held /\ EmptySegment \in Sampled /\ NoOutput \in Converted /\ <<>> \in Seq(Converted)
    BY DEF NoInput, EmptySegment, NoOutput, Held, Sampled, Converted
  <1>4. \/ gpc' = "gone" /\ tpc' = "none" /\ conv' = conv /\ UNCHANGED <<interrupt, logic, missed, raced>>
        \/ gpc' = "idle" /\ interrupt' = FALSE /\ tpc' = (IF conv' THEN "start" ELSE "done")
           /\ missed' = FALSE /\ raced' = FALSE /\ logic' = <<>>
    BY <1>1 DEF Stopped, StartsThread
  <1>5. TypeOK'
    <2>1. SamplerTypeOK'
      BY <1>1, <1>2 DEF TypeOK, SamplerTypeOK, samplerVars
    <2>2. GuiTypeOK'
      <3>1. conv' \in BOOLEAN
        BY <1>1, <1>2 DEF TypeOK, GuiTypeOK
      <3> QED BY <1>1, <1>2, <1>4, <3>1 DEF TypeOK, GuiTypeOK
    <2>3. ThreadTypeOK'
      <3>1. logic' \in Seq(Converted) /\ tpc' \in Beginning \union Ended
        BY <1>2, <1>3, <1>4 DEF TypeOK, ThreadTypeOK, Beginning, Ended
      <3>2. missed' \in BOOLEAN /\ raced' \in BOOLEAN
        BY <1>2, <1>4 DEF TypeOK, ThreadTypeOK
      <3> QED BY <1>1, <1>2, <1>3, <3>1, <3>2 DEF TypeOK, ThreadTypeOK
    <2> QED BY <2>1, <2>2, <2>3 DEF TypeOK
  <1>6. PlaceInv'
    <2>1. NoInput.acq = 0 /\ NoInput.index = 0 /\ acq' \in Nat /\ Len(logic') \in Nat /\ Len(analog') \in Nat
      BY <1>5 DEF NoInput, TypeOK, SamplerTypeOK, ThreadTypeOK
    <2> QED BY <1>1, <1>4, <2>1 DEF PlaceInv, Beginning, Taking, Working
  <1>7. EmptyInv'
    BY <1>1, <1>4 DEF IInv, EmptyInv, samplerVars
  <1>8. OwnInv'
    <2> SUFFICES ASSUME gpc' = "idle" PROVE Clean'
      BY DEF OwnInv
    <2>1. logic' = <<>> /\ tpc' \in {"start", "done"} /\ Len(analog') \in Nat
      BY <1>4, <1>5 DEF TypeOK, SamplerTypeOK
    <2> QED BY <2>1 DEF Clean, OwnLogic, OwnPlace, OwnCounts, Taking, Working
  <1> QED BY <1>5, <1>6, <1>7, <1>8 DEF IInv

-----------------------------------------------------------------------------
(* The conversion thread                                                   *)

\* What is left to show of a step of the thread.
LEMMA ThreadKeeps ==
    ASSUME IInv, UNCHANGED <<samplerVars, events, conv, gpc, goal, timer, interrupt, raced, deaf>>,
           edits' \in Nat, tpc \notin {"none", "done"},
           ThreadTypeOK', PlaceInv', analog = <<>> => logic' = <<>>, Clean => Clean'
    PROVE  IInv'
  <1>1. conv = TRUE
    BY DEF IInv, EmptyInv, TypeOK, GuiTypeOK
  <1>2. TypeOK'
    BY DEF IInv, TypeOK, SamplerTypeOK, GuiTypeOK, samplerVars
  <1>3. EmptyInv'
    BY <1>1 DEF IInv, EmptyInv, samplerVars
  <1>4. OwnInv'
    BY DEF IInv, OwnInv, Due, samplerVars
  <1> QED BY <1>2, <1>3, <1>4 DEF IInv

\* Every step of the thread leaves the other threads' variables alone.
LEMMA ThreadFrame ==
    ASSUME ConversionThread
    PROVE  /\ UNCHANGED <<samplerVars, events, conv, gpc, goal, timer, edits, interrupt, raced, deaf>>
           /\ tpc \notin {"none", "done"} /\ UNCHANGED frozen
  BY DEF ConversionThread, Begin, Waits, TakeFirst, TakeOutput, CountSamples, TestComplete,
     ConvertBlock, TestAgain, NextSegment, EndThread, ThreadStays, guiVars, localVars

\* The value of lsegment is replaced where it is kept.
LEMMA WriteOutputWrites ==
    ASSUME TypeOK, PlaceInv, NEW new \in Converted, WriteOutput(new), UNCHANGED output
    PROVE  /\ logic' \in Seq(Converted) /\ orphan' \in Converted /\ Len(logic') = Len(logic)
           /\ Output' = new
           /\ \A i \in 1 .. Len(logic) : logic'[i] = IF i = output THEN new ELSE logic[i]
           /\ logic = <<>> => logic' = <<>>
  <1>1. logic \in Seq(Converted) /\ orphan \in Converted /\ output \in Nat /\ output <= Len(logic)
    BY DEF TypeOK, ThreadTypeOK, PlaceInv
  <1>2. CASE output = 0
    BY <1>1, <1>2 DEF WriteOutput, Output
  <1>3. CASE output # 0
    <2>1. logic' = [logic EXCEPT ![output] = new] /\ orphan' = orphan /\ output \in 1 .. Len(logic)
      BY <1>1, <1>3 DEF WriteOutput
    <2>2. /\ logic' \in Seq(Converted) /\ Len(logic') = Len(logic)
          /\ \A i \in 1 .. Len(logic) : logic'[i] = IF i = output THEN new ELSE logic[i]
      BY <1>1, <2>1
    <2> QED BY <1>1, <1>3, <2>1, <2>2 DEF Output
  <1> QED BY <1>2, <1>3

\* Steps that only move the thread.
LEMMA StepMoves ==
    ASSUME IInv, Begin \/ Waits \/ EndThread
    PROVE  IInv'
  <1>1. /\ UNCHANGED <<samplerVars, events, conv, gpc, goal, timer, edits, interrupt, raced, deaf>>
        /\ UNCHANGED <<logic, localVars, missed>> /\ tpc \notin {"none", "done"}
        /\ \/ tpc \in Beginning /\ tpc' \in Beginning
           \/ tpc = "block" /\ tpc' = "wait"
           \/ tpc' = "done"
    BY DEF Begin, Waits, EndThread, ThreadStays, guiVars, Beginning
  <1>2. ThreadTypeOK'
    BY <1>1 DEF IInv, TypeOK, ThreadTypeOK, localVars, Working, Ended
  <1>3. PlaceInv'
    BY <1>1 DEF IInv, PlaceInv, samplerVars, localVars, Beginning, Taking, Working
  <1>4. Clean => Clean'
    BY <1>1 DEF Clean, OwnLogic, OwnPlace, OwnCounts, Input, Output, samplerVars, localVars,
       Beginning, Taking, Working
  <1> QED BY <1>1, <1>2, <1>3, <1>4, ThreadKeeps DEF IInv, EmptyInv, TypeOK, GuiTypeOK

\* The first segments are taken from lists that may have been cleared since.
LEMMA StepTake ==
    ASSUME IInv, TakeFirst \/ TakeOutput
    PROVE  IInv'
  <1>1. /\ UNCHANGED <<samplerVars, events, conv, gpc, goal, timer, edits, interrupt, raced, deaf>>
        /\ UNCHANGED <<frozen, orphan, cursor, end, full, more, missed>> /\ tpc \notin {"none", "done"}
    BY DEF TakeFirst, TakeOutput, ThreadStays, guiVars
  <1>2. /\ logic \in Seq(Converted) /\ analog \in Seq(Sampled) /\ acq \in Nat /\ input \in Held
        /\ output \in Nat /\ edits \in Nat
    BY DEF IInv, TypeOK, SamplerTypeOK, ThreadTypeOK, GuiTypeOK
  <1>3. CASE TakeFirst
    <2>1. tpc = "woken" /\ output' = output /\ logic = <<>> /\ output = 0
      BY <1>3 DEF TakeFirst, IInv, PlaceInv, Beginning
    <2>2. CASE tpc' \in {"done", "undefined"} /\ UNCHANGED <<logic, input>>
      <3>1. ThreadTypeOK'
        BY <1>1, <2>1, <2>2 DEF IInv, TypeOK, ThreadTypeOK, Ended
      <3>2. PlaceInv'
        BY <1>1, <2>1, <2>2 DEF IInv, PlaceInv, samplerVars, Beginning, Taking, Working
      <3>3. Clean => Clean'
        BY <1>1, <2>1, <2>2 DEF Clean, OwnLogic, OwnPlace, OwnCounts, samplerVars, Taking, Working
      <3> QED BY <1>1, <1>2, <2>1, <2>2, <3>1, <3>2, <3>3, ThreadKeeps
    <2>3. CASE /\ tpc' = "front" /\ input' = [acq |-> acq, index |-> 1]
               /\ logic' = <<LogicFor(1)>> /\ analog # <<>>
      <3>1. LogicFor(1) \in Converted /\ input' \in Held /\ input'.acq = acq /\ input'.index = 1
        BY <1>2, <2>3 DEF LogicFor, Converted, Held
      <3>2. logic' \in Seq(Converted) /\ Len(logic') = 1 /\ logic'[1] = LogicFor(1) /\ logic' # <<>>
        BY <2>3, <3>1
      <3>3. ThreadTypeOK'
        BY <1>1, <2>1, <2>3, <3>1, <3>2 DEF IInv, TypeOK, ThreadTypeOK, Taking
      <3>4. PlaceInv'
        BY <1>1, <1>2, <2>1, <2>3, <3>1, <3>2 DEF IInv, PlaceInv, samplerVars, Beginning, Taking, Working
      <3>5. Clean'
        <4>1. 1 \in 1 .. Len(analog) /\ analog[1].count \in Nat
          BY <1>2, <2>3, SampledType
        <4>2. OwnLogic'
          BY <1>1, <1>2, <2>3, <3>2, <4>1 DEF OwnLogic, LogicFor, samplerVars
        <4>3. OwnPlace' /\ OwnCounts'
          BY <1>1, <2>3, <3>1, <3>2 DEF OwnPlace, OwnCounts, samplerVars, Taking, Working
        <4> QED BY <4>2, <4>3 DEF Clean
      <3> QED BY <1>1, <1>2, <2>3, <3>3, <3>4, <3>5, ThreadKeeps
    <2> QED BY <1>3, <2>1, <2>2, <2>3 DEF TakeFirst
  <1>4. CASE TakeOutput
    <2>1. tpc \in {"front", "back"} /\ UNCHANGED <<logic, input>>
      BY <1>4 DEF TakeOutput
    <2>2. CASE logic = <<>> /\ tpc' = "undefined" /\ UNCHANGED output
      <3>1. ThreadTypeOK'
        BY <1>1, <2>1, <2>2 DEF IInv, TypeOK, ThreadTypeOK, Ended
      <3>2. PlaceInv'
        BY <1>1, <2>1, <2>2 DEF IInv, PlaceInv, samplerVars, Beginning, Taking, Working
      <3>3. ~Clean
        BY <2>1, <2>2 DEF Clean, OwnPlace, Taking
      <3> QED BY <1>1, <1>2, <2>1, <2>2, <3>1, <3>2, <3>3, ThreadKeeps
    <2>3. CASE logic # <<>> /\ tpc' = (IF tpc = "front" THEN "count" ELSE "loop") /\ output' = NewOutput
      <3>1. output' \in 1 .. Len(logic) /\ tpc' \in {"count", "loop"}
            /\ (tpc = "front" => output' = 1) /\ (tpc # "front" => output' = Len(logic))
        BY <1>2, <2>1, <2>3 DEF NewOutput
      <3>2. ThreadTypeOK'
        BY <1>1, <1>2, <2>1, <3>1 DEF IInv, TypeOK, ThreadTypeOK, Working
      <3>3. PlaceInv'
        BY <1>1, <1>2, <2>1, <3>1 DEF IInv, PlaceInv, samplerVars, Beginning, Taking, Working
      <3>4. ASSUME Clean PROVE Clean'
        <4>1. input.acq = acq /\ input.index = Len(logic) /\ output' = Len(logic)
          BY <2>1, <3>1, <3>4 DEF Clean, OwnPlace, Taking
        <4> QED BY <1>1, <2>1, <2>3, <3>1, <3>4, <4>1 DEF Clean, OwnLogic, OwnPlace, OwnCounts,
                samplerVars, Taking, Working
      <3> QED BY <1>1, <1>2, <2>1, <3>2, <3>3, <3>4, ThreadKeeps DEF IInv, EmptyInv
    <2> QED BY <1>4, <2>2, <2>3 DEF TakeOutput
  <1> QED BY <1>3, <1>4

\* At work on data of its own, the thread holds the segments of one position.
LEMMA AtWork ==
    ASSUME TypeOK, PlaceInv, Clean, tpc \in Working
    PROVE  /\ Len(logic) \in 1 .. Len(logic) /\ Len(logic) \in 1 .. Len(analog)
           /\ input.acq = acq /\ input.index = Len(logic) /\ output = Len(logic)
           /\ Input = analog[Len(logic)] /\ Output = logic[Len(logic)]
           /\ Output.count <= Input.count
           /\ Output.complete /\ ~raced => Input.complete /\ Output.count = Input.count
  <1>1. logic \in Seq(Converted) /\ analog \in Seq(Sampled)
    BY DEF TypeOK, SamplerTypeOK, ThreadTypeOK
  <1>2. logic # <<>> /\ input.acq = acq /\ input.index = Len(logic) /\ output = Len(logic)
    BY DEF Clean, OwnPlace
  <1>3. Len(logic) \in 1 .. Len(logic) /\ Len(logic) \in 1 .. Len(analog)
    BY <1>1, <1>2 DEF Clean, OwnLogic
  <1>4. Input = analog[Len(logic)] /\ Output = logic[Len(logic)]
    BY <1>2, <1>3 DEF Input, Output
  <1> QED BY <1>2, <1>3, <1>4 DEF Clean, OwnLogic

\* Steps that look at the segments and write neither.
LEMMA LooksOnly ==
    ASSUME IInv, UNCHANGED <<samplerVars, raced, logic, input, frozen, output, orphan>>,
           tpc \in Working, tpc' \in Working
    PROVE  /\ Input' = Input /\ Output' = Output
           /\ OwnLogic => OwnLogic'
           /\ OwnPlace => OwnPlace'
           /\ PlaceInv'
  <1>1. Input' = Input /\ Output' = Output
    BY DEF Input, Output, samplerVars
  <1>2. OwnLogic => OwnLogic'
    BY DEF OwnLogic, samplerVars
  <1>3. OwnPlace => OwnPlace'
    BY DEF OwnPlace, samplerVars, Working, Taking
  <1>4. PlaceInv'
    BY DEF IInv, PlaceInv, samplerVars, Working, Taking, Beginning
  <1> QED BY <1>1, <1>2, <1>3, <1>4

\* The counts are read.
LEMMA StepCount == ASSUME IInv, CountSamples PROVE IInv'
  <1>1. /\ UNCHANGED <<samplerVars, events, conv, gpc, goal, timer, edits, interrupt, raced, deaf>>
        /\ UNCHANGED <<logic, input, frozen, output, orphan, full, missed>>
        /\ tpc \in Working /\ tpc' \in Working /\ tpc \notin {"none", "done"}
        /\ cursor' = Output.count /\ end' = Input.count
        /\ tpc' = IF tpc = "recount" THEN "refull" ELSE "full"
    BY DEF CountSamples, ThreadStays, guiVars, Working
  <1>2. Input.count \in Nat /\ Output.count \in Nat /\ edits \in Nat
    BY <1>1, InputType, OutputType DEF IInv, TypeOK, GuiTypeOK
  <1>3. more' \in BOOLEAN
    BY DEF CountSamples
  <1>4. ThreadTypeOK'
    BY <1>1, <1>2, <1>3 DEF IInv, TypeOK, ThreadTypeOK
  <1>5. PlaceInv' /\ Input' = Input /\ Output' = Output
    BY <1>1, LooksOnly
  <1>6. ASSUME Clean PROVE Clean'
    <2>1. OwnLogic' /\ OwnPlace'
      BY <1>1, <1>6, LooksOnly DEF Clean
    <2>2. Output.count <= Input.count
      BY <1>1, <1>6, AtWork DEF IInv
    <2>3. tpc = "recount" /\ full /\ ~raced => Input.complete /\ Output.count = Input.count
      BY <1>6 DEF Clean, OwnCounts
    <2>4. OwnCounts'
      BY <1>1, <1>2, <1>5, <2>2, <2>3 DEF OwnCounts
    <2> QED BY <2>1, <2>4 DEF Clean
  <1> QED BY <1>1, <1>2, <1>4, <1>5, <1>6, ThreadKeeps DEF IInv, EmptyInv

\* The completeness is read, which may have come about since the counts were.
LEMMA StepTest == ASSUME IInv, TestComplete PROVE IInv'
  <1>1. /\ UNCHANGED <<samplerVars, events, conv, gpc, goal, timer, edits, interrupt, raced, deaf>>
        /\ UNCHANGED <<logic, input, frozen, output, orphan, missed>>
        /\ tpc = "full" /\ tpc' \in {"leave", "convert"} /\ edits \in Nat
    BY DEF TestComplete, Returns, ThreadStays, guiVars, IInv, TypeOK, GuiTypeOK
  <1>2. tpc \in Working /\ tpc' \in Working /\ tpc \notin {"none", "done"}
    BY <1>1 DEF Working
  <1>3. \/ ~Input.complete /\ tpc' = "leave" /\ cursor' = 0 /\ end' = 0 /\ full' = FALSE /\ more' = FALSE
        \/ tpc' = "convert" /\ full' = Input.complete /\ UNCHANGED <<cursor, end, more>>
    BY DEF TestComplete, Returns
  <1>4. full' \in BOOLEAN
    BY <1>2, <1>3, InputType DEF IInv
  <1>5. more' \in BOOLEAN /\ cursor' \in Nat /\ end' \in Nat
    <2>1. more' \in BOOLEAN
      BY <1>3, Zenon DEF IInv, TypeOK, ThreadTypeOK
    <2>2. cursor' \in Nat /\ end' \in Nat
      BY <1>3 DEF IInv, TypeOK, ThreadTypeOK
    <2> QED BY <2>1, <2>2
  <1>6. ThreadTypeOK'
    BY <1>1, <1>2, <1>4, <1>5 DEF IInv, TypeOK, ThreadTypeOK
  <1>7. PlaceInv' /\ Input' = Input /\ Output' = Output
    BY <1>1, <1>2, LooksOnly
  <1>8. ASSUME Clean PROVE Clean'
    <2>1. OwnLogic' /\ OwnPlace'
      BY <1>1, <1>2, <1>8, LooksOnly DEF Clean
    <2>2. OwnCounts'
      BY <1>1, <1>3, <1>7, <1>8 DEF Clean, OwnCounts
    <2> QED BY <2>1, <2>2 DEF Clean
  <1> QED BY <1>1, <1>2, <1>6, <1>7, <1>8, ThreadKeeps DEF IInv, EmptyInv

\* What is written to the output lies between what it held and what was read.
LEMMA BlockEndBounds ==
    ASSUME NEW c \in Nat, NEW e \in Nat, cursor = c, end = e, c < e
    PROVE  BlockEnd \in Nat /\ c < BlockEnd /\ BlockEnd <= e
  BY ConversionAssumption DEF BlockEnd

\* A block is converted.
LEMMA StepConvert == ASSUME IInv, ConvertBlock PROVE IInv'
  <1>1. /\ UNCHANGED <<samplerVars, events, conv, gpc, goal, timer, edits, interrupt, raced, deaf>>
        /\ UNCHANGED <<input, frozen, output, end, full, more, missed>>
        /\ tpc = "convert" /\ tpc \in Working /\ tpc \notin {"none", "done"} /\ edits \in Nat
    BY DEF ConvertBlock, ThreadStays, guiVars, Working, IInv, TypeOK, GuiTypeOK
  <1>2. cursor \in Nat /\ end \in Nat
    BY DEF IInv, TypeOK, ThreadTypeOK
  <1>3. CASE cursor >= end
    <2>1. tpc' = "recount" /\ tpc' \in Working /\ UNCHANGED <<logic, orphan, cursor>>
      BY <1>3 DEF ConvertBlock, Working
    <2>2. ThreadTypeOK'
      BY <1>1, <2>1 DEF IInv, TypeOK, ThreadTypeOK
    <2>3. PlaceInv' /\ Input' = Input /\ Output' = Output
      BY <1>1, <2>1, LooksOnly
    <2>4. ASSUME Clean PROVE Clean'
      <3>1. OwnLogic' /\ OwnPlace'
        BY <1>1, <2>1, <2>4, LooksOnly DEF Clean
      <3>2. OwnCounts'
        BY <1>1, <1>2, <1>3, <2>1, <2>3, <2>4 DEF Clean, OwnCounts
      <3> QED BY <3>1, <3>2 DEF Clean
    <2> QED BY <1>1, <2>1, <2>2, <2>3, <2>4, ThreadKeeps DEF IInv, EmptyInv
  <1>4. CASE cursor < end
    <2> DEFINE new == [Output EXCEPT !.count = @ + (BlockEnd - cursor)]
    <2>1. WriteOutput(new) /\ cursor' = BlockEnd /\ tpc' = tpc
      BY <1>2, <1>4 DEF ConvertBlock
    <2>2. BlockEnd \in Nat /\ cursor < BlockEnd /\ BlockEnd <= end
      BY <1>2, <1>4, BlockEndBounds
    <2>3. Output \in Converted /\ Output.count \in Nat
      BY OutputType DEF IInv
    <2>4. new \in Converted /\ new.count = Output.count + (BlockEnd - cursor) /\ new.acq = Output.acq
          /\ new.index = Output.index /\ new.complete = Output.complete
      BY <1>2, <2>2, <2>3 DEF Converted
    <2> HIDE DEF new
    <2>5. /\ logic' \in Seq(Converted) /\ orphan' \in Converted /\ Len(logic') = Len(logic)
          /\ Output' = new
          /\ \A i \in 1 .. Len(logic) : logic'[i] = IF i = output THEN new ELSE logic[i]
          /\ logic = <<>> => logic' = <<>>
      BY <1>1, <2>1, <2>4, WriteOutputWrites DEF IInv
    <2>6. ThreadTypeOK'
      BY <1>1, <1>2, <2>1, <2>2, <2>5 DEF IInv, TypeOK, ThreadTypeOK
    <2>7. PlaceInv'
      BY <1>1, <2>1, <2>5 DEF IInv, PlaceInv, samplerVars, Beginning, Taking, Working
    <2>8. ASSUME Clean PROVE Clean'
      <3>1. cursor = Output.count /\ end <= Input.count
        BY <1>1, <2>8 DEF Clean, OwnCounts
      <3>2. /\ Len(logic) \in 1 .. Len(logic) /\ Len(logic) \in 1 .. Len(analog)
            /\ output = Len(logic) /\ input.acq = acq
            /\ Input = analog[Len(logic)] /\ Output = logic[Len(logic)]
            /\ Output.complete /\ ~raced => Output.count = Input.count
        BY <1>1, <2>8, AtWork DEF IInv
      <3>3. Input.count \in Nat
        BY <1>1, InputType DEF IInv
      <3>4. new.count = BlockEnd /\ BlockEnd <= Input.count /\ ~(new.complete /\ ~raced)
        BY <1>2, <1>4, <2>2, <2>3, <2>4, <3>1, <3>2, <3>3
      <3>5. OwnLogic'
        <4>1. new.acq = acq /\ new.index = Len(logic)
          BY <2>4, <2>8, <3>2 DEF Clean, OwnLogic
        <4>2. ASSUME NEW i \in 1 .. Len(logic)
              PROVE  /\ logic'[i].acq = acq /\ logic'[i].index = i /\ logic'[i].count <= analog[i].count
                     /\ logic'[i].complete /\ ~raced =>
                           analog[i].complete /\ logic'[i].count = analog[i].count
          <5>1. CASE i = Len(logic)
            BY <2>5, <3>2, <3>4, <4>1, <5>1
          <5>2. CASE i # Len(logic)
            BY <2>5, <2>8, <3>2, <5>2 DEF Clean, OwnLogic
          <5> QED BY <5>1, <5>2
        <4> QED BY <1>1, <2>5, <2>8, <4>2 DEF Clean, OwnLogic, samplerVars
      <3>6. OwnPlace'
        <4>1. logic' # <<>>
          BY <2>5, <3>2
        <4> QED BY <1>1, <2>1, <2>5, <2>8, <4>1 DEF Clean, OwnPlace, samplerVars, Working, Taking
      <3>7. OwnCounts'
        <4>1. Input' = Input
          BY <1>1 DEF Input, samplerVars
        <4> QED BY <1>1, <1>2, <2>1, <2>2, <2>5, <2>8, <3>1, <3>4, <4>1 DEF Clean, OwnCounts
      <3> QED BY <3>5, <3>6, <3>7 DEF Clean
    <2> QED BY <1>1, <2>5, <2>6, <2>7, <2>8, ThreadKeeps DEF IInv, EmptyInv
  <1> QED BY <1>2, <1>3, <1>4

\* Another round, or what is converted is complete, if what it is made from was when the
\* last block had been read.
LEMMA StepAgain == ASSUME IInv, TestAgain PROVE IInv'
  <1>1. /\ UNCHANGED <<samplerVars, events, conv, gpc, goal, timer, edits, interrupt, raced, deaf>>
        /\ UNCHANGED <<input, frozen, output, missed>>
        /\ tpc = "refull" /\ tpc \in Working /\ tpc \notin {"none", "done"} /\ edits \in Nat
    BY DEF TestAgain, ThreadStays, guiVars, Working, IInv, TypeOK, GuiTypeOK
  <1>2. cursor \in Nat /\ end \in Nat /\ more \in BOOLEAN /\ full \in BOOLEAN /\ Input.complete \in BOOLEAN
    BY <1>1, InputType DEF IInv, TypeOK, ThreadTypeOK
  <1>3. CASE GoesOn
    <2>1. tpc' = "convert" /\ tpc' \in Working /\ full' = Input.complete
          /\ UNCHANGED <<logic, orphan, cursor, end, more>>
      BY <1>3 DEF TestAgain, Working
    <2>2. ThreadTypeOK'
      BY <1>1, <1>2, <2>1 DEF IInv, TypeOK, ThreadTypeOK
    <2>3. PlaceInv' /\ Input' = Input /\ Output' = Output
      BY <1>1, <2>1, LooksOnly
    <2>4. ASSUME Clean PROVE Clean'
      <3>1. OwnLogic' /\ OwnPlace'
        BY <1>1, <2>1, <2>4, LooksOnly DEF Clean
      <3>2. OwnCounts'
        BY <1>1, <2>1, <2>3, <2>4 DEF Clean, OwnCounts
      <3> QED BY <3>1, <3>2 DEF Clean
    <2> QED BY <1>1, <2>1, <2>2, <2>3, <2>4, ThreadKeeps DEF IInv, EmptyInv
  <1>4. CASE ~GoesOn
    <2>1. /\ tpc' = "leave" /\ tpc' \in Working /\ cursor' = 0 /\ end' = 0 /\ full' = FALSE /\ more' = FALSE
          /\ Input.complete = full
      BY <1>4 DEF TestAgain, Returns, Working, GoesOn
    <2>2. CASE ~Input.complete
      <3>1. UNCHANGED <<logic, orphan>>
        BY <1>4, <2>2 DEF TestAgain
      <3>2. ThreadTypeOK'
        BY <1>1, <2>1, <3>1 DEF IInv, TypeOK, ThreadTypeOK
      <3>3. PlaceInv' /\ Input' = Input /\ Output' = Output
        BY <1>1, <2>1, <3>1, LooksOnly
      <3>4. ASSUME Clean PROVE Clean'
        <4>1. OwnLogic' /\ OwnPlace'
          BY <1>1, <2>1, <3>1, <3>4, LooksOnly DEF Clean
        <4>2. OwnCounts'
          BY <2>1, <2>2, <3>3 DEF OwnCounts
        <4> QED BY <4>1, <4>2 DEF Clean
      <3> QED BY <1>1, <2>1, <3>1, <3>2, <3>3, <3>4, ThreadKeeps DEF IInv, EmptyInv
    <2>3. CASE Input.complete
      <3> DEFINE new == [Output EXCEPT !.complete = TRUE]
      <3>1. WriteOutput(new)
        BY <1>4, <2>3 DEF TestAgain
      <3>2. Output \in Converted /\ Output.count \in Nat
        BY OutputType DEF IInv
      <3>3. new \in Converted /\ new.count = Output.count /\ new.acq = Output.acq
            /\ new.index = Output.index /\ new.complete = TRUE
        BY <3>2 DEF Converted
      <3> HIDE DEF new
      <3>4. /\ logic' \in Seq(Converted) /\ orphan' \in Converted /\ Len(logic') = Len(logic)
            /\ Output' = new
            /\ \A i \in 1 .. Len(logic) : logic'[i] = IF i = output THEN new ELSE logic[i]
            /\ logic = <<>> => logic' = <<>>
        BY <1>1, <3>1, <3>3, WriteOutputWrites DEF IInv
      <3>5. ThreadTypeOK'
        BY <1>1, <2>1, <3>4 DEF IInv, TypeOK, ThreadTypeOK
      <3>6. PlaceInv'
        BY <1>1, <2>1, <3>4 DEF IInv, PlaceInv, samplerVars, Beginning, Taking, Working
      <3>7. ASSUME Clean PROVE Clean'
        <4>1. cursor = Output.count /\ (~raced => cursor = Input.count)
          BY <1>1, <2>1, <2>3, <3>7 DEF Clean, OwnCounts
        <4>2. /\ Len(logic) \in 1 .. Len(logic) /\ Len(logic) \in 1 .. Len(analog)
              /\ output = Len(logic) /\ Input = analog[Len(logic)] /\ Output = logic[Len(logic)]
          BY <1>1, <3>7, AtWork DEF IInv
        <4>3. OwnLogic'
          <5>1. /\ new.acq = acq /\ new.index = Len(logic) /\ new.count <= Input.count
                /\ ~raced => new.count = Input.count
            BY <3>3, <3>7, <4>1, <4>2 DEF Clean, OwnLogic
          <5>2. ASSUME NEW i \in 1 .. Len(logic)
                PROVE  /\ logic'[i].acq = acq /\ logic'[i].index = i /\ logic'[i].count <= analog[i].count
                       /\ logic'[i].complete /\ ~raced =>
                             analog[i].complete /\ logic'[i].count = analog[i].count
            <6>1. CASE i = Len(logic)
              BY <2>3, <3>4, <4>2, <5>1, <6>1
            <6>2. CASE i # Len(logic)
              BY <3>4, <3>7, <4>2, <6>2 DEF Clean, OwnLogic
            <6> QED BY <6>1, <6>2
          <5> QED BY <1>1, <3>4, <3>7, <5>2 DEF Clean, OwnLogic, samplerVars
        <4>4. OwnPlace'
          <5>1. logic' # <<>>
            BY <3>4, <4>2
          <5> QED BY <1>1, <2>1, <3>4, <3>7, <5>1 DEF Clean, OwnPlace, samplerVars, Working, Taking
        <4>5. OwnCounts'
          BY <2>1, <3>3, <3>4 DEF OwnCounts
        <4> QED BY <4>3, <4>4, <4>5 DEF Clean
      <3> QED BY <1>1, <3>4, <3>5, <3>6, <3>7, ThreadKeeps DEF IInv, EmptyInv
    <2> QED BY <2>2, <2>3
  <1> QED BY <1>3, <1>4

\* The next segment is taken, and a logic segment pushed for it.
LEMMA StepNext == ASSUME IInv, NextSegment PROVE IInv'
  <1>1. /\ UNCHANGED <<samplerVars, events, conv, gpc, goal, timer, edits, interrupt, raced, deaf>>
        /\ UNCHANGED <<frozen, output, orphan, cursor, end, full, more, missed>>
        /\ tpc = "leave" /\ tpc \in Working /\ tpc \notin {"none", "done"} /\ edits \in Nat
    BY DEF NextSegment, ThreadStays, guiVars, Working, IInv, TypeOK, GuiTypeOK
  <1>2. /\ logic \in Seq(Converted) /\ analog \in Seq(Sampled) /\ acq \in Nat
        /\ input.index \in Nat \ {0} /\ output \in Nat /\ output <= Len(logic)
    BY <1>1 DEF IInv, TypeOK, SamplerTypeOK, ThreadTypeOK, PlaceInv, Held
  <1>3. CASE tpc' \in {"done", "block"} /\ UNCHANGED <<logic, input>>
    <2>1. ThreadTypeOK'
      BY <1>1, <1>3 DEF IInv, TypeOK, ThreadTypeOK, Working, Ended
    <2>2. PlaceInv'
      BY <1>1, <1>3 DEF IInv, PlaceInv, samplerVars, Beginning, Taking, Working
    <2>3. Clean => Clean'
      BY <1>1, <1>3 DEF Clean, OwnLogic, OwnPlace, OwnCounts, samplerVars, Taking, Working
    <2> QED BY <1>1, <1>3, <2>1, <2>2, <2>3, ThreadKeeps DEF IInv, EmptyInv
  <1>4. CASE /\ input.index + 1 <= Len(analog) /\ tpc' = "back"
             /\ input' = [acq |-> acq, index |-> input.index + 1]
             /\ logic' = Append(logic, LogicFor(input.index + 1))
    <2>1. LogicFor(input.index + 1) \in Converted /\ input' \in Held /\ input'.acq = acq
          /\ input'.index = input.index + 1
      BY <1>2, <1>4 DEF LogicFor, Converted, Held
    <2>2. /\ logic' \in Seq(Converted) /\ Len(logic') = Len(logic) + 1 /\ logic' # <<>>
          /\ logic'[Len(logic')] = LogicFor(input.index + 1)
          /\ \A i \in 1 .. Len(logic) : logic'[i] = logic[i]
      BY <1>2, <1>4, <2>1
    <2>3. ThreadTypeOK'
      BY <1>1, <1>4, <2>1, <2>2 DEF IInv, TypeOK, ThreadTypeOK, Taking
    <2>4. PlaceInv'
      BY <1>1, <1>2, <1>4, <2>1, <2>2 DEF IInv, PlaceInv, samplerVars, Beginning, Taking, Working
    <2>5. analog # <<>>
      BY <1>2, <1>4
    <2>6. ASSUME Clean PROVE Clean'
      <3>1. input.index = Len(logic) /\ logic # <<>>
        BY <1>1, <2>6 DEF Clean, OwnPlace
      <3>2. OwnLogic'
        <4>1. Len(logic') \in 1 .. Len(analog) /\ analog[Len(logic')].count \in Nat
          BY <1>2, <1>4, <2>2, <3>1, SampledType
        <4>2. /\ logic'[Len(logic')].acq = acq /\ logic'[Len(logic')].index = Len(logic')
              /\ logic'[Len(logic')].count = 0 /\ ~logic'[Len(logic')].complete
          BY <2>2, <3>1 DEF LogicFor
        <4>3. ASSUME NEW i \in 1 .. Len(logic')
              PROVE  /\ logic'[i].acq = acq /\ logic'[i].index = i /\ logic'[i].count <= analog[i].count
                     /\ logic'[i].complete /\ ~raced =>
                           analog[i].complete /\ logic'[i].count = analog[i].count
          <5>1. CASE i = Len(logic')
            BY <4>1, <4>2, <5>1
          <5>2. CASE i # Len(logic')
            BY <1>2, <2>2, <2>6, <5>2 DEF Clean, OwnLogic
          <5> QED BY <5>1, <5>2
        <4>4. Len(logic') <= Len(analog)
          BY <1>2, <4>1
        <4> QED BY <1>1, <4>3, <4>4 DEF OwnLogic, samplerVars
      <3>3. OwnPlace'
        BY <1>1, <1>2, <1>4, <2>1, <2>2, <3>1 DEF OwnPlace, samplerVars, Taking, Working
      <3>4. OwnCounts'
        BY <1>4 DEF OwnCounts
      <3> QED BY <3>2, <3>3, <3>4 DEF Clean
    <2> QED BY <1>1, <2>3, <2>4, <2>5, <2>6, ThreadKeeps
  <1> QED BY <1>2, <1>3, <1>4 DEF NextSegment

-----------------------------------------------------------------------------
(* The theorems                                                            *)

\* Initially there are no data.
LEMMA InitOwn == ConversionInit => IInv
  <1> SUFFICES ASSUME ConversionInit PROVE IInv
    OBVIOUS
  <1>1. NoInput \in Held /\ EmptySegment \in Sampled /\ NoOutput \in Converted
        /\ <<>> \in Seq(Converted) /\ <<>> \in Seq(Sampled) /\ <<>> \in Seq(Signals)
        /\ NoInput.acq = 0 /\ NoInput.index = 0
    BY DEF NoInput, EmptySegment, NoOutput, Held, Sampled, Converted
  <1>2. tpc \in {"start", "none"} /\ (~conv => tpc = "none")
    BY DEF ConversionInit
  <1>3. SamplerTypeOK /\ GuiTypeOK
    BY <1>1 DEF ConversionInit, SamplerTypeOK, GuiTypeOK
  <1>4. ThreadTypeOK
    BY <1>1, <1>2 DEF ConversionInit, ThreadTypeOK, Beginning, Ended
  <1>5. PlaceInv
    BY <1>1, <1>2 DEF ConversionInit, PlaceInv, Beginning, Taking, Working
  <1>6. EmptyInv
    BY <1>2 DEF ConversionInit, EmptyInv
  <1>7. OwnInv
    BY DEF ConversionInit, OwnInv
  <1> QED BY <1>3, <1>4, <1>5, <1>6, <1>7 DEF IInv, TypeOK

\* Every step keeps the invariant.
LEMMA StepOwn == IInv /\ [ConversionNext]_conversionVars => IInv'
  <1>1. ASSUME IInv, UNCHANGED conversionVars PROVE IInv'
    <2>1. UNCHANGED <<samplerVars, events, guiVars, interrupt, logic, tpc, localVars, historyVars>>
      BY <1>1 DEF conversionVars
    <2>2. TypeOK'
      <3>1. SamplerTypeOK'
        BY <1>1, <2>1 DEF IInv, TypeOK, SamplerTypeOK, samplerVars
      <3>2. GuiTypeOK'
        BY <1>1, <2>1 DEF IInv, TypeOK, GuiTypeOK, guiVars
      <3>3. ThreadTypeOK'
        BY <1>1, <2>1 DEF IInv, TypeOK, ThreadTypeOK, localVars, historyVars
      <3> QED BY <3>1, <3>2, <3>3 DEF TypeOK
    <2>3. PlaceInv'
      BY <1>1, <2>1 DEF IInv, PlaceInv, samplerVars, localVars
    <2>4. EmptyInv'
      BY <1>1, <2>1 DEF IInv, EmptyInv, samplerVars, guiVars
    <2>5. Input' = Input /\ Output' = Output
      BY <2>1 DEF Input, Output, samplerVars, localVars
    <2>6. Clean => Clean'
      BY <2>1, <2>5 DEF Clean, OwnLogic, OwnPlace, OwnCounts, samplerVars, localVars, historyVars
    <2>7. OwnInv'
      BY <1>1, <2>1, <2>6 DEF IInv, OwnInv, Due, samplerVars, guiVars
    <2> QED BY <2>2, <2>3, <2>4, <2>7 DEF IInv
  <1>2. ASSUME IInv, ConversionNext PROVE IInv'
    BY <1>2, StepSampler, StepStartCapture, StepStopped, StepDeliver, StepStops, StepMoves, StepTake,
       StepCount, StepTest, StepConvert, StepAgain, StepNext
       DEF ConversionNext, GuiStep, ConversionThread
  <1> QED BY <1>1, <1>2

\* In every state everything is of this acquisition, or a restart is due.
THEOREM ConversionInvariant == ConversionSpec => []IInv
  BY InitOwn, StepOwn, PTL DEF ConversionSpec

\* The condition of the properties, in terms of the invariant.
LEMMA NotDue ==
    ASSUME IInv, ~RestartDue
    PROVE  ~Due /\ gpc = "idle" /\ (Clean \/ (sampler = "off" /\ analog = <<>> /\ logic = <<>>))
  <1>1. events \in Seq(Signals) /\ DOMAIN events = 1 .. Len(events)
    BY DEF IInv, TypeOK, SamplerTypeOK
  <1>2. ~Due /\ gpc = "idle"
    BY <1>1 DEF RestartDue, Due
  <1> QED BY <1>2 DEF IInv, OwnInv, EmptyInv

\* Each logic segment is made from the analog segment of its position in this acquisition
\* and from nothing that was not received; a complete one holds all of a complete analog
\* one, unless that grew between two looks at it.
THEOREM OwnSamples == ConversionSpec => []ConvertsItsOwn
  <1>1. IInv => ConvertsItsOwn
    <2> SUFFICES ASSUME IInv, ~RestartDue
                 PROVE  /\ Len(logic) <= Len(analog)
                        /\ \A i \in DOMAIN logic :
                            /\ logic[i].acq = acq /\ logic[i].index = i /\ logic[i].count <= analog[i].count
                            /\ logic[i].complete /\ ~raced =>
                                  analog[i].complete /\ logic[i].count = analog[i].count
      BY DEF ConvertsItsOwn
    <2>1. logic \in Seq(Converted) /\ DOMAIN logic = 1 .. Len(logic) /\ analog \in Seq(Sampled)
      BY DEF IInv, TypeOK, SamplerTypeOK, ThreadTypeOK
    <2>2. CASE Clean
      BY <2>1, <2>2 DEF Clean, OwnLogic
    <2>3. CASE logic = <<>>
      BY <2>1, <2>3
    <2> QED BY <2>2, <2>3, NotDue
  <1> QED BY <1>1, ConversionInvariant, PTL

-----------------------------------------------------------------------------
(* The converted data are a source of samples like acquired ones.          *)

\* What a consumer sees of a list of converted segments.
View(l) == [i \in DOMAIN l |-> [count |-> l[i].count, complete |-> l[i].complete]]

\* It is a list of segments like acquired ones.
LEMMA ViewType ==
    ASSUME NEW l \in Seq(Converted)
    PROVE  /\ View(l) \in Seq(Sampled) /\ Len(View(l)) = Len(l)
           /\ \A i \in 1 .. Len(l) : View(l)[i] = [count |-> l[i].count, complete |-> l[i].complete]
           /\ \A i \in 1 .. Len(l) : View(l)[i].count = l[i].count /\ View(l)[i].complete = l[i].complete
           /\ View(l) = <<>> <=> l = <<>>
  <1>1. DOMAIN l = 1 .. Len(l) /\ Len(l) \in Nat
    OBVIOUS
  <1>2. \A i \in 1 .. Len(l) : [count |-> l[i].count, complete |-> l[i].complete] \in Sampled
    BY ConvertedType DEF Sampled
  <1>3. View(l) = [i \in 1 .. Len(l) |-> [count |-> l[i].count, complete |-> l[i].complete]]
    BY <1>1 DEF View
  <1>4. View(l) \in Seq(Sampled) /\ Len(View(l)) = Len(l)
    BY <1>1, <1>2, <1>3
  <1> QED BY <1>1, <1>3, <1>4

\* A segment with other samples or another mark.
LEMMA SegmentExcept ==
    ASSUME NEW v \in Sampled, NEW k \in Nat, NEW b \in BOOLEAN
    PROVE  /\ [v EXCEPT !.count = k] = [count |-> k, complete |-> v.complete]
           /\ [v EXCEPT !.complete = b] = [count |-> v.count, complete |-> b]
  BY DEF Sampled

\* Two lists of segments are the same if they have the same segments.
LEMMA SameSegments ==
    ASSUME NEW p \in Seq(Sampled), NEW q \in Seq(Sampled), Len(p) = Len(q),
           \A i \in 1 .. Len(p) : p[i] = q[i]
    PROVE  p = q
  BY SeqEqual

\* A segment that was begun after a complete one is received.
LEMMA BegunIsReceived ==
    ASSUME logic \in Seq(Converted), NEW l \in Converted, logic' = Append(logic, l), ~l.complete,
           logic # <<>> => logic[Len(logic)].complete
    PROVE  AsSource!Next
  <1> DEFINE V == View(logic)  W == View(logic')
  <1>1. /\ logic' \in Seq(Converted) /\ Len(logic') = Len(logic) + 1 /\ logic'[Len(logic')] = l
        /\ \A i \in 1 .. Len(logic) : logic'[i] = logic[i]
    OBVIOUS
  <1>2. /\ V \in Seq(Sampled) /\ Len(V) = Len(logic) /\ (V = <<>> <=> logic = <<>>)
        /\ \A i \in 1 .. Len(V) : V[i] = [count |-> logic[i].count, complete |-> logic[i].complete]
        /\ \A i \in 1 .. Len(V) : V[i].complete = logic[i].complete
    BY ViewType
  <1>3. /\ W \in Seq(Sampled) /\ Len(W) = Len(V) + 1
        /\ \A i \in 1 .. Len(W) : W[i] = [count |-> logic'[i].count, complete |-> logic'[i].complete]
    BY <1>1, <1>2, ViewType
  <1>4. V # <<>> => V[Len(V)].complete
    <2>1. V # <<>> => Len(logic) \in 1 .. Len(V) /\ logic[Len(logic)].complete
      BY <1>2
    <2> QED BY <1>2, <2>1
  <1>5. l.count \in Nat /\ l.complete = FALSE
    BY DEF Converted
  <1>6. W[Len(W)] = [count |-> l.count, complete |-> FALSE] /\ W[Len(W)] \in Sampled
    <2>1. Len(W) \in 1 .. Len(W) /\ Len(W) = Len(logic')
      BY <1>1, <1>2, <1>3
    <2>2. W[Len(W)] \in Sampled
      BY <1>3, <2>1
    <2>3. W[Len(W)] = [count |-> logic'[Len(logic')].count, complete |-> logic'[Len(logic')].complete]
      BY <1>3, <2>1
    <2> QED BY <1>1, <1>5, <2>2, <2>3
  <1>7. W = Append(V, [count |-> W[Len(W)].count, complete |-> FALSE])
    <2>1. Append(V, W[Len(W)]) \in Seq(Sampled) /\ Len(Append(V, W[Len(W)])) = Len(W)
      BY <1>2, <1>3, <1>6
    <2>2. \A i \in 1 .. Len(W) : W[i] = Append(V, W[Len(W)])[i]
      BY <1>1, <1>2, <1>3, <1>6
    <2>3. W = Append(V, W[Len(W)])
      BY <1>3, <2>1, <2>2, SameSegments
    <2> QED BY <1>6, <2>3
  <1> HIDE DEF V, W
  <1>8. /\ AsSource!Growing("converted") <=> V # <<>> /\ ~V[Len(V)].complete
    BY DEF AsSource!Growing, AsSource!Last, V, View
  <1>9. AsSource!Receive("converted")
    BY <1>3, <1>4, <1>7, <1>8 DEF AsSource!Receive, V, W, View
  <1> QED BY <1>9 DEF AsSource!Next

\* Samples that are added to the last segment are received.
LEMMA GrownIsReceived ==
    ASSUME logic \in Seq(Converted), logic' \in Seq(Converted), logic # <<>>, Len(logic') = Len(logic),
           \A i \in 1 .. Len(logic) : i # Len(logic) => logic'[i] = logic[i],
           ~logic[Len(logic)].complete,
           ~logic'[Len(logic)].complete, logic[Len(logic)].count < logic'[Len(logic)].count
    PROVE  AsSource!Next
  <1> DEFINE V == View(logic)  W == View(logic')  n == Len(logic)
  <1>1. n \in 1 .. n
    OBVIOUS
  <1>2. /\ V \in Seq(Sampled) /\ Len(V) = n /\ V # <<>>
        /\ \A i \in 1 .. n : V[i] = [count |-> logic[i].count, complete |-> logic[i].complete]
        /\ \A i \in 1 .. n : V[i].count = logic[i].count /\ V[i].complete = logic[i].complete
    BY ViewType
  <1>3. /\ W \in Seq(Sampled) /\ Len(W) = n
        /\ \A i \in 1 .. n : W[i] = [count |-> logic'[i].count, complete |-> logic'[i].complete]
        /\ \A i \in 1 .. n : W[i].count = logic'[i].count /\ W[i].complete = logic'[i].complete
    BY ViewType
  <1>4. /\ \A i \in 1 .. n : i # n => logic'[i] = logic[i]
        /\ logic[n].complete = FALSE /\ logic[n].count \in Nat
        /\ logic'[n].complete = FALSE /\ logic'[n].count \in Nat
        /\ logic[n].count < logic'[n].count
    BY <1>1, ConvertedType
  <1> HIDE DEF V, W, n
  <1>5. ASSUME NEW i \in 1 .. n, i # n PROVE W[i] = V[i]
    <2>1. logic'[i] = logic[i]
      BY <1>4, <1>5
    <2> QED BY <1>2, <1>3, <2>1
  <1>6. V[n] = [count |-> logic[n].count, complete |-> FALSE] /\ ~V[n].complete
    BY <1>1, <1>2, <1>4
  <1>7. W[n] = [count |-> logic'[n].count, complete |-> FALSE] /\ W[n].count = logic'[n].count
    BY <1>1, <1>3, <1>4
  <1>8. W = [V EXCEPT ![n].count = W[n].count]
    <2>1. [V[n] EXCEPT !.count = W[n].count] = W[n]
      <3>1. V[n] \in Sampled /\ V[n].complete = FALSE /\ W[n].count \in Nat
        BY <1>1, <1>2, <1>4, <1>7
      <3>2. [V[n] EXCEPT !.count = W[n].count] = [count |-> W[n].count, complete |-> V[n].complete]
        BY <3>1, SegmentExcept
      <3> QED BY <1>7, <3>1, <3>2
    <2>2. W[n] \in Sampled
      BY <1>1, <1>3
    <2>3. [V EXCEPT ![n] = W[n]] \in Seq(Sampled) /\ Len([V EXCEPT ![n] = W[n]]) = n
          /\ \A i \in 1 .. n : [V EXCEPT ![n] = W[n]][i] = W[i]
      BY <1>1, <1>2, <1>5, <2>2
    <2>4. W = [V EXCEPT ![n] = W[n]]
      BY <1>3, <2>3, SameSegments
    <2> QED BY <2>1, <2>4
  <1>9. W[n].count > V[n].count
    BY <1>1, <1>2, <1>7, <1>4
  <1>10. AsSource!Growing("converted") /\ AsSource!Last("converted") = V[n]
    BY <1>2, <1>6 DEF AsSource!Growing, AsSource!Last, V, View
  <1>11. AsSource!Receive("converted")
    BY <1>2, <1>3, <1>8, <1>9, <1>10 DEF AsSource!Receive, V, W, View
  <1> QED BY <1>11 DEF AsSource!Next

\* A segment that is marked complete is.
LEMMA CompletedIsComplete ==
    ASSUME logic \in Seq(Converted), logic' \in Seq(Converted), logic # <<>>, Len(logic') = Len(logic),
           \A i \in 1 .. Len(logic) : i # Len(logic) => logic'[i] = logic[i],
           ~logic[Len(logic)].complete,
           logic'[Len(logic)].complete, logic'[Len(logic)].count = logic[Len(logic)].count
    PROVE  AsSource!Next
  <1> DEFINE V == View(logic)  W == View(logic')  n == Len(logic)
  <1>1. n \in 1 .. n
    OBVIOUS
  <1>2. /\ V \in Seq(Sampled) /\ Len(V) = n /\ V # <<>>
        /\ \A i \in 1 .. n : V[i] = [count |-> logic[i].count, complete |-> logic[i].complete]
        /\ \A i \in 1 .. n : V[i].count = logic[i].count /\ V[i].complete = logic[i].complete
    BY ViewType
  <1>3. /\ W \in Seq(Sampled) /\ Len(W) = n
        /\ \A i \in 1 .. n : W[i] = [count |-> logic'[i].count, complete |-> logic'[i].complete]
        /\ \A i \in 1 .. n : W[i].count = logic'[i].count /\ W[i].complete = logic'[i].complete
    BY ViewType
  <1>4. /\ \A i \in 1 .. n : i # n => logic'[i] = logic[i]
        /\ logic[n].complete = FALSE /\ logic[n].count \in Nat
        /\ logic'[n].complete = TRUE /\ logic'[n].count \in Nat
        /\ logic'[n].count = logic[n].count
    BY <1>1, ConvertedType
  <1> HIDE DEF V, W, n
  <1>5. ASSUME NEW i \in 1 .. n, i # n PROVE W[i] = V[i]
    <2>1. logic'[i] = logic[i]
      BY <1>4, <1>5
    <2> QED BY <1>2, <1>3, <2>1
  <1>6. V[n] = [count |-> logic[n].count, complete |-> FALSE] /\ ~V[n].complete
    BY <1>1, <1>2, <1>4
  <1>7. W[n] = [count |-> logic[n].count, complete |-> TRUE]
    BY <1>1, <1>3, <1>4
  <1>8. W = [V EXCEPT ![n].complete = TRUE]
    <2>1. [V[n] EXCEPT !.complete = TRUE] = W[n]
      <3>1. V[n] \in Sampled /\ V[n].count = logic[n].count
        BY <1>1, <1>2
      <3> QED BY <1>7, <3>1, SegmentExcept
    <2>2. W[n] \in Sampled
      BY <1>1, <1>3
    <2>3. [V EXCEPT ![n] = W[n]] \in Seq(Sampled) /\ Len([V EXCEPT ![n] = W[n]]) = n
          /\ \A i \in 1 .. n : [V EXCEPT ![n] = W[n]][i] = W[i]
      BY <1>1, <1>2, <1>5, <2>2
    <2>4. W = [V EXCEPT ![n] = W[n]]
      BY <1>3, <2>3, SameSegments
    <2> QED BY <2>1, <2>4
  <1>9. AsSource!Growing("converted")
    BY <1>2, <1>6 DEF AsSource!Growing, AsSource!Last, V, View
  <1>10. AsSource!Complete
    BY <1>2, <1>8, <1>9 DEF AsSource!Complete, V, W, View
  <1> QED BY <1>10 DEF AsSource!Next

\* Lists that were cleared are.
LEMMA ClearedIsClear == ASSUME logic' = <<>> PROVE AsSource!Next
  <1>1. AsSource!Clear
    <2>1. [i \in DOMAIN logic' |-> [count |-> logic'[i].count, complete |-> logic'[i].complete]] = <<>>
      OBVIOUS
    <2> QED BY <2>1 DEF AsSource!Clear
  <1> QED BY <1>1 DEF AsSource!Next

\* A block makes the last segment grow.
LEMMA ConvertIsReceived ==
    ASSUME IInv, ~raced, Clean, ConvertBlock PROVE AsSource!Next \/ UNCHANGED logic
  <1>1. tpc = "convert" /\ tpc \in Working /\ cursor \in Nat /\ end \in Nat /\ UNCHANGED output
        /\ logic \in Seq(Converted)
    BY DEF ConvertBlock, Working, IInv, TypeOK, ThreadTypeOK
  <1>2. CASE cursor >= end
    BY <1>2 DEF ConvertBlock
  <1>3. CASE cursor < end
    <2> DEFINE new == [Output EXCEPT !.count = @ + (BlockEnd - cursor)]
    <2>1. WriteOutput(new)
      BY <1>1, <1>3 DEF ConvertBlock
    <2>2. BlockEnd \in Nat /\ cursor < BlockEnd /\ BlockEnd <= end
      BY <1>1, <1>3, BlockEndBounds
    <2>3. Output \in Converted /\ Output.count \in Nat
      BY OutputType DEF IInv
    <2>4. new \in Converted /\ new.count = Output.count + (BlockEnd - cursor) /\ new.complete = Output.complete
      <3>1. BlockEnd - cursor \in Nat
        BY <1>1, <2>2
      <3> QED BY <2>3, <3>1 DEF Converted
    <2> HIDE DEF new
    <2>5. /\ logic' \in Seq(Converted) /\ Len(logic') = Len(logic)
          /\ \A i \in 1 .. Len(logic) : logic'[i] = IF i = output THEN new ELSE logic[i]
      BY <1>1, <2>1, <2>4, WriteOutputWrites DEF IInv
    <2>6. /\ Len(logic) \in 1 .. Len(logic) /\ output = Len(logic) /\ Output = logic[Len(logic)]
          /\ Output.complete => Output.count = Input.count
      BY <1>1, AtWork DEF IInv
    <2>7. cursor = Output.count /\ end <= Input.count /\ Input.count \in Nat
      BY <1>1, InputType DEF IInv, Clean, OwnCounts
    <2>8. ~Output.complete /\ Output.count < new.count
      BY <1>1, <1>3, <2>2, <2>3, <2>4, <2>6, <2>7
    <2>9. /\ logic # <<>> /\ ~logic[Len(logic)].complete /\ ~logic'[Len(logic)].complete
          /\ logic[Len(logic)].count < logic'[Len(logic)].count
          /\ \A i \in 1 .. Len(logic) : i # Len(logic) => logic'[i] = logic[i]
      BY <2>4, <2>5, <2>6, <2>8
    <2> QED BY <1>1, <2>5, <2>9, GrownIsReceived
  <1> QED BY <1>1, <1>2, <1>3

\* The end of the analog segment completes the last one.
LEMMA EndIsComplete ==
    ASSUME IInv, ~raced, Clean, TestAgain PROVE AsSource!Next \/ UNCHANGED logic
  <1>1. tpc = "refull" /\ tpc \in Working /\ UNCHANGED output /\ logic \in Seq(Converted)
    BY DEF TestAgain, Working, IInv, TypeOK, ThreadTypeOK
  <1>2. CASE GoesOn \/ ~Input.complete
    BY <1>2 DEF TestAgain
  <1>3. CASE ~GoesOn /\ Input.complete
    <2> DEFINE new == [Output EXCEPT !.complete = TRUE]
    <2>1. WriteOutput(new)
      BY <1>3 DEF TestAgain
    <2>2. Output \in Converted
      BY OutputType DEF IInv
    <2>3. new \in Converted /\ new.count = Output.count /\ new.complete = TRUE
          /\ (Output.complete => new = Output)
      BY <2>2 DEF Converted
    <2> HIDE DEF new
    <2>4. /\ logic' \in Seq(Converted) /\ Len(logic') = Len(logic)
          /\ \A i \in 1 .. Len(logic) : logic'[i] = IF i = output THEN new ELSE logic[i]
      BY <1>1, <2>1, <2>3, WriteOutputWrites DEF IInv
    <2>5. Len(logic) \in 1 .. Len(logic) /\ output = Len(logic) /\ Output = logic[Len(logic)]
      BY <1>1, AtWork DEF IInv
    <2>6. CASE Output.complete
      <3>1. \A i \in 1 .. Len(logic) : logic'[i] = logic[i]
        BY <2>3, <2>4, <2>5, <2>6
      <3>2. logic' = logic
        BY <1>1, <2>4, <3>1, SeqEqual
      <3> QED BY <3>2
    <2>7. CASE ~Output.complete
      <3>1. /\ logic # <<>> /\ ~logic[Len(logic)].complete /\ logic'[Len(logic)].complete
            /\ logic'[Len(logic)].count = logic[Len(logic)].count
            /\ \A i \in 1 .. Len(logic) : i # Len(logic) => logic'[i] = logic[i]
        BY <2>3, <2>4, <2>5, <2>7
      <3> QED BY <1>1, <2>4, <3>1, CompletedIsComplete
    <2> QED BY <2>6, <2>7
  <1> QED BY <1>2, <1>3

\* A segment is only begun when the one before it is complete.
LEMMA NextIsReceived ==
    ASSUME IInv, ~raced, Clean, NextSegment PROVE AsSource!Next \/ UNCHANGED logic
  <1>1. tpc = "leave" /\ tpc \in Working /\ logic \in Seq(Converted) /\ acq \in Nat
        /\ input.index + 1 \in Nat
    BY DEF NextSegment, Working, IInv, TypeOK, SamplerTypeOK, ThreadTypeOK, Held
  <1>2. CASE ~MovesOn \/ input.index + 1 > Len(analog)
    BY <1>2 DEF NextSegment
  <1>3. CASE MovesOn /\ ~(input.index + 1 > Len(analog))
    <2>1. logic' = Append(logic, LogicFor(input.index + 1)) /\ Input.complete
      BY <1>3 DEF NextSegment, MovesOn
    <2>2. LogicFor(input.index + 1) \in Converted /\ ~LogicFor(input.index + 1).complete
      BY <1>1 DEF LogicFor, Converted
    <2>3. Output.complete /\ Output = logic[Len(logic)]
      BY <1>1, <2>1, AtWork DEF IInv, Clean, OwnCounts
    <2> QED BY <1>1, <2>1, <2>2, <2>3, BegunIsReceived
  <1> QED BY <1>2, <1>3

\* Without data the thread writes nothing that a consumer sees.
LEMMA NothingIsWritten ==
    ASSUME IInv, analog = <<>>, logic = <<>>, ConvertBlock \/ TestAgain \/ NextSegment PROVE UNCHANGED logic
  <1>1. output = 0
    BY DEF IInv, PlaceInv, TypeOK, ThreadTypeOK
  <1>2. input.index \in Nat /\ Len(analog) = 0
    BY DEF IInv, TypeOK, ThreadTypeOK, Held
  <1> QED BY <1>1, <1>2 DEF ConvertBlock, TestAgain, NextSegment, WriteOutput

\* The steps of the threads on data of their own are those of a source.
LEMMA StepIsSource ==
    ASSUME IInv, [ConversionNext]_conversionVars, ~raced, ~RestartDue
    PROVE  AsSource!Next \/ UNCHANGED logic
  <1>1. ~Due /\ gpc = "idle" /\ (Clean \/ (sampler = "off" /\ analog = <<>> /\ logic = <<>>))
    BY NotDue
  <1>2. CASE UNCHANGED conversionVars \/ SamplerStep \/ Deliver \/ TimerFires \/ EditStep \/ WakesUp
    BY <1>2 DEF conversionVars, SamplerStep, Announce, NewSegment, Feed, Complete, EndCapture, SamplerStays,
       Deliver, TimerFires, EditStep, Edit, WakesUp
  <1>3. CASE Begin \/ Waits \/ EndThread \/ TakeOutput \/ CountSamples \/ TestComplete
    BY <1>3 DEF Begin, Waits, EndThread, TakeOutput, CountSamples, TestComplete
  <1>4. CASE StartCapture
    BY <1>4, ClearedIsClear DEF StartCapture, ClearLogic
  <1>5. CASE Stopped
    BY <1>1, <1>5 DEF Stopped
  <1>6. CASE TakeFirst
    <2>1. logic = <<>> /\ acq \in Nat
      BY <1>6 DEF TakeFirst, IInv, PlaceInv, Beginning, TypeOK, SamplerTypeOK
    <2>2. UNCHANGED logic \/ logic' = <<LogicFor(1)>>
      BY <1>6, <2>1 DEF TakeFirst
    <2>3. LogicFor(1) \in Converted /\ ~LogicFor(1).complete
      BY <2>1 DEF LogicFor, Converted
    <2>4. logic \in Seq(Converted) /\ <<LogicFor(1)>> = Append(logic, LogicFor(1))
      BY <2>1, <2>3
    <2> QED BY <2>1, <2>2, <2>3, <2>4, BegunIsReceived
  <1>7. CASE ConvertBlock \/ TestAgain \/ NextSegment
    BY <1>1, <1>7, ConvertIsReceived, EndIsComplete, NextIsReceived, NothingIsWritten
  <1> QED BY <1>2, <1>3, <1>4, <1>5, <1>6, <1>7 DEF ConversionNext, GuiStep, ConversionThread

\* For decoders that take either, the converted data are a source of samples like acquired
\* ones: they only grow at their end, one segment at a time, or all go at once, unless a
\* restart is due or a segment grew between two looks at it.
THEOREM IsSource == ConversionSpec => ConvertedIsSource
  <1>1. IInv /\ [ConversionNext]_conversionVars
            => [~raced /\ ~RestartDue => AsSource!Next \/ UNCHANGED logic]_conversionVars
    BY StepIsSource
  <1> QED BY <1>1, ConversionInvariant, PTL DEF ConversionSpec, ConvertedIsSource

-----------------------------------------------------------------------------
(* Everything is converted.  What the thread has not looked at is either   *)
(* announced by a signal that the GUI thread has still to pass on, or that *)
(* signal was passed on between a look and the wait, and missed.           *)

\* A segment that is left is not empty.
CountsInv ==
    \A i \in 1 .. Len(analog) : analog[i].complete \/ sampler = "off" => analog[i].count > 0

\* The thread is interrupted only when it is to be joined.
IdleInv ==
    /\ gpc = "idle" => ~interrupt
    /\ conv /\ gpc # "gone" => tpc # "none"

\* The thread is going to look again, or should have been told to.
Pending == missed \/ \E i \in 1 .. Len(events) : NotifiesThread(events[i])

\* Before the first segment is taken.
WaitInv == tpc \in {"block0", "wait0"} => Pending \/ \A i \in 1 .. Len(analog) : analog[i].count = 0

\* Behind the segment the thread works on everything is converted, and so is that one,
\* up to the last block, when the thread leaves it.
Rest ==
    /\ conv => tpc # "done"
    /\ ~raced => \A i \in 1 .. Len(logic) : i # Len(logic) => logic[i].complete
    /\ tpc \in {"full", "refull"} => end = Input.count \/ Pending
    /\ tpc = "refull" /\ ~more => end < cursor + Block
    /\ tpc \in {"leave", "block", "wait"} /\ ~Input.complete =>
          Input.count < Output.count + Block \/ Pending
    /\ tpc \in {"block", "wait"} /\ Input.complete /\ ~raced => Output.complete \/ Pending
    /\ tpc \in {"block", "wait"} /\ Len(logic) < Len(analog) =>
          Pending \/ (Len(analog) = Len(logic) + 1 /\ analog[Len(analog)].count = 0)

RestInv == ~Due /\ gpc = "idle" => Rest \/ (sampler = "off" /\ analog = <<>>)

AllInv == CountsInv /\ IdleInv /\ WaitInv /\ RestInv

\* Whatever the sampling thread adds it announces, but for a segment without samples.
LEMMA SamplerTells ==
    ASSUME TypeOK, EmptyInv, CountsInv, SamplerStep
    PROVE  /\ Pending => Pending'
           /\ \A i \in 1 .. Len(analog) :
                 /\ analog'[i].count # analog[i].count => Pending'
                 /\ analog'[i].complete /\ ~analog[i].complete =>
                       /\ analog[i].count > 0
                       /\ input.acq = acq /\ input.index = i /\ tpc \notin {"none", "done"} => Pending'
           /\ Len(analog') # Len(analog) =>
                 /\ Len(analog') = Len(analog) + 1 /\ analog'[Len(analog')].count = 0
                 /\ ~analog'[Len(analog')].complete /\ sampler' # "off"
                 /\ \A i \in 1 .. Len(analog) : analog[i].complete
  <1>1. analog \in Seq(Sampled) /\ events \in Seq(Signals) /\ input \in Held
    BY DEF TypeOK, SamplerTypeOK, ThreadTypeOK
  <1>2. UNCHANGED missed
    BY DEF SamplerStep, Announce, NewSegment, Feed, Complete, EndCapture, SamplerStays
  <1>3. ASSUME NEW r \in Seq(Signals), events' = events \o r
        PROVE  /\ Pending => Pending'
               /\ (\E i \in 1 .. Len(r) : NotifiesThread(r[i])) => Pending'
    <2>1. /\ Len(events') = Len(events) + Len(r)
          /\ \A i \in 1 .. Len(events) : i \in 1 .. Len(events') /\ events'[i] = events[i]
          /\ \A i \in 1 .. Len(r) : Len(events) + i \in 1 .. Len(events')
                                    /\ events'[Len(events) + i] = r[i]
      BY <1>1, <1>3, QueueMore
    <2> QED BY <1>2, <2>1 DEF Pending
  <1>4. \A e \in Signals : Append(events, e) = events \o <<e>> /\ <<e>> \in Seq(Signals) /\ Len(<<e>>) = 1
    BY <1>1
  <1>5. CASE Announce
    <2>1. UNCHANGED analog
      BY <1>5 DEF Announce
    <2>2. Pending => Pending'
      <3>1. CASE events' = Append(events, "running")
        BY <1>3, <1>4, <3>1 DEF Signals
      <3>2. CASE UNCHANGED events
        BY <1>2, <3>2 DEF Pending
      <3> QED BY <1>5, <3>1, <3>2 DEF Announce
    <2> QED BY <2>1, <2>2
  <1>6. CASE EndCapture
    BY <1>2, <1>6 DEF EndCapture, Pending
  <1>7. CASE NewSegment
    <2>1. analog' = Append(analog, EmptySegment) /\ ~Growing /\ UNCHANGED <<events, sampler>> /\ sampler # "off"
      BY <1>7 DEF NewSegment
    <2>2. Len(analog') = Len(analog) + 1 /\ analog'[Len(analog')] = EmptySegment
          /\ \A i \in 1 .. Len(analog) : analog'[i] = analog[i]
      BY <1>1, <2>1, AppendGrows
    <2>3. \A i \in 1 .. Len(analog) : analog[i].complete
      BY <2>1 DEF Growing, Last, EmptyInv
    <2>4. Pending => Pending'
      BY <1>2, <2>1 DEF Pending
    <2> QED BY <2>1, <2>2, <2>3, <2>4 DEF EmptySegment
  <1>8. ASSUME NEW n \in 1 .. MaxSamples, NEW widens \in BOOLEAN, Feed(n, widens)
        PROVE  /\ Pending' /\ Len(analog') = Len(analog)
               /\ \A i \in 1 .. Len(analog) : analog'[i].complete = analog[i].complete
    <2>1. analog' = [analog EXCEPT ![Len(analog)].count = @ + n]
      BY <1>8 DEF Feed
    <2>2. \A i \in 1 .. Len(analog) : analog[i] \in Sampled
      BY <1>1
    <2>3. Len(analog') = Len(analog)
          /\ \A i \in 1 .. Len(analog) : analog'[i].complete = analog[i].complete
      BY <1>1, <2>1, <2>2 DEF Sampled
    <2>4. PICK r \in Seq(Signals) : events' = events \o r /\ \E i \in 1 .. Len(r) : r[i] = "added"
      BY <1>1, <1>8, FeedAnnounces
    <2>5. Pending'
      BY <1>3, <2>4 DEF NotifiesThread
    <2> QED BY <2>3, <2>5
  <1>9. CASE Complete
    <2>1. /\ analog' = [analog EXCEPT ![Len(analog)].complete = TRUE] /\ Growing /\ Last(analog).count > 0
          /\ events' = IF input = [acq |-> acq, index |-> Len(analog)] /\ tpc \notin {"none", "done"}
                       THEN Append(events, "completed") ELSE events
      BY <1>9 DEF Complete
    <2>2. \A i \in 1 .. Len(analog) : analog[i] \in Sampled
      BY <1>1
    <2>3. /\ Len(analog') = Len(analog)
          /\ \A i \in 1 .. Len(analog) : analog'[i].count = analog[i].count
          /\ \A i \in 1 .. Len(analog) : i # Len(analog) => analog'[i] = analog[i]
      BY <1>1, <2>1, <2>2 DEF Sampled
    <2>4. analog[Len(analog)].count > 0
      BY <2>1 DEF Last
    <2>5. CASE events' = Append(events, "completed")
      <3>1. events' = events \o <<"completed">> /\ <<"completed">> \in Seq(Signals) /\ Len(<<"completed">>) = 1
        BY <1>4, <2>5 DEF Signals
      <3>2. \E i \in 1 .. Len(<<"completed">>) : NotifiesThread(<<"completed">>[i])
        BY <3>1 DEF NotifiesThread
      <3>3. Pending'
        BY <1>3, <3>1, <3>2
      <3> QED BY <2>3, <2>4, <3>3
    <2>6. CASE ~(input = [acq |-> acq, index |-> Len(analog)] /\ tpc \notin {"none", "done"})
      <3>1. UNCHANGED events
        BY <2>1, <2>6
      <3>2. Pending => Pending'
        BY <1>2, <3>1 DEF Pending
      <3>3. input.acq = acq /\ input.index = Len(analog) => tpc \in {"none", "done"}
        BY <1>1, <2>6 DEF Held
      <3> QED BY <2>3, <2>4, <3>2, <3>3
    <2> QED BY <2>1, <2>5, <2>6
  <1> QED BY <1>5, <1>6, <1>7, <1>8, <1>9 DEF SamplerStep

\* Growing input leaves nothing behind that is not announced.
LEMMA RestWhileSampling ==
    ASSUME IInv, IInv', CountsInv, Clean, Rest, SamplerStep
    PROVE  Rest'
  <1>1. /\ UNCHANGED <<acq, conv, logic, tpc, input, output, orphan, cursor, end, more>>
        /\ Output' = Output
    BY DEF SamplerStep, Announce, NewSegment, Feed, Complete, EndCapture, SamplerStays, localVars, Output
  <1>2. /\ analog \in Seq(Sampled) /\ analog' \in Seq(Sampled) /\ Grows(analog, analog')
        /\ (raced => raced') /\ (Pending => Pending')
    BY SamplerData, SamplerRaces, SamplerTells DEF IInv, TypeOK, SamplerTypeOK
  <1>3. /\ conv' => tpc' # "done"
        /\ ~raced' => \A i \in 1 .. Len(logic') : i # Len(logic') => logic'[i].complete
        /\ tpc' = "refull" /\ ~more' => end' < cursor' + Block
    BY <1>1, <1>2 DEF Rest
  <1>4. CASE tpc \in Working
    <2>1. /\ input.acq = acq /\ input.index \in 1 .. Len(analog) /\ input.index \in 1 .. Len(analog')
          /\ Len(logic) \in 1 .. Len(analog)
      BY <1>2, <1>4, AtWork DEF IInv, Grows
    <2>2. Input = analog[input.index] /\ Input' = analog'[input.index]
      BY <1>1, <2>1 DEF Input
    <2>3. /\ Input'.count # Input.count => Pending'
          /\ Input'.complete /\ ~Input.complete => Pending'
          /\ Input.complete => Input'.complete
      <3>1. tpc \notin {"none", "done"}
        BY <1>4 DEF Working
      <3>2. Input.complete => Input'.complete
        BY <1>2, <2>1, <2>2 DEF Grows
      <3> QED BY <2>1, <2>2, <3>1, <3>2, SamplerTells DEF IInv
    <2>4. tpc' \in {"full", "refull"} => end' = Input'.count \/ Pending'
      BY <1>1, <1>2, <2>3 DEF Rest
    <2>5. tpc' \in {"leave", "block", "wait"} /\ ~Input'.complete =>
              Input'.count < Output'.count + Block \/ Pending'
      BY <1>1, <1>2, <2>3 DEF Rest
    <2>6. tpc' \in {"block", "wait"} /\ Input'.complete /\ ~raced' => Output'.complete \/ Pending'
      BY <1>1, <1>2, <2>3 DEF Rest
    <2>7. tpc' \in {"block", "wait"} /\ Len(logic') < Len(analog') =>
              Pending' \/ (Len(analog') = Len(logic') + 1 /\ analog'[Len(analog')].count = 0)
      <3> SUFFICES ASSUME tpc \in {"block", "wait"}, Len(logic) < Len(analog'), ~Pending'
                   PROVE  Len(analog') = Len(logic) + 1 /\ analog'[Len(analog')].count = 0
        BY <1>1
      <3>1. CASE Len(analog') = Len(analog)
        <4>1. Len(analog) = Len(logic) + 1 /\ analog[Len(analog)].count = 0
          BY <1>2, <3>1 DEF Rest
        <4>2. Len(analog) \in 1 .. Len(analog)
          BY <2>1
        <4>3. analog'[Len(analog)].count = analog[Len(analog)].count
          BY <4>2, SamplerTells DEF IInv
        <4> QED BY <3>1, <4>1, <4>3
      <3>2. CASE Len(analog') # Len(analog)
        <4>1. /\ Len(analog') = Len(analog) + 1 /\ analog'[Len(analog')].count = 0
              /\ \A i \in 1 .. Len(analog) : analog[i].complete
          BY <3>2, SamplerTells DEF IInv
        <4>2. Len(analog) \in 1 .. Len(analog) /\ Len(logic) <= Len(analog)
          BY <2>1
        <4>3. ~(Len(logic) < Len(analog))
          BY <1>2, <4>1, <4>2 DEF Rest, CountsInv
        <4> QED BY <4>1, <4>2, <4>3
      <3> QED BY <3>1, <3>2
    <2> QED BY <1>3, <2>4, <2>5, <2>6, <2>7 DEF Rest
  <1>5. CASE tpc \notin Working
    BY <1>1, <1>3, <1>5 DEF Rest, Working
  <1> QED BY <1>4, <1>5

\* The sampling thread keeps the invariant.
LEMMA SamplerAll == ASSUME IInv, IInv', AllInv, SamplerStep PROVE AllInv'
  <1>1. UNCHANGED <<conv, gpc, interrupt, tpc>>
    BY DEF SamplerStep, Announce, NewSegment, Feed, Complete, EndCapture, SamplerStays
  <1>2. /\ analog \in Seq(Sampled) /\ analog' \in Seq(Sampled) /\ Grows(analog, analog')
        /\ (Pending => Pending')
    BY SamplerData, SamplerTells DEF IInv, TypeOK, SamplerTypeOK, AllInv
  <1>3. \A i \in 1 .. Len(analog) : i \in 1 .. Len(analog') /\ analog[i].count \in Nat /\ analog'[i].count \in Nat
                                    /\ analog[i].count <= analog'[i].count
    BY <1>2, SampledType DEF Grows
  <1>4. CountsInv'
    <2> SUFFICES ASSUME NEW i \in 1 .. Len(analog'), analog'[i].complete \/ sampler' = "off"
                 PROVE  analog'[i].count > 0
      BY DEF CountsInv
    <2>1. CASE i \in 1 .. Len(analog) /\ analog'[i].complete
      <3>1. analog[i].complete => analog[i].count > 0
        BY <2>1 DEF AllInv, CountsInv
      <3>2. ~analog[i].complete => analog[i].count > 0
        BY <2>1, SamplerTells DEF IInv, AllInv
      <3> QED BY <1>3, <2>1, <3>1, <3>2
    <2>2. CASE i \in 1 .. Len(analog) /\ sampler' = "off" /\ ~analog'[i].complete
      <3>1. Announce \/ EndCapture
        BY <2>2 DEF SamplerStep, NewSegment, Feed, Complete
      <3>2. UNCHANGED analog
        BY <3>1 DEF Announce, EndCapture
      <3>3. i = Len(analog) /\ EndCapture
        BY <2>2, <3>1, <3>2 DEF IInv, EmptyInv, Announce
      <3>4. Growing /\ Last(analog).count > 0
        BY <2>2, <3>2, <3>3 DEF EndCapture, Growing, Last
      <3> QED BY <3>2, <3>3, <3>4 DEF Last
    <2>3. CASE i \notin 1 .. Len(analog)
      <3>1. Len(analog') # Len(analog)
        BY <2>3
      <3>2. Len(analog') = Len(analog) + 1 /\ ~analog'[Len(analog')].complete /\ sampler' # "off"
        BY <3>1, SamplerTells DEF IInv, AllInv
      <3>3. i = Len(analog')
        BY <1>2, <2>3, <3>2
      <3> QED BY <3>2, <3>3
    <2> QED BY <2>1, <2>2, <2>3
  <1>5. IdleInv'
    BY <1>1 DEF AllInv, IdleInv
  <1>6. WaitInv'
    <2> SUFFICES ASSUME tpc \in {"block0", "wait0"}, ~Pending', NEW i \in 1 .. Len(analog')
                 PROVE  analog'[i].count = 0
      BY <1>1 DEF WaitInv
    <2>1. CASE i \in 1 .. Len(analog)
      <3>1. analog[i].count = 0
        BY <1>2, <2>1 DEF AllInv, WaitInv
      <3>2. analog'[i].count = analog[i].count
        BY <2>1, SamplerTells DEF IInv, AllInv
      <3> QED BY <3>1, <3>2
    <2>2. CASE i \notin 1 .. Len(analog)
      <3>1. Len(analog') # Len(analog)
        BY <2>2
      <3>2. Len(analog') = Len(analog) + 1 /\ analog'[Len(analog')].count = 0
        BY <3>1, SamplerTells DEF IInv, AllInv
      <3>3. i = Len(analog')
        BY <1>2, <2>2, <3>2
      <3> QED BY <3>2, <3>3
    <2> QED BY <2>1, <2>2
  <1>7. RestInv'
    <2> SUFFICES ASSUME ~Due', gpc = "idle" PROVE Rest' \/ (sampler' = "off" /\ analog' = <<>>)
      BY <1>1 DEF RestInv
    <2>1. (sampler' = "off" /\ analog' = <<>>) \/ (~Due /\ sampler # "off")
      BY SamplerDue DEF IInv
    <2> QED BY <2>1, RestWhileSampling DEF IInv, OwnInv, AllInv, RestInv
  <1> QED BY <1>4, <1>5, <1>6, <1>7 DEF AllInv

\* A notification lets the thread look again, or is missed, and other signals tell nothing.
LEMMA NudgedAll ==
    ASSUME IInv, AllInv, Nudged, UNCHANGED <<samplerVars, conv, logic, localVars, raced>>,
           tpc' = tpc /\ tpc \in {"block0", "wait0", "full", "refull", "leave", "block", "wait"} =>
              (Pending => Pending'),
           gpc' = "idle" => gpc = "idle" /\ ~interrupt' /\ (~Due' => ~Due \/ ~conv),
           gpc' # "gone" => gpc # "gone"
    PROVE  AllInv'
  <1>1. /\ UNCHANGED <<analog, acq, sampler, conv, logic, input, output, orphan, cursor, end, more, raced>>
        /\ Input' = Input /\ Output' = Output
    BY DEF samplerVars, localVars, Input, Output
  <1>2. CountsInv'
    BY <1>1 DEF AllInv, CountsInv
  <1>3. IdleInv'
    BY <1>1 DEF AllInv, IdleInv, Nudged
  <1>4. WaitInv'
    BY <1>1 DEF AllInv, WaitInv, Nudged
  <1>5. Rest => Rest'
    BY <1>1 DEF Rest, Nudged
  <1>6. ~conv => Rest'
    <2> SUFFICES ASSUME ~conv PROVE Rest'
      OBVIOUS
    <2>1. tpc' \in {"none", "done"} /\ logic' = <<>>
      BY <1>1 DEF IInv, EmptyInv, Nudged
    <2> QED BY <1>1, <2>1 DEF Rest
  <1>7. RestInv'
    BY <1>1, <1>5, <1>6 DEF AllInv, RestInv
  <1> QED BY <1>2, <1>3, <1>4, <1>7 DEF AllInv

\* The steps of the GUI thread between two acquisitions keep the invariant.
LEMMA StopsAll == ASSUME IInv, AllInv, EditStep \/ TimerFires \/ WakesUp PROVE AllInv'
  <1>1. UNCHANGED <<samplerVars, events, conv, logic, localVars, raced>>
    BY DEF EditStep, Edit, TimerFires, WakesUp
  <1>2. CASE EditStep \/ TimerFires
    <2>1. UNCHANGED missed /\ gpc = "idle" /\ \E what \in {"retype", "restart", "destroy"} : StopFor(what)
      BY <1>2 DEF EditStep, Edit, TimerFires
    <2>2. Nudged /\ gpc' = "join"
      BY <2>1, StopForNudges DEF IInv
    <2>3. Pending => Pending'
      BY <1>1, <2>1 DEF Pending
    <2> QED BY <1>1, <2>1, <2>2, <2>3, NudgedAll
  <1>3. CASE WakesUp
    <2>1. Nudged /\ UNCHANGED <<gpc, interrupt>> /\ ~(tpc' = tpc)
      BY <1>3 DEF WakesUp, Nudged
    <2>2. Due' <=> Due
      BY <1>1 DEF Due, samplerVars
    <2>3. gpc' = "idle" => ~interrupt'
      BY <2>1 DEF AllInv, IdleInv
    <2> QED BY <1>1, <2>1, <2>2, <2>3, NudgedAll
  <1> QED BY <1>2, <1>3

\* A signal that tells of data is passed on while a conversion is selected.
LEMMA DeliverAll == ASSUME IInv, AllInv, Deliver PROVE AllInv'
  <1>1. /\ gpc = "idle" /\ events # <<>> /\ events' = Tail(events)
        /\ UNCHANGED <<samplerVars, conv, edits, logic, localVars, raced>>
    BY DEF Deliver
  <1>2. events \in Seq(Signals) /\ Head(events) \in Signals
    BY <1>1 DEF IInv, TypeOK, SamplerTypeOK
  <1>3. \A i \in 1 .. Len(events) : i # 1 => i - 1 \in 1 .. Len(events') /\ events'[i - 1] = events[i]
    BY <1>1, <1>2
  <1>4. Head(events) = events[1]
    BY <1>1, <1>2
  <1>5. Due => Due' \/ Head(events) = "running"
    BY <1>1, <1>3, <1>4 DEF Due, samplerVars
  <1>6. UNCHANGED missed /\ ~NotifiesThread(Head(events)) => (Pending => Pending')
    BY <1>3, <1>4 DEF Pending
  <1>7. ~conv \/ tpc = "none" => tpc \in {"none", "done"}
    BY DEF IInv, EmptyInv
  <1>8. \/ /\ Nudged /\ UNCHANGED <<gpc, interrupt>> /\ (Head(events) = "running" => ~conv)
           /\ (UNCHANGED missed /\ ~NotifiesThread(Head(events)))
              \/ ~(tpc' = tpc /\ tpc \in {"block0", "wait0", "full", "refull", "leave", "block", "wait"})
              \/ missed'
        \/ /\ StopFor("restart") /\ UNCHANGED missed
           /\ ~NotifiesThread(Head(events)) \/ tpc = "none"
    <2>1. NotifyData =>
              /\ Nudged
              /\ \/ ~(tpc' = tpc /\ tpc \in {"block0", "wait0", "full", "refull", "leave", "block", "wait"})
                 \/ missed'
      BY DEF NotifyData, Nudged, Deciding
    <2> QED BY <1>2, <1>7, <2>1 DEF Deliver, NotifiesThread, Nudged, Signals
  <1>9. CASE /\ Nudged /\ UNCHANGED <<gpc, interrupt>> /\ (Head(events) = "running" => ~conv)
             /\ (UNCHANGED missed /\ ~NotifiesThread(Head(events)))
                \/ ~(tpc' = tpc /\ tpc \in {"block0", "wait0", "full", "refull", "leave", "block", "wait"})
                \/ missed'
    <2>1. missed' => Pending'
      BY DEF Pending
    <2>2. ~interrupt'
      BY <1>1, <1>9 DEF AllInv, IdleInv
    <2> QED BY <1>1, <1>5, <1>6, <1>9, <2>1, <2>2, NudgedAll
  <1>10. CASE /\ StopFor("restart") /\ UNCHANGED missed
              /\ ~NotifiesThread(Head(events)) \/ tpc = "none"
    <2>1. Nudged /\ gpc' = "join"
      BY <1>10, StopForNudges DEF IInv
    <2> QED BY <1>1, <1>6, <1>10, <2>1, NudgedAll
  <1> QED BY <1>8, <1>9, <1>10

\* The beginnings and ends keep it.
LEMMA StartsAll == ASSUME IInv, AllInv, StartCapture \/ Stopped PROVE AllInv'
  <1>1. CASE StartCapture
    <2>1. analog' = <<>> /\ sampler' = "starting" /\ UNCHANGED <<conv, gpc, interrupt, tpc>>
      BY <1>1 DEF StartCapture, guiVars
    <2> QED BY <2>1 DEF AllInv, CountsInv, IdleInv, WaitInv, RestInv, Due
  <1>2. CASE Stopped
    <2>1. UNCHANGED <<analog, sampler>>
      BY <1>2 DEF Stopped, samplerVars
    <2>2. \/ gpc' = "gone" /\ tpc' = "none"
          \/ gpc' = "idle" /\ interrupt' = FALSE /\ logic' = <<>> /\ tpc' = (IF conv' THEN "start" ELSE "done")
      BY <1>2 DEF Stopped, StartsThread
    <2>3. gpc' = "idle" => Rest'
      BY <2>2 DEF Rest
    <2> QED BY <2>1, <2>2, <2>3 DEF AllInv, CountsInv, IdleInv, WaitInv, RestInv
  <1> QED BY <1>1, <1>2

\* What is left to show of a step of the thread.
LEMMA ThreadAll ==
    ASSUME IInv, AllInv, ConversionThread, WaitInv', tpc' # "none",
           Clean /\ Rest /\ ~interrupt /\ (Pending' <=> Pending) => Rest'
    PROVE  AllInv'
  <1>1. UNCHANGED <<samplerVars, events, conv, gpc, interrupt, missed>>
    BY DEF ConversionThread, Begin, Waits, TakeFirst, TakeOutput, CountSamples, TestComplete,
       ConvertBlock, TestAgain, NextSegment, EndThread, ThreadStays, guiVars
  <1>2. Pending' <=> Pending
    BY <1>1 DEF Pending
  <1>3. CountsInv' /\ IdleInv'
    BY <1>1 DEF AllInv, CountsInv, IdleInv, samplerVars
  <1>4. Due' <=> Due
    BY <1>1 DEF Due, samplerVars
  <1>5. RestInv'
    <2> SUFFICES ASSUME ~Due, gpc = "idle", ~(sampler = "off" /\ analog = <<>>) PROVE Rest'
      BY <1>1, <1>4 DEF RestInv, samplerVars
    <2>1. Clean /\ Rest /\ ~interrupt
      BY DEF IInv, OwnInv, AllInv, RestInv, IdleInv
    <2> QED BY <1>2, <2>1
  <1> QED BY <1>3, <1>5 DEF AllInv

\* Steps that move the thread, or let it take its segments.
LEMMA MovesAll ==
    ASSUME IInv, AllInv, Begin \/ Waits \/ EndThread \/ TakeFirst \/ TakeOutput PROVE AllInv'
  <1>1. ConversionThread /\ UNCHANGED <<samplerVars, events, conv, raced, missed, end, cursor, more, orphan, frozen>>
    BY DEF ConversionThread, Begin, Waits, EndThread, TakeFirst, TakeOutput, ThreadStays, guiVars, localVars
  <1>2. CASE Begin
    <2>1. /\ tpc' = (IF analog = <<>> THEN "block0" ELSE "woken") /\ logic' = logic /\ tpc = "start"
      BY <1>2 DEF Begin
    <2>2. WaitInv'
      <3>1. tpc' = "block0" => analog' = <<>>
        BY <1>1, <2>1 DEF samplerVars
      <3> QED BY <2>1, <3>1 DEF WaitInv
    <2>3. Rest => Rest'
      BY <1>1, <2>1 DEF Rest
    <2> QED BY <1>1, <2>1, <2>2, <2>3, ThreadAll
  <1>3. CASE Waits
    <2>1. /\ (tpc = "block0" /\ tpc' = "wait0") \/ (tpc = "block" /\ tpc' = "wait")
          /\ UNCHANGED <<logic, input, output>>
      BY <1>3 DEF Waits, localVars
    <2>2. Input' = Input /\ Output' = Output
      BY <1>1, <2>1 DEF Input, Output, samplerVars
    <2>3. Pending' <=> Pending
      BY <1>1 DEF Pending
    <2>4. WaitInv'
      BY <1>1, <2>1, <2>3 DEF AllInv, WaitInv, samplerVars
    <2>5. Rest => Rest'
      BY <1>1, <2>1, <2>2, <2>3 DEF Rest, samplerVars
    <2> QED BY <1>1, <2>1, <2>4, <2>5, ThreadAll
  <1>4. CASE EndThread
    <2>1. tpc' = "done" /\ interrupt
      BY <1>4 DEF EndThread
    <2> QED BY <1>1, <2>1, ThreadAll DEF WaitInv
  <1>5. CASE TakeFirst
    <2>1. /\ tpc' \in {"done", "undefined", "front"} /\ (tpc' = "done" => interrupt)
          /\ logic = <<>> /\ logic' \in {<<>>, <<LogicFor(1)>>}
      BY <1>5 DEF TakeFirst, IInv, PlaceInv, Beginning
    <2>2. \A i \in 1 .. Len(logic') : i = Len(logic')
      BY <2>1
    <2>3. ~interrupt => Rest'
      BY <2>1, <2>2 DEF Rest
    <2> QED BY <1>1, <2>1, <2>3, ThreadAll DEF WaitInv
  <1>6. CASE TakeOutput
    <2>1. tpc' \in {"undefined", "count", "loop"} /\ UNCHANGED logic
      BY <1>6 DEF TakeOutput
    <2>2. Rest => Rest'
      BY <1>1, <2>1 DEF Rest
    <2> QED BY <1>1, <2>1, <2>2, ThreadAll DEF WaitInv
  <1> QED BY <1>2, <1>3, <1>4, <1>5, <1>6

\* The thread looks at the counts, and at the completeness.
LEMMA LooksAll == ASSUME IInv, AllInv, CountSamples \/ TestComplete PROVE AllInv'
  <1>1. /\ ConversionThread /\ UNCHANGED <<samplerVars, events, conv, raced, missed>>
        /\ UNCHANGED <<logic, input, frozen, output, orphan>>
        /\ tpc \in Working /\ tpc' \in {"full", "refull", "convert", "leave"}
    BY DEF ConversionThread, CountSamples, TestComplete, Returns, ThreadStays, guiVars, Working
  <1>2. Input' = Input /\ Output' = Output
    BY <1>1 DEF Input, Output, samplerVars
  <1>3. Input.count \in Nat /\ Output.count \in Nat /\ cursor \in Nat /\ end \in Nat /\ Block \in Nat
    BY <1>1, InputType, OutputType, ConversionAssumption DEF IInv, TypeOK, ThreadTypeOK
  <1>4. WaitInv' /\ tpc' \notin {"none", "done"}
    BY <1>1 DEF WaitInv
  <1>5. CASE CountSamples
    <2>1. /\ cursor' = Output.count /\ end' = Input.count /\ tpc' \in {"full", "refull"}
          /\ tpc' = "refull" => tpc = "recount"
          /\ more' = (tpc = "recount" /\ Input.count - end >= Block)
      BY <1>5 DEF CountSamples
    <2>2. Clean /\ tpc' = "refull" /\ ~more' => end' < cursor' + Block
      <3> SUFFICES ASSUME Clean, tpc' = "refull", ~more' PROVE end' < cursor' + Block
        OBVIOUS
      <3>1. end = Output.count
        BY <2>1 DEF Clean, OwnCounts
      <3>2. ~(Input.count - end >= Block)
        BY <2>1
      <3> QED BY <1>3, <2>1, <3>1, <3>2
    <2>3. Clean /\ Rest => Rest'
      BY <1>1, <1>2, <1>4, <2>1, <2>2 DEF Rest
    <2> QED BY <1>1, <1>4, <2>3, ThreadAll
  <1>6. CASE TestComplete
    <2>1. /\ tpc = "full" /\ tpc' \in {"leave", "convert"}
          /\ tpc' = "leave" => end - cursor < Block
      BY <1>6 DEF TestComplete, Returns
    <2>2. Clean /\ Rest /\ (Pending' <=> Pending) /\ tpc' = "leave" => Input.count < Output.count + Block \/ Pending'
      BY <1>3, <2>1 DEF Clean, OwnCounts, Rest
    <2>3. Clean /\ Rest /\ (Pending' <=> Pending) => Rest'
      BY <1>1, <1>2, <1>4, <2>1, <2>2 DEF Rest
    <2> QED BY <1>1, <1>4, <2>3, ThreadAll
  <1> QED BY <1>5, <1>6

\* The thread writes its output.
LEMMA WritesAll == ASSUME IInv, IInv', AllInv, ConvertBlock \/ TestAgain PROVE AllInv'
  <1>1. /\ ConversionThread /\ UNCHANGED <<samplerVars, events, conv, raced, missed>>
        /\ UNCHANGED <<input, frozen, output>>
        /\ tpc \in Working /\ tpc' \in {"convert", "recount", "leave"}
    BY DEF ConversionThread, ConvertBlock, TestAgain, Returns, ThreadStays, guiVars, Working
  <1>2. Input' = Input
    BY <1>1 DEF Input, samplerVars
  <1>3. Input.count \in Nat /\ Output.count \in Nat /\ cursor \in Nat /\ end \in Nat /\ Block \in Nat
        /\ Output \in Converted
    BY <1>1, InputType, OutputType, ConversionAssumption DEF IInv, TypeOK, ThreadTypeOK
  <1>4. WaitInv' /\ tpc' \notin {"none", "done"}
    BY <1>1 DEF WaitInv
  <1>5. /\ Len(logic') = Len(logic)
        /\ Clean => \A i \in 1 .. Len(logic) : i # Len(logic) => logic'[i] = logic[i]
    <2>1. ASSUME NEW new \in Converted, WriteOutput(new)
          PROVE  /\ Len(logic') = Len(logic)
                 /\ Clean => \A i \in 1 .. Len(logic) : i # Len(logic) => logic'[i] = logic[i]
      <3>1. /\ Len(logic') = Len(logic)
            /\ \A i \in 1 .. Len(logic) : logic'[i] = IF i = output THEN new ELSE logic[i]
        BY <1>1, <2>1, WriteOutputWrites DEF IInv
      <3>2. Clean => output = Len(logic)
        BY <1>1, AtWork DEF IInv
      <3> QED BY <3>1, <3>2
    <2>2. CASE UNCHANGED logic
      BY <2>2
    <2>3. CASE ConvertBlock /\ cursor < end
      <3>1. BlockEnd \in Nat /\ cursor < BlockEnd
        BY <1>3, <2>3, BlockEndBounds
      <3>2. [Output EXCEPT !.count = @ + (BlockEnd - cursor)] \in Converted
        <4>1. BlockEnd - cursor \in Nat
          BY <1>3, <3>1
        <4> QED BY <1>3, <4>1 DEF Converted
      <3> QED BY <1>3, <2>1, <2>3, <3>2 DEF ConvertBlock
    <2>4. CASE TestAgain
      <3>1. [Output EXCEPT !.complete = TRUE] \in Converted
        BY <1>3 DEF Converted
      <3> QED BY <2>1, <2>2, <2>4, <3>1 DEF TestAgain
    <2> QED BY <1>3, <2>2, <2>3, <2>4 DEF ConvertBlock
  <1>6. Clean /\ Rest /\ (Pending' <=> Pending) /\ tpc' = "leave" /\ ~Input.complete =>
            Input.count < Output'.count + Block \/ Pending'
    <2> SUFFICES ASSUME Clean, Rest, Pending' <=> Pending, tpc' = "leave", ~Input.complete
                 PROVE  Input.count < Output'.count + Block \/ Pending'
      OBVIOUS
    <2>1. TestAgain /\ ~GoesOn
      BY DEF ConvertBlock, TestAgain
    <2>2. tpc = "refull" /\ ~more /\ UNCHANGED <<logic, orphan>>
      BY <2>1 DEF TestAgain, GoesOn
    <2>3. Output' = Output
      BY <1>1, <2>2 DEF Output
    <2>4. cursor = Output.count /\ end < cursor + Block /\ (end = Input.count \/ Pending)
      BY <2>2 DEF Clean, OwnCounts, Rest
    <2> QED BY <1>3, <2>3, <2>4
  <1>7. Clean /\ Rest /\ (Pending' <=> Pending) => Rest'
    BY <1>1, <1>2, <1>4, <1>5, <1>6 DEF Rest
  <1> QED BY <1>1, <1>4, <1>7, ThreadAll

\* The thread only leaves a segment for good when that is all converted, and only waits
\* when there is no other.
LEMMA NextAll == ASSUME IInv, AllInv, NextSegment PROVE AllInv'
  <1>1. /\ ConversionThread /\ UNCHANGED <<samplerVars, events, conv, raced, missed, output, orphan, frozen>>
        /\ tpc = "leave" /\ tpc \in Working /\ tpc' \in {"done", "block", "back"}
    BY DEF ConversionThread, NextSegment, ThreadStays, guiVars, Working
  <1>2. analog \in Seq(Sampled) /\ logic \in Seq(Converted)
    BY DEF IInv, TypeOK, SamplerTypeOK, ThreadTypeOK
  <1>3. WaitInv' /\ tpc' # "none"
    BY <1>1 DEF WaitInv
  <1>4. ASSUME Clean, Rest, ~interrupt, Pending' <=> Pending PROVE Rest'
    <2>1. input.index = Len(logic) /\ Len(logic) \in 1 .. Len(analog) /\ Len(logic) \in 1 .. Len(logic)
          /\ Input = analog[Len(logic)] /\ Output = logic[Len(logic)]
      BY <1>1, <1>4, AtWork DEF IInv
    <2>2. Input.complete /\ ~raced => Output.complete
      BY <1>1, <1>4 DEF Clean, OwnCounts
    <2>3. CASE ~MovesOn
      <3>1. tpc' = "block" /\ UNCHANGED <<logic, input>>
        BY <1>4, <2>3 DEF NextSegment
      <3>2. Input' = Input /\ Output' = Output
        BY <1>1, <3>1 DEF Input, Output, samplerVars
      <3>3. ~(Len(logic) < Len(analog))
        <4>1. Len(logic) < Len(analog) => Input.complete
          BY <2>1 DEF IInv, EmptyInv
        <4> QED BY <2>1, <2>3, <4>1 DEF MovesOn
      <3>4. /\ ~raced => \A i \in 1 .. Len(logic) : i # Len(logic) => logic[i].complete
            /\ ~Input.complete => Input.count < Output.count + Block \/ Pending
        BY <1>1, <1>4 DEF Rest
      <3> QED BY <1>1, <1>4, <2>2, <3>1, <3>2, <3>3, <3>4 DEF Rest, samplerVars
    <2>4. CASE MovesOn
      <3>1. /\ tpc' = "back" /\ logic' = Append(logic, LogicFor(input.index + 1)) /\ Input.complete
        BY <1>2, <2>1, <2>4 DEF NextSegment, MovesOn
      <3>2. Len(logic') = Len(logic) + 1 /\ \A i \in 1 .. Len(logic) : logic'[i] = logic[i]
        BY <1>2, <3>1
      <3>3. ~raced => \A i \in 1 .. Len(logic) : logic[i].complete
        <4>1. ~raced => \A i \in 1 .. Len(logic) : i # Len(logic) => logic[i].complete
          BY <1>4 DEF Rest
        <4> QED BY <2>1, <2>2, <3>1, <4>1
      <3>4. ~raced' => \A i \in 1 .. Len(logic') : i # Len(logic') => logic'[i].complete
        BY <1>1, <1>2, <3>2, <3>3
      <3> QED BY <3>1, <3>4 DEF Rest
    <2> QED BY <2>3, <2>4
  <1> QED BY <1>1, <1>3, <1>4, ThreadAll

\* Initially there is nothing to convert.
LEMMA InitAll == ConversionInit => AllInv
  <1> SUFFICES ASSUME ConversionInit PROVE AllInv
    OBVIOUS
  <1>1. tpc \in {"start", "none"} /\ (conv => tpc = "start") /\ logic = <<>> /\ analog = <<>>
        /\ gpc = "idle" /\ ~interrupt /\ sampler = "off"
    BY DEF ConversionInit
  <1> QED BY <1>1 DEF AllInv, CountsInv, IdleInv, WaitInv, RestInv

\* Every step keeps the invariant.
LEMMA StepAll == IInv /\ IInv' /\ AllInv /\ [ConversionNext]_conversionVars => AllInv'
  <1>1. ASSUME IInv, AllInv, UNCHANGED conversionVars PROVE AllInv'
    <2>1. UNCHANGED <<analog, acq, sampler, events, conv, gpc, interrupt, logic, tpc, input, frozen, output, orphan,
                      cursor, end, more, missed, raced>>
      BY <1>1 DEF conversionVars, samplerVars, guiVars, localVars, historyVars
    <2>2. Input' = Input /\ Output' = Output /\ (Pending' <=> Pending) /\ (Due' <=> Due)
      BY <2>1 DEF Input, Output, Pending, Due
    <2>3. Rest' <=> Rest
      BY <2>1, <2>2 DEF Rest
    <2> QED BY <1>1, <2>1, <2>2, <2>3 DEF AllInv, CountsInv, IdleInv, WaitInv, RestInv
  <1>2. ASSUME IInv, IInv', AllInv, ConversionNext PROVE AllInv'
    BY <1>2, SamplerAll, StopsAll, DeliverAll, StartsAll, MovesAll, LooksAll, WritesAll, NextAll
       DEF ConversionNext, GuiStep, ConversionThread
  <1> QED BY <1>1, <1>2

\* When everything has come to rest all complete segments are converted to their ends, and
\* an incomplete one up to the last block, unless a notification fell between a test and
\* the wait, or a segment grew between two looks at it.
THEOREM AllConverted == ConversionSpec => []ConvertsAll
  <1>1. ConversionSpec => [](IInv /\ AllInv)
    BY InitAll, StepAll, ConversionInvariant, PTL DEF ConversionSpec
  <1>2. IInv /\ AllInv => ConvertsAll
    <2> SUFFICES ASSUME IInv, AllInv, Quiescent, ~missed, ~raced
                 PROVE  /\ Len(logic) = Len(analog)
                        /\ \A i \in DOMAIN logic :
                            IF analog[i].complete
                            THEN logic[i].complete /\ logic[i].count = analog[i].count
                            ELSE analog[i].count < logic[i].count + Block
      BY DEF ConvertsAll
    <2>1. sampler = "off" /\ Len(events) = 0 /\ gpc = "idle" /\ conv /\ tpc \in {"wait", "wait0", "done"}
      BY DEF Quiescent
    <2>2. ~Due /\ ~Pending
      BY <2>1 DEF Due, Pending
    <2>3. /\ analog \in Seq(Sampled) /\ logic \in Seq(Converted) /\ DOMAIN logic = 1 .. Len(logic)
      BY DEF IInv, TypeOK, SamplerTypeOK, ThreadTypeOK
    <2>4. \A i \in 1 .. Len(analog) : analog[i].count > 0
      BY <2>1 DEF AllInv, CountsInv
    <2>5. CASE analog = <<>>
      <3>1. logic = <<>>
        BY <2>5 DEF IInv, EmptyInv
      <3> QED BY <2>3, <2>5, <3>1
    <2>6. CASE analog # <<>>
      <3>1. Clean /\ Rest
        BY <2>1, <2>2, <2>6 DEF IInv, OwnInv, AllInv, RestInv
      <3>2. tpc # "done"
        BY <2>1, <3>1 DEF Rest
      <3>3. tpc # "wait0"
        <4>1. 1 \in 1 .. Len(analog)
          BY <2>3, <2>6
        <4> QED BY <2>2, <2>4, <4>1 DEF AllInv, WaitInv
      <3>4. tpc = "wait" /\ tpc \in Working
        BY <2>1, <3>2, <3>3 DEF Working
      <3>5. /\ Len(logic) \in 1 .. Len(logic) /\ Len(logic) \in 1 .. Len(analog)
            /\ Input = analog[Len(logic)] /\ Output = logic[Len(logic)]
            /\ Output.complete => Input.complete /\ Output.count = Input.count
        BY <3>1, <3>4, AtWork DEF IInv
      <3>6. Len(logic) = Len(analog)
        <4>1. Len(analog) \in 1 .. Len(analog)
          BY <3>5
        <4>2. analog[Len(analog)].count > 0
          BY <2>4, <4>1
        <4>3. ~(Len(logic) < Len(analog))
          BY <2>2, <3>1, <3>4, <4>2 DEF Rest
        <4> QED BY <3>5, <4>3
      <3>7. ASSUME NEW i \in 1 .. Len(logic)
            PROVE  IF analog[i].complete
                   THEN logic[i].complete /\ logic[i].count = analog[i].count
                   ELSE analog[i].count < logic[i].count + Block
        <4>1. CASE i = Len(logic)
          BY <2>2, <3>1, <3>4, <3>5, <4>1 DEF Rest
        <4>2. CASE i # Len(logic)
          <5>1. analog[i].complete
            BY <3>6, <4>2 DEF IInv, EmptyInv
          <5>2. logic[i].complete
            BY <3>1, <4>2 DEF Rest
          <5>3. logic[i].count = analog[i].count
            BY <3>1, <5>2 DEF Clean, OwnLogic
          <5> QED BY <5>1, <5>2, <5>3
        <4> QED BY <4>1, <4>2
      <3> QED BY <2>3, <3>6, <3>7
    <2> QED BY <2>5, <2>6
  <1> QED BY <1>1, <1>2, PTL
=============================================================================
