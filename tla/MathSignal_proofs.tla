-------------------------- MODULE MathSignal_proofs --------------------------
(***************************************************************************)
(* What a math signal holds: proofs about the generation thread, which the *)
(* clearing of its inputs and of its output, restarts and the growth of    *)
(* the segments it reads may overtake between any two of its steps.        *)
(***************************************************************************)
EXTENDS MathProperties, SequenceTheorems, WellFoundedInduction, TLAPS

-----------------------------------------------------------------------------
(* The invariant                                                           *)

Sampled   == [count : Nat, complete : BOOLEAN]
Generated == [acq : Nat, count : Nat, complete : BOOLEAN]
Signals   == {"running", "data", "stopped"}

\* Where the thread is: before its first segment, at work, or none.
Rating  == {"rate", "rateblock", "ratewait", "rewait", "begin"}
Working == {"first", "loop", "chunk", "append", "complete", "next", "block", "wait"}
Over    == {"none", "done", "crashed"}

SamplerTypeOK ==
    /\ data \in [Sources -> Seq(Sampled)] /\ acq \in Nat /\ current \subseteq Sources
    /\ highest \in Nat \union {-1} /\ counts \in Seq(Nat) /\ rate \in BOOLEAN
    /\ sampler \in {"off", "starting", "prepared", "feeding", "ending"}
    /\ state \in {"Stopped", "AwaitingTrigger", "Running"}
    /\ events \in Seq(Signals)
GuiTypeOK ==
    /\ expr \in Expressions \union {Invalid} /\ compiled \in Expressions \union {Invalid}
    /\ gpc \in {"idle", "join", "gone"} /\ goal \in {"none", "begin", "destroy"}
    /\ edits \in Nat /\ interrupt \in BOOLEAN
ThreadTypeOK ==
    /\ inputs \subseteq Sources \union {Self} /\ chunk \in Nat \ {0} /\ own \in Seq(Generated)
    /\ tpc \in Rating \union Working \union Over
    /\ seg \in Nat \ {0} /\ orphan \in Generated
    /\ output \in Nat /\ todo \in Nat /\ processed \in Nat /\ part \in Nat
    /\ missed \in BOOLEAN /\ lacking \in BOOLEAN /\ deaf \in BOOLEAN
TypeOK == SamplerTypeOK /\ GuiTypeOK /\ ThreadTypeOK

\* No signal of the session has a segment.
Empty == \A s \in Sources : data[s] = <<>>

\* The segments that are being written are incomplete; how many segments a signal and the
\* session have, none of them empty; when there are none.
DataInv ==
    /\ sampler # "starting" =>
        /\ \A s \in current : data[s] # <<>> /\ ~data[s][Len(data[s])].complete
        /\ \A s \in Sources : Len(data[s]) <= highest + 1
        /\ Len(counts) = highest + 1
    /\ \A s \in Sources : \A i \in 1 .. Len(data[s]) : data[s][i].count \in 1 .. MaxSamples
    /\ \A i \in 1 .. Len(counts) : counts[i] > 0
    /\ Empty => counts = <<>> /\ ~rate
    /\ sampler \in {"starting", "prepared"} \/ state = "AwaitingTrigger" => Empty
    /\ sampler \in {"off", "starting", "prepared"} <=> state = "Stopped"

\* The thread is interrupted only when it is to be joined, and is there if the expression
\* is valid; it reads what that names.
ThreadInv ==
    /\ gpc = "idle" /\ tpc # "none" => ~interrupt /\ tpc # "done"
    /\ tpc # "none" =>
          /\ compiled \in Expressions /\ compiled.scalars \subseteq inputs
          /\ inputs \subseteq compiled.scalars \union {compiled.call}
    /\ tpc \in Rating => own = <<>> /\ seg = 1
    /\ tpc = "none" => own = <<>> /\ inputs = {}
    /\ tpc \in {"block", "wait"} => todo = 0
    /\ tpc \in {"chunk", "append"} => processed < todo
    /\ tpc = "append" => processed + part <= todo

\* What the expression reads has been looked up when samples are computed.
LookInv ==
    /\ tpc = "append" => Reads \subseteq inputs
    /\ ~(Reads \subseteq inputs) => \A i \in 1 .. Len(own) : own[i].count = 0

\* While all signals are empty, also after an acquisition that did not start, the thread
\* may still append segments, but no samples.
BlankInv ==
    sampler # "starting" /\ Empty =>
        /\ \A i \in 1 .. Len(own) :
            /\ own[i].acq = acq /\ own[i].count = 0
            /\ own[i].complete => inputs = {}
            /\ i # Len(own) => own[i].complete
        /\ tpc \in {"chunk", "append"} => seg > Len(own) /\ \A i \in 1 .. Len(own) : ~own[i].complete
        /\ own # <<>> => seg = Len(own) \/ (Len(own) = 1 /\ ~orphan.complete)

\* What a segment holds, of the signals that are read or of the session.
OwnSegment(i) ==
    /\ own[i].acq = acq
    /\ own[i].count > 0 =>
          \A s \in inputs \ {Self} : i <= Len(data[s]) /\ own[i].count <= data[s][i].count
    /\ inputs = {} => own[i].count <= SessionCount(i) /\ (own[i].complete => sampler = "off")
    /\ own[i].complete => HoldsAll(i)
    /\ i # Len(own) => own[i].complete

\* What the thread is about to append, and has counted.
OwnChunk ==
    /\ tpc \in Working => Len(own) = seg
    /\ tpc \in {"chunk", "append"} =>
        /\ output + processed = own[seg].count
        /\ \A s \in Sources : s \in Reads => seg <= Len(data[s]) /\ output + todo <= data[s][seg].count
        /\ inputs = {} => output + todo <= SessionCount(seg)
    /\ tpc = "complete" => output <= own[seg].count

Clean == OwnChunk /\ \A i \in 1 .. Len(own) : OwnSegment(i)

\* Unless a restart is due everything is of this acquisition, or the signals are empty.
OwnInv == ~RestartDue /\ ~lacking => Clean \/ (sampler = "off" /\ Empty)

\* The inductive invariant.
IInv == TypeOK /\ DataInv /\ ThreadInv /\ LookInv /\ BlankInv /\ OwnInv

-----------------------------------------------------------------------------
(* Lemmas about the data                                                   *)

\* Segments of a source, and of the math signal, are segments.
LEMMA SampledType ==
    ASSUME NEW q \in Seq(Sampled), NEW i \in 1 .. Len(q)
    PROVE  q[i] \in Sampled /\ q[i].count \in Nat /\ q[i].complete \in BOOLEAN
  <1>1. q[i] \in Sampled
    OBVIOUS
  <1> QED BY <1>1 DEF Sampled

LEMMA GeneratedType ==
    ASSUME NEW q \in Seq(Generated), NEW i \in 1 .. Len(q)
    PROVE  /\ q[i] \in Generated /\ q[i].acq \in Nat /\ q[i].count \in Nat
           /\ q[i].complete \in BOOLEAN
  <1>1. q[i] \in Generated
    OBVIOUS
  <1> QED BY <1>1 DEF Generated

\* What the segments of a source may become under those who read them.
Grows(p, q) ==
    /\ Len(p) <= Len(q)
    /\ \A i \in 1 .. Len(p) : p[i].count <= q[i].count /\ (p[i].complete => q[i] = p[i])

LEMMA GrowsReflexive == ASSUME NEW q \in Seq(Sampled) PROVE Grows(q, q)
  <1>1. \A i \in 1 .. Len(q) : q[i].count \in Nat
    BY SampledType
  <1> QED BY <1>1 DEF Grows

\* The last segment of a source gets samples, or is completed.
LEMMA LastReplaced ==
    ASSUME NEW q \in Seq(Sampled), q # <<>>, NEW v \in Sampled
    PROVE  LET r == [q EXCEPT ![Len(q)] = v] IN
           /\ r \in Seq(Sampled) /\ Len(r) = Len(q) /\ r[Len(q)] = v
           /\ \A i \in 1 .. Len(q) : i # Len(q) => r[i] = q[i]
  <1>1. Len(q) \in 1 .. Len(q)
    OBVIOUS
  <1> QED BY <1>1

LEMMA LastGrows ==
    ASSUME NEW q \in Seq(Sampled), NEW r \in Seq(Sampled), q # <<>>, Len(r) = Len(q),
           ~q[Len(q)].complete, q[Len(q)].count <= r[Len(q)].count,
           \A i \in 1 .. Len(q) : i # Len(q) => r[i] = q[i]
    PROVE  Grows(q, r)
  <1>1. \A i \in 1 .. Len(q) : q[i].count \in Nat
    BY SampledType
  <1> QED BY <1>1 DEF Grows

LEMMA MoreSamples ==
    ASSUME NEW e \in Sampled, NEW n \in Nat
    PROVE  \E v \in Sampled :
              /\ v = [e EXCEPT !.count = @ + n] /\ v.complete = e.complete
              /\ v.count = e.count + n /\ e.count <= v.count /\ e.count \in Nat
  <1> DEFINE v == [e EXCEPT !.count = @ + n]
  <1>1. /\ v \in Sampled /\ v.complete = e.complete
        /\ v.count = e.count + n /\ e.count <= v.count /\ e.count \in Nat
    BY DEF Sampled
  <1>2. v = [e EXCEPT !.count = @ + n]
    OBVIOUS
  <1> HIDE DEF v
  <1> QED BY <1>1, <1>2

LEMMA Completion ==
    ASSUME NEW e \in Sampled
    PROVE  \E v \in Sampled :
              v = [e EXCEPT !.complete = TRUE] /\ v.count = e.count /\ e.count \in Nat
  <1> DEFINE v == [e EXCEPT !.complete = TRUE]
  <1>1. v \in Sampled /\ v.count = e.count /\ e.count \in Nat
    BY DEF Sampled
  <1>2. v = [e EXCEPT !.complete = TRUE]
    OBVIOUS
  <1> HIDE DEF v
  <1> QED BY <1>1, <1>2

\* A source gets a segment.
LEMMA SegmentAdded ==
    ASSUME NEW q \in Seq(Sampled), NEW n \in Nat \ {0}
    PROVE  LET r == Append(q, [count |-> n, complete |-> FALSE]) IN
           /\ r \in Seq(Sampled) /\ Len(r) = Len(q) + 1 /\ ~r[Len(r)].complete /\ Grows(q, r)
           /\ r[Len(r)].count > 0 /\ \A i \in 1 .. Len(q) : r[i] = q[i]
  <1> DEFINE v == [count |-> n, complete |-> FALSE]
             r == Append(q, v)
  <1>1. v \in Sampled /\ v.count > 0 /\ ~v.complete
    BY DEF Sampled
  <1>2. \A i \in 1 .. Len(q) : q[i].count \in Nat
    BY SampledType
  <1> HIDE DEF v
  <1>3. /\ r \in Seq(Sampled) /\ Len(r) = Len(q) + 1 /\ r[Len(r)] = v
        /\ \A i \in 1 .. Len(q) : r[i] = q[i]
    BY <1>1
  <1> HIDE DEF r
  <1>4. Grows(q, r)
    BY <1>2, <1>3 DEF Grows
  <1> QED BY <1>1, <1>3, <1>4 DEF r, v

\* The counts of the session grow with the segments.
CountsGrow(p, q) ==
    /\ Len(p) <= Len(q)
    /\ \A i \in 1 .. Len(p) : p[i] <= q[i]

\* A list of signals keeps those it has when more are queued.
LEMMA QueueMore ==
    ASSUME NEW q \in Seq(Signals), NEW r \in Seq(Signals)
    PROVE  /\ q \o r \in Seq(Signals) /\ Len(q \o r) = Len(q) + Len(r)
           /\ \A i \in 1 .. Len(q) : i \in 1 .. Len(q \o r) /\ (q \o r)[i] = q[i]
           /\ \A i \in 1 .. Len(r) : Len(q) + i \in 1 .. Len(q \o r) /\ (q \o r)[Len(q) + i] = r[i]
  OBVIOUS

LEMMA QueueOne ==
    ASSUME NEW q \in Seq(Signals), NEW e \in Signals
    PROVE  /\ Append(q, e) \in Seq(Signals) /\ Len(Append(q, e)) = Len(q) + 1
           /\ \A i \in 1 .. Len(q) : i \in 1 .. Len(Append(q, e)) /\ Append(q, e)[i] = q[i]
           /\ Len(q) + 1 \in 1 .. Len(Append(q, e)) /\ Append(q, e)[Len(q) + 1] = e
  OBVIOUS

-----------------------------------------------------------------------------
(* The sampling thread                                                     *)

\* Packets let a source and the counts of the session grow.
LEMMA FeedData ==
    ASSUME TypeOK, DataInv, NEW s \in Sources, NEW n \in 1 .. MaxSamples, Feed(s, n)
    PROVE  /\ data' \in [Sources -> Seq(Sampled)]
           /\ \A t \in Sources : Grows(data[t], data'[t]) /\ (t # s => data'[t] = data[t])
           /\ data'[s] # <<>> /\ ~data'[s][Len(data'[s])].complete
           /\ Len(data'[s]) <= Len(data[s]) + 1
           /\ \A i \in 1 .. Len(data'[s]) : data'[s][i].count \in 1 .. MaxSamples
  <1>1. n \in Nat \ {0} /\ MaxSamples \in Nat
    BY MathAssumption
  <1>2. data[s] \in Seq(Sampled) /\ data \in [Sources -> Seq(Sampled)]
    BY DEF TypeOK, SamplerTypeOK
  <1>3. sampler = "feeding" /\ data'[s][Len(data'[s])].count <= MaxSamples
    BY DEF Feed
  <1>4. CASE s \in current /\ data' = [data EXCEPT ![s][Len(data[s])].count = @ + n]
    <2>1. data[s] # <<>> /\ ~data[s][Len(data[s])].complete
      BY <1>3, <1>4 DEF DataInv
    <2>2. data'[s] = [data[s] EXCEPT ![Len(data[s])].count = @ + n] /\ \A t \in Sources : t # s => data'[t] = data[t]
      BY <1>2, <1>4
    <2>3. /\ data'[s] \in Seq(Sampled) /\ Len(data'[s]) = Len(data[s]) /\ ~data'[s][Len(data'[s])].complete
          /\ Grows(data[s], data'[s]) /\ data'[s][Len(data[s])].count > 0
          /\ \A i \in 1 .. Len(data[s]) : i # Len(data[s]) => data'[s][i] = data[s][i]
      <3>1. data[s][Len(data[s])] \in Sampled
        BY <1>2, <2>1, SampledType
      <3>5. \E v \in Sampled :
               /\ v = [data[s][Len(data[s])] EXCEPT !.count = @ + n] /\ v.complete = data[s][Len(data[s])].complete
               /\ v.count = data[s][Len(data[s])].count + n /\ data[s][Len(data[s])].count <= v.count
               /\ data[s][Len(data[s])].count \in Nat
        <4> DEFINE e == data[s][Len(data[s])]
        <4>1. e \in Sampled /\ n \in Nat
          BY <1>1, <3>1
        <4> HIDE DEF e
        <4>2. \E v \in Sampled :
                 /\ v = [e EXCEPT !.count = @ + n] /\ v.complete = e.complete
                 /\ v.count = e.count + n /\ e.count <= v.count /\ e.count \in Nat
          BY <4>1, MoreSamples
        <4> QED BY <4>2 DEF e
      <3>2. PICK v \in Sampled :
               /\ v = [data[s][Len(data[s])] EXCEPT !.count = @ + n]
               /\ v.count = data[s][Len(data[s])].count + n /\ ~v.complete
               /\ data[s][Len(data[s])].count <= v.count
               /\ data[s][Len(data[s])].count \in Nat
        BY <2>1, <3>5
      <3>3. data'[s] = [data[s] EXCEPT ![Len(data[s])] = v]
        BY <2>2, <3>2
      <3>6. /\ data'[s] \in Seq(Sampled) /\ Len(data'[s]) = Len(data[s]) /\ data'[s][Len(data[s])] = v
            /\ \A i \in 1 .. Len(data[s]) : i # Len(data[s]) => data'[s][i] = data[s][i]
        BY <1>2, <2>1, <3>2, <3>3, LastReplaced
      <3>4. Grows(data[s], data'[s])
        BY <1>2, <2>1, <3>2, <3>6, LastGrows
      <3> QED BY <1>1, <3>2, <3>4, <3>6
    <2>4. \A t \in Sources : Grows(data[t], data'[t])
      BY <1>2, <2>2, <2>3, GrowsReflexive
    <2>5. data' \in [Sources -> Seq(Sampled)]
      BY <1>2, <1>4, <2>2, <2>3
    <2>6. data'[s] # <<>> /\ Len(data'[s]) \in 1 .. Len(data'[s])
      BY <1>2, <2>1, <2>3
    <2>7. \A i \in 1 .. Len(data'[s]) : data'[s][i].count \in 1 .. MaxSamples
      <3>1. data'[s][Len(data'[s])].count \in Nat
        BY <2>3, <2>6, SampledType
      <3> QED BY <1>1, <1>3, <2>3, <3>1 DEF DataInv
    <2> QED BY <2>2, <2>3, <2>4, <2>5, <2>6, <2>7
  <1>5. CASE s \notin current /\ data' = [data EXCEPT ![s] = Append(@, [count |-> n, complete |-> FALSE])]
    <2>2. data'[s] = Append(data[s], [count |-> n, complete |-> FALSE]) /\ \A t \in Sources : t # s => data'[t] = data[t]
      BY <1>2, <1>5
    <2>3. /\ data'[s] \in Seq(Sampled) /\ Len(data'[s]) = Len(data[s]) + 1 /\ ~data'[s][Len(data'[s])].complete
          /\ Grows(data[s], data'[s]) /\ data'[s][Len(data'[s])].count > 0
          /\ \A i \in 1 .. Len(data[s]) : data'[s][i] = data[s][i]
      BY <1>1, <1>2, <2>2, SegmentAdded
    <2>4. \A t \in Sources : Grows(data[t], data'[t])
      BY <1>2, <2>2, <2>3, GrowsReflexive
    <2>5. data' \in [Sources -> Seq(Sampled)]
      BY <1>2, <1>5, <2>2, <2>3
    <2>6. data'[s] # <<>> /\ Len(data'[s]) \in 1 .. Len(data'[s])
      BY <1>2, <2>3
    <2>7. \A i \in 1 .. Len(data'[s]) : data'[s][i].count \in 1 .. MaxSamples
      <3>1. data'[s][Len(data'[s])].count \in Nat
        BY <2>3, <2>6, SampledType
      <3> QED BY <1>1, <1>2, <1>3, <2>3, <3>1 DEF DataInv
    <2> QED BY <2>2, <2>3, <2>4, <2>5, <2>6, <2>7
  <1> QED BY <1>4, <1>5 DEF Feed

LEMMA FeedCounts ==
    ASSUME TypeOK, DataInv, NEW s \in Sources, NEW n \in 1 .. MaxSamples, Feed(s, n)
    PROVE  /\ counts' \in Seq(Nat) /\ CountsGrow(counts, counts')
           /\ highest' \in Nat /\ highest <= highest' /\ Len(counts') = highest' + 1
           /\ Len(data'[s]) <= highest' + 1
           /\ \A i \in 1 .. Len(counts') : counts'[i] > 0
  <1>1. /\ data'[s] \in Seq(Sampled) /\ Len(data'[s]) \in 1 .. Len(data'[s])
        /\ Len(data'[s]) <= Len(data[s]) + 1
        /\ data'[s][Len(data'[s])].count > 0
    BY FeedData
  <1>2. PICK id \in Nat : id = Len(data'[s])
    BY <1>1
  <1>3. PICK count \in Nat : count = data'[s][id].count /\ count > 0
    BY <1>1, <1>2, SampledType
  <1>4. /\ highest' = IF id - 1 > highest THEN id - 1 ELSE highest
        /\ counts' = IF id - 1 > highest THEN Append(counts, count)
                     ELSE [counts EXCEPT ![highest + 1] = IF count > @ THEN count ELSE @]
    BY <1>2, <1>3 DEF Feed
  <1>5. /\ highest \in Nat \union {-1} /\ counts \in Seq(Nat) /\ Len(counts) = highest + 1
        /\ id > 0 /\ id <= highest + 2
        /\ \A i \in 1 .. Len(counts) : counts[i] > 0
    <2>1. sampler = "feeding" /\ data[s] \in Seq(Sampled)
      BY DEF Feed, TypeOK, SamplerTypeOK
    <2> QED BY <1>1, <1>2, <2>1 DEF TypeOK, SamplerTypeOK, DataInv
  <1>6. CASE id - 1 > highest
    <2>1. id = highest + 2 /\ counts' = Append(counts, count) /\ highest' = id - 1
      BY <1>4, <1>5, <1>6
    <2>2. counts' \in Seq(Nat) /\ CountsGrow(counts, counts') /\ Len(counts') = Len(counts) + 1
      BY <1>5, <2>1 DEF CountsGrow
    <2>3. \A i \in 1 .. Len(counts') : counts'[i] > 0
      BY <1>3, <1>5, <2>1
    <2> QED BY <1>2, <1>5, <2>1, <2>2, <2>3
  <1>7. CASE ~(id - 1 > highest)
    <2>1. highest' = highest /\ highest + 1 \in 1 .. Len(counts)
      BY <1>4, <1>5, <1>7
    <2>2. PICK v \in Nat :
             counts' = [counts EXCEPT ![highest + 1] = v] /\ counts[highest + 1] <= v /\ v > 0
      <3> DEFINE v == IF count > counts[highest + 1] THEN count ELSE counts[highest + 1]
      <3>1. counts' = [counts EXCEPT ![highest + 1] = v]
        BY <1>4, <1>7
      <3>2. counts[highest + 1] \in Nat
        BY <1>5, <2>1
      <3>3. v \in Nat /\ counts[highest + 1] <= v /\ v > 0
        BY <1>3, <3>2
      <3> QED BY <3>1, <3>3
    <2>3. counts' \in Seq(Nat) /\ Len(counts') = Len(counts) /\ CountsGrow(counts, counts')
      BY <1>5, <2>1, <2>2 DEF CountsGrow
    <2>4. \A i \in 1 .. Len(counts') : counts'[i] > 0
      BY <1>5, <2>1, <2>2
    <2> QED BY <1>2, <1>5, <1>7, <2>1, <2>3, <2>4
  <1> QED BY <1>6, <1>7

\* What Feed queues: nothing is taken off, and Running is announced with the first samples
\* after a trigger.
LEMMA FeedQueue ==
    ASSUME TypeOK, NEW s \in Sources, NEW n \in 1 .. MaxSamples, Feed(s, n)
    PROVE  /\ events' \in Seq(Signals)
           /\ (\E i \in 1 .. Len(events) : events[i] = "running") \/ state # "Running"
                => \E i \in 1 .. Len(events') : events'[i] = "running"
  <1> DEFINE a == SourcePosts(s)
             b == IF state # "Running" THEN <<"running">> ELSE <<>>
             c == SessionPosts
             q == events \o a
             r == q \o b
  <1>1. a \in Seq(Signals) /\ b \in Seq(Signals) /\ c \in Seq(Signals) /\ events \in Seq(Signals)
    <2>1. <<"data">> \in Seq(Signals) /\ <<"running">> \in Seq(Signals) /\ <<>> \in Seq(Signals)
      BY DEF Signals
    <2> QED BY <2>1 DEF SourcePosts, SessionPosts, TypeOK, SamplerTypeOK
  <1>2. state # "Running" => \E i \in 1 .. Len(b) : b[i] = "running"
    <2> SUFFICES ASSUME state # "Running" PROVE 1 \in 1 .. Len(b) /\ b[1] = "running"
      OBVIOUS
    <2> QED OBVIOUS
  <1>3. events' = r \o c
    BY DEF Feed
  <1> HIDE DEF a, b, c
  <1>4. q \in Seq(Signals) /\ \A i \in 1 .. Len(events) : i \in 1 .. Len(q) /\ q[i] = events[i]
    BY <1>1, QueueMore
  <1> HIDE DEF q
  <1>5. /\ r \in Seq(Signals) /\ \A i \in 1 .. Len(q) : i \in 1 .. Len(r) /\ r[i] = q[i]
        /\ \A i \in 1 .. Len(b) : Len(q) + i \in 1 .. Len(r) /\ r[Len(q) + i] = b[i]
    BY <1>1, <1>4, QueueMore
  <1> HIDE DEF r
  <1>6. r \o c \in Seq(Signals) /\ \A i \in 1 .. Len(r) : i \in 1 .. Len(r \o c) /\ (r \o c)[i] = r[i]
    BY <1>1, <1>5, QueueMore
  <1>7. \A i \in 1 .. Len(r) : i \in 1 .. Len(events') /\ events'[i] = r[i]
    BY <1>3, <1>6
  <1>8. (\E i \in 1 .. Len(events) : events[i] = "running") => \E i \in 1 .. Len(r) : r[i] = "running"
    BY <1>4, <1>5
  <1>9. state # "Running" => \E i \in 1 .. Len(r) : r[i] = "running"
    BY <1>2, <1>5
  <1> QED BY <1>3, <1>6, <1>7, <1>8, <1>9

\* The end of a segment completes it.
LEMMA CompletedData ==
    ASSUME TypeOK, DataInv, sampler # "starting"
    PROVE  /\ Completed \in [Sources -> Seq(Sampled)]
           /\ \A s \in Sources :
                /\ Grows(data[s], Completed[s]) /\ Len(Completed[s]) = Len(data[s])
                /\ \A i \in 1 .. Len(data[s]) : Completed[s][i].count = data[s][i].count
  <1>1. data \in [Sources -> Seq(Sampled)]
    BY DEF TypeOK, SamplerTypeOK
  <1>2. ASSUME NEW s \in Sources
        PROVE  /\ Completed[s] \in Seq(Sampled)
               /\ Grows(data[s], Completed[s]) /\ Len(Completed[s]) = Len(data[s])
               /\ \A i \in 1 .. Len(data[s]) : Completed[s][i].count = data[s][i].count
    <2>0. data[s] \in Seq(Sampled)
      BY <1>1
    <2>1. CASE s \notin current
      BY <2>0, <2>1, GrowsReflexive DEF Completed
    <2>2. CASE s \in current
      <3>1. data[s] # <<>> /\ ~data[s][Len(data[s])].complete /\ Len(data[s]) \in 1 .. Len(data[s])
        BY <2>0, <2>2 DEF DataInv
      <3>2. data[s][Len(data[s])] \in Sampled
        BY <2>0, <3>1, SampledType
      <3>3. PICK v \in Sampled :
               /\ v = [data[s][Len(data[s])] EXCEPT !.complete = TRUE]
               /\ v.count = data[s][Len(data[s])].count /\ data[s][Len(data[s])].count \in Nat
        <4> DEFINE e == data[s][Len(data[s])]
        <4>1. e \in Sampled
          BY <3>2
        <4> HIDE DEF e
        <4>2. \E v \in Sampled : v = [e EXCEPT !.complete = TRUE] /\ v.count = e.count /\ e.count \in Nat
          BY <4>1, Completion
        <4> QED BY <4>2 DEF e
      <3>4. Completed[s] = [data[s] EXCEPT ![Len(data[s])] = v]
        BY <2>2, <3>3 DEF Completed
      <3>5. /\ Completed[s] \in Seq(Sampled) /\ Len(Completed[s]) = Len(data[s])
            /\ Completed[s][Len(data[s])] = v
            /\ \A i \in 1 .. Len(data[s]) : i # Len(data[s]) => Completed[s][i] = data[s][i]
        BY <2>0, <3>1, <3>3, <3>4, LastReplaced
      <3>6. Grows(data[s], Completed[s])
        <4>1. data[s][Len(data[s])].count <= Completed[s][Len(data[s])].count
          BY <3>3, <3>5
        <4> QED BY <2>0, <3>1, <3>5, <4>1, LastGrows
      <3> QED BY <3>3, <3>5, <3>6
    <2> QED BY <2>1, <2>2
  <1>3. Completed \in [Sources -> Seq(Sampled)]
    BY <1>2 DEF Completed
  <1> QED BY <1>2, <1>3

\* The steps that change no data but by completion.
LEMMA FeedKeepsData ==
    ASSUME TypeOK, DataInv, NEW s \in Sources, NEW n \in 1 .. MaxSamples, Feed(s, n)
    PROVE  SamplerTypeOK' /\ DataInv'
  <1>1. /\ data' \in [Sources -> Seq(Sampled)]
        /\ \A t \in Sources : Grows(data[t], data'[t]) /\ (t # s => data'[t] = data[t])
        /\ data'[s] # <<>> /\ ~data'[s][Len(data'[s])].complete
        /\ Len(data'[s]) <= Len(data[s]) + 1
        /\ \A i \in 1 .. Len(data'[s]) : data'[s][i].count \in 1 .. MaxSamples
    BY FeedData
  <1>2. /\ counts' \in Seq(Nat) /\ CountsGrow(counts, counts')
        /\ highest' \in Nat /\ highest <= highest' /\ Len(counts') = highest' + 1
        /\ Len(data'[s]) <= highest' + 1
        /\ \A i \in 1 .. Len(counts') : counts'[i] > 0
    BY FeedCounts
  <1>3. /\ sampler = "feeding" /\ sampler' = sampler /\ acq' = acq
        /\ current' = current \union {s} /\ state' = "Running" /\ events' \in Seq(Signals)
        /\ rate' \in BOOLEAN
    BY FeedQueue DEF Feed, TypeOK, SamplerTypeOK
  <1>4. SamplerTypeOK'
    BY <1>1, <1>2, <1>3 DEF TypeOK, SamplerTypeOK
  <1>5. \A t \in current' : data'[t] # <<>> /\ ~data'[t][Len(data'[t])].complete
    <2> TAKE t \in current'
    <2>1. CASE t = s
      BY <1>1, <2>1
    <2>2. CASE t # s
      <3>1. t \in current /\ data'[t] = data[t]
        BY <1>1, <1>3, <2>2 DEF TypeOK, SamplerTypeOK
      <3> QED BY <1>3, <3>1 DEF DataInv
    <2> QED BY <2>1, <2>2
  <1>6. \A t \in Sources : Len(data'[t]) <= highest' + 1
    <2> TAKE t \in Sources
    <2>1. CASE t = s
      BY <1>2, <2>1
    <2>2. CASE t # s
      <3>1. Len(data[t]) <= highest + 1 /\ data'[t] = data[t] /\ data[t] \in Seq(Sampled)
        BY <1>1, <1>3, <2>2 DEF DataInv, TypeOK, SamplerTypeOK
      <3> QED BY <1>2, <3>1 DEF TypeOK, SamplerTypeOK
    <2> QED BY <2>1, <2>2
  <1>7. \A t \in Sources : \A i \in 1 .. Len(data'[t]) : data'[t][i].count \in 1 .. MaxSamples
    BY <1>1 DEF DataInv
  <1>8. ~Empty'
    BY <1>1 DEF Empty
  <1> QED BY <1>2, <1>3, <1>4, <1>5, <1>6, <1>7, <1>8 DEF DataInv

LEMMA SamplerKeepsData ==
    ASSUME TypeOK, DataInv, SamplerStep
    PROVE  SamplerTypeOK' /\ DataInv'
  <1>0. /\ data \in [Sources -> Seq(Sampled)] /\ acq \in Nat /\ current \subseteq Sources
        /\ highest \in Nat \union {-1} /\ counts \in Seq(Nat) /\ events \in Seq(Signals) /\ rate \in BOOLEAN
        /\ state \in {"Stopped", "AwaitingTrigger", "Running"}
    BY DEF TypeOK, SamplerTypeOK
  <1>1. CASE Prepare
    <2>1. /\ sampler = "starting" /\ sampler' = "prepared" /\ current' = {} /\ highest' = -1
          /\ data' = [s \in Sources |-> <<>>] /\ UNCHANGED <<acq, counts, state, events>>
      BY <1>1 DEF Prepare
    <2>5. ~rate' /\ rate' \in BOOLEAN
      <3>1. rate' = FALSE
        BY <1>1 DEF Prepare
      <3> QED BY <3>1
    <2>2. counts = <<>> /\ Len(counts) = 0 /\ state = "Stopped"
      BY <2>1 DEF DataInv
    <2>3. \A s \in Sources : data'[s] = <<>>
      BY <2>1
    <2>4. SamplerTypeOK'
      BY <1>0, <2>1, <2>5 DEF SamplerTypeOK
    <2> QED BY <2>1, <2>2, <2>3, <2>4, <2>5 DEF DataInv, Empty
  <1>2. CASE Announce
    <2>1. /\ sampler = "prepared" /\ UNCHANGED <<data, acq, current, highest, counts, rate>>
          /\ \/ sampler' = "feeding" /\ state' \in {"Running", "AwaitingTrigger"}
             \/ sampler' = "off" /\ UNCHANGED state
      BY <1>2 DEF Announce
    <2>2. events' \in Seq(Signals)
      <3>1. events' = events \/ events' = Append(events, "running")
        BY <1>2 DEF Announce
      <3>2. events \in Seq(Signals) /\ "running" \in Signals
        BY <1>0 DEF Signals
      <3> QED BY <3>1, <3>2, QueueOne
    <2>5. rate' \in BOOLEAN /\ state' \in {"Stopped", "AwaitingTrigger", "Running"} /\ sampler' \in {"feeding", "off"}
      BY <1>0, <2>1
    <2>6. data' = data /\ acq' = acq /\ current' = current /\ highest' = highest /\ counts' = counts
      BY <2>1
    <2>3. SamplerTypeOK'
      BY <1>0, <2>2, <2>5, <2>6 DEF SamplerTypeOK
    <2>4. Empty' <=> Empty
      BY <2>1 DEF Empty
    <2> QED BY <2>1, <2>3, <2>4 DEF DataInv
  <1>3. CASE EndSegment
    <2>1. /\ sampler = "feeding" /\ data' = Completed /\ current' = {}
          /\ sampler' \in {"feeding", "ending"} /\ UNCHANGED <<acq, highest, counts, rate, state>>
      BY <1>3 DEF EndSegment
    <2>2. events' \in Seq(Signals)
      <3>1. events' = events \/ events' = Append(events, "data")
        BY <1>3 DEF EndSegment
      <3>2. events \in Seq(Signals) /\ "data" \in Signals
        BY <1>0 DEF Signals
      <3> QED BY <3>1, <3>2, QueueOne
    <2>3. /\ data' \in [Sources -> Seq(Sampled)]
          /\ \A s \in Sources :
                /\ Len(data'[s]) = Len(data[s])
                /\ \A i \in 1 .. Len(data[s]) : data'[s][i].count = data[s][i].count
      BY <2>1, CompletedData
    <2>4. SamplerTypeOK'
      BY <1>0, <2>1, <2>2, <2>3 DEF SamplerTypeOK
    <2>5. Empty' <=> Empty
      <3>1. \A s \in Sources : data'[s] = <<>> <=> data[s] = <<>>
        BY <1>0, <2>3
      <3> QED BY <3>1 DEF Empty
    <2>6. \A s \in Sources : \A i \in 1 .. Len(data'[s]) : data'[s][i].count \in 1 .. MaxSamples
      BY <2>3 DEF DataInv
    <2>7. \A s \in Sources : Len(data'[s]) <= highest' + 1
      BY <2>1, <2>3 DEF DataInv
    <2> QED BY <2>1, <2>4, <2>5, <2>6, <2>7 DEF DataInv
  <1>4. CASE AnnounceStop
    <2>1. /\ sampler \in {"feeding", "ending"} /\ sampler' = "off" /\ state' = "Stopped"
          /\ events' = Append(events, "stopped") /\ UNCHANGED <<data, acq, current, highest, counts, rate>>
      BY <1>4 DEF AnnounceStop
    <2>2. events' \in Seq(Signals)
      BY <1>0, <2>1, QueueOne DEF Signals
    <2>3. SamplerTypeOK'
      BY <1>0, <2>1, <2>2 DEF SamplerTypeOK
    <2>4. Empty' <=> Empty
      BY <2>1 DEF Empty
    <2> QED BY <2>1, <2>3, <2>4 DEF DataInv
  <1> QED BY <1>1, <1>2, <1>3, <1>4, FeedKeepsData DEF SamplerStep

\* Signals other than the math signal itself are sources, and the segments of a source
\* those of the session.
LEMMA OthersAreSources ==
    ASSUME TypeOK, NEW s \in inputs \ {Self}
    PROVE  s \in Sources /\ SegmentsOf(s) = data[s] /\ data[s] \in Seq(Sampled)
  BY DEF TypeOK, ThreadTypeOK, SamplerTypeOK, SegmentsOf

LEMMA SessionCountGrows ==
    ASSUME counts \in Seq(Nat), counts' \in Seq(Nat), CountsGrow(counts, counts'), NEW i \in Nat \ {0}
    PROVE  SessionCount(i) \in Nat /\ SessionCount(i)' \in Nat /\ SessionCount(i) <= SessionCount(i)'
  BY DEF SessionCount, CountsGrow

\* What is clean stays clean while data arrive.
LEMMA CleanGrows ==
    ASSUME TypeOK, Clean, sampler # "off", SamplerTypeOK',
           UNCHANGED <<acq, own, MathStays>>, CountsGrow(counts, counts'),
           \A s \in Sources : Grows(data[s], data'[s])
    PROVE  Clean'
  <1>0. UNCHANGED <<acq, own, inputs, tpc, seg, output, todo, processed, part, compiled>>
    BY DEF MathStays, guiVars, localVars
  <1>5. \A s \in Sources :
            /\ data[s] \in Seq(Sampled) /\ data'[s] \in Seq(Sampled)
            /\ Len(data[s]) <= Len(data'[s])
            /\ \A i \in 1 .. Len(data[s]) :
                /\ data[s][i].count \in Nat /\ data'[s][i].count \in Nat
                /\ data[s][i].count <= data'[s][i].count
                /\ data[s][i].complete => data'[s][i] = data[s][i]
    <2> TAKE s \in Sources
    <2>1. s \in Sources /\ data[s] \in Seq(Sampled)
      BY DEF TypeOK, SamplerTypeOK
    <2>2. data'[s] \in Seq(Sampled) /\ Grows(data[s], data'[s])
      BY <2>1 DEF SamplerTypeOK
    <2>3. \A i \in 1 .. Len(data[s]) : data[s][i].count \in Nat
      BY <2>1, SampledType
    <2>4. \A i \in 1 .. Len(data[s]) : data'[s][i].count \in Nat
      <3> TAKE i \in 1 .. Len(data[s])
      <3>1. i \in 1 .. Len(data'[s])
        BY <2>1, <2>2 DEF Grows
      <3> QED BY <2>2, <3>1, SampledType
    <2> QED BY <2>1, <2>2, <2>3, <2>4 DEF Grows
  <1>1. \A s \in inputs \ {Self} :
            /\ s \in Sources /\ data[s] \in Seq(Sampled) /\ data'[s] \in Seq(Sampled)
            /\ Len(data[s]) <= Len(data'[s])
            /\ \A i \in 1 .. Len(data[s]) :
                /\ data[s][i].count \in Nat /\ data'[s][i].count \in Nat
                /\ data[s][i].count <= data'[s][i].count
                /\ data[s][i].complete => data'[s][i] = data[s][i]
    BY <1>5, OthersAreSources
  <1>2. \A i \in Nat \ {0} : SessionCount(i) \in Nat /\ SessionCount(i)' \in Nat /\ SessionCount(i) <= SessionCount(i)'
    BY SessionCountGrows DEF TypeOK, SamplerTypeOK
  <1>3. OwnChunk'
    <2>1. (tpc \in Working => Len(own) = seg)' /\ (tpc = "complete" => output <= own[seg].count)'
      BY <1>0 DEF Clean, OwnChunk
    <2>2. ASSUME tpc \in {"chunk", "append"}
          PROVE  /\ output' + processed' = own'[seg'].count
                 /\ \A s \in Sources : s \in Reads' =>
                       seg' <= Len(data'[s]) /\ output' + todo' <= data'[s][seg'].count
                 /\ inputs' = {} => output' + todo' <= SessionCount(seg)'
      <3>1. /\ output + processed = own[seg].count
            /\ \A s \in Sources : s \in Reads => seg <= Len(data[s]) /\ output + todo <= data[s][seg].count
            /\ inputs = {} => output + todo <= SessionCount(seg)
        BY <2>2 DEF Clean, OwnChunk
      <3>2. seg \in Nat \ {0} /\ output \in Nat /\ todo \in Nat
        BY DEF TypeOK, ThreadTypeOK
      <3>3. Reads' = Reads
        BY <1>0 DEF Reads
      <3>4. ASSUME NEW s \in Sources, s \in Reads
            PROVE  seg <= Len(data'[s]) /\ output + todo <= data'[s][seg].count
        <4>1. seg \in 1 .. Len(data[s]) /\ output + todo <= data[s][seg].count
          BY <1>5, <3>1, <3>2, <3>4
        <4> QED BY <1>5, <3>2, <4>1
      <3>5. inputs = {} => output + todo <= SessionCount(seg)'
        BY <1>2, <3>1, <3>2, <1>0
      <3> QED BY <1>0, <3>1, <3>3, <3>4, <3>5
    <2> QED BY <1>0, <2>1, <2>2 DEF OwnChunk
  <1>4. ASSUME NEW i \in 1 .. Len(own) PROVE OwnSegment(i)'
    <2>1. OwnSegment(i) /\ own[i].count \in Nat /\ i \in Nat \ {0}
      BY GeneratedType DEF Clean, TypeOK, ThreadTypeOK
    <2>2. own[i].count > 0 =>
             \A s \in inputs \ {Self} : i <= Len(data'[s]) /\ own[i].count <= data'[s][i].count
      <3> SUFFICES ASSUME own[i].count > 0, NEW s \in inputs \ {Self}
                   PROVE  i <= Len(data'[s]) /\ own[i].count <= data'[s][i].count
        OBVIOUS
      <3>1. i \in 1 .. Len(data[s]) /\ own[i].count <= data[s][i].count
        BY <1>1, <2>1 DEF OwnSegment
      <3> QED BY <1>1, <2>1, <3>1
    <2>3. inputs = {} => own[i].count <= SessionCount(i)' /\ ~own[i].complete
      <3>1. inputs = {} => own[i].count <= SessionCount(i) /\ ~own[i].complete
        BY <2>1 DEF OwnSegment
      <3> QED BY <1>2, <2>1, <3>1
    <2>4. own[i].complete => HoldsAll(i)'
      <3> SUFFICES ASSUME own[i].complete PROVE HoldsAll(i)'
        OBVIOUS
      <3>1. inputs # {} /\ HoldsAll(i)
        BY <2>1, <2>3 DEF OwnSegment
      <3>2. ASSUME NEW s \in inputs \ {Self}
            PROVE  Has(s, i)' /\ data'[s][i].complete /\ own'[i].count = data'[s][i].count
        <4>1. Has(s, i) /\ data[s][i].complete /\ own[i].count = data[s][i].count
          BY <3>1 DEF HoldsAll
        <4>2. i \in 1 .. Len(data[s])
          BY <2>1, <4>1, OthersAreSources DEF Has
        <4>3. data'[s][i] = data[s][i] /\ i <= Len(data'[s])
          BY <1>1, <4>1, <4>2
        <4> QED BY <1>0, <4>1, <4>3 DEF Has, SegmentsOf
      <3> QED BY <1>0, <3>1, <3>2 DEF HoldsAll
    <2> QED BY <1>0, <2>1, <2>2, <2>3, <2>4 DEF OwnSegment
  <1> QED BY <1>0, <1>3, <1>4 DEF Clean

\* After a step of the sampling thread a restart is due, or was not due before, or there is
\* an acquisition that did not start.
LEMMA SamplerQuiet ==
    ASSUME IInv, SamplerStep, ~RestartDue'
    PROVE  \/ sampler' = "off" /\ Empty'
           \/ /\ ~RestartDue /\ sampler # "off" /\ UNCHANGED <<acq, own, MathStays>>
              /\ CountsGrow(counts, counts') /\ \A s \in Sources : Grows(data[s], data'[s])
  <1> DEFINE Quiet == /\ ~RestartDue /\ sampler # "off" /\ UNCHANGED <<acq, own, MathStays>>
                      /\ CountsGrow(counts, counts') /\ \A s \in Sources : Grows(data[s], data'[s])
  <1>1. TypeOK /\ DataInv
    BY DEF IInv
  <1>2. SamplerTypeOK' /\ DataInv'
    BY <1>1, SamplerKeepsData
  <1>3. UNCHANGED MathStays /\ gpc' = gpc
    BY DEF SamplerStep, Prepare, Announce, Feed, EndSegment, AnnounceStop, MathStays, guiVars
  <1>4. /\ sampler' \notin {"starting", "prepared"} /\ state' # "AwaitingTrigger" /\ gpc = "idle"
        /\ \A i \in DOMAIN events' : events'[i] # "running"
    BY <1>3 DEF RestartDue
  <1>5. events \in Seq(Signals) /\ events' \in Seq(Signals)
    BY <1>1, <1>2 DEF TypeOK, SamplerTypeOK
  <1>6. CASE Prepare
    BY <1>4, <1>6 DEF Prepare
  <1>7. CASE Announce
    <2>1. sampler = "prepared"
      BY <1>7 DEF Announce
    <2>2. sampler' = "off" /\ UNCHANGED data
      <3>1. events' = Append(events, "running") => FALSE
        <4> SUFFICES ASSUME events' = Append(events, "running") PROVE FALSE
          OBVIOUS
        <4>1. Len(events) + 1 \in DOMAIN events' /\ events'[Len(events) + 1] = "running"
          BY <1>5
        <4> QED BY <1>4, <4>1
      <3> QED BY <1>4, <1>7, <3>1 DEF Announce
    <2>3. Empty
      BY <1>1, <2>1 DEF DataInv
    <2> QED BY <2>2, <2>3 DEF Empty
  <1>8. ASSUME NEW e \in Signals, events' \in {events, Append(events, e)}
        PROVE  \A i \in DOMAIN events : events[i] # "running"
    <2>1. \A i \in 1 .. Len(events) : i \in DOMAIN events' /\ events'[i] = events[i]
      BY <1>5, <1>8
    <2> QED BY <1>4, <1>5, <2>1
  <1>9. CASE EndSegment
    <2>1. /\ sampler = "feeding" /\ data' = Completed /\ UNCHANGED <<acq, counts, state, own>>
          /\ events' \in {events, Append(events, "data")}
      BY <1>9 DEF EndSegment
    <2>2. ~RestartDue
      BY <1>3, <1>4, <1>8, <2>1 DEF RestartDue, Signals
    <2>3. CountsGrow(counts, counts')
      BY <1>1, <2>1 DEF CountsGrow, TypeOK, SamplerTypeOK
    <2>4. \A s \in Sources : Grows(data[s], data'[s])
      BY <1>1, <2>1, CompletedData
    <2> QED BY <1>3, <2>1, <2>2, <2>3, <2>4
  <1>10. CASE AnnounceStop
    <2>1. /\ sampler \in {"feeding", "ending"} /\ sampler' = "off" /\ UNCHANGED <<data, acq, counts, own>>
          /\ events' = Append(events, "stopped")
      BY <1>10 DEF AnnounceStop
    <2>2. CASE state = "AwaitingTrigger"
      BY <1>1, <2>1, <2>2 DEF DataInv, Empty
    <2>3. CASE state # "AwaitingTrigger"
      <3>1. ~RestartDue
        BY <1>3, <1>4, <1>8, <2>1, <2>3 DEF RestartDue, Signals
      <3>2. CountsGrow(counts, counts')
        BY <1>1, <2>1 DEF CountsGrow, TypeOK, SamplerTypeOK
      <3>3. \A s \in Sources : Grows(data[s], data'[s])
        BY <1>1, <2>1, GrowsReflexive DEF TypeOK, SamplerTypeOK
      <3> QED BY <1>3, <2>1, <3>1, <3>2, <3>3
    <2> QED BY <2>2, <2>3
  <1>11. ASSUME NEW s \in Sources, NEW n \in 1 .. MaxSamples, Feed(s, n) PROVE Quiet
    <2>1. sampler = "feeding" /\ UNCHANGED <<acq, own, MathStays>>
      BY <1>11 DEF Feed
    <2>2. state = "Running" /\ \A i \in DOMAIN events : events[i] # "running"
      BY <1>1, <1>4, <1>5, <1>11, FeedQueue
    <2>3. ~RestartDue
      BY <1>4, <2>1, <2>2 DEF RestartDue
    <2>4. CountsGrow(counts, counts') /\ \A u \in Sources : Grows(data[u], data'[u])
      BY <1>1, <1>11, FeedData, FeedCounts
    <2> QED BY <2>1, <2>3, <2>4
  <1> QED BY <1>6, <1>7, <1>9, <1>10, <1>11 DEF SamplerStep

\* What has been looked up stays so.
LEMMA LookStays ==
    ASSUME LookInv, UNCHANGED <<compiled, inputs>>, tpc' = tpc \/ tpc' # "append",
           own' = own \/ own' = <<>>
    PROVE  LookInv'
  <1>1. Reads' = Reads
    BY DEF Reads
  <1>2. own' = <<>> => Len(own') = 0
    OBVIOUS
  <1> QED BY <1>1, <1>2 DEF LookInv

\* Every step of the sampling thread keeps the invariant.
LEMMA StepSampler == ASSUME IInv, SamplerStep PROVE IInv'
  <1>1. TypeOK /\ DataInv /\ ThreadInv /\ LookInv /\ BlankInv /\ OwnInv
    BY DEF IInv
  <1>2. SamplerTypeOK' /\ DataInv'
    BY <1>1, SamplerKeepsData
  <1>3. /\ UNCHANGED <<expr, compiled, gpc, goal, edits, interrupt, inputs, chunk, tpc, seg, output, todo,
                       processed, part, missed, lacking, deaf>>
        /\ UNCHANGED MathStays
        /\ UNCHANGED acq
        /\ Prepare \/ UNCHANGED <<own, orphan>>
        /\ Prepare => own' = <<>> /\ orphan' \in {orphan, own[seg]} /\ (orphan' # orphan => own # <<>> /\ seg <= Len(own))
    BY DEF SamplerStep, Prepare, Announce, Feed, EndSegment, AnnounceStop, MathStays, guiVars, localVars
  <1>4. TypeOK'
    <2>1. orphan' \in Generated
      <3>1. own \in Seq(Generated) /\ seg \in Nat \ {0} /\ orphan \in Generated
        BY <1>1 DEF TypeOK, ThreadTypeOK
      <3>2. orphan' # orphan => seg \in 1 .. Len(own) /\ orphan' = own[seg]
        BY <1>3, <3>1
      <3> QED BY <3>1, <3>2, GeneratedType
    <2>2. own' \in Seq(Generated)
      <3>1. own' = <<>> \/ own' = own
        BY <1>3
      <3>2. own \in Seq(Generated)
        BY <1>1 DEF TypeOK, ThreadTypeOK
      <3> QED BY <3>1, <3>2, EmptySeq
    <2> QED BY <1>1, <1>2, <1>3, <2>1, <2>2 DEF TypeOK, GuiTypeOK, ThreadTypeOK
  <1>5. ThreadInv'
    BY <1>1, <1>3 DEF ThreadInv
  <1>6. BlankInv'
    <2>1. CASE Prepare
      <3>1. own' = <<>> /\ Len(own') = 0 /\ seg' > 0
        BY <1>1, <1>3, <2>1 DEF TypeOK, ThreadTypeOK
      <3> QED BY <3>1 DEF BlankInv
    <2>2. ASSUME NEW s \in Sources, NEW n \in 1 .. MaxSamples, Feed(s, n) PROVE ~Empty'
      BY <1>1, <2>2, FeedData DEF Empty
    <2>3. CASE Announce \/ EndSegment \/ AnnounceStop
      <3>1. sampler # "starting" /\ (~Prepare)
        BY <2>3 DEF Announce, EndSegment, AnnounceStop, Prepare
      <3>2. Empty' => Empty
        <4>1. CASE EndSegment
          <5>1. \A s \in Sources : Len(data'[s]) = Len(data[s]) /\ data[s] \in Seq(Sampled) /\ data'[s] \in Seq(Sampled)
            BY <1>1, <1>2, <3>1, <4>1, CompletedData DEF EndSegment, SamplerTypeOK, TypeOK
          <5> QED BY <5>1 DEF Empty
        <4>2. CASE Announce \/ AnnounceStop
          BY <4>2 DEF Announce, AnnounceStop, Empty
        <4> QED BY <2>3, <4>1, <4>2
      <3> QED BY <1>1, <1>3, <3>1, <3>2 DEF BlankInv
    <2> QED BY <2>1, <2>2, <2>3 DEF SamplerStep, BlankInv
  <1>7. OwnInv'
    <2> SUFFICES ASSUME ~RestartDue', ~lacking' PROVE Clean' \/ (sampler' = "off" /\ Empty')
      BY DEF OwnInv
    <2>1. CASE sampler' = "off" /\ Empty'
      BY <2>1
    <2>2. CASE ~(sampler' = "off" /\ Empty')
      <3>1. /\ ~RestartDue /\ sampler # "off" /\ UNCHANGED <<acq, own, MathStays>>
            /\ CountsGrow(counts, counts') /\ \A s \in Sources : Grows(data[s], data'[s])
        BY <2>2, SamplerQuiet
      <3>2. Clean
        BY <1>1, <1>3, <3>1 DEF OwnInv
      <3> QED BY <1>1, <1>2, <3>1, <3>2, CleanGrows
    <2> QED BY <2>1, <2>2
  <1>8. LookInv'
    BY <1>1, <1>3, LookStays
  <1> QED BY <1>2, <1>4, <1>5, <1>6, <1>7, <1>8 DEF IInv

-----------------------------------------------------------------------------
(* The GUI thread                                                          *)

\* The other threads leave the data alone.
LEMMA DataStays ==
    ASSUME TypeOK, DataInv, UNCHANGED samplerVars
    PROVE  /\ DataInv' /\ (Empty' <=> Empty)
           /\ events' \in Seq(Signals) => SamplerTypeOK'
  <1>1. UNCHANGED <<data, acq, current, highest, counts, rate, sampler, state>>
    BY DEF samplerVars
  <1>2. Empty' <=> Empty
    BY <1>1 DEF Empty
  <1> QED BY <1>1, <1>2 DEF DataInv, TypeOK, SamplerTypeOK

\* What is clean stays clean when only the place of the thread changes, and not to where
\* more is said of it.
LEMMA CleanStays ==
    ASSUME Clean, tpc' = tpc \/ (tpc' \notin {"chunk", "append", "complete"} /\ (tpc' \in Working => tpc \in Working)),
           UNCHANGED <<data, acq, counts, sampler, compiled, inputs, own, seg, output, todo, processed, part>>
    PROVE  Clean'
  <1>1. Reads' = Reads /\ \A i : SessionCount(i)' = SessionCount(i)
    BY DEF Reads, SessionCount
  <1>2. OwnChunk'
    BY <1>1 DEF Clean, OwnChunk
  <1>3. ASSUME NEW i \in 1 .. Len(own) PROVE OwnSegment(i)'
    <2>1. HoldsAll(i)' <=> HoldsAll(i)
      BY <1>1 DEF HoldsAll, Has, SegmentsOf
    <2>2. OwnSegment(i)
      BY DEF Clean
    <2> QED BY <1>1, <2>1, <2>2 DEF OwnSegment
  <1> QED BY <1>2, <1>3 DEF Clean

\* So do segments of the math signal while the sources are empty.
LEMMA BlankStays ==
    ASSUME BlankInv, tpc' = tpc \/ tpc' \notin {"chunk", "append"}, sampler' = sampler, Empty' => Empty,
           UNCHANGED <<acq, inputs, own, orphan, seg>>
    PROVE  BlankInv'
  BY DEF BlankInv

\* Session::start_capture() takes the data away.
LEMMA StepStartCapture == ASSUME IInv, StartCapture PROVE IInv'
  <1>1. TypeOK /\ DataInv /\ ThreadInv /\ LookInv
    BY DEF IInv
  <1>2. /\ sampler = "off" /\ sampler' = "starting" /\ acq' = acq + 1
        /\ data' = [s \in Sources |-> <<>>] /\ counts' = <<>> /\ rate' = FALSE
        /\ UNCHANGED <<current, highest, state, events, own, orphan, MathStays>>
    BY DEF StartCapture
  <1>3. UNCHANGED <<current, highest, state, events, own, orphan, expr, compiled, gpc, goal, edits, interrupt, inputs,
                    chunk, tpc, seg, output, todo, processed, part, missed, lacking, deaf>>
    BY <1>2 DEF MathStays, guiVars, localVars
  <1>4. TypeOK'
    <2>1. acq' \in Nat /\ data' \in [Sources -> Seq(Sampled)] /\ counts' \in Seq(Nat)
      BY <1>1, <1>2, EmptySeq DEF TypeOK, SamplerTypeOK
    <2>2. SamplerTypeOK'
      BY <1>1, <1>2, <1>3, <2>1 DEF TypeOK, SamplerTypeOK
    <2> QED BY <1>1, <1>3, <2>2 DEF TypeOK, GuiTypeOK, ThreadTypeOK
  <1>5. DataInv'
    <2>1. \A s \in Sources : data'[s] = <<>>
      BY <1>2
    <2> QED BY <1>1, <1>2, <1>3, <2>1 DEF DataInv, Empty
  <1>6. ThreadInv'
    BY <1>1, <1>3 DEF ThreadInv
  <1>7. BlankInv' /\ OwnInv'
    BY <1>2 DEF BlankInv, OwnInv, RestartDue
  <1>8. LookInv'
    BY <1>1, <1>3, LookStays
  <1> QED BY <1>4, <1>5, <1>6, <1>7, <1>8 DEF IInv

\* reset_generation() until the thread has returned.
LEMMA StepReset ==
    ASSUME IInv, NEW what \in {"begin", "destroy"}, ResetGeneration(what), gpc = "idle",
           events' \in Seq(Signals), expr' \in Expressions \union {Invalid}, edits' \in Nat, missed' = missed,
           UNCHANGED <<samplerVars, compiled, inputs, chunk, own, orphan, localVars, lacking>>
    PROVE  IInv'
  <1>1. TypeOK /\ DataInv /\ ThreadInv /\ LookInv /\ BlankInv
    BY DEF IInv
  <1>2. /\ gpc' = "join" /\ goal' = what /\ interrupt' = (interrupt \/ Joinable) /\ tpc' = Woken
        /\ deaf' \in BOOLEAN
        /\ UNCHANGED <<acq, sampler, compiled, inputs, chunk, own, orphan, seg, output, todo, processed, part,
                       lacking, missed>>
    BY DEF ResetGeneration, samplerVars, localVars
  <1>3. tpc' \in (Rating \union Working \union Over) /\ interrupt' \in BOOLEAN
        /\ (tpc' = tpc \/ (tpc = "wait" /\ tpc' = "loop") \/ (tpc = "ratewait" /\ tpc' = "rewait"))
    BY <1>1, <1>2 DEF Woken, Joinable, TypeOK, ThreadTypeOK, GuiTypeOK, Rating, Working
  <1>4. TypeOK'
    <2>1. SamplerTypeOK'
      BY <1>1, DataStays
    <2> QED BY <1>1, <1>2, <1>3, <2>1 DEF TypeOK, GuiTypeOK, ThreadTypeOK
  <1>5. ThreadInv'
    BY <1>1, <1>2, <1>3 DEF ThreadInv, Rating
  <1>6. BlankInv'
    BY <1>1, <1>2, <1>3, DataStays, BlankStays
  <1>7. OwnInv'
    BY <1>2 DEF OwnInv, RestartDue
  <1>8. LookInv'
    BY <1>1, <1>2, <1>3, LookStays
  <1> QED BY <1>1, <1>4, <1>5, <1>6, <1>7, <1>8, DataStays DEF IInv

\* The rest of reset_generation(), and the next begin_generation().
LEMMA StepRestart == ASSUME IInv, Restart PROVE IInv'
  <1>1. TypeOK /\ DataInv
    BY DEF IInv
  <1>2. /\ own' = <<>> /\ Len(own') = 0 /\ chunk' = Chunk /\ compiled' \in Expressions \union {Invalid}
        /\ gpc' \in {"idle", "gone"} /\ goal' = "none"
        /\ \/ compiled' = Invalid /\ tpc' = "none" /\ inputs' = {} /\ interrupt' = interrupt
           \/ /\ compiled' \in Expressions /\ compiled' = expr
              /\ tpc' = "rate" /\ inputs' = expr.scalars /\ interrupt' = FALSE
        /\ seg' = 1 /\ output' = 0 /\ todo' = 0 /\ processed' = 0 /\ part' = 0
        /\ orphan' = NoSegment /\ missed' = FALSE /\ lacking' = FALSE
        /\ UNCHANGED <<samplerVars, events, expr, edits, deaf>>
    BY <1>1 DEF Restart, TypeOK, GuiTypeOK
  <1>3. TypeOK'
    <2>1. SamplerTypeOK'
      BY <1>1, <1>2, DataStays DEF TypeOK, SamplerTypeOK
    <2>2. GuiTypeOK'
      BY <1>1, <1>2 DEF TypeOK, GuiTypeOK
    <2>3. inputs' \subseteq Sources \union {Self} /\ chunk' \in Nat \ {0} /\ orphan' \in Generated
      BY <1>2, MathAssumption DEF NoSegment, Generated
    <2>5. own' \in Seq(Generated)
      BY <1>2, EmptySeq
    <2>6. tpc' \in Rating \union Working \union Over
      BY <1>2 DEF Rating, Over
    <2>4. ThreadTypeOK'
      <3>1. seg' \in Nat \ {0} /\ output' \in Nat /\ todo' \in Nat /\ processed' \in Nat /\ part' \in Nat
        BY <1>2
      <3>2. missed' \in BOOLEAN /\ lacking' \in BOOLEAN /\ deaf' \in BOOLEAN
        BY <1>1, <1>2 DEF TypeOK, ThreadTypeOK
      <3> QED BY <2>3, <2>5, <2>6, <3>1, <3>2 DEF ThreadTypeOK
    <2> QED BY <2>1, <2>2, <2>4 DEF TypeOK
  <1>4. ThreadInv'
    BY <1>2 DEF ThreadInv, Rating
  <1>5. BlankInv'
    BY <1>2 DEF BlankInv
  <1>6. Clean'
    BY <1>2 DEF Clean, OwnChunk, Working
  <1>7. LookInv'
    BY <1>2 DEF LookInv
  <1> QED BY <1>1, <1>2, <1>3, <1>4, <1>5, <1>6, <1>7, DataStays DEF IInv, OwnInv

\* A signal is passed on to the thread.
LEMMA StepDeliver == ASSUME IInv, Deliver PROVE IInv'
  <1>1. TypeOK /\ DataInv /\ ThreadInv /\ LookInv /\ BlankInv /\ OwnInv
    BY DEF IInv
  <1>2. /\ gpc = "idle" /\ events # <<>> /\ events \in Seq(Signals) /\ events' = Tail(events)
        /\ events' \in Seq(Signals) /\ Head(events) \in Signals /\ Head(events) = events[1]
        /\ Len(events') = Len(events) - 1 /\ \A i \in 1 .. Len(events') : events'[i] = events[i + 1]
    BY <1>1 DEF Deliver, TypeOK, SamplerTypeOK
  <1>3. /\ UNCHANGED <<samplerVars, expr, compiled, edits, inputs, chunk, own, orphan, localVars, lacking>>
        /\ UNCHANGED <<data, acq, counts, sampler, compiled, seg, output, todo, processed, part>>
    BY DEF Deliver, ResetGeneration, samplerVars, localVars
  <1>4. CASE Head(events) = "running"
    <2>1. ResetGeneration("begin") /\ missed' = missed
      BY <1>4 DEF Deliver, NotifiesThread
    <2> QED BY <1>1, <1>2, <1>3, <2>1, StepReset DEF TypeOK, GuiTypeOK
  <1>5. CASE Head(events) # "running"
    <2>1. NotifyData /\ UNCHANGED <<gpc, goal, interrupt, deaf>>
      BY <1>2, <1>5 DEF Deliver, NotifiesThread, Signals
    <2>2. /\ tpc' \in (Rating \union Working \union Over)
          /\ (tpc' = tpc \/ (tpc = "wait" /\ tpc' = "loop") \/ (tpc = "ratewait" /\ tpc' = "rewait"))
          /\ missed' \in BOOLEAN
      BY <1>1, <2>1 DEF NotifyData, Woken, TypeOK, ThreadTypeOK, GuiTypeOK, Rating, Working
    <2>3. SamplerTypeOK' /\ DataInv' /\ (Empty' <=> Empty)
      BY <1>1, <1>2, <1>3, DataStays
    <2>4. TypeOK'
      BY <1>1, <1>3, <2>1, <2>2, <2>3 DEF TypeOK, GuiTypeOK, ThreadTypeOK
    <2>5. ThreadInv'
      BY <1>1, <1>3, <2>1, <2>2 DEF ThreadInv, Rating
    <2>6. BlankInv'
      BY <1>1, <1>3, <2>2, <2>3, BlankStays
    <2>7. OwnInv'
      <3> SUFFICES ASSUME ~RestartDue', ~lacking' PROVE Clean' \/ (sampler' = "off" /\ Empty')
        BY DEF OwnInv
      <3>1. \A i \in DOMAIN events : events[i] # "running"
        <4> SUFFICES ASSUME NEW i \in 1 .. Len(events) PROVE events[i] # "running"
          BY <1>2
        <4>1. CASE i = 1
          BY <1>2, <1>5, <4>1
        <4>2. CASE i # 1
          <5>1. i - 1 \in 1 .. Len(events') /\ events'[i - 1] = events[i]
            BY <1>2, <4>2
          <5>2. i - 1 \in DOMAIN events'
            BY <1>2, <5>1
          <5> QED BY <5>1, <5>2 DEF RestartDue
        <4> QED BY <4>1, <4>2
      <3>2. ~RestartDue /\ ~lacking
        BY <1>3, <2>1, <3>1 DEF RestartDue, samplerVars
      <3>3. CASE sampler = "off" /\ Empty
        BY <1>3, <2>3, <3>3
      <3>4. CASE Clean
        BY <1>3, <2>2, <3>4, CleanStays DEF Working
      <3> QED BY <1>1, <3>2, <3>3, <3>4 DEF OwnInv
    <2>8. LookInv'
      BY <1>1, <1>3, <2>2, LookStays
    <2> QED BY <2>3, <2>4, <2>5, <2>6, <2>7, <2>8 DEF IInv
  <1> QED BY <1>4, <1>5

\* The user changes the expression, or removes the signal.
LEMMA StepEdit == ASSUME IInv, EditStep PROVE IInv'
  <1>1. TypeOK
    BY DEF IInv
  <1>2. CASE Destroy
    <2>1. /\ ResetGeneration("destroy") /\ gpc = "idle" /\ edits' = edits + 1
          /\ UNCHANGED <<samplerVars, events, expr, compiled, inputs, chunk, own, orphan, localVars, missed, lacking>>
      BY <1>2 DEF Destroy
    <2> QED BY <1>1, <2>1, StepReset DEF TypeOK, SamplerTypeOK, GuiTypeOK
  <1>3. ASSUME NEW e \in Expressions \union {Invalid}, SetExpression(e) PROVE IInv'
    <2>1. /\ ResetGeneration("begin") /\ gpc = "idle" /\ edits' = edits + 1 /\ expr' = e
          /\ UNCHANGED <<samplerVars, events, compiled, inputs, chunk, own, orphan, localVars, missed, lacking>>
      BY <1>3 DEF SetExpression
    <2> QED BY <1>1, <2>1, StepReset DEF TypeOK, SamplerTypeOK, GuiTypeOK
  <1> QED BY <1>2, <1>3 DEF EditStep

-----------------------------------------------------------------------------
(* The generation thread                                                   *)

\* The thread moves on without touching anything else.
LEMMA StepMoves ==
    ASSUME IInv, AwaitRate \/ Waits \/ Interrupted \/ WakesUp PROVE IInv'
  <1>1. TypeOK /\ DataInv /\ ThreadInv /\ LookInv /\ BlankInv /\ OwnInv
    BY DEF IInv
  <1>2. /\ UNCHANGED <<samplerVars, events, expr, compiled, gpc, goal, interrupt, inputs, chunk, own, orphan,
                       localVars, lacking, deaf>>
        /\ UNCHANGED <<data, acq, counts, sampler, state, seg, output, todo, processed, part>>
        /\ edits' \in Nat /\ missed' \in BOOLEAN
    <2>1. edits \in Nat /\ missed \in BOOLEAN
      BY <1>1 DEF TypeOK, GuiTypeOK, ThreadTypeOK
    <2>2. CASE AwaitRate \/ Waits \/ Interrupted
      BY <2>1, <2>2 DEF AwaitRate, Waits, Interrupted, ThreadStays, guiVars, samplerVars, localVars
    <2>3. CASE WakesUp
      <3>1. edits' = edits + 1 /\ missed' = FALSE
        BY <2>3 DEF WakesUp
      <3>2. edits' \in Nat
        BY <2>1, <3>1
      <3>3. missed' \in BOOLEAN
        BY <3>1
      <3> QED BY <2>3, <3>2, <3>3 DEF WakesUp, samplerVars, localVars
    <2> QED BY <2>2, <2>3
  <1>3. /\ tpc \in Rating \union Working /\ tpc # "none"
        /\ tpc' \in Rating \union Working \union {"done"} /\ tpc' \notin {"chunk", "append", "complete"}
        /\ tpc' \in Rating => tpc \in Rating
        /\ tpc' \in Working => tpc \in Working
        /\ tpc' = "wait" => tpc = "block"
        /\ tpc' # "block"
        /\ tpc' = "done" => interrupt
    BY DEF AwaitRate, Waits, Interrupted, WakesUp, Woken, Rating, Working
  <1>4. DataInv' /\ SamplerTypeOK' /\ (Empty' <=> Empty)
    BY <1>1, <1>2, DataStays DEF TypeOK, SamplerTypeOK
  <1>5. TypeOK'
    BY <1>1, <1>2, <1>3, <1>4 DEF TypeOK, GuiTypeOK, ThreadTypeOK, Over
  <1>6. ThreadInv'
    BY <1>1, <1>2, <1>3 DEF ThreadInv, Rating, Working
  <1>7. BlankInv'
    BY <1>1, <1>2, <1>3, <1>4, BlankStays
  <1>8. OwnInv'
    <2> SUFFICES ASSUME ~RestartDue', ~lacking' PROVE Clean' \/ (sampler' = "off" /\ Empty')
      BY DEF OwnInv
    <2>1. ~RestartDue /\ ~lacking
      BY <1>2 DEF RestartDue
    <2>2. CASE sampler = "off" /\ Empty
      BY <1>2, <1>4, <2>2
    <2>3. CASE Clean
      BY <1>2, <1>3, <2>3, CleanStays
    <2> QED BY <1>1, <2>1, <2>2, <2>3 DEF OwnInv
  <1>9. LookInv'
    BY <1>1, <1>2, <1>3, LookStays
  <1> QED BY <1>4, <1>5, <1>6, <1>7, <1>8, <1>9 DEF IInv

\* Min is the least element.
LEMMA LeastCount ==
    ASSUME NEW S \in SUBSET Nat, S # {}
    PROVE  Min(S) \in S /\ \A m \in S : Min(S) <= m
  <1> DEFINE R == {ss \in Nat \X Nat : ss[1] < ss[2]}
  <1>1. IsWellFoundedOn(R, Nat)
    BY NatLessThanWellFounded, Zenon DEF OpToRel
  <1>2. \A m, n \in Nat : <<m, n>> \notin R => n <= m
    OBVIOUS
  <1> HIDE DEF R
  <1>3. PICK n \in S : \A m \in S : ~(<<m, n>> \in R)
    BY <1>1, WFMin
  <1>4. \A m \in S : n <= m
    BY <1>2, <1>3
  <1> QED BY <1>3, <1>4 DEF Min

\* output_segment is a segment.
LEMMA OutputType ==
    ASSUME TypeOK
    PROVE  Output \in Generated /\ Output.count \in Nat /\ Output.complete \in BOOLEAN
  <1>1. own \in Seq(Generated) /\ seg \in Nat \ {0} /\ orphan \in Generated
    BY DEF TypeOK, ThreadTypeOK
  <1>2. CASE seg <= Len(own)
    BY <1>1, <1>2, GeneratedType DEF Output
  <1>3. CASE ~(seg <= Len(own))
    BY <1>1, <1>3 DEF Output, Generated
  <1> QED BY <1>2, <1>3

\* get_working_sample_count() is the count of an input, unless there is none.
LEMMA WorkingIs ==
    ASSUME TypeOK, NEW i \in Nat \ {0}
    PROVE  /\ WorkingCount(i) \in Nat
           /\ inputs = {} => WorkingCount(i) = SessionCount(i)
           /\ \A s \in inputs : SegmentsOf(s) = <<>> => WorkingCount(i) = 0
           /\ \A s \in inputs : Has(s, i) =>
                SegmentsOf(s)[i].count \in Nat /\ WorkingCount(i) <= SegmentsOf(s)[i].count
           /\ inputs # {} =>
                \/ \E s \in inputs : SegmentsOf(s) = <<>>
                \/ \E s \in inputs : Has(s, i) /\ WorkingCount(i) = SegmentsOf(s)[i].count
                \/ WorkingCount(i) = Unlimited
  <1> DEFINE available == {SegmentsOf(s)[i].count : s \in {t \in inputs : Has(t, i)}}
  <1>1. ASSUME NEW s \in inputs, Has(s, i) PROVE SegmentsOf(s)[i].count \in Nat
    <2>1. CASE s = Self
      <3>1. i \in 1 .. Len(own) /\ own \in Seq(Generated)
        BY <1>1, <2>1 DEF Has, SegmentsOf, TypeOK, ThreadTypeOK
      <3> QED BY <2>1, <3>1, GeneratedType DEF SegmentsOf
    <2>2. CASE s # Self
      <3>1. i \in 1 .. Len(data[s]) /\ data[s] \in Seq(Sampled)
        BY <1>1, <2>2, OthersAreSources DEF Has
      <3> QED BY <2>2, <3>1, SampledType DEF SegmentsOf
    <2> QED BY <2>1, <2>2
  <1>2. available \in SUBSET Nat
    BY <1>1
  <1>3. Unlimited \in Nat
    BY MathAssumption DEF Unlimited
  <1>4. CASE inputs = {}
    <2>1. WorkingCount(i) = SessionCount(i)
      BY <1>4 DEF WorkingCount
    <2>2. SessionCount(i) \in Nat
      BY DEF SessionCount, TypeOK, SamplerTypeOK
    <2> QED BY <1>4, <2>1, <2>2
  <1>5. CASE inputs # {} /\ \E s \in inputs : SegmentsOf(s) = <<>>
    <2>1. WorkingCount(i) = 0
      BY <1>5 DEF WorkingCount
    <2> QED BY <1>1, <1>5, <2>1
  <1>6. CASE inputs # {} /\ ~\E s \in inputs : SegmentsOf(s) = <<>>
    <2>1. WorkingCount(i) = Min(available \union {Unlimited})
      BY <1>6 DEF WorkingCount
    <2>2. available \union {Unlimited} \in SUBSET Nat /\ available \union {Unlimited} # {}
      BY <1>2, <1>3
    <2> HIDE DEF available
    <2>3. WorkingCount(i) \in available \union {Unlimited} /\ \A m \in available : WorkingCount(i) <= m
      BY <2>1, <2>2, LeastCount
    <2>4. WorkingCount(i) \in Nat
      BY <2>2, <2>3
    <2>5. \A s \in inputs : Has(s, i) => SegmentsOf(s)[i].count \in available
      BY DEF available
    <2>6. WorkingCount(i) = Unlimited \/ \E s \in inputs : Has(s, i) /\ WorkingCount(i) = SegmentsOf(s)[i].count
      BY <2>3 DEF available
    <2> QED BY <1>1, <1>6, <2>3, <2>4, <2>5, <2>6
  <1> QED BY <1>4, <1>5, <1>6

\* What the thread has looked up is what the expression reads.
LEMMA InputsAreRead ==
    ASSUME TypeOK, ThreadInv, tpc # "none", NEW s \in inputs \ {Self} PROVE s \in Reads
  BY MathAssumption DEF TypeOK, ThreadTypeOK, ThreadInv, Reads

\* A segment that is not touched.
LEMMA SegmentStays ==
    ASSUME NEW i \in 1 .. Len(own), OwnSegment(i), own'[i] = own[i], i = Len(own) => own[i].complete \/ Len(own') = i,
           Len(own') >= Len(own), UNCHANGED <<data, acq, counts, sampler, inputs>>
    PROVE  OwnSegment(i)'
  <1>1. HoldsAll(i) => HoldsAll(i)'
    <2>1. SessionCount(i)' = SessionCount(i) /\ \A s \in inputs \ {Self} : Has(s, i)' <=> Has(s, i)
      BY DEF SessionCount, Has, SegmentsOf
    <2> QED BY <2>1 DEF HoldsAll
  <1>2. SessionCount(i)' = SessionCount(i)
    BY DEF SessionCount
  <1> QED BY <1>1, <1>2 DEF OwnSegment

\* What the steps of the thread have in common.
LEMMA ThreadFrame ==
    ASSUME IInv, UNCHANGED ThreadStays, events' \in Seq(Signals)
    PROVE  /\ UNCHANGED <<data, acq, current, highest, counts, sampler, state>>
           /\ UNCHANGED <<rate, expr, compiled, gpc, goal, edits, interrupt, deaf>>
           /\ SamplerTypeOK' /\ GuiTypeOK' /\ DataInv' /\ (Empty' <=> Empty)
           /\ Reads' = Reads /\ \A i : SessionCount(i)' = SessionCount(i)
           /\ events' = events => (RestartDue' <=> RestartDue)
  <1>1. TypeOK /\ DataInv
    BY DEF IInv
  <1>2. /\ UNCHANGED <<data, acq, current, highest, counts, sampler, state>>
        /\ UNCHANGED <<rate, expr, compiled, gpc, goal, edits, interrupt, deaf>>
        /\ UNCHANGED samplerVars
    BY DEF ThreadStays, samplerVars, guiVars
  <1>3. SamplerTypeOK' /\ DataInv' /\ (Empty' <=> Empty)
    BY <1>1, <1>2, DataStays
  <1>4. GuiTypeOK'
    BY <1>1, <1>2 DEF TypeOK, GuiTypeOK
  <1> QED BY <1>2, <1>3, <1>4 DEF Reads, SessionCount, RestartDue

\* A segment that has just begun.
LEMMA NewSegment ==
    ASSUME TypeOK, own' = Append(own, NewOwn), UNCHANGED <<data, acq, counts, sampler, inputs>>
    PROVE  /\ own' \in Seq(Generated) /\ Len(own') = Len(own) + 1
           /\ \A i \in 1 .. Len(own) : own'[i] = own[i]
           /\ own'[Len(own) + 1] = NewOwn
           /\ (\A i \in 1 .. Len(own) : OwnSegment(i) /\ own[i].complete)
                => \A i \in 1 .. Len(own') : OwnSegment(i)'
  <1>1. NewOwn \in Generated /\ NewOwn.count = 0 /\ ~NewOwn.complete /\ NewOwn.acq = acq
    BY DEF NewOwn, Generated, TypeOK, SamplerTypeOK
  <1> HIDE DEF NewOwn
  <1>2. own \in Seq(Generated)
    BY DEF TypeOK, ThreadTypeOK
  <1>3. /\ own' \in Seq(Generated) /\ Len(own') = Len(own) + 1
        /\ \A i \in 1 .. Len(own) : own'[i] = own[i]
        /\ own'[Len(own) + 1] = NewOwn
    BY <1>1, <1>2
  <1>4. ASSUME \A i \in 1 .. Len(own) : OwnSegment(i) /\ own[i].complete, NEW i \in 1 .. Len(own')
        PROVE  OwnSegment(i)'
    <2>1. CASE i \in 1 .. Len(own)
      <3>1. Len(own') >= Len(own)
        BY <1>2, <1>3
      <3> QED BY <1>3, <1>4, <2>1, <3>1, SegmentStays
    <2>2. CASE i = Len(own) + 1
      <3>1. /\ own'[i].acq = acq' /\ own'[i].count = 0 /\ ~own'[i].complete /\ i = Len(own')
        BY <1>1, <1>3, <2>2
      <3>2. SessionCount(i)' \in Nat
        BY <1>2, <2>2 DEF SessionCount, TypeOK, SamplerTypeOK
      <3>3. 0 <= SessionCount(i)'
        BY <3>2
      <3> QED BY <3>1, <3>3 DEF OwnSegment
    <2> QED BY <1>2, <1>3, <2>1, <2>2
  <1> QED BY <1>3, <1>4

\* The first segment.
LEMMA StepBegin == ASSUME IInv, Begin PROVE IInv'
  <1>1. TypeOK /\ ThreadInv /\ LookInv /\ BlankInv /\ OwnInv
    BY DEF IInv
  <1>2. /\ tpc = "begin" /\ tpc' = "first" /\ own' = Append(own, NewOwn) /\ UNCHANGED ThreadStays
        /\ UNCHANGED <<events, inputs, chunk, orphan, seg, output, todo, processed, part, missed, lacking>>
    BY DEF Begin, localVars
  <1>3. own = <<>> /\ seg = 1 /\ Len(own) = 0
    BY <1>1, <1>2 DEF ThreadInv, Rating
  <1>4. /\ UNCHANGED <<data, acq, counts, sampler, state>> /\ UNCHANGED <<compiled, gpc, interrupt, deaf>>
        /\ SamplerTypeOK' /\ GuiTypeOK' /\ DataInv' /\ (Empty' <=> Empty) /\ (RestartDue' <=> RestartDue)
    BY <1>1, <1>2, ThreadFrame DEF TypeOK, SamplerTypeOK
  <1>5. /\ own' \in Seq(Generated) /\ Len(own') = 1 /\ own'[1] = NewOwn
        /\ \A i \in 1 .. Len(own') : OwnSegment(i)'
    BY <1>1, <1>2, <1>3, <1>4, NewSegment
  <1>6. ThreadTypeOK'
    BY <1>1, <1>2, <1>4, <1>5 DEF TypeOK, ThreadTypeOK, Working
  <1>7. ThreadInv'
    BY <1>1, <1>2, <1>4 DEF ThreadInv, Rating
  <1>8. NewOwn.count = 0 /\ ~NewOwn.complete /\ NewOwn.acq = acq
    BY DEF NewOwn
  <1>9. BlankInv'
    BY <1>2, <1>3, <1>4, <1>5, <1>8 DEF BlankInv
  <1>10. Clean'
    BY <1>2, <1>3, <1>5 DEF Clean, OwnChunk
  <1>11. LookInv'
    BY <1>2, <1>5, <1>8 DEF LookInv
  <1> QED BY <1>4, <1>6, <1>7, <1>9, <1>10, <1>11 DEF IInv, TypeOK, OwnInv

\* "Process next segment"
LEMMA StepNext == ASSUME IInv, NextSegment PROVE IInv'
  <1>1. TypeOK /\ DataInv /\ ThreadInv /\ LookInv /\ BlankInv /\ OwnInv
    BY DEF IInv
  <1>2. /\ tpc = "next" /\ UNCHANGED ThreadStays /\ tpc' \in {"block", "loop"} /\ (tpc' = "block" => todo = 0)
        /\ missed' \in BOOLEAN
        /\ UNCHANGED <<events, inputs, chunk, output, todo, processed, part, lacking>>
    <2>1. tpc' \in {"block", "loop"} /\ (tpc' = "block" => todo = 0)
      BY DEF NextSegment
    <2>2. missed' \in BOOLEAN
      BY Zenon DEF NextSegment
    <2> QED BY <2>1, <2>2 DEF NextSegment
  <1>3. \/ ~Output.complete /\ UNCHANGED <<seg, own, orphan>>
        \/ UNCHANGED <<seg, own, orphan>>
        \/ /\ Output.complete /\ seg' = seg + 1 /\ own' = Append(own, NewOwn)
           /\ orphan' = IF Len(own) = seg THEN orphan ELSE NewOwn
    BY DEF NextSegment, MovesOn
  <1>4. /\ UNCHANGED <<data, acq, counts, sampler, state>> /\ UNCHANGED <<compiled, gpc, interrupt, deaf>>
        /\ SamplerTypeOK' /\ GuiTypeOK' /\ DataInv' /\ (Empty' <=> Empty) /\ (RestartDue' <=> RestartDue)
    BY <1>1, <1>2, ThreadFrame DEF TypeOK, SamplerTypeOK
  <1>5. ThreadInv'
    BY <1>1, <1>2, <1>4 DEF ThreadInv, Rating
  <1>6. own \in Seq(Generated) /\ seg \in Nat \ {0} /\ orphan \in Generated
    BY <1>1 DEF TypeOK, ThreadTypeOK
  <1>7. CASE UNCHANGED <<seg, own, orphan>>
    <2>1. ThreadTypeOK'
      BY <1>1, <1>2, <1>4, <1>7 DEF TypeOK, ThreadTypeOK, Working
    <2>2. BlankInv'
      BY <1>1, <1>2, <1>4, <1>7, BlankStays
    <2>3. Clean => Clean'
      BY <1>2, <1>4, <1>7, CleanStays DEF Working
    <2>4. LookInv'
      BY <1>1, <1>2, <1>4, <1>7, LookStays
    <2> QED BY <1>1, <1>2, <1>4, <1>5, <2>1, <2>2, <2>3, <2>4 DEF IInv, TypeOK, OwnInv
  <1>8. CASE /\ Output.complete /\ seg' = seg + 1 /\ own' = Append(own, NewOwn)
             /\ orphan' = IF Len(own) = seg THEN orphan ELSE NewOwn
    <2>1. /\ own' \in Seq(Generated) /\ Len(own') = Len(own) + 1
          /\ \A i \in 1 .. Len(own) : own'[i] = own[i]
          /\ own'[Len(own) + 1] = NewOwn
      BY <1>1, <1>2, <1>4, <1>8, NewSegment
    <2>2. NewOwn.count = 0 /\ ~NewOwn.complete /\ NewOwn.acq = acq /\ NewOwn \in Generated
      BY <1>1 DEF NewOwn, Generated, TypeOK, SamplerTypeOK
    <2> HIDE DEF NewOwn
    <2>3. ThreadTypeOK'
      <3>1. seg' \in Nat \ {0} /\ orphan' \in Generated
        BY <1>6, <1>8, <2>2
      <3> QED BY <1>1, <1>2, <1>4, <2>1, <3>1 DEF TypeOK, ThreadTypeOK, Working
    <2>4. BlankInv'
      <3> SUFFICES ASSUME sampler # "starting", Empty
                   PROVE  /\ \A i \in 1 .. Len(own') :
                                /\ own'[i].acq = acq /\ own'[i].count = 0
                                /\ own'[i].complete => inputs = {}
                                /\ i # Len(own') => own'[i].complete
                          /\ own' # <<>> => seg' = Len(own') \/ (Len(own') = 1 /\ ~orphan'.complete)
        BY <1>2, <1>4 DEF BlankInv
      <3>1. /\ \A i \in 1 .. Len(own) :
                /\ own[i].acq = acq /\ own[i].count = 0
                /\ own[i].complete => inputs = {}
                /\ i # Len(own) => own[i].complete
            /\ own # <<>> => seg = Len(own) \/ (Len(own) = 1 /\ ~orphan.complete)
        BY <1>1 DEF BlankInv
      <3>2. CASE own = <<>>
        <4>1. Len(own) = 0 /\ Len(own') = 1 /\ orphan' = NewOwn
          BY <1>6, <1>8, <2>1, <3>2
        <4> QED BY <2>1, <2>2, <4>1
      <3>3. CASE own # <<>>
        <4>1. Len(own) \in 1 .. Len(own)
          BY <1>6, <3>3
        <4>2. seg = Len(own)
          <5>1. CASE Len(own) = 1 /\ seg # Len(own)
            <6>1. Output = orphan
              BY <1>6, <5>1 DEF Output
            <6> QED BY <1>8, <3>1, <3>3, <5>1, <6>1
          <5> QED BY <3>1, <3>3, <5>1
        <4>3. own[Len(own)].complete
          BY <1>8, <4>2 DEF Output
        <4>4. \A i \in 1 .. Len(own) : own[i].complete
          BY <3>1, <4>3
        <4>5. \A i \in 1 .. Len(own') : i \in 1 .. Len(own) \/ i = Len(own) + 1
          BY <1>6, <2>1
        <4> QED BY <1>6, <1>8, <2>1, <2>2, <3>1, <4>2, <4>4, <4>5
      <3> QED BY <3>2, <3>3
    <2>5. Clean => Clean'
      <3> SUFFICES ASSUME Clean PROVE Clean'
        OBVIOUS
      <3>1. Len(own) = seg
        BY <1>2 DEF Clean, OwnChunk, Working
      <3>2. \A i \in 1 .. Len(own) : OwnSegment(i) /\ own[i].complete
        <4> TAKE i \in 1 .. Len(own)
        <4>1. OwnSegment(i)
          BY DEF Clean
        <4>2. own[Len(own)].complete
          BY <1>8, <3>1 DEF Output
        <4> QED BY <4>1, <4>2 DEF OwnSegment
      <3>3. \A i \in 1 .. Len(own') : OwnSegment(i)'
        BY <1>1, <1>2, <1>4, <1>8, <3>2, NewSegment
      <3>4. OwnChunk'
        BY <1>2, <1>8, <2>1, <3>1 DEF OwnChunk
      <3> QED BY <3>3, <3>4 DEF Clean
    <2>6. LookInv'
      <3>1. Reads' = Reads
        BY <1>4 DEF Reads
      <3>2. \A i \in 1 .. Len(own') : i \in 1 .. Len(own) \/ i = Len(own) + 1
        BY <1>6, <2>1
      <3> QED BY <1>1, <1>2, <2>1, <2>2, <3>1, <3>2 DEF LookInv
    <2> QED BY <1>1, <1>2, <1>4, <1>5, <2>3, <2>4, <2>5, <2>6 DEF IInv, TypeOK, OwnInv
  <1> QED BY <1>3, <1>7, <1>8

\* While the sources are empty, only a math signal that reads itself has samples to process:
\* for a segment that is not there.
LEMMA BlankCounts ==
    ASSUME IInv, tpc \in Working, sampler # "starting", Empty, WorkingCount(seg) > Output.count
    PROVE  seg > Len(own) /\ \A i \in 1 .. Len(own) : ~own[i].complete
  <1>1. TypeOK /\ DataInv /\ ThreadInv /\ BlankInv
    BY DEF IInv
  <1>2. own \in Seq(Generated) /\ seg \in Nat \ {0} /\ Output.count \in Nat /\ WorkingCount(seg) \in Nat
    BY <1>1, OutputType, WorkingIs DEF TypeOK, ThreadTypeOK
  <1>3. inputs # {}
    <2>1. counts = <<>>
      BY <1>1 DEF DataInv
    <2>2. SessionCount(seg) = 0
      BY <1>2, <2>1 DEF SessionCount
    <2> QED BY <1>1, <1>2, <2>2, WorkingIs
  <1>4. \A s \in inputs : s = Self
    <2> SUFFICES ASSUME NEW s \in inputs \ {Self} PROVE FALSE
      OBVIOUS
    <2>1. SegmentsOf(s) = <<>>
      BY <1>1, OthersAreSources DEF Empty
    <2>2. WorkingCount(seg) = 0
      BY <1>1, <1>2, <2>1, WorkingIs
    <2> QED BY <1>2, <2>2
  <1>5. Self \in inputs /\ SegmentsOf(Self) = own
    BY <1>3, <1>4 DEF SegmentsOf
  <1>6. ~(seg <= Len(own))
    <2> SUFFICES ASSUME seg <= Len(own) PROVE FALSE
      OBVIOUS
    <2>1. Has(Self, seg) /\ seg \in 1 .. Len(own) /\ Output = own[seg]
      BY <1>2, <1>5 DEF Has, Output
    <2>2. WorkingCount(seg) <= own[seg].count
      BY <1>1, <1>2, <1>5, <2>1, WorkingIs
    <2> QED BY <1>2, <2>1, <2>2
  <1> QED BY <1>1, <1>2, <1>3, <1>6 DEF BlankInv

\* How much there is to be generated.
LEMMA StepCount == ASSUME IInv, Count PROVE IInv'
  <1>1. TypeOK /\ DataInv /\ ThreadInv /\ LookInv /\ BlankInv /\ OwnInv
    BY DEF IInv
  <1>2. /\ tpc \in {"first", "loop"} /\ UNCHANGED ThreadStays /\ output' = Output.count /\ processed' = 0
        /\ todo' = IF WorkingCount(seg) > Output.count THEN WorkingCount(seg) - Output.count ELSE 0
        /\ tpc' = IF todo' > 0 THEN "chunk" ELSE "complete"
        /\ lacking' = (lacking \/ (todo' > 0 /\ Overlooked))
        /\ UNCHANGED <<events, inputs, chunk, own, orphan, seg, part, missed>>
    BY DEF Count
  <1>3. /\ Output.count \in Nat /\ WorkingCount(seg) \in Nat /\ seg \in Nat \ {0} /\ own \in Seq(Generated)
    BY <1>1, OutputType, WorkingIs DEF TypeOK, ThreadTypeOK
  <1>4. /\ UNCHANGED <<data, acq, counts, sampler, state>> /\ UNCHANGED <<compiled, gpc, interrupt, deaf>>
        /\ SamplerTypeOK' /\ GuiTypeOK' /\ DataInv' /\ (Empty' <=> Empty) /\ (RestartDue' <=> RestartDue)
        /\ Reads' = Reads /\ \A i : SessionCount(i)' = SessionCount(i)
    BY <1>1, <1>2, ThreadFrame DEF TypeOK, SamplerTypeOK
  <1>5. /\ output' \in Nat /\ todo' \in Nat /\ processed' = 0 /\ tpc' \in {"chunk", "complete"}
        /\ tpc' = "chunk" => todo' > 0 /\ WorkingCount(seg) > Output.count /\ output' + todo' = WorkingCount(seg)
    BY <1>2, <1>3
  <1>6. lacking' \in BOOLEAN
    BY <1>2, Zenon
  <1>7. ThreadTypeOK'
    BY <1>1, <1>2, <1>5, <1>6, <1>4 DEF TypeOK, ThreadTypeOK, Working
  <1>8. ThreadInv'
    BY <1>1, <1>2, <1>4, <1>5 DEF ThreadInv, Rating
  <1>9. BlankInv'
    <2>1. sampler # "starting" /\ Empty /\ tpc' = "chunk" => seg > Len(own) /\ \A i \in 1 .. Len(own) : ~own[i].complete
      BY <1>2, <1>5, BlankCounts DEF Working
    <2> QED BY <1>1, <1>2, <1>4, <1>5, <2>1 DEF BlankInv
  <1>10. OwnInv'
    <2> SUFFICES ASSUME ~RestartDue', ~lacking' PROVE Clean' \/ (sampler' = "off" /\ Empty')
      BY DEF OwnInv
    <2>1. ~RestartDue /\ ~lacking /\ (todo' > 0 => ~Overlooked)
      BY <1>2, <1>4
    <2>2. CASE sampler = "off" /\ Empty
      BY <1>4, <2>2
    <2>3. CASE Clean
      <3>1. Len(own) = seg /\ Output = own[seg]
        BY <1>2, <1>3, <2>3 DEF Clean, OwnChunk, Working, Output
      <3>2. OwnChunk'
        <4>1. ASSUME tpc' = "chunk"
              PROVE  /\ output' + processed' = own[seg].count
                     /\ \A s \in Sources : s \in Reads =>
                           seg <= Len(data[s]) /\ output' + todo' <= data[s][seg].count
                     /\ inputs = {} => output' + todo' <= SessionCount(seg)
          <5>1. todo' > 0 /\ output' + todo' = WorkingCount(seg)
            BY <1>5, <4>1
          <5>2. ASSUME NEW s \in Sources, s \in Reads
                PROVE  seg <= Len(data[s]) /\ WorkingCount(seg) <= data[s][seg].count
            <6>1. Has(s, seg) /\ (s \in inputs \/ ~(data[s][seg].count < WorkingCount(seg)))
              BY <2>1, <5>1, <5>2 DEF Overlooked
            <6>2. SegmentsOf(s) = data[s] /\ data[s] \in Seq(Sampled)
              BY <1>1, MathAssumption DEF SegmentsOf, TypeOK, SamplerTypeOK
            <6>3. seg \in 1 .. Len(data[s])
              BY <1>3, <6>1, <6>2 DEF Has
            <6>4. data[s][seg].count \in Nat
              BY <6>2, <6>3, SampledType
            <6>5. s \in inputs => WorkingCount(seg) <= data[s][seg].count
              BY <1>1, <1>3, <6>1, <6>2, WorkingIs
            <6> QED BY <1>3, <6>1, <6>3, <6>4, <6>5
          <5>3. inputs = {} => WorkingCount(seg) <= SessionCount(seg)
            BY <1>1, <1>3, WorkingIs
          <5> QED BY <1>2, <1>3, <2>1, <3>1, <5>1, <5>2, <5>3
        <4>2. tpc' = "complete" => output' <= own[seg].count
          BY <1>2, <1>3, <3>1
        <4> QED BY <1>2, <1>4, <1>5, <3>1, <4>1, <4>2 DEF OwnChunk
      <3>3. ASSUME NEW i \in 1 .. Len(own') PROVE OwnSegment(i)'
        <4>1. i \in 1 .. Len(own) /\ own' = own /\ Len(own') >= Len(own) /\ OwnSegment(i)
          BY <1>2, <1>3, <2>3 DEF Clean
        <4> QED BY <1>2, <1>4, <4>1, SegmentStays
      <3> QED BY <3>2, <3>3 DEF Clean
    <2> QED BY <1>1, <2>1, <2>2, <2>3 DEF OwnInv
  <1>11. LookInv'
    BY <1>1, <1>2, <1>4, <1>5, LookStays
  <1> QED BY <1>4, <1>7, <1>8, <1>9, <1>10, <1>11 DEF IInv, TypeOK

\* The number of samples of a chunk.
LEMMA ChunkSize ==
    ASSUME TypeOK, processed < todo, NEW n \in Nat \ {0}
    PROVE  AtMost(n) \in Nat \ {0} /\ AtMost(n) <= todo - processed
  <1>1. todo \in Nat /\ processed \in Nat
    BY DEF TypeOK, ThreadTypeOK
  <1> QED BY <1>1 DEF AtMost

\* A chunk begins; the thread may find the signal it names in sample().
LEMMA StepStartChunk == ASSUME IInv, StartChunk PROVE IInv'
  <1>1. TypeOK /\ DataInv /\ ThreadInv /\ LookInv /\ BlankInv /\ OwnInv
    BY DEF IInv
  <1>2. /\ tpc = "chunk" /\ UNCHANGED ThreadStays
        /\ inputs' = inputs \union (IF FindsSelf \/ compiled.call \in Sources THEN {compiled.call} ELSE {})
        /\ chunk' = IF FindsSelf THEN 1 ELSE chunk
        /\ part' = IF FindsSelf /\ output + processed = 0 THEN 2 ELSE AtMost(chunk')
        /\ tpc' \in {"append", "crashed"} /\ (tpc' = "append" => seg <= Len(own))
        /\ UNCHANGED <<events, own, orphan, seg, output, todo, processed, missed, lacking>>
    BY DEF StartChunk
  <1>3. /\ todo \in Nat /\ processed \in Nat /\ output \in Nat /\ processed < todo /\ chunk \in Nat \ {0}
        /\ compiled \in Expressions /\ inputs \subseteq Sources \union {Self}
    BY <1>1, <1>2 DEF TypeOK, ThreadTypeOK, ThreadInv
  <1>4. /\ UNCHANGED <<data, acq, counts, sampler, state>> /\ UNCHANGED <<compiled, gpc, interrupt, deaf>>
        /\ SamplerTypeOK' /\ GuiTypeOK' /\ DataInv' /\ (Empty' <=> Empty) /\ (RestartDue' <=> RestartDue)
        /\ Reads' = Reads /\ \A i : SessionCount(i)' = SessionCount(i)
    BY <1>1, <1>2, ThreadFrame DEF TypeOK, SamplerTypeOK
  <1>5. chunk' \in Nat \ {0}
    BY <1>2, <1>3
  <1>6. part' \in Nat /\ processed + part' <= todo
    <2>1. AtMost(chunk) \in Nat /\ AtMost(chunk) <= todo - processed
          /\ AtMost(chunk') \in Nat /\ AtMost(chunk') <= todo - processed
      BY <1>1, <1>3, <1>5, ChunkSize
    <2>2. FindsSelf /\ output + processed = 0 => AtMost(chunk) > 1
      BY <1>3, <2>1 DEF FindsSelf
    <2>3. CASE FindsSelf /\ output + processed = 0
      BY <1>2, <1>3, <2>1, <2>2, <2>3
    <2>4. CASE ~(FindsSelf /\ output + processed = 0)
      BY <1>2, <1>3, <2>1, <2>4
    <2> QED BY <2>3, <2>4
  <1>7. inputs' \subseteq Sources \union {Self} /\ inputs \subseteq inputs' /\ inputs' \subseteq inputs \union {compiled.call}
    BY <1>2, <1>3 DEF FindsSelf
  <1>8. ThreadTypeOK'
    BY <1>1, <1>2, <1>4, <1>5, <1>6, <1>7 DEF TypeOK, ThreadTypeOK, Working, Over
  <1>9. ThreadInv'
    BY <1>1, <1>2, <1>4, <1>6, <1>7 DEF ThreadInv, Rating
  <1>10. BlankInv'
    <2> SUFFICES ASSUME sampler # "starting", Empty
                 PROVE  /\ \A i \in 1 .. Len(own') :
                              /\ own'[i].acq = acq' /\ own'[i].count = 0
                              /\ own'[i].complete => inputs' = {}
                              /\ i # Len(own') => own'[i].complete
                        /\ tpc' \in {"chunk", "append"} => seg' > Len(own') /\ \A i \in 1 .. Len(own') : ~own'[i].complete
                        /\ own' # <<>> => seg' = Len(own') \/ (Len(own') = 1 /\ ~orphan'.complete)
      BY <1>4 DEF BlankInv
    <2>1. /\ seg > Len(own) /\ \A i \in 1 .. Len(own) : ~own[i].complete
          /\ \A i \in 1 .. Len(own) :
              /\ own[i].acq = acq /\ own[i].count = 0 /\ (i # Len(own) => own[i].complete)
          /\ own # <<>> => seg = Len(own) \/ (Len(own) = 1 /\ ~orphan.complete)
      BY <1>1, <1>2 DEF BlankInv
    <2> QED BY <1>2, <1>4, <2>1
  <1>11. OwnInv'
    <2> SUFFICES ASSUME ~RestartDue', ~lacking' PROVE Clean' \/ (sampler' = "off" /\ Empty')
      BY DEF OwnInv
    <2>1. ~RestartDue /\ ~lacking
      BY <1>2, <1>4
    <2>2. CASE sampler = "off" /\ Empty
      BY <1>4, <2>2
    <2>3. CASE Clean
      <3>1. /\ Len(own) = seg /\ output + processed = own[seg].count
            /\ \A s \in Sources : s \in Reads => seg <= Len(data[s]) /\ output + todo <= data[s][seg].count
            /\ inputs = {} => output + todo <= SessionCount(seg)
        BY <1>2, <2>3 DEF Clean, OwnChunk, Working
      <3>3. inputs' = {} => inputs = {}
        BY <1>7
      <3>4. OwnChunk'
        BY <1>2, <1>4, <3>1, <3>3 DEF OwnChunk, Working
      <3>6. ASSUME ~(Reads \subseteq inputs), NEW i \in 1 .. Len(own') PROVE OwnSegment(i)'
        <4>1. i \in 1 .. Len(own) /\ own' = own /\ OwnSegment(i) /\ own[i].count = 0
          BY <1>1, <1>2, <2>3, <3>6 DEF Clean, LookInv
        <4>2. compiled.scalars \subseteq inputs /\ inputs \subseteq compiled.scalars \union {compiled.call}
          BY <1>1, <1>2 DEF ThreadInv
        <4>3. compiled.call \in Sources /\ compiled.call \notin inputs
          BY <1>3, <3>6, <4>2, MathAssumption DEF Reads
        <4>4. Self \notin inputs /\ inputs' # {}
          BY <1>2, <1>3, <4>2, <4>3, MathAssumption
        <4>5. ~own[i].complete
          <5> SUFFICES ASSUME own[i].complete PROVE FALSE
            OBVIOUS
          <5>1. HoldsAll(i)
            BY <4>1 DEF OwnSegment
          <5>2. CASE inputs = {}
            <6>1. SessionCount(i) = 0 /\ output + todo <= SessionCount(seg)
              BY <3>1, <4>1, <5>1, <5>2 DEF HoldsAll
            <6>2. seg \in 1 .. Len(counts)
              BY <1>1, <1>3, <6>1 DEF SessionCount, TypeOK, SamplerTypeOK, ThreadTypeOK
            <6>3. i \in 1 .. Len(counts)
              BY <1>1, <3>1, <4>1, <6>2 DEF TypeOK, SamplerTypeOK
            <6> QED BY <1>1, <2>1, <6>1, <6>3 DEF SessionCount, DataInv, RestartDue, TypeOK, SamplerTypeOK
          <5>3. CASE inputs # {}
            <6>1. PICK s \in inputs \ {Self} : Has(s, i) /\ own[i].count = data[s][i].count
              BY <4>4, <5>1, <5>3 DEF HoldsAll
            <6>2. i \in 1 .. Len(data[s]) /\ s \in Sources
              BY <1>1, <4>1, <6>1, OthersAreSources DEF Has
            <6>3. data[s][i].count \in 1 .. MaxSamples
              BY <1>1, <6>2 DEF DataInv
            <6> QED BY <4>1, <6>1, <6>3
          <5> QED BY <5>2, <5>3
        <4> QED BY <1>4, <4>1, <4>4, <4>5 DEF OwnSegment
      <3>7. ASSUME Reads \subseteq inputs PROVE inputs' \ {Self} = inputs \ {Self}
        <4>1. compiled.call \in Sources => compiled.call \in Reads
          BY MathAssumption DEF Reads
        <4>2. FindsSelf => compiled.call = Self
          BY DEF FindsSelf
        <4> QED BY <1>2, <3>7, <4>1, <4>2
      <3>5. ASSUME Reads \subseteq inputs, NEW i \in 1 .. Len(own') PROVE OwnSegment(i)'
        <4>1. i \in 1 .. Len(own) /\ own' = own /\ OwnSegment(i)
          BY <1>2, <2>3 DEF Clean
        <4> DEFINE Same == inputs' \ {Self} = inputs \ {Self}
        <4>3. Same
          BY <3>5, <3>7
        <4>2. HoldsAll(i) => HoldsAll(i)'
          <5>1. \A s \in inputs \ {Self} : Has(s, i)' <=> Has(s, i)
            BY <1>4 DEF Has, SegmentsOf
          <5>2. CASE inputs = {}
            BY <1>4, <4>1, <4>3, <5>2 DEF HoldsAll
          <5>3. CASE inputs # {}
            BY <1>4, <4>1, <4>3, <3>3, <5>1, <5>3 DEF HoldsAll
          <5> QED BY <5>2, <5>3
        <4> QED BY <1>4, <3>3, <4>1, <4>2, <4>3 DEF OwnSegment
      <3> QED BY <3>4, <3>5, <3>6 DEF Clean
    <2> QED BY <1>1, <2>1, <2>2, <2>3 DEF OwnInv
  <1>12. LookInv'
    <2>1. Reads \subseteq inputs'
      <3>1. compiled.scalars \subseteq inputs /\ compiled.call \in Sources \union {Self, NoCall}
        BY <1>1, <1>2, <1>3, MathAssumption DEF ThreadInv
      <3> QED BY <1>2, <3>1 DEF Reads
    <2> QED BY <1>4, <2>1 DEF LookInv
  <1> QED BY <1>4, <1>8, <1>9, <1>10, <1>11, <1>12 DEF IInv, TypeOK

\* A segment of the math signal is replaced.
LEMMA OwnReplaced ==
    ASSUME NEW q \in Seq(Generated), NEW i \in 1 .. Len(q), NEW v \in Generated
    PROVE  LET r == [q EXCEPT ![i] = v] IN
           /\ r \in Seq(Generated) /\ Len(r) = Len(q) /\ r[i] = v
           /\ \A j \in 1 .. Len(q) : j # i => r[j] = q[j]
  OBVIOUS

LEMMA MoreGenerated ==
    ASSUME NEW e \in Generated, NEW n \in Nat
    PROVE  \E v \in Generated :
              /\ v = [e EXCEPT !.count = @ + n] /\ v.count = e.count + n
              /\ v.acq = e.acq /\ v.complete = e.complete
  <1> DEFINE v == [e EXCEPT !.count = @ + n]
  <1>1. v \in Generated /\ v.count = e.count + n /\ v.acq = e.acq /\ v.complete = e.complete
    BY DEF Generated
  <1>2. v = [e EXCEPT !.count = @ + n]
    OBVIOUS
  <1> HIDE DEF v
  <1> QED BY <1>1, <1>2

LEMMA CompleteGenerated ==
    ASSUME NEW e \in Generated
    PROVE  \E v \in Generated :
              v = [e EXCEPT !.complete = TRUE] /\ v.count = e.count /\ v.acq = e.acq /\ v.complete
  <1> DEFINE v == [e EXCEPT !.complete = TRUE]
  <1>1. v \in Generated /\ v.count = e.count /\ v.acq = e.acq /\ v.complete
    BY DEF Generated
  <1>2. v = [e EXCEPT !.complete = TRUE]
    OBVIOUS
  <1> HIDE DEF v
  <1> QED BY <1>1, <1>2

\* Samples are appended to one segment.
LEMMA AppendedTo ==
    ASSUME NEW q \in Seq(Generated), NEW i \in 1 .. Len(q), NEW n \in Nat
    PROVE  LET r == [q EXCEPT ![i].count = @ + n] IN
           /\ r \in Seq(Generated) /\ Len(r) = Len(q)
           /\ r[i].count = q[i].count + n /\ r[i].acq = q[i].acq /\ r[i].complete = q[i].complete
           /\ \A j \in 1 .. Len(q) : j # i => r[j] = q[j]
  <1> DEFINE e == q[i]
  <1>1. e \in Generated
    BY GeneratedType
  <1> HIDE DEF e
  <1>2. PICK v \in Generated :
           /\ v = [e EXCEPT !.count = @ + n] /\ v.count = e.count + n
           /\ v.acq = e.acq /\ v.complete = e.complete
    BY <1>1, MoreGenerated
  <1>3. [q EXCEPT ![i].count = @ + n] = [q EXCEPT ![i] = v]
    BY <1>2 DEF e
  <1> QED BY <1>2, <1>3, OwnReplaced DEF e

LEMMA CompletedAt ==
    ASSUME NEW q \in Seq(Generated), NEW i \in 1 .. Len(q)
    PROVE  LET r == [q EXCEPT ![i].complete = TRUE] IN
           /\ r \in Seq(Generated) /\ Len(r) = Len(q)
           /\ r[i].count = q[i].count /\ r[i].acq = q[i].acq /\ r[i].complete
           /\ \A j \in 1 .. Len(q) : j # i => r[j] = q[j]
  <1> DEFINE e == q[i]
  <1>1. e \in Generated
    BY GeneratedType
  <1> HIDE DEF e
  <1>2. PICK v \in Generated :
           v = [e EXCEPT !.complete = TRUE] /\ v.count = e.count /\ v.acq = e.acq /\ v.complete
    BY <1>1, CompleteGenerated
  <1>3. [q EXCEPT ![i].complete = TRUE] = [q EXCEPT ![i] = v]
    BY <1>2 DEF e
  <1> QED BY <1>2, <1>3, OwnReplaced DEF e

\* A chunk is appended: of samples that all inputs have.
LEMMA StepAppend == ASSUME IInv, AppendChunk PROVE IInv'
  <1>1. TypeOK /\ DataInv /\ ThreadInv /\ LookInv /\ BlankInv /\ OwnInv
    BY DEF IInv
  <1>2. /\ tpc = "append" /\ UNCHANGED ThreadStays /\ processed' = processed + part
        /\ tpc' \in {"crashed", "chunk", "complete"} /\ (tpc' = "chunk" => processed' < todo)
        /\ UNCHANGED <<inputs, chunk, seg, output, todo, part, missed, lacking>>
    BY DEF AppendChunk
  <1>3. /\ todo \in Nat /\ processed \in Nat /\ output \in Nat /\ part \in Nat
        /\ processed < todo /\ processed + part <= todo
        /\ own \in Seq(Generated) /\ orphan \in Generated /\ seg \in Nat \ {0} /\ events \in Seq(Signals)
    BY <1>1, <1>2 DEF TypeOK, SamplerTypeOK, ThreadTypeOK, ThreadInv
  <1>4. events' \in Seq(Signals) /\ \A i \in 1 .. Len(events) : i \in 1 .. Len(events') /\ events'[i] = events[i]
    <2>1. events' = events \/ events' = Append(events, "data")
      BY DEF AppendChunk
    <2>2. "data" \in Signals
      BY DEF Signals
    <2>3. CASE events' = events
      BY <1>3, <2>3
    <2>4. CASE events' = Append(events, "data")
      <3>1. /\ Append(events, "data") \in Seq(Signals)
            /\ \A i \in 1 .. Len(events) :
                  i \in 1 .. Len(Append(events, "data")) /\ Append(events, "data")[i] = events[i]
        BY <1>3, <2>2, QueueOne
      <3> QED BY <2>4, <3>1
    <2> QED BY <2>1, <2>3, <2>4
  <1>5. /\ UNCHANGED <<data, acq, counts, sampler, state>> /\ UNCHANGED <<compiled, gpc, interrupt, deaf>>
        /\ SamplerTypeOK' /\ GuiTypeOK' /\ DataInv' /\ (Empty' <=> Empty)
        /\ Reads' = Reads /\ \A i : SessionCount(i)' = SessionCount(i)
    BY <1>1, <1>2, <1>4, ThreadFrame
  <1>6. ~RestartDue' => ~RestartDue
    <2>1. (\E i \in DOMAIN events : events[i] = "running") => \E i \in DOMAIN events' : events'[i] = "running"
      BY <1>3, <1>4
    <2> QED BY <1>5, <2>1 DEF RestartDue
  <1>7. ThreadInv'
    BY <1>1, <1>2, <1>3, <1>5 DEF ThreadInv, Rating
  <1>10. Reads \subseteq inputs /\ Reads' = Reads /\ inputs' = inputs
    BY <1>1, <1>2, <1>5 DEF LookInv
  <1>11. LookInv'
    BY <1>10 DEF LookInv
  <1>8. CASE seg <= Len(own)
    <2>1. seg \in 1 .. Len(own) /\ own' = [own EXCEPT ![seg].count = @ + part] /\ orphan' = orphan
      BY <1>3, <1>8 DEF AppendChunk
    <2>2. /\ own' \in Seq(Generated) /\ Len(own') = Len(own)
          /\ own'[seg].count = own[seg].count + part /\ own'[seg].acq = own[seg].acq
          /\ own'[seg].complete = own[seg].complete
          /\ \A j \in 1 .. Len(own) : j # seg => own'[j] = own[j]
      BY <1>3, <2>1, AppendedTo
    <2>3. ThreadTypeOK'
      <3>1. processed' \in Nat /\ tpc' \in Rating \union Working \union Over
        BY <1>2, <1>3 DEF Working, Over
      <3> QED BY <1>1, <1>2, <1>5, <2>1, <2>2, <3>1 DEF TypeOK, ThreadTypeOK
    <2>4. BlankInv'
      <3>1. ~(sampler # "starting" /\ Empty)
        BY <1>1, <1>2, <1>3, <1>8 DEF BlankInv
      <3> QED BY <1>5, <3>1 DEF BlankInv
    <2>5. OwnInv'
      <3> SUFFICES ASSUME ~RestartDue', ~lacking' PROVE Clean' \/ (sampler' = "off" /\ Empty')
        BY DEF OwnInv
      <3>1. ~RestartDue /\ ~lacking
        BY <1>2, <1>6
      <3>2. CASE sampler = "off" /\ Empty
        BY <1>5, <3>2
      <3>3. CASE Clean
        <4>7. /\ Len(own) = seg /\ output + processed = own[seg].count
              /\ \A s \in Sources : s \in Reads => seg <= Len(data[s]) /\ output + todo <= data[s][seg].count
              /\ inputs = {} => output + todo <= SessionCount(seg)
              /\ \A i \in 1 .. Len(own) : OwnSegment(i)
          BY <1>2, <3>3 DEF Clean, OwnChunk, Working
        <4>1. /\ Len(own) = seg /\ output + processed = own[seg].count
              /\ \A s \in Sources : s \in Reads => seg <= Len(data[s]) /\ output + todo <= data[s][seg].count
              /\ \A s \in inputs \ {Self} : seg <= Len(data[s]) /\ output + todo <= data[s][seg].count
              /\ inputs = {} => output + todo <= SessionCount(seg)
              /\ \A i \in 1 .. Len(own) : OwnSegment(i)
          BY <1>1, <1>2, <4>7, InputsAreRead, OthersAreSources
        <4>2. own'[seg].count = output + processed' /\ own'[seg].count <= output + todo
              /\ own[seg].count < output + todo /\ own[seg].count \in Nat
          BY <1>2, <1>3, <2>2, <4>1
        <4>3. OwnChunk'
          <5>1. processed' \in Nat
            BY <1>2, <1>3
          <5>4. \A m, n \in Nat : m <= m + n
            OBVIOUS
          <5>2. output <= output + processed'
            BY <1>3, <5>1, <5>4, Zenon
          <5>3. output' <= own'[seg].count
            BY <1>2, <4>2, <5>2
          <5> QED BY <1>2, <1>5, <2>2, <4>1, <4>2, <5>3 DEF OwnChunk
        <4>4. ASSUME NEW i \in 1 .. Len(own'), i # seg PROVE OwnSegment(i)'
          <5>1. i \in 1 .. Len(own) /\ own'[i] = own[i] /\ Len(own') >= Len(own) /\ OwnSegment(i)
                /\ i # Len(own)
            BY <1>3, <2>2, <4>1, <4>4
          <5> QED BY <1>2, <1>5, <5>1, SegmentStays
        <4>5. OwnSegment(seg)'
          <5>1. OwnSegment(seg) /\ \A s \in inputs \ {Self} : data[s][seg].count \in Nat
            <6>1. ASSUME NEW s \in inputs \ {Self} PROVE data[s][seg].count \in Nat
              <7>1. seg \in 1 .. Len(data[s]) /\ data[s] \in Seq(Sampled)
                BY <1>1, <1>3, <4>1, OthersAreSources
              <7> QED BY <7>1, SampledType
            <6> QED BY <2>1, <4>1, <6>1
          <5>2. SessionCount(seg) \in Nat
            BY <1>1, <1>3 DEF SessionCount, TypeOK, SamplerTypeOK
          <5>3. \A s \in inputs \ {Self} : seg <= Len(data[s]) /\ own'[seg].count <= data[s][seg].count
                   /\ own[seg].count < data[s][seg].count
            BY <1>3, <2>2, <4>1, <4>2, <5>1
          <5>4. inputs = {} => own'[seg].count <= SessionCount(seg) /\ own[seg].count < SessionCount(seg)
            BY <1>3, <2>2, <4>1, <4>2, <5>2
          <5>5. own[seg].complete => HoldsAll(seg)'
            <6> SUFFICES ASSUME own[seg].complete PROVE HoldsAll(seg)'
              OBVIOUS
            <6>1. HoldsAll(seg)
              BY <5>1 DEF OwnSegment
            <6>2. inputs # {}
              BY <4>2, <5>2, <5>4, <6>1 DEF HoldsAll
            <6>3. inputs \ {Self} = {}
              BY <4>2, <5>1, <5>3, <6>1, <6>2 DEF HoldsAll
            <6> QED BY <1>2, <6>2, <6>3 DEF HoldsAll
          <5>6. inputs = {} => own'[seg].count <= SessionCount(seg) /\ (own'[seg].complete => sampler = "off")
            BY <2>2, <5>1, <5>4 DEF OwnSegment
          <5>7. own'[seg].acq = acq
            BY <2>2, <5>1 DEF OwnSegment
          <5> QED BY <1>2, <1>5, <2>2, <4>1, <5>3, <5>5, <5>6, <5>7 DEF OwnSegment
        <4>6. ASSUME NEW i \in 1 .. Len(own') PROVE OwnSegment(i)'
          <5>1. CASE i = seg
            BY <1>2, <4>5, <5>1
          <5> QED BY <4>4, <5>1
        <4> QED BY <4>3, <4>6 DEF Clean
      <3> QED BY <1>1, <3>1, <3>2, <3>3 DEF OwnInv
    <2> QED BY <1>5, <1>7, <1>11, <2>3, <2>4, <2>5 DEF IInv, TypeOK
  <1>9. CASE ~(seg <= Len(own))
    <2>1. own' = own /\ orphan' = [orphan EXCEPT !.count = @ + part]
      BY <1>9 DEF AppendChunk
    <2>2. orphan' \in Generated /\ orphan'.complete = orphan.complete
      BY <1>3, <2>1, MoreGenerated
    <2>3. ThreadTypeOK'
      <3>1. processed' \in Nat /\ tpc' \in Rating \union Working \union Over
        BY <1>2, <1>3 DEF Working, Over
      <3> QED BY <1>1, <1>2, <1>5, <2>1, <2>2, <3>1 DEF TypeOK, ThreadTypeOK
    <2>4. BlankInv'
      BY <1>1, <1>2, <1>5, <2>1, <2>2 DEF BlankInv
    <2>5. OwnInv'
      <3> SUFFICES ASSUME ~RestartDue', ~lacking' PROVE Clean' \/ (sampler' = "off" /\ Empty')
        BY DEF OwnInv
      <3>1. ~RestartDue /\ ~lacking
        BY <1>2, <1>6
      <3>2. ~Clean
        BY <1>2, <1>3, <1>9 DEF Clean, OwnChunk, Working
      <3> QED BY <1>1, <1>5, <3>1, <3>2 DEF OwnInv
    <2> QED BY <1>5, <1>7, <1>11, <2>3, <2>4, <2>5 DEF IInv, TypeOK
  <1> QED BY <1>8, <1>9

\* A segment is completed: it has all samples of its inputs.
LEMMA StepComplete == ASSUME IInv, UpdateCompleteness PROVE IInv'
  <1>1. TypeOK /\ DataInv /\ ThreadInv /\ LookInv /\ BlankInv /\ OwnInv
    BY DEF IInv
  <1>2. /\ tpc = "complete" /\ UNCHANGED ThreadStays /\ tpc' \in {"next", "crashed"}
        /\ UNCHANGED <<events, inputs, chunk, orphan, seg, output, todo, processed, part, missed, lacking>>
    BY DEF UpdateCompleteness, localVars
  <1>3. /\ output \in Nat /\ own \in Seq(Generated) /\ seg \in Nat \ {0}
    BY <1>1 DEF TypeOK, ThreadTypeOK
  <1>4. /\ UNCHANGED <<data, acq, counts, sampler, state>> /\ UNCHANGED <<compiled, gpc, interrupt, deaf>>
        /\ SamplerTypeOK' /\ GuiTypeOK' /\ DataInv' /\ (Empty' <=> Empty) /\ (RestartDue' <=> RestartDue)
        /\ \A i : SessionCount(i)' = SessionCount(i)
    BY <1>1, <1>2, ThreadFrame DEF TypeOK, SamplerTypeOK
  <1>5. ThreadInv'
    BY <1>1, <1>2, <1>4 DEF ThreadInv, Rating
  <1>6. CASE own' = own
    <2>1. ThreadTypeOK'
      BY <1>1, <1>2, <1>4, <1>6 DEF TypeOK, ThreadTypeOK, Working, Over
    <2>2. BlankInv'
      BY <1>1, <1>2, <1>4, <1>6, BlankStays
    <2>3. Clean => Clean'
      BY <1>2, <1>4, <1>6, CleanStays DEF Working
    <2>4. LookInv'
      BY <1>1, <1>2, <1>4, <1>6, LookStays
    <2> QED BY <1>1, <1>2, <1>4, <1>5, <2>1, <2>2, <2>3, <2>4 DEF IInv, TypeOK, OwnInv
  <1>7. CASE own' # own
    <2>1. IsComplete /\ seg \in 1 .. Len(own) /\ tpc' = "next" /\ own' = [own EXCEPT ![seg].complete = TRUE]
      BY <1>3, <1>7 DEF UpdateCompleteness
    <2>2. /\ own' \in Seq(Generated) /\ Len(own') = Len(own)
          /\ own'[seg].count = own[seg].count /\ own'[seg].acq = own[seg].acq /\ own'[seg].complete
          /\ \A j \in 1 .. Len(own) : j # seg => own'[j] = own[j]
      BY <1>3, <2>1, CompletedAt
    <2>3. ThreadTypeOK'
      BY <1>1, <1>2, <1>4, <2>1, <2>2 DEF TypeOK, ThreadTypeOK, Working
    <2>4. BlankInv'
      <3> SUFFICES ASSUME sampler # "starting", Empty
                   PROVE  /\ \A i \in 1 .. Len(own') :
                                /\ own'[i].acq = acq /\ own'[i].count = 0
                                /\ own'[i].complete => inputs = {}
                                /\ i # Len(own') => own'[i].complete
                          /\ own' # <<>> => seg = Len(own') \/ (Len(own') = 1 /\ ~orphan.complete)
        BY <1>2, <1>4, <2>1 DEF BlankInv
      <3>1. /\ \A i \in 1 .. Len(own) :
                /\ own[i].acq = acq /\ own[i].count = 0
                /\ own[i].complete => inputs = {}
                /\ i # Len(own) => own[i].complete
            /\ own # <<>> => seg = Len(own) \/ (Len(own) = 1 /\ ~orphan.complete)
        BY <1>1 DEF BlankInv
      <3>2. inputs = {}
        <4> SUFFICES ASSUME NEW s \in inputs PROVE FALSE
          OBVIOUS
        <4>1. Has(s, seg) /\ SegmentsOf(s)[seg].complete
          BY <2>1 DEF IsComplete
        <4>2. CASE s = Self
          BY <2>1, <3>1, <4>1, <4>2 DEF SegmentsOf
        <4>3. CASE s # Self
          <5>1. data[s] = <<>> /\ seg <= Len(data[s])
            BY <1>1, <4>1, <4>3, OthersAreSources DEF Empty, Has
          <5> QED BY <1>3, <5>1
        <4> QED BY <4>2, <4>3
      <3>3. own # <<>>
        BY <1>3, <2>1
      <3> QED BY <2>1, <2>2, <3>1, <3>2, <3>3
    <2>5. OwnInv'
      <3> SUFFICES ASSUME ~RestartDue', ~lacking' PROVE Clean' \/ (sampler' = "off" /\ Empty')
        BY DEF OwnInv
      <3>1. ~RestartDue /\ ~lacking
        BY <1>2, <1>4
      <3>2. CASE sampler = "off" /\ Empty
        BY <1>4, <3>2
      <3>3. CASE Clean
        <4>1. Len(own) = seg /\ output <= own[seg].count /\ \A i \in 1 .. Len(own) : OwnSegment(i)
          BY <1>2, <3>3 DEF Clean, OwnChunk, Working
        <4>2. OwnChunk'
          BY <1>2, <2>1, <2>2, <4>1 DEF OwnChunk
        <4>3. ASSUME NEW i \in 1 .. Len(own'), i # seg PROVE OwnSegment(i)'
          <5>1. i \in 1 .. Len(own) /\ own'[i] = own[i] /\ Len(own') >= Len(own) /\ OwnSegment(i) /\ i # Len(own)
            BY <1>3, <2>2, <4>1, <4>3
          <5> QED BY <1>2, <1>4, <5>1, SegmentStays
        <4>4. OwnSegment(seg)'
          <5>1. OwnSegment(seg) /\ own[seg].count \in Nat /\ SessionCount(seg) \in Nat
            <6>1. OwnSegment(seg)
              BY <2>1, <4>1
            <6>2. own[seg].count \in Nat
              BY <1>3, <2>1, GeneratedType
            <6>3. SessionCount(seg) \in Nat
              BY <1>1, <1>3 DEF SessionCount, TypeOK, SamplerTypeOK
            <6> QED BY <6>1, <6>2, <6>3
          <5>2. ASSUME inputs = {} PROVE own[seg].count = SessionCount(seg) /\ sampler = "off"
            <6>1. state = "Stopped" /\ output >= SessionCount(seg)
              BY <2>1, <5>2 DEF IsComplete
            <6>2. sampler = "off"
              BY <1>1, <3>1, <6>1 DEF DataInv, RestartDue
            <6>3. own[seg].count <= SessionCount(seg)
              BY <5>1, <5>2 DEF OwnSegment
            <6> QED BY <1>3, <4>1, <5>1, <6>1, <6>2, <6>3
          <5>3. ASSUME NEW s \in inputs \ {Self}
                PROVE  Has(s, seg) /\ data[s][seg].complete /\ own[seg].count = data[s][seg].count
            <6>1. /\ s \in Sources /\ data[s] \in Seq(Sampled)
                  /\ Has(s, seg) /\ data[s][seg].complete /\ output >= data[s][seg].count
              BY <1>1, <2>1, OthersAreSources DEF IsComplete
            <6>2. seg \in 1 .. Len(data[s])
              BY <1>1, <1>3, <6>1, OthersAreSources DEF Has
            <6>3. data[s][seg].count \in Nat
              BY <6>1, <6>2, SampledType
            <6>4. own[seg].count > 0 => own[seg].count <= data[s][seg].count
              BY <5>1 DEF OwnSegment
            <6> QED BY <1>3, <4>1, <5>1, <6>1, <6>3, <6>4
          <5>4. HoldsAll(seg)'
            <6>1. CASE inputs = {}
              BY <1>2, <1>4, <2>2, <5>2, <6>1 DEF HoldsAll
            <6>2. CASE inputs # {}
              <7>1. \A s \in inputs \ {Self} : Has(s, seg)' <=> Has(s, seg)
                BY <1>2, <1>4 DEF Has, SegmentsOf
              <7> QED BY <1>2, <1>4, <2>2, <5>3, <6>2, <7>1 DEF HoldsAll
            <6> QED BY <6>1, <6>2
          <5> QED BY <1>2, <1>4, <2>2, <5>1, <5>2, <5>4 DEF OwnSegment
        <4>5. ASSUME NEW i \in 1 .. Len(own') PROVE OwnSegment(i)'
          <5>1. CASE i = seg
            BY <1>2, <4>4, <5>1
          <5> QED BY <4>3, <5>1
        <4> QED BY <4>2, <4>5 DEF Clean
      <3> QED BY <1>1, <3>1, <3>2, <3>3 DEF OwnInv
    <2>6. LookInv'
      <3>1. Reads' = Reads
        BY <1>4 DEF Reads
      <3> QED BY <1>1, <1>2, <2>1, <2>2, <3>1 DEF LookInv
    <2> QED BY <1>4, <1>5, <2>3, <2>4, <2>5, <2>6 DEF IInv, TypeOK
  <1> QED BY <1>6, <1>7

\* The thread is at work on the last segment; those before are complete.
Ordered ==
    /\ tpc \in Working => Len(own) = seg
    /\ \A i \in 1 .. Len(own) : own[i].acq = acq /\ (i # Len(own) => own[i].complete)

OrderInv == ~RestartDue => Ordered \/ (sampler = "off" /\ Empty)

\* The segments are in order as long as no restart is due.
LEMMA StepOrder == ASSUME IInv, OrderInv, [MathNext]_mathVars PROVE OrderInv'
  <1> SUFFICES ASSUME ~RestartDue', ~(sampler' = "off" /\ Empty') PROVE Ordered'
    BY DEF OrderInv
  <1>1. TypeOK /\ DataInv /\ ThreadInv /\ own \in Seq(Generated) /\ seg \in Nat \ {0} /\ events \in Seq(Signals)
    BY DEF IInv, TypeOK, ThreadTypeOK, SamplerTypeOK
  <1>2. CASE SamplerStep
    <2>1. ~RestartDue /\ sampler # "off" /\ UNCHANGED <<acq, own, MathStays>>
      BY <1>2, SamplerQuiet
    <2>2. UNCHANGED <<acq, own, tpc, seg>>
      BY <2>1 DEF MathStays, localVars
    <2> QED BY <2>1, <2>2 DEF OrderInv, Ordered
  <1>3. CASE StartCapture \/ EditStep
    BY <1>3 DEF StartCapture, EditStep, Destroy, SetExpression, ResetGeneration, RestartDue
  <1>4. CASE Restart
    <2>1. tpc' \notin Working /\ own' = <<>> /\ Len(own') = 0
      BY <1>4 DEF Restart, Working
    <2> QED BY <2>1 DEF Ordered
  <1>5. CASE Deliver
    <2>1. /\ gpc = "idle" /\ events # <<>> /\ events' = Tail(events)
          /\ Head(events) = events[1] /\ Head(events) \in Signals
          /\ \A i \in 1 .. Len(events') : events'[i] = events[i + 1] /\ Len(events') = Len(events) - 1
      BY <1>1, <1>5 DEF Deliver
    <2>2. Head(events) # "running"
      BY <1>5 DEF Deliver, NotifiesThread, ResetGeneration, RestartDue
    <2>3. NotifyData /\ UNCHANGED <<samplerVars, own, seg, gpc>>
      BY <1>5, <2>1, <2>2 DEF Deliver, NotifiesThread, Signals, localVars
    <2>4. UNCHANGED <<data, acq, sampler, state>> /\ tpc' = Woken
      BY <2>3 DEF NotifyData, samplerVars
    <2>5. ~RestartDue
      <3>1. ASSUME NEW i \in DOMAIN events, events[i] = "running" PROVE FALSE
        <4>1. i \in 1 .. Len(events) /\ i # 1
          BY <1>1, <2>1, <2>2, <3>1
        <4>2. events' \in Seq(Signals) /\ Len(events') = Len(events) - 1
          BY <1>1, <2>1
        <4>3. i - 1 \in DOMAIN events' /\ events'[i - 1] = events[i]
          BY <2>1, <4>1, <4>2
        <4> QED BY <3>1, <4>3 DEF RestartDue
      <3> QED BY <2>3, <2>4, <3>1 DEF RestartDue
    <2>6. Ordered
      BY <2>4, <2>5 DEF OrderInv, Empty
    <2>7. tpc' \in Working => tpc \in Working
      BY <2>4 DEF Woken, Working
    <2> QED BY <2>3, <2>4, <2>6, <2>7 DEF Ordered
  <1>6. ASSUME \/ GenerationThread \/ WakesUp \/ UNCHANGED mathVars PROVE Ordered'
    <2>1. /\ UNCHANGED <<data, sampler, state, gpc, acq, counts, inputs>> \/ StartChunk
          /\ UNCHANGED <<data, sampler, state, gpc, acq, counts>>
          /\ AppendChunk \/ UNCHANGED events
      BY <1>6 DEF GenerationThread, AwaitRate, Waits, Begin, Count, Interrupted, StartChunk, AppendChunk,
                  UpdateCompleteness, NextSegment, WakesUp, ThreadStays, samplerVars, guiVars, mathVars
    <2>2. ~RestartDue
      <3>1. CASE UNCHANGED events
        BY <2>1, <3>1 DEF RestartDue
      <3>2. CASE AppendChunk
        <4>1. events' \in {events, Append(events, "data")}
          BY <3>2 DEF AppendChunk
        <4>2. \A i \in DOMAIN events : i \in DOMAIN events' /\ events'[i] = events[i]
          BY <1>1, <4>1
        <4> QED BY <2>1, <4>2 DEF RestartDue
      <3> QED BY <2>1, <3>1, <3>2
    <2>3. Ordered
      BY <2>1, <2>2 DEF OrderInv, Empty
    <2>4. CASE AwaitRate \/ Waits \/ Interrupted \/ WakesUp \/ Count \/ StartChunk \/ UNCHANGED mathVars
      <3>1. UNCHANGED <<own, seg>> /\ (tpc' \in Working => tpc \in Working)
        BY <2>4 DEF AwaitRate, Waits, Count, Interrupted, StartChunk, WakesUp, Woken, Working, localVars, mathVars
      <3> QED BY <2>1, <2>3, <3>1 DEF Ordered
    <2>5. CASE Begin
      <3>1. own = <<>> /\ seg = 1 /\ own' = Append(own, NewOwn) /\ seg' = seg
        BY <1>1, <2>5 DEF Begin, ThreadInv, Rating, localVars
      <3>2. Len(own') = 1 /\ own'[1].acq = acq
        BY <3>1 DEF NewOwn
      <3> QED BY <2>1, <3>1, <3>2 DEF Ordered
    <2>6. CASE AppendChunk \/ UpdateCompleteness
      <3>1. seg' = seg /\ tpc \in Working
        BY <2>6 DEF AppendChunk, UpdateCompleteness, localVars, Working
      <3>2. Len(own) = seg /\ seg \in 1 .. Len(own) /\ part \in Nat
        BY <1>1, <2>3, <3>1 DEF Ordered, TypeOK, ThreadTypeOK
      <3>3. \/ own' = own \/ own' = [own EXCEPT ![seg].count = @ + part]
            \/ own' = [own EXCEPT ![seg].complete = TRUE]
        BY <2>6, <3>2 DEF AppendChunk, UpdateCompleteness
      <3>4. /\ Len(own') = Len(own) /\ own'[seg].acq = own[seg].acq
            /\ \A i \in 1 .. Len(own) : i # seg => own'[i] = own[i]
        <4>1. own \in Seq(Generated) /\ seg \in 1 .. Len(own) /\ part \in Nat
          BY <1>1, <3>2
        <4>2. CASE own' = own
          BY <4>2
        <4>3. CASE own' = [own EXCEPT ![seg].count = @ + part]
          BY <4>1, <4>3, AppendedTo
        <4>4. CASE own' = [own EXCEPT ![seg].complete = TRUE]
          BY <4>1, <4>4, CompletedAt
        <4> QED BY <3>3, <4>2, <4>3, <4>4
      <3> QED BY <2>1, <2>3, <3>1, <3>2, <3>4 DEF Ordered
    <2>7. CASE NextSegment
      <3>1. tpc \in Working
        BY <2>7 DEF NextSegment, Working
      <3>2. Len(own) = seg
        BY <2>3, <3>1 DEF Ordered
      <3>3. CASE UNCHANGED <<own, seg>>
        BY <2>1, <2>3, <3>1, <3>3 DEF Ordered
      <3>4. CASE ~UNCHANGED <<own, seg>>
        <4>1. Output.complete /\ seg' = seg + 1 /\ own' = Append(own, NewOwn)
          BY <2>7, <3>4 DEF NextSegment, MovesOn
        <4>2. own[seg].complete
          BY <3>2, <1>1, <4>1 DEF Output
        <4>3. /\ Len(own') = Len(own) + 1 /\ \A i \in 1 .. Len(own) : own'[i] = own[i]
              /\ own'[Len(own) + 1] = NewOwn
          BY <1>1, <4>1
        <4>4. \A i \in 1 .. Len(own) : own[i].complete /\ own[i].acq = acq
          BY <2>3, <3>2, <4>2 DEF Ordered
        <4>5. NewOwn.acq = acq
          BY DEF NewOwn
        <4>6. \A i \in 1 .. Len(own') : i \in 1 .. Len(own) \/ i = Len(own) + 1
          BY <1>1, <4>3
        <4> QED BY <1>1, <2>1, <3>2, <4>1, <4>3, <4>4, <4>5, <4>6 DEF Ordered
      <3> QED BY <3>3, <3>4
    <2> QED BY <1>6, <2>4, <2>5, <2>6, <2>7 DEF GenerationThread
  <1> QED BY <1>2, <1>3, <1>4, <1>5, <1>6 DEF MathNext, GuiStep

-----------------------------------------------------------------------------
(* The results                                                             *)

LEMMA InitIInv == ASSUME MathInit PROVE IInv
  <1> USE DEF MathInit
  <1>1. data \in [Sources -> Seq(Sampled)] /\ counts \in Seq(Nat) /\ events \in Seq(Signals) /\ own \in Seq(Generated)
    BY EmptySeq
  <1>2. Len(own) = 0 /\ Len(counts) = 0 /\ Len(events) = 0 /\ DOMAIN events = {}
    OBVIOUS
  <1>3. \A s \in Sources : data[s] = <<>> /\ Len(data[s]) = 0
    OBVIOUS
  <1>4. SamplerTypeOK
    BY <1>1 DEF SamplerTypeOK
  <1>5. GuiTypeOK
    BY DEF GuiTypeOK
  <1>6. orphan \in Generated
    BY DEF NoSegment, Generated
  <1>7. ThreadTypeOK
    <2>1. inputs \subseteq Sources \union {Self} /\ chunk \in Nat \ {0}
      BY MathAssumption
    <2>2. tpc \in Rating \union Working \union Over
      BY DEF Over
    <2>3. seg \in Nat \ {0} /\ output \in Nat /\ todo \in Nat /\ processed \in Nat /\ part \in Nat
      OBVIOUS
    <2>4. missed \in BOOLEAN /\ lacking \in BOOLEAN /\ deaf \in BOOLEAN
      OBVIOUS
    <2> QED BY <1>1, <1>6, <2>1, <2>2, <2>3, <2>4 DEF ThreadTypeOK
  <1>8. DataInv
    BY <1>2, <1>3 DEF DataInv, Empty
  <1>9. ThreadInv
    BY DEF ThreadInv, Rating
  <1>10. BlankInv
    BY <1>2 DEF BlankInv
  <1>11. OwnInv
    BY <1>2, <1>3 DEF OwnInv, Empty
  <1>12. LookInv
    BY <1>2 DEF LookInv
  <1> QED BY <1>4, <1>5, <1>7, <1>8, <1>9, <1>10, <1>11, <1>12 DEF IInv, TypeOK

LEMMA StepIInv == ASSUME IInv, [MathNext]_mathVars PROVE IInv'
  <1>1. CASE MathNext
    <2>1. CASE SamplerStep
      BY <2>1, StepSampler
    <2>2. CASE StartCapture
      BY <2>2, StepStartCapture
    <2>3. CASE GuiStep
      BY <2>3, StepRestart, StepDeliver DEF GuiStep
    <2>4. CASE EditStep
      BY <2>4, StepEdit
    <2>5. CASE GenerationThread
      BY <2>5, StepMoves, StepBegin, StepCount, StepStartChunk, StepAppend, StepComplete, StepNext DEF GenerationThread
    <2>6. CASE WakesUp
      BY <2>6, StepMoves
    <2> QED BY <1>1, <2>1, <2>2, <2>3, <2>4, <2>5, <2>6 DEF MathNext
  <1>2. CASE UNCHANGED mathVars
    <2>1. /\ UNCHANGED <<data, acq, current, highest, counts, rate, sampler, state, events>>
          /\ UNCHANGED <<expr, compiled, gpc, goal, edits, interrupt, inputs, chunk, own, tpc>>
          /\ UNCHANGED <<seg, output, todo, processed, part, orphan, missed, lacking, deaf>>
          /\ UNCHANGED samplerVars
      BY <1>2 DEF mathVars, samplerVars, guiVars, localVars
    <2>2. TypeOK /\ DataInv /\ ThreadInv /\ LookInv /\ BlankInv /\ OwnInv
      BY DEF IInv
    <2>3. SamplerTypeOK' /\ DataInv' /\ (Empty' <=> Empty)
      BY <2>1, <2>2, DataStays DEF TypeOK, SamplerTypeOK
    <2>4. TypeOK'
      BY <2>1, <2>2, <2>3 DEF TypeOK, GuiTypeOK, ThreadTypeOK
    <2>5. ThreadInv'
      BY <2>1, <2>2 DEF ThreadInv
    <2>6. BlankInv'
      BY <2>1, <2>2, <2>3, BlankStays
    <2>7. RestartDue' <=> RestartDue
      BY <2>1 DEF RestartDue
    <2>8. Clean => Clean'
      BY <2>1, CleanStays
    <2>9. LookInv'
      BY <2>1, <2>2, LookStays
    <2> QED BY <2>1, <2>2, <2>3, <2>4, <2>5, <2>6, <2>7, <2>8, <2>9 DEF IInv, OwnInv
  <1> QED BY <1>1, <1>2

\* The inductive invariant, and with it the types.
THEOREM MathInvariant == MathSpec => []IInv
  <1> QED BY InitIInv, StepIInv, PTL DEF MathSpec

\* The order of the segments.
THEOREM OrderInvariant == MathSpec => []OrderInv
  <1>1. ASSUME MathInit PROVE OrderInv
    <2>1. Len(own) = 0 /\ tpc = "none"
      BY <1>1 DEF MathInit
    <2> QED BY <2>1 DEF OrderInv, Ordered, Working
  <1>2. MathInit => OrderInv
    BY <1>1
  <1> QED BY <1>2, StepOrder, MathInvariant, PTL DEF MathSpec

\* Whatever the inputs, the session and the user do meanwhile: what has been generated is
\* of the acquisition there is; and unless more was counted than a signal had that sample()
\* had not looked up or that had not begun the segment, it is no longer than what it was
\* computed from, and a complete segment holds everything.
THEOREM ReceivedGenerated == MathSpec => []GeneratesFromReceived
  <1>3. ASSUME IInv, OrderInv, ~RestartDue, NEW i \in DOMAIN own PROVE own[i].acq = acq
    <2>1. i \in 1 .. Len(own) /\ DataInv /\ BlankInv
      BY <1>3 DEF IInv, TypeOK, ThreadTypeOK
    <2> QED BY <1>3, <2>1 DEF OrderInv, Ordered, BlankInv
  <1>1. ASSUME IInv, OrderInv PROVE GeneratesFromReceived
    <2> SUFFICES ASSUME ~RestartDue, ~lacking, NEW i \in DOMAIN own
                 PROVE  /\ \A s \in inputs \ {Self} : Has(s, i) => own[i].count <= data[s][i].count
                        /\ own[i].complete => HoldsAll(i)
      BY <1>1, <1>3 DEF GeneratesFromReceived
    <2>1. TypeOK /\ DataInv /\ BlankInv /\ (Clean \/ (sampler = "off" /\ Empty))
      BY <1>1 DEF IInv, OwnInv
    <2>2. i \in 1 .. Len(own) /\ own[i].count \in Nat /\ i \in Nat \ {0}
      <3>1. own \in Seq(Generated)
        BY <2>1 DEF TypeOK, ThreadTypeOK
      <3> QED BY <3>1, GeneratedType
    <2>3. CASE Clean
      <3>1. OwnSegment(i)
        BY <2>2, <2>3 DEF Clean
      <3>2. ASSUME NEW s \in inputs \ {Self}, Has(s, i) PROVE own[i].count <= data[s][i].count
        <4>1. i \in 1 .. Len(data[s]) /\ data[s] \in Seq(Sampled)
          BY <2>1, <2>2, <3>2, OthersAreSources DEF Has
        <4>2. data[s][i].count \in Nat
          BY <4>1, SampledType
        <4>3. own[i].count > 0 => own[i].count <= data[s][i].count
          BY <3>1 DEF OwnSegment
        <4> QED BY <2>2, <4>2, <4>3
      <3> QED BY <3>1, <3>2 DEF OwnSegment
    <2>4. CASE sampler = "off" /\ Empty
      <3>1. own[i].acq = acq /\ own[i].count = 0 /\ (own[i].complete => inputs = {})
        BY <2>1, <2>2, <2>4 DEF BlankInv
      <3>2. ASSUME NEW s \in inputs \ {Self} PROVE ~Has(s, i)
        <4>1. SegmentsOf(s) = <<>>
          BY <2>1, <2>4, OthersAreSources DEF Empty
        <4> QED BY <2>2, <4>1 DEF Has
      <3>3. SessionCount(i) = 0
        BY <2>1, <2>2, <2>4 DEF DataInv, SessionCount
      <3> QED BY <3>1, <3>2, <3>3 DEF HoldsAll
    <2> QED BY <2>1, <2>3, <2>4
  <1>2. IInv /\ OrderInv => GeneratesFromReceived
    BY <1>1
  <1> QED BY <1>2, MathInvariant, OrderInvariant, PTL

-----------------------------------------------------------------------------
(* At rest                                                                 *)

\* Something the thread has not heard of yet.
Pending == missed \/ \E i \in 1 .. Len(events) : NotifiesThread(events[i])

\* What the thread has decided on is still so.
Rest ==
    /\ tpc \in {"rateblock", "ratewait"} => ~Rated
    /\ tpc \in {"complete", "next", "block", "wait"} /\ todo = 0 /\ Self \notin inputs =>
          own[seg].count >= WorkingCount(seg)
    /\ tpc \in {"block", "wait"} /\ Self \notin inputs /\ own[seg].complete => seg >= Available

RestInv == ~RestartDue /\ sampler = "off" => Empty \/ Pending \/ Rest

\* Max does not exceed a bound of its set.
LEMMA GreatestLength ==
    ASSUME NEW S \in SUBSET Nat, S # {}, NEW b \in Nat, \A m \in S : m <= b
    PROVE  Max(S) \in S /\ Max(S) <= b
  <1> DEFINE T == {b - m : m \in S}
  <1>1. T \in SUBSET Nat /\ T # {}
    <2>1. \A m \in S : b - m \in Nat
      OBVIOUS
    <2>2. T \in SUBSET Nat
      BY <2>1
    <2>3. PICK m \in S : TRUE
      OBVIOUS
    <2>4. b - m \in T
      BY <2>3
    <2> QED BY <2>2, <2>4
  <1> HIDE DEF T
  <1>2. Min(T) \in T /\ \A n \in T : Min(T) <= n
    BY <1>1, LeastCount
  <1>3. PICK k \in S : Min(T) = b - k
    BY <1>2 DEF T
  <1>4. ASSUME NEW m \in S PROVE k >= m
    <2>1. b - m \in T
      BY DEF T
    <2>2. b - k <= b - m
      BY <1>2, <1>3, <2>1
    <2> QED BY <2>2
  <1> QED BY <1>4 DEF Max

\* What a signal that does not read itself waits for depends on the session only.
LEMMA WorkingStays ==
    ASSUME TypeOK, Self \notin inputs, UNCHANGED <<data, counts, inputs>>, NEW i
    PROVE  (Self \notin inputs)' /\ WorkingCount(i)' = WorkingCount(i)
  <1>1. \A s \in inputs : SegmentsOf(s)' = SegmentsOf(s)
    BY DEF SegmentsOf
  <1>2. \A s \in inputs : Has(s, i)' <=> Has(s, i)
    BY <1>1 DEF Has
  <1>3. SessionCount(i)' = SessionCount(i)
    BY DEF SessionCount
  <1>4. {SegmentsOf(s)[i].count : s \in {t \in inputs : Has(t, i)}}' = {SegmentsOf(s)[i].count : s \in {t \in inputs : Has(t, i)}}
    BY <1>1, <1>2
  <1> QED BY <1>1, <1>3, <1>4 DEF WorkingCount, Unlimited

\* The steps of the others: they let the thread know, or the signal be restarted.
LEMMA RestOthers ==
    ASSUME IInv, RestInv, SamplerStep \/ StartCapture \/ GuiStep \/ EditStep
    PROVE  RestInv'
  <1>1. TypeOK /\ DataInv /\ ThreadInv
    BY DEF IInv
  <1>2. CASE Prepare \/ EndSegment \/ \E s \in Sources, n \in 1 .. MaxSamples : Feed(s, n)
    BY <1>2 DEF Prepare, EndSegment, Feed, RestInv
  <1>3. CASE Announce
    <2>1. sampler' = "off" => Empty'
      BY <1>1, <1>3 DEF Announce, DataInv, Empty
    <2> QED BY <2>1 DEF RestInv
  <1>4. CASE AnnounceStop
    <2>1. events \in Seq(Signals) /\ "stopped" \in Signals /\ events' = Append(events, "stopped")
      BY <1>1, <1>4 DEF AnnounceStop, TypeOK, SamplerTypeOK, Signals
    <2>2. Len(events) + 1 \in 1 .. Len(events') /\ events'[Len(events) + 1] = "stopped"
      BY <2>1, QueueOne
    <2> QED BY <2>2 DEF RestInv, Pending, NotifiesThread
  <1>5. CASE StartCapture
    BY <1>5 DEF StartCapture, RestInv
  <1>6. CASE Restart
    <2>1. tpc' \in {"none", "rate"}
      BY <1>6 DEF Restart
    <2> QED BY <2>1 DEF RestInv, Rest
  <1>7. CASE Deliver
    <2> SUFFICES ASSUME ~RestartDue', ~Pending' PROVE Rest'
      BY DEF RestInv
    <2>1. gpc' = "idle" /\ events \in Seq(Signals) /\ events # <<>> /\ Head(events) \in Signals
      BY <1>1, <1>7 DEF RestartDue, Deliver, TypeOK, SamplerTypeOK
    <2>2. NotifyData /\ UNCHANGED localVars
      BY <1>7, <2>1 DEF Deliver, NotifiesThread, Signals, ResetGeneration
    <2>3. ~Deciding /\ tpc' = Woken /\ todo' = todo
      BY <2>2 DEF NotifyData, Pending, localVars
    <2>4. /\ tpc' \notin {"rateblock", "ratewait", "block", "wait"}
          /\ tpc' \in {"complete", "next"} => todo' # 0
      BY <1>1, <2>3 DEF Woken, Deciding, ThreadInv
    <2> QED BY <2>4 DEF Rest
  <1>8. CASE EditStep
    BY <1>8 DEF EditStep, Destroy, SetExpression, ResetGeneration, RestInv, RestartDue
  <1> QED BY <1>2, <1>3, <1>4, <1>5, <1>6, <1>7, <1>8 DEF SamplerStep, GuiStep

\* A thread that finds no more to count has all there is.
LEMMA CountsAll ==
    ASSUME TypeOK, DataInv, Clean, tpc \in Working, Self \notin inputs,
           WorkingCount(seg) <= own[seg].count
    PROVE  own[seg].count = WorkingCount(seg)
  <1>1. Len(own) = seg /\ own \in Seq(Generated) /\ seg \in 1 .. Len(own) /\ seg \in Nat \ {0}
    BY DEF Clean, OwnChunk, TypeOK, ThreadTypeOK
  <1>2. OwnSegment(seg) /\ own[seg].count \in Nat /\ WorkingCount(seg) \in Nat
    BY <1>1, GeneratedType, WorkingIs DEF Clean
  <1>3. CASE inputs = {}
    BY <1>1, <1>2, <1>3, WorkingIs DEF OwnSegment
  <1>4. CASE inputs # {} /\ own[seg].count = 0
    BY <1>2, <1>4
  <1>5. CASE inputs # {} /\ own[seg].count > 0
    <2>1. ASSUME NEW s \in inputs
          PROVE  /\ SegmentsOf(s) = data[s] /\ seg \in 1 .. Len(data[s])
                 /\ own[seg].count <= data[s][seg].count /\ data[s][seg].count \in Nat
      <3>1. SegmentsOf(s) = data[s] /\ data[s] \in Seq(Sampled)
        BY OthersAreSources
      <3>2. seg <= Len(data[s]) /\ own[seg].count <= data[s][seg].count
        BY <1>2, <1>5 DEF OwnSegment
      <3>3. seg \in 1 .. Len(data[s])
        BY <1>1, <3>1, <3>2
      <3> QED BY <3>1, <3>2, <3>3, SampledType
    <2>2. CASE \E s \in inputs : SegmentsOf(s) = <<>>
      BY <1>1, <2>1, <2>2
    <2>3. CASE \E s \in inputs : WorkingCount(seg) = SegmentsOf(s)[seg].count
      BY <1>2, <2>1, <2>3
    <2>4. CASE WorkingCount(seg) = Unlimited
      <3>1. PICK s \in inputs : TRUE
        BY <1>5
      <3>2. s \in Sources /\ seg \in 1 .. Len(data[s]) /\ own[seg].count <= data[s][seg].count
        BY <2>1, OthersAreSources
      <3>3. data[s][seg].count \in 1 .. MaxSamples
        BY <3>2 DEF DataInv
      <3> QED BY <1>2, <2>4, <3>2, <3>3, MathAssumption DEF Unlimited
    <2> QED BY <1>1, <1>5, <2>2, <2>3, <2>4, WorkingIs
  <1> QED BY <1>2, <1>3, <1>4, <1>5

\* No signal has more segments than the session.
LEMMA AvailableBound ==
    ASSUME TypeOK, DataInv, sampler # "starting", Self \notin inputs, highest \in Nat
    PROVE  Available \in Nat /\ Available <= highest + 1
  <1>1. \A s \in inputs : s \in Sources /\ data[s] \in Seq(Sampled)
    BY OthersAreSources
  <1>2. CASE inputs = {}
    BY <1>2 DEF Available, DataInv, TypeOK, SamplerTypeOK
  <1>3. CASE inputs # {}
    <2> DEFINE S == {Len(data[s]) : s \in inputs}
    <2>1. S \in SUBSET Nat
      BY <1>1
    <2>2. S # {}
      BY <1>3
    <2>3. \A m \in S : m <= highest + 1
      BY <1>1 DEF DataInv
    <2>4. highest + 1 \in Nat
      OBVIOUS
    <2> HIDE DEF S
    <2>5. Max(S) \in S /\ Max(S) <= highest + 1
      BY <2>1, <2>2, <2>3, <2>4, GreatestLength
    <2>6. Available = Max(S)
      BY <1>3 DEF Available, S
    <2> QED BY <2>1, <2>5, <2>6
  <1> QED BY <1>2, <1>3

\* The steps of the thread: it goes to wait only for what is not there.
LEMMA RestThread ==
    ASSUME IInv, IInv', OrderInv, RestInv, GenerationThread \/ WakesUp
    PROVE  RestInv'
  <1> SUFFICES ASSUME ~RestartDue', sampler' = "off", ~Empty', ~Pending' PROVE Rest'
    BY DEF RestInv
  <1>1. TypeOK /\ DataInv /\ ThreadInv /\ OwnInv
    BY DEF IInv
  <1>2. CASE tpc' \notin {"rateblock", "ratewait", "complete", "next", "block", "wait"}
    BY <1>2 DEF Rest
  <1>3. CASE AwaitRate
    <2>1. tpc' = "rateblock" => ~Rated
      BY <1>3 DEF AwaitRate
    <2>2. tpc' \in {"rateblock", "done", "begin"} /\ rate' = rate
      BY <1>3 DEF AwaitRate, ThreadStays, samplerVars
    <2> QED BY <2>1, <2>2 DEF Rest, Rated
  <1>4. CASE WakesUp
    BY <1>2, <1>4 DEF WakesUp, Woken
  <1>5. CASE Begin \/ Interrupted \/ StartChunk
    BY <1>2, <1>5 DEF Begin, Interrupted, StartChunk
  <1>6. CASE AppendChunk
    <2>1. /\ tpc' \in {"crashed", "chunk", "complete"} /\ todo' = todo
          /\ todo \in Nat /\ processed \in Nat /\ processed < todo
      BY <1>1, <1>6 DEF AppendChunk, ThreadInv, TypeOK, ThreadTypeOK
    <2>2. todo' # 0
      BY <2>1
    <2> QED BY <2>1, <2>2 DEF Rest
  <1>7. CASE Waits \/ Count \/ UpdateCompleteness \/ NextSegment
    <2>1. /\ UNCHANGED ThreadStays /\ UNCHANGED <<events, inputs>>
          /\ UNCHANGED <<data, acq, highest, counts, rate, sampler, state, gpc>>
      BY <1>7 DEF Waits, Count, UpdateCompleteness, NextSegment, ThreadStays, samplerVars, guiVars
    <2>2. ~missed
      <3>1. CASE Waits \/ UpdateCompleteness
        BY <3>1 DEF Waits, UpdateCompleteness, Pending
      <3>2. CASE Count
        BY <3>2 DEF Count, Pending
      <3>3. CASE NextSegment
        BY <3>3 DEF NextSegment, Pending
      <3> QED BY <1>7, <3>1, <3>2, <3>3
    <2>3. ~RestartDue /\ sampler = "off" /\ ~Empty /\ ~Pending
      BY <2>1, <2>2 DEF RestartDue, Empty, Pending
    <2>4. Rest /\ Ordered
      BY <1>1, <2>2, <2>3 DEF RestInv, OrderInv
    <2>5. seg \in Nat \ {0} /\ own \in Seq(Generated) /\ \A i : Self \notin inputs => WorkingCount(i)' = WorkingCount(i)
      BY <1>1, <2>1, WorkingStays DEF TypeOK, ThreadTypeOK
    <2>6. CASE Waits
      <3>1. /\ UNCHANGED <<own, seg, todo>> /\ tpc' \in {"ratewait", "wait", "done", "rate"}
            /\ tpc' = "ratewait" => tpc = "rateblock"
            /\ tpc' = "wait" => tpc = "block"
        BY <2>6 DEF Waits, localVars
      <3>2. Available' = Available
        BY <2>1 DEF Available
      <3> QED BY <2>1, <2>4, <2>5, <3>1, <3>2 DEF Rest, Rated
    <2>7. CASE Count
      <3>1. /\ tpc \in {"first", "loop"} /\ UNCHANGED <<own, seg>> /\ tpc' \in {"chunk", "complete"}
            /\ todo' = IF WorkingCount(seg) > Output.count THEN WorkingCount(seg) - Output.count ELSE 0
        BY <2>7 DEF Count
      <3>2. Len(own) = seg /\ Output = own[seg]
        BY <2>4, <2>5, <3>1 DEF Ordered, Working, Output
      <3>3. Output.count \in Nat /\ WorkingCount(seg) \in Nat
        BY <1>1, <2>5, OutputType, WorkingIs
      <3>4. todo' = 0 => WorkingCount(seg) <= own[seg].count
        BY <3>1, <3>2, <3>3
      <3> QED BY <2>1, <2>5, <3>1, <3>2, <3>3, <3>4 DEF Rest
    <2>8. CASE UpdateCompleteness
      <3>1. /\ tpc = "complete" /\ UNCHANGED <<seg, todo>> /\ tpc' \in {"next", "crashed"}
            /\ own' = own \/ own' = [own EXCEPT ![seg].complete = TRUE]
        BY <2>8 DEF UpdateCompleteness, localVars
      <3>2. seg \in 1 .. Len(own)
        BY <2>4, <2>5, <3>1 DEF Ordered, Working
      <3>3. own'[seg].count = own[seg].count
        <4>1. CASE own' = own
          BY <4>1
        <4>2. CASE own' = [own EXCEPT ![seg].complete = TRUE]
          BY <2>5, <3>2, <4>2, CompletedAt
        <4> QED BY <3>1, <4>1, <4>2
      <3> QED BY <2>1, <2>4, <2>5, <3>1, <3>3 DEF Rest
    <2>9. CASE NextSegment
      <3>1. /\ tpc = "next" /\ tpc' \in {"block", "loop"} /\ (tpc' = "block" => todo = 0) /\ todo' = todo
            /\ IF MovesOn THEN seg' = seg + 1 /\ own' = Append(own, NewOwn)
               ELSE UNCHANGED <<seg, own>>
            /\ MovesOn /\ tpc' = "block" => ~(WorkingCount(seg + 1) > 0)
        <4>1. MovesOn /\ tpc' = "block" => ~(WorkingCount(seg + 1) > 0)
          BY <2>9 DEF NextSegment, Pending
        <4> QED BY <2>9, <4>1 DEF NextSegment
      <3>2. Len(own) = seg /\ Output = own[seg]
        BY <2>4, <2>5, <3>1 DEF Ordered, Working, Output
      <3> SUFFICES ASSUME tpc' = "block", Self \notin inputs
                   PROVE  own'[seg'].count >= WorkingCount(seg') /\ (own'[seg'].complete => seg' >= Available)
        <4>1. Available' = Available
          BY <2>1 DEF Available
        <4> QED BY <2>1, <2>5, <3>1, <4>1 DEF Rest
      <3>3. CASE MovesOn
        <4>1. own'[seg'] = NewOwn /\ seg' = seg + 1
          BY <1>1, <2>1, <3>1, <3>2, <3>3, NewSegment
        <4>2. own'[seg'].count = 0 /\ ~own'[seg'].complete
          BY <4>1 DEF NewOwn
        <4>3. WorkingCount(seg + 1) = 0
          <5>1. WorkingCount(seg + 1) \in Nat
            BY <1>1, <2>5, WorkingIs
          <5> QED BY <3>1, <3>3, <5>1
        <4> QED BY <4>1, <4>2, <4>3
      <3>4. CASE ~MovesOn
        <4>1. own'[seg'].count >= WorkingCount(seg')
          BY <2>4, <3>1, <3>4 DEF Rest
        <4>2. ASSUME own'[seg'].complete PROVE seg' >= Available
          <5>1. seg' = seg /\ Output.complete
            BY <3>1, <3>2, <3>4, <4>2
          <5>2. highest \in Nat /\ ~(seg - 1 < highest)
            BY <1>1, <3>4, <5>1 DEF MovesOn, TypeOK, SamplerTypeOK
          <5>3. Available \in Nat /\ Available <= highest + 1
            BY <1>1, <2>3, <5>2, AvailableBound
          <5> QED BY <2>5, <5>1, <5>2, <5>3
        <4> QED BY <4>1, <4>2
      <3> QED BY <3>3, <3>4
    <2> QED BY <1>7, <2>6, <2>7, <2>8, <2>9
  <1> QED BY <1>3, <1>4, <1>5, <1>6, <1>7 DEF GenerationThread

\* When all has come to rest nothing is left to be generated, unless the thread went to
\* wait without looking, reads itself, or no segment has a samplerate.
THEOREM AllGenerated == MathSpec => []GeneratesAll
  <1>1. MathInit => RestInv
    BY DEF MathInit, RestInv, Rest
  <1>2. ASSUME IInv, IInv', OrderInv, RestInv, [MathNext]_mathVars PROVE RestInv'
    <2>1. CASE UNCHANGED mathVars
      <3>1. /\ UNCHANGED <<data, counts, rate, sampler, state, events, gpc, inputs, own, tpc, seg, todo, missed, lacking>>
        BY <2>1 DEF mathVars, samplerVars, guiVars, localVars
      <3>2. Self \notin inputs => WorkingCount(seg)' = WorkingCount(seg)
        BY <1>2, <3>1, WorkingStays DEF IInv
      <3>3. Available' = Available
        BY <3>1 DEF Available
      <3> QED BY <1>2, <3>1, <3>2, <3>3 DEF RestInv, RestartDue, Empty, Pending, Rest, Rated
    <2>2. CASE MathNext
      BY <1>2, <2>2, RestOthers, RestThread DEF MathNext
    <2> QED BY <1>2, <2>1, <2>2
  <1>3. ASSUME IInv, OrderInv, RestInv PROVE GeneratesAll
    <2> SUFFICES ASSUME Quiescent, ~missed, Self \notin inputs
                 PROVE  IF own = <<>> THEN ~Rated
                        ELSE /\ \A i \in 1 .. Len(own) - 1 : own[i].complete
                             /\ own[Len(own)].count >= WorkingCount(Len(own))
                             /\ ~lacking => own[Len(own)].count = WorkingCount(Len(own))
                             /\ own[Len(own)].complete => Len(own) >= Available
      BY DEF GeneratesAll
    <2>1. TypeOK /\ DataInv /\ ThreadInv /\ BlankInv /\ OwnInv /\ own \in Seq(Generated)
      BY <1>3 DEF IInv, TypeOK, ThreadTypeOK
    <2>2. sampler = "off" /\ state = "Stopped" /\ events = <<>> /\ gpc = "idle" /\ tpc \in {"wait", "ratewait"}
      BY DEF Quiescent
    <2>3. ~RestartDue /\ ~Pending
      BY <2>2 DEF RestartDue, Pending
    <2>4. own # <<>> => Len(own) \in 1 .. Len(own)
      BY <2>1
    <2>5. CASE Empty
      <3>1. /\ \A i \in 1 .. Len(own) :
                own[i].count = 0 /\ (own[i].complete => inputs = {}) /\ (i # Len(own) => own[i].complete)
            /\ counts = <<>>
        BY <2>1, <2>2, <2>5 DEF BlankInv, DataInv
      <3>2. own # <<>> => WorkingCount(Len(own)) = 0
        <4> SUFFICES ASSUME own # <<>> PROVE WorkingCount(Len(own)) = 0
          OBVIOUS
        <4>1. Len(own) \in Nat \ {0}
          BY <2>1, <2>4
        <4>2. CASE inputs = {}
          BY <2>1, <3>1, <4>1, <4>2, WorkingIs DEF SessionCount
        <4>3. CASE inputs # {}
          <5>1. PICK s \in inputs : SegmentsOf(s) = <<>>
            BY <2>1, <2>5, <4>3, OthersAreSources DEF Empty
          <5> QED BY <2>1, <4>1, <5>1, WorkingIs
        <4> QED BY <4>2, <4>3
      <3>3. inputs = {} => Available = 0
        BY <3>1 DEF Available
      <3>4. ~Rated
        BY <2>1, <2>5 DEF Rated, DataInv
      <3> QED BY <2>1, <2>4, <3>1, <3>2, <3>3, <3>4
    <2>6. CASE ~Empty
      <3>1. Rest /\ Ordered
        BY <1>3, <2>2, <2>3, <2>6 DEF RestInv, OrderInv
      <3>2. CASE tpc = "ratewait"
        BY <2>1, <3>1, <3>2 DEF Rest, ThreadInv, Rating
      <3>3. CASE tpc = "wait"
        <4>1. Len(own) = seg /\ todo = 0 /\ seg \in Nat \ {0} /\ own # <<>>
          BY <2>1, <3>1, <3>3 DEF Ordered, Working, ThreadInv, TypeOK, ThreadTypeOK
        <4>2. \A i \in 1 .. Len(own) - 1 : own[i].complete
          <5> TAKE i \in 1 .. Len(own) - 1
          <5>1. i \in 1 .. Len(own) /\ i # Len(own)
            BY <2>1
          <5> QED BY <3>1, <5>1 DEF Ordered
        <4>3. own[seg].count >= WorkingCount(seg) /\ (own[seg].complete => seg >= Available)
          BY <3>1, <3>3, <4>1 DEF Rest
        <4>4. WorkingCount(seg) \in Nat /\ own[seg].count \in Nat
          BY <2>1, <2>4, <4>1, WorkingIs, GeneratedType
        <4>5. ~lacking => own[seg].count = WorkingCount(seg)
          <5> SUFFICES ASSUME ~lacking PROVE own[seg].count = WorkingCount(seg)
            OBVIOUS
          <5>1. Clean /\ WorkingCount(seg) <= own[seg].count
            BY <2>1, <2>3, <2>6, <4>3, <4>4 DEF OwnInv
          <5> QED BY <2>1, <3>3, <5>1, CountsAll DEF Working
        <4> QED BY <4>1, <4>2, <4>3, <4>5
      <3> QED BY <2>2, <3>2, <3>3
    <2> QED BY <2>5, <2>6
  <1>4. IInv /\ OrderInv /\ RestInv => GeneratesAll
    BY <1>3
  <1>5. IInv /\ IInv' /\ OrderInv /\ RestInv /\ [MathNext]_mathVars => RestInv'
    BY <1>2
  <1> QED BY <1>1, <1>4, <1>5, MathInvariant, OrderInvariant, PTL DEF MathSpec
=============================================================================
