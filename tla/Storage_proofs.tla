--------------------------- MODULE Storage_proofs ---------------------------
(***************************************************************************)
(* What is read of a segment: proofs about the samples behind their        *)
(* division into chunks, for every size of chunks and packets.             *)
(***************************************************************************)
EXTENDS Storage, SequenceTheorems, TLAPS

-----------------------------------------------------------------------------
(* Chunks                                                                  *)

SampleValues == LogicValues \union AnalogValues

\* All chunks but the last are full.
Regular(q, p) ==
    /\ q \in Seq(Seq(SampleValues)) /\ q # <<>>
    /\ \A i \in 1 .. Len(q) : Len(q[i]) <= p /\ (i # Len(q) => Len(q[i]) = p)

\* The number of the first sample of chunk k, the number of samples held, and sample
\* number n.
First(k, p) == p * k
Held(q, p)  == First(Len(q) - 1, p) + Len(q[Len(q)])
At(q, p, n) == q[(n \div p) + 1][(n % p) + 1]

LEMMA DivMod ==
    ASSUME NEW p \in Nat \ {0}, NEW n \in Nat
    PROVE  n \div p \in Nat /\ n % p \in 0 .. p - 1 /\ n = First(n \div p, p) + (n % p)
  BY DEF First

LEMMA DivModUnique ==
    ASSUME NEW p \in Nat \ {0}, NEW k \in Nat, NEW m \in 0 .. p - 1
    PROVE  (First(k, p) + m) \div p = k /\ (First(k, p) + m) % p = m
  BY DEF First

LEMMA Multiples ==
    ASSUME NEW p \in Nat \ {0}, NEW k \in Nat
    PROVE  First(k, p) \in Nat /\ First(k + 1, p) = First(k, p) + p
  BY DEF First

\* A sample is not in a later chunk than one that comes behind it.
LEMMA Quotients ==
    ASSUME NEW p \in Nat \ {0}, NEW k \in Nat, NEW l \in Nat, NEW m \in 0 .. p - 1,
           First(k, p) + m < First(l, p) + p
    PROVE  k <= l
  BY DEF First

LEMMA HeldType ==
    ASSUME NEW p \in Nat \ {0}, NEW q, Regular(q, p)
    PROVE  /\ Len(q) \in Nat \ {0} /\ Len(q) \in 1 .. Len(q) /\ q[Len(q)] \in Seq(SampleValues)
           /\ Len(q[Len(q)]) \in 0 .. p /\ Held(q, p) \in Nat
           /\ \A i \in 1 .. Len(q) : q[i] \in Seq(SampleValues)
  <1>1. /\ Len(q) \in Nat \ {0} /\ Len(q) \in 1 .. Len(q) /\ Len(q) - 1 \in Nat
        /\ \A i \in 1 .. Len(q) : q[i] \in Seq(SampleValues)
    BY DEF Regular
  <1>2. Len(q[Len(q)]) \in 0 .. p
    BY <1>1 DEF Regular
  <1>3. First(Len(q) - 1, p) \in Nat
    BY <1>1, Multiples
  <1>4. Held(q, p) \in Nat
    BY <1>2, <1>3 DEF Held
  <1> QED BY <1>1, <1>2, <1>4

\* A sample that is held is where it is looked for.
LEMMA PlaceOf ==
    ASSUME NEW p \in Nat \ {0}, NEW q, Regular(q, p), NEW n \in Nat, n < Held(q, p)
    PROVE  /\ n \div p \in Nat /\ n % p \in Nat
           /\ (n \div p) + 1 \in 1 .. Len(q) /\ (n % p) + 1 \in 1 .. Len(q[(n \div p) + 1])
           /\ At(q, p, n) \in SampleValues
  <1> DEFINE k == n \div p
             m == n % p
             l == Len(q) - 1
  <1>1. k \in Nat /\ m \in 0 .. p - 1 /\ n = First(k, p) + m
    BY DivMod
  <1>2. /\ l \in Nat /\ Len(q) = l + 1 /\ Len(q[Len(q)]) \in 0 .. p /\ Held(q, p) = First(l, p) + Len(q[Len(q)])
        /\ First(l, p) \in Nat /\ First(k, p) \in Nat
    <2>1. l \in Nat /\ Len(q) = l + 1 /\ Len(q[Len(q)]) \in 0 .. p
      BY HeldType
    <2> QED BY <1>1, <2>1, Multiples DEF Held
  <1> HIDE DEF k, m, l
  <1>3. k <= l
    <2>1. First(k, p) + m < First(l, p) + p
      BY <1>1, <1>2
    <2> QED BY <1>1, <1>2, <2>1, Quotients
  <1>4. k + 1 \in 1 .. Len(q)
    BY <1>1, <1>2, <1>3
  <1>5. m + 1 \in 1 .. Len(q[k + 1])
    <2>1. CASE k = l
      BY <1>1, <1>2, <2>1
    <2>2. CASE k # l
      <3>1. k + 1 # Len(q)
        BY <1>1, <1>2, <2>2
      <3>2. Len(q[k + 1]) = p
        BY <1>4, <3>1 DEF Regular
      <3> QED BY <1>1, <3>2
    <2> QED BY <2>1, <2>2
  <1>6. q[k + 1] \in Seq(SampleValues)
    BY <1>4, HeldType
  <1>7. q[k + 1][m + 1] \in SampleValues
    BY <1>5, <1>6
  <1> QED BY <1>1, <1>4, <1>5, <1>7 DEF At, k, m

\* The chunks c are q with the samples r put into the last one, which has room for them.
Puts(c, q, p, r) ==
    /\ Regular(q, p) /\ r \in Seq(SampleValues) /\ Len(r) <= p - Len(q[Len(q)])
    /\ c \in Seq(Seq(SampleValues)) /\ Len(c) = Len(q) /\ c[Len(q)] = q[Len(q)] \o r
    /\ \A i \in 1 .. Len(q) : i # Len(q) => c[i] = q[i]

LEMMA Filled ==
    ASSUME NEW p \in Nat \ {0}, NEW q, NEW r, NEW c, Puts(c, q, p, r)
    PROVE  /\ Regular(c, p) /\ Held(c, p) = Held(q, p) + Len(r)
           /\ Len(c) = Len(q) /\ Len(c[Len(c)]) = Len(q[Len(q)]) + Len(r)
           /\ \A n \in Nat : n < Held(q, p) => At(c, p, n) = At(q, p, n)
           /\ \A j \in 1 .. Len(r) : At(c, p, Held(q, p) + j - 1) = r[j]
  <1> DEFINE last == q[Len(q)]
             new  == last \o r
  <1>0. Regular(q, p) /\ r \in Seq(SampleValues) /\ Len(r) <= p - Len(q[Len(q)])
    BY DEF Puts
  <1>1. /\ Len(q) \in Nat \ {0} /\ Len(q) \in 1 .. Len(q) /\ last \in Seq(SampleValues)
        /\ Len(last) \in 0 .. p /\ Held(q, p) \in Nat /\ q \in Seq(Seq(SampleValues))
    BY <1>0, HeldType DEF Regular
  <1> HIDE DEF last
  <1>2. /\ new \in Seq(SampleValues) /\ Len(new) = Len(last) + Len(r)
        /\ \A i \in 1 .. Len(last) : new[i] = last[i]
        /\ \A j \in 1 .. Len(r) : new[Len(last) + j] = r[j]
    BY <1>0, <1>1
  <1>3. Len(r) \in Nat /\ Len(new) <= p
    BY <1>0, <1>1, <1>2 DEF last
  <1>4. /\ c \in Seq(Seq(SampleValues)) /\ Len(c) = Len(q) /\ c[Len(q)] = new
        /\ \A i \in 1 .. Len(q) : i # Len(q) => c[i] = q[i]
    BY DEF new, last, Puts
  <1> HIDE DEF new
  <1>6. Regular(c, p)
    <2>1. c # <<>>
      BY <1>1, <1>4
    <2>2. ASSUME NEW i \in 1 .. Len(c) PROVE Len(c[i]) <= p /\ (i # Len(c) => Len(c[i]) = p)
      BY <1>0, <1>3, <1>4 DEF Regular
    <2> QED BY <1>4, <2>1, <2>2 DEF Regular
  <1>7. Held(c, p) = Held(q, p) + Len(r)
    <2>1. Len(q) - 1 \in Nat
      BY <1>1
    <2>2. First(Len(q) - 1, p) \in Nat
      BY <2>1, Multiples
    <2>3. Held(c, p) = First(Len(q) - 1, p) + Len(last) + Len(r)
      <3>1. Held(c, p) = First(Len(q) - 1, p) + Len(new)
        BY <1>4 DEF Held
      <3> QED BY <1>1, <1>2, <1>3, <2>2, <3>1
    <2>4. Held(q, p) = First(Len(q) - 1, p) + Len(last)
      BY DEF Held, last
    <2> QED BY <2>3, <2>4
  <1>8. ASSUME NEW n \in Nat, n < Held(q, p) PROVE At(c, p, n) = At(q, p, n)
    <2> DEFINE k == n \div p
               m == n % p
    <2>1. k + 1 \in 1 .. Len(q) /\ m + 1 \in 1 .. Len(q[k + 1])
      BY <1>0, <1>8, PlaceOf
    <2> HIDE DEF k, m
    <2>2. c[k + 1][m + 1] = q[k + 1][m + 1]
      <3>1. CASE k + 1 = Len(q)
        BY <1>2, <1>4, <2>1, <3>1 DEF last
      <3>2. CASE k + 1 # Len(q)
        BY <1>4, <2>1, <3>2
      <3> QED BY <3>1, <3>2
    <2> QED BY <2>2 DEF At, k, m
  <1>9. ASSUME NEW j \in 1 .. Len(r) PROVE At(c, p, Held(q, p) + j - 1) = r[j]
    <2> DEFINE k == Len(q) - 1
               m == Len(last) + j - 1
    <2>1. k \in Nat /\ m \in 0 .. p - 1 /\ m + 1 = Len(last) + j /\ k + 1 = Len(q)
      BY <1>0, <1>1, <1>2, <1>3
    <2>2. Held(q, p) + j - 1 = First(k, p) + m
      <3>1. First(k, p) \in Nat
        BY <2>1, Multiples
      <3> QED BY <1>1, <3>1 DEF Held, last
    <2> HIDE DEF k, m
    <2>3. (First(k, p) + m) \div p = k /\ (First(k, p) + m) % p = m
      BY <2>1, DivModUnique
    <2>4. c[k + 1][m + 1] = r[j]
      BY <1>2, <1>4, <2>1
    <2> QED BY <2>2, <2>3, <2>4 DEF At
  <1> QED BY <1>2, <1>4, <1>6, <1>7, <1>8, <1>9 DEF last

\* A chunk is allocated.
LEMMA Allocation ==
    ASSUME NEW p \in Nat \ {0}, NEW q, Regular(q, p), Len(q[Len(q)]) = p
    PROVE  /\ Regular(Append(q, <<>>), p) /\ Held(Append(q, <<>>), p) = Held(q, p)
           /\ \A n \in Nat : n < Held(q, p) => At(Append(q, <<>>), p, n) = At(q, p, n)
  <1> DEFINE c == Append(q, <<>>)
  <1>1. Len(q) \in Nat \ {0} /\ q \in Seq(Seq(SampleValues)) /\ Len(q) - 1 \in Nat
    BY HeldType DEF Regular
  <1>2. <<>> \in Seq(SampleValues) /\ Len(<<>>) = 0
    BY EmptySeq
  <1>3. /\ c \in Seq(Seq(SampleValues)) /\ Len(c) = Len(q) + 1 /\ c[Len(c)] = <<>> /\ c # <<>>
        /\ \A i \in 1 .. Len(q) : c[i] = q[i]
    BY <1>1, <1>2
  <1> HIDE DEF c
  <1>4. Regular(c, p)
    <2>1. ASSUME NEW i \in 1 .. Len(c) PROVE Len(c[i]) <= p /\ (i # Len(c) => Len(c[i]) = p)
      <3>1. CASE i \in 1 .. Len(q)
        <4>1. CASE i = Len(q)
          BY <1>3, <3>1, <4>1
        <4>2. CASE i # Len(q)
          BY <1>3, <3>1, <4>2 DEF Regular
        <4> QED BY <4>1, <4>2
      <3>2. CASE i \notin 1 .. Len(q)
        BY <1>1, <1>2, <1>3, <3>2
      <3> QED BY <3>1, <3>2
    <2> QED BY <1>3, <2>1 DEF Regular
  <1>5. Held(c, p) = Held(q, p)
    <2>1. First(Len(q) - 1 + 1, p) = First(Len(q) - 1, p) + p /\ First(Len(q) - 1, p) \in Nat
      BY <1>1, Multiples
    <2>2. Len(c) - 1 = Len(q) - 1 + 1
      BY <1>1, <1>3
    <2>3. Held(c, p) = First(Len(q) - 1 + 1, p) + 0
      BY <1>2, <1>3, <2>2 DEF Held
    <2> QED BY <2>1, <2>3 DEF Held
  <1>6. ASSUME NEW n \in Nat, n < Held(q, p) PROVE At(c, p, n) = At(q, p, n)
    <2>1. (n \div p) + 1 \in 1 .. Len(q)
      BY <1>6, PlaceOf
    <2> QED BY <1>3, <2>1 DEF At
  <1> QED BY <1>4, <1>5, <1>6 DEF c

-----------------------------------------------------------------------------
(* An append                                                               *)

\* How many samples of the packet have been copied.
Done == Len(packet) - Len(rest)

\* Until memory runs out, every sample up to the last one copied is where readers will
\* look for it; from then on the chunks hold more than the count says.
StoreInv ==
    /\ perChunk \in Nat \ {0} /\ Regular(chunks, perChunk)
    /\ count \in Nat /\ failed \in BOOLEAN
    /\ packet \in Seq(SampleValues) /\ rest \in Seq(SampleValues)
    /\ Done \in Nat /\ (rest = <<>> <=> packet = <<>>)
    /\ count + Done <= Held(chunks, perChunk)
    /\ ~failed =>
         /\ count + Done = Held(chunks, perChunk)
         /\ \A k \in 1 .. Done : At(chunks, perChunk, count + k - 1) = packet[k]
         /\ \A j \in 1 .. Len(rest) : rest[j] = packet[Done + j]

\* The state that a pass of the loop leaves the chunks in.
LEMMA Copying ==
    ASSUME StoreInv, rest # <<>>
    PROVE  /\ CopyCount \in 0 .. Len(rest)
           /\ Regular(Copied, perChunk) /\ Regular(Allocated, perChunk)
           /\ Held(Copied, perChunk) = Held(chunks, perChunk) + CopyCount
           /\ Held(Allocated, perChunk) = Held(chunks, perChunk) + CopyCount
           /\ \A n \in Nat : n < Held(chunks, perChunk) =>
                /\ At(Copied, perChunk, n) = At(chunks, perChunk, n)
                /\ At(Allocated, perChunk, n) = At(chunks, perChunk, n)
           /\ \A j \in 1 .. CopyCount :
                At(Allocated, perChunk, Held(chunks, perChunk) + j - 1) = rest[j]
  <1> DEFINE p == perChunk
             h == Held(chunks, p)
             run == SubSeq(rest, 1, CopyCount)
  <1>1. p \in Nat \ {0} /\ Regular(chunks, p) /\ rest \in Seq(SampleValues) /\ Len(rest) \in Nat
    BY DEF StoreInv
  <1>2. Len(chunks[Len(chunks)]) \in 0 .. p /\ h \in Nat
    BY <1>1, HeldType
  <1>3. Unused \in Nat /\ Unused = p - Len(chunks[Len(chunks)])
    BY <1>1, <1>2 DEF Unused, LastChunk
  <1>4. CopyCount \in 0 .. Len(rest) /\ CopyCount <= Unused
    <2>1. Len(rest) \in Nat /\ Unused \in Nat
      BY <1>1, <1>3
    <2>2. CASE Len(rest) <= Unused
      BY <2>1, <2>2 DEF CopyCount
    <2>3. CASE ~(Len(rest) <= Unused)
      BY <2>1, <2>3 DEF CopyCount
    <2> QED BY <2>2, <2>3
  <1>5. /\ run \in Seq(SampleValues) /\ Len(run) = CopyCount
        /\ \A j \in 1 .. CopyCount : run[j] = rest[j]
    BY <1>1, <1>4
  <1> HIDE DEF run
  <1>6. /\ Regular(Copied, p) /\ Held(Copied, p) = h + CopyCount
        /\ Len(Copied[Len(Copied)]) = Len(chunks[Len(chunks)]) + CopyCount
        /\ \A n \in Nat : n < h => At(Copied, p, n) = At(chunks, p, n)
        /\ \A j \in 1 .. CopyCount : At(Copied, p, h + j - 1) = rest[j]
    <2>1. /\ Copied \in Seq(Seq(SampleValues)) /\ Len(Copied) = Len(chunks)
          /\ Copied[Len(chunks)] = chunks[Len(chunks)] \o run
          /\ \A i \in 1 .. Len(chunks) : i # Len(chunks) => Copied[i] = chunks[i]
      <3>1. Copied = [chunks EXCEPT ![Len(chunks)] = chunks[Len(chunks)] \o run]
        BY DEF Copied, LastChunk, run
      <3>2. /\ chunks \in Seq(Seq(SampleValues)) /\ Len(chunks) \in 1 .. Len(chunks)
            /\ chunks[Len(chunks)] \o run \in Seq(SampleValues)
        BY <1>1, <1>5, HeldType DEF Regular
      <3> QED BY <3>1, <3>2
    <2>2. Puts(Copied, chunks, p, run)
      BY <1>1, <1>3, <1>4, <1>5, <2>1 DEF Puts
    <2>3. p \in Nat \ {0}
      BY <1>1
    <2> HIDE DEF p
    <2>4. Regular(Copied, p) /\ Held(Copied, p) = Held(chunks, p) + Len(run)
      BY <2>2, <2>3, Filled
    <2>5. Len(Copied[Len(Copied)]) = Len(chunks[Len(chunks)]) + Len(run)
      BY <2>2, <2>3, Filled
    <2>6. \A n \in Nat : n < Held(chunks, p) => At(Copied, p, n) = At(chunks, p, n)
      BY <2>2, <2>3, Filled
    <2>7. \A j \in 1 .. Len(run) : At(Copied, p, Held(chunks, p) + j - 1) = run[j]
      BY <2>2, <2>3, Filled
    <2> QED BY <1>5, <2>4, <2>5, <2>6, <2>7
  <1>7. CASE ~FillsChunk
    BY <1>4, <1>6, <1>7 DEF Allocated
  <1>8. CASE FillsChunk
    <2>1. Allocated = Append(Copied, <<>>)
      BY <1>8 DEF Allocated
    <2>2. Len(Copied[Len(Copied)]) = p
      BY <1>1, <1>2, <1>3, <1>6, <1>8 DEF FillsChunk
    <2>3. /\ Regular(Allocated, p) /\ Held(Allocated, p) = Held(Copied, p)
          /\ \A n \in Nat : n < Held(Copied, p) => At(Allocated, p, n) = At(Copied, p, n)
      BY <1>1, <1>6, <2>1, <2>2, Allocation
    <2>4. ASSUME NEW n \in Nat, n < h PROVE At(Allocated, p, n) = At(chunks, p, n)
      BY <1>2, <1>4, <1>6, <2>3, <2>4
    <2>5. ASSUME NEW j \in 1 .. CopyCount PROVE At(Allocated, p, h + j - 1) = rest[j]
      <3>1. h + j - 1 \in Nat /\ h + j - 1 < Held(Copied, p)
        BY <1>2, <1>4, <1>6
      <3> QED BY <1>6, <2>3, <3>1
    <2> QED BY <1>4, <1>6, <2>3, <2>4, <2>5
  <1> QED BY <1>7, <1>8

LEMMA Remaining ==
    ASSUME StoreInv, rest # <<>>
    PROVE  LET left == SubSeq(rest, CopyCount + 1, Len(rest)) IN
           /\ left \in Seq(SampleValues) /\ Len(left) = Len(rest) - CopyCount
           /\ \A j \in 1 .. Len(left) : left[j] = rest[CopyCount + j]
           /\ left = <<>> <=> CopyCount = Len(rest)
  <1>1. rest \in Seq(SampleValues) /\ Len(rest) \in Nat /\ CopyCount \in 0 .. Len(rest)
    BY Copying DEF StoreInv
  <1> DEFINE left == SubSeq(rest, CopyCount + 1, Len(rest))
  <1>2. /\ left \in Seq(SampleValues) /\ Len(left) = Len(rest) - CopyCount
        /\ \A j \in 1 .. Len(left) : left[j] = rest[CopyCount + j]
    BY <1>1
  <1> HIDE DEF left
  <1>3. left = <<>> <=> Len(left) = 0
    BY <1>2, EmptySeq
  <1> QED BY <1>1, <1>2, <1>3 DEF left

\* A step of either kind of segment is one of these.
LEMMA Appends ==
    ASSUME SegmentAssumption, StorageNext
    PROVE  \/ \E given \in Seq(SampleValues) \ {<<>>} : AppendBegin(given)
           \/ CopyRun
           \/ AllocationFails
  <1>1. ASSUME NEW V, V \subseteq SampleValues, NEW given \in Packets(V)
        PROVE  given \in Seq(SampleValues) \ {<<>>}
    <2>1. PICK n \in 1 .. MaxPacket : given \in [1 .. n -> V]
      BY <1>1 DEF Packets
    <2>2. n \in Nat \ {0} /\ given \in [1 .. n -> SampleValues]
      BY <1>1, <2>1 DEF SegmentAssumption
    <2>3. given \in Seq(SampleValues) /\ Len(given) = n
      BY <2>2
    <2> QED BY <2>2, <2>3, EmptySeq
  <1>2. LogicValues \subseteq SampleValues /\ AnalogValues \subseteq SampleValues
    BY DEF SampleValues
  <1>3. CASE LogicNext
    BY <1>1, <1>2, <1>3 DEF LogicNext, LogicAppendBegin, LogicCopyRun, LogicAllocationFails
  <1>4. CASE AnalogNext
    BY <1>1, <1>2, <1>4 DEF AnalogNext, AnalogAppendBegin, AnalogCopyRun, AnalogAllocationFails
  <1> QED BY <1>3, <1>4 DEF StorageNext

-----------------------------------------------------------------------------
(* What readers see                                                        *)

Reads(q, p, n) == [i \in 1 .. n |-> At(q, p, i - 1)]

LEMMA Readable ==
    ASSUME NEW p \in Nat \ {0}, NEW q, Regular(q, p), NEW n \in Nat, n <= Held(q, p)
    PROVE  /\ Reads(q, p, n) \in Seq(SampleValues) /\ Len(Reads(q, p, n)) = n
           /\ \A i \in 1 .. n : Reads(q, p, n)[i] = At(q, p, i - 1)
  <1>1. Held(q, p) \in Nat
    BY HeldType
  <1>2. ASSUME NEW i \in 1 .. n PROVE At(q, p, i - 1) \in SampleValues
    <2>1. i - 1 \in Nat /\ i - 1 < Held(q, p)
      BY <1>1
    <2> QED BY <2>1, PlaceOf
  <1>3. Reads(q, p, n) \in [1 .. n -> SampleValues]
    BY <1>2 DEF Reads
  <1>4. Reads(q, p, n) \in Seq(SampleValues) /\ Len(Reads(q, p, n)) = n
    BY <1>3
  <1> QED BY <1>4 DEF Reads

LEMMA ContentRead == count \in Nat => Content = Reads(chunks, perChunk, count)
  <1>1. ASSUME count \in Nat, NEW i \in 1 .. count PROVE 0 + i - 1 = i - 1
    BY <1>1
  <1> QED BY <1>1 DEF Content, RawSamples, RawSample, Reads, At

\* Samples that stay where they are are read the same.
LEMMA SameRead ==
    ASSUME NEW p \in Nat \ {0}, NEW q, Regular(q, p), NEW c, NEW n \in Nat, n <= Held(q, p),
           \A m \in Nat : m < Held(q, p) => At(c, p, m) = At(q, p, m)
    PROVE  Reads(c, p, n) = Reads(q, p, n)
  <1>1. Held(q, p) \in Nat
    BY HeldType
  <1>2. ASSUME NEW i \in 1 .. n PROVE At(c, p, i - 1) = At(q, p, i - 1)
    <2>1. i - 1 \in Nat /\ i - 1 < Held(q, p)
      BY <1>1
    <2> QED BY <2>1
  <1> QED BY <1>2 DEF Reads

-----------------------------------------------------------------------------
(* The steps                                                               *)

\* An append begins: readers see nothing of it.
LEMMA BeginStep ==
    ASSUME StoreInv, NEW given \in Seq(SampleValues) \ {<<>>}, AppendBegin(given)
    PROVE  StoreInv' /\ Sequence!Offer
  <1>1. /\ rest = <<>> /\ packet = <<>> /\ packet' = given /\ rest' = given
        /\ UNCHANGED <<perChunk, chunks, count, failed>>
    BY DEF StoreInv, AppendBegin
  <1>2. /\ perChunk \in Nat \ {0} /\ Regular(chunks, perChunk) /\ count \in Nat /\ failed \in BOOLEAN
        /\ Done \in Nat /\ count + Done <= Held(chunks, perChunk)
        /\ (~failed => count + Done = Held(chunks, perChunk))
    BY DEF StoreInv
  <1>3. Done = 0 /\ Done' = 0
    <2>1. Len(packet) = 0 /\ Len(rest) = 0 /\ Len(given) \in Nat
      BY <1>1, EmptySeq
    <2> QED BY <1>1, <2>1 DEF Done
  <1>4. StoreInv'
    <2>1. \A k \in 1 .. Done' : At(chunks, perChunk, count + k - 1)' = packet'[k]
      BY <1>3
    <2>2. \A j \in 1 .. Len(rest') : rest'[j] = packet'[Done' + j]
      <3>1. ASSUME NEW j \in 1 .. Len(given) PROVE 0 + j = j
        OBVIOUS
      <3> QED BY <1>1, <1>3, <3>1
    <2>3. Held(chunks, perChunk)' = Held(chunks, perChunk)
      BY <1>1
    <2> QED BY <1>1, <1>2, <1>3, <2>1, <2>2, <2>3 DEF StoreInv
  <1>5. Content' = Content
    BY <1>1 DEF Content, RawSamples, RawSample
  <1> QED BY <1>1, <1>4, <1>5 DEF Sequence!Offer, SampleValues

\* Once the copied samples are in their places, all of the packet up to them is.
LEMMA InPlace ==
    ASSUME StoreInv, rest # <<>>, ~failed,
           NEW k \in 1 .. Done + CopyCount
    PROVE  At(Allocated, perChunk, count + k - 1) = packet[k]
  <1> DEFINE h == Held(chunks, perChunk)
  <1>1. /\ Done \in Nat /\ count \in Nat /\ CopyCount \in 0 .. Len(rest) /\ h = count + Done
        /\ Len(rest) \in Nat
    BY Copying DEF StoreInv
  <1>2. CASE k <= Done
    <2>1. count + k - 1 \in Nat /\ count + k - 1 < h /\ k \in 1 .. Done
      BY <1>1, <1>2
    <2> HIDE DEF h
    <2>2. At(Allocated, perChunk, count + k - 1) = At(chunks, perChunk, count + k - 1)
      BY <2>1, Copying DEF h
    <2>3. At(chunks, perChunk, count + k - 1) = packet[k]
      BY <2>1 DEF StoreInv
    <2> QED BY <2>2, <2>3
  <1>3. CASE ~(k <= Done)
    <2> DEFINE j == k - Done
    <2>1. /\ j \in 1 .. CopyCount /\ j \in 1 .. Len(rest) /\ count + k - 1 = h + j - 1
          /\ Done + j = k
      BY <1>1, <1>3
    <2> HIDE DEF h, j
    <2>2. At(Allocated, perChunk, h + j - 1) = rest[j]
      BY <2>1, Copying DEF h
    <2>3. rest[j] = packet[Done + j]
      BY <2>1 DEF StoreInv
    <2> QED BY <2>1, <2>2, <2>3
  <1> QED BY <1>2, <1>3

\* A pass of the loop: the last one shows the whole packet to readers, the others nothing.
LEMMA RunStep ==
    ASSUME StoreInv, CopyRun
    PROVE  /\ StoreInv'
           /\ Sequence!Accept \/ UNCHANGED <<Content, packet, failed>>
  <1> DEFINE h == Held(chunks, perChunk)
             n == CopyCount
             all == n = Len(rest)
  <1>1. /\ rest # <<>> /\ chunks' = Allocated /\ rest' = SubSeq(rest, n + 1, Len(rest))
        /\ packet' = IF rest' = <<>> THEN <<>> ELSE packet
        /\ perChunk' = perChunk /\ failed' = failed
        /\ count' = IF all THEN count + Len(packet) ELSE count
    BY DEF CopyRun, CountWhole
  <1>2. /\ perChunk \in Nat \ {0} /\ Regular(chunks, perChunk) /\ count \in Nat
        /\ failed \in BOOLEAN /\ packet \in Seq(SampleValues) /\ packet # <<>>
        /\ Done \in Nat /\ count + Done <= h /\ (~failed => count + Done = h)
        /\ Done = Len(packet) - Len(rest)
    BY <1>1 DEF StoreInv, Done
  <1>3. /\ n \in 0 .. Len(rest) /\ Regular(Allocated, perChunk)
        /\ Held(Allocated, perChunk) = h + n
    BY <1>1, Copying
  <1>4. /\ h \in Nat /\ Len(rest) \in Nat /\ Len(packet) \in Nat
        /\ \A m \in Nat : m < h => At(Allocated, perChunk, m) = At(chunks, perChunk, m)
    <2>1. \A m \in Nat : m < h => At(Allocated, perChunk, m) = At(chunks, perChunk, m)
      BY <1>1, Copying
    <2>2. h \in Nat
      BY <1>2, HeldType
    <2>3. Len(rest) \in Nat /\ Len(packet) \in Nat
      BY DEF StoreInv
    <2> QED BY <2>1, <2>2, <2>3
  <1>5. /\ rest' \in Seq(SampleValues) /\ Len(rest') = Len(rest) - n
        /\ \A j \in 1 .. Len(rest') : rest'[j] = rest[n + j]
        /\ rest' = <<>> <=> all
    BY <1>1, Remaining
  <1>6. ASSUME ~failed, NEW k \in 1 .. Done + n
        PROVE  At(Allocated, perChunk, count + k - 1) = packet[k]
    BY <1>1, <1>6, InPlace
  <1>7. CASE all
    <2>1. /\ rest' = <<>> /\ packet' = <<>> /\ count' = count + Len(packet)
          /\ Len(packet) = Done + n
      BY <1>1, <1>2, <1>3, <1>4, <1>5, <1>7
    <2>2. Done' = 0 /\ Len(rest') = 0 /\ <<>> \in Seq(SampleValues)
      <3>1. Len(packet') = 0 /\ Len(rest') = 0 /\ <<>> \in Seq(SampleValues)
        BY <2>1, EmptySeq
      <3> QED BY <3>1 DEF Done
    <2>3. count' \in Nat /\ count' <= h + n /\ (~failed => count' = h + n)
      <3> HIDE DEF h, n
      <3> QED BY <1>2, <1>3, <1>4, <2>1
    <2>4. StoreInv'
      <3>1. /\ perChunk' \in Nat \ {0} /\ Regular(chunks, perChunk)' /\ failed' \in BOOLEAN
            /\ Held(chunks, perChunk)' = h + n
        BY <1>1, <1>2, <1>3
      <3> HIDE DEF h, n
      <3>2. count' + Done' = count'
        <4>1. \A x \in Nat : x + 0 = x
          OBVIOUS
        <4> QED BY <2>2, <2>3, <4>1
      <3>3. /\ \A k \in 1 .. Done' : At(chunks, perChunk, count + k - 1)' = packet'[k]
            /\ \A j \in 1 .. Len(rest') : rest'[j] = packet'[Done' + j]
        BY <2>2
      <3> QED BY <1>1, <2>1, <2>2, <2>3, <3>1, <3>2, <3>3 DEF StoreInv
    <2>5. Sequence!Accept
      <3> DEFINE stored == [k \in 1 .. Len(packet) |-> At(Allocated, perChunk, count + k - 1)]
                 after  == Reads(Allocated, perChunk, count + Len(packet))
                 before == Reads(chunks, perChunk, count)
      <3>1. Content = before /\ Content' = after
        <4>1. (count \in Nat => Content = Reads(chunks, perChunk, count))'
          BY ContentRead, PTL
        <4> QED BY <1>1, <1>2, <2>1, <2>3, <4>1, ContentRead
      <3>2. /\ before \in Seq(SampleValues) /\ Len(before) = count
            /\ \A i \in 1 .. count : before[i] = At(chunks, perChunk, i - 1)
        <4>1. count <= h
          <5> HIDE DEF h
          <5> QED BY <1>2, <1>4
        <4> QED BY <1>2, <4>1, Readable
      <3>3. /\ after \in Seq(SampleValues) /\ Len(after) = count + Len(packet)
            /\ \A i \in 1 .. count + Len(packet) : after[i] = At(Allocated, perChunk, i - 1)
        <4>1. count + Len(packet) \in Nat /\ count + Len(packet) <= Held(Allocated, perChunk)
          <5> HIDE DEF h, n
          <5> QED BY <1>3, <2>1, <2>3
        <4> QED BY <1>2, <1>3, <4>1, Readable
      <3> HIDE DEF after, before
      <3>4. \A k \in 1 .. Len(packet) : stored[k] = after[count + k]
        <4>1. ASSUME NEW k \in 1 .. Len(packet) PROVE stored[k] = after[count + k]
          <5>1. count + k \in 1 .. count + Len(packet)
            BY <1>2, <1>4
          <5>2. (count + k) - 1 = count + k - 1
            BY <1>2, <1>4
          <5>3. stored[k] = At(Allocated, perChunk, count + k - 1)
            OBVIOUS
          <5>4. after[count + k] = At(Allocated, perChunk, (count + k) - 1)
            BY <3>3, <5>1
          <5> QED BY <5>2, <5>3, <5>4
        <4> QED BY <4>1
      <3>5. stored \in [1 .. Len(packet) -> SampleValues]
        <4>1. ASSUME NEW k \in 1 .. Len(packet) PROVE stored[k] \in SampleValues
          <5>1. count + k \in 1 .. Len(after)
            BY <1>2, <1>4, <3>3
          <5> QED BY <3>3, <3>4, <5>1, ElementOfSeq
        <4> QED BY <4>1
      <3>6. failed \/ stored = packet
        <4>1. ASSUME ~failed, NEW k \in 1 .. Len(packet) PROVE stored[k] = packet[k]
          BY <1>6, <2>1, <4>1
        <4> HIDE DEF stored
        <4> QED BY <1>2, <1>4, <3>5, <4>1
      <3> HIDE DEF stored
      <3>7. after = before \o stored
        <4>1. stored \in Seq(SampleValues) /\ Len(stored) = Len(packet)
          BY <1>4, <3>5
        <4>2. ASSUME NEW i \in 1 .. count + Len(packet)
              PROVE  after[i] = IF i <= count THEN before[i] ELSE stored[i - count]
          <5>1. CASE i <= count
            <6>1. i \in 1 .. count /\ i - 1 \in Nat /\ i - 1 < h
              <7> HIDE DEF h
              <7> QED BY <1>2, <1>4, <5>1
            <6> HIDE DEF h
            <6>2. At(Allocated, perChunk, i - 1) = At(chunks, perChunk, i - 1)
              BY <1>4, <6>1 DEF h
            <6> QED BY <3>2, <3>3, <5>1, <6>1, <6>2
          <5>2. CASE ~(i <= count)
            <6>1. i - count \in 1 .. Len(packet) /\ count + (i - count) = i
              BY <1>2, <1>4, <5>2
            <6> QED BY <3>4, <5>2, <6>1
          <5> QED BY <5>1, <5>2
        <4> HIDE DEF h, n
        <4>3. /\ before \o stored \in Seq(SampleValues) /\ Len(before \o stored) = count + Len(packet)
              /\ \A i \in 1 .. count + Len(packet) : (before \o stored)[i] =
                    IF i <= count THEN before[i] ELSE stored[i - count]
          <5>1. /\ before \o stored \in Seq(SampleValues)
                /\ Len(before \o stored) = Len(before) + Len(stored)
                /\ \A i \in 1 .. Len(before) + Len(stored) : (before \o stored)[i] =
                      IF i <= Len(before) THEN before[i] ELSE stored[i - Len(before)]
            BY <3>2, <4>1, ConcatProperties
          <5> QED BY <3>2, <4>1, <5>1
        <4> QED BY <3>3, <4>2, <4>3, SeqEqual
      <3>8. DOMAIN packet = 1 .. Len(packet)
        BY <1>2
      <3> QED BY <1>1, <1>2, <2>1, <3>1, <3>5, <3>6, <3>7, <3>8 DEF Sequence!Accept, SampleValues
    <2> QED BY <2>4, <2>5
  <1>8. CASE ~all
    <2>1. rest' # <<>> /\ packet' = packet /\ count' = count
      BY <1>1, <1>5, <1>8
    <2>2. Done' = Done + n
      <3>1. Done' = Len(packet) - (Len(rest) - n)
        BY <1>5, <2>1 DEF Done
      <3> HIDE DEF n
      <3> QED BY <1>2, <1>3, <1>4, <3>1
    <2>3. StoreInv'
      <3>1. /\ perChunk' \in Nat \ {0} /\ Regular(chunks, perChunk)' /\ failed' \in BOOLEAN
            /\ Held(chunks, perChunk)' = h + n /\ count' \in Nat
        BY <1>1, <1>2, <1>3, <2>1
      <3>2. /\ Done' \in Nat /\ count' + Done' <= h + n /\ (~failed => count' + Done' = h + n)
        <4> HIDE DEF h, n
        <4> QED BY <1>2, <1>3, <1>4, <2>1, <2>2
      <3>3. ASSUME ~failed, NEW k \in 1 .. Done'
            PROVE  At(chunks, perChunk, count + k - 1)' = packet'[k]
        BY <1>1, <1>6, <2>1, <2>2, <3>3
      <3>4. ASSUME ~failed, NEW j \in 1 .. Len(rest') PROVE rest'[j] = packet'[Done' + j]
        <4>1. n + j \in 1 .. Len(rest) /\ Done + (n + j) = Done' + j
          <5> HIDE DEF n
          <5> QED BY <1>2, <1>3, <1>4, <1>5, <2>2
        <4>2. rest[n + j] = packet[Done + (n + j)]
          BY <3>4, <4>1 DEF StoreInv
        <4> QED BY <1>5, <2>1, <4>1, <4>2
      <3> HIDE DEF h, n
      <3> QED BY <1>1, <1>2, <1>5, <2>1, <3>1, <3>2, <3>3, <3>4 DEF StoreInv
    <2>4. Content' = Content
      <3>1. Content = Reads(chunks, perChunk, count) /\ Content' = Reads(Allocated, perChunk, count)
        <4>1. (count \in Nat => Content = Reads(chunks, perChunk, count))'
          BY ContentRead, PTL
        <4> QED BY <1>1, <1>2, <2>1, <4>1, ContentRead
      <3>2. count <= h
        <4> HIDE DEF h
        <4> QED BY <1>2, <1>4
      <3>3. Reads(Allocated, perChunk, count) = Reads(chunks, perChunk, count)
        BY <1>2, <1>4, <3>2, SameRead
      <3> QED BY <3>1, <3>3
    <2> QED BY <1>1, <2>1, <2>3, <2>4
  <1> QED BY <1>7, <1>8

\* Memory runs out: the packet is lost as a whole, though part of it has been copied.
LEMMA FailStep ==
    ASSUME StoreInv, AllocationFails
    PROVE  StoreInv' /\ Sequence!Drop
  <1> DEFINE h == Held(chunks, perChunk)
             n == CopyCount
  <1>1. /\ rest # <<>> /\ chunks' = Copied /\ rest' = <<>> /\ packet' = <<>>
        /\ perChunk' = perChunk /\ count' = count /\ failed' = TRUE
    BY DEF AllocationFails
  <1>2. /\ perChunk \in Nat \ {0} /\ Regular(chunks, perChunk) /\ count \in Nat
        /\ packet # <<>> /\ Done \in Nat /\ count + Done <= h
    BY <1>1 DEF StoreInv
  <1>3. /\ n \in 0 .. Len(rest) /\ Regular(Copied, perChunk) /\ Held(Copied, perChunk) = h + n
        /\ \A m \in Nat : m < h => At(Copied, perChunk, m) = At(chunks, perChunk, m)
    BY <1>1, Copying
  <1>4. h \in Nat /\ Len(rest) \in Nat
    <2>1. h \in Nat
      BY <1>2, HeldType
    <2> QED BY <2>1 DEF StoreInv
  <1>5. StoreInv'
    <2>1. Len(packet') = 0 /\ Len(rest') = 0 /\ <<>> \in Seq(SampleValues)
      BY <1>1, EmptySeq
    <2>2. Done' = 0
      BY <2>1 DEF Done
    <2>3. Held(chunks, perChunk)' = h + n /\ Regular(chunks, perChunk)'
      BY <1>1, <1>3
    <2> HIDE DEF h, n
    <2>4. count + 0 <= h + n
      BY <1>2, <1>3, <1>4
    <2> QED BY <1>1, <1>2, <2>1, <2>2, <2>3, <2>4 DEF StoreInv
  <1>6. Content' = Content
    <2>1. Content = Reads(chunks, perChunk, count) /\ Content' = Reads(Copied, perChunk, count)
      <3>1. (count \in Nat => Content = Reads(chunks, perChunk, count))'
        BY ContentRead, PTL
      <3> QED BY <1>1, <1>2, <3>1, ContentRead
    <2>2. count <= h
      <3> HIDE DEF h
      <3> QED BY <1>2, <1>4
    <2>3. Reads(Copied, perChunk, count) = Reads(chunks, perChunk, count)
      BY <1>2, <1>3, <2>2, SameRead
    <2> QED BY <2>1, <2>3
  <1> QED BY <1>1, <1>2, <1>5, <1>6 DEF Sequence!Drop

LEMMA StoreInit == ASSUME SegmentAssumption, StorageInit PROVE StoreInv /\ Sequence!Init
  <1>1. /\ perChunk \in Nat \ {0} /\ chunks = << <<>> >> /\ count = 0
        /\ packet = <<>> /\ rest = <<>> /\ failed = FALSE
    BY DEF StorageInit, SegmentInit, SegmentAssumption
  <1>2. <<>> \in Seq(SampleValues) /\ Len(<<>>) = 0
    BY EmptySeq
  <1>3. Len(chunks) = 1 /\ chunks[1] = <<>> /\ chunks \in Seq(Seq(SampleValues)) /\ chunks # <<>>
    BY <1>1, <1>2
  <1>4. Regular(chunks, perChunk)
    BY <1>1, <1>2, <1>3 DEF Regular
  <1>5. Held(chunks, perChunk) = 0
    <2>1. Held(chunks, perChunk) = First(0, perChunk) + 0
      BY <1>2, <1>3 DEF Held
    <2> QED BY <1>1, <2>1 DEF First
  <1>6. Done = 0
    BY <1>1, <1>2 DEF Done
  <1>7. StoreInv
    <2>1. packet \in Seq(SampleValues) /\ rest \in Seq(SampleValues) /\ Len(rest) = 0
      BY <1>1, <1>2
    <2>2. count + Done = 0
      BY <1>1, <1>6
    <2>3. /\ \A k \in 1 .. Done : At(chunks, perChunk, count + k - 1) = packet[k]
          /\ \A j \in 1 .. Len(rest) : rest[j] = packet[Done + j]
      BY <1>6, <2>1
    <2>4. /\ count \in Nat /\ failed \in BOOLEAN /\ Done \in Nat
          /\ (rest = <<>> <=> packet = <<>>) /\ perChunk \in Nat \ {0}
      BY <1>1, <1>6
    <2>5. count + Done <= Held(chunks, perChunk) /\ count + Done = Held(chunks, perChunk)
      BY <1>5, <2>2
    <2> QED BY <1>4, <2>1, <2>3, <2>4, <2>5 DEF StoreInv
  <1>8. Content = <<>>
    BY <1>1 DEF Content, RawSamples
  <1> QED BY <1>1, <1>7, <1>8 DEF Sequence!Init

LEMMA StoreStep ==
    ASSUME SegmentAssumption, StoreInv, [StorageNext]_storageVars
    PROVE  StoreInv' /\ [Sequence!Next]_<<Content, packet, failed>>
  <1>1. CASE StorageNext
    <2>1. CASE \E given \in Seq(SampleValues) \ {<<>>} : AppendBegin(given)
      BY <2>1, BeginStep DEF Sequence!Next
    <2>2. CASE CopyRun
      BY <2>2, RunStep DEF Sequence!Next
    <2>3. CASE AllocationFails
      BY <2>3, FailStep DEF Sequence!Next
    <2> QED BY <1>1, <2>1, <2>2, <2>3, Appends
  <1>2. CASE UNCHANGED storageVars
    <2>1. UNCHANGED <<perChunk, chunks, count, packet, rest, failed>>
      BY <1>2 DEF storageVars, segmentVars
    <2>2. Done' = Done /\ Content' = Content
      BY <2>1 DEF Done, Content, RawSamples, RawSample
    <2>3. StoreInv'
      BY <2>1, <2>2 DEF StoreInv
    <2> QED BY <2>1, <2>2, <2>3
  <1> QED BY <1>1, <1>2

-----------------------------------------------------------------------------
(* Theorems                                                                *)

\* Until memory runs out every sample copied is where readers will look for it, and the
\* chunks are full but for the last (append_samples() of segment.cpp).
THEOREM StoredInPlace == StorageSpec => []StoreInv
  <1>1. StorageInit => StoreInv
    BY StoreInit, SegmentAssumption
  <1>2. StoreInv /\ [StorageNext]_storageVars => StoreInv'
    BY StoreStep, SegmentAssumption
  <1> QED BY <1>1, <1>2, PTL DEF StorageSpec

\* Whatever the sizes of packets and chunks, a segment is to its readers a sequence to
\* which packets are appended whole and in order or, when memory has run out, not at
\* all; what could be read before is never changed (append_samples() and
\* get_raw_samples() of segment.cpp).
THEOREM ImplementsSequence == StorageSpec => SequenceSpec
  <1>1. StorageInit => Sequence!Init
    BY StoreInit, SegmentAssumption
  <1>2. StoreInv /\ [StorageNext]_storageVars => [Sequence!Next]_<<Content, packet, failed>>
    BY StoreStep, SegmentAssumption
  <1> QED BY <1>1, <1>2, StoredInPlace, PTL DEF StorageSpec, SequenceSpec, Sequence!Spec
=============================================================================
