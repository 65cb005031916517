--------------------------- MODULE Annotation_proofs ------------------------
(***************************************************************************)
(* Proofs about the annotations of a decode signal: the index of a row is  *)
(* exact whatever the order of arrival, the list of all annotations points *)
(* to each of them once, and the table shows what passes its filters.      *)
(***************************************************************************)
EXTENDS AnnotationProperties, FiniteSetTheorems, FunctionTheorems, SequenceTheorems, TLAPS

-----------------------------------------------------------------------------
(* Numbers and sequences                                                   *)

LEMMA LeastNumber ==
    ASSUME NEW T, T \subseteq Nat, T # {}
    PROVE  \E x \in T : \A y \in T : x <= y
  <1> DEFINE R == {ss \in Nat \X Nat : ss[1] < ss[2]}
  <1>1. IsWellFoundedOn(R, Nat)
    <2>1. R = OpToRel(<, Nat)
      BY DEF OpToRel
    <2> QED BY <2>1, NatLessThanWellFounded
  <1> HIDE DEF R
  <1>2. PICK x \in T : \A y \in T : ~ (<<y, x>> \in R)
    BY <1>1, WFMin
  <1>3. ASSUME NEW y \in T PROVE x <= y
    <2>1. ~ (<<y, x>> \in R) /\ x \in Nat /\ y \in Nat
      BY <1>2
    <2> QED BY <2>1 DEF R
  <1> QED BY <1>3

LEMMA MaxOf ==
    ASSUME NEW T, T \subseteq Nat, T # {}, NEW n \in Nat, \A x \in T : x <= n
    PROVE  Max(T) \in T /\ \A x \in T : x <= Max(T)
  <1> DEFINE U == {u \in Nat : \A x \in T : x <= u}
  <1>1. PICK m \in U : \A u \in U : m <= u
    <2>1. n \in U /\ U \subseteq Nat
      OBVIOUS
    <2> HIDE DEF U
    <2> QED BY <2>1, LeastNumber
  <1>2. m \in T
    <2>1. SUFFICES ASSUME m \notin T PROVE FALSE
      OBVIOUS
    <2>2. PICK x \in T : TRUE
      OBVIOUS
    <2>3. m \in Nat /\ m >= 1 /\ \A y \in T : y <= m - 1
      BY <1>1, <2>1, <2>2
    <2>4. m - 1 \in U
      BY <2>3
    <2> QED BY <1>1, <2>3, <2>4
  <1>3. \A x \in T : m >= x
    BY <1>1
  <1>4. Max(T) \in T /\ \A x \in T : Max(T) >= x
    BY <1>2, <1>3 DEF Max
  <1> QED BY <1>4

LEMMA MinOfTwo ==
    ASSUME NEW a \in Nat, NEW b \in Nat PROVE Min({a, b}) = IF a <= b THEN a ELSE b
  BY DEF Min

\* A set of numbers above a that has no gaps below its elements.
LEMMA Initial ==
    ASSUME NEW a \in Nat, NEW n \in Nat, NEW T, T \subseteq a + 1 .. n,
           \A x \in T : \A y \in a + 1 .. x : y \in T
    PROVE  Cardinality(T) \in Nat /\ T = a + 1 .. a + Cardinality(T)
  <1>1. CASE T = {}
    BY <1>1, FS_EmptySet
  <1>2. CASE T # {}
    <2> DEFINE m == Max(T)
    <2>1. m \in T /\ \A x \in T : x <= m
      <3>1. T \subseteq Nat /\ \A x \in T : x <= n
        OBVIOUS
      <3> QED BY <1>2, <3>1, MaxOf
    <2> HIDE DEF m
    <2>2. m \in Nat /\ a < m
      BY <2>1
    <2>3. T = a + 1 .. m
      <3>1. ASSUME NEW x \in T PROVE x \in a + 1 .. m
        BY <2>1, <2>2
      <3>2. \A x \in a + 1 .. m : x \in T
        BY <2>1
      <3> QED BY <3>1, <3>2
    <2>4. Cardinality(a + 1 .. m) = m - a
      BY <2>2, FS_Interval
    <2> QED BY <2>2, <2>3, <2>4
  <1> QED BY <1>1, <1>2

\* new is s with e at position p.
Insertion(new, s, p, e) ==
    /\ Len(new) = Len(s) + 1
    /\ \A i \in 1 .. Len(s) + 1 :
            new[i] = IF i < p THEN s[i] ELSE IF i = p THEN e ELSE s[i - 1]

LEMMA Inserted ==
    ASSUME NEW S, NEW s \in Seq(S), NEW e \in S, NEW p \in 1 .. Len(s) + 1
    PROVE  InsertAt(s, p, e) \in Seq(S) /\ Insertion(InsertAt(s, p, e), s, p, e)
  <1> DEFINE a == SubSeq(s, 1, p - 1)
             b == SubSeq(s, p, Len(s))
  <1>1. a \in Seq(S) /\ Len(a) = p - 1 /\ \A i \in 1 .. p - 1 : a[i] = s[i]
    OBVIOUS
  <1>2. b \in Seq(S) /\ Len(b) = Len(s) - p + 1 /\ \A i \in 1 .. Len(s) - p + 1 : b[i] = s[p + i - 1]
    OBVIOUS
  <1> HIDE DEF a, b
  <1>3. /\ a \o <<e>> \in Seq(S) /\ Len(a \o <<e>>) = p /\ (a \o <<e>>)[p] = e
        /\ \A i \in 1 .. p - 1 : (a \o <<e>>)[i] = s[i]
    BY <1>1
  <1> DEFINE c == a \o <<e>>
  <1> HIDE DEF c
  <1>4. /\ c \in Seq(S) /\ Len(c) = p /\ c[p] = e /\ \A i \in 1 .. p - 1 : c[i] = s[i]
    BY <1>3 DEF c
  <1>5. /\ c \o b \in Seq(S) /\ Len(c \o b) = Len(s) + 1
        /\ \A i \in 1 .. Len(s) + 1 :
              (c \o b)[i] = IF i < p THEN s[i] ELSE IF i = p THEN e ELSE s[i - 1]
    <2>1. /\ c \o b \in Seq(S) /\ Len(c \o b) = Len(c) + Len(b)
          /\ \A i \in 1 .. Len(c) + Len(b) :
                (c \o b)[i] = IF i <= Len(c) THEN c[i] ELSE b[i - Len(c)]
      BY <1>2, <1>4, ConcatProperties
    <2>2. Len(c) + Len(b) = Len(s) + 1
      BY <1>2, <1>4
    <2>3. ASSUME NEW i \in 1 .. Len(s) + 1
          PROVE  (c \o b)[i] = IF i < p THEN s[i] ELSE IF i = p THEN e ELSE s[i - 1]
      <3>1. (c \o b)[i] = IF i <= p THEN c[i] ELSE b[i - p]
        BY <2>1, <2>2, <1>4
      <3>2. CASE i <= p
        BY <3>1, <3>2, <1>4
      <3>3. CASE i > p
        <4>1. i - p \in 1 .. Len(s) - p + 1 /\ p + (i - p) - 1 = i - 1
          BY <3>3
        <4> QED BY <3>1, <3>3, <4>1, <1>2
      <3>4. i <= p \/ i > p
        OBVIOUS
      <3> QED BY <3>2, <3>3, <3>4
    <2> QED BY <2>1, <2>2, <2>3
  <1> QED BY <1>5 DEF InsertAt, Insertion, a, b, c

-----------------------------------------------------------------------------
(* The blocks of the index                                                 *)

Size == IndexBlockSize
EndOf(block) == block * IndexBlockSize

LEMMA SizeType == Size \in Nat \ {0}
  BY AnnotationAssumption DEF Size

LEMMA EndsOfBlocks ==
    ASSUME NEW b \in Nat
    PROVE  /\ EndOf(b) \in Nat /\ EndOf(b + 1) = EndOf(b) + Size /\ EndOf(0) = 0
           /\ \A c \in Nat : b <= c => EndOf(b) <= EndOf(c)
  <1>1. EndOf(b) \in Nat /\ EndOf(b + 1) = EndOf(b) + Size /\ EndOf(0) = 0
    BY SizeType DEF EndOf, Size
  <1>2. ASSUME NEW c \in Nat, b <= c PROVE EndOf(b) <= EndOf(c)
    BY <1>2, SizeType DEF EndOf, Size
  <1> QED BY <1>1, <1>2

LEMMA Quotient ==
    ASSUME NEW n \in Nat
    PROVE  /\ n \div Size \in Nat
           /\ EndOf(n \div Size) <= n /\ n < EndOf(n \div Size) + Size
  BY SizeType DEF EndOf, Size

LEMMA BlocksOf ==
    ASSUME NEW n \in Nat
    PROVE  /\ Blocks(n) \in Nat /\ n <= EndOf(Blocks(n)) /\ EndOf(Blocks(n)) < n + Size
           /\ \A b \in Nat : n <= EndOf(b) => Blocks(n) <= b
  <1>1. n + Size - 1 \in Nat /\ Blocks(n) = (n + Size - 1) \div Size
    BY SizeType DEF Blocks, Size
  <1>2. /\ Blocks(n) \in Nat /\ EndOf(Blocks(n)) <= n + Size - 1
        /\ n + Size - 1 < EndOf(Blocks(n)) + Size
    BY <1>1, Quotient
  <1>3. EndOf(Blocks(n)) \in Nat
    BY <1>2, EndsOfBlocks
  <1>4. ASSUME NEW b \in Nat, n <= EndOf(b) PROVE Blocks(n) <= b
    <2>1. SUFFICES ASSUME b + 1 <= Blocks(n) PROVE FALSE
      BY <1>2
    <2>2. EndOf(b + 1) <= EndOf(Blocks(n)) /\ EndOf(b + 1) = EndOf(b) + Size /\ EndOf(b) \in Nat
      BY <1>2, <2>1, EndsOfBlocks
    <2> QED BY <1>2, <1>3, <1>4, <2>2, SizeType
  <1> QED BY <1>2, <1>3, <1>4, SizeType

-----------------------------------------------------------------------------
(* A row                                                                   *)

Annotations == [start : Nat, end : Nat, class : Classes]
RowType == [list : Seq(Annotations), base : Int, latest : Nat, maxEnds : Seq(Nat)]

LEMMA Elements ==
    ASSUME NEW list \in Seq(Annotations)
    PROVE  /\ Len(list) \in Nat /\ DOMAIN list = 1 .. Len(list)
           /\ \A i \in 1 .. Len(list) : /\ list[i] \in Annotations
                                       /\ list[i].start \in Nat /\ list[i].end \in Nat
                                       /\ list[i].class \in Classes
  <1>1. ASSUME NEW a \in Annotations
        PROVE  a.start \in Nat /\ a.end \in Nat /\ a.class \in Classes
    BY DEF Annotations
  <1>2. Len(list) \in Nat /\ DOMAIN list = 1 .. Len(list)
    OBVIOUS
  <1>3. \A i \in 1 .. Len(list) : list[i] \in Annotations
    OBVIOUS
  <1> QED BY <1>1, <1>2, <1>3

\* The last annotations of a row start where the one appended last starts, and none later.
Latest(row) ==
    /\ row.list = <<>> => row.latest = 0
    /\ row.list # <<>> => row.list[Len(row.list)].start = row.latest
    /\ \A i \in DOMAIN row.list : row.list[i].start <= row.latest
    /\ \A i, j \in DOMAIN row.list :
        i <= j /\ row.list[i].start = row.latest => row.list[j].start = row.latest

\* m is the greatest end of the first n of a list.
Greatest(m, list, n) ==
    /\ \A i \in DOMAIN list : i <= n => list[i].end <= m
    /\ \E i \in DOMAIN list : i <= n /\ list[i].end = m

Indexed(maxEnds, list) ==
    /\ Len(maxEnds) = Blocks(Len(list))
    /\ \A b \in DOMAIN maxEnds : Greatest(maxEnds[b], list, EndOf(b))

RowInv(row) == row \in RowType /\ Latest(row) /\ Indexed(row.maxEnds, row.list)

LEMMA GreatestOf ==
    ASSUME NEW list \in Seq(Annotations), NEW maxEnds \in Seq(Nat), Indexed(maxEnds, list),
           NEW b \in 1 .. Len(maxEnds)
    PROVE  /\ maxEnds[b] \in Nat
           /\ \A i \in 1 .. Len(list) : i <= EndOf(b) => list[i].end <= maxEnds[b]
           /\ \E i \in 1 .. Len(list) : i <= EndOf(b) /\ list[i].end = maxEnds[b]
  <1>1. b \in DOMAIN maxEnds /\ maxEnds[b] \in Nat
    OBVIOUS
  <1>2. Greatest(maxEnds[b], list, EndOf(b))
    BY <1>1 DEF Indexed
  <1>3. DOMAIN list = 1 .. Len(list)
    OBVIOUS
  <1> QED BY <1>1, <1>2, <1>3 DEF Greatest

LEMMA Position ==
    ASSUME NEW row \in RowType, Latest(row), NEW ann \in Annotations
    PROVE  LET n == Len(row.list)
               p == RowPosition(row, ann)
           IN /\ n \in Nat /\ p \in 1 .. n + 1
              /\ ~ OutOfOrder(row, ann) => p = n + 1 /\ row.latest <= ann.start
              /\ OutOfOrder(row, ann) =>
                    /\ p <= n /\ p # 2
                    /\ p > 1 => row.list[p - 1].start <= ann.start
                    /\ \A i \in 2 .. n : p <= i => ann.start < row.list[i].start
  <1> DEFINE list == row.list
             n == Len(list)
             p == RowPosition(row, ann)
             E == {i \in DOMAIN list : list[i].start <= ann.start}
  <1>1. /\ list \in Seq(Annotations) /\ n \in Nat /\ DOMAIN list = 1 .. n /\ row.latest \in Nat
        /\ ann.start \in Nat /\ \A i \in 1 .. n : list[i].start \in Nat
    <2>1. list \in Seq(Annotations) /\ row.latest \in Nat
      BY DEF RowType
    <2>2. ann.start \in Nat
      BY DEF Annotations
    <2> HIDE DEF list
    <2> QED BY <2>1, <2>2, Elements
  <1>2. ASSUME ~ OutOfOrder(row, ann) PROVE p = n + 1 /\ row.latest <= ann.start
    BY <1>1, <1>2 DEF RowPosition, OutOfOrder
  <1>3. ASSUME OutOfOrder(row, ann)
        PROVE  /\ p \in 1 .. n /\ p # 2
               /\ p > 1 => list[p - 1].start <= ann.start
               /\ \A i \in 2 .. n : p <= i => ann.start < list[i].start
    <2>1. ann.start < row.latest /\ p = InsertPosition(E)
      BY <1>3 DEF RowPosition, OutOfOrder
    <2>2. n >= 1 /\ n \notin E
      <3>1. list # <<>>
        BY <1>1, <2>1 DEF Latest
      <3> QED BY <1>1, <2>1, <3>1 DEF Latest
    <2>5. \A i : i \in E <=> i \in 1 .. n /\ list[i].start <= ann.start
      BY <1>1
    <2> HIDE DEF E
    <2>3. CASE E \subseteq {1}
      <3>1. p = 1
        BY <2>1, <2>3 DEF InsertPosition
      <3>2. ASSUME NEW i \in 2 .. n PROVE ann.start < list[i].start
        <4>1. i \notin E /\ i \in 1 .. n
          BY <1>1, <2>3
        <4> QED BY <1>1, <2>5, <4>1
      <3> QED BY <2>2, <3>1, <3>2, <1>1
    <2>4. CASE ~ (E \subseteq {1})
      <3>1. E \subseteq Nat /\ E # {} /\ \A i \in E : i <= n
        BY <1>1, <2>4, <2>5
      <3>2. Max(E) \in E /\ \A i \in E : i <= Max(E)
        BY <1>1, <3>1, MaxOf
      <3>3. p = Max(E) + 1
        BY <2>1, <2>4 DEF InsertPosition
      <3> DEFINE m == Max(E)
      <3>4. m \in 1 .. n - 1 /\ list[m].start <= ann.start
        BY <1>1, <2>2, <2>5, <3>2
      <3>5. m # 1
        <4>1. PICK i \in E : i # 1
          BY <2>4
        <4>2. i \in 1 .. n /\ i <= m
          BY <2>5, <3>2
        <4> HIDE DEF m
        <4> QED BY <3>4, <4>1, <4>2, <1>1
      <3>6. ASSUME NEW i \in 2 .. n, p <= i PROVE ann.start < list[i].start
        <4>1. i \notin E
          <5>1. m + 1 <= i /\ m \in Nat /\ i \in Nat
            BY <3>3, <3>4, <3>6
          <5>2. i \in E => i <= m
            BY <3>2
          <5> HIDE DEF m
          <5> QED BY <5>1, <5>2
        <4> QED BY <4>1, <1>1, <2>5
      <3>7. p = m + 1
        BY <3>3
      <3> HIDE DEF m
      <3> QED BY <3>4, <3>5, <3>6, <3>7, <1>1
    <2> QED BY <2>3, <2>4
  <1> QED BY <1>1, <1>2, <1>3

LEMMA MaxOfTwo ==
    ASSUME NEW a \in Nat, NEW b \in Nat
    PROVE  /\ Max({a}) = a
           /\ Max({a} \union {b}) \in {a, b} /\ a <= Max({a} \union {b}) /\ b <= Max({a} \union {b})
  <1>1. {a} \subseteq Nat /\ {a} # {} /\ \A x \in {a} : x <= a
    OBVIOUS
  <1>2. Max({a}) \in {a}
    BY <1>1, MaxOf
  <1> DEFINE T == {a} \union {b}
  <1>3. T \subseteq Nat /\ T # {} /\ a + b \in Nat /\ \A x \in T : x <= a + b
    OBVIOUS
  <1>4. Max(T) \in T /\ \A x \in T : x <= Max(T)
    BY <1>3, MaxOf
  <1> QED BY <1>2, <1>4

\* One more at the end of a list: in the last block, or in a new one.
LEMMA IndexAppended ==
    ASSUME NEW list \in Seq(Annotations), NEW maxEnds \in Seq(Nat), Indexed(maxEnds, list),
           NEW ann \in Annotations, NEW new \in Seq(Annotations),
           Len(new) = Len(list) + 1, new[Len(list) + 1] = ann,
           \A i \in 1 .. Len(list) : new[i] = list[i],
           NEW end \in Nat, ann.end <= end,
           Len(maxEnds) = 0 => end = ann.end,
           Len(maxEnds) # 0 => /\ end \in {ann.end, maxEnds[Len(maxEnds)]}
                               /\ maxEnds[Len(maxEnds)] <= end
    PROVE  LET index == IF Blocks(Len(new)) > Len(maxEnds) THEN Append(maxEnds, end)
                        ELSE [maxEnds EXCEPT ![Len(maxEnds)] = end]
           IN index \in Seq(Nat) /\ Indexed(index, new)
  <1> DEFINE n == Len(list)
             B == Len(maxEnds)
  <1>1. /\ n \in Nat /\ B \in Nat /\ B = Blocks(n) /\ ann.end \in Nat
        /\ DOMAIN list = 1 .. n /\ DOMAIN new = 1 .. n + 1 /\ DOMAIN maxEnds = 1 .. B
        /\ \A i \in 1 .. n : list[i].end \in Nat
    <2>1. ann.end \in Nat
      BY DEF Annotations
    <2>2. B = Blocks(n)
      BY DEF Indexed
    <2> QED BY <2>1, <2>2, Elements
  <1>2. /\ n <= EndOf(B) /\ EndOf(B) \in Nat
        /\ \A b \in Nat : n <= EndOf(b) => B <= b
    BY <1>1, BlocksOf, EndsOfBlocks
  <1>3. /\ Blocks(n + 1) \in Nat /\ n + 1 <= EndOf(Blocks(n + 1))
        /\ \A b \in Nat : n + 1 <= EndOf(b) => Blocks(n + 1) <= b
    BY <1>1, BlocksOf
  <1>4. B <= Blocks(n + 1) /\ Blocks(n + 1) <= B + 1
    <2>1. EndOf(B + 1) = EndOf(B) + Size
      BY <1>1, EndsOfBlocks
    <2>2. n + 1 <= EndOf(B + 1)
      BY <1>1, <1>2, <2>1, SizeType
    <2>3. EndOf(Blocks(n + 1)) \in Nat
      BY <1>3, EndsOfBlocks
    <2> QED BY <1>1, <1>2, <1>3, <2>2, <2>3
  <1>5. ASSUME B # 0
        PROVE  /\ \A i \in 1 .. n : list[i].end <= maxEnds[B]
               /\ \E i \in 1 .. n : list[i].end = maxEnds[B]
    <2>1. /\ \A i \in 1 .. n : i <= EndOf(B) => list[i].end <= maxEnds[B]
          /\ \E i \in 1 .. n : i <= EndOf(B) /\ list[i].end = maxEnds[B]
      <3>1. B \in 1 .. B
        BY <1>1, <1>5
      <3> HIDE DEF B, n
      <3> QED BY <3>1, GreatestOf DEF B, n
    <2>2. \A i \in 1 .. n : i <= EndOf(B)
      BY <1>1, <1>2
    <2> QED BY <2>1, <2>2
  <1>6. B = 0 <=> n = 0
    <2>1. EndOf(0) = 0
      BY EndsOfBlocks
    <2> QED BY <1>1, <1>2, <2>1
  <1>7. Greatest(end, new, n + 1)
    <2>1. ASSUME NEW i \in 1 .. n + 1 PROVE new[i].end <= end
      <3>1. CASE i = n + 1
        BY <3>1
      <3>2. CASE i \in 1 .. n
        <4>1. B # 0 /\ new[i] = list[i]
          BY <1>1, <1>6, <3>2
        <4>2. list[i].end <= maxEnds[B] /\ maxEnds[B] <= end /\ list[i].end \in Nat
          BY <1>1, <1>5, <3>2, <4>1
        <4>3. maxEnds[B] \in Nat
          BY <1>1, <4>1
        <4> QED BY <4>1, <4>2, <4>3
      <3> QED BY <1>1, <3>1, <3>2
    <2>2. \E i \in 1 .. n + 1 : new[i].end = end
      <3>1. CASE end = ann.end
        <4>1. n + 1 \in 1 .. n + 1
          BY <1>1
        <4> QED BY <3>1, <4>1
      <3>2. CASE B # 0 /\ end = maxEnds[B]
        <4>1. PICK i \in 1 .. n : list[i].end = maxEnds[B]
          BY <1>5, <3>2
        <4>2. i \in 1 .. n + 1 /\ new[i] = list[i]
          BY <1>1
        <4> QED BY <3>2, <4>1, <4>2
      <3> QED BY <3>1, <3>2
    <2>3. \A i \in 1 .. n + 1 : i <= n + 1
      BY <1>1
    <2> QED BY <1>1, <2>1, <2>2, <2>3 DEF Greatest
  \* what was indexed before the last block stays
  <1>8. ASSUME NEW b \in 1 .. B, EndOf(b) <= n PROVE Greatest(maxEnds[b], new, EndOf(b))
    <2>1. EndOf(b) \in Nat
      BY EndsOfBlocks
    <2>2. /\ \A i \in 1 .. n : i <= EndOf(b) => list[i].end <= maxEnds[b]
          /\ \E i \in 1 .. n : i <= EndOf(b) /\ list[i].end = maxEnds[b]
      BY GreatestOf
    <2>3. \A i \in 1 .. n + 1 : i <= EndOf(b) => i \in 1 .. n /\ new[i] = list[i]
      BY <1>1, <1>8, <2>1
    <2>4. \A i \in 1 .. n : i \in 1 .. n + 1 /\ new[i] = list[i]
      BY <1>1
    <2> QED BY <1>1, <2>2, <2>3, <2>4 DEF Greatest
  <1>9. ASSUME NEW m, NEW b \in Nat, n + 1 <= EndOf(b), Greatest(m, new, n + 1)
        PROVE  Greatest(m, new, EndOf(b))
    <2>1. EndOf(b) \in Nat
      BY EndsOfBlocks
    <2> QED BY <1>1, <1>9, <2>1 DEF Greatest
  <1>10. CASE Blocks(n + 1) > B
    <2> DEFINE index == Append(maxEnds, end)
    <2>1. /\ index \in Seq(Nat) /\ Len(index) = B + 1 /\ index[B + 1] = end
          /\ \A b \in 1 .. B : index[b] = maxEnds[b]
      BY <1>1, <1>7
    <2>2. Blocks(n + 1) = B + 1
      BY <1>1, <1>3, <1>4, <1>10
    <2>3. EndOf(B) <= n
      BY <1>1, <1>2, <1>3, <1>10
    <2>4. ASSUME NEW b \in 1 .. B + 1 PROVE Greatest(index[b], new, EndOf(b))
      <3>1. CASE b <= B
        <4>1. EndOf(b) <= EndOf(B) /\ EndOf(b) \in Nat
          BY <1>1, <3>1, EndsOfBlocks
        <4>2. b \in 1 .. B /\ EndOf(b) <= n
          BY <1>1, <1>2, <2>3, <3>1, <4>1
        <4> QED BY <1>8, <2>1, <4>2
      <3>2. CASE b = B + 1
        BY <1>1, <1>3, <1>7, <1>9, <2>1, <2>2, <3>2
      <3> QED BY <1>1, <3>1, <3>2
    <2> HIDE DEF index
    <2>5. Indexed(index, new)
      BY <1>1, <2>1, <2>2, <2>4 DEF Indexed
    <2> QED BY <1>1, <1>10, <2>1, <2>5 DEF index
  <1>11. CASE ~ (Blocks(n + 1) > B)
    <2> DEFINE index == [maxEnds EXCEPT ![B] = end]
    <2>1. Blocks(n + 1) = B /\ B # 0
      <3>1. EndOf(0) = 0
        BY EndsOfBlocks
      <3> QED BY <1>1, <1>3, <1>4, <1>11, <3>1
    <2>2. /\ index \in Seq(Nat) /\ Len(index) = B /\ index[B] = end
          /\ \A b \in 1 .. B : b # B => index[b] = maxEnds[b]
      BY <1>1, <1>7, <2>1
    <2>3. ASSUME NEW b \in 1 .. B PROVE Greatest(index[b], new, EndOf(b))
      <3>1. CASE b < B
        <4>1. EndOf(b) \in Nat
          BY EndsOfBlocks
        <4>2. EndOf(b) <= n
          BY <1>1, <1>2, <3>1, <4>1
        <4>3. index[b] = maxEnds[b]
          BY <1>1, <2>2, <3>1
        <4> HIDE DEF index
        <4> QED BY <1>8, <4>2, <4>3
      <3>2. CASE b = B
        BY <1>1, <1>3, <1>7, <1>9, <2>1, <2>2, <3>2
      <3> QED BY <1>1, <3>1, <3>2
    <2> HIDE DEF index
    <2>4. Indexed(index, new)
      BY <1>1, <2>1, <2>2, <2>3 DEF Indexed
    <2> QED BY <1>1, <1>11, <2>2, <2>4 DEF index
  <1> QED BY <1>10, <1>11

\* One more within a list: all blocks from its own one on are made anew.
LEMMA IndexInserted ==
    ASSUME NEW list \in Seq(Annotations), NEW maxEnds \in Seq(Nat), Indexed(maxEnds, list),
           NEW ann \in Annotations, NEW new \in Seq(Annotations), NEW p \in 1 .. Len(list),
           Len(new) = Len(list) + 1,
           \A i \in 1 .. Len(list) + 1 :
              new[i] = IF i < p THEN list[i] ELSE IF i = p THEN ann ELSE list[i - 1]
    PROVE  Reindexed(maxEnds, new, p) \in Seq(Nat) /\ Indexed(Reindexed(maxEnds, new, p), new)
  <1> DEFINE n == Len(list)
             B == Len(maxEnds)
             first == (p - 1) \div IndexBlockSize
             before == IF first = 0 THEN {0} ELSE {maxEnds[first]}
             upto(b) == Min({b * IndexBlockSize, Len(new)})
             ends(b) == {new[i].end : i \in first * IndexBlockSize + 1 .. upto(b)}
             index == Reindexed(maxEnds, new, p)
             R == Blocks(n + 1)
  <1>1. /\ n \in Nat /\ B \in Nat /\ B = Blocks(n) /\ ann.end \in Nat
        /\ DOMAIN list = 1 .. n /\ DOMAIN new = 1 .. n + 1 /\ DOMAIN maxEnds = 1 .. B
        /\ \A i \in 1 .. n : list[i].end \in Nat
        /\ \A i \in 1 .. n + 1 : new[i].end \in Nat
    <2>1. ann.end \in Nat
      BY DEF Annotations
    <2>2. B = Blocks(n) /\ B \in Nat /\ DOMAIN maxEnds = 1 .. B
      BY DEF Indexed
    <2>3. /\ n \in Nat /\ DOMAIN list = 1 .. n /\ \A i \in 1 .. n : list[i].end \in Nat
      BY Elements
    <2>4. /\ DOMAIN new = 1 .. n + 1 /\ \A i \in 1 .. n + 1 : new[i].end \in Nat
      BY Elements
    <2> QED BY <2>1, <2>2, <2>3, <2>4
  <1>2. index = [b \in 1 .. R |-> IF b <= first THEN maxEnds[b] ELSE Max(before \union ends(b))]
    BY DEF Reindexed
  <1>3. first \in Nat /\ EndOf(first) <= p - 1 /\ EndOf(first) \in Nat
    <2>1. p - 1 \in Nat
      OBVIOUS
    <2>2. first = (p - 1) \div Size
      BY DEF Size
    <2> HIDE DEF first
    <2> QED BY <2>1, <2>2, Quotient, EndsOfBlocks
  <1>4. n <= EndOf(B) /\ EndOf(B) \in Nat /\ B # 0
    <2>1. n <= EndOf(B) /\ EndOf(0) = 0 /\ EndOf(B) \in Nat
      BY <1>1, BlocksOf, EndsOfBlocks
    <2> QED BY <1>1, <2>1
  <1>5. first < B
    <2>1. SUFFICES ASSUME B <= first PROVE FALSE
      BY <1>1, <1>3
    <2> HIDE DEF first
    <2>2. EndOf(B) <= EndOf(first)
      BY <1>1, <1>3, <2>1, EndsOfBlocks
    <2> QED BY <1>1, <1>3, <1>4, <2>2
  <1> DEFINE bound == maxEnds[B] + ann.end
  <1>6. bound \in Nat /\ \A i \in 1 .. n + 1 : new[i].end <= bound
    <2>1. maxEnds[B] \in Nat /\ \A i \in 1 .. n : list[i].end <= maxEnds[B]
      <3>1. B \in 1 .. B
        BY <1>1, <1>4
      <3>2. maxEnds[B] \in Nat /\ \A i \in 1 .. n : i <= EndOf(B) => list[i].end <= maxEnds[B]
        BY <3>1, GreatestOf
      <3>3. \A i \in 1 .. n : i <= EndOf(B)
        BY <1>1, <1>4
      <3> QED BY <3>2, <3>3
    <2>2. ASSUME NEW i \in 1 .. n + 1 PROVE new[i].end <= bound
      <3>1. CASE i < p
        BY <3>1, <1>1, <2>1
      <3>2. CASE i = p
        BY <3>2, <1>1, <2>1
      <3>3. CASE i > p
        <4>1. i - 1 \in 1 .. n /\ new[i] = list[i - 1]
          BY <3>3, <1>1
        <4>2. list[i - 1].end \in Nat /\ list[i - 1].end <= maxEnds[B]
          BY <4>1, <1>1, <2>1
        <4> QED BY <4>1, <4>2, <1>1, <2>1
      <3>4. i \in Nat /\ p \in Nat
        OBVIOUS
      <3> QED BY <3>1, <3>2, <3>3, <3>4
    <2> QED BY <1>1, <2>1, <2>2
  <1>7. ASSUME NEW b \in 1 .. first
        PROVE  maxEnds[b] \in Nat /\ Greatest(maxEnds[b], new, EndOf(b))
    <2> HIDE DEF first
    <2>1. EndOf(b) <= EndOf(first) /\ EndOf(b) \in Nat /\ b \in 1 .. B
      <3>1. b \in Nat /\ b <= first /\ b \in 1 .. B
        BY <1>1, <1>3, <1>5
      <3> QED BY <1>3, <3>1, EndsOfBlocks
    <2>2. EndOf(b) <= p - 1
      BY <1>3, <2>1
    <2>3. /\ \A i \in 1 .. n : i <= EndOf(b) => list[i].end <= maxEnds[b]
          /\ \E i \in 1 .. n : i <= EndOf(b) /\ list[i].end = maxEnds[b]
      BY <2>1, GreatestOf
    <2>4. \A i \in 1 .. n + 1 : i <= EndOf(b) => i \in 1 .. n /\ new[i] = list[i]
      BY <1>1, <2>1, <2>2
    <2>5. \A i \in 1 .. n : i <= EndOf(b) => i \in 1 .. n + 1 /\ new[i] = list[i]
      BY <1>1, <2>1, <2>2
    <2> QED BY <1>1, <2>1, <2>3, <2>4, <2>5 DEF Greatest
  <1>9. R \in Nat
    BY <1>1, BlocksOf
  <1>8. ASSUME NEW b \in 1 .. R, first < b
        PROVE  /\ Max(before \union ends(b)) \in Nat
               /\ Greatest(Max(before \union ends(b)), new, EndOf(b))
    <2> DEFINE T == before \union ends(b)
               m == Max(T)
    <2>1. /\ EndOf(first + 1) <= EndOf(b) /\ EndOf(first + 1) = EndOf(first) + Size
          /\ EndOf(b) \in Nat
      <3> HIDE DEF first, R
      <3>1. first + 1 \in Nat /\ b \in Nat /\ first + 1 <= b
        BY <1>3, <1>8, <1>9
      <3>2. EndOf(first + 1) = EndOf(first) + Size
        BY <1>3, EndsOfBlocks
      <3>3. EndOf(first + 1) <= EndOf(b) /\ EndOf(b) \in Nat
        BY <3>1, EndsOfBlocks
      <3> QED BY <3>2, <3>3
    <2>2. EndOf(first) + 1 <= EndOf(b)
      BY <1>3, <2>1, SizeType
    <2>3. upto(b) = IF EndOf(b) <= n + 1 THEN EndOf(b) ELSE n + 1
      <3>1. upto(b) = Min({EndOf(b), n + 1})
        BY DEF EndOf
      <3>2. n + 1 \in Nat
        BY <1>1
      <3> HIDE DEF upto, n
      <3> QED BY <2>1, <3>1, <3>2, MinOfTwo
    <2>4. \A i : i \in EndOf(first) + 1 .. upto(b) <=>
                    i \in 1 .. n + 1 /\ EndOf(first) < i /\ i <= EndOf(b)
      <3> HIDE DEF first, upto, n
      <3>1. PICK e \in Nat, u \in Nat, l \in Nat : e = EndOf(first) /\ u = EndOf(b) /\ l = n + 1
        BY <1>1, <1>3, <2>1
      <3>2. upto(b) = IF u <= l THEN u ELSE l
        BY <2>3, <3>1
      <3>3. PICK k \in Nat : k = upto(b)
        BY <3>2
      <3>4. ASSUME NEW i PROVE i \in e + 1 .. k <=> i \in 1 .. l /\ e < i /\ i <= u
        <4>1. CASE i \in Int
          BY ONLY <3>2, <3>3, <4>1
        <4> QED BY ONLY <4>1
      <3> QED BY <3>1, <3>3, <3>4
    <2>5. ends(b) = {new[i].end : i \in EndOf(first) + 1 .. upto(b)}
      BY DEF EndOf
    <2>6. \A i \in 1 .. n + 1 : EndOf(first) < i /\ i <= EndOf(b) => new[i].end \in ends(b)
      BY <2>4, <2>5
    <2>7. \A x \in ends(b) : \E i \in 1 .. n + 1 : EndOf(first) < i /\ i <= EndOf(b) /\ x = new[i].end
      <3> HIDE DEF first, upto
      <3> QED BY <2>4, <2>5
    <2>8. EndOf(first) + 1 \in 1 .. n + 1 /\ new[EndOf(first) + 1].end \in ends(b)
      <3>1. EndOf(first) + 1 \in 1 .. n + 1 /\ EndOf(first) < EndOf(first) + 1
        BY <1>1, <1>3
      <3> HIDE DEF first, ends
      <3> QED BY <2>2, <2>6, <3>1
    <2> HIDE DEF ends, upto
    <2>9. before \subseteq 0 .. bound /\ bound \in Nat
      <3>1. CASE first = 0
        BY <3>1, <1>6
      <3>2. CASE first # 0
        <4>1. first \in 1 .. first
          BY <3>2, <1>3
        <4>2. maxEnds[first] \in Nat /\ Greatest(maxEnds[first], new, EndOf(first))
          BY <4>1, <1>7
        <4>3. PICK i \in 1 .. n + 1 : new[i].end = maxEnds[first]
          BY <4>2, <1>1 DEF Greatest
        <4> QED BY <3>2, <4>2, <4>3, <1>6
      <3> QED BY <3>1, <3>2
    <2>10. ends(b) \subseteq 0 .. bound
      BY <1>1, <1>6, <2>7
    <2>11. T \subseteq Nat /\ T # {} /\ \A x \in T : x <= bound
      BY <2>8, <2>9, <2>10
    <2>12. m \in T /\ \A x \in T : x <= m
      <3> HIDE DEF T, bound
      <3> QED BY <2>9, <2>11, MaxOf
    <2>13. m \in Nat
      BY <2>11, <2>12
    <2> HIDE DEF m
    <2>14. ASSUME first # 0
           PROVE  /\ before = {maxEnds[first]}
                  /\ \A i \in 1 .. n + 1 : i <= EndOf(first) => new[i].end <= maxEnds[first]
                  /\ \E i \in 1 .. n + 1 : i <= EndOf(first) /\ new[i].end = maxEnds[first]
      <3>1. first \in 1 .. first
        BY <2>14, <1>3
      <3>2. Greatest(maxEnds[first], new, EndOf(first))
        BY <3>1, <1>7
      <3> QED BY <2>14, <3>2, <1>1 DEF Greatest
    <2>15. ASSUME NEW i \in 1 .. n + 1, i <= EndOf(b) PROVE new[i].end <= m
      <3>1. CASE EndOf(first) < i
        BY <2>6, <2>12, <2>15, <3>1
      <3>2. CASE i <= EndOf(first)
        <4>1. first # 0
          <5>1. EndOf(0) = 0
            BY EndsOfBlocks
          <5> QED BY <3>2, <5>1
        <4>2. maxEnds[first] <= m /\ new[i].end <= maxEnds[first]
          BY <2>12, <2>14, <3>2, <4>1
        <4>3. maxEnds[first] \in Nat /\ new[i].end \in Nat
          BY <1>1, <1>3, <1>7, <4>1
        <4> HIDE DEF first, before, T
        <4> QED BY <2>13, <4>2, <4>3
      <3> QED BY <1>3, <3>1, <3>2
    <2>16. \E i \in 1 .. n + 1 : i <= EndOf(b) /\ new[i].end = m
      <3>1. CASE m \in ends(b)
        BY <2>7, <3>1
      <3>2. CASE m \in before /\ first # 0
        <4>1. PICK i \in 1 .. n + 1 : i <= EndOf(first) /\ new[i].end = maxEnds[first]
          BY <2>14, <3>2
        <4>2. m = maxEnds[first]
          BY <2>14, <3>2
        <4> HIDE DEF first
        <4>3. i <= EndOf(b)
          BY <1>3, <2>1, <2>2, <4>1
        <4> QED BY <4>1, <4>2, <4>3
      <3>3. CASE m \in before /\ first = 0
        <4>1. m = 0
          BY <3>3
        <4>2. new[EndOf(first) + 1].end <= m
          BY <2>8, <2>12
        <4>3. new[EndOf(first) + 1].end = m
          BY <4>1, <4>2, <2>8, <1>1
        <4> QED BY <4>3, <2>2, <2>8
      <3> QED BY <2>12, <3>1, <3>2, <3>3
    <2> QED BY <1>1, <2>13, <2>15, <2>16 DEF Greatest, m
  <1> HIDE DEF first, ends, before, upto
  <1>10. ASSUME NEW b \in 1 .. R PROVE index[b] \in Nat /\ Greatest(index[b], new, EndOf(b))
    <2>1. CASE b <= first
      <3>1. b \in 1 .. first /\ index[b] = maxEnds[b]
        BY <1>2, <1>3, <1>9, <2>1
      <3> QED BY <3>1, <1>7
    <2>2. CASE first < b
      <3>1. index[b] = Max(before \union ends(b))
        BY <1>2, <1>3, <1>9, <2>2
      <3> QED BY <2>2, <3>1, <1>8
    <2> QED BY <1>3, <1>9, <2>1, <2>2
  <1>11. index = [b \in 1 .. R |-> index[b]]
    BY <1>2
  <1> HIDE DEF index
  <1>12. index \in Seq(Nat) /\ Len(index) = R /\ DOMAIN index = 1 .. R
    <2>1. \A b \in 1 .. R : index[b] \in Nat
      BY <1>10
    <2> DEFINE g == [b \in 1 .. R |-> index[b]]
    <2>2. g \in Seq(Nat) /\ Len(g) = R /\ DOMAIN g = 1 .. R
      <3> HIDE DEF R
      <3> QED BY <1>9, <2>1
    <2>3. index = g
      BY <1>11
    <2> HIDE DEF g
    <2> QED BY <2>2, <2>3
  <1>13. Indexed(index, new)
    BY <1>10, <1>12 DEF Indexed
  <1> QED BY <1>12, <1>13 DEF index

\* Adding an annotation to a row keeps the row in order of its index.
LEMMA EmplacedRow ==
    ASSUME NEW row, RowInv(row), NEW ann \in Annotations
    PROVE  LET n == Len(row.list)
               p == RowPosition(row, ann)
               new == Emplaced(row, ann)
           IN /\ RowInv(new)
              /\ new.list = InsertAt(row.list, p, ann)
              /\ new.base = IF OutOfOrder(row, ann) /\ MovesFront(row, p) THEN row.base - 1
                                                                          ELSE row.base
              /\ new.latest = IF OutOfOrder(row, ann) THEN row.latest ELSE ann.start
  <1> DEFINE n == Len(row.list)
             p == RowPosition(row, ann)
             new == Emplaced(row, ann)
             list == InsertAt(row.list, p, ann)
             end == Max({ann.end} \union
                        (IF row.maxEnds = <<>> THEN {} ELSE {Last(row.maxEnds)}))
  <1>1. /\ row \in RowType /\ Latest(row) /\ Indexed(row.maxEnds, row.list)
        /\ row.list \in Seq(Annotations) /\ row.maxEnds \in Seq(Nat) /\ row.base \in Int
        /\ row.latest \in Nat
    BY DEF RowInv, RowType
  <1>2. /\ n \in Nat /\ p \in 1 .. n + 1
        /\ ~ OutOfOrder(row, ann) => p = n + 1 /\ row.latest <= ann.start
        /\ OutOfOrder(row, ann) => p <= n
    BY <1>1, Position
  <1>3. ann.start \in Nat /\ ann.end \in Nat
    BY DEF Annotations
  <1>4. /\ \A i \in 1 .. n : row.list[i].start \in Nat /\ row.list[i].start <= row.latest
        /\ \A i \in 1 .. n : row.list[i].start = row.latest =>
              \A j \in 1 .. n : i <= j => row.list[j].start = row.latest
        /\ n > 0 => row.list[n].start = row.latest
        /\ n = 0 => row.latest = 0
    <2>1. DOMAIN row.list = 1 .. n /\ \A i \in 1 .. n : row.list[i].start \in Nat
      BY <1>1, Elements
    <2>2. n > 0 <=> row.list # <<>>
      BY <1>1
    <2> QED BY <1>1, <2>1, <2>2 DEF Latest
  <1>5. /\ list \in Seq(Annotations) /\ Len(list) = n + 1
        /\ \A i \in 1 .. n + 1 :
              list[i] = IF i < p THEN row.list[i] ELSE IF i = p THEN ann ELSE row.list[i - 1]
    <2> DEFINE s == row.list
    <2>1. s \in Seq(Annotations) /\ p \in 1 .. Len(s) + 1
      BY <1>1, <1>2
    <2> HIDE DEF p, s
    <2>2. InsertAt(s, p, ann) \in Seq(Annotations) /\ Insertion(InsertAt(s, p, ann), s, p, ann)
      BY <2>1, Inserted
    <2> QED BY <2>2 DEF Insertion, s
  <1>6. CASE OutOfOrder(row, ann)
    <2> DEFINE index == Reindexed(row.maxEnds, list, p)
    <2>1. new = [list |-> list, latest |-> row.latest,
                 base |-> IF MovesFront(row, p) THEN row.base - 1 ELSE row.base,
                 maxEnds |-> index]
      BY <1>6 DEF Emplaced
    <2> HIDE DEF new, list, p
    <2>2. index \in Seq(Nat) /\ Indexed(index, list)
      <3>1. p \in 1 .. n
        BY <1>2, <1>6
      <3> QED BY <1>1, <1>5, <3>1, IndexInserted
    <2> HIDE DEF index
    <2>3. new \in RowType
      BY <1>1, <1>5, <2>1, <2>2 DEF RowType
    <2>4. /\ new.list = list /\ new.latest = row.latest /\ new.maxEnds = index
          /\ new.base = IF MovesFront(row, p) THEN row.base - 1 ELSE row.base
      BY <2>1
    <2>5. ann.start < row.latest
      BY <1>6 DEF OutOfOrder
    <2>6. list # <<>> /\ DOMAIN list = 1 .. n + 1 /\ n + 1 \in 1 .. n + 1
      BY <1>2, <1>5
    <2>7. list[n + 1].start = row.latest
      <3>1. list[n + 1] = row.list[n] /\ n > 0
        BY <1>2, <1>5, <1>6
      <3> QED BY <1>4, <3>1
    <2>8. ASSUME NEW i \in 1 .. n + 1 PROVE list[i].start <= row.latest
      <3>1. CASE i < p
        <4>1. i \in 1 .. n /\ list[i] = row.list[i]
          BY <1>2, <1>5, <3>1
        <4> QED BY <4>1, <1>4
      <3>2. CASE i = p
        <4>1. list[i] = ann
          BY <1>2, <1>5, <3>2
        <4> QED BY <4>1, <2>5, <1>1, <1>3
      <3>3. CASE i > p
        <4>1. i - 1 \in 1 .. n /\ list[i] = row.list[i - 1]
          BY <1>2, <1>5, <3>3
        <4> QED BY <4>1, <1>4
      <3> QED BY <1>2, <3>1, <3>2, <3>3
    <2>9. ASSUME NEW i \in 1 .. n + 1, NEW j \in 1 .. n + 1, i <= j, list[i].start = row.latest
          PROVE  list[j].start = row.latest
      <3>1. i # p
        <4>1. SUFFICES ASSUME i = p PROVE FALSE
          OBVIOUS
        <4>2. list[i] = ann
          BY <1>2, <1>5, <4>1
        <4> QED BY <4>2, <2>5, <2>9, <1>1, <1>3
      <3>2. CASE j = i
        BY <2>9, <3>2
      <3>3. CASE i < j
        <4> DEFINE k == IF i < p THEN i ELSE i - 1
        <4>1. k \in 1 .. n /\ list[i] = row.list[k]
          BY <1>2, <1>5, <3>1
        <4>2. CASE j = p
          <5>1. p \in 1 .. n /\ k <= p
            BY <1>2, <1>6, <2>9, <4>2
          <5>2. k < p /\ p - 1 \in 1 .. n /\ k <= p - 1
            BY <1>2, <2>9, <3>3, <4>1, <4>2
          <5>3. row.list[p - 1].start = row.latest
            BY <1>4, <2>9, <4>1, <5>2
          <5>4. p > 1 /\ row.list[p - 1].start <= ann.start
            <6>1. p > 1
              <7> HIDE DEF k
              <7> QED BY <1>2, <4>1, <5>2
            <6> QED BY <6>1, <1>1, <1>6, Position DEF p
          <5> QED BY <5>3, <5>4, <2>5, <1>1, <1>3
        <4>3. CASE j # p
          <5> DEFINE m == IF j < p THEN j ELSE j - 1
          <5>1. m \in 1 .. n /\ k <= m /\ list[j] = row.list[m]
            BY <1>2, <1>5, <3>3, <4>3, <3>1
          <5> QED BY <1>4, <2>9, <4>1, <5>1
        <4> QED BY <4>2, <4>3
      <3> QED BY <2>9, <3>2, <3>3
    <2>10. Latest(new)
      BY <1>5, <2>4, <2>6, <2>7, <2>8, <2>9 DEF Latest
    <2>11. RowInv(new)
      BY <2>2, <2>3, <2>4, <2>10 DEF RowInv
    <2> QED BY <1>6, <2>4, <2>11 DEF list, p, new
  <1>7. CASE ~ OutOfOrder(row, ann)
    <2> DEFINE index == IF Blocks(Len(list)) > Len(row.maxEnds) THEN Append(row.maxEnds, end)
                        ELSE [row.maxEnds EXCEPT ![Len(row.maxEnds)] = end]
    <2>1. new = [list |-> list, latest |-> ann.start, base |-> row.base, maxEnds |-> index]
      BY <1>7 DEF Emplaced
    <2>2. /\ end \in Nat /\ ann.end <= end
          /\ Len(row.maxEnds) = 0 => end = ann.end
          /\ Len(row.maxEnds) # 0 => /\ end \in {ann.end, row.maxEnds[Len(row.maxEnds)]}
                                     /\ row.maxEnds[Len(row.maxEnds)] <= end
      <3>1. CASE Len(row.maxEnds) = 0
        <4>1. row.maxEnds = <<>>
          BY <1>1, <3>1
        <4>2. end = Max({ann.end})
          BY <4>1
        <4> HIDE DEF end
        <4> QED BY <1>3, <3>1, <4>2, MaxOfTwo
      <3>2. CASE Len(row.maxEnds) # 0
        <4> DEFINE m == row.maxEnds[Len(row.maxEnds)]
        <4>1. row.maxEnds # <<>> /\ Last(row.maxEnds) = m /\ m \in Nat
          BY <1>1, <3>2 DEF Last
        <4>2. end = Max({ann.end} \union {m})
          BY <4>1
        <4>3. end \in {ann.end, m} /\ ann.end <= end /\ m <= end
          <5> HIDE DEF end, m
          <5> QED BY <1>3, <4>1, <4>2, MaxOfTwo
        <4> HIDE DEF end
        <4> QED BY <1>3, <3>2, <4>1, <4>3
      <3> QED BY <3>1, <3>2
    <2> HIDE DEF new, list, p, end
    <2>3. p = n + 1
      BY <1>2, <1>7
    <2>4. list[n + 1] = ann /\ \A i \in 1 .. n : list[i] = row.list[i]
      BY <1>2, <1>5, <2>3
    <2>5. index \in Seq(Nat) /\ Indexed(index, list)
      BY <1>1, <1>5, <2>2, <2>4, IndexAppended
    <2> HIDE DEF index
    <2>6. new \in RowType
      BY <1>1, <1>3, <1>5, <2>1, <2>5 DEF RowType
    <2>7. /\ new.list = list /\ new.latest = ann.start /\ new.maxEnds = index
          /\ new.base = row.base
      BY <2>1
    <2>8. row.latest <= ann.start /\ DOMAIN list = 1 .. n + 1 /\ list # <<>>
      BY <1>2, <1>5, <1>7
    <2>9. ASSUME NEW i \in 1 .. n + 1
          PROVE  /\ list[i].start <= ann.start
                 /\ list[i].start = ann.start => \A j \in 1 .. n + 1 : i <= j => list[j].start = ann.start
      <3>1. CASE i = n + 1
        BY <1>2, <1>3, <2>4, <3>1
      <3>2. CASE i \in 1 .. n
        <4>1. list[i].start \in Nat /\ list[i].start <= row.latest
          BY <1>4, <2>4, <3>2
        <4>2. ASSUME list[i].start = ann.start, NEW j \in 1 .. n + 1, i <= j
              PROVE  list[j].start = ann.start
          <5>1. row.latest = ann.start
            BY <1>1, <1>3, <2>8, <4>1, <4>2
          <5>2. CASE j \in 1 .. n
            BY <1>4, <2>4, <3>2, <4>2, <5>1, <5>2
          <5>3. CASE j = n + 1
            BY <2>4, <5>3
          <5> QED BY <1>2, <5>2, <5>3
        <4> QED BY <1>1, <1>3, <2>8, <4>1, <4>2
      <3> QED BY <1>2, <3>1, <3>2
    <2>10. Latest(new)
      BY <1>5, <2>4, <2>7, <2>8, <2>9 DEF Latest
    <2>11. RowInv(new)
      BY <2>5, <2>6, <2>7, <2>10 DEF RowInv
    <2> QED BY <1>7, <2>7, <2>11 DEF list, p, new
  <1> QED BY <1>6, <1>7

-----------------------------------------------------------------------------
(* Pointers, and their ranks among those to a row                          *)

\* f gives each element of T a number of its own from a to b.
Numbers(f, T, a, b) ==
    /\ a \in Int /\ b \in Int /\ a <= b + 1
    /\ \A t \in T : f[t] \in a .. b
    /\ \A s, t \in T : f[s] = f[t] => s = t

LEMMA Fits ==
    ASSUME NEW f, NEW T, NEW a, NEW b, Numbers(f, T, a, b)
    PROVE  IsFiniteSet(T) /\ Cardinality(T) \in Nat /\ Cardinality(T) <= b + 1 - a
  <1> DEFINE g == [t \in T |-> f[t]]
  <1>1. g \in Injection(T, a .. b)
    <2>1. g \in [T -> a .. b] /\ \A s, t \in T : g[s] = g[t] => s = t
      BY DEF Numbers
    <2> QED BY <2>1, Fun_IsInj
  <1>2. IsFiniteSet(a .. b) /\ Cardinality(a .. b) = b + 1 - a /\ a \in Int /\ b \in Int
    BY FS_Interval DEF Numbers
  <1> HIDE DEF g
  <1>3. IsFiniteSet(T) /\ Cardinality(T) <= Cardinality(a .. b)
    BY <1>1, <1>2, FS_Injection
  <1>4. Cardinality(T) \in Nat
    BY <1>3, FS_CardinalityType
  <1> QED BY <1>2, <1>3, <1>4

LEMMA Onto ==
    ASSUME NEW f, NEW T, NEW a, NEW b, Numbers(f, T, a, b), Cardinality(T) = b + 1 - a
    PROVE  \A x \in a .. b : \E t \in T : f[t] = x
  <1> DEFINE g == [t \in T |-> f[t]]
  <1>1. g \in Injection(T, a .. b)
    <2>1. g \in [T -> a .. b] /\ \A s, t \in T : g[s] = g[t] => s = t
      BY DEF Numbers
    <2> QED BY <2>1, Fun_IsInj
  <1>2. IsFiniteSet(a .. b) /\ Cardinality(a .. b) = b + 1 - a /\ a \in Int /\ b \in Int
    BY FS_Interval DEF Numbers
  <1>3. g \in Surjection(T, a .. b)
    <2> HIDE DEF g
    <2> QED BY <1>1, <1>2, FS_Injection
  <1>4. \A x \in a .. b : \E t \in T : g[t] = x
    BY <1>3 DEF Surjection
  <1> QED BY <1>4

Pointers == [row : Rows, place : Int]
Of(ps, r) == {j \in DOMAIN ps : ps[j].row = r}
Rank(ps, r, i) == Cardinality({j \in 1 .. i : ps[j].row = r})

LEMMA Ranks ==
    ASSUME NEW ps \in Seq(Pointers), NEW r
    PROVE  /\ IsFiniteSet(Of(ps, r)) /\ Cardinality(Of(ps, r)) \in Nat
           /\ \A i \in Of(ps, r) : Rank(ps, r, i) \in 1 .. Cardinality(Of(ps, r))
           /\ \A i, j \in Of(ps, r) : i < j => Rank(ps, r, i) < Rank(ps, r, j)
  <1> DEFINE UpTo(i) == {j \in 1 .. i : ps[j].row = r}
  <1>1. DOMAIN ps = 1 .. Len(ps) /\ Len(ps) \in Nat
    OBVIOUS
  <1>2. IsFiniteSet(Of(ps, r))
    <2>1. IsFiniteSet(1 .. Len(ps))
      BY <1>1, FS_Interval
    <2>2. Of(ps, r) \in SUBSET (1 .. Len(ps))
      BY <1>1 DEF Of
    <2> QED BY <2>1, <2>2, FS_Subset
  <1>3. Cardinality(Of(ps, r)) \in Nat
    BY <1>2, FS_CardinalityType
  <1>4. ASSUME NEW i \in Of(ps, r)
        PROVE  /\ IsFiniteSet(UpTo(i)) /\ Cardinality(UpTo(i)) \in Nat
               /\ Cardinality(UpTo(i)) <= Cardinality(Of(ps, r)) /\ Cardinality(UpTo(i)) # 0
    <2>1. UpTo(i) \in SUBSET Of(ps, r) /\ i \in UpTo(i)
      BY <1>1 DEF Of
    <2> HIDE DEF UpTo
    <2>2. IsFiniteSet(UpTo(i)) /\ Cardinality(UpTo(i)) <= Cardinality(Of(ps, r))
      BY <1>2, <2>1, FS_Subset
    <2>3. Cardinality(UpTo(i)) \in Nat
      BY <2>2, FS_CardinalityType
    <2>4. Cardinality(UpTo(i)) # 0
      BY <2>1, <2>2, FS_EmptySet
    <2> QED BY <2>2, <2>3, <2>4
  <1>5. ASSUME NEW i \in Of(ps, r), NEW j \in Of(ps, r), i < j
        PROVE  Cardinality(UpTo(i)) < Cardinality(UpTo(j))
    <2>1. UpTo(i) \union {j} \in SUBSET UpTo(j) /\ j \notin UpTo(i)
      BY <1>1, <1>5 DEF Of
    <2>2. /\ IsFiniteSet(UpTo(i)) /\ IsFiniteSet(UpTo(j))
          /\ Cardinality(UpTo(i)) \in Nat /\ Cardinality(UpTo(j)) \in Nat
      BY <1>4
    <2> HIDE DEF UpTo
    <2>3. Cardinality(UpTo(i) \union {j}) = Cardinality(UpTo(i)) + 1
      BY <2>1, <2>2, FS_AddElement
    <2>4. Cardinality(UpTo(i) \union {j}) <= Cardinality(UpTo(j))
      BY <2>1, <2>2, FS_Subset
    <2> QED BY <2>2, <2>3, <2>4
  <1>6. \A i : Rank(ps, r, i) = Cardinality(UpTo(i))
    BY DEF Rank
  <1> HIDE DEF UpTo
  <1>7. ASSUME NEW i \in Of(ps, r) PROVE Rank(ps, r, i) \in 1 .. Cardinality(Of(ps, r))
    BY <1>3, <1>4, <1>6
  <1> QED BY <1>2, <1>3, <1>5, <1>6, <1>7

\* new is ps with one more pointer, x, to row r at position q.
Adding(new, ps, q, x, r) ==
    /\ ps \in Seq(Pointers) /\ new \in Seq(Pointers)
    /\ q \in 1 .. Len(ps) + 1 /\ x \in Pointers /\ x.row = r
    /\ Insertion(new, ps, q, x)

Back(q, i) == IF i < q THEN i ELSE i - 1
Shift(q, i) == IF i < q THEN i ELSE i + 1

LEMMA Added ==
    ASSUME NEW new, NEW ps, NEW q, NEW x, NEW r, Adding(new, ps, q, x, r), NEW r2
    PROVE  /\ \A i \in Of(new, r2) : i # q => Back(q, i) \in Of(ps, r2) /\ new[i] = ps[Back(q, i)]
           /\ r2 # r => q \notin Of(new, r2)
           /\ q \in Of(new, r) /\ new[q] = x
           /\ Cardinality(Of(new, r2)) = IF r2 = r THEN Cardinality(Of(ps, r2)) + 1
                                                   ELSE Cardinality(Of(ps, r2))
  <1> DEFINE n == Len(ps)
  <1>1. /\ n \in Nat /\ DOMAIN ps = 1 .. n /\ DOMAIN new = 1 .. n + 1
        /\ q \in 1 .. n + 1 /\ x.row = r /\ new[q] = x
        /\ \A i \in 1 .. n + 1 : i < q => new[i] = ps[i]
        /\ \A i \in 1 .. n + 1 : i > q => new[i] = ps[i - 1]
    BY DEF Adding, Insertion
  <1> HIDE DEF n
  <1>2. ASSUME NEW i \in Of(new, r2), i # q
        PROVE  Back(q, i) \in Of(ps, r2) /\ new[i] = ps[Back(q, i)]
    <2>1. i \in 1 .. n + 1 /\ new[i].row = r2
      BY <1>1 DEF Of
    <2>2. Back(q, i) \in 1 .. n /\ new[i] = ps[Back(q, i)]
      BY <1>1, <1>2, <2>1 DEF Back
    <2> QED BY <1>1, <2>1, <2>2 DEF Of
  <1>3. ASSUME NEW k \in Of(ps, r2)
        PROVE  Shift(q, k) \in Of(new, r2) /\ Shift(q, k) # q /\ Back(q, Shift(q, k)) = k
    <2>1. k \in 1 .. n /\ ps[k].row = r2
      BY <1>1 DEF Of
    <2>2. /\ Shift(q, k) \in 1 .. n + 1 /\ Shift(q, k) # q /\ Back(q, Shift(q, k)) = k
          /\ new[Shift(q, k)] = ps[k]
      BY <1>1, <2>1 DEF Shift, Back
    <2> QED BY <1>1, <2>1, <2>2 DEF Of
  <1>4. q \in Of(new, r)
    BY <1>1 DEF Of
  <1>5. r2 # r => q \notin Of(new, r2)
    BY <1>1 DEF Of
  <1> DEFINE O == Of(new, r2) \ {q}
             g == [k \in Of(ps, r2) |-> Shift(q, k)]
  <1>6. g \in Bijection(Of(ps, r2), O)
    <2>1. g \in [Of(ps, r2) -> O]
      BY <1>3
    <2>2. ASSUME NEW a \in Of(ps, r2), NEW b \in Of(ps, r2), g[a] = g[b] PROVE a = b
      BY <1>3, <2>2
    <2>3. ASSUME NEW i \in O PROVE \E k \in Of(ps, r2) : g[k] = i
      <3>1. Back(q, i) \in Of(ps, r2)
        BY <1>2
      <3>2. Shift(q, Back(q, i)) = i
        <4>1. i \in 1 .. n + 1 /\ i # q
          BY <1>1 DEF Of
        <4> QED BY <1>1, <4>1 DEF Shift, Back
      <3> QED BY <3>1, <3>2
    <2> HIDE DEF g, O
    <2> QED BY <2>1, <2>2, <2>3, Fun_IsBij
  <1>7. IsFiniteSet(Of(ps, r2)) /\ Cardinality(Of(ps, r2)) \in Nat
    BY Ranks DEF Adding
  <1>8. IsFiniteSet(O) /\ Cardinality(O) = Cardinality(Of(ps, r2))
    <2> HIDE DEF g, O
    <2>1. ExistsBijection(Of(ps, r2), O)
      BY <1>6 DEF ExistsBijection
    <2> QED BY <1>7, <2>1, FS_Bijection
  <1>9. CASE r2 = r
    <2>1. Of(new, r2) = O \union {q} /\ q \notin O
      BY <1>4, <1>9
    <2> HIDE DEF O
    <2>2. Cardinality(O \union {q}) = Cardinality(O) + 1
      BY <1>8, <2>1, FS_AddElement
    <2> QED BY <1>1, <1>2, <1>4, <1>5, <1>8, <1>9, <2>1, <2>2
  <1>10. CASE r2 # r
    <2>1. Of(new, r2) = O
      BY <1>5, <1>10
    <2> HIDE DEF O
    <2> QED BY <1>1, <1>2, <1>4, <1>5, <1>8, <1>10, <2>1
  <1> QED BY <1>9, <1>10

LEMMA BackInOrder ==
    ASSUME NEW q \in Int, NEW i \in Int, NEW j \in Int, i # q, j # q, i < j
    PROVE  Back(q, i) < Back(q, j)
  BY DEF Back

-----------------------------------------------------------------------------
(* What the pointers to a row point to                                     *)

Places(row) == row.base .. row.base + Len(row.list) - 1
Place(row, place) == row.list[place - row.base + 1]

Placed(ps, r, row) ==
    /\ Cardinality(Of(ps, r)) = Len(row.list)
    /\ \A j \in Of(ps, r) : ps[j].place \in Places(row)

Distinct(ps, r) == \A i, j \in Of(ps, r) : i < j => ps[i].place # ps[j].place

\* The pointers are in the order of their row, but for annotations that start together, and
\* but for the first one of the row.
Sorted(ps, r, row) ==
    \A i, j \in Of(ps, r) : i < j /\ ps[j].place < ps[i].place =>
        \A k \in ps[j].place .. ps[i].place :
            k > row.base => Place(row, k).start = Place(row, ps[i].place).start

\* ps2 is ps, but that pointers to row r may have another place.
Moved(ps2, ps, r) ==
    /\ ps2 \in Seq(Pointers) /\ Len(ps2) = Len(ps)
    /\ \A i \in DOMAIN ps : ps2[i].row = ps[i].row /\ (ps[i].row # r => ps2[i] = ps[i])

LEMMA MovedOf ==
    ASSUME NEW ps \in Seq(Pointers), NEW ps2, NEW r, Moved(ps2, ps, r), NEW r2
    PROVE  Of(ps2, r2) = Of(ps, r2) /\ (r2 # r => \A i \in Of(ps, r2) : ps2[i] = ps[i])
  BY DEF Moved, Of

\* The pointers to other rows.
LEMMA OtherRow ==
    ASSUME NEW new, NEW ps, NEW q, NEW x, NEW r, Adding(new, ps, q, x, r),
           NEW ps2, Moved(ps2, new, r), NEW r2, r2 # r, NEW row
    PROVE  /\ Placed(ps, r2, row) => Placed(ps2, r2, row)
           /\ Distinct(ps, r2) => Distinct(ps2, r2)
           /\ Sorted(ps, r2, row) => Sorted(ps2, r2, row)
  <1>1. /\ new \in Seq(Pointers) /\ q \in Int
    BY DEF Adding
  <1>2. Of(ps2, r2) = Of(new, r2) /\ \A i \in Of(ps2, r2) : ps2[i] = new[i]
    BY <1>1, MovedOf
  <1>3. /\ Cardinality(Of(new, r2)) = Cardinality(Of(ps, r2))
        /\ \A i \in Of(new, r2) : i # q /\ Back(q, i) \in Of(ps, r2) /\ new[i] = ps[Back(q, i)]
    BY Added
  <1>4. ASSUME NEW i \in Of(ps2, r2)
        PROVE  Back(q, i) \in Of(ps, r2) /\ ps2[i] = ps[Back(q, i)]
    BY <1>2, <1>3
  <1>5. ASSUME NEW i \in Of(ps2, r2), NEW j \in Of(ps2, r2), i < j
        PROVE  Back(q, i) < Back(q, j)
    <2>1. i \in Int /\ j \in Int /\ i # q /\ j # q
      BY <1>1, <1>2, <1>3 DEF Of
    <2> QED BY <1>1, <1>5, <2>1, BackInOrder
  <1>6. Placed(ps, r2, row) => Placed(ps2, r2, row)
    BY <1>2, <1>3, <1>4 DEF Placed
  <1>7. Distinct(ps, r2) => Distinct(ps2, r2)
    BY <1>4, <1>5 DEF Distinct
  <1>8. ASSUME Sorted(ps, r2, row) PROVE Sorted(ps2, r2, row)
    <2> SUFFICES ASSUME NEW i \in Of(ps2, r2), NEW j \in Of(ps2, r2), i < j,
                        ps2[j].place < ps2[i].place,
                        NEW k \in ps2[j].place .. ps2[i].place, k > row.base
                 PROVE  Place(row, k).start = Place(row, ps2[i].place).start
      BY DEF Sorted
    <2>1. Back(q, i) \in Of(ps, r2) /\ Back(q, j) \in Of(ps, r2) /\ Back(q, i) < Back(q, j)
      BY <1>4, <1>5
    <2>2. ps2[i] = ps[Back(q, i)] /\ ps2[j] = ps[Back(q, j)]
      BY <1>4
    <2> QED BY <1>8, <2>1, <2>2 DEF Sorted
  <1> QED BY <1>6, <1>7, <1>8

\* The pointers to the row that an annotation was added to, when they stay or get the place
\* of their rank, and when the row may have moved by one to the front.
LEMMA PlacedAnew ==
    ASSUME NEW new, NEW ps, NEW q, NEW x, NEW r, Adding(new, ps, q, x, r),
           NEW ps2, Moved(ps2, new, r), NEW row, Placed(ps, r, row), NEW row2,
           row.base \in Int, row.list \in Seq(Annotations), row2.list \in Seq(Annotations),
           Len(row2.list) = Len(row.list) + 1, row2.base \in {row.base - 1, row.base},
           x.place \in Places(row2),
           \A i \in Of(new, r) : ps2[i].place \in {new[i].place, row2.base + Rank(new, r, i) - 1}
    PROVE  Placed(ps2, r, row2)
  <1> DEFINE n == Len(row.list)
  <1>1. n \in Nat /\ Len(row2.list) = n + 1
    OBVIOUS
  <1>2. new \in Seq(Pointers)
    BY DEF Adding
  <1>3. Of(ps2, r) = Of(new, r)
    BY <1>2, MovedOf
  <1>4. /\ Cardinality(Of(new, r)) = Cardinality(Of(ps, r)) + 1
        /\ new[q] = x
        /\ \A i \in Of(new, r) : i # q => Back(q, i) \in Of(ps, r) /\ new[i] = ps[Back(q, i)]
    BY Added
  <1>5. Cardinality(Of(ps, r)) = n /\ \A j \in Of(ps, r) : ps[j].place \in row.base .. row.base + n - 1
    BY DEF Placed, Places
  <1>6. x.place \in row2.base .. row2.base + n
    BY DEF Places
  <1>7. ASSUME NEW i \in Of(new, r) PROVE new[i].place \in row2.base .. row2.base + n
    <2>1. CASE i = q
      BY <1>4, <1>6, <2>1
    <2>2. CASE i # q
      <3>1. new[i].place \in row.base .. row.base + n - 1
        BY <1>4, <1>5, <2>2
      <3> HIDE DEF n
      <3> QED BY <1>1, <3>1
    <2> QED BY <2>1, <2>2
  <1>8. ASSUME NEW i \in Of(new, r) PROVE Rank(new, r, i) \in 1 .. n + 1
    BY <1>2, <1>4, <1>5, Ranks
  <1>9. ASSUME NEW i \in Of(new, r) PROVE ps2[i].place \in row2.base .. row2.base + n
    <2>1. ps2[i].place \in {new[i].place, row2.base + Rank(new, r, i) - 1}
      OBVIOUS
    <2>2. new[i].place \in row2.base .. row2.base + n /\ Rank(new, r, i) \in 1 .. n + 1
      BY <1>7, <1>8
    <2>3. row2.base + Rank(new, r, i) - 1 \in row2.base .. row2.base + n
      <3>1. row2.base \in Int
        OBVIOUS
      <3> HIDE DEF n
      <3> QED BY <1>1, <2>2, <3>1
    <2> QED BY <2>1, <2>2, <2>3
  <1>10. Places(row2) = row2.base .. row2.base + n
    <2>1. row2.base \in Int /\ row2.base + Len(row2.list) - 1 = row2.base + n
      OBVIOUS
    <2> QED BY <2>1 DEF Places
  <1> QED BY <1>1, <1>3, <1>4, <1>5, <1>9, <1>10 DEF Placed

\* The pointer to a place, if there are as many pointers as places.
LEMMA PointerTo ==
    ASSUME NEW ps \in Seq(Pointers), NEW r, NEW row, Placed(ps, r, row), Distinct(ps, r),
           row.base \in Int, Len(row.list) \in Nat
    PROVE  \A k \in Places(row) : \E j \in Of(ps, r) : ps[j].place = k
  <1> DEFINE f == [j \in Of(ps, r) |-> ps[j].place]
             n == Len(row.list)
  <1>1. Of(ps, r) \subseteq Nat
    BY DEF Of
  <1>2. \A j \in Of(ps, r) : f[j] \in row.base .. row.base + n - 1
    BY DEF Placed, Places
  <1>3. ASSUME NEW i \in Of(ps, r), NEW j \in Of(ps, r), f[i] = f[j] PROVE i = j
    <2>1. ~ (i < j) /\ ~ (j < i)
      BY <1>3 DEF Distinct
    <2> QED BY <1>1, <2>1
  <1>4. Cardinality(Of(ps, r)) = n
    BY DEF Placed
  <1>5. /\ row.base + n - 1 \in Int /\ row.base <= (row.base + n - 1) + 1
        /\ n = (row.base + n - 1) + 1 - row.base
    OBVIOUS
  <1>6. \A k \in row.base .. row.base + n - 1 : \E j \in Of(ps, r) : f[j] = k
    <2> DEFINE b == row.base + n - 1
    <2>1. Cardinality(Of(ps, r)) = b + 1 - row.base
      BY <1>4, <1>5
    <2> DEFINE T == Of(ps, r)
    <2> HIDE DEF f, n
    <2>2. \A i, j \in T : f[i] = f[j] => i = j
      BY <1>3
    <2>3. Numbers(f, T, row.base, b)
      BY <1>2, <1>5, <2>2 DEF Numbers
    <2> HIDE DEF b, T
    <2>4. Cardinality(T) = b + 1 - row.base
      BY <2>1 DEF T
    <2>5. \A k \in row.base .. b : \E j \in T : f[j] = k
      BY <2>3, <2>4, Onto
    <2> QED BY <2>5 DEF b, T
  <1> QED BY <1>6 DEF Places

\* An annotation at the end of its row, whose pointer is put before pointers only to
\* annotations that start no earlier, but for the first pointer.
LEMMA Behind ==
    ASSUME NEW new, NEW ps, NEW q, NEW x, NEW r, Adding(new, ps, q, x, r),
           NEW row, RowInv(row), Placed(ps, r, row), Distinct(ps, r), Sorted(ps, r, row),
           NEW ann \in Annotations, row.latest <= ann.start,
           NEW row2, row2.base = row.base,
           Insertion(row2.list, row.list, Len(row.list) + 1, ann),
           x.place = row.base + Len(row.list),
           \A k \in Of(ps, r) : k # 1 /\ q <= k => ann.start <= Place(row, ps[k].place).start
    PROVE  Distinct(new, r) /\ Sorted(new, r, row2)
  <1> DEFINE n == Len(row.list)
             b == row.base
  <1>1. /\ n \in Nat /\ b \in Int /\ ann.start \in Nat /\ row.latest \in Nat
        /\ row.list \in Seq(Annotations)
    BY DEF RowInv, RowType, Annotations
  <1>2. ASSUME NEW k \in b .. b + n - 1 PROVE Place(row2, k) = Place(row, k)
    <2>1. k - b + 1 \in 1 .. n + 1 /\ k - b + 1 < n + 1
      BY <1>1
    <2>2. row2.list[k - b + 1] = row.list[k - b + 1]
      BY <2>1 DEF Insertion
    <2> QED BY <2>2 DEF Place
  <1>3. Place(row2, b + n).start = ann.start
    <2>1. (b + n) - b + 1 = n + 1 /\ n + 1 \in 1 .. n + 1 /\ ~ (n + 1 < n + 1)
      BY <1>1
    <2>2. row2.list[n + 1] = ann
      BY <2>1 DEF Insertion
    <2>3. Place(row2, b + n) = row2.list[(b + n) - b + 1]
      BY DEF Place
    <2> QED BY <2>1, <2>2, <2>3
  \* what starts no earlier starts at the same time
  <1>4. ASSUME NEW k \in b .. b + n - 1, ann.start <= Place(row, k).start
        PROVE  \A l \in k .. b + n - 1 : Place(row, l).start = ann.start
    <2>1. \A i \in 1 .. n : row.list[i].start \in Nat /\ DOMAIN row.list = 1 .. n
      BY <1>1, Elements
    <2> DEFINE i == k - b + 1
    <2>2. i \in 1 .. n /\ Place(row, k) = row.list[i]
      BY <1>1 DEF Place
    <2>3. row.list[i].start <= row.latest
      BY <2>1, <2>2 DEF RowInv, Latest
    <2>4. row.list[i].start = ann.start /\ row.latest = ann.start
      <3>1. ann.start <= row.list[i].start /\ row.list[i].start \in Nat
        BY <1>4, <2>1, <2>2
      <3> HIDE DEF i
      <3> QED BY <1>1, <2>3, <3>1
    <2>5. \A j \in 1 .. n : i <= j => row.list[j].start = ann.start
      BY <2>1, <2>2, <2>4 DEF RowInv, Latest
    <2>6. ASSUME NEW l \in k .. b + n - 1 PROVE Place(row, l).start = ann.start
      <3>1. l - b + 1 \in 1 .. n /\ i <= l - b + 1
        BY <1>1
      <3> QED BY <2>5, <3>1 DEF Place
    <2> QED BY <2>6
  <1>5. ps \in Seq(Pointers) /\ new \in Seq(Pointers) /\ Of(ps, r) \subseteq Nat \ {0}
        /\ Of(new, r) \subseteq Nat \ {0} /\ q \in Nat \ {0}
    BY DEF Adding, Of
  <1>6. /\ new[q] = x
        /\ \A i \in Of(new, r) : i # q => Back(q, i) \in Of(ps, r) /\ new[i] = ps[Back(q, i)]
    BY Added
  <1>7. \A k \in Of(ps, r) : ps[k].place \in b .. b + n - 1
    BY DEF Placed, Places
  <1>8. \A k \in b .. b + n - 1 : \E j \in Of(ps, r) : ps[j].place = k
    <2>1. \A k \in Places(row) : \E j \in Of(ps, r) : ps[j].place = k
      BY <1>1, <1>5, PointerTo
    <2> QED BY <2>1 DEF Places
  <1>9. \A i, j \in Of(new, r) : i < j /\ i # q /\ j # q => Back(q, i) < Back(q, j)
    BY <1>5, BackInOrder
  <1>10. Distinct(new, r)
    <2> SUFFICES ASSUME NEW i \in Of(new, r), NEW j \in Of(new, r), i < j
                 PROVE  new[i].place # new[j].place
      BY DEF Distinct
    <2>1. CASE i # q /\ j # q
      BY <1>6, <1>9, <2>1 DEF Distinct
    <2>2. \A l \in Of(new, r) : l # q => new[l].place \in b .. b + n - 1
      BY <1>6, <1>7
    <2>3. CASE i = q
      <3>1. j # q
        BY <1>5, <2>3
      <3> QED BY <1>1, <1>6, <2>2, <2>3, <3>1
    <2>4. CASE j = q
      <3>1. i # q
        BY <1>5, <2>4
      <3> QED BY <1>1, <1>6, <2>2, <2>4, <3>1
    <2> QED BY <2>1, <2>3, <2>4
  <1>11. ASSUME NEW i \in Of(new, r), NEW j \in Of(new, r), i < j,
                new[j].place < new[i].place,
                NEW k \in new[j].place .. new[i].place, k > b
         PROVE  Place(row2, k).start = Place(row2, new[i].place).start
    <2>1. CASE i # q /\ j # q
      <3> DEFINE i1 == Back(q, i)
                 j1 == Back(q, j)
      <3>1. /\ i1 \in Of(ps, r) /\ j1 \in Of(ps, r) /\ i1 < j1
            /\ new[i] = ps[i1] /\ new[j] = ps[j1]
        BY <1>6, <1>9, <1>11, <2>1
      <3> HIDE DEF i1, j1
      <3>2. Place(row, k).start = Place(row, new[i].place).start
        BY <1>11, <3>1 DEF Sorted
      <3>3. k \in b .. b + n - 1 /\ new[i].place \in b .. b + n - 1
        BY <1>1, <1>7, <3>1
      <3> QED BY <1>2, <3>2, <3>3
    <2>2. CASE j = q
      <3>1. i # q /\ new[i].place \in b .. b + n - 1
        BY <1>5, <1>6, <1>7, <1>11, <2>2
      <3> QED BY <1>1, <1>6, <1>11, <2>2, <3>1
    <2>3. CASE i = q
      <3> DEFINE y == Back(q, j)
      <3>1. y \in Of(ps, r) /\ new[j] = ps[y] /\ q <= y /\ y \in Nat \ {0}
        <4>1. j # q /\ j > q
          BY <1>5, <1>11, <2>3
        <4> QED BY <1>5, <1>6, <4>1 DEF Back
      <3> HIDE DEF y
      <3>2. new[i].place = b + n /\ ps[y].place \in b .. b + n - 1
        BY <1>6, <1>7, <2>3, <3>1
      <3>3. CASE k = b + n
        BY <3>2, <3>3
      <3>4. CASE k # b + n
        <4>1. k \in ps[y].place .. b + n - 1 /\ k \in b .. b + n - 1
          <5>1. k \in ps[y].place .. b + n
            BY <3>1, <3>2
          <5> HIDE DEF n, b
          <5> QED BY <1>1, <3>2, <3>4, <5>1
        <4>2. Place(row, k).start = ann.start
          <5>1. CASE y # 1
            BY <1>4, <3>1, <3>2, <4>1, <5>1
          <5>2. CASE y = 1
            <6>1. \A l \in Of(ps, r) : l # 1 => ann.start <= Place(row, ps[l].place).start
              BY <1>5, <3>1, <5>2
            <6>2. PICK l \in Of(ps, r) : ps[l].place = k
              BY <1>8, <4>1
            <6>3. CASE l # 1
              <7>1. ann.start <= Place(row, k).start /\ k \in k .. b + n - 1
                BY <1>1, <4>1, <6>1, <6>2, <6>3
              <7> QED BY <1>4, <4>1, <7>1
            <6>4. CASE l = 1
              <7>1. b \in b .. b + n - 1
                BY <1>1, <4>1
              <7>2. PICK m \in Of(ps, r) : ps[m].place = b
                BY <1>8, <7>1
              <7>3. m # 1
                BY <1>1, <1>11, <6>2, <6>4, <7>2
              <7>4. ann.start <= Place(row, b).start
                BY <6>1, <7>2, <7>3
              <7> QED BY <1>4, <4>1, <7>1, <7>4
            <6> QED BY <6>3, <6>4
          <5> QED BY <5>1, <5>2
        <4> QED BY <1>2, <1>3, <3>2, <4>1, <4>2
      <3> QED BY <3>3, <3>4
    <2> QED BY <2>1, <2>2, <2>3
  <1>12. Sorted(new, r, row2)
    BY <1>11 DEF Sorted
  <1> QED BY <1>10, <1>12

\* An annotation before all others of its row: all pointers are dealt out anew.
LEMMA InFront ==
    ASSUME NEW new \in Seq(Pointers), NEW r, NEW ps2, Moved(ps2, new, r), NEW row2,
           row2.base \in Int,
           \A i \in Of(new, r) : ps2[i].place = row2.base + Rank(new, r, i) - 1
    PROVE  Distinct(ps2, r) /\ Sorted(ps2, r, row2)
  <1>1. Of(ps2, r) = Of(new, r)
    BY MovedOf
  <1>2. ASSUME NEW i \in Of(ps2, r), NEW j \in Of(ps2, r), i < j
        PROVE  ps2[i].place < ps2[j].place /\ ps2[i].place \in Int /\ ps2[j].place \in Int
    <2>1. /\ Rank(new, r, i) < Rank(new, r, j)
          /\ Rank(new, r, i) \in 1 .. Cardinality(Of(new, r))
          /\ Rank(new, r, j) \in 1 .. Cardinality(Of(new, r))
      BY <1>1, <1>2, Ranks
    <2>2. /\ ps2[i].place = row2.base + Rank(new, r, i) - 1
          /\ ps2[j].place = row2.base + Rank(new, r, j) - 1
      BY <1>1
    <2> QED BY <2>1, <2>2
  <1>3. Distinct(ps2, r)
    BY <1>2 DEF Distinct
  <1>4. Sorted(ps2, r, row2)
    BY <1>2 DEF Sorted
  <1> QED BY <1>3, <1>4

\* Two places, one before c and the other not, have both c - 1 and c between them.
LEMMA Across ==
    ASSUME NEW u \in Int, NEW v \in Int, NEW c \in Int, NEW b \in Int, u < c, c <= v, c - 1 > b
    PROVE  c \in u .. v /\ c - 1 \in u .. v /\ c > b /\ c - 1 > b
  OBVIOUS

\* A place of a row is that of one of its annotations.
LEMMA WithinRow ==
    ASSUME NEW n \in Nat, NEW base \in Int, NEW place \in base .. base + n - 1
    PROVE  LET i == place - base + 1 IN i \in 1 .. n /\ i \in 1 .. n + 1 /\ i < n + 1
  OBVIOUS

\* An annotation at position p of its row: the pointers to what is before it keep their
\* place and come first, so that those from the p-th on are the ones that have moved.
LEMMA Within ==
    ASSUME NEW new, NEW ps, NEW q, NEW x, NEW r, Adding(new, ps, q, x, r),
           NEW ps2, Moved(ps2, new, r),
           NEW row, RowInv(row), Placed(ps, r, row), Distinct(ps, r), Sorted(ps, r, row),
           NEW ann \in Annotations, NEW p \in 3 .. Len(row.list),
           row.list[p - 1].start <= ann.start, ann.start < row.list[p].start,
           NEW row2, row2.base = row.base, Insertion(row2.list, row.list, p, ann),
           \A k \in Of(ps, r) : k # 1 /\ ps[k].place = row.base + (p - 1) => k < q,
           \A i \in Of(new, r) :
              ps2[i].place = IF Rank(new, r, i) >= p THEN row.base + Rank(new, r, i) - 1
                                                     ELSE new[i].place
    PROVE  Distinct(ps2, r) /\ Sorted(ps2, r, row2)
  <1> DEFINE n == Len(row.list)
             b == row.base
             c == b + (p - 1)
             O == Of(ps, r)
             L == {j \in O : ps[j].place < c}
             H == {j \in O : ps[j].place >= c}
             f == [j \in O |-> ps[j].place]
  <1>1. /\ n \in Nat /\ b \in Int /\ ann.start \in Nat /\ p \in 3 .. n /\ c \in Int
        /\ b <= c /\ c <= b + n - 1 /\ c = b + (p - 1)
    <2>1. n \in Nat /\ b \in Int
      BY DEF RowInv, RowType
    <2>2. ann.start \in Nat
      BY DEF Annotations
    <2>3. p \in 3 .. n /\ c = b + (p - 1)
      OBVIOUS
    <2> HIDE DEF n, b, c
    <2> QED BY <2>1, <2>2, <2>3
  <1>2. /\ row.list[p - 1].start # row.list[p].start
    <2>1. row.list \in Seq(Annotations) /\ p \in 1 .. n /\ p - 1 \in 1 .. n
      BY <1>1 DEF RowInv, RowType
    <2>2. row.list[p - 1].start \in Nat /\ row.list[p].start \in Nat
      BY <2>1, Elements
    <2> QED BY <1>1, <2>2
  <1>3. /\ ps \in Seq(Pointers) /\ new \in Seq(Pointers) /\ O \subseteq Nat \ {0}
        /\ Of(new, r) \subseteq Nat \ {0} /\ q \in Nat \ {0}
    BY DEF Adding, Of
  <1>4. Of(ps2, r) = Of(new, r)
    BY <1>3, MovedOf
  <1>5. /\ q \in Of(new, r)
        /\ \A i \in Of(new, r) : i # q => Back(q, i) \in O /\ new[i] = ps[Back(q, i)]
    BY Added
  <1>6. Cardinality(O) = n /\ \A j \in O : ps[j].place \in b .. b + n - 1
    BY DEF Placed, Places
  <1>7. \A i, j \in O : f[i] = f[j] => i = j
    <2>1. ASSUME NEW i \in O, NEW j \in O, f[i] = f[j] PROVE i = j
      <3>1. ~ (i < j) /\ ~ (j < i) /\ i \in Nat /\ j \in Nat
        BY <1>3, <2>1 DEF Distinct
      <3> QED BY <3>1
    <2> QED BY <2>1
  <1>8. Cardinality(L) = p - 1 /\ IsFiniteSet(L)
    <2>1. Numbers(f, L, b, c - 1)
      <3>1. \A j \in L : f[j] \in b .. c - 1
        <4> HIDE DEF n, b, c
        <4> QED BY <1>1, <1>6
      <3>2. c - 1 \in Int /\ b <= (c - 1) + 1
        BY <1>1
      <3> HIDE DEF f, b, c
      <3> QED BY <1>1, <1>7, <3>1, <3>2 DEF Numbers
    <2>2. Numbers(f, H, c, b + n - 1)
      <3>1. \A j \in H : f[j] \in c .. b + n - 1
        <4> HIDE DEF n, b, c
        <4> QED BY <1>1, <1>6
      <3>2. b + n - 1 \in Int /\ c <= (b + n - 1) + 1
        <4> HIDE DEF n, b, c
        <4> QED BY <1>1
      <3> HIDE DEF f, b, c, n
      <3> QED BY <1>1, <1>7, <3>1, <3>2 DEF Numbers
    <2>3. O = L \union H /\ L \intersect H = {}
      <3>1. \A j \in O : ps[j].place \in Int
        BY <1>1, <1>6
      <3> HIDE DEF c, O
      <3> QED BY <1>1, <3>1
    <2>4. /\ (c - 1) + 1 - b = p - 1
          /\ (b + n - 1) + 1 - c = n - (p - 1)
      BY <1>1
    <2> DEFINE d == c - 1
               e == b + n - 1
    <2> HIDE DEF f, b, c, n, L, H, O
    <2>5. IsFiniteSet(L) /\ Cardinality(L) \in Nat /\ Cardinality(L) <= p - 1
      <3>1. Numbers(f, L, b, d) /\ d + 1 - b = p - 1
        BY <2>1, <2>4
      <3> HIDE DEF d
      <3> QED BY <3>1, Fits
    <2>6. IsFiniteSet(H) /\ Cardinality(H) \in Nat /\ Cardinality(H) <= n - (p - 1)
      <3>1. Numbers(f, H, c, e) /\ e + 1 - c = n - (p - 1)
        BY <2>2, <2>4
      <3> HIDE DEF e
      <3> QED BY <3>1, Fits
    <2>7. Cardinality(O) = Cardinality(L) + Cardinality(H) - 0
      BY <2>3, <2>5, <2>6, FS_Union, FS_EmptySet
    <2> QED BY <1>1, <1>6, <2>5, <2>6, <2>7
  <1>9. ASSUME NEW j \in L, NEW k \in H PROVE j < k
    <2>1. j \in O /\ k \in O /\ ps[j].place < ps[k].place /\ ps[j].place < c /\ c <= ps[k].place
      <3>1. ps[j].place \in Int /\ ps[k].place \in Int
        BY <1>1, <1>6
      <3> HIDE DEF c, O
      <3> QED BY <1>1, <3>1
    <2>2. SUFFICES ASSUME k < j PROVE FALSE
      <3>1. j # k /\ j \in Nat /\ k \in Nat
        <4> HIDE DEF O
        <4> QED BY <1>3, <1>9, <1>1, <1>6, <2>1
      <3> QED BY <3>1
    <2>3. \A l \in ps[j].place .. ps[k].place :
              l > b => Place(row, l).start = Place(row, ps[k].place).start
      BY <2>1, <2>2 DEF Sorted
    <2>4. /\ c \in ps[j].place .. ps[k].place /\ c - 1 \in ps[j].place .. ps[k].place
          /\ c > b /\ c - 1 > b
      <3>1. ps[j].place \in Int /\ ps[k].place \in Int
        BY <1>1, <1>6
      <3>2. c - 1 > b
        BY <1>1
      <3>3. c \in Int /\ b \in Int
        BY <1>1
      <3> HIDE DEF c, O, b
      <3> QED BY <2>1, <3>1, <3>2, <3>3, Across
    <2>5. Place(row, c).start = Place(row, c - 1).start
      <3> HIDE DEF c, b
      <3> QED BY <2>3, <2>4
    <2>6. c - b + 1 = p /\ (c - 1) - b + 1 = p - 1
      <3> HIDE DEF n, b, c
      <3> QED BY <1>1
    <2>7. Place(row, c) = row.list[p] /\ Place(row, c - 1) = row.list[p - 1]
      <3>1. Place(row, c) = row.list[c - b + 1] /\ Place(row, c - 1) = row.list[(c - 1) - b + 1]
        BY DEF Place
      <3> HIDE DEF c, b
      <3> QED BY <2>6, <3>1
    <2> QED BY <1>2, <2>5, <2>7
  <1>10. ASSUME NEW j \in L PROVE j < q /\ j \in Of(new, r) /\ new[j] = ps[j]
    <2>1. \A k \in Places(row) : \E i \in Of(ps, r) : ps[i].place = k
      BY <1>1, <1>3, PointerTo
    <2>2. c \in Places(row)
      <3> HIDE DEF c, b
      <3> QED BY <1>1 DEF Places, b
    <2>3. PICK k \in O : ps[k].place = c
      <3> HIDE DEF c
      <3> QED BY <2>1, <2>2
    <2>4. k \in H
      BY <1>1, <2>3
    <2>5. j < k /\ j \in Nat \ {0} /\ k \in Nat \ {0}
      <3> HIDE DEF H, O
      <3> QED BY <1>3, <1>9, <2>4
    <2>6. k < q
      <3> HIDE DEF H, L
      <3> QED BY <2>3, <2>5
    <2>7. j < q
      BY <1>3, <2>5, <2>6
    <2>8. j \in 1 .. Len(ps) /\ ps[j].row = r
      BY <1>3 DEF Of
    <2>9. new[j] = ps[j] /\ j \in DOMAIN new
      BY <1>3, <2>7, <2>8 DEF Adding, Insertion
    <2> QED BY <2>7, <2>8, <2>9 DEF Of
  \* the pointers before the p-th one are those to what is before position p
  <1>11. ASSUME NEW i \in Of(new, r), i \notin L PROVE Rank(new, r, i) >= p
    <2> DEFINE U == {j \in 1 .. i : new[j].row = r}
    <2>1. ASSUME NEW j \in L PROVE j < i
      <3>1. j < q /\ i \in Nat /\ j \in Nat
        BY <1>3, <1>10
      <3>2. CASE i < q
        <4>1. i \in O
          <5>1. i # q /\ Back(q, i) = i
            BY <1>3, <3>2 DEF Back
          <5> HIDE DEF O
          <5> QED BY <1>5, <5>1
        <4>2. i \in H
          <5>1. ps[i].place \in Int
            BY <1>1, <1>6, <4>1
          <5> HIDE DEF O, c
          <5> QED BY <1>1, <1>11, <4>1, <5>1
        <4> HIDE DEF H, L
        <4> QED BY <1>9, <4>2
      <3>3. CASE ~ (i < q)
        <4> HIDE DEF L
        <4> QED BY <1>3, <3>1, <3>3
      <3> QED BY <3>2, <3>3
    <2>2. L \union {i} \in SUBSET U
      <3>1. i \in U
        BY <1>3 DEF Of
      <3>2. ASSUME NEW j \in L PROVE j \in U
        <4>1. j < i /\ j \in Of(new, r)
          BY <1>10, <2>1
        <4> HIDE DEF L
        <4> QED BY <1>3, <4>1 DEF Of
      <3> HIDE DEF L, U
      <3> QED BY <3>1, <3>2
    <2>3. IsFiniteSet(U) /\ Cardinality(U) \in Nat
      <3>1. IsFiniteSet(1 .. i)
        BY <1>3, FS_Interval
      <3>2. U \in SUBSET (1 .. i)
        OBVIOUS
      <3> HIDE DEF U
      <3> QED BY <3>1, <3>2, FS_Subset, FS_CardinalityType
    <2> HIDE DEF L, U
    <2>4. Cardinality(L \union {i}) = p - 1 + 1
      BY <1>8, <1>11, FS_AddElement
    <2>5. Cardinality(L \union {i}) <= Cardinality(U)
      BY <2>2, <2>3, FS_Subset
    <2>6. Rank(new, r, i) = Cardinality(U)
      BY DEF Rank, U
    <2> QED BY <1>1, <2>3, <2>4, <2>5, <2>6
  <1>12. ASSUME NEW i \in L PROVE Rank(new, r, i) \in Nat /\ Rank(new, r, i) < p
    <2> DEFINE U == {j \in 1 .. i : new[j].row = r}
    <2>1. ASSUME NEW j \in U PROVE j \in L
      <3>1. i < q /\ i \in Of(new, r) /\ i \in Nat
        BY <1>3, <1>10
      <3>2. j \in 1 .. i /\ new[j].row = r /\ j < q /\ j # q
        <4> HIDE DEF L
        <4> QED BY <1>3, <3>1
      <3>3. j \in Of(new, r)
        <4>1. DOMAIN new = 1 .. Len(new) /\ Len(new) \in Nat /\ i \in DOMAIN new
          BY <1>3, <3>1 DEF Of
        <4> HIDE DEF L
        <4> QED BY <3>2, <4>1 DEF Of
      <3>4. j \in O
        <4>1. Back(q, j) = j
          BY <3>2 DEF Back
        <4> HIDE DEF O
        <4> QED BY <1>5, <3>2, <3>3, <4>1
      <3>5. SUFFICES ASSUME j \notin L PROVE FALSE
        OBVIOUS
      <3>6. j \in H
        <4>1. ps[j].place \in Int
          BY <1>1, <1>6, <3>4
        <4> HIDE DEF O, c
        <4> QED BY <1>1, <3>4, <3>5, <4>1
      <3>7. i < j
        <4> HIDE DEF L, H
        <4> QED BY <1>9, <3>6
      <3> HIDE DEF L
      <3> QED BY <3>1, <3>2, <3>7
    <2>2. U \in SUBSET L
      <3> HIDE DEF U, L
      <3> QED BY <2>1
    <2> HIDE DEF L, U
    <2>3. Cardinality(U) <= p - 1 /\ IsFiniteSet(U)
      BY <1>8, <2>2, FS_Subset
    <2>4. Cardinality(U) \in Nat
      BY <2>3, FS_CardinalityType
    <2>5. Rank(new, r, i) = Cardinality(U)
      BY DEF Rank, U
    <2> QED BY <1>1, <2>3, <2>4, <2>5
  <1>13. \A i \in Of(new, r) : i \in L => ps2[i].place = ps[i].place /\ ps[i].place < c
    <2>1. ASSUME NEW i \in Of(new, r), i \in L PROVE ps2[i].place = ps[i].place /\ ps[i].place < c
      <3>1. ps[i].place < c
        BY <2>1
      <3>2. new[i] = ps[i] /\ Rank(new, r, i) < p /\ Rank(new, r, i) \in Nat
        BY <1>10, <1>12, <2>1
      <3>3. ~ (Rank(new, r, i) >= p)
        BY <1>1, <3>2
      <3> HIDE DEF c, L
      <3> QED BY <3>1, <3>2, <3>3
    <2> HIDE DEF L
    <2> QED BY <2>1
  <1>14. \A i \in Of(new, r) : i \notin L =>
            ps2[i].place = b + Rank(new, r, i) - 1 /\ ps2[i].place >= c /\ ps2[i].place \in Int
    <2>1. ASSUME NEW i \in Of(new, r), i \notin L
          PROVE  ps2[i].place = b + Rank(new, r, i) - 1 /\ ps2[i].place >= c /\ ps2[i].place \in Int
      <3>1. Rank(new, r, i) >= p
        BY <1>11, <2>1
      <3>2. Rank(new, r, i) \in 1 .. Cardinality(Of(new, r)) /\ Cardinality(Of(new, r)) \in Nat
        BY <1>3, Ranks
      <3>3. ps2[i].place = b + Rank(new, r, i) - 1
        BY <3>1
      <3> HIDE DEF L
      <3> QED BY <1>1, <3>1, <3>2, <3>3
    <2> HIDE DEF L
    <2> QED BY <2>1
  <1>15. ASSUME NEW i \in Of(new, r), NEW j \in Of(new, r), i < j
         PROVE  /\ j \in L => i \in L
                /\ ~ (j \in L) /\ ~ (i \in L) => ps2[i].place < ps2[j].place
    <2>1. /\ Rank(new, r, i) < Rank(new, r, j)
          /\ Rank(new, r, i) \in 1 .. Cardinality(Of(new, r))
          /\ Rank(new, r, j) \in 1 .. Cardinality(Of(new, r))
      BY <1>3, <1>15, Ranks
    <2>2. ASSUME j \in L PROVE i \in L
      <3>1. SUFFICES ASSUME i \notin L PROVE FALSE
        OBVIOUS
      <3>2. Rank(new, r, i) >= p /\ Rank(new, r, j) < p
        BY <1>11, <1>12, <2>2, <3>1
      <3> QED BY <1>1, <2>1, <3>2
    <2>3. ASSUME j \notin L, i \notin L PROVE ps2[i].place < ps2[j].place
      <3>1. ps2[i].place = b + Rank(new, r, i) - 1 /\ ps2[j].place = b + Rank(new, r, j) - 1
        BY <1>14, <2>3
      <3> HIDE DEF L
      <3> QED BY <1>1, <2>1, <3>1
    <2> QED BY <2>2, <2>3
  <1>16. ASSUME NEW i \in Of(new, r), NEW j \in Of(new, r), i < j
         PROVE  /\ ps2[i].place # ps2[j].place
                /\ ~ (i \in L /\ j \in L) => ps2[i].place < ps2[j].place
                /\ ps2[i].place \in Int /\ ps2[j].place \in Int
    <2>1. \A k \in Of(new, r) : ps2[k].place \in Int
      <3>1. ASSUME NEW k \in Of(new, r) PROVE ps2[k].place \in Int
        <4>1. CASE k \in L
          BY <1>1, <1>6, <1>13, <4>1
        <4>2. CASE k \notin L
          BY <1>14, <4>2
        <4> QED BY <4>1, <4>2
      <3> QED BY <3>1
    <2>2. CASE i \in L /\ j \in L
      <3>1. ps[i].place # ps[j].place
        BY <1>16, <2>2 DEF Distinct
      <3> HIDE DEF L
      <3> QED BY <1>13, <2>1, <2>2, <3>1
    <2>3. CASE i \in L /\ j \notin L
      <3>1. ps2[i].place < c /\ c <= ps2[j].place
        <4> HIDE DEF L, c
        <4> QED BY <1>13, <1>14, <2>1, <2>3, <1>1
      <3> HIDE DEF L, c
      <3> QED BY <1>1, <2>1, <2>3, <3>1
    <2>4. CASE i \notin L
      <3> HIDE DEF L
      <3> QED BY <1>15, <1>16, <2>1, <2>4
    <2> QED BY <2>2, <2>3, <2>4
  <1>17. Distinct(ps2, r)
    <2> HIDE DEF L
    <2> QED BY <1>4, <1>16 DEF Distinct
  <1>18. Sorted(ps2, r, row2)
    <2> SUFFICES ASSUME NEW i \in Of(new, r), NEW j \in Of(new, r), i < j,
                        ps2[j].place < ps2[i].place,
                        NEW k \in ps2[j].place .. ps2[i].place, k > row2.base
                 PROVE  Place(row2, k).start = Place(row2, ps2[i].place).start
      BY <1>4 DEF Sorted
    <2>1. i \in L /\ j \in L
      <3> HIDE DEF L
      <3> QED BY <1>16
    <2>2. ps2[i].place = ps[i].place /\ ps2[j].place = ps[j].place /\ ps[i].place < c
      <3> HIDE DEF L
      <3> QED BY <1>13, <2>1
    <2>3. i \in O /\ j \in O
      BY <2>1
    <2>4. Place(row, k).start = Place(row, ps[i].place).start
      BY <2>2, <2>3 DEF Sorted
    <2>5. ps[j].place \in b .. b + n - 1 /\ ps[i].place \in b .. b + n - 1
      BY <1>6, <2>3
    <2>6. k \in b .. c - 1 /\ ps[i].place \in b .. c - 1
      <3>1. k \in ps[j].place .. ps[i].place
        BY <2>2
      <3> HIDE DEF n, c, b
      <3> QED BY <1>1, <2>2, <2>5, <3>1
    <2>7. ASSUME NEW l \in b .. c - 1 PROVE Place(row2, l) = Place(row, l)
      <3>1. l - b + 1 \in 1 .. n + 1 /\ l - b + 1 < p
        <4> HIDE DEF n, b, c
        <4> QED BY <1>1
      <3>2. row2.list[l - b + 1] = row.list[l - b + 1]
        BY <3>1 DEF Insertion
      <3> QED BY <3>2 DEF Place
    <2> QED BY <2>2, <2>4, <2>6, <2>7
  <1> QED BY <1>17, <1>18

-----------------------------------------------------------------------------
(* annotation_callback keeps rows and pointers                             *)

PointersInv(ps, r, row, lost) ==
    Placed(ps, r, row) /\ (~ lost => Distinct(ps, r) /\ Sorted(ps, r, row))

AnnotationsInv ==
    /\ rows \in [Rows -> RowType] /\ all \in Seq(Pointers) /\ mislaid \in BOOLEAN
    /\ \A r \in Rows : RowInv(rows[r]) /\ PointersInv(all, r, rows[r], mislaid)

LEMMA ListedAt ==
    ASSUME NEW rowData, all \in Seq(Pointers), NEW ann
    PROVE  LET q == ListPosition(rowData, ann)
           IN /\ q \in 1 .. Len(all) + 1
              /\ \A k \in DOMAIN all : k # 1 /\ q <= k =>
                    LET other == At(rowData, all[k]) IN
                    \/ ann.start < other.start
                    \/ ann.start = other.start /\ Length(ann) > Length(other)
  <1> DEFINE q == ListPosition(rowData, ann)
             n == Len(all)
             Later(other) == \/ ann.start < other.start
                             \/ ann.start = other.start /\ Length(ann) > Length(other)
             E == {k \in DOMAIN all : ~ Later(At(rowData, all[k]))}
             last == At(rowData, Last(all))
             C == all # <<>> /\ ann.start < last.start /\ Length(ann) > Length(last)
  <1>1. q = IF C THEN InsertPosition(E) ELSE n + 1
    BY DEF ListPosition
  <1>2. n \in Nat /\ DOMAIN all = 1 .. n
    OBVIOUS
  <1>3. \A k \in 1 .. n : k \in E <=> ~ Later(At(rowData, all[k]))
    BY <1>2
  <1>4. E \subseteq 1 .. n /\ (all # <<>> => n # 0)
    BY <1>2
  <1> HIDE DEF Later, E, C, q, n
  <1>5. q \in 1 .. n + 1 /\ \A k \in 1 .. n : k # 1 /\ q <= k => k \notin E
    <2>1. CASE ~ C
      <3>1. q = n + 1
        BY <1>1, <2>1
      <3> QED BY <1>2, <3>1
    <2>2. CASE C /\ E \subseteq {1}
      <3>1. q = 1
        BY <1>1, <2>2 DEF InsertPosition
      <3> QED BY <1>2, <2>2, <3>1
    <2>3. CASE C /\ ~ (E \subseteq {1})
      <3>1. E \subseteq Nat /\ E # {} /\ \A k \in E : k <= n
        BY <1>2, <1>4, <2>3
      <3>2. Max(E) \in E /\ \A k \in E : k <= Max(E)
        BY <1>2, <3>1, MaxOf
      <3>3. q = Max(E) + 1
        BY <1>1, <2>3 DEF InsertPosition
      <3> DEFINE m == Max(E)
      <3> HIDE DEF m
      <3>4. q = m + 1 /\ m \in 1 .. n /\ \A k \in E : k <= m
        BY <1>4, <3>2, <3>3 DEF m
      <3> QED BY <1>2, <3>4
    <2> QED BY <2>1, <2>2, <2>3
  <1>6. \A k \in 1 .. n : k # 1 /\ q <= k => Later(At(rowData, all[k]))
    BY <1>3, <1>5
  <1> QED BY <1>2, <1>5, <1>6 DEF Later, q, n

LEMMA RenumberedAs ==
    ASSUME NEW ps \in Seq(Pointers), NEW rowData, NEW r \in Rows, NEW p, rowData[r].base \in Int
    PROVE  /\ Moved(Renumbered(ps, rowData, r, p), ps, r)
           /\ \A i \in Of(ps, r) : Renumbered(ps, rowData, r, p)[i].place =
                IF Rank(ps, r, i) >= p THEN rowData[r].base + Rank(ps, r, i) - 1 ELSE ps[i].place
  <1> DEFINE n == Len(ps)
             b == rowData[r].base
             ps2 == Renumbered(ps, rowData, r, p)
             dealt(i) == [row |-> r, place |-> b + Rank(ps, r, i) - 1]
  <1>1. ps2 = [i \in 1 .. n |-> IF ps[i].row = r /\ Rank(ps, r, i) >= p THEN dealt(i) ELSE ps[i]]
    BY DEF Renumbered, Rank
  <1>2. n \in Nat /\ DOMAIN ps = 1 .. n /\ \A i \in 1 .. n : ps[i] \in Pointers
    OBVIOUS
  <1>3. ASSUME NEW i \in 1 .. n, ps[i].row = r PROVE dealt(i) \in Pointers
    <2>1. i \in Of(ps, r)
      BY <1>2, <1>3 DEF Of
    <2>2. Rank(ps, r, i) \in 1 .. Cardinality(Of(ps, r)) /\ Cardinality(Of(ps, r)) \in Nat
      BY <2>1, Ranks
    <2>3. b + Rank(ps, r, i) - 1 \in Int
      <3> HIDE DEF b
      <3>1. b \in Int
        BY DEF b
      <3> QED BY <2>2, <3>1
    <2> QED BY <2>3 DEF Pointers
  <1>4. \A i \in 1 .. n :
            ps2[i] = IF ps[i].row = r /\ Rank(ps, r, i) >= p THEN dealt(i) ELSE ps[i]
    BY <1>1
  <1>5. \A i \in 1 .. n : ps2[i] \in Pointers
    <2> HIDE DEF dealt, ps2
    <2> QED BY <1>2, <1>3, <1>4
  <1>6. ps2 \in Seq(Pointers) /\ Len(ps2) = n
    <2> DEFINE g == [i \in 1 .. n |-> ps2[i]]
    <2>1. ps2 = g
      BY <1>1
    <2>2. g \in Seq(Pointers) /\ Len(g) = n
      <3> HIDE DEF ps2, n
      <3> QED BY <1>2, <1>5
    <2> HIDE DEF g, ps2
    <2> QED BY <2>1, <2>2
  <1>7. \A i \in 1 .. n : ps2[i].row = ps[i].row /\ (ps[i].row # r => ps2[i] = ps[i])
    <2>1. \A i : dealt(i).row = r
      OBVIOUS
    <2> HIDE DEF dealt, ps2
    <2> QED BY <1>4, <2>1
  <1>8. ASSUME NEW i \in Of(ps, r)
        PROVE  ps2[i].place = IF Rank(ps, r, i) >= p THEN b + Rank(ps, r, i) - 1 ELSE ps[i].place
    <2>1. i \in 1 .. n /\ ps[i].row = r
      BY <1>2 DEF Of
    <2>2. dealt(i).place = b + Rank(ps, r, i) - 1
      OBVIOUS
    <2> HIDE DEF dealt, ps2
    <2> QED BY <1>4, <2>1, <2>2
  <1> QED BY <1>2, <1>6, <1>7, <1>8 DEF Moved

LEMMA CallbackStep ==
    ASSUME AnnotationsInv, NEW ann \in Annotations, AnnotationCallback(ann)
    PROVE  /\ AnnotationsInv'
           /\ Len(all') = Len(all) + 1
           /\ ~ PutAmong(ann) => \A k \in DOMAIN all :
                all'[k] = all[k] /\ At(rows', all[k]) = At(rows, all[k])
  <1> DEFINE r == RowOf[ann.class]
             row == rows[r]
             n == Len(row.list)
             p == RowPosition(row, ann)
             row2 == Emplaced(row, ann)
             rowData == [rows EXCEPT ![r] = row2]
             x == [row |-> r, place |-> row2.base + p - 1]
             q == ListPosition(rowData, ann)
             new == InsertAt(all, q, x)
             ps2 == IF p <= n THEN Renumbered(new, rowData, r, p) ELSE new
             lost == mislaid \/ (OutOfOrder(row, ann) /\ p # 1 /\ MovesFront(row, p))
  <1>1. r \in Rows /\ row \in RowType /\ RowInv(row) /\ PointersInv(all, r, row, mislaid)
    <2>1. r \in Rows
      BY AnnotationAssumption DEF Annotations
    <2> QED BY <2>1 DEF AnnotationsInv
  <1>2. rowData \in [Rows -> {row2} \union RowType] /\ rowData[r] = row2
    BY <1>1 DEF AnnotationsInv
  <1>3. /\ rows' = rowData /\ all' = ps2 /\ mislaid' = lost
    BY <1>2 DEF AnnotationCallback
  <1>4. /\ n \in Nat /\ p \in 1 .. n + 1 /\ row.base \in Int /\ row.list \in Seq(Annotations)
        /\ ~ OutOfOrder(row, ann) => p = n + 1 /\ row.latest <= ann.start
        /\ OutOfOrder(row, ann) =>
              /\ p <= n /\ p # 2
              /\ p > 1 => row.list[p - 1].start <= ann.start
              /\ \A i \in 2 .. n : p <= i => ann.start < row.list[i].start
    <2>1. Latest(row) /\ row.base \in Int /\ row.list \in Seq(Annotations)
      BY <1>1 DEF RowInv, RowType
    <2> HIDE DEF row
    <2> QED BY <1>1, <2>1, Position
  <1>5. /\ RowInv(row2) /\ row2.list = InsertAt(row.list, p, ann)
        /\ row2.base = IF OutOfOrder(row, ann) /\ MovesFront(row, p) THEN row.base - 1
                                                                     ELSE row.base
    <2> HIDE DEF row
    <2> QED BY <1>1, EmplacedRow
  <1>6. /\ row2.list \in Seq(Annotations) /\ Insertion(row2.list, row.list, p, ann)
        /\ Len(row2.list) = n + 1
    <2>1. InsertAt(row.list, p, ann) \in Seq(Annotations) /\ Insertion(InsertAt(row.list, p, ann), row.list, p, ann)
      <3> HIDE DEF row, p
      <3> QED BY <1>4, Inserted
    <2> HIDE DEF row2, p, row
    <2> QED BY <1>5, <2>1 DEF Insertion
  <1>7. row2.base \in {row.base - 1, row.base} /\ row2.base \in Int /\ row2 \in RowType
    <2> HIDE DEF row2, row, p
    <2> QED BY <1>4, <1>5 DEF RowInv
  <1>8. x \in Pointers /\ x.row = r /\ x.place = row2.base + p - 1 /\ x.place \in Places(row2)
    <2>1. row2.base + p - 1 \in row2.base .. row2.base + Len(row2.list) - 1
      <3> HIDE DEF row2, row, p, n
      <3> QED BY <1>4, <1>6, <1>7
    <2>2. row2.base + p - 1 \in Int
      <3> HIDE DEF row2, p
      <3> QED BY <2>1, <1>7
    <2> HIDE DEF row2, r, p
    <2> QED BY <1>1, <2>1, <2>2 DEF Pointers, Places
  <1>9. all \in Seq(Pointers)
    BY DEF AnnotationsInv
  <1>10. /\ q \in 1 .. Len(all) + 1
         /\ \A k \in DOMAIN all : k # 1 /\ q <= k =>
                \/ ann.start < At(rowData, all[k]).start
                \/ /\ ann.start = At(rowData, all[k]).start
                   /\ Length(ann) > Length(At(rowData, all[k]))
    <2> HIDE DEF rowData
    <2> QED BY <1>9, ListedAt
  <1>11. Adding(new, all, q, x, r)
    <2> HIDE DEF x, q, r
    <2>1. new \in Seq(Pointers) /\ Insertion(new, all, q, x)
      BY <1>8, <1>9, <1>10, Inserted
    <2> HIDE DEF new
    <2> QED BY <1>8, <1>9, <1>10, <2>1 DEF Adding
  <1> HIDE DEF row2, x, q, new
  <1>12. /\ new \in Seq(Pointers) /\ Moved(ps2, new, r)
         /\ \A i \in Of(new, r) : ps2[i].place =
                IF p <= n /\ Rank(new, r, i) >= p THEN row2.base + Rank(new, r, i) - 1
                                                  ELSE new[i].place
    <2>1. new \in Seq(Pointers)
      BY <1>11 DEF Adding
    <2>2. CASE p <= n
      <3>1. rowData[r].base = row2.base /\ rowData[r].base \in Int
        BY <1>2, <1>7
      <3>2. ps2 = Renumbered(new, rowData, r, p)
        BY <2>2
      <3> HIDE DEF rowData, r, p, ps2, n
      <3>3. /\ Moved(ps2, new, r)
            /\ \A i \in Of(new, r) : ps2[i].place =
                IF Rank(new, r, i) >= p THEN rowData[r].base + Rank(new, r, i) - 1
                                        ELSE new[i].place
        BY <1>1, <2>1, <3>1, <3>2, RenumberedAs
      <3> QED BY <2>1, <2>2, <3>1, <3>3
    <2>3. CASE ~ (p <= n)
      <3>1. ps2 = new
        BY <2>3
      <3> HIDE DEF ps2, r, p, n
      <3> QED BY <2>1, <2>3, <3>1 DEF Moved
    <2> QED BY <2>2, <2>3
  <1> HIDE DEF ps2
  <1>13. Placed(ps2, r, row2)
    <2>1. Placed(all, r, row)
      BY <1>1 DEF PointersInv
    <2>2. \A i \in Of(new, r) : ps2[i].place \in {new[i].place, row2.base + Rank(new, r, i) - 1}
      <3> HIDE DEF r, p, n
      <3> QED BY <1>12
    <2>3. Len(row2.list) = Len(row.list) + 1
      BY <1>6
    <2> HIDE DEF row, r
    <2> QED BY <1>4, <1>6, <1>7, <1>8, <1>11, <1>12, <2>1, <2>2, <2>3, PlacedAnew
  <1>14. ASSUME NEW k \in Of(all, r)
         PROVE  /\ At(rowData, all[k]) = Place(row2, all[k].place) /\ k \in DOMAIN all
                /\ all[k].place \in row.base .. row.base + n - 1
    <2>1. all[k].row = r /\ k \in DOMAIN all
      BY DEF Of
    <2>2. At(rowData, all[k]) = Place(row2, all[k].place)
      <3> HIDE DEF r, rowData
      <3> QED BY <1>2, <2>1 DEF At, Place
    <2>3. Placed(all, r, row)
      BY <1>1 DEF PointersInv
    <2> QED BY <2>1, <2>2, <2>3 DEF Placed, Places
  <1>15. ASSUME ~ lost PROVE Distinct(ps2, r) /\ Sorted(ps2, r, row2)
    <2>1. Placed(all, r, row) /\ Distinct(all, r) /\ Sorted(all, r, row)
      BY <1>1, <1>15 DEF PointersInv
    <2>2. CASE ~ OutOfOrder(row, ann)
      <3>1. p = n + 1 /\ row.latest <= ann.start /\ row2.base = row.base
        BY <1>4, <1>5, <2>2
      <3>2. ASSUME NEW k \in Of(all, r), k # 1, q <= k
            PROVE  ann.start <= Place(row, all[k].place).start
        <4> DEFINE place == all[k].place
                   i == place - row.base + 1
        <4>1. place \in row.base .. row.base + n - 1
          BY <1>14
        <4>2. i \in 1 .. n /\ i \in 1 .. n + 1 /\ i < n + 1
          <5>1. n \in Nat /\ row.base \in Int
            BY <1>4
          <5> HIDE DEF n, place, row
          <5> QED BY <4>1, <5>1, WithinRow
        <4>3. row2.list[i] = row.list[i]
          <5>1. \A j \in 1 .. n + 1 : j < n + 1 => row2.list[j] = row.list[j]
            BY <1>6, <3>1 DEF Insertion
          <5> HIDE DEF i
          <5> QED BY <4>2, <5>1
        <4>4. Place(row2, place) = Place(row, place)
          BY <3>1, <4>3 DEF Place
        <4>5. \/ ann.start < Place(row, place).start
              \/ ann.start = Place(row, place).start
          <5>1. k \in DOMAIN all /\ At(rowData, all[k]) = Place(row, place)
            BY <1>14, <4>4
          <5> HIDE DEF place, rowData
          <5> QED BY <1>10, <3>2, <5>1
        <4>6. Place(row, place) = row.list[i] /\ row.list[i].start \in Nat /\ ann.start \in Nat
          <5>1. row.list[i].start \in Nat
            <6> HIDE DEF i, row
            <6> QED BY <1>4, <4>2, Elements
          <5>2. ann.start \in Nat
            BY DEF Annotations
          <5> QED BY <5>1, <5>2 DEF Place
        <4> HIDE DEF place, i
        <4>7. ann.start <= Place(row, place).start
          BY <4>5, <4>6
        <4> QED BY <4>7 DEF place
      <3>3. ps2 = new
        BY <1>4, <3>1 DEF ps2
      <3>4. Insertion(row2.list, row.list, Len(row.list) + 1, ann)
        BY <1>6, <3>1
      <3>5. x.place = row.base + Len(row.list)
        <4>1. row2.base + (n + 1) - 1 = row.base + n
          <5> HIDE DEF n, row
          <5> QED BY <1>4, <3>1
        <4> QED BY <1>8, <3>1, <4>1
      <3> HIDE DEF row, r, p, n
      <3>6. Distinct(new, r) /\ Sorted(new, r, row2)
        BY <1>1, <1>11, <2>1, <3>1, <3>2, <3>4, <3>5, Behind
      <3> QED BY <3>3, <3>6
    <2>3. CASE OutOfOrder(row, ann) /\ p = 1
      <3>1. \A i \in Of(new, r) : Rank(new, r, i) >= 1
        <4> HIDE DEF r
        <4>1. \A i \in Of(new, r) : Rank(new, r, i) \in 1 .. Cardinality(Of(new, r))
          BY <1>12, Ranks
        <4>2. Cardinality(Of(new, r)) \in Nat
          BY <1>12, Ranks
        <4> QED BY <4>1, <4>2
      <3>2. \A i \in Of(new, r) : ps2[i].place = row2.base + Rank(new, r, i) - 1
        <4>1. p <= n
          BY <1>4, <2>3
        <4> HIDE DEF r, p, n
        <4> QED BY <1>12, <2>3, <3>1, <4>1
      <3> HIDE DEF r
      <3> QED BY <1>7, <1>12, <3>2, InFront
    <2>4. CASE OutOfOrder(row, ann) /\ p # 1
      <3>1. ~ MovesFront(row, p) /\ row2.base = row.base
        BY <1>5, <1>15, <2>4
      <3>2. p \in 3 .. n
        <4>1. p \in 1 .. n + 1 /\ p <= n /\ p # 1 /\ p # 2
          BY <1>4, <2>4
        <4> HIDE DEF p, n
        <4> QED BY <1>4, <4>1
      <3>3. row.list[p - 1].start <= ann.start /\ ann.start < row.list[p].start
        <4>1. p > 1 /\ p \in 2 .. n /\ p <= p
          <5> HIDE DEF p, n
          <5> QED BY <1>4, <3>2
        <4> HIDE DEF p, n
        <4> QED BY <1>4, <2>4, <4>1
      <3>4. ASSUME NEW k \in Of(all, r), k # 1, all[k].place = row.base + (p - 1)
            PROVE  k < q
        <4>1. SUFFICES ASSUME q <= k PROVE FALSE
          <5>1. k \in Nat /\ q \in Nat
            BY <1>9, <1>10 DEF Of
          <5> QED BY <5>1
        <4>2. Place(row2, all[k].place) = ann
          <5>1. (row.base + (p - 1)) - row.base + 1 = p /\ p \in 1 .. n + 1 /\ ~ (p < p)
            <6> HIDE DEF p, n, row
            <6> QED BY <1>4, <3>2
          <5>2. row2.list[p] = ann
            <6> HIDE DEF p, row
            <6> QED BY <1>6, <5>1 DEF Insertion, n
          <5>3. Place(row2, all[k].place) = row2.list[(row.base + (p - 1)) - row.base + 1]
            BY <3>1, <3>4 DEF Place
          <5> HIDE DEF p, row
          <5> QED BY <5>1, <5>2, <5>3
        <4>3. At(rowData, all[k]) = ann /\ k \in DOMAIN all
          BY <1>14, <4>2
        <4>4. ann.start < ann.start \/ Length(ann) > Length(ann)
          <5> HIDE DEF rowData
          <5> QED BY <1>10, <3>4, <4>1, <4>3
        <4>5. ann.start \in Nat /\ Length(ann) \in Int
          BY DEF Annotations, Length
        <4> QED BY <4>4, <4>5
      <3>5. \A i \in Of(new, r) :
              ps2[i].place = IF Rank(new, r, i) >= p THEN row.base + Rank(new, r, i) - 1
                                                     ELSE new[i].place
        <4>1. p <= n
          BY <1>4, <2>4
        <4> HIDE DEF r, p, n, row
        <4> QED BY <1>12, <3>1, <4>1
      <3>6. p \in 3 .. Len(row.list)
        BY <3>2
      <3> HIDE DEF row, r, p, n
      <3> QED BY <1>1, <1>6, <1>11, <1>12, <2>1, <3>1, <3>3, <3>4, <3>5, <3>6, Within
    <2> QED BY <2>2, <2>3, <2>4
  <1>16. ASSUME NEW r2 \in Rows
         PROVE  RowInv(rowData[r2]) /\ PointersInv(ps2, r2, rowData[r2], lost)
    <2>1. CASE r2 = r
      <3> HIDE DEF r, rowData, lost
      <3> QED BY <1>2, <1>5, <1>13, <1>15, <2>1 DEF PointersInv
    <2>2. CASE r2 # r
      <3>1. rowData[r2] = rows[r2]
        BY <2>2 DEF AnnotationsInv
      <3>2. RowInv(rows[r2]) /\ PointersInv(all, r2, rows[r2], mislaid)
        BY DEF AnnotationsInv
      <3> DEFINE other == rows[r2]
      <3> HIDE DEF other, r
      <3>3. /\ Placed(all, r2, other) => Placed(ps2, r2, other)
            /\ Distinct(all, r2) => Distinct(ps2, r2)
            /\ Sorted(all, r2, other) => Sorted(ps2, r2, other)
        BY <1>11, <1>12, <2>2, OtherRow
      <3>4. ~ lost => ~ mislaid
        OBVIOUS
      <3> HIDE DEF lost
      <3>5. PointersInv(ps2, r2, other, lost)
        BY <3>2, <3>3, <3>4 DEF PointersInv, other
      <3> QED BY <3>1, <3>2, <3>5 DEF other
    <2> QED BY <2>1, <2>2
  <1>17. rowData \in [Rows -> RowType] /\ ps2 \in Seq(Pointers) /\ lost \in BOOLEAN
    <2>1. ps2 \in Seq(Pointers)
      BY <1>12 DEF Moved
    <2>2. rowData \in [Rows -> RowType]
      BY <1>1, <1>7 DEF AnnotationsInv
    <2>3. lost \in BOOLEAN
      BY DEF AnnotationsInv
    <2> QED BY <2>1, <2>2, <2>3
  <1>18. Len(ps2) = Len(all) + 1
    BY <1>11, <1>12 DEF Moved, Adding, Insertion
  \* what is put behind all others leaves them as they are
  <1>19. ASSUME ~ PutAmong(ann), NEW k \in DOMAIN all
         PROVE  ps2[k] = all[k] /\ At(rowData, all[k]) = At(rows, all[k])
    <2>1. ~ OutOfOrder(row, ann) /\ ~ (q <= Len(all))
      BY <1>19 DEF PutAmong, row2, q
    <2>2. p = n + 1 /\ row2.base = row.base
      BY <1>4, <1>5, <2>1
    <2>3. ps2 = new
      BY <1>4, <2>2 DEF ps2
    <2>4. k \in 1 .. Len(all) + 1 /\ k < q
      BY <1>9, <1>10, <2>1
    <2>5. new[k] = all[k]
      BY <1>11, <2>4 DEF Adding, Insertion
    <2>6. CASE all[k].row = r
      <3> DEFINE place == all[k].place
                 i == place - row.base + 1
      <3>1. k \in Of(all, r)
        BY <2>6 DEF Of
      <3>2. At(rowData, all[k]) = Place(row2, place) /\ place \in row.base .. row.base + n - 1
        BY <1>14, <3>1
      <3>3. i \in 1 .. n + 1 /\ i < n + 1
        <4> HIDE DEF n, place
        <4> QED BY <1>4, <3>2
      <3>4. row2.list[i] = row.list[i]
        <4>1. \A j \in 1 .. n + 1 : j < n + 1 => row2.list[j] = row.list[j]
          BY <1>6, <2>2 DEF Insertion
        <4> HIDE DEF i
        <4> QED BY <3>3, <4>1
      <3>5. Place(row2, place) = row.list[i]
        BY <2>2, <3>4 DEF Place
      <3>6. At(rows, all[k]) = row.list[i]
        BY <2>6 DEF At
      <3> QED BY <2>3, <2>5, <3>2, <3>5, <3>6
    <2>7. CASE all[k].row # r
      <3>1. all[k].row \in Rows
        <4>1. all[k] \in Pointers
          BY <1>9
        <4> QED BY <4>1 DEF Pointers
      <3>2. rowData[all[k].row] = rows[all[k].row]
        BY <2>7, <3>1 DEF AnnotationsInv
      <3> HIDE DEF rowData
      <3> QED BY <2>3, <2>5, <3>2 DEF At
    <2> QED BY <2>6, <2>7
  <1> HIDE DEF rowData, lost
  <1>20. AnnotationsInv'
    BY <1>3, <1>16, <1>17 DEF AnnotationsInv
  <1>21. ASSUME ~ PutAmong(ann), NEW k \in DOMAIN all
         PROVE  all'[k] = all[k] /\ At(rows', all[k]) = At(rows, all[k])
    BY <1>3, <1>19, <1>21
  <1> QED BY <1>3, <1>18, <1>20, <1>21

-----------------------------------------------------------------------------
(* What is drawn of a row                                                  *)

LEMMA Divided ==
    ASSUME NEW n \in Nat, NEW d \in Nat \ {0}
    PROVE  /\ n \div d \in Nat /\ n % d \in 0 .. d - 1
           /\ n = d * (n \div d) + (n % d)
  OBVIOUS

LEMMA Product ==
    ASSUME NEW d \in Nat, NEW x \in Nat, NEW y \in Nat, x <= y
    PROVE  d * x \in Nat /\ d * y \in Nat /\ d * x <= d * y
  OBVIOUS

\* Every stride-th of m things, where limit strides are enough for them.
LEMMA Strides ==
    ASSUME NEW m \in Nat, NEW limit \in Nat \ {0}, NEW a \in Nat,
           NEW stride, stride = (m + limit - 1) \div limit, m > 0,
           NEW T, T \subseteq {k \in a + 1 .. a + m : (k - a - 1) % stride = 0}
    PROVE  Cardinality(T) <= limit
  <1> DEFINE f == [k \in T |-> (k - a - 1) \div stride]
  <1>1. stride \in Nat \ {0} /\ m <= stride * limit
    <2> DEFINE n == m + limit - 1
    <2>1. n \in Nat /\ stride = n \div limit /\ n < m + limit
      OBVIOUS
    <2>2. n = limit * stride + (n % limit) /\ n % limit \in 0 .. limit - 1 /\ stride \in Nat
      BY <2>1, Divided
    <2> DEFINE rest == n % limit
               total == limit * stride
    <2>3. n = total + rest /\ rest \in 0 .. limit - 1 /\ stride \in Nat
      BY <2>2
    <2>4. total \in Nat /\ total = stride * limit
      BY <2>3
    <2>5. n = m + (limit - 1)
      OBVIOUS
    <2> HIDE DEF n, total, rest
    <2>6. m <= total
      BY <2>1, <2>3, <2>4, <2>5
    <2>7. stride # 0
      <3>1. stride = 0 => total = 0
        BY DEF total
      <3> QED BY <2>6, <3>1
    <2> QED BY <2>3, <2>4, <2>6, <2>7
  <1>2. ASSUME NEW k \in T
        PROVE  /\ f[k] \in 0 .. limit - 1
               /\ k = a + 1 + stride * f[k]
    <2> DEFINE n == k - a - 1
               x == n \div stride
    <2>1. n \in Nat /\ n < m /\ n % stride = 0 /\ k = a + 1 + n
      OBVIOUS
    <2>2. f[k] = x
      OBVIOUS
    <2> HIDE DEF n, f
    <2>3. x \in Nat /\ n = stride * x + (n % stride)
      BY <1>1, <2>1, Divided
    <2> HIDE DEF x
    <2> DEFINE y == stride * x
    <2>4. y \in Nat
      BY <1>1, <2>3, Product
    <2>5. n = y
      <3>1. n = y + (n % stride)
        BY <2>3
      <3> HIDE DEF y
      <3> QED BY <2>1, <2>4, <3>1
    <2>6. x < limit
      <3>1. SUFFICES ASSUME limit <= x PROVE FALSE
        BY <2>3
      <3>2. stride * limit <= y /\ stride * limit \in Nat
        BY <1>1, <2>3, <3>1, Product
      <3> DEFINE z == stride * limit
      <3> HIDE DEF y, z
      <3>3. z <= y /\ m <= z /\ z \in Nat
        BY <1>1, <3>2 DEF z
      <3> QED BY <2>1, <2>4, <2>5, <3>3
    <2>7. k = a + 1 + y
      <3> HIDE DEF y
      <3> QED BY <2>1, <2>5
    <2> QED BY <2>2, <2>3, <2>6, <2>7
  <1>3. Numbers(f, T, 0, limit - 1)
    <2>1. \A j, k \in T : f[j] = f[k] => j = k
      <3>1. ASSUME NEW j \in T, NEW k \in T, f[j] = f[k] PROVE j = k
        <4>1. j = a + 1 + stride * f[j] /\ k = a + 1 + stride * f[k]
          BY <1>2
        <4> HIDE DEF f
        <4> QED BY <3>1, <4>1
      <3> QED BY <3>1
    <2>2. limit - 1 \in Int /\ 0 <= (limit - 1) + 1
      OBVIOUS
    <2> HIDE DEF f
    <2> QED BY <1>2, <2>1, <2>2 DEF Numbers
  <1> HIDE DEF f
  <1> DEFINE b == limit - 1
  <1>4. b + 1 - 0 = limit
    OBVIOUS
  <1>5. Numbers(f, T, 0, b)
    BY <1>3
  <1> HIDE DEF b
  <1> QED BY <1>4, <1>5, Fits

LEMMA DrawnExactly ==
    ASSUME NEW r \in Rows, RowInv(rows[r]), InOrder(rows[r].list),
           NEW from \in Nat, NEW to \in Nat, NEW limit \in Nat
    PROVE  LET list == rows[r].list
               wanted == {i \in DOMAIN list : /\ list[i].end > from /\ list[i].start <= to
                                              /\ Visible(list[i])}
               drawn == Subset(r, from, to, limit)
           IN /\ drawn \subseteq wanted
              /\ limit = 0 => drawn = wanted
              /\ Cardinality(drawn) <= limit \/ drawn = wanted
  <1> DEFINE list == rows[r].list
             maxEnds == rows[r].maxEnds
             n == Len(list)
             B == Len(maxEnds)
             classes == {c \in Classes : RowOf[c] = r}
             passed == {b \in DOMAIN maxEnds : maxEnds[b] <= from}
             skipped == Cardinality(passed)
             first == Min({skipped * IndexBlockSize, n})
             begun == {i \in DOMAIN list : i > first /\ list[i].start <= to}
             last == first + Cardinality(begun)
             limited == hidden \intersect classes = {} /\ limit > 0 /\ last - first > limit
             stride == IF limited THEN (last - first + limit - 1) \div limit ELSE 1
             wanted == {i \in DOMAIN list : /\ list[i].end > from /\ list[i].start <= to
                                            /\ Visible(list[i])}
             drawn == Subset(r, from, to, limit)
             inside == {k \in first + 1 .. last : list[k].end > from /\ Visible(list[k])}
  <1>1. drawn = {k \in first + 1 .. last : /\ (k - first - 1) % stride = 0
                                           /\ list[k].end > from /\ Visible(list[k])}
    BY DEF Subset
  <1>2. /\ list \in Seq(Annotations) /\ maxEnds \in Seq(Nat) /\ Indexed(maxEnds, list)
        /\ n \in Nat /\ B \in Nat /\ DOMAIN list = 1 .. n /\ DOMAIN maxEnds = 1 .. B
        /\ \A i \in 1 .. n : list[i].start \in Nat /\ list[i].end \in Nat
    <2>1. list \in Seq(Annotations) /\ maxEnds \in Seq(Nat) /\ Indexed(maxEnds, list)
      BY DEF RowInv, RowType
    <2> HIDE DEF list, maxEnds
    <2> QED BY <2>1, Elements
  <1> HIDE DEF list, maxEnds
  \* the blocks that are skipped
  <1>3. skipped \in 0 .. B /\ \A b \in 1 .. skipped : maxEnds[b] <= from
    <2>1. passed \subseteq 0 + 1 .. B
      BY <1>2
    <2>2. ASSUME NEW c \in passed, NEW b \in 0 + 1 .. c PROVE b \in passed
      <3>1. b \in 1 .. B /\ c \in 1 .. B /\ b <= c /\ maxEnds[c] <= from
        BY <1>2
      <3>2. EndOf(b) <= EndOf(c) /\ EndOf(b) \in Nat /\ EndOf(c) \in Nat
        BY <3>1, EndsOfBlocks
      <3>3. PICK i \in 1 .. n : i <= EndOf(b) /\ list[i].end = maxEnds[b]
        BY <1>2, <3>1, GreatestOf
      <3>4. list[i].end <= maxEnds[c] /\ maxEnds[c] \in Nat
        <4>1. i <= EndOf(c)
          BY <3>2, <3>3
        <4> HIDE DEF n, B
        <4>2. \A j \in 1 .. Len(list) : j <= EndOf(c) => list[j].end <= maxEnds[c]
          BY <1>2, <3>1, GreatestOf DEF B
        <4>3. maxEnds[c] \in Nat
          BY <1>2, <3>1
        <4> QED BY <4>1, <4>2, <4>3 DEF n
      <3>5. maxEnds[b] <= from
        BY <1>2, <3>1, <3>3, <3>4
      <3> QED BY <1>2, <3>1, <3>5
    <2> HIDE DEF passed, B
    <2>3. skipped \in Nat /\ passed = 0 + 1 .. 0 + skipped
      BY <1>2, <2>1, <2>2, Initial
    <2> HIDE DEF skipped
    <2>4. \A b \in 1 .. skipped : b \in passed
      BY <2>3
    <2>5. skipped <= B
      <3>1. CASE skipped = 0
        BY <1>2, <3>1
      <3>2. CASE skipped # 0
        <4>1. skipped \in passed
          BY <2>3, <2>4, <3>2
        <4> QED BY <1>2, <2>1, <4>1
      <3> QED BY <3>1, <3>2
    <2> QED BY <1>2, <2>3, <2>4, <2>5 DEF passed
  <1>4. first \in 0 .. n /\ first <= EndOf(skipped)
    <2>1. EndOf(skipped) \in Nat /\ first = Min({EndOf(skipped), n})
      <3>1. EndOf(skipped) \in Nat
        BY <1>3, EndsOfBlocks
      <3> QED BY <3>1 DEF EndOf
    <2> HIDE DEF first, skipped
    <2>2. first = IF EndOf(skipped) <= n THEN EndOf(skipped) ELSE n
      BY <1>2, <2>1, MinOfTwo
    <2> QED BY <1>2, <2>1, <2>2
  <1>5. ASSUME NEW i \in 1 .. n, i <= first PROVE ~ (list[i].end > from)
    <2>1. skipped # 0
      <3>1. EndOf(0) = 0
        BY EndsOfBlocks
      <3> HIDE DEF first, skipped
      <3> QED BY <1>4, <1>5, <3>1
    <2>2. skipped \in 1 .. B /\ maxEnds[skipped] <= from
      <3> HIDE DEF skipped, B
      <3> QED BY <1>2, <1>3, <2>1
    <2>3. list[i].end <= maxEnds[skipped] /\ maxEnds[skipped] \in Nat
      <3>1. i <= EndOf(skipped) /\ EndOf(skipped) \in Nat
        <4>1. EndOf(skipped) \in Nat
          BY <1>3, EndsOfBlocks
        <4> HIDE DEF first, skipped
        <4> QED BY <1>4, <1>5, <4>1
      <3> HIDE DEF skipped
      <3> QED BY <1>2, <2>2, <3>1, GreatestOf
    <2> HIDE DEF skipped
    <2> QED BY <1>2, <2>2, <2>3
  <1> HIDE DEF first
  \* the others that start in time
  <1>6. last - first \in Nat /\ last \in Nat /\ begun = first + 1 .. last
    <2>1. begun \subseteq first + 1 .. n
      BY <1>2, <1>4
    <2>2. ASSUME NEW j \in begun, NEW i \in first + 1 .. j PROVE i \in begun
      <3>1. j \in 1 .. n /\ i \in 1 .. n /\ i > first /\ i <= j /\ list[j].start <= to
        BY <1>2, <1>4
      <3>2. list[i].start <= list[j].start
        <4>1. CASE i = j
          BY <1>2, <3>1, <4>1
        <4>2. CASE i < j
          BY <1>2, <3>1, <4>2 DEF InOrder, list
        <4> QED BY <3>1, <4>1, <4>2
      <3>3. list[i].start <= to
        BY <1>2, <3>1, <3>2
      <3> QED BY <1>2, <3>1, <3>3
    <2> HIDE DEF begun
    <2>3. first \in Nat /\ n \in Nat /\ \A j \in begun : \A i \in first + 1 .. j : i \in begun
      BY <1>2, <1>4, <2>2
    <2> HIDE DEF n
    <2>4. Cardinality(begun) \in Nat /\ begun = first + 1 .. first + Cardinality(begun)
      BY <2>1, <2>3, Initial
    <2> QED BY <2>3, <2>4
  <1>7. wanted = inside
    <2>1. ASSUME NEW i \in wanted PROVE i \in inside
      <3>1. i \in 1 .. n /\ list[i].end > from /\ list[i].start <= to /\ Visible(list[i])
        BY <1>2
      <3>2. i > first
        BY <1>4, <1>5, <3>1
      <3>3. i \in begun
        BY <1>2, <3>1, <3>2
      <3> HIDE DEF begun, last
      <3> QED BY <1>6, <3>1, <3>3
    <2>2. ASSUME NEW i \in inside PROVE i \in wanted
      <3>1. i \in begun /\ list[i].end > from /\ Visible(list[i])
        <4> HIDE DEF begun, last
        <4> QED BY <1>6
      <3> QED BY <3>1
    <2> HIDE DEF wanted, inside
    <2> QED BY <2>1, <2>2
  <1>8. drawn = {k \in inside : (k - first - 1) % stride = 0}
    <2> HIDE DEF stride, drawn, last
    <2> QED BY <1>1
  <1> HIDE DEF drawn
  <1>9. ASSUME ~ limited PROVE drawn = wanted
    <2>1. stride = 1
      BY <1>9
    <2>2. \A k \in inside : (k - first - 1) % stride = 0
      <3> HIDE DEF stride, last
      <3>1. \A k \in inside : k - first - 1 \in Nat
        BY <1>4, <1>6
      <3> QED BY <2>1, <3>1
    <2> HIDE DEF stride, inside, wanted
    <2> QED BY <1>7, <1>8, <2>2
  <1>10. ASSUME limited PROVE Cardinality(drawn) <= limit
    <2> DEFINE m == last - first
    <2>1. m \in Nat /\ limit \in Nat \ {0} /\ m > 0 /\ stride = (m + limit - 1) \div limit
      <3>1. stride = (m + limit - 1) \div limit /\ limit > 0 /\ m > limit
        BY <1>10
      <3> HIDE DEF stride, last
      <3> QED BY <1>6, <3>1
    <2>2. drawn \subseteq {k \in first + 1 .. first + m : (k - first - 1) % stride = 0}
      <3>1. first + m = last
        <4> HIDE DEF last
        <4> QED BY <1>4, <1>6
      <3> HIDE DEF stride, last, m
      <3> QED BY <1>8, <3>1
    <2>3. first \in Nat
      BY <1>4
    <2> HIDE DEF stride, m
    <2> QED BY <2>1, <2>2, <2>3, Strides
  <1>11. drawn \subseteq wanted
    <2> HIDE DEF stride, inside, wanted
    <2> QED BY <1>7, <1>8
  <1>12. limit = 0 => ~ limited
    OBVIOUS
  <1> HIDE DEF limited, wanted
  <1>13. /\ drawn \subseteq wanted
         /\ limit = 0 => drawn = wanted
         /\ Cardinality(drawn) <= limit \/ drawn = wanted
    BY <1>9, <1>10, <1>11, <1>12
  <1> QED BY <1>13 DEF wanted, drawn, list

-----------------------------------------------------------------------------
(* What the table shows                                                    *)

\* s holds the elements of ps at the positions P, in their order.
Ranked(s, P, ps) ==
    /\ Len(s) = Cardinality(P)
    /\ \A k \in P : s[Cardinality({j \in P : j <= k})] = ps[k]

TableType ==
    /\ filtered \in Seq(Pointers) /\ taken \in 0 .. Len(all)
    /\ attached \in BOOLEAN /\ stale \in BOOLEAN
    /\ ~ attached => taken = 0 /\ filtered = <<>> /\ tpc = "idle"

TableInv == TableType /\ (~ stale => Ranked(filtered, Passing, all))

LEMMA RankIn ==
    ASSUME NEW t \in Nat, NEW P, P \subseteq 1 .. t
    PROVE  /\ IsFiniteSet(P) /\ Cardinality(P) \in Nat
           /\ \A k \in P : Cardinality({j \in P : j <= k}) \in 1 .. Cardinality(P)
  <1>1. IsFiniteSet(1 .. t)
    BY FS_Interval
  <1>2. IsFiniteSet(P) /\ Cardinality(P) \in Nat
    BY <1>1, FS_Subset, FS_CardinalityType
  <1>3. ASSUME NEW k \in P PROVE Cardinality({j \in P : j <= k}) \in 1 .. Cardinality(P)
    <2> DEFINE U == {j \in P : j <= k}
    <2>1. U \in SUBSET P /\ k \in U
      OBVIOUS
    <2> HIDE DEF U
    <2>2. IsFiniteSet(U) /\ Cardinality(U) <= Cardinality(P)
      BY <1>2, <2>1, FS_Subset
    <2>3. Cardinality(U) \in Nat /\ Cardinality(U) # 0
      BY <2>1, <2>2, FS_CardinalityType, FS_EmptySet
    <2>4. Cardinality(U) \in 1 .. Cardinality(P)
      BY <1>2, <2>2, <2>3
    <2> QED BY <2>4 DEF U
  <1> QED BY <1>2, <1>3

\* One more, behind all positions.
LEMMA RankedMore ==
    ASSUME NEW S, NEW s \in Seq(S), NEW t \in Nat, NEW P, P \subseteq 1 .. t, NEW ps,
           Ranked(s, P, ps), ps[t + 1] \in S
    PROVE  Ranked(Append(s, ps[t + 1]), P \union {t + 1}, ps)
  <1> DEFINE Q == P \union {t + 1}
             new == Append(s, ps[t + 1])
  <1>1. /\ IsFiniteSet(P) /\ Cardinality(P) \in Nat
        /\ \A k \in P : Cardinality({j \in P : j <= k}) \in 1 .. Cardinality(P)
    BY RankIn
  <1>2. t + 1 \notin P
    OBVIOUS
  <1>3. Cardinality(Q) = Cardinality(P) + 1
    BY <1>1, <1>2, FS_AddElement
  <1>4. Len(s) = Cardinality(P)
    BY DEF Ranked
  <1>5. Len(new) = Len(s) + 1 /\ new[Len(s) + 1] = ps[t + 1] /\ \A i \in 1 .. Len(s) : new[i] = s[i]
    OBVIOUS
  <1>6. ASSUME NEW k \in Q PROVE new[Cardinality({j \in Q : j <= k})] = ps[k]
    <2>1. CASE k = t + 1
      <3>1. {j \in Q : j <= k} = Q
        <4>1. \A j \in Q : j <= k
          BY <2>1
        <4> QED BY <4>1
      <3> HIDE DEF new, Q
      <3> QED BY <1>3, <1>4, <1>5, <2>1, <3>1
    <2>2. CASE k \in P
      <3>1. {j \in Q : j <= k} = {j \in P : j <= k}
        BY <2>2
      <3>2. s[Cardinality({j \in P : j <= k})] = ps[k]
        BY <2>2 DEF Ranked
      <3> HIDE DEF new, Q
      <3> QED BY <1>1, <1>4, <1>5, <2>2, <3>1, <3>2
    <2> QED BY <2>1, <2>2
  <1> HIDE DEF new, Q
  <1>7. Ranked(new, Q, ps)
    BY <1>3, <1>4, <1>5, <1>6 DEF Ranked
  <1> QED BY <1>7 DEF new, Q

LEMMA NothingTaken ==
    ASSUME NEW ps
    PROVE  Ranked(<<>>, {}, ps)
  BY FS_EmptySet DEF Ranked

\* The table starts anew, or goes on.
LEMMA Updated ==
    ASSUME AnnotationsInv, TableInv, NEW start \in {0, taken}, Update(start), UNCHANGED all,
           attached' = TRUE,
           start = taken => UNCHANGED <<rows, hidden, filter>> \/ taken = 0
    PROVE  TableInv'
  <1>1. all \in Seq(Pointers) /\ taken \in 0 .. Len(all) /\ Len(all) \in Nat
    BY DEF AnnotationsInv, TableInv, TableType
  <1>2. CASE start = 0 \/ all = <<>>
    <2>1. filtered' = <<>> /\ stale' = FALSE /\ taken' = 0
      <3>1. filtered' = <<>> /\ stale' = FALSE
        BY <1>2 DEF Update, TableInv, TableType
      <3>2. taken' = 0
        BY <1>2 DEF Update
      <3> QED BY <3>1, <3>2
    <2>2. Passing' = {}
      BY <2>1 DEF Passing
    <2>3. Ranked(filtered, Passing, all)'
      <3>1. Ranked(filtered', Passing', all')
        BY <2>1, <2>2, NothingTaken
      <3> QED BY <3>1 DEF Ranked
    <2>4. TableType'
      <3>1. taken' \in 0 .. Len(all') /\ <<>> \in Seq(Pointers)
        BY <1>1, <2>1
      <3> QED BY <2>1, <3>1 DEF TableType
    <2> QED BY <2>3, <2>4 DEF TableInv
  <1>3. CASE start = taken /\ start # 0 /\ all # <<>>
    <2>1. UNCHANGED <<rows, hidden, filter, filtered, stale, taken>>
      BY <1>3 DEF Update, TableInv, TableType
    <2>2. Passing' = Passing
      BY <2>1 DEF Passing, Admits, Visible, At
    <2>3. ~ stale' => Ranked(filtered, Passing, all)'
      BY <2>1, <2>2 DEF TableInv, Ranked
    <2>4. TableType'
      BY <2>1 DEF TableInv, TableType
    <2> QED BY <2>3, <2>4 DEF TableInv
  <1> QED BY <1>2, <1>3

LEMMA NothingShown ==
    ASSUME filtered' = <<>>, taken' = 0, stale' = FALSE, attached' \in BOOLEAN, tpc' = "idle",
           Len(all') \in Nat
    PROVE  TableInv'
  <1>1. Passing' = {}
    BY DEF Passing
  <1>2. Ranked(filtered', Passing', all')
    BY <1>1, NothingTaken
  <1>3. TableType'
    <2>1. 0 \in 0 .. Len(all') /\ <<>> \in Seq(Pointers)
      OBVIOUS
    <2> QED BY <2>1 DEF TableType
  <1> QED BY <1>2, <1>3 DEF TableInv, Ranked

LEMMA EmptyRow == RowInv(NoAnnotations)
  <1>1. NoAnnotations \in RowType
    BY DEF NoAnnotations, RowType
  <1>2. Latest(NoAnnotations)
    BY DEF NoAnnotations, Latest
  <1>3. Blocks(0) = 0
    <2>1. EndOf(0) = 0
      BY EndsOfBlocks
    <2>2. Blocks(0) \in Nat /\ \A b \in Nat : 0 <= EndOf(b) => Blocks(0) <= b
      BY BlocksOf
    <2> QED BY <2>1, <2>2
  <1>4. Indexed(<<>>, <<>>)
    BY <1>3 DEF Indexed
  <1> QED BY <1>1, <1>2, <1>4 DEF RowInv, NoAnnotations

LEMMA EmptyPointers ==
    ASSUME NEW r
    PROVE  PointersInv(<<>>, r, NoAnnotations, FALSE)
  <1>1. Of(<<>>, r) = {}
    BY DEF Of
  <1>2. Placed(<<>>, r, NoAnnotations)
    BY <1>1, FS_EmptySet DEF Placed, NoAnnotations
  <1> QED BY <1>1, <1>2 DEF PointersInv, Distinct, Sorted

LEMMA NothingYet ==
    ASSUME NEW new, new = [r \in Rows |-> NoAnnotations]
    PROVE  /\ new \in [Rows -> RowType]
           /\ \A r \in Rows : RowInv(new[r]) /\ PointersInv(<<>>, r, new[r], FALSE)
  <1>1. NoAnnotations \in RowType
    BY EmptyRow DEF RowInv
  <1>2. new \in [Rows -> RowType]
    BY <1>1
  <1>3. \A r \in Rows : new[r] = NoAnnotations
    OBVIOUS
  <1> QED BY <1>2, <1>3, EmptyRow, EmptyPointers

AnnotationInv == AnnotationsInv /\ TableInv

LEMMA EmptyList == <<>> \in Seq(Pointers)
  OBVIOUS

LEMMA AnnotationInvInit == AnnotationInit => AnnotationInv
  <1> SUFFICES ASSUME AnnotationInit PROVE AnnotationInv
    OBVIOUS
  <1>1. AnnotationsInv
    <2>1. rows = [r \in Rows |-> NoAnnotations] /\ all = <<>> /\ mislaid = FALSE
      BY DEF AnnotationInit, StoreInit
    <2>2. /\ rows \in [Rows -> RowType]
          /\ \A r \in Rows : RowInv(rows[r]) /\ PointersInv(<<>>, r, rows[r], FALSE)
      BY <2>1, NothingYet
    <2>3. all \in Seq(Pointers) /\ mislaid \in BOOLEAN
      BY <2>1, EmptyList
    <2> QED BY <2>1, <2>2, <2>3 DEF AnnotationsInv
  <1>2. Passing = {} /\ Ranked(<<>>, {}, all)
    BY NothingTaken DEF AnnotationInit, Passing
  <1>3. TableType
    <2>1. /\ filtered = <<>> /\ taken = 0 /\ attached = FALSE /\ stale = FALSE /\ tpc = "idle"
          /\ all = <<>>
      BY DEF AnnotationInit, StoreInit
    <2>2. 0 \in 0 .. Len(<<>>) /\ <<>> \in Seq(Pointers)
      OBVIOUS
    <2> QED BY <2>1, <2>2 DEF TableType
  <1>4. TableInv
    BY <1>2, <1>3 DEF AnnotationInit, TableInv
  <1> QED BY <1>1, <1>4 DEF AnnotationInv

LEMMA AnnotationInvStep == AnnotationInv /\ [AnnotationNext]_annotationVars => AnnotationInv'
  <1> SUFFICES ASSUME AnnotationInv, [AnnotationNext]_annotationVars PROVE AnnotationInv'
    OBVIOUS
  <1> USE DEF AnnotationInv
  <1>1. all \in Seq(Pointers) /\ Len(all) \in Nat /\ DOMAIN all = 1 .. Len(all) /\ taken \in 0 .. Len(all)
    BY DEF AnnotationsInv, TableInv, TableType
  <1>2. ASSUME UNCHANGED storeVars PROVE AnnotationsInv'
    BY <1>2 DEF storeVars, AnnotationsInv
  <1>3. ASSUME UNCHANGED <<storeVars, filter, taken>> PROVE Passing' = Passing
    BY <1>3 DEF storeVars, Passing, Admits, Visible, At
  <1>4. ASSUME NEW c \in Classes, NEW range \in Ranges[c],
               Annotate([start |-> range.start, end |-> range.end, class |-> c])
        PROVE  AnnotationInv'
    <2> DEFINE ann == [start |-> range.start, end |-> range.end, class |-> c]
    <2>1. ann \in Annotations
      BY AnnotationAssumption DEF Annotations
    <2>2. /\ AnnotationCallback(ann)
          /\ stale' = (stale \/ (taken > 0 /\ PutAmong(ann)))
          /\ UNCHANGED <<attached, filter, filtered, taken, tpc>>
      BY <1>4 DEF Annotate
    <2>3. hidden' = hidden
      BY <2>2 DEF AnnotationCallback
    <2> HIDE DEF ann
    <2>4. /\ AnnotationsInv'
          /\ Len(all') = Len(all) + 1
          /\ ~ PutAmong(ann) => \A k \in DOMAIN all :
                all'[k] = all[k] /\ At(rows', all[k]) = At(rows, all[k])
      BY <2>1, <2>2, CallbackStep
    <2>5. taken' \in 0 .. Len(all')
      BY <1>1, <2>2, <2>4
    <2>6. ASSUME ~ stale' PROVE Ranked(filtered', Passing', all')
      <3>1. ~ stale /\ Ranked(filtered, Passing, all)
        BY <2>2, <2>6 DEF TableInv
      <3>2. \A k \in 1 .. taken : all'[k] = all[k] /\ At(rows', all'[k]) = At(rows, all[k])
        <4>1. CASE taken = 0
          BY <4>1
        <4>2. CASE taken # 0
          <5>1. ~ PutAmong(ann)
            <6>1. taken > 0
              BY <1>1, <4>2
            <6> QED BY <2>2, <2>6, <6>1
          <5>2. \A k \in 1 .. taken : k \in DOMAIN all
            BY <1>1
          <5>3. \A k \in DOMAIN all : all'[k] = all[k] /\ At(rows', all[k]) = At(rows, all[k])
            BY <2>4, <5>1
          <5>4. ASSUME NEW k \in 1 .. taken
                PROVE  all'[k] = all[k] /\ At(rows', all'[k]) = At(rows, all[k])
            <6>1. all'[k] = all[k] /\ At(rows', all[k]) = At(rows, all[k])
              BY <5>2, <5>3
            <6> QED BY <6>1
          <5> QED BY <5>4
        <4> QED BY <4>1, <4>2
      <3>3. Passing' = Passing /\ Passing \subseteq 1 .. taken
        <4>1. ASSUME NEW k \in 1 .. taken
              PROVE  Admits(At(rows, all[k]))' <=> Admits(At(rows, all[k]))
          <5>1. At(rows', all'[k]) = At(rows, all[k])
            BY <3>2
          <5> QED BY <2>2, <2>3, <5>1 DEF Admits, Visible
        <4> QED BY <2>2, <4>1 DEF Passing
      <3>4. filtered' = filtered
        BY <2>2
      <3>5. \A k \in Passing : all'[k] = all[k]
        BY <3>2, <3>3
      <3> QED BY <3>1, <3>3, <3>4, <3>5 DEF Ranked
    <2>7. TableType'
      <3>1. stale' \in BOOLEAN
        BY <2>2 DEF TableInv, TableType
      <3> QED BY <2>2, <2>5, <3>1 DEF TableInv, TableType
    <2>8. TableInv'
      BY <2>6, <2>7 DEF TableInv, Ranked
    <2> QED BY <2>4, <2>8
  <1>5. CASE Take
    <2>1. /\ UNCHANGED <<storeVars, attached, filter, tpc, stale>> /\ tpc = "loop"
          /\ taken < Len(all) /\ taken' = taken + 1
          /\ filtered' = IF Admits(At(rows, all[taken + 1])) THEN Append(filtered, all[taken + 1])
                                                             ELSE filtered
      BY <1>5 DEF Take
    <2>2. UNCHANGED <<rows, all, hidden, mislaid>>
      BY <2>1 DEF storeVars
    <2>3. attached /\ filtered \in Seq(Pointers) /\ all[taken + 1] \in Pointers
      BY <1>1, <2>1 DEF TableInv, TableType
    <2>4. Passing' = IF Admits(At(rows, all[taken + 1])) THEN Passing \union {taken + 1} ELSE Passing
      <3>1. \A k : Admits(At(rows, all[k]))' <=> Admits(At(rows, all[k]))
        BY <2>1, <2>2 DEF Admits, Visible, At
      <3>2. 1 .. taken' = 1 .. taken \union {taken + 1} /\ taken + 1 \notin 1 .. taken
        BY <1>1, <2>1
      <3> DEFINE Good(k) == Admits(At(rows, all[k]))
      <3>3. Passing' = {k \in 1 .. taken' : Good(k)} /\ Passing = {k \in 1 .. taken : Good(k)}
        BY <3>1 DEF Passing
      <3> HIDE DEF Good
      <3>4. Passing' = IF Good(taken + 1) THEN Passing \union {taken + 1} ELSE Passing
        BY <3>2, <3>3
      <3> QED BY <3>4 DEF Good
    <2>5. ASSUME ~ stale' PROVE Ranked(filtered', Passing', all')
      <3>1. Ranked(filtered, Passing, all) /\ Passing \subseteq 1 .. taken /\ taken \in Nat
        BY <1>1, <2>1, <2>5 DEF TableInv, TableType, Passing
      <3>2. Ranked(Append(filtered, all[taken + 1]), Passing \union {taken + 1}, all)
        BY <2>3, <3>1, RankedMore
      <3> QED BY <2>1, <2>2, <2>4, <3>1, <3>2
    <2>6. filtered' \in Seq(Pointers) /\ taken' \in 0 .. Len(all')
      BY <1>1, <2>1, <2>2, <2>3
    <2>7. TableType'
      BY <2>1, <2>3, <2>6 DEF TableInv, TableType
    <2>8. TableInv'
      BY <2>5, <2>7 DEF TableInv, Ranked
    <2> QED BY <1>2, <2>1, <2>8
  <1>6. CASE AllTaken
    <2>1. /\ UNCHANGED <<storeVars, attached, filter, filtered, taken, stale>> /\ tpc = "loop"
      BY <1>6 DEF AllTaken
    <2>2. attached /\ all' = all
      BY <2>1 DEF TableInv, TableType, storeVars
    <2>3. TableType'
      BY <2>1, <2>2 DEF TableInv, TableType
    <2>4. TableInv'
      BY <1>3, <2>1, <2>2, <2>3 DEF TableInv, Ranked
    <2> QED BY <1>2, <2>1, <2>4
  <1>7. CASE Count
    <2>1. /\ UNCHANGED <<storeVars, attached, filter, filtered>> /\ tpc = "count"
          /\ taken' = Len(all) /\ stale' = (stale \/ taken # Len(all))
      BY <1>7 DEF Count
    <2>2. attached /\ all' = all
      BY <2>1 DEF TableInv, TableType, storeVars
    <2>3. ASSUME ~ stale' PROVE Ranked(filtered', Passing', all')
      <3>1. ~ stale /\ taken' = taken
        BY <2>1, <2>3
      <3>2. Passing' = Passing
        BY <1>3, <2>1, <3>1
      <3> QED BY <2>1, <2>2, <3>1, <3>2 DEF TableInv
    <2>4. filtered' \in Seq(Pointers) /\ attached' = TRUE /\ taken' \in 0 .. Len(all')
      <3>1. filtered \in Seq(Pointers) /\ attached = TRUE
        BY <2>2 DEF TableInv, TableType
      <3>2. filtered' = filtered /\ attached' = attached
        BY <2>1
      <3>3. taken' = Len(all') /\ Len(all') \in Nat
        BY <1>1, <2>1, <2>2
      <3>4. taken' \in 0 .. Len(all')
        BY <3>3
      <3> QED BY <3>1, <3>2, <3>4
    <2>5. TableType'
      <3>1. stale' \in BOOLEAN
        BY <2>1 DEF TableInv, TableType
      <3> QED BY <2>4, <3>1 DEF TableType
    <2>6. TableInv'
      BY <2>3, <2>5 DEF TableInv, Ranked
    <2> QED BY <1>2, <2>1, <2>6
  <1>8. CASE Refresh
    <2>1. Update(taken) /\ UNCHANGED <<storeVars, attached, filter>> /\ attached
      BY <1>8 DEF Refresh
    <2>2. UNCHANGED <<rows, all, hidden, mislaid>>
      BY <2>1 DEF storeVars
    <2>3. attached' = TRUE
      BY <2>1 DEF TableInv, TableType
    <2>4. TableInv'
      BY <2>1, <2>2, <2>3, Updated
    <2> QED BY <1>2, <2>1, <2>4
  <1>9. CASE Attach
    <2>1. Update(0) /\ UNCHANGED storeVars /\ attached' = TRUE /\ ~ attached
      BY <1>9 DEF Attach
    <2>2. all' = all /\ taken = 0
      BY <2>1 DEF storeVars, TableInv, TableType
    <2>3. TableInv'
      BY <2>1, <2>2, Updated
    <2> QED BY <1>2, <2>1, <2>3
  <1>10. CASE Detach
    <2>1. /\ UNCHANGED storeVars /\ attached' = FALSE /\ filtered' = <<>> /\ taken' = 0
          /\ stale' = FALSE /\ tpc' = "idle"
      BY <1>10 DEF Detach, Idle
    <2>2. Len(all') \in Nat
      BY <1>1, <2>1 DEF storeVars
    <2>3. TableInv'
      BY <2>1, <2>2, NothingShown
    <2> QED BY <1>2, <2>1, <2>3
  <1>11. CASE Reset
    <2>1. /\ ClearAnnotations /\ filtered' = <<>> /\ taken' = 0 /\ stale' = FALSE
          /\ tpc' = "idle" /\ attached' = attached
      BY <1>11 DEF Reset, Idle
    <2>2. AnnotationsInv'
      <3>1. rows' = [r \in Rows |-> NoAnnotations] /\ all' = <<>> /\ mislaid' = FALSE
        BY <2>1 DEF ClearAnnotations
      <3>2. /\ rows' \in [Rows -> RowType]
            /\ \A r \in Rows : RowInv(rows'[r]) /\ PointersInv(<<>>, r, rows'[r], FALSE)
        BY <3>1, NothingYet
      <3>3. all' \in Seq(Pointers) /\ mislaid' \in BOOLEAN
        BY <3>1, EmptyList
      <3> QED BY <3>1, <3>2, <3>3 DEF AnnotationsInv
    <2>3. Len(all') \in Nat /\ attached' \in BOOLEAN
      BY <2>1 DEF ClearAnnotations, TableInv, TableType
    <2>4. TableInv'
      BY <2>1, <2>3, NothingShown
    <2> QED BY <2>2, <2>4
  <1>12. ASSUME NEW f \in Filters, SetFilter(f) PROVE AnnotationInv'
    <2>1. Update(0) /\ UNCHANGED <<storeVars, attached>> /\ attached
      BY <1>12 DEF SetFilter
    <2>2. all' = all /\ attached' = TRUE /\ (0 = taken => taken = 0)
      BY <2>1 DEF storeVars, TableInv, TableType
    <2>3. TableInv'
      BY <2>1, <2>2, Updated
    <2> QED BY <1>2, <2>1, <2>3
  <1>13. ASSUME NEW c \in Hideable, SetVisible(c) PROVE AnnotationInv'
    <2>1. UNCHANGED <<rows, all, mislaid, attached, filter>> /\ tpc = "idle"
      BY <1>13 DEF SetVisible, Idle
    <2>2. AnnotationsInv'
      BY <2>1 DEF AnnotationsInv
    <2>3. CASE attached
      <3>1. Update(0) /\ all' = all /\ attached' = TRUE
        BY <1>13, <2>1, <2>3 DEF SetVisible, TableInv, TableType
      <3>2. TableInv'
        BY <3>1, Updated
      <3> QED BY <2>2, <3>2
    <2>4. CASE ~ attached
      <3>1. UNCHANGED <<filtered, taken, tpc, stale>> /\ taken = 0 /\ filtered = <<>>
        BY <1>13, <2>4 DEF SetVisible, TableInv, TableType
      <3>2. Passing' = {}
        BY <3>1 DEF Passing
      <3>3. Ranked(filtered', Passing', all')
        BY <3>1, <3>2, NothingTaken
      <3>4. TableType'
        BY <1>1, <2>1, <2>4, <3>1 DEF TableInv, TableType
      <3>5. TableInv'
        BY <3>3, <3>4 DEF TableInv, Ranked
      <3> QED BY <2>2, <3>5
    <2> QED BY <2>3, <2>4
  <1>14. CASE UNCHANGED annotationVars
    <2>1. UNCHANGED <<storeVars, attached, filter, filtered, taken, tpc, stale>>
      BY <1>14 DEF annotationVars, tableVars
    <2>2. all' = all
      BY <2>1 DEF storeVars
    <2>3. TableType'
      BY <2>1, <2>2 DEF TableInv, TableType
    <2>4. TableInv'
      BY <1>3, <2>1, <2>2, <2>3 DEF TableInv, Ranked
    <2> QED BY <1>2, <2>1, <2>4
  <1> QED BY <1>4, <1>5, <1>6, <1>7, <1>8, <1>9, <1>10, <1>11, <1>12, <1>13, <1>14
          DEF AnnotationNext

-----------------------------------------------------------------------------
(* The theorems                                                            *)

\* Whatever the order of arrival, every row has an exact index, its pointers are as many as
\* its annotations and point into it, and the table holds what it took.
THEOREM AnnotationsKept == AnnotationSpec => []AnnotationInv
  BY AnnotationInvInit, AnnotationInvStep, PTL DEF AnnotationSpec

\* Of a row that is in order, what is drawn between two samples is what overlaps them, and
\* with a limit no more than that: for any block size, windows and limits
\* (get_annotation_subset).
THEOREM RowsDrawnExactly == AnnotationSpec => []QueryExact
  <1>1. AnnotationInv => QueryExact
    <2> SUFFICES ASSUME AnnotationsInv, NEW r \in Rows, InOrder(rows[r].list), NEW w \in Windows
                 PROVE
                    LET list == rows[r].list
                        wanted == {i \in DOMAIN list : /\ list[i].end > w.from
                                                       /\ list[i].start <= w.to
                                                       /\ Visible(list[i])}
                    IN /\ Subset(r, w.from, w.to, 0) = wanted
                       /\ \A limit \in Limits :
                            LET drawn == Subset(r, w.from, w.to, limit) IN
                            drawn \subseteq wanted /\ (Cardinality(drawn) <= limit \/ drawn = wanted)
      BY DEF AnnotationInv, QueryExact
    <2>1. RowInv(rows[r]) /\ w.from \in Nat /\ w.to \in Nat /\ Limits \subseteq Nat
      BY QueryAssumption DEF AnnotationsInv
    <2> QED BY <2>1, DrawnExactly
  <1> QED BY <1>1, AnnotationsKept, PTL

\* As long as no insertion moved the front of a row, all_annotations points to each
\* annotation of each row once, however rows moved and were put out of order.
THEOREM EachListedOnce == AnnotationSpec => []ListedOnce
  <1>1. AnnotationInv => ListedOnce
    <2> SUFFICES ASSUME AnnotationsInv, ~ mislaid
                 PROVE  /\ IsInjective(all)
                        /\ ToSet(all) = UNION {{[row |-> r, place |-> rows[r].base + i - 1] :
                                                   i \in DOMAIN rows[r].list} : r \in Rows}
      BY DEF AnnotationInv, ListedOnce
    <2>1. all \in Seq(Pointers) /\ DOMAIN all = 1 .. Len(all) /\ Len(all) \in Nat
      BY DEF AnnotationsInv
    <2>2. ASSUME NEW r \in Rows
          PROVE  /\ rows[r].base \in Int /\ Len(rows[r].list) \in Nat
                 /\ DOMAIN rows[r].list = 1 .. Len(rows[r].list)
                 /\ Placed(all, r, rows[r]) /\ Distinct(all, r)
      BY DEF AnnotationsInv, RowType, PointersInv
    <2>3. IsInjective(all)
      <3>1. ASSUME NEW i \in DOMAIN all, NEW j \in DOMAIN all, all[i] = all[j] PROVE i = j
        <4> DEFINE r == all[i].row
        <4>1. r \in Rows /\ i \in Of(all, r) /\ j \in Of(all, r)
          <5>1. all[i] \in Pointers
            BY <2>1
          <5> QED BY <3>1, <5>1 DEF Pointers, Of
        <4>2. Distinct(all, r)
          BY <2>2, <4>1
        <4> HIDE DEF r
        <4>3. ~ (i < j) /\ ~ (j < i)
          BY <3>1, <4>1, <4>2 DEF Distinct
        <4> QED BY <2>1, <4>3
      <3> QED BY <3>1 DEF IsInjective
    <2> DEFINE listed(r) == {[row |-> r, place |-> rows[r].base + i - 1] : i \in DOMAIN rows[r].list}
    <2>4. ASSUME NEW k \in DOMAIN all PROVE \E r \in Rows : all[k] \in listed(r)
      <3> DEFINE r == all[k].row
                 b == rows[r].base
                 n == Len(rows[r].list)
                 i == all[k].place - b + 1
      <3>1. r \in Rows /\ all[k] = [row |-> r, place |-> all[k].place] /\ k \in Of(all, r)
        <4>1. all[k] \in Pointers
          BY <2>1
        <4> QED BY <4>1 DEF Pointers, Of
      <3>2. b \in Int /\ n \in Nat /\ DOMAIN rows[r].list = 1 .. n /\ all[k].place \in b .. b + n - 1
        <4>1. Placed(all, r, rows[r])
          BY <2>2, <3>1
        <4> QED BY <2>2, <3>1, <4>1 DEF Placed, Places
      <3>3. i \in 1 .. n /\ all[k].place = b + i - 1
        <4> HIDE DEF b, n
        <4> QED BY <3>2
      <3> HIDE DEF i
      <3>4. all[k] \in listed(r)
        BY <3>1, <3>2, <3>3
      <3> QED BY <3>1, <3>4
    <2>5. ASSUME NEW r \in Rows, NEW x \in listed(r) PROVE \E k \in DOMAIN all : all[k] = x
      <3> DEFINE b == rows[r].base
                 n == Len(rows[r].list)
      <3>1. PICK i \in 1 .. n : x = [row |-> r, place |-> b + i - 1]
        BY <2>2
      <3>2. b + i - 1 \in Places(rows[r])
        <4>1. b \in Int /\ n \in Nat
          BY <2>2
        <4>2. b + i - 1 \in b .. b + n - 1
          <5> HIDE DEF b, n
          <5> QED BY <4>1
        <4> QED BY <4>2 DEF Places
      <3> DEFINE row == rows[r]
      <3>3. /\ row.base \in Int /\ Len(row.list) \in Nat
            /\ Placed(all, r, row) /\ Distinct(all, r)
        BY <2>2
      <3> HIDE DEF row
      <3>4. \A k \in Places(row) : \E j \in Of(all, r) : all[j].place = k
        BY <2>1, <3>3, PointerTo
      <3>5. PICK j \in Of(all, r) : all[j].place = b + i - 1
        BY <3>2, <3>4 DEF row
      <3>6. j \in DOMAIN all /\ all[j].row = r /\ all[j] \in Pointers
        BY <2>1 DEF Of
      <3>7. all[j] = [row |-> r, place |-> b + i - 1]
        <4> HIDE DEF b
        <4> QED BY <3>5, <3>6 DEF Pointers
      <3> QED BY <3>1, <3>6, <3>7
    <2> HIDE DEF listed
    <2>6. ToSet(all) = UNION {listed(r) : r \in Rows}
      <3>1. ASSUME NEW x \in ToSet(all) PROVE x \in UNION {listed(r) : r \in Rows}
        BY <2>4 DEF ToSet
      <3>2. ASSUME NEW x \in UNION {listed(r) : r \in Rows} PROVE x \in ToSet(all)
        BY <2>5 DEF ToSet
      <3> QED BY <3>1, <3>2
    <2> QED BY <2>3, <2>6 DEF listed
  <1> QED BY <1>1, AnnotationsKept, PTL

\* Between updates the table shows, of what it has taken in, what is visible and passes the
\* filters, in the order of the list, unless annotations were put among those it had taken
\* (update_annotations_without_hidden).
THEOREM TableExact == AnnotationSpec => []TableShowsFiltered
  <1>1. AnnotationInv => TableShowsFiltered
    <2> SUFFICES ASSUME AnnotationsInv, TableInv, ~ stale
                 PROVE  /\ Len(Shown) = Cardinality(Passing)
                        /\ \A k \in Passing :
                              Shown[Cardinality({j \in Passing : j <= k})] = At(rows, all[k])
      BY DEF AnnotationInv, TableShowsFiltered
    <2>1. /\ filtered \in Seq(Pointers) /\ Ranked(filtered, Passing, all) /\ taken \in Nat
          /\ Passing \subseteq 1 .. taken
      BY DEF TableInv, TableType, Passing
    <2>2. DOMAIN filtered = 1 .. Len(filtered) /\ Len(filtered) \in Nat
      BY <2>1
    <2>3. Len(Shown) = Len(filtered) /\ \A i \in 1 .. Len(filtered) : Shown[i] = At(rows, filtered[i])
      BY <2>2 DEF Shown
    <2>4. Len(filtered) = Cardinality(Passing)
      BY <2>1 DEF Ranked
    <2>5. ASSUME NEW k \in Passing
          PROVE  Shown[Cardinality({j \in Passing : j <= k})] = At(rows, all[k])
      <3> DEFINE i == Cardinality({j \in Passing : j <= k})
      <3>1. i \in 1 .. Cardinality(Passing)
        BY <2>1, RankIn
      <3>2. filtered[i] = all[k]
        BY <2>1 DEF Ranked
      <3> HIDE DEF i
      <3>3. Shown[i] = At(rows, all[k])
        BY <2>3, <2>4, <3>1, <3>2
      <3> QED BY <3>3 DEF i
    <2> QED BY <2>3, <2>4, <2>5
  <1> QED BY <1>1, AnnotationsKept, PTL
=============================================================================
