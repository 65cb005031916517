----------------------------- MODULE Mcp_proofs -----------------------------
(***************************************************************************)
(* Proofs about the MCP server and its bridge.  A request is in one place  *)
(* at a time between the client that sent it and the reply that the client *)
(* reads; the tool stands in the middle.  So the two implement             *)
(* RequestReply, for all instances, clients and requests; and what the     *)
(* bridge waits for is what is in its connection, in that order.           *)
(***************************************************************************)
EXTENDS McpProperties, SequenceTheorems, TLAPS

-----------------------------------------------------------------------------
(* The invariant                                                           *)

Reply == [req : Requests \union {NoRequest}, ans : {"result", "info", "refused"}]

\* The variables have their types.
TypeInv ==
    /\ path \in Instances \union {Nobody}
    /\ home \in [Clients -> Instances \union {Nobody}]
    /\ to \in [Clients -> Seq(Requests)] /\ from \in [Clients -> Seq(Reply)]
    /\ input \in [Clients -> Seq(Requests)] /\ unsent \in [Clients -> Seq(Reply)]
    /\ closing \in [Clients -> BOOLEAN]
    /\ readers \in [Instances -> Seq(Clients)]
    /\ running \in [Clients -> Requests \union {NoRequest}]
    /\ executed \subseteq Requests /\ asked \subseteq Requests
    /\ answer \in [Requests -> Seq(RequestReply!Answers)]
    /\ stdin \in [Clients -> Seq(Requests)] /\ pending \in [Clients -> Seq(Requests)]
    /\ linked \in [Clients -> BOOLEAN] /\ left \subseteq Clients

\* The requests that replies name, each once, and what the replies say of them.
Named(replies) == {replies[i].req : i \in DOMAIN replies} \ {NoRequest}

OnceNamed(replies) ==
    \A i, j \in DOMAIN replies : replies[i].req = replies[j].req /\ replies[i].req # NoRequest => i = j

Truthful(replies, run) ==
    \A i \in DOMAIN replies :
        replies[i].req # NoRequest => (replies[i].ans = "result" <=> replies[i].req \in run)

Once(s) == \A i, j \in DOMAIN s : s[i] = s[j] => i = j

\* Requests on the way to a tool, in a tool, and on the way back.
Ahead(c)  == ToSet(stdin[c]) \union ToSet(to[c]) \union ToSet(input[c])
Inside(c) == {running[c]} \ {NoRequest}
Behind(c) == Named(unsent[c]) \union Named(from[c])

\* All of these, and those the bridge waits for, were sent by the client and have no
\* answer yet.
OpenInv(c) ==
    \A r \in Ahead(c) \union Inside(c) \union Behind(c) \union ToSet(pending[c]) :
        r \in asked /\ Sender[r] = c /\ answer[r] = <<>>

\* The tool has been run for a request if and only if it is past the tool, or in it,
\* unless the reply refuses it.
RunInv(c) ==
    /\ Ahead(c) \intersect executed = {} /\ Inside(c) \subseteq executed
    /\ Truthful(unsent[c], executed) /\ Truthful(from[c], executed)

\* A request is in one place.
PlaceInv(c) ==
    /\ Once(stdin[c]) /\ Once(to[c]) /\ Once(input[c]) /\ Once(pending[c])
    /\ OnceNamed(unsent[c]) /\ OnceNamed(from[c])
    /\ ToSet(stdin[c]) \intersect ToSet(to[c]) = {}
    /\ ToSet(stdin[c]) \intersect ToSet(input[c]) = {}
    /\ ToSet(to[c]) \intersect ToSet(input[c]) = {}
    /\ Named(unsent[c]) \intersect Named(from[c]) = {}
    /\ (Ahead(c) \union Inside(c)) \intersect Behind(c) = {}
    /\ ToSet(stdin[c]) \intersect ToSet(pending[c]) = {}

\* A connection that is gone leaves nothing behind, but for a client that has left.
LinkInv(c) ==
    /\ linked[c] => c \notin left
    /\ ~linked[c] /\ c \notin left => home[c] = Nobody
    /\ home[c] = Nobody =>
        /\ to[c] = <<>> /\ unsent[c] = <<>> /\ running[c] = NoRequest
        /\ input[c] = <<>> \/ c \in left

\* Messages are read, and tools run, for connections of the instance alone.
ReaderInv(c) ==
    /\ \A p \in Instances : c \in ToSet(readers[p]) => home[c] = p
    /\ running[c] # NoRequest => home[c] \in Instances /\ c \in ToSet(readers[home[c]])

QueueInv(c) == OpenInv(c) /\ RunInv(c) /\ PlaceInv(c)

\* Nothing is done about a request before it is sent.
AskedInv ==
    /\ executed \subseteq asked
    /\ \A r \in Requests \ asked : answer[r] = <<>>

IInv ==
    /\ TypeInv /\ AskedInv
    /\ \A c \in Clients : QueueInv(c) /\ LinkInv(c) /\ ReaderInv(c)

-----------------------------------------------------------------------------
(* Lemmas about queues of requests                                         *)

LEMMA HeadTaken ==
    ASSUME NEW S, NEW s \in Seq(S), s # <<>>, Once(s)
    PROVE  /\ Head(s) \in S /\ Tail(s) \in Seq(S)
           /\ ToSet(s) = {Head(s)} \union ToSet(Tail(s))
           /\ Head(s) \notin ToSet(Tail(s)) /\ Once(Tail(s))
  <1>1. Len(s) \in Nat /\ Len(s) >= 1 /\ Head(s) = s[1] /\ Head(s) \in S /\ Tail(s) \in Seq(S)
    OBVIOUS
  <1>2. /\ Len(Tail(s)) = Len(s) - 1 /\ DOMAIN s = 1 .. Len(s) /\ DOMAIN Tail(s) = 1 .. Len(Tail(s))
        /\ \A i \in 1 .. Len(Tail(s)) : Tail(s)[i] = s[i + 1]
    BY <1>1
  <1>3. ASSUME NEW x PROVE x \in ToSet(s) <=> x = Head(s) \/ x \in ToSet(Tail(s))
    <2>1. ASSUME NEW i \in DOMAIN s, x = s[i] PROVE x = Head(s) \/ x \in ToSet(Tail(s))
      <3>1. CASE i = 1
        BY <1>1, <2>1, <3>1
      <3>2. CASE i # 1
        <4>1. i - 1 \in 1 .. Len(Tail(s)) /\ Tail(s)[i - 1] = s[i]
          BY <1>1, <1>2, <3>2
        <4> QED BY <1>2, <2>1, <4>1 DEF ToSet
      <3> QED BY <3>1, <3>2
    <2>2. ASSUME x = Head(s) PROVE x \in ToSet(s)
      BY <1>1, <1>2, <2>2 DEF ToSet
    <2>3. ASSUME NEW i \in DOMAIN Tail(s), x = Tail(s)[i] PROVE x \in ToSet(s)
      <3>1. i + 1 \in DOMAIN s /\ x = s[i + 1]
        BY <1>1, <1>2, <2>3
      <3> QED BY <3>1 DEF ToSet
    <2> QED BY <2>1, <2>2, <2>3 DEF ToSet
  <1>4. Head(s) \notin ToSet(Tail(s))
    <2> SUFFICES ASSUME NEW i \in DOMAIN Tail(s), Tail(s)[i] = Head(s) PROVE FALSE
      BY DEF ToSet
    <2>1. i + 1 \in DOMAIN s /\ 1 \in DOMAIN s /\ s[i + 1] = s[1] /\ i + 1 # 1
      BY <1>1, <1>2
    <2> QED BY <2>1 DEF Once
  <1>5. Once(Tail(s))
    <2> SUFFICES ASSUME NEW i \in DOMAIN Tail(s), NEW j \in DOMAIN Tail(s), Tail(s)[i] = Tail(s)[j]
                 PROVE  i = j
      BY DEF Once
    <2>1. i + 1 \in DOMAIN s /\ j + 1 \in DOMAIN s /\ s[i + 1] = s[j + 1] /\ i \in Nat /\ j \in Nat
      BY <1>1, <1>2
    <2> QED BY <2>1 DEF Once
  <1> QED BY <1>1, <1>3, <1>4, <1>5

LEMMA Appended ==
    ASSUME NEW S, NEW s \in Seq(S), NEW x \in S
    PROVE  /\ Append(s, x) \in Seq(S) /\ ToSet(Append(s, x)) = ToSet(s) \union {x}
           /\ Once(s) /\ x \notin ToSet(s) => Once(Append(s, x))
  <1> DEFINE t == Append(s, x)
  <1>1. /\ t \in Seq(S) /\ Len(t) = Len(s) + 1 /\ Len(s) \in Nat
        /\ \A i \in 1 .. Len(s) : t[i] = s[i]
        /\ t[Len(s) + 1] = x /\ DOMAIN s = 1 .. Len(s) /\ DOMAIN t = 1 .. (Len(s) + 1)
    OBVIOUS
  <1> HIDE DEF t
  <1>2. \A i \in DOMAIN t : (i \in DOMAIN s /\ t[i] = s[i]) \/ (i = Len(s) + 1 /\ t[i] = x)
    BY <1>1
  <1>3. ToSet(t) = ToSet(s) \union {x}
    <2>1. \A i \in DOMAIN s : i \in DOMAIN t /\ t[i] = s[i]
      BY <1>1
    <2>2. Len(s) + 1 \in DOMAIN t
      BY <1>1
    <2> QED BY <1>1, <1>2, <2>1, <2>2 DEF ToSet
  <1>4. Once(s) /\ x \notin ToSet(s) => Once(t)
    BY <1>2 DEF Once, ToSet
  <1> QED BY <1>1, <1>3, <1>4 DEF t

LEMMA Part ==
    ASSUME NEW S, NEW s \in Seq(S), NEW m \in Nat, NEW n \in Nat, 1 <= m, m <= n + 1, n <= Len(s)
    PROVE  LET t == SubSeq(s, m, n)
           IN  /\ t \in Seq(S) /\ Len(t) = n + 1 - m /\ DOMAIN t = 1 .. (n + 1 - m)
               /\ \A i \in 1 .. (n + 1 - m) : t[i] = s[(m - 1) + i]
  <1> DEFINE t == SubSeq(s, m, n)
  <1>1. m \in Int /\ n \in Int /\ \A i \in m .. n : s[i] \in S
    OBVIOUS
  <1>2. /\ t \in Seq(S) /\ Len(t) = (IF m <= n THEN n - m + 1 ELSE 0)
        /\ \A i \in 1 .. n - m + 1 : t[i] = s[m + i - 1]
    BY <1>1, SubSeqProperties
  <1> HIDE DEF t
  <1>3. Len(t) = n + 1 - m /\ DOMAIN t = 1 .. Len(t)
    BY <1>2
  <1>4. ASSUME NEW i \in 1 .. (n + 1 - m) PROVE t[i] = s[(m - 1) + i]
    <2>1. i \in 1 .. n - m + 1 /\ m + i - 1 = (m - 1) + i
      OBVIOUS
    <2> QED BY <1>2, <2>1
  <1> QED BY <1>2, <1>3, <1>4 DEF t

LEMMA Divided ==
    ASSUME NEW S, NEW s \in Seq(S), NEW n \in 1 .. Len(s), Once(s)
    PROVE  LET a == SubSeq(s, 1, n)
               b == SubSeq(s, n + 1, Len(s))
           IN  /\ a \in Seq(S) /\ b \in Seq(S) /\ Once(a) /\ Once(b)
               /\ ToSet(a) \subseteq ToSet(s) /\ ToSet(b) \subseteq ToSet(s)
               /\ ToSet(a) \intersect ToSet(b) = {}
  <1> DEFINE a == SubSeq(s, 1, n)
             b == SubSeq(s, n + 1, Len(s))
  <1>1. Len(s) \in Nat /\ DOMAIN s = 1 .. Len(s) /\ n \in Nat /\ n <= Len(s) /\ n >= 1
    OBVIOUS
  <1>2. /\ a \in Seq(S) /\ Len(a) = n /\ DOMAIN a = 1 .. n
        /\ \A i \in 1 .. n : a[i] = s[i]
    <2>1. 1 \in Nat /\ 1 <= n + 1
      BY <1>1
    <2> QED BY <1>1, <2>1, Part
  <1>3. /\ b \in Seq(S) /\ Len(b) = Len(s) - n /\ DOMAIN b = 1 .. (Len(s) - n)
        /\ \A i \in 1 .. (Len(s) - n) : b[i] = s[n + i]
    <2> HIDE DEF a, b
    <2>1. PICK m \in Nat : m = n + 1
      BY <1>1
    <2>2. ASSUME NEW l \in Nat, n <= l PROVE 1 <= m /\ m <= l + 1 /\ l + 1 - m = l - n /\ m - 1 = n
      BY <1>1, <2>1, <2>2
    <2>3. 1 <= m /\ m <= Len(s) + 1 /\ Len(s) + 1 - m = Len(s) - n /\ m - 1 = n
      BY <1>1, <2>2
    <2>4. b = SubSeq(s, m, Len(s))
      BY <2>1 DEF b
    <2>5. /\ b \in Seq(S) /\ Len(b) = Len(s) + 1 - m /\ DOMAIN b = 1 .. (Len(s) + 1 - m)
          /\ \A i \in 1 .. (Len(s) + 1 - m) : b[i] = s[(m - 1) + i]
      BY <1>1, <2>3, <2>4, Part
    <2> QED BY <2>3, <2>5
  <1> HIDE DEF a, b
  <1>4. \A i \in DOMAIN a : i \in DOMAIN s /\ a[i] = s[i] /\ i <= n /\ i \in Nat
    BY <1>1, <1>2
  <1>5. \A i \in DOMAIN b : n + i \in DOMAIN s /\ b[i] = s[n + i] /\ i \in Nat /\ i > 0
    BY <1>1, <1>3
  <1>6. Once(a) /\ Once(b)
    BY <1>1, <1>4, <1>5 DEF Once
  <1>7. ToSet(a) \subseteq ToSet(s) /\ ToSet(b) \subseteq ToSet(s)
    BY <1>4, <1>5 DEF ToSet
  <1>8. ToSet(a) \intersect ToSet(b) = {}
    <2> SUFFICES ASSUME NEW i \in DOMAIN a, NEW j \in DOMAIN b, a[i] = b[j] PROVE FALSE
      BY DEF ToSet
    <2>1. i = n + j
      BY <1>4, <1>5 DEF Once
    <2> QED BY <1>1, <1>4, <1>5, <2>1
  <1> QED BY <1>2, <1>3, <1>6, <1>7, <1>8 DEF a, b

\* removeOne() removes what occurs once, and leaves the rest in order.
LEMMA Removed ==
    ASSUME NEW S, NEW s \in Seq(S), NEW x, Once(s)
    PROVE  LET t == RemoveFirst(s, x)
           IN  /\ t \in Seq(S) /\ Once(t) /\ ToSet(t) = ToSet(s) \ {x}
               /\ \A r, q : r # x /\ q # x => (Before(t, r, q) <=> Before(s, r, q))
  <1>1. Len(s) \in Nat /\ DOMAIN s = 1 .. Len(s)
    OBVIOUS
  <1>2. CASE x \notin ToSet(s)
    <2>1. RemoveFirst(s, x) = s
      BY <1>1, <1>2 DEF RemoveFirst, ToSet
    <2> QED BY <1>2, <2>1
  <1>3. CASE x \in ToSet(s)
    <2>1. PICK k \in 1 .. Len(s) : s[k] = x
      BY <1>1, <1>3 DEF ToSet
    <2>2. {i \in 1 .. Len(s) : s[i] = x} = {k}
      BY <1>1, <2>1 DEF Once
    <2>3. Min({k}) = k
      BY <2>1 DEF Min
    <2>4. SelectInSeq(s, LAMBDA v : v = x) = k
      BY <2>2, <2>3 DEF SelectInSeq
    <2> DEFINE a == SubSeq(s, 1, k - 1)
               b == SubSeq(s, k + 1, Len(s))
               t == a \o b
    <2>5. RemoveFirst(s, x) = t
      BY <2>1, <2>4 DEF RemoveFirst, RemoveAt
    <2>6. /\ a \in Seq(S) /\ Len(a) = k - 1 /\ \A i \in 1 .. (k - 1) : a[i] = s[i]
          /\ b \in Seq(S) /\ Len(b) = Len(s) - k /\ \A i \in 1 .. (Len(s) - k) : b[i] = s[k + i]
      <3>1. k \in Nat /\ k <= Len(s) /\ 1 <= k
        BY <1>1
      <3> HIDE DEF a, b
      <3>0. PICK j \in Nat, m \in Nat : j = k - 1 /\ m = k + 1
        BY <3>1
      <3>2. /\ 1 <= j + 1 /\ j <= Len(s) /\ j + 1 - 1 = k - 1
            /\ 1 <= m /\ m <= Len(s) + 1 /\ Len(s) + 1 - m = Len(s) - k /\ m - 1 = k
        <4>1. ASSUME NEW l \in Nat, k <= l
              PROVE  /\ 1 <= j + 1 /\ j <= l /\ j + 1 - 1 = k - 1
                     /\ 1 <= m /\ m <= l + 1 /\ l + 1 - m = l - k /\ m - 1 = k
          BY <3>0, <3>1, <4>1
        <4> QED BY <1>1, <3>1, <4>1
      <3>3. a = SubSeq(s, 1, j) /\ b = SubSeq(s, m, Len(s))
        BY <3>0 DEF a, b
      <3>4. a \in Seq(S) /\ Len(a) = j + 1 - 1 /\ \A i \in 1 .. (j + 1 - 1) : a[i] = s[(1 - 1) + i]
        BY <1>1, <3>2, <3>3, Part
      <3>5. /\ b \in Seq(S) /\ Len(b) = Len(s) + 1 - m
            /\ \A i \in 1 .. (Len(s) + 1 - m) : b[i] = s[(m - 1) + i]
        BY <1>1, <3>2, <3>3, Part
      <3>6. \A i \in 1 .. (j + 1 - 1) : (1 - 1) + i = i
        OBVIOUS
      <3> QED BY <3>2, <3>4, <3>5, <3>6
    <2> HIDE DEF a, b
    <2>7. /\ t \in Seq(S) /\ Len(t) = Len(s) - 1 /\ DOMAIN t = 1 .. (Len(s) - 1)
          /\ \A i \in 1 .. (k - 1) : t[i] = a[i]
          /\ \A i \in k .. (Len(s) - 1) : t[i] = b[i - (k - 1)]
      <3> HIDE DEF t
      <3>1. t = a \o b
        BY DEF t
      <3>2. /\ t \in Seq(S) /\ Len(t) = Len(a) + Len(b)
            /\ \A i \in 1 .. Len(a) + Len(b) : t[i] = IF i <= Len(a) THEN a[i] ELSE b[i - Len(a)]
        BY <2>6, <3>1, ConcatProperties
      <3>3. Len(a) + Len(b) = Len(s) - 1 /\ DOMAIN t = 1 .. Len(t)
        BY <1>1, <2>1, <2>6, <3>2
      <3> QED BY <1>1, <2>1, <2>6, <3>2, <3>3
    <2> HIDE DEF t
    <2>8. \A i \in DOMAIN t :
             \/ i < k /\ i \in DOMAIN s /\ t[i] = s[i]
             \/ i >= k /\ i + 1 \in DOMAIN s /\ t[i] = s[i + 1] /\ i \in Nat
      BY <1>1, <2>1, <2>6, <2>7
    <2>9. \A i \in DOMAIN s :
             \/ i < k /\ i \in DOMAIN t /\ t[i] = s[i]
             \/ i = k
             \/ i > k /\ i - 1 \in DOMAIN t /\ t[i - 1] = s[i]
      <3> TAKE i \in DOMAIN s
      <3>1. CASE i < k
        BY <1>1, <2>1, <2>6, <2>7, <3>1
      <3>2. CASE i > k
        <4>1. i - 1 \in k .. (Len(s) - 1) /\ i - 1 - (k - 1) \in 1 .. (Len(s) - k)
              /\ k + (i - 1 - (k - 1)) = i
          BY <1>1, <2>1, <3>2
        <4>2. i - 1 \in DOMAIN t /\ t[i - 1] = b[i - 1 - (k - 1)]
          BY <1>1, <2>1, <2>7, <4>1
        <4>3. b[i - 1 - (k - 1)] = s[k + (i - 1 - (k - 1))]
          BY <2>6, <4>1
        <4> QED BY <4>1, <4>2, <4>3
      <3> QED BY <1>1, <2>1, <3>1, <3>2
    <2>10. Once(t)
      BY <1>1, <2>1, <2>8 DEF Once
    <2>11. x \notin ToSet(t)
      BY <1>1, <2>1, <2>8 DEF Once, ToSet
    <2>12. ToSet(t) \subseteq ToSet(s)
      BY <2>8 DEF ToSet
    <2>13. ToSet(s) \ {x} \subseteq ToSet(t)
      BY <2>1, <2>9 DEF ToSet
    <2>14. ASSUME NEW r, NEW q, r # x, q # x PROVE Before(t, r, q) <=> Before(s, r, q)
      <3>1. ASSUME NEW i \in DOMAIN t, NEW j \in DOMAIN t, i < j, t[i] = r, t[j] = q
            PROVE  Before(s, r, q)
        <4>1. PICK i2 \in DOMAIN s, j2 \in DOMAIN s : i2 < j2 /\ s[i2] = r /\ s[j2] = q
          BY <1>1, <2>1, <2>7, <2>8, <3>1
        <4> QED BY <4>1 DEF Before
      <3>2. ASSUME NEW i \in DOMAIN s, NEW j \in DOMAIN s, i < j, s[i] = r, s[j] = q
            PROVE  Before(t, r, q)
        <4>1. i # k /\ j # k
          BY <2>1, <2>14, <3>2
        <4>2. i \in Nat /\ j \in Nat /\ k \in Nat
          BY <1>1, <2>1
        <4>3. CASE j < k
          <5>1. i \in DOMAIN t /\ t[i] = r /\ j \in DOMAIN t /\ t[j] = q
            BY <2>9, <3>2, <4>2, <4>3
          <5> QED BY <3>2, <5>1 DEF Before
        <4>4. CASE i < k /\ k < j
          <5>1. i \in DOMAIN t /\ t[i] = r /\ j - 1 \in DOMAIN t /\ t[j - 1] = q /\ i < j - 1
            BY <2>9, <3>2, <4>2, <4>4
          <5> QED BY <5>1 DEF Before
        <4>5. CASE k < i
          <5>1. /\ i - 1 \in DOMAIN t /\ t[i - 1] = r /\ j - 1 \in DOMAIN t /\ t[j - 1] = q
                /\ i - 1 < j - 1
            BY <2>9, <3>2, <4>2, <4>5
          <5> QED BY <5>1 DEF Before
        <4> QED BY <3>2, <4>1, <4>2, <4>3, <4>4, <4>5
      <3> QED BY <3>1, <3>2 DEF Before
    <2> QED BY <2>5, <2>7, <2>10, <2>11, <2>12, <2>13, <2>14
  <1> QED BY <1>2, <1>3

-----------------------------------------------------------------------------
(* Lemmas about queues of replies                                          *)

LEMMA Nothing ==
    /\ ToSet(<<>>) = {} /\ Once(<<>>) /\ Named(<<>>) = {} /\ OnceNamed(<<>>)
    /\ \A E : Truthful(<<>>, E)
  <1>1. DOMAIN <<>> = {}
    OBVIOUS
  <1> QED BY <1>1 DEF ToSet, Once, Named, OnceNamed, Truthful

LEMMA ReplyRead ==
    ASSUME NEW q \in Seq(Reply), q # <<>>, OnceNamed(q), NEW E, Truthful(q, E)
    PROVE  /\ Head(q) \in Reply /\ Tail(q) \in Seq(Reply)
           /\ OnceNamed(Tail(q)) /\ Truthful(Tail(q), E) /\ Named(Tail(q)) \subseteq Named(q)
           /\ Head(q).req # NoRequest =>
                /\ Head(q).req \in Named(q) \ Named(Tail(q))
                /\ Head(q).ans = "result" <=> Head(q).req \in E
  <1>1. Len(q) \in Nat /\ Len(q) >= 1 /\ Head(q) = q[1] /\ Head(q) \in Reply /\ Tail(q) \in Seq(Reply)
    OBVIOUS
  <1>2. /\ Len(Tail(q)) = Len(q) - 1 /\ DOMAIN q = 1 .. Len(q) /\ DOMAIN Tail(q) = 1 .. Len(Tail(q))
        /\ \A i \in 1 .. Len(Tail(q)) : Tail(q)[i] = q[i + 1]
    BY <1>1
  <1>3. \A i \in DOMAIN Tail(q) : i \in Nat /\ i + 1 \in DOMAIN q /\ Tail(q)[i] = q[i + 1] /\ i + 1 # 1
    BY <1>1, <1>2
  <1>4. 1 \in DOMAIN q
    BY <1>1, <1>2
  <1>5. OnceNamed(Tail(q))
    <2> SUFFICES ASSUME NEW i \in DOMAIN Tail(q), NEW j \in DOMAIN Tail(q),
                        Tail(q)[i].req = Tail(q)[j].req, Tail(q)[i].req # NoRequest
                 PROVE  i = j
      BY DEF OnceNamed
    <2>1. i + 1 = j + 1
      BY <1>3 DEF OnceNamed
    <2> QED BY <1>3, <2>1
  <1>6. Truthful(Tail(q), E)
    BY <1>3 DEF Truthful
  <1>7. Named(Tail(q)) \subseteq Named(q)
    BY <1>3 DEF Named
  <1>8. ASSUME Head(q).req # NoRequest
        PROVE  /\ Head(q).req \in Named(q) /\ Head(q).req \notin Named(Tail(q))
               /\ Head(q).ans = "result" <=> Head(q).req \in E
    <2>1. Head(q).req \in Named(q)
      BY <1>1, <1>4, <1>8 DEF Named
    <2>2. ASSUME NEW i \in DOMAIN Tail(q), Tail(q)[i].req = Head(q).req PROVE FALSE
      BY <1>1, <1>3, <1>4, <1>8, <2>2 DEF OnceNamed
    <2>3. Head(q).req \notin Named(Tail(q))
      BY <2>2 DEF Named
    <2>4. Head(q).ans = "result" <=> Head(q).req \in E
      BY <1>1, <1>4, <1>8 DEF Truthful
    <2> QED BY <2>1, <2>3, <2>4
  <1> QED BY <1>1, <1>5, <1>6, <1>7, <1>8

LEMMA ReplySent ==
    ASSUME NEW q \in Seq(Reply), NEW x \in Reply, OnceNamed(q), NEW E, Truthful(q, E),
           x.req # NoRequest => x.req \notin Named(q) /\ (x.ans = "result" <=> x.req \in E)
    PROVE  LET t == Append(q, x)
           IN  /\ t \in Seq(Reply) /\ Named(t) = Named(q) \union ({x.req} \ {NoRequest})
               /\ OnceNamed(t) /\ Truthful(t, E)
  <1> DEFINE t == Append(q, x)
  <1>1. /\ t \in Seq(Reply) /\ Len(t) = Len(q) + 1 /\ Len(q) \in Nat
        /\ \A i \in 1 .. Len(q) : t[i] = q[i]
        /\ t[Len(q) + 1] = x /\ DOMAIN q = 1 .. Len(q) /\ DOMAIN t = 1 .. (Len(q) + 1)
    OBVIOUS
  <1> HIDE DEF t
  <1>2. \A i \in DOMAIN t : (i \in DOMAIN q /\ t[i] = q[i]) \/ (i = Len(q) + 1 /\ t[i] = x)
    BY <1>1
  <1>3. /\ \A i \in DOMAIN q : i \in DOMAIN t /\ t[i] = q[i]
        /\ Len(q) + 1 \in DOMAIN t
    BY <1>1
  <1>4. Named(t) = Named(q) \union ({x.req} \ {NoRequest})
    BY <1>1, <1>2, <1>3 DEF Named
  <1>5. \A i \in DOMAIN q : q[i].req # NoRequest => q[i].req \in Named(q)
    BY DEF Named
  <1>6. OnceNamed(t)
    BY <1>2, <1>5 DEF OnceNamed
  <1>7. Truthful(t, E)
    BY <1>2 DEF Truthful
  <1> QED BY <1>1, <1>4, <1>6, <1>7 DEF t

LEMMA RepliesJoined ==
    ASSUME NEW q \in Seq(Reply), NEW p \in Seq(Reply), OnceNamed(q), OnceNamed(p),
           Named(q) \intersect Named(p) = {}, NEW E, Truthful(q, E), Truthful(p, E)
    PROVE  LET t == q \o p
           IN  /\ t \in Seq(Reply) /\ Named(t) = Named(q) \union Named(p)
               /\ OnceNamed(t) /\ Truthful(t, E)
  <1> DEFINE t == q \o p
  <1>1. /\ t \in Seq(Reply) /\ Len(t) = Len(q) + Len(p)
        /\ \A i \in 1 .. Len(q) + Len(p) : t[i] = IF i <= Len(q) THEN q[i] ELSE p[i - Len(q)]
    BY ConcatProperties
  <1> HIDE DEF t
  <1>2. /\ Len(q) \in Nat /\ Len(p) \in Nat
        /\ DOMAIN t = 1 .. Len(t) /\ DOMAIN q = 1 .. Len(q) /\ DOMAIN p = 1 .. Len(p)
    BY <1>1
  <1>3. \A i \in DOMAIN t :
            \/ i \in DOMAIN q /\ t[i] = q[i]
            \/ i - Len(q) \in DOMAIN p /\ t[i] = p[i - Len(q)] /\ i \in Nat
    BY <1>1, <1>2
  <1>4. \A i \in DOMAIN q : i \in DOMAIN t /\ t[i] = q[i]
    BY <1>1, <1>2
  <1>5. \A i \in DOMAIN p : i + Len(q) \in DOMAIN t /\ t[i + Len(q)] = p[i]
    <2> TAKE i \in DOMAIN p
    <2>1. i + Len(q) \in 1 .. Len(q) + Len(p) /\ ~(i + Len(q) <= Len(q)) /\ i + Len(q) - Len(q) = i
      BY <1>2
    <2> QED BY <1>1, <1>2, <2>1
  <1>6. Named(t) = Named(q) \union Named(p)
    <2>1. Named(t) \subseteq Named(q) \union Named(p)
      BY <1>3 DEF Named
    <2>2. Named(q) \subseteq Named(t)
      BY <1>4 DEF Named
    <2>3. Named(p) \subseteq Named(t)
      BY <1>5 DEF Named
    <2> QED BY <2>1, <2>2, <2>3
  <1>7. /\ \A i \in DOMAIN q : q[i].req # NoRequest => q[i].req \in Named(q)
        /\ \A i \in DOMAIN p : p[i].req # NoRequest => p[i].req \in Named(p)
    BY DEF Named
  <1>8. OnceNamed(t)
    <2> SUFFICES ASSUME NEW i \in DOMAIN t, NEW j \in DOMAIN t,
                        t[i].req = t[j].req, t[i].req # NoRequest
                 PROVE  i = j
      BY DEF OnceNamed
    <2>1. CASE i \in DOMAIN q /\ t[i] = q[i] /\ j \in DOMAIN q /\ t[j] = q[j]
      BY <2>1 DEF OnceNamed
    <2>2. CASE /\ i - Len(q) \in DOMAIN p /\ t[i] = p[i - Len(q)] /\ i \in Nat
               /\ j - Len(q) \in DOMAIN p /\ t[j] = p[j - Len(q)] /\ j \in Nat
      <3>1. i - Len(q) = j - Len(q)
        BY <2>2 DEF OnceNamed
      <3> QED BY <1>2, <2>2, <3>1
    <2>3. CASE i \in DOMAIN q /\ t[i] = q[i] /\ j - Len(q) \in DOMAIN p /\ t[j] = p[j - Len(q)]
      BY <1>7, <2>3
    <2>4. CASE j \in DOMAIN q /\ t[j] = q[j] /\ i - Len(q) \in DOMAIN p /\ t[i] = p[i - Len(q)]
      BY <1>7, <2>4
    <2> QED BY <1>3, <2>1, <2>2, <2>3, <2>4
  <1>9. Truthful(t, E)
    BY <1>3 DEF Truthful
  <1> QED BY <1>1, <1>6, <1>8, <1>9 DEF t

-----------------------------------------------------------------------------
(* A step of one client concerns the requests of that client               *)

Untouched(d) ==
    /\ stdin'[d] = stdin[d] /\ to'[d] = to[d] /\ input'[d] = input[d]
    /\ running'[d] = running[d] /\ unsent'[d] = unsent[d] /\ from'[d] = from[d]
    /\ pending'[d] = pending[d]

LEMMA OthersKeep ==
    ASSUME NEW c, NEW d \in Clients, d # c, QueueInv(d), Untouched(d),
           asked \subseteq asked', executed \subseteq executed',
           \A r \in executed' \ executed : Sender[r] = c,
           \A r \in asked : Sender[r] # c => answer'[r] = answer[r]
    PROVE  QueueInv(d)'
  <1>1. Ahead(d)' = Ahead(d) /\ Inside(d)' = Inside(d) /\ Behind(d)' = Behind(d)
    BY DEF Untouched, Ahead, Inside, Behind
  <1>2. OpenInv(d)'
    BY <1>1 DEF OpenInv, QueueInv, Untouched
  <1>3. \A r \in Ahead(d) \union Behind(d) : r \in executed' <=> r \in executed
    BY DEF OpenInv, QueueInv
  <1>4. /\ \A i \in DOMAIN unsent[d] : unsent[d][i].req # NoRequest => unsent[d][i].req \in Behind(d)
        /\ \A i \in DOMAIN from[d] : from[d][i].req # NoRequest => from[d][i].req \in Behind(d)
    BY DEF Behind, Named
  <1>5. Truthful(unsent[d], executed') /\ Truthful(from[d], executed')
    BY <1>3, <1>4 DEF Truthful, RunInv, QueueInv
  <1>6. RunInv(d)'
    BY <1>1, <1>3, <1>5 DEF RunInv, QueueInv, Untouched
  <1>7. PlaceInv(d)'
    BY <1>1 DEF PlaceInv, QueueInv, Untouched
  <1> QED BY <1>2, <1>6, <1>7 DEF QueueInv

\* Nothing goes wrong when a queue is dropped.
LEMMA DroppedKeeps ==
    ASSUME NEW d \in Clients, QueueInv(d), UNCHANGED <<asked, executed, answer>>,
           stdin'[d] \in {stdin[d], <<>>}, to'[d] \in {to[d], <<>>}, input'[d] \in {input[d], <<>>},
           unsent'[d] \in {unsent[d], <<>>}, from'[d] \in {from[d], <<>>},
           pending'[d] \in {pending[d], <<>>}, running'[d] \in {running[d], NoRequest}
    PROVE  QueueInv(d)'
  <1>1. /\ ToSet(stdin'[d]) \subseteq ToSet(stdin[d]) /\ ToSet(to'[d]) \subseteq ToSet(to[d])
        /\ ToSet(input'[d]) \subseteq ToSet(input[d]) /\ ToSet(pending'[d]) \subseteq ToSet(pending[d])
        /\ Named(unsent'[d]) \subseteq Named(unsent[d]) /\ Named(from'[d]) \subseteq Named(from[d])
        /\ Inside(d)' \subseteq Inside(d)
    BY Nothing DEF Inside
  <1>2. Ahead(d)' \subseteq Ahead(d) /\ Behind(d)' \subseteq Behind(d)
    BY <1>1 DEF Ahead, Behind
  <1>3. OpenInv(d)'
    BY <1>1, <1>2 DEF OpenInv, QueueInv
  <1>4. Truthful(unsent'[d], executed) /\ Truthful(from'[d], executed)
    BY Nothing DEF RunInv, QueueInv
  <1>5. RunInv(d)'
    BY <1>1, <1>2, <1>4 DEF RunInv, QueueInv
  <1>6. /\ Once(stdin'[d]) /\ Once(to'[d]) /\ Once(input'[d]) /\ Once(pending'[d])
        /\ OnceNamed(unsent'[d]) /\ OnceNamed(from'[d])
    BY Nothing DEF PlaceInv, QueueInv
  <1>7. PlaceInv(d)'
    BY <1>1, <1>2, <1>6 DEF PlaceInv, QueueInv
  <1> QED BY <1>3, <1>5, <1>7 DEF QueueInv

-----------------------------------------------------------------------------
(* The steps of a client and its bridge                                    *)

LEMMA AskKeeps ==
    ASSUME IInv, NEW c \in Clients, NEW r \in Requests, Ask(c, r)
    PROVE  TypeInv' /\ AskedInv' /\ \A d \in Clients : QueueInv(d)'
  <1>1. /\ r \notin asked /\ Sender[r] = c /\ asked' = asked \union {r}
        /\ stdin' = [stdin EXCEPT ![c] = Append(@, r)] /\ stdin[c] \in Seq(Requests)
    BY DEF Ask, IInv, TypeInv
  <1>2. UNCHANGED <<pathVars, linkVars, serverVars, answer, linked, pending, left>>
    BY DEF Ask
  <1>3. /\ Append(stdin[c], r) \in Seq(Requests)
        /\ ToSet(Append(stdin[c], r)) = ToSet(stdin[c]) \union {r}
        /\ Once(stdin[c]) /\ r \notin ToSet(stdin[c]) => Once(Append(stdin[c], r))
    BY <1>1, Appended
  <1>4. TypeInv'
    BY <1>1, <1>2, <1>3 DEF IInv, TypeInv, pathVars, linkVars, serverVars
  <1>5. stdin'[c] = Append(stdin[c], r) /\ \A d \in Clients : d # c => stdin'[d] = stdin[d]
    BY <1>1 DEF IInv, TypeInv
  <1>6. AskedInv'
    BY <1>1, <1>2 DEF IInv, AskedInv, serverVars
  <1>7. QueueInv(c)'
    <2>1. QueueInv(c) /\ r \notin executed /\ answer[r] = <<>>
      BY <1>1 DEF IInv, AskedInv
    <2>2. r \notin Ahead(c) \union Inside(c) \union Behind(c) \union ToSet(pending[c])
      BY <1>1, <2>1 DEF QueueInv, OpenInv
    <2>3. /\ Ahead(c)' = Ahead(c) \union {r} /\ Inside(c)' = Inside(c) /\ Behind(c)' = Behind(c)
          /\ pending'[c] = pending[c]
      BY <1>2, <1>3, <1>5 DEF Ahead, Inside, Behind, linkVars, serverVars
    <2>4. OpenInv(c)'
      BY <1>1, <1>2, <2>1, <2>3 DEF QueueInv, OpenInv
    <2>5. RunInv(c)'
      BY <1>2, <2>1, <2>3 DEF QueueInv, RunInv, linkVars, serverVars
    <2>6. PlaceInv(c)'
      BY <1>2, <1>3, <1>5, <2>1, <2>2, <2>3 DEF QueueInv, PlaceInv, Ahead, linkVars, serverVars
    <2> QED BY <2>4, <2>5, <2>6 DEF QueueInv
  <1>8. ASSUME NEW d \in Clients, d # c PROVE QueueInv(d)'
    <2>1. Untouched(d)
      BY <1>2, <1>5, <1>8 DEF Untouched, linkVars, serverVars
    <2> QED BY <1>1, <1>2, <1>8, <2>1, OthersKeep DEF IInv, serverVars
  <1> QED BY <1>4, <1>6, <1>7, <1>8

LEMMA SendDirectlyKeeps ==
    ASSUME IInv, NEW c \in Clients, NEW r \in Requests, SendDirectly(c, r)
    PROVE  TypeInv' /\ AskedInv' /\ \A d \in Clients : QueueInv(d)'
  <1>1. /\ r \notin asked /\ Sender[r] = c /\ asked' = asked \union {r}
        /\ pending' = [pending EXCEPT ![c] = Append(@, r)]
        /\ to' = IF home[c] = Nobody THEN to ELSE [to EXCEPT ![c] = Append(@, r)]
        /\ pending[c] \in Seq(Requests) /\ to[c] \in Seq(Requests)
    BY DEF SendDirectly, IInv, TypeInv
  <1>2. UNCHANGED <<pathVars, home, from, serverVars, answer, stdin, linked, left>>
    BY DEF SendDirectly
  <1>3. /\ Append(pending[c], r) \in Seq(Requests)
        /\ ToSet(Append(pending[c], r)) = ToSet(pending[c]) \union {r}
        /\ Once(pending[c]) /\ r \notin ToSet(pending[c]) => Once(Append(pending[c], r))
    BY <1>1, Appended
  <1>4. /\ Append(to[c], r) \in Seq(Requests)
        /\ ToSet(Append(to[c], r)) = ToSet(to[c]) \union {r}
        /\ Once(to[c]) /\ r \notin ToSet(to[c]) => Once(Append(to[c], r))
    BY <1>1, Appended
  <1>5. /\ pending' \in [Clients -> Seq(Requests)] /\ to' \in [Clients -> Seq(Requests)]
        /\ pending'[c] = Append(pending[c], r) /\ to'[c] \in {to[c], Append(to[c], r)}
        /\ \A d \in Clients : d # c => pending'[d] = pending[d] /\ to'[d] = to[d]
    BY <1>1, <1>3, <1>4 DEF IInv, TypeInv
  <1>6. TypeInv'
    BY <1>1, <1>2, <1>5 DEF IInv, TypeInv, pathVars, linkVars, serverVars
  <1>7. AskedInv'
    BY <1>1, <1>2 DEF IInv, AskedInv, serverVars
  <1>8. QueueInv(c)'
    <2>1. QueueInv(c) /\ r \notin executed /\ answer[r] = <<>>
      BY <1>1 DEF IInv, AskedInv
    <2>2. r \notin Ahead(c) \union Inside(c) \union Behind(c) \union ToSet(pending[c])
      BY <1>1, <2>1 DEF QueueInv, OpenInv
    <2>3. /\ ToSet(to'[c]) \subseteq ToSet(to[c]) \union {r} /\ Once(to'[c])
          /\ ToSet(pending'[c]) = ToSet(pending[c]) \union {r} /\ Once(pending'[c])
      BY <1>3, <1>4, <1>5, <2>1, <2>2 DEF QueueInv, PlaceInv, Ahead
    <2>4. /\ Ahead(c)' \subseteq Ahead(c) \union {r}
          /\ Inside(c)' = Inside(c) /\ Behind(c)' = Behind(c)
      BY <1>2, <2>3 DEF Ahead, Inside, Behind, serverVars
    <2>5. OpenInv(c)'
      BY <1>1, <1>2, <2>1, <2>3, <2>4 DEF QueueInv, OpenInv
    <2>6. RunInv(c)'
      BY <1>2, <2>1, <2>4 DEF QueueInv, RunInv, serverVars
    <2>7. PlaceInv(c)'
      BY <1>2, <2>1, <2>2, <2>3, <2>4 DEF QueueInv, PlaceInv, Ahead, serverVars
    <2> QED BY <2>5, <2>6, <2>7 DEF QueueInv
  <1>9. ASSUME NEW d \in Clients, d # c PROVE QueueInv(d)'
    <2>1. Untouched(d)
      BY <1>2, <1>5, <1>9 DEF Untouched, serverVars
    <2> QED BY <1>1, <1>2, <1>9, <2>1, OthersKeep DEF IInv, serverVars
  <1> QED BY <1>6, <1>7, <1>8, <1>9

\* The head of a bridge's input is answered, and appears nowhere any more.
LEMMA AnsweredAtOnce ==
    ASSUME IInv, NEW c \in Clients, NEW a \in RequestReply!Answers, stdin[c] # <<>>,
           stdin' = [stdin EXCEPT ![c] = Tail(@)],
           answer' \in {answer, [answer EXCEPT ![Head(stdin[c])] = Append(@, a)]},
           UNCHANGED <<pathVars, linkVars, serverVars, asked, linked, pending, left>>
    PROVE  TypeInv' /\ AskedInv' /\ \A d \in Clients : QueueInv(d)'
  <1> DEFINE r == Head(stdin[c])
  <1>1. QueueInv(c) /\ stdin[c] \in Seq(Requests) /\ Once(stdin[c])
    BY DEF IInv, TypeInv, QueueInv, PlaceInv
  <1>2. /\ r \in Requests /\ Tail(stdin[c]) \in Seq(Requests)
        /\ ToSet(stdin[c]) = {r} \union ToSet(Tail(stdin[c]))
        /\ r \notin ToSet(Tail(stdin[c])) /\ Once(Tail(stdin[c]))
    BY <1>1, HeadTaken
  <1>3. stdin'[c] = Tail(stdin[c]) /\ \A d \in Clients : d # c => stdin'[d] = stdin[d]
    BY DEF IInv, TypeInv
  <1>4. r \in asked /\ Sender[r] = c /\ answer[r] = <<>> /\ answer[r] \in Seq(RequestReply!Answers)
    <2>1. r \in Ahead(c)
      BY <1>2 DEF Ahead
    <2> QED BY <1>1, <1>2, <2>1 DEF QueueInv, OpenInv, IInv, TypeInv
  <1> HIDE DEF r
  <1>5. \A q \in Requests : q # r => answer'[q] = answer[q]
    BY DEF r, IInv, TypeInv
  <1>6. TypeInv'
    <2>1. Append(answer[r], a) \in Seq(RequestReply!Answers)
      BY <1>4
    <2>2. answer' \in [Requests -> Seq(RequestReply!Answers)]
      BY <2>1 DEF r, IInv, TypeInv
    <2>3. stdin' \in [Clients -> Seq(Requests)]
      BY <1>2 DEF IInv, TypeInv
    <2> QED BY <2>2, <2>3 DEF IInv, TypeInv, pathVars, linkVars, serverVars
  <1>7. AskedInv'
    BY <1>4, <1>5 DEF IInv, AskedInv, serverVars
  <1>8. QueueInv(c)'
    <2>1. /\ ToSet(stdin'[c]) \subseteq ToSet(stdin[c]) /\ Once(stdin'[c])
          /\ Ahead(c)' \subseteq Ahead(c) /\ Inside(c)' = Inside(c) /\ Behind(c)' = Behind(c)
          /\ pending'[c] = pending[c]
      BY <1>2, <1>3 DEF Ahead, Inside, Behind, linkVars, serverVars
    <2>2. r \in ToSet(stdin[c]) /\ r \in Ahead(c)
      BY <1>2 DEF Ahead
    <2>3. r \notin Ahead(c)' \union Inside(c)' \union Behind(c)' \union ToSet(pending'[c])
      <3>1. r \notin ToSet(stdin'[c]) /\ r \notin ToSet(to[c]) /\ r \notin ToSet(input[c])
        BY <1>1, <1>2, <1>3, <2>2 DEF QueueInv, PlaceInv
      <3>2. r \notin Ahead(c)'
        BY <3>1 DEF Ahead, linkVars, serverVars
      <3>3. r \notin Inside(c) /\ r \notin Behind(c) /\ r \notin ToSet(pending[c])
        BY <1>1, <2>2 DEF QueueInv, PlaceInv, RunInv
      <3> QED BY <2>1, <3>2, <3>3
    <2>4. OpenInv(c)'
      <3>1. \A q \in Ahead(c)' \union Inside(c)' \union Behind(c)' \union ToSet(pending'[c]) :
                q \in asked /\ Sender[q] = c /\ answer[q] = <<>> /\ q # r
        BY <1>1, <2>1, <2>3 DEF QueueInv, OpenInv
      <3> QED BY <1>5, <3>1 DEF OpenInv, IInv, TypeInv
    <2>5. RunInv(c)'
      BY <1>1, <2>1 DEF QueueInv, RunInv, linkVars, serverVars
    <2>6. PlaceInv(c)'
      BY <1>1, <2>1 DEF QueueInv, PlaceInv, linkVars, serverVars
    <2> QED BY <2>4, <2>5, <2>6 DEF QueueInv
  <1>9. ASSUME NEW d \in Clients, d # c PROVE QueueInv(d)'
    <2>1. Untouched(d)
      BY <1>3, <1>9 DEF Untouched, linkVars, serverVars
    <2>2. \A q \in asked : Sender[q] # c => answer'[q] = answer[q]
      BY <1>4, <1>5 DEF IInv, TypeInv
    <2> QED BY <1>9, <2>1, <2>2, OthersKeep DEF IInv, serverVars
  <1> QED BY <1>6, <1>7, <1>8, <1>9

LEMMA ForwardKeeps ==
    ASSUME IInv, NEW c \in Clients, Forward(c)
    PROVE  TypeInv' /\ AskedInv' /\ \A d \in Clients : QueueInv(d)'
  <1> DEFINE r == Head(stdin[c])
  <1>1. QueueInv(c) /\ stdin[c] \in Seq(Requests) /\ Once(stdin[c]) /\ stdin[c] # <<>>
        /\ pending[c] \in Seq(Requests) /\ to[c] \in Seq(Requests)
    BY DEF IInv, TypeInv, QueueInv, PlaceInv, Forward, NextLine
  <1>2. /\ r \in Requests /\ Tail(stdin[c]) \in Seq(Requests)
        /\ ToSet(stdin[c]) = {r} \union ToSet(Tail(stdin[c]))
        /\ r \notin ToSet(Tail(stdin[c])) /\ Once(Tail(stdin[c]))
    BY <1>1, HeadTaken
  <1>3. /\ stdin' = [stdin EXCEPT ![c] = Tail(@)]
        /\ pending' = [pending EXCEPT ![c] = Append(@, r)]
        /\ to' \in {to, [to EXCEPT ![c] = Append(@, r)]}
    BY DEF Forward, NextLine, Awaited, IInv, TypeInv
  <1>4. /\ home' \in [Clients -> Instances \union {Nobody}] /\ linked' \in [Clients -> BOOLEAN]
        /\ UNCHANGED <<pathVars, from, serverVars, asked, answer, left>>
    BY DEF Forward, Reachable, Connected, IInv, TypeInv
  <1> HIDE DEF r
  <1>5. /\ Append(pending[c], r) \in Seq(Requests)
        /\ ToSet(Append(pending[c], r)) = ToSet(pending[c]) \union {r}
        /\ Once(pending[c]) /\ r \notin ToSet(pending[c]) => Once(Append(pending[c], r))
    BY <1>1, <1>2, Appended
  <1>6. /\ Append(to[c], r) \in Seq(Requests)
        /\ ToSet(Append(to[c], r)) = ToSet(to[c]) \union {r}
        /\ Once(to[c]) /\ r \notin ToSet(to[c]) => Once(Append(to[c], r))
    BY <1>1, <1>2, Appended
  <1>7. /\ stdin' \in [Clients -> Seq(Requests)] /\ stdin'[c] = Tail(stdin[c])
        /\ pending' \in [Clients -> Seq(Requests)] /\ pending'[c] = Append(pending[c], r)
        /\ to' \in [Clients -> Seq(Requests)] /\ to'[c] \in {to[c], Append(to[c], r)}
        /\ \A d \in Clients : d # c =>
                stdin'[d] = stdin[d] /\ pending'[d] = pending[d] /\ to'[d] = to[d]
    BY <1>2, <1>3, <1>5, <1>6 DEF IInv, TypeInv
  <1>8. TypeInv'
    BY <1>4, <1>7 DEF IInv, TypeInv, pathVars, serverVars
  <1>9. AskedInv'
    BY <1>4 DEF IInv, AskedInv, serverVars
  <1>10. QueueInv(c)'
    <2>1. r \in Ahead(c) /\ r \in ToSet(stdin[c])
      BY <1>2 DEF Ahead
    <2>2. /\ r \notin ToSet(to[c]) /\ r \notin ToSet(input[c]) /\ r \notin ToSet(pending[c])
          /\ Once(to[c]) /\ Once(pending[c])
      BY <1>1, <2>1 DEF QueueInv, PlaceInv
    <2>3. /\ ToSet(stdin'[c]) \subseteq ToSet(stdin[c]) /\ r \notin ToSet(stdin'[c]) /\ Once(stdin'[c])
          /\ ToSet(to'[c]) \subseteq ToSet(to[c]) \union {r} /\ Once(to'[c])
          /\ ToSet(pending'[c]) = ToSet(pending[c]) \union {r} /\ Once(pending'[c])
      BY <1>2, <1>5, <1>6, <1>7, <2>2
    <2>4. Ahead(c)' \subseteq Ahead(c) /\ Inside(c)' = Inside(c) /\ Behind(c)' = Behind(c)
      BY <1>4, <2>1, <2>3 DEF Ahead, Inside, Behind, serverVars
    <2>5. OpenInv(c)'
      BY <1>1, <1>4, <2>1, <2>3, <2>4 DEF QueueInv, OpenInv
    <2>6. RunInv(c)'
      BY <1>1, <1>4, <2>4 DEF QueueInv, RunInv, serverVars
    <2>7. PlaceInv(c)'
      BY <1>1, <1>4, <2>1, <2>2, <2>3, <2>4 DEF QueueInv, PlaceInv, serverVars
    <2> QED BY <2>5, <2>6, <2>7 DEF QueueInv
  <1>11. ASSUME NEW d \in Clients, d # c PROVE QueueInv(d)'
    <2>1. Untouched(d)
      BY <1>4, <1>7, <1>11 DEF Untouched, serverVars
    <2> QED BY <1>4, <1>11, <2>1, OthersKeep DEF IInv, serverVars
  <1> QED BY <1>8, <1>9, <1>10, <1>11

LEMMA ReadBackendKeeps ==
    ASSUME IInv, NEW c \in Clients, ReadBackend(c)
    PROVE  TypeInv' /\ AskedInv' /\ \A d \in Clients : QueueInv(d)'
  <1> DEFINE reply == Head(from[c])
             r == reply.req
  <1>1. /\ QueueInv(c) /\ from[c] \in Seq(Reply) /\ from[c] # <<>> /\ OnceNamed(from[c])
        /\ Truthful(from[c], executed) /\ pending[c] \in Seq(Requests) /\ Once(pending[c])
    BY DEF IInv, TypeInv, QueueInv, PlaceInv, RunInv, ReadBackend
  <1>2. /\ reply \in Reply /\ Tail(from[c]) \in Seq(Reply)
        /\ OnceNamed(Tail(from[c])) /\ Truthful(Tail(from[c]), executed)
        /\ Named(Tail(from[c])) \subseteq Named(from[c])
        /\ r # NoRequest => r \in Named(from[c]) \ Named(Tail(from[c]))
    BY <1>1, ReplyRead
  <1>3. /\ from' = [from EXCEPT ![c] = Tail(@)]
        /\ UNCHANGED <<pathVars, home, to, serverVars, asked, stdin, linked, left>>
    BY DEF ReadBackend
  <1>4. /\ r = NoRequest => UNCHANGED <<answer, pending>>
        /\ r # NoRequest => /\ answer' = [answer EXCEPT ![r] = Append(@, reply.ans)]
                            /\ pending' = [pending EXCEPT ![c] = RemoveFirst(@, r)]
    BY DEF ReadBackend, Answer
  <1>5. /\ RemoveFirst(pending[c], r) \in Seq(Requests) /\ Once(RemoveFirst(pending[c], r))
        /\ ToSet(RemoveFirst(pending[c], r)) = ToSet(pending[c]) \ {r}
    BY <1>1, Removed
  <1>6. r \in Requests \union {NoRequest} /\ reply.ans \in RequestReply!Answers
    BY <1>2 DEF Reply, RequestReply!Answers, RequestReply!Results, RequestReply!Refusals
  <1>7. /\ from' \in [Clients -> Seq(Reply)] /\ from'[c] = Tail(from[c])
        /\ \A d \in Clients : d # c => from'[d] = from[d]
    BY <1>2, <1>3 DEF IInv, TypeInv
  <1> HIDE DEF reply, r
  <1>8. /\ pending' \in [Clients -> Seq(Requests)] /\ pending'[c] \in Seq(Requests)
        /\ Once(pending'[c]) /\ ToSet(pending'[c]) \subseteq ToSet(pending[c])
        /\ r # NoRequest => r \notin ToSet(pending'[c])
        /\ \A d \in Clients : d # c => pending'[d] = pending[d]
    <2>1. CASE r = NoRequest
      BY <1>1, <1>4, <2>1 DEF IInv, TypeInv
    <2>2. CASE r # NoRequest
      <3>1. pending' = [pending EXCEPT ![c] = RemoveFirst(pending[c], r)]
        BY <1>4, <2>2
      <3> QED BY <1>5, <3>1 DEF IInv, TypeInv
    <2> QED BY <2>1, <2>2
  <1>9. /\ answer' \in [Requests -> Seq(RequestReply!Answers)]
        /\ \A q \in Requests : q # r => answer'[q] = answer[q]
    <2>1. CASE r = NoRequest
      BY <1>4, <2>1 DEF IInv, TypeInv
    <2>2. CASE r # NoRequest
      <3>1. r \in Requests /\ Append(answer[r], reply.ans) \in Seq(RequestReply!Answers)
        BY <1>6, <2>2 DEF IInv, TypeInv
      <3> QED BY <1>4, <2>2, <3>1 DEF IInv, TypeInv
    <2> QED BY <2>1, <2>2
  <1>10. r # NoRequest => r \in asked /\ Sender[r] = c
    <2>1. r # NoRequest => r \in Behind(c)
      BY <1>2 DEF Behind
    <2> QED BY <1>1, <2>1 DEF QueueInv, OpenInv
  <1>11. TypeInv'
    BY <1>3, <1>7, <1>8, <1>9 DEF IInv, TypeInv, pathVars, serverVars
  <1>12. AskedInv'
    <2>1. \A q \in Requests \ asked : q # r
      BY <1>10, McpAssumption
    <2> QED BY <1>3, <1>9, <2>1 DEF IInv, AskedInv, serverVars
  <1>13. QueueInv(c)'
    <2>1. /\ Ahead(c)' = Ahead(c) /\ Inside(c)' = Inside(c)
          /\ Named(from'[c]) \subseteq Named(from[c]) /\ Behind(c)' \subseteq Behind(c)
      BY <1>2, <1>3, <1>7 DEF Ahead, Inside, Behind, serverVars
    <2>2. r # NoRequest => r \notin Ahead(c)' \union Inside(c)' \union Behind(c)'
      <3> SUFFICES ASSUME r # NoRequest PROVE r \notin Ahead(c)' \union Inside(c)' \union Behind(c)'
        OBVIOUS
      <3>1. r \in Named(from[c]) /\ r \notin Named(from'[c]) /\ r \in Behind(c)
        BY <1>2, <1>7 DEF Behind
      <3>2. r \notin Ahead(c) /\ r \notin Inside(c) /\ r \notin Named(unsent[c])
        BY <1>1, <3>1 DEF QueueInv, PlaceInv
      <3> QED BY <1>3, <2>1, <3>1, <3>2 DEF Behind, serverVars
    <2>3. OpenInv(c)'
      <3>1. \A q \in Ahead(c)' \union Inside(c)' \union Behind(c)' \union ToSet(pending'[c]) :
                q \in asked /\ Sender[q] = c /\ answer[q] = <<>> /\ q \in Requests
        BY <1>1, <1>8, <2>1 DEF QueueInv, OpenInv, IInv, TypeInv
      <3>2. \A q \in Ahead(c)' \union Inside(c)' \union Behind(c)' \union ToSet(pending'[c]) : q # r
        BY <1>8, <2>2, <3>1, McpAssumption
      <3> QED BY <1>3, <1>9, <3>1, <3>2 DEF OpenInv
    <2>4. RunInv(c)'
      BY <1>1, <1>2, <1>3, <1>7, <2>1 DEF QueueInv, RunInv, serverVars
    <2>5. PlaceInv(c)'
      BY <1>1, <1>2, <1>3, <1>7, <1>8, <2>1 DEF QueueInv, PlaceInv, serverVars
    <2> QED BY <2>3, <2>4, <2>5 DEF QueueInv
  <1>14. ASSUME NEW d \in Clients, d # c PROVE QueueInv(d)'
    <2>1. Untouched(d)
      BY <1>3, <1>7, <1>8, <1>14 DEF Untouched, serverVars
    <2>2. \A q \in asked : Sender[q] # c => answer'[q] = answer[q]
      BY <1>9, <1>10, McpAssumption DEF IInv, TypeInv
    <2> QED BY <1>3, <1>14, <2>1, <2>2, OthersKeep DEF IInv, serverVars
  <1> QED BY <1>11, <1>12, <1>13, <1>14

LEMMA LossKeeps ==
    ASSUME IInv, NEW c \in Clients, BackendDisconnected(c)
    PROVE  TypeInv' /\ AskedInv' /\ \A d \in Clients : QueueInv(d)'
  <1>1. /\ linked[c] /\ home[c] = Nobody /\ from[c] = <<>>
        /\ linked' = [linked EXCEPT ![c] = FALSE] /\ pending' = [pending EXCEPT ![c] = <<>>]
        /\ answer' = [r \in Requests |-> IF c \in Bridged /\ r \in ToSet(pending[c])
                                         THEN Append(answer[r], "gone") ELSE answer[r]]
        /\ UNCHANGED <<pathVars, linkVars, serverVars, asked, stdin, left>>
    BY DEF BackendDisconnected
  <1>2. QueueInv(c) /\ LinkInv(c) /\ \A r \in ToSet(pending[c]) : r \in asked /\ Sender[r] = c
    BY DEF IInv, QueueInv, OpenInv
  <1>3. \A r \in Requests : r \notin ToSet(pending[c]) => answer'[r] = answer[r]
    BY <1>1
  <1>4. TypeInv'
    <2>1. <<>> \in Seq(Requests)
      OBVIOUS
    <2>2. ASSUME NEW r \in Requests PROVE Append(answer[r], "gone") \in Seq(RequestReply!Answers)
      <3>1. "gone" \in RequestReply!Answers /\ answer[r] \in Seq(RequestReply!Answers)
        BY DEF IInv, TypeInv, RequestReply!Answers, RequestReply!Unknown
      <3> QED BY <3>1
    <2>3. answer' \in [Requests -> Seq(RequestReply!Answers)]
      BY <1>1, <2>2 DEF IInv, TypeInv
    <2> QED BY <1>1, <2>1, <2>3 DEF IInv, TypeInv, pathVars, linkVars, serverVars
  <1>5. AskedInv'
    BY <1>1, <1>2, <1>3 DEF IInv, AskedInv, serverVars
  <1>6. pending'[c] = <<>> /\ \A d \in Clients : d # c => pending'[d] = pending[d]
    BY <1>1 DEF IInv, TypeInv
  <1>7. QueueInv(c)'
    <2>1. /\ to[c] = <<>> /\ unsent[c] = <<>> /\ input[c] = <<>> /\ running[c] = NoRequest
      BY <1>1, <1>2 DEF LinkInv
    <2>2. /\ Ahead(c)' = ToSet(stdin[c]) /\ Inside(c)' = {} /\ Behind(c)' = {} /\ ToSet(pending'[c]) = {}
      BY <1>1, <1>6, <2>1, Nothing DEF Ahead, Inside, Behind, linkVars, serverVars
    <2>3. \A q \in ToSet(stdin[c]) :
            q \in asked /\ Sender[q] = c /\ answer[q] = <<>> /\ q \notin ToSet(pending[c]) /\ q \notin executed
      BY <1>2 DEF QueueInv, OpenInv, PlaceInv, RunInv, Ahead
    <2>4. OpenInv(c)'
      <3>1. asked \subseteq Requests
        BY DEF IInv, TypeInv
      <3> QED BY <1>1, <1>3, <2>2, <2>3, <3>1 DEF OpenInv
    <2>5. RunInv(c)'
      BY <1>1, <2>1, <2>2, <2>3, Nothing DEF RunInv, linkVars, serverVars
    <2>6. PlaceInv(c)'
      BY <1>1, <1>2, <1>6, <2>1, <2>2, Nothing DEF QueueInv, PlaceInv, linkVars, serverVars
    <2> QED BY <2>4, <2>5, <2>6 DEF QueueInv
  <1>8. ASSUME NEW d \in Clients, d # c PROVE QueueInv(d)'
    <2>1. Untouched(d)
      BY <1>1, <1>6, <1>8 DEF Untouched, linkVars, serverVars
    <2>2. \A q \in asked : Sender[q] # c => answer'[q] = answer[q]
      BY <1>2, <1>3 DEF IInv, TypeInv
    <2> QED BY <1>1, <1>8, <2>1, <2>2, OthersKeep DEF IInv, serverVars
  <1> QED BY <1>4, <1>5, <1>7, <1>8

-----------------------------------------------------------------------------
(* Steps that end connections and make them                                *)

LEMMA EndsKeep ==
    ASSUME IInv,
           \/ \E c \in Clients : ConnectDirectly(c) \/ ClientLeaves(c)
           \/ \E p \in Instances, c \in Clients : PeerGone(p, c)
           \/ \E p \in Instances, c \in Clients : CloseRejected(p, c) /\ UNCHANGED bridgeVars
           \/ \E p \in Instances : InstanceStep(p) /\ UNCHANGED bridgeVars
    PROVE  TypeInv' /\ AskedInv' /\ \A d \in Clients : QueueInv(d)'
  <1> DEFINE Dropping ==
        /\ UNCHANGED <<asked, executed, answer>>
        /\ \A d \in Clients :
            /\ stdin'[d] \in {stdin[d], <<>>} /\ to'[d] \in {to[d], <<>>}
            /\ input'[d] \in {input[d], <<>>} /\ unsent'[d] \in {unsent[d], <<>>}
            /\ from'[d] \in {from[d], <<>>} /\ pending'[d] \in {pending[d], <<>>}
            /\ running'[d] \in {running[d], NoRequest}
  <1>0. <<>> \in Seq(Requests) /\ <<>> \in Seq(Reply) /\ <<>> \in Seq(Clients)
    OBVIOUS
  <1>1. ASSUME NEW c \in Clients, ConnectDirectly(c) PROVE TypeInv' /\ Dropping
    <2>1. Dropping
      BY <1>1 DEF ConnectDirectly, serverVars
    <2>2. TypeInv'
      BY <1>1 DEF ConnectDirectly, Connected, Reachable, IInv, TypeInv, pathVars, serverVars
    <2> QED BY <2>1, <2>2
  <1>2. ASSUME NEW c \in Clients, ClientLeaves(c) PROVE TypeInv' /\ Dropping
    <2>1. Dropping
      BY <1>2 DEF ClientLeaves, linkVars, serverVars, IInv, TypeInv
    <2>2. TypeInv'
      BY <1>0, <1>2 DEF ClientLeaves, IInv, TypeInv, pathVars, linkVars, serverVars
    <2> QED BY <2>1, <2>2
  <1>3. ASSUME NEW p \in Instances, NEW c \in Clients, PeerGone(p, c) PROVE TypeInv' /\ Dropping
    <2>1. Dropping
      BY <1>3 DEF PeerGone, bridgeVars, IInv, TypeInv
    <2>2. TypeInv'
      BY <1>0, <1>3 DEF PeerGone, IInv, TypeInv, pathVars, bridgeVars
    <2> QED BY <2>1, <2>2
  <1>4. ASSUME NEW p \in Instances, NEW c \in Clients, CloseRejected(p, c), UNCHANGED bridgeVars
        PROVE TypeInv' /\ Dropping
    <2>1. Dropping
      BY <1>4 DEF CloseRejected, bridgeVars, IInv, TypeInv
    <2>2. TypeInv'
      BY <1>0, <1>4 DEF CloseRejected, IInv, TypeInv, pathVars, bridgeVars
    <2> QED BY <2>1, <2>2
  <1>5. ASSUME NEW p \in Instances, Quit(p) \/ Crash(p), UNCHANGED bridgeVars
        PROVE TypeInv' /\ Dropping
    <2>1. ConnectionsEnd(p) /\ path' \in {path, Nobody}
      BY <1>5 DEF Quit, Crash
    <2>2. Dropping
      BY <1>5, <2>1 DEF ConnectionsEnd, bridgeVars, IInv, TypeInv
    <2>3. /\ home' \in [Clients -> Instances \union {Nobody}]
          /\ to' \in [Clients -> Seq(Requests)] /\ input' \in [Clients -> Seq(Requests)]
          /\ unsent' \in [Clients -> Seq(Reply)]
      BY <1>0, <2>1 DEF ConnectionsEnd, IInv, TypeInv
    <2>4. closing' \in [Clients -> BOOLEAN]
      <3>1. \A d \in Clients : closing[d] \in BOOLEAN
        BY DEF IInv, TypeInv
      <3>2. closing' = [d \in Clients |-> ~(home[d] = p) /\ closing[d]]
        BY <2>1 DEF ConnectionsEnd
      <3> QED BY <3>1, <3>2, Zenon
    <2>5. /\ running' \in [Clients -> Requests \union {NoRequest}]
          /\ readers' \in [Instances -> Seq(Clients)]
      BY <1>0, <2>1 DEF ConnectionsEnd, IInv, TypeInv
    <2>6. TypeInv'
      BY <1>5, <2>1, <2>3, <2>4, <2>5 DEF ConnectionsEnd, IInv, TypeInv, bridgeVars
    <2> QED BY <2>2, <2>6
  <1>6. ASSUME NEW p \in Instances, Probe(p) \/ RemoveStale(p) \/ Bind(p), UNCHANGED bridgeVars
        PROVE TypeInv' /\ Dropping
    <2>1. path' \in Instances \union {Nobody} /\ UNCHANGED <<linkVars, serverVars, bridgeVars>>
      BY <1>6 DEF Probe, RemoveStale, Bind, IInv, TypeInv
    <2>2. Dropping
      BY <2>1 DEF linkVars, serverVars, bridgeVars
    <2>3. TypeInv'
      BY <2>1 DEF IInv, TypeInv, linkVars, serverVars, bridgeVars
    <2> QED BY <2>2, <2>3
  <1> HIDE DEF Dropping
  <1>7. TypeInv' /\ Dropping
    BY <1>1, <1>2, <1>3, <1>4, <1>5, <1>6 DEF InstanceStep
  <1>8. AskedInv'
    BY <1>7 DEF Dropping, IInv, AskedInv
  <1>9. ASSUME NEW d \in Clients PROVE QueueInv(d)'
    BY <1>7, DroppedKeeps DEF Dropping, IInv
  <1> QED BY <1>7, <1>8, <1>9

-----------------------------------------------------------------------------
(* The steps of the server                                                 *)

LEMMA ReadMessagesKeeps ==
    ASSUME IInv, NEW p \in Instances, NEW c \in Clients, ReadMessages(p, c), UNCHANGED bridgeVars
    PROVE  TypeInv' /\ AskedInv' /\ \A d \in Clients : QueueInv(d)'
  <1>1. PICK n \in 1 .. Len(to[c]) :
            /\ to' = [to EXCEPT ![c] = SubSeq(@, n + 1, Len(@))]
            /\ \/ Reject(c) /\ UNCHANGED <<input, readers>>
               \/ /\ input' = [input EXCEPT ![c] = SubSeq(to[c], 1, n)]
                  /\ readers' = [readers EXCEPT ![p] = Append(@, c)]
                  /\ UNCHANGED <<unsent, closing>>
    BY DEF ReadMessages
  <1>2. UNCHANGED <<pathVars, home, from, running, executed, bridgeVars>>
    BY DEF ReadMessages
  <1> DEFINE a == SubSeq(to[c], 1, n)
             b == SubSeq(to[c], n + 1, Len(to[c]))
             x == [req |-> NoRequest, ans |-> "refused"]
  <1>3. QueueInv(c) /\ to[c] \in Seq(Requests) /\ Once(to[c]) /\ unsent[c] \in Seq(Reply)
        /\ OnceNamed(unsent[c]) /\ Truthful(unsent[c], executed)
    BY DEF IInv, TypeInv, QueueInv, PlaceInv, RunInv
  <1>4. /\ a \in Seq(Requests) /\ b \in Seq(Requests) /\ Once(a) /\ Once(b)
        /\ ToSet(a) \subseteq ToSet(to[c]) /\ ToSet(b) \subseteq ToSet(to[c])
        /\ ToSet(a) \intersect ToSet(b) = {}
    BY <1>3, Divided
  <1>5. /\ Append(unsent[c], x) \in Seq(Reply) /\ Named(Append(unsent[c], x)) = Named(unsent[c])
        /\ OnceNamed(Append(unsent[c], x)) /\ Truthful(Append(unsent[c], x), executed)
    <2> HIDE DEF a, b
    <2>1. x \in Reply /\ x.req = NoRequest
      BY DEF Reply
    <2> HIDE DEF x
    <2> DEFINE t == Append(unsent[c], x)
    <2>2. /\ t \in Seq(Reply) /\ Named(t) = Named(unsent[c]) \union ({x.req} \ {NoRequest})
          /\ OnceNamed(t) /\ Truthful(t, executed)
      BY <1>3, <2>1, ReplySent
    <2> QED BY <2>1, <2>2
  <1>6. /\ to' = [to EXCEPT ![c] = b]
        /\ \/ /\ unsent' = [unsent EXCEPT ![c] = Append(unsent[c], x)]
              /\ closing' = [closing EXCEPT ![c] = TRUE] /\ UNCHANGED <<input, readers>>
           \/ /\ input' = [input EXCEPT ![c] = a]
              /\ readers' = [readers EXCEPT ![p] = Append(@, c)] /\ UNCHANGED <<unsent, closing>>
    BY <1>1 DEF Reject, IInv, TypeInv
  <1> HIDE DEF a, b, x
  <1>7. /\ to' \in [Clients -> Seq(Requests)] /\ to'[c] = b
        /\ input' \in [Clients -> Seq(Requests)] /\ input'[c] \in {input[c], a}
        /\ unsent' \in [Clients -> Seq(Reply)] /\ unsent'[c] \in {unsent[c], Append(unsent[c], x)}
        /\ \A d \in Clients : d # c => to'[d] = to[d] /\ input'[d] = input[d] /\ unsent'[d] = unsent[d]
    <2>1. /\ to' \in [Clients -> Seq(Requests)] /\ to'[c] = b
          /\ \A d \in Clients : d # c => to'[d] = to[d]
      BY <1>4, <1>6 DEF IInv, TypeInv
    <2>2. /\ input' \in [Clients -> Seq(Requests)] /\ input'[c] \in {input[c], a}
          /\ \A d \in Clients : d # c => input'[d] = input[d]
      BY <1>4, <1>6 DEF IInv, TypeInv
    <2> DEFINE t == Append(unsent[c], x)
    <2>3. t \in Seq(Reply) /\ (UNCHANGED unsent \/ unsent' = [unsent EXCEPT ![c] = t])
      BY <1>5, <1>6
    <2> HIDE DEF t
    <2>4. /\ unsent' \in [Clients -> Seq(Reply)] /\ unsent'[c] \in {unsent[c], t}
          /\ \A d \in Clients : d # c => unsent'[d] = unsent[d]
      BY <2>3 DEF IInv, TypeInv
    <2> QED BY <2>1, <2>2, <2>4 DEF t
  <1>8. closing' \in [Clients -> BOOLEAN] /\ readers' \in [Instances -> Seq(Clients)]
    <2>1. readers[p] \in Seq(Clients) /\ Append(readers[p], c) \in Seq(Clients)
      BY DEF IInv, TypeInv
    <2> QED BY <1>6, <2>1 DEF IInv, TypeInv
  <1>9. TypeInv'
    BY <1>2, <1>7, <1>8 DEF IInv, TypeInv, pathVars, bridgeVars
  <1>10. AskedInv'
    BY <1>2 DEF IInv, AskedInv, bridgeVars
  <1>11. QueueInv(c)'
    <2>1. /\ Named(unsent'[c]) = Named(unsent[c]) /\ OnceNamed(unsent'[c])
          /\ Truthful(unsent'[c], executed)
      BY <1>3, <1>5, <1>7
    <2>2. /\ ToSet(to'[c]) \subseteq ToSet(to[c]) /\ ToSet(input'[c]) \subseteq ToSet(input[c]) \union ToSet(to[c])
          /\ Once(to'[c]) /\ Once(input'[c]) /\ ToSet(to'[c]) \intersect ToSet(input'[c]) = {}
      <3>1. Once(input[c]) /\ ToSet(to[c]) \intersect ToSet(input[c]) = {}
        BY <1>3 DEF QueueInv, PlaceInv
      <3> QED BY <1>4, <1>7, <3>1
    <2>3. Ahead(c)' \subseteq Ahead(c) /\ Inside(c)' = Inside(c) /\ Behind(c)' = Behind(c)
      BY <1>2, <2>1, <2>2 DEF Ahead, Inside, Behind, bridgeVars
    <2>4. OpenInv(c)'
      BY <1>2, <1>3, <2>3 DEF QueueInv, OpenInv, bridgeVars
    <2>5. RunInv(c)'
      BY <1>2, <1>3, <2>1, <2>3 DEF QueueInv, RunInv
    <2>6. PlaceInv(c)'
      BY <1>2, <1>3, <2>1, <2>2, <2>3 DEF QueueInv, PlaceInv, bridgeVars
    <2> QED BY <2>4, <2>5, <2>6 DEF QueueInv
  <1>12. ASSUME NEW d \in Clients, d # c PROVE QueueInv(d)'
    <2>1. Untouched(d)
      BY <1>2, <1>7, <1>12 DEF Untouched, bridgeVars
    <2> QED BY <1>2, <1>12, <2>1, OthersKeep DEF IInv, bridgeVars
  <1> QED BY <1>9, <1>10, <1>11, <1>12

LEMMA WriteRepliesKeeps ==
    ASSUME IInv, NEW p \in Instances, NEW c \in Clients, WriteReplies(p, c), UNCHANGED bridgeVars
    PROVE  TypeInv' /\ AskedInv' /\ \A d \in Clients : QueueInv(d)'
  <1>1. /\ from' = [from EXCEPT ![c] = @ \o unsent[c]] /\ unsent' = [unsent EXCEPT ![c] = <<>>]
        /\ UNCHANGED <<pathVars, home, to, input, closing, readers, running, executed, bridgeVars>>
    BY DEF WriteReplies
  <1> DEFINE t == from[c] \o unsent[c]
  <1>2. /\ QueueInv(c) /\ from[c] \in Seq(Reply) /\ unsent[c] \in Seq(Reply)
        /\ OnceNamed(from[c]) /\ OnceNamed(unsent[c]) /\ Named(from[c]) \intersect Named(unsent[c]) = {}
        /\ Truthful(from[c], executed) /\ Truthful(unsent[c], executed)
    BY DEF IInv, TypeInv, QueueInv, PlaceInv, RunInv
  <1>3. /\ t \in Seq(Reply) /\ Named(t) = Named(from[c]) \union Named(unsent[c])
        /\ OnceNamed(t) /\ Truthful(t, executed)
    BY <1>2, RepliesJoined
  <1>4. from' = [from EXCEPT ![c] = t] /\ <<>> \in Seq(Reply)
    BY <1>1 DEF IInv, TypeInv
  <1> HIDE DEF t
  <1>5. /\ from' \in [Clients -> Seq(Reply)] /\ from'[c] = t
        /\ unsent' \in [Clients -> Seq(Reply)] /\ unsent'[c] = <<>>
        /\ \A d \in Clients : d # c => from'[d] = from[d] /\ unsent'[d] = unsent[d]
    BY <1>1, <1>3, <1>4 DEF IInv, TypeInv
  <1>6. TypeInv' /\ AskedInv'
    BY <1>1, <1>5 DEF IInv, TypeInv, AskedInv, pathVars, bridgeVars
  <1>7. QueueInv(c)'
    <2>1. Ahead(c)' = Ahead(c) /\ Inside(c)' = Inside(c) /\ Behind(c)' = Behind(c)
      BY <1>1, <1>3, <1>5, Nothing DEF Ahead, Inside, Behind, bridgeVars
    <2>2. OpenInv(c)'
      BY <1>1, <1>2, <2>1 DEF QueueInv, OpenInv, bridgeVars
    <2>3. RunInv(c)'
      BY <1>1, <1>2, <1>3, <1>5, <2>1, Nothing DEF QueueInv, RunInv
    <2>4. PlaceInv(c)'
      BY <1>1, <1>2, <1>3, <1>5, <2>1, Nothing DEF QueueInv, PlaceInv, bridgeVars
    <2> QED BY <2>2, <2>3, <2>4 DEF QueueInv
  <1>8. ASSUME NEW d \in Clients, d # c PROVE QueueInv(d)'
    <2>1. Untouched(d)
      BY <1>1, <1>5, <1>8 DEF Untouched, bridgeVars
    <2> QED BY <1>1, <1>8, <2>1, OthersKeep DEF IInv, bridgeVars
  <1> QED BY <1>6, <1>7, <1>8

\* Front and Last of what an instance has in hand.
LEMMA InHand ==
    ASSUME TypeInv, NEW p \in Instances, readers[p] # <<>>
    PROVE  /\ Innermost(p) \in Clients /\ Innermost(p) \in ToSet(readers[p])
           /\ Front(readers[p]) \in Seq(Clients)
           /\ ToSet(Front(readers[p])) \subseteq ToSet(readers[p])
           /\ \A d \in ToSet(readers[p]) : d # Innermost(p) => d \in ToSet(Front(readers[p]))
  <1> DEFINE s == readers[p]
             t == SubSeq(s, 1, Len(s) - 1)
  <1>1. s \in Seq(Clients) /\ Len(s) \in Nat /\ Len(s) >= 1 /\ DOMAIN s = 1 .. Len(s)
    BY DEF TypeInv
  <1>2. Front(s) = t /\ Innermost(p) = s[Len(s)]
    BY DEF Front, Innermost, Last
  <1> HIDE DEF s
  <1>3. PICK n \in Nat : n = Len(s) - 1
    BY <1>1
  <1>4. 1 \in Nat /\ 1 <= n + 1 /\ n <= Len(s) /\ n + 1 - 1 = n
    BY <1>1, <1>3
  <1>5. t = SubSeq(s, 1, n)
    BY <1>3
  <1> HIDE DEF t
  <1>6. /\ t \in Seq(Clients) /\ DOMAIN t = 1 .. n
        /\ \A i \in 1 .. n : t[i] = s[(1 - 1) + i]
    BY <1>1, <1>4, <1>5, Part
  <1>7. \A i \in 1 .. n : t[i] = s[i]
    <2>1. \A i \in 1 .. n : (1 - 1) + i = i
      OBVIOUS
    <2> QED BY <1>6, <2>1
  <1>8. \A i \in DOMAIN s : i \in 1 .. n \/ i = Len(s)
    BY <1>1, <1>3
  <1>9. \A i \in 1 .. n : i \in DOMAIN s
    BY <1>1, <1>3
  <1>10. Len(s) \in DOMAIN s
    BY <1>1
  <1>11. s[Len(s)] \in Clients
    BY <1>1
  <1> QED BY <1>2, <1>6, <1>7, <1>8, <1>9, <1>10, <1>11 DEF ToSet, s
\* What becomes of the next message: it is dropped, alone or with the rest of its
\* connection; it is answered; or its tool is run.
LEMMA HandledCases ==
    ASSUME NEW p \in Instances, HandleMessage(p)
    PROVE  LET c == Innermost(p)
               r == Head(input[c])
           IN  /\ readers[p] # <<>> /\ running[c] = NoRequest /\ input[c] # <<>>
               /\ input' = [input EXCEPT ![c] = Tail(@)]
               /\ UNCHANGED <<pathVars, linkVars>>
               /\ \/ Reject(c) /\ Leave(p) /\ UNCHANGED <<running, executed>>
                  \/ Kind[r] = "note" /\ UNCHANGED <<unsent, closing, readers, running, executed>>
                  \/ \E a \in {"refused", "info"} :
                        Send(c, r, a) /\ UNCHANGED <<closing, readers, running, executed>>
                  \/ /\ running' = [running EXCEPT ![c] = r] /\ executed' = executed \union {r}
                     /\ UNCHANGED <<unsent, closing, readers>>
  BY Zenon DEF HandleMessage

LEMMA HandleMessageKeeps ==
    ASSUME IInv, NEW p \in Instances, HandleMessage(p), UNCHANGED bridgeVars
    PROVE  TypeInv' /\ AskedInv' /\ \A d \in Clients : QueueInv(d)'
  <1>0. /\ readers[p] # <<>> /\ Innermost(p) \in Clients /\ Front(readers[p]) \in Seq(Clients)
    BY HandledCases, InHand DEF IInv
  <1>1. PICK c \in Clients : c = Innermost(p)
    BY <1>0
  <1>2. PICK r : r = Head(input[c])
    OBVIOUS
  <1>3. /\ running[c] = NoRequest /\ input[c] # <<>>
        /\ input' = [input EXCEPT ![c] = Tail(@)] /\ UNCHANGED <<pathVars, linkVars>>
        /\ \/ Reject(c) /\ Leave(p) /\ UNCHANGED <<running, executed>>
           \/ UNCHANGED <<unsent, closing, readers, running, executed>>
           \/ \E a \in {"refused", "info"} :
                 Send(c, r, a) /\ UNCHANGED <<closing, readers, running, executed>>
           \/ /\ running' = [running EXCEPT ![c] = r] /\ executed' = executed \union {r}
              /\ UNCHANGED <<unsent, closing, readers>>
    BY <1>1, <1>2, HandledCases
  <1>4. /\ QueueInv(c) /\ input[c] \in Seq(Requests) /\ Once(input[c]) /\ unsent[c] \in Seq(Reply)
        /\ OnceNamed(unsent[c]) /\ Truthful(unsent[c], executed)
    BY <1>0 DEF IInv, TypeInv, QueueInv, PlaceInv, RunInv
  <1>5. /\ r \in Requests /\ Tail(input[c]) \in Seq(Requests)
        /\ ToSet(input[c]) = {r} \union ToSet(Tail(input[c]))
        /\ r \notin ToSet(Tail(input[c])) /\ Once(Tail(input[c]))
    BY <1>2, <1>3, <1>4, HeadTaken
  <1>6. /\ input' \in [Clients -> Seq(Requests)] /\ input'[c] = Tail(input[c])
        /\ \A d \in Clients : d # c => input'[d] = input[d]
    BY <1>3, <1>0, <1>5 DEF IInv, TypeInv
  <1>7. r \in Ahead(c) /\ r \in ToSet(input[c])
    BY <1>5 DEF Ahead
  <1>8. r \in asked /\ Sender[r] = c /\ r \notin executed /\ answer[r] = <<>> /\ r # NoRequest
    BY <1>4, <1>5, <1>7, McpAssumption DEF QueueInv, OpenInv, RunInv
  <1>9. /\ r \notin ToSet(stdin[c]) /\ r \notin ToSet(to[c]) /\ r \notin ToSet(input'[c])
        /\ r \notin Inside(c) /\ r \notin Behind(c) /\ r \notin Named(unsent[c]) /\ r \notin Named(from[c])
    <2>1. r \notin ToSet(stdin[c]) /\ r \notin ToSet(to[c]) /\ r \notin Behind(c)
      BY <1>4, <1>7 DEF QueueInv, PlaceInv
    <2>2. r \notin Inside(c)
      BY <1>4, <1>8 DEF QueueInv, RunInv
    <2> QED BY <1>5, <1>6, <2>1, <2>2 DEF Behind
  <1>10. /\ ToSet(input'[c]) \subseteq ToSet(input[c]) /\ Once(input'[c])
         /\ Ahead(c)' \subseteq Ahead(c) \ {r}
    <2>1. ToSet(input'[c]) \subseteq ToSet(input[c]) /\ Once(input'[c])
      BY <1>5, <1>6
    <2> QED BY <1>3, <1>9, <2>1 DEF Ahead, linkVars, bridgeVars
  <1>11. CASE \E x \in Reply :
                /\ x.req \in {r, NoRequest} /\ x.ans # "result"
                /\ unsent' = [unsent EXCEPT ![c] = Append(@, x)]
                /\ closing' \in [Clients -> BOOLEAN] /\ readers' \in [Instances -> Seq(Clients)]
                /\ UNCHANGED <<running, executed>>
    <2>1. PICK x \in Reply :
                /\ x.req \in {r, NoRequest} /\ x.ans # "result"
                /\ unsent' = [unsent EXCEPT ![c] = Append(@, x)]
                /\ closing' \in [Clients -> BOOLEAN] /\ readers' \in [Instances -> Seq(Clients)]
                /\ UNCHANGED <<running, executed>>
      BY <1>11
    <2> DEFINE t == Append(unsent[c], x)
    <2>2. /\ t \in Seq(Reply) /\ Named(t) = Named(unsent[c]) \union ({x.req} \ {NoRequest})
          /\ OnceNamed(t) /\ Truthful(t, executed)
      <3>1. x.req # NoRequest => x.req \notin Named(unsent[c]) /\ (x.ans = "result" <=> x.req \in executed)
        BY <1>8, <1>9, <2>1
      <3> QED BY <1>4, <3>1, ReplySent
    <2>3. unsent' = [unsent EXCEPT ![c] = t]
      BY <2>1
    <2> HIDE DEF t
    <2>4. /\ unsent' \in [Clients -> Seq(Reply)] /\ unsent'[c] = t
          /\ \A d \in Clients : d # c => unsent'[d] = unsent[d]
      BY <1>0, <2>2, <2>3 DEF IInv, TypeInv
    <2>5. TypeInv' /\ AskedInv'
      BY <1>3, <1>6, <2>1, <2>4 DEF IInv, TypeInv, AskedInv, pathVars, linkVars, bridgeVars
    <2>6. /\ Named(unsent'[c]) \subseteq Named(unsent[c]) \union {r}
          /\ Inside(c)' = Inside(c) /\ Behind(c)' \subseteq Behind(c) \union {r}
      BY <1>3, <2>1, <2>2, <2>4 DEF Inside, Behind, linkVars
    <2>7. OpenInv(c)'
      BY <1>4, <1>8, <1>10, <2>6 DEF QueueInv, OpenInv, bridgeVars
    <2>8. RunInv(c)'
      BY <1>3, <1>4, <1>10, <2>1, <2>2, <2>4, <2>6 DEF QueueInv, RunInv, linkVars
    <2>9. PlaceInv(c)'
      BY <1>3, <1>4, <1>9, <1>10, <2>2, <2>4, <2>6 DEF QueueInv, PlaceInv, linkVars, bridgeVars
    <2>10. ASSUME NEW d \in Clients, d # c PROVE QueueInv(d)'
      <3>1. Untouched(d)
        BY <1>3, <1>6, <2>1, <2>4, <2>10 DEF Untouched, linkVars, bridgeVars
      <3> QED BY <2>1, <2>10, <3>1, OthersKeep DEF IInv, bridgeVars
    <2> QED BY <2>5, <2>7, <2>8, <2>9, <2>10 DEF QueueInv
  <1>12. CASE UNCHANGED <<unsent, closing, readers, running, executed>>
    <2>1. TypeInv' /\ AskedInv'
      BY <1>3, <1>6, <1>12 DEF IInv, TypeInv, AskedInv, pathVars, linkVars, bridgeVars
    <2>2. Inside(c)' = Inside(c) /\ Behind(c)' = Behind(c)
      BY <1>3, <1>12 DEF Inside, Behind, linkVars
    <2>3. OpenInv(c)'
      BY <1>4, <1>10, <2>2 DEF QueueInv, OpenInv, bridgeVars
    <2>4. RunInv(c)'
      BY <1>3, <1>4, <1>10, <1>12, <2>2 DEF QueueInv, RunInv, linkVars
    <2>5. PlaceInv(c)'
      BY <1>3, <1>4, <1>10, <1>12, <2>2 DEF QueueInv, PlaceInv, linkVars, bridgeVars
    <2>6. ASSUME NEW d \in Clients, d # c PROVE QueueInv(d)'
      <3>1. Untouched(d)
        BY <1>3, <1>6, <1>12, <2>6 DEF Untouched, linkVars, bridgeVars
      <3> QED BY <1>12, <2>6, <3>1, OthersKeep DEF IInv, bridgeVars
    <2> QED BY <2>1, <2>3, <2>4, <2>5, <2>6 DEF QueueInv
  <1>13. CASE /\ running' = [running EXCEPT ![c] = r] /\ executed' = executed \union {r}
              /\ UNCHANGED <<unsent, closing, readers>>
    <2>1. /\ running' \in [Clients -> Requests \union {NoRequest}] /\ running'[c] = r
          /\ \A d \in Clients : d # c => running'[d] = running[d]
      BY <1>0, <1>5, <1>13 DEF IInv, TypeInv
    <2>2. TypeInv' /\ AskedInv'
      BY <1>3, <1>5, <1>6, <1>8, <1>13, <2>1
         DEF IInv, TypeInv, AskedInv, pathVars, linkVars, bridgeVars
    <2>3. Inside(c)' = {r} /\ Behind(c)' = Behind(c)
      BY <1>3, <1>8, <1>13, <2>1 DEF Inside, Behind, linkVars
    <2>4. OpenInv(c)'
      BY <1>4, <1>8, <1>10, <2>3 DEF QueueInv, OpenInv, bridgeVars
    <2>5. Truthful(unsent[c], executed') /\ Truthful(from[c], executed')
      <3>1. /\ \A i \in DOMAIN unsent[c] : unsent[c][i].req # r \/ unsent[c][i].req = NoRequest
            /\ \A i \in DOMAIN from[c] : from[c][i].req # r \/ from[c][i].req = NoRequest
        BY <1>9 DEF Named
      <3> QED BY <1>4, <1>13, <3>1 DEF QueueInv, RunInv, Truthful
    <2>6. RunInv(c)'
      BY <1>3, <1>4, <1>10, <1>13, <2>3, <2>5 DEF QueueInv, RunInv, linkVars
    <2>7. PlaceInv(c)'
      BY <1>3, <1>4, <1>9, <1>10, <1>13, <2>3 DEF QueueInv, PlaceInv, linkVars, bridgeVars
    <2>8. ASSUME NEW d \in Clients, d # c PROVE QueueInv(d)'
      <3>1. Untouched(d)
        BY <1>3, <1>6, <1>13, <2>1, <2>8 DEF Untouched, linkVars, bridgeVars
      <3> QED BY <1>8, <1>13, <2>8, <3>1, OthersKeep DEF IInv, bridgeVars
    <2> QED BY <2>2, <2>4, <2>6, <2>7, <2>8 DEF QueueInv
  <1>14. CASE Reject(c) /\ Leave(p) /\ UNCHANGED <<running, executed>>
    <2> DEFINE x == [req |-> NoRequest, ans |-> "refused"]
    <2>1. x \in Reply /\ x.req \in {r, NoRequest} /\ x.ans # "result"
      BY DEF Reply
    <2>2. unsent' = [unsent EXCEPT ![c] = Append(@, x)]
      BY <1>14 DEF Reject
    <2> HIDE DEF x
    <2>3. closing' \in [Clients -> BOOLEAN] /\ readers' \in [Instances -> Seq(Clients)]
      BY <1>0, <1>14 DEF Reject, Leave, IInv, TypeInv
    <2>4. UNCHANGED <<running, executed>>
      BY <1>14
    <2> QED BY <1>11, <2>1, <2>2, <2>3, <2>4
  <1>15. CASE \E a \in {"refused", "info"} :
                Send(c, r, a) /\ UNCHANGED <<closing, readers, running, executed>>
    <2>1. PICK a \in {"refused", "info"} :
                Send(c, r, a) /\ UNCHANGED <<closing, readers, running, executed>>
      BY <1>15
    <2> DEFINE x == [req |-> r, ans |-> a]
    <2>2. x \in Reply /\ x.req \in {r, NoRequest} /\ x.ans # "result"
      BY <1>5 DEF Reply
    <2>3. unsent' = [unsent EXCEPT ![c] = Append(@, x)]
      BY <2>1 DEF Send
    <2> HIDE DEF x
    <2>4. /\ closing' \in [Clients -> BOOLEAN] /\ readers' \in [Instances -> Seq(Clients)]
          /\ UNCHANGED <<running, executed>>
      BY <2>1 DEF IInv, TypeInv
    <2> QED BY <1>11, <2>2, <2>3, <2>4
  <1> QED BY <1>3, <1>12, <1>13, <1>14, <1>15

LEMMA ToolReturnsKeeps ==
    ASSUME IInv, NEW p \in Instances, ToolReturns(p), UNCHANGED bridgeVars
    PROVE  TypeInv' /\ AskedInv' /\ \A d \in Clients : QueueInv(d)'
  <1>1. readers[p] # <<>> /\ Innermost(p) \in Clients
    BY InHand DEF ToolReturns, IInv
  <1>2. PICK c \in Clients : c = Innermost(p)
    BY <1>1
  <1>3. PICK r : r = running[c]
    OBVIOUS
  <1>4. PICK x : x = [req |-> r, ans |-> "result"]
    OBVIOUS
  <1>5. /\ r # NoRequest /\ unsent' = [unsent EXCEPT ![c] = Append(@, x)]
        /\ running' = [running EXCEPT ![c] = NoRequest]
        /\ UNCHANGED <<pathVars, linkVars, input, closing, readers, executed, bridgeVars>>
    BY <1>2, <1>3, <1>4 DEF ToolReturns, Send
  <1>6. /\ QueueInv(c) /\ r \in Requests /\ unsent[c] \in Seq(Reply)
        /\ OnceNamed(unsent[c]) /\ Truthful(unsent[c], executed)
    BY <1>5, <1>3 DEF IInv, TypeInv, QueueInv, PlaceInv, RunInv
  <1>7. x \in Reply /\ x.req = r /\ x.ans = "result"
    BY <1>6, <1>4 DEF Reply
  <1>8. Inside(c) = {r}
    BY <1>5, <1>3 DEF Inside
  <1>9. /\ r \in executed /\ r \in asked /\ Sender[r] = c /\ answer[r] = <<>>
        /\ r \notin Ahead(c) /\ r \notin Behind(c) /\ r \notin Named(unsent[c]) /\ r \notin Named(from[c])
    <2>1. r \in executed /\ r \in asked /\ Sender[r] = c /\ answer[r] = <<>>
      BY <1>6, <1>8 DEF QueueInv, OpenInv, RunInv
    <2>2. r \notin Ahead(c) /\ r \notin Behind(c)
      BY <1>6, <1>8, <2>1 DEF QueueInv, RunInv, PlaceInv
    <2> QED BY <2>1, <2>2 DEF Behind
  <1> DEFINE t == Append(unsent[c], x)
  <1>10. /\ t \in Seq(Reply) /\ Named(t) = Named(unsent[c]) \union ({r} \ {NoRequest})
        /\ OnceNamed(t) /\ Truthful(t, executed)
    <2>1. x.req # NoRequest => x.req \notin Named(unsent[c]) /\ (x.ans = "result" <=> x.req \in executed)
      BY <1>7, <1>9
    <2> QED BY <1>6, <1>7, <2>1, ReplySent
  <1>11. unsent' = [unsent EXCEPT ![c] = t]
    BY <1>5
  <1> HIDE DEF t
  <1>12. /\ unsent' \in [Clients -> Seq(Reply)] /\ unsent'[c] = t
        /\ \A d \in Clients : d # c => unsent'[d] = unsent[d]
    BY <1>2, <1>10, <1>11 DEF IInv, TypeInv
  <1>13. /\ running' \in [Clients -> Requests \union {NoRequest}] /\ running'[c] = NoRequest
         /\ \A d \in Clients : d # c => running'[d] = running[d]
    BY <1>5, <1>2 DEF IInv, TypeInv
  <1>14. TypeInv' /\ AskedInv'
    BY <1>5, <1>12, <1>13 DEF IInv, TypeInv, AskedInv, pathVars, linkVars, bridgeVars
  <1>15. QueueInv(c)'
    <2>1. /\ Ahead(c)' = Ahead(c) /\ Inside(c)' = {} /\ Behind(c)' \subseteq Behind(c) \union {r}
          /\ Named(unsent'[c]) \subseteq Named(unsent[c]) \union {r}
      BY <1>5, <1>10, <1>12, <1>13 DEF Ahead, Inside, Behind, linkVars, bridgeVars
    <2>2. OpenInv(c)'
      BY <1>5, <1>6, <1>9, <2>1 DEF QueueInv, OpenInv, bridgeVars
    <2>3. RunInv(c)'
      BY <1>5, <1>6, <1>10, <1>12, <2>1 DEF QueueInv, RunInv, linkVars
    <2>4. PlaceInv(c)'
      <3>1. /\ UNCHANGED <<stdin, to, input, from, pending>>
            /\ OnceNamed(unsent'[c]) /\ Named(unsent'[c]) \subseteq Named(unsent[c]) \union {r}
        BY <1>5, <1>10, <1>12, <2>1 DEF linkVars, bridgeVars
      <3>2. PlaceInv(c)
        BY <1>6 DEF QueueInv
      <3>3. Named(unsent'[c]) \intersect Named(from[c]) = {}
        BY <1>9, <3>1, <3>2 DEF PlaceInv
      <3>4. (Ahead(c)' \union Inside(c)') \intersect Behind(c)' = {}
        BY <1>9, <2>1, <3>2 DEF PlaceInv
      <3> QED BY <3>1, <3>2, <3>3, <3>4 DEF PlaceInv
    <2> QED BY <2>2, <2>3, <2>4 DEF QueueInv
  <1>16. ASSUME NEW d \in Clients, d # c PROVE QueueInv(d)'
    <2>1. Untouched(d)
      BY <1>5, <1>12, <1>13, <1>16 DEF Untouched, linkVars, bridgeVars
    <2> QED BY <1>5, <1>16, <2>1, OthersKeep DEF IInv, bridgeVars
  <1> QED BY <1>14, <1>15, <1>16

LEMMA ReadDoneKeeps ==
    ASSUME IInv, NEW p \in Instances, ReadDone(p), UNCHANGED bridgeVars
    PROVE  TypeInv' /\ AskedInv' /\ \A d \in Clients : QueueInv(d)'
  <1>1. /\ readers[p] # <<>> /\ readers' = [readers EXCEPT ![p] = Front(@)]
        /\ UNCHANGED <<pathVars, linkVars, input, unsent, closing, running, executed, bridgeVars>>
    BY DEF ReadDone, Leave
  <1>2. Front(readers[p]) \in Seq(Clients)
    BY <1>1, InHand DEF IInv
  <1>3. TypeInv' /\ AskedInv'
    BY <1>1, <1>2 DEF IInv, TypeInv, AskedInv, pathVars, linkVars, bridgeVars
  <1>4. ASSUME NEW d \in Clients PROVE QueueInv(d)'
    <2>1. UNCHANGED <<asked, executed, answer, stdin, to, input, unsent, from, pending, running>>
      BY <1>1 DEF linkVars, bridgeVars
    <2> QED BY <2>1, DroppedKeeps DEF IInv
  <1> QED BY <1>3, <1>4

-----------------------------------------------------------------------------
(* Connections                                                             *)

LEMMA ClientLinksKeep ==
    ASSUME IInv, TypeInv', NEW c \in Clients, BridgeStep(c) \/ ClientStep(c), NEW d \in Clients
    PROVE  LinkInv(d)' /\ ReaderInv(d)'
  <1>1. LinkInv(d) /\ ReaderInv(d) /\ LinkInv(c) /\ ReaderInv(c)
    BY DEF IInv
  <1>2. UNCHANGED <<readers, running, unsent, input>>
    BY DEF BridgeStep, ClientStep, Ask, AnswerLocally, Forward, AnswerAbsent, ReadBackend,
           BackendDisconnected, ConnectDirectly, SendDirectly, ClientLeaves, serverVars
  <1>3. CASE UNCHANGED <<home, to, linked, left>>
    BY <1>1, <1>2, <1>3 DEF LinkInv, ReaderInv
  <1>4. CASE /\ linked[c] /\ UNCHANGED <<home, linked, left>>
             /\ to' \in {to, [to EXCEPT ![c] = to'[c]]} /\ (home[c] = Nobody => UNCHANGED to)
    <2>1. d # c => to'[d] = to[d]
      BY <1>4 DEF IInv, TypeInv
    <2> QED BY <1>1, <1>2, <1>4, <2>1 DEF LinkInv, ReaderInv
  <1>5. CASE /\ ~linked[c] /\ c \notin left /\ path \in Instances
             /\ home' = [home EXCEPT ![c] = path] /\ linked' = [linked EXCEPT ![c] = TRUE]
             /\ to' \in {to, [to EXCEPT ![c] = to'[c]]} /\ UNCHANGED left
    <2>1. home[c] = Nobody /\ running[c] = NoRequest /\ \A p \in Instances : c \notin ToSet(readers[p])
      BY <1>1, <1>5, McpAssumption DEF LinkInv, ReaderInv
    <2>2. /\ home'[c] = path /\ path # Nobody /\ linked'[c]
          /\ d # c => home'[d] = home[d] /\ to'[d] = to[d] /\ linked'[d] = linked[d]
      BY <1>5, McpAssumption DEF IInv, TypeInv
    <2> QED BY <1>1, <1>2, <1>5, <2>1, <2>2 DEF LinkInv, ReaderInv
  <1>6. CASE /\ linked' = [linked EXCEPT ![c] = FALSE] /\ UNCHANGED <<home, to>>
             /\ (home[c] = Nobody /\ UNCHANGED left) \/ left' = left \union {c}
    <2>1. ~linked'[c] /\ (d # c => linked'[d] = linked[d])
      BY <1>6 DEF IInv, TypeInv
    <2> QED BY <1>1, <1>2, <1>6, <2>1 DEF LinkInv, ReaderInv
  <1>7. CASE BridgeStep(c)
    <2>1. CASE AnswerLocally(c) \/ AnswerAbsent(c) \/ ReadBackend(c)
      BY <1>3, <2>1 DEF AnswerLocally, AnswerAbsent, ReadBackend, linkVars
    <2>2. CASE Forward(c)
      <3>1. /\ to' = IF home'[c] = Nobody THEN to ELSE [to EXCEPT ![c] = Append(@, Head(stdin[c]))]
            /\ c \notin left /\ UNCHANGED left
        BY <2>2 DEF Forward, NextLine
      <3>2. to' \in {to, [to EXCEPT ![c] = to'[c]]}
        BY <3>1 DEF IInv, TypeInv
      <3>3. CASE linked[c] /\ UNCHANGED <<home, linked>>
        BY <1>4, <3>1, <3>2, <3>3
      <3>4. CASE ~linked[c] /\ Reachable /\ Connected(c)
        <4>1. path \in Instances
          BY <3>4 DEF Reachable, IInv, TypeInv
        <4> QED BY <1>5, <3>1, <3>2, <3>4, <4>1 DEF Connected
      <3> QED BY <2>2, <3>3, <3>4 DEF Forward
    <2>3. CASE BackendDisconnected(c)
      BY <1>6, <2>3 DEF BackendDisconnected, linkVars
    <2> QED BY <1>7, <2>1, <2>2, <2>3 DEF BridgeStep
  <1>8. CASE ClientStep(c)
    <2>1. CASE \E r \in Requests : Ask(c, r)
      BY <1>3, <2>1 DEF Ask, linkVars
    <2>2. ASSUME NEW r \in Requests, SendDirectly(c, r) PROVE LinkInv(d)' /\ ReaderInv(d)'
      <3>1. /\ linked[c] /\ UNCHANGED <<home, linked, left>>
            /\ to' = IF home[c] = Nobody THEN to ELSE [to EXCEPT ![c] = Append(@, r)]
        BY <2>2 DEF SendDirectly
      <3>2. to' \in {to, [to EXCEPT ![c] = to'[c]]}
        BY <3>1 DEF IInv, TypeInv
      <3> QED BY <1>4, <3>1, <3>2
    <2>3. CASE ConnectDirectly(c)
      <3>1. path \in Instances
        BY <2>3 DEF ConnectDirectly, Reachable, IInv, TypeInv
      <3> QED BY <1>5, <2>3, <3>1 DEF ConnectDirectly, Connected
    <2>4. CASE ClientLeaves(c)
      BY <1>6, <2>4 DEF ClientLeaves, linkVars
    <2> QED BY <1>8, <2>1, <2>2, <2>3, <2>4 DEF ClientStep
  <1> QED BY <1>7, <1>8

LEMMA EndLinksKeep ==
    ASSUME IInv, TypeInv', NEW p \in Instances, NEW d \in Clients,
           \/ \E c \in Clients : PeerGone(p, c)
           \/ \E c \in Clients : CloseRejected(p, c) /\ UNCHANGED bridgeVars
           \/ InstanceStep(p) /\ UNCHANGED bridgeVars
    PROVE  LinkInv(d)' /\ ReaderInv(d)'
  <1>1. LinkInv(d) /\ ReaderInv(d) /\ UNCHANGED <<linked, left>>
    BY DEF IInv, PeerGone, bridgeVars
  <1>2. ASSUME NEW c \in Clients,
               home[c] = p, c \notin ToSet(readers[p]), UNCHANGED <<readers, running>>,
               home' = [home EXCEPT ![c] = Nobody], to'[c] = <<>>, unsent'[c] = <<>>,
               c \in left \/ input'[c] = <<>>,
               \A e \in Clients : e # c => to'[e] = to[e] /\ unsent'[e] = unsent[e] /\ input'[e] = input[e]
        PROVE  LinkInv(d)' /\ ReaderInv(d)'
    <2>1. /\ home'[c] = Nobody /\ running[c] = NoRequest /\ \A q \in Instances : c \notin ToSet(readers[q])
          /\ d # c => home'[d] = home[d]
      BY <1>2 DEF ReaderInv, IInv, TypeInv
    <2> QED BY <1>1, <1>2, <2>1 DEF LinkInv, ReaderInv
  <1>3. ASSUME NEW c \in Clients, PeerGone(p, c) PROVE LinkInv(d)' /\ ReaderInv(d)'
    <2>1. /\ home[c] = p /\ c \notin ToSet(readers[p]) /\ UNCHANGED <<readers, running>>
          /\ home' = [home EXCEPT ![c] = Nobody] /\ c \in left
      BY <1>3 DEF PeerGone
    <2>2. /\ to'[c] = <<>> /\ unsent'[c] = <<>>
          /\ \A e \in Clients : e # c => to'[e] = to[e] /\ unsent'[e] = unsent[e] /\ input'[e] = input[e]
      BY <1>3 DEF PeerGone, IInv, TypeInv
    <2> QED BY <1>2, <2>1, <2>2
  <1>4. ASSUME NEW c \in Clients, CloseRejected(p, c) PROVE LinkInv(d)' /\ ReaderInv(d)'
    <2>1. /\ home[c] = p /\ c \notin ToSet(readers[p]) /\ UNCHANGED <<readers, running>>
          /\ home' = [home EXCEPT ![c] = Nobody]
      BY <1>4 DEF CloseRejected
    <2>2. /\ to'[c] = <<>> /\ unsent'[c] = <<>> /\ input'[c] = <<>>
          /\ \A e \in Clients : e # c => to'[e] = to[e] /\ unsent'[e] = unsent[e] /\ input'[e] = input[e]
      BY <1>4 DEF CloseRejected, IInv, TypeInv
    <2> QED BY <1>2, <2>1, <2>2
  <1>5. CASE ConnectionsEnd(p)
    <2>1. readers'[p] = <<>> /\ \A q \in Instances : q # p => readers'[q] = readers[q]
      BY <1>5 DEF ConnectionsEnd, IInv, TypeInv
    <2>2. CASE home[d] = p
      <3>1. /\ home'[d] = Nobody /\ to'[d] = <<>> /\ input'[d] = <<>> /\ unsent'[d] = <<>>
            /\ running'[d] = NoRequest
        BY <1>5, <2>2 DEF ConnectionsEnd
      <3>2. \A q \in Instances : d \notin ToSet(readers'[q])
        BY <1>1, <2>1, <2>2, Nothing DEF ReaderInv
      <3> QED BY <1>1, <3>1, <3>2 DEF LinkInv, ReaderInv
    <2>3. CASE home[d] # p
      <3>1. /\ home'[d] = home[d] /\ to'[d] = to[d] /\ input'[d] = input[d] /\ unsent'[d] = unsent[d]
            /\ running'[d] = running[d]
        BY <1>5, <2>3 DEF ConnectionsEnd
      <3>2. \A q \in Instances : d \in ToSet(readers'[q]) => d \in ToSet(readers[q])
        BY <2>1, Nothing
      <3> QED BY <1>1, <2>1, <2>3, <3>1, <3>2 DEF LinkInv, ReaderInv
    <2> QED BY <2>2, <2>3
  <1>6. CASE Probe(p) \/ RemoveStale(p) \/ Bind(p)
    BY <1>1, <1>6 DEF Probe, RemoveStale, Bind, linkVars, serverVars, LinkInv, ReaderInv
  <1> QED BY <1>3, <1>4, <1>5, <1>6 DEF InstanceStep, Quit, Crash

LEMMA ServerLinksKeep ==
    ASSUME IInv, TypeInv', NEW p \in Instances, NEW d \in Clients, UNCHANGED bridgeVars,
           \/ HandleMessage(p) \/ ToolReturns(p) \/ ReadDone(p)
           \/ \E c \in Clients : ReadMessages(p, c) \/ WriteReplies(p, c)
    PROVE  LinkInv(d)' /\ ReaderInv(d)'
  <1>1. LinkInv(d) /\ ReaderInv(d) /\ UNCHANGED <<linked, left>> /\ p # Nobody
    BY McpAssumption DEF IInv, bridgeVars
  <1>2. ASSUME NEW c \in Clients, ReadMessages(p, c) PROVE LinkInv(d)' /\ ReaderInv(d)'
    <2>1. /\ home[c] = p /\ UNCHANGED <<home, running>>
          /\ readers' \in {readers, [readers EXCEPT ![p] = Append(@, c)]}
      BY <1>2 DEF ReadMessages, IInv, TypeInv
    <2>2. d # c => to'[d] = to[d] /\ input'[d] = input[d] /\ unsent'[d] = unsent[d]
      <3>1. PICK n \in 1 .. Len(to[c]) :
               /\ to' = [to EXCEPT ![c] = SubSeq(@, n + 1, Len(@))]
               /\ \/ Reject(c) /\ UNCHANGED input
                  \/ input' = [input EXCEPT ![c] = SubSeq(to[c], 1, n)] /\ UNCHANGED unsent
        BY <1>2 DEF ReadMessages
      <3>2. to \in [Clients -> Seq(Requests)] /\ input \in [Clients -> Seq(Requests)]
            /\ unsent \in [Clients -> Seq(Reply)]
        BY DEF IInv, TypeInv
      <3>3. d # c => to'[d] = to[d]
        BY <3>1, <3>2
      <3>4. d # c => input'[d] = input[d] /\ unsent'[d] = unsent[d]
        BY <3>1, <3>2 DEF Reject
      <3> QED BY <3>3, <3>4
    <2>3. \A q \in Instances :
            /\ ToSet(readers[q]) \subseteq ToSet(readers'[q])
            /\ ToSet(readers'[q]) \subseteq ToSet(readers[q]) \union (IF q = p THEN {c} ELSE {})
      <3>1. readers[p] \in Seq(Clients)
        BY DEF IInv, TypeInv
      <3>2. ToSet(Append(readers[p], c)) = ToSet(readers[p]) \union {c}
        BY <3>1, Appended
      <3> QED BY <2>1, <3>2 DEF IInv, TypeInv
    <2>4. LinkInv(d)'
      BY <1>1, <2>1, <2>2 DEF LinkInv
    <2>5. ReaderInv(d)'
      BY <1>1, <2>1, <2>3 DEF ReaderInv
    <2> QED BY <2>4, <2>5
  <1>3. ASSUME NEW c \in Clients, WriteReplies(p, c) PROVE LinkInv(d)' /\ ReaderInv(d)'
    <2>1. /\ home[c] = p /\ UNCHANGED <<home, to, input, readers, running>>
          /\ d # c => unsent'[d] = unsent[d]
      BY <1>3 DEF WriteReplies, IInv, TypeInv
    <2> QED BY <1>1, <2>1 DEF LinkInv, ReaderInv
  <1>4. CASE HandleMessage(p) \/ ToolReturns(p) \/ ReadDone(p)
    <2>1. readers[p] # <<>>
      BY <1>4 DEF HandleMessage, ToolReturns, ReadDone
    <2>2. /\ Innermost(p) \in Clients /\ Innermost(p) \in ToSet(readers[p])
          /\ ToSet(Front(readers[p])) \subseteq ToSet(readers[p])
          /\ \A e \in ToSet(readers[p]) : e # Innermost(p) => e \in ToSet(Front(readers[p]))
      BY <2>1, InHand DEF IInv
    <2>3. PICK c \in Clients : c = Innermost(p)
      BY <2>2
    <2>4. home[c] = p
      BY <2>2, <2>3 DEF IInv, ReaderInv
    <2>5. /\ UNCHANGED <<home, to>> /\ readers' \in {readers, [readers EXCEPT ![p] = Front(@)]}
          /\ d # c => input'[d] = input[d] /\ unsent'[d] = unsent[d] /\ running'[d] = running[d]
          /\ running'[c] # NoRequest => UNCHANGED readers
      <3>1. CASE HandleMessage(p)
        <4>1. /\ running[c] = NoRequest /\ input' = [input EXCEPT ![c] = Tail(@)] /\ UNCHANGED linkVars
              /\ \/ Reject(c) /\ Leave(p) /\ UNCHANGED <<running, executed>>
                 \/ UNCHANGED <<unsent, closing, readers, running, executed>>
                 \/ \E a \in {"refused", "info"} :
                       Send(c, Head(input[c]), a) /\ UNCHANGED <<closing, readers, running, executed>>
                 \/ /\ running' = [running EXCEPT ![c] = Head(input[c])]
                    /\ UNCHANGED <<unsent, closing, readers>>
          BY <2>3, <3>1, HandledCases
        <4> QED BY <4>1 DEF Reject, Leave, Send, linkVars, IInv, TypeInv
      <3>2. CASE ToolReturns(p)
        BY <2>3, <3>2 DEF ToolReturns, Send, linkVars, IInv, TypeInv
      <3>3. CASE ReadDone(p)
        BY <2>3, <3>3 DEF ReadDone, Leave, linkVars, IInv, TypeInv
      <3> QED BY <1>4, <3>1, <3>2, <3>3
    <2>6. LinkInv(d)'
      BY <1>1, <2>4, <2>5 DEF LinkInv
    <2>7. \A q \in Instances : ToSet(readers'[q]) \subseteq ToSet(readers[q])
      BY <2>2, <2>5 DEF IInv, TypeInv
    <2>8. running'[d] # NoRequest => home[d] \in Instances /\ d \in ToSet(readers'[home[d]])
      <3>1. CASE d = c
        BY <2>2, <2>3, <2>4, <2>5, <3>1
      <3>2. CASE d # c
        <4>1. running'[d] # NoRequest => home[d] \in Instances /\ d \in ToSet(readers[home[d]])
          BY <1>1, <2>5, <3>2 DEF ReaderInv
        <4>2. \A q \in Instances : d \in ToSet(readers[q]) => d \in ToSet(readers'[q])
          BY <2>2, <2>3, <2>5, <3>2 DEF IInv, TypeInv
        <4> QED BY <4>1, <4>2
      <3> QED BY <3>1, <3>2
    <2>9. ReaderInv(d)'
      BY <1>1, <2>5, <2>7, <2>8 DEF ReaderInv
    <2> QED BY <2>6, <2>9
  <1> QED BY <1>2, <1>3, <1>4

-----------------------------------------------------------------------------
(* The invariant is inductive                                              *)

LEMMA InitIInv == McpInit => IInv
  <1> SUFFICES ASSUME McpInit PROVE IInv
    OBVIOUS
  <1>1. TypeInv
    <2>1. <<>> \in Seq(Requests) /\ <<>> \in Seq(Reply) /\ <<>> \in Seq(Clients)
          /\ <<>> \in Seq(RequestReply!Answers)
      OBVIOUS
    <2> QED BY <2>1 DEF McpInit, McpServerInit, TypeInv
  <1>2. AskedInv
    BY DEF McpInit, McpServerInit, AskedInv
  <1>3. ASSUME NEW c \in Clients PROVE QueueInv(c) /\ LinkInv(c) /\ ReaderInv(c)
    <2>1. /\ stdin[c] = <<>> /\ to[c] = <<>> /\ input[c] = <<>> /\ unsent[c] = <<>> /\ from[c] = <<>>
          /\ pending[c] = <<>> /\ running[c] = NoRequest /\ executed = {} /\ home[c] = Nobody
          /\ ~linked[c] /\ left = {} /\ \A p \in Instances : readers[p] = <<>>
      BY DEF McpInit, McpServerInit
    <2>2. Ahead(c) = {} /\ Inside(c) = {} /\ Behind(c) = {}
      BY <2>1, Nothing DEF Ahead, Inside, Behind
    <2>3. OpenInv(c) /\ RunInv(c)
      BY <2>1, <2>2, Nothing DEF OpenInv, RunInv
    <2>4. PlaceInv(c)
      BY <2>1, <2>2, Nothing DEF PlaceInv
    <2>5. LinkInv(c) /\ ReaderInv(c)
      BY <2>1, Nothing DEF LinkInv, ReaderInv
    <2> QED BY <2>3, <2>4, <2>5 DEF QueueInv
  <1> QED BY <1>1, <1>2, <1>3 DEF IInv

\* One line of input, answered by the bridge.
LEMMA AnswersAtOnce ==
    ASSUME NEW c \in Clients, AnswerLocally(c) \/ AnswerAbsent(c)
    PROVE  /\ stdin[c] # <<>> /\ stdin' = [stdin EXCEPT ![c] = Tail(@)]
           /\ \/ UNCHANGED answer
              \/ \E a \in RequestReply!Refusals :
                    answer' = [answer EXCEPT ![Head(stdin[c])] = Append(@, a)]
           /\ UNCHANGED <<pathVars, linkVars, serverVars, asked, linked, pending, left>>
  <1>1. CASE AnswerLocally(c)
    <2>1. \/ UNCHANGED answer
          \/ Answer(Head(stdin[c]), "refused")
          \/ Answer(Head(stdin[c]), "info")
      BY <1>1, Zenon DEF AnswerLocally
    <2> QED BY <1>1, <2>1 DEF AnswerLocally, NextLine, Answer, RequestReply!Refusals
  <1>2. CASE AnswerAbsent(c)
    BY <1>2 DEF AnswerAbsent, NextLine, Answer, RequestReply!Refusals
  <1> QED BY <1>1, <1>2

LEMMA StepQueues ==
    ASSUME IInv, McpNext PROVE TypeInv' /\ AskedInv' /\ \A d \in Clients : QueueInv(d)'
  <1>1. ASSUME NEW c \in Clients, AnswerLocally(c) \/ AnswerAbsent(c)
        PROVE  TypeInv' /\ AskedInv' /\ \A d \in Clients : QueueInv(d)'
    <2>1. PICK a \in RequestReply!Answers :
            answer' \in {answer, [answer EXCEPT ![Head(stdin[c])] = Append(@, a)]}
      BY <1>1, AnswersAtOnce DEF RequestReply!Answers, RequestReply!Refusals
    <2> QED BY <1>1, <2>1, AnswersAtOnce, AnsweredAtOnce
  <1>2. ASSUME NEW c \in Clients, BridgeStep(c) \/ ClientStep(c)
        PROVE  TypeInv' /\ AskedInv' /\ \A d \in Clients : QueueInv(d)'
    BY <1>1, <1>2, AskKeeps, SendDirectlyKeeps, ForwardKeeps, ReadBackendKeeps,
       LossKeeps, EndsKeep DEF BridgeStep, ClientStep
  <1>3. ASSUME NEW p \in Instances, ServeStep(p), UNCHANGED bridgeVars
        PROVE  TypeInv' /\ AskedInv' /\ \A d \in Clients : QueueInv(d)'
    BY <1>3, HandleMessageKeeps, ToolReturnsKeeps, ReadDoneKeeps, ReadMessagesKeeps,
       WriteRepliesKeeps, EndsKeep DEF ServeStep
  <1> QED BY <1>2, <1>3, EndsKeep DEF McpNext

LEMMA StepIInv == IInv /\ [McpNext]_vars => IInv'
  <1>1. ASSUME IInv, McpNext PROVE IInv'
    <2>1. TypeInv' /\ AskedInv' /\ \A d \in Clients : QueueInv(d)'
      BY <1>1, StepQueues
    <2>2. ASSUME NEW d \in Clients PROVE LinkInv(d)' /\ ReaderInv(d)'
      <3>1. CASE \E c \in Clients : BridgeStep(c) \/ ClientStep(c)
        BY <1>1, <2>1, <3>1, ClientLinksKeep
      <3>2. CASE \E p \in Instances : ServeStep(p) /\ UNCHANGED bridgeVars
        BY <1>1, <2>1, <3>2, ServerLinksKeep, EndLinksKeep DEF ServeStep
      <3>3. CASE \/ \E p \in Instances : InstanceStep(p) /\ UNCHANGED bridgeVars
                 \/ \E p \in Instances, c \in Clients : PeerGone(p, c)
        BY <1>1, <2>1, <3>3, EndLinksKeep
      <3> QED BY <1>1, <3>1, <3>2, <3>3 DEF McpNext
    <2> QED BY <2>1, <2>2 DEF IInv
  <1>2. ASSUME IInv, UNCHANGED vars PROVE IInv'
    BY <1>2 DEF vars, pathVars, linkVars, serverVars, bridgeVars, IInv, TypeInv, AskedInv,
                QueueInv, LinkInv, ReaderInv, OpenInv, RunInv, PlaceInv, Ahead, Inside, Behind
  <1> QED BY <1>1, <1>2

\* The invariant, for all instances of PulseView, clients and requests.
THEOREM McpInvariant == McpSpec => []IInv
  BY InitIInv, StepIInv, PTL DEF McpSpec

-----------------------------------------------------------------------------
(* The refinement                                                          *)

LEMMA OneReply ==
    ASSUME IInv, NEW r \in asked, answer[r] = <<>>, NEW a \in RequestReply!Answers,
           a \in RequestReply!Results => r \in executed,
           a \in RequestReply!Refusals => r \notin executed,
           answer' = [answer EXCEPT ![r] = Append(@, a)], UNCHANGED <<asked, executed>>
    PROVE  RequestReply!Next
  <1>1. r \in Requests /\ answer \in [Requests -> Seq(RequestReply!Answers)] /\ Append(<<>>, a) = <<a>>
    BY DEF IInv, TypeInv
  <1>2. answer' = [q \in Requests |-> IF q \in {r} THEN <<a>> ELSE answer[q]]
    BY <1>1
  <1>3. RequestReply!Reply({r}, a)
    BY <1>2 DEF RequestReply!Reply
  <1> QED BY <1>1, <1>3 DEF RequestReply!Next

LEMMA Simulates ==
    ASSUME IInv, [McpNext]_vars
    PROVE  [RequestReply!Next]_<<asked, executed, answer>>
  <1>1. CASE UNCHANGED <<asked, executed, answer>>
    BY <1>1
  <1>2. ASSUME NEW c \in Clients, NEW r \in Requests, Ask(c, r) \/ SendDirectly(c, r)
        PROVE  RequestReply!Next
    <2>1. r \notin asked /\ asked' = asked \union {r} /\ UNCHANGED <<executed, answer>>
      BY <1>2 DEF Ask, SendDirectly, serverVars
    <2> QED BY <2>1 DEF RequestReply!Next, RequestReply!Ask
  <1>3. ASSUME NEW c \in Clients, AnswerLocally(c) \/ AnswerAbsent(c)
        PROVE  [RequestReply!Next]_<<asked, executed, answer>>
    <2>1. /\ stdin[c] # <<>> /\ UNCHANGED <<asked, executed>>
          /\ \/ UNCHANGED answer
             \/ \E a \in RequestReply!Refusals :
                    answer' = [answer EXCEPT ![Head(stdin[c])] = Append(@, a)]
      BY <1>3, AnswersAtOnce DEF serverVars
    <2>2. PICK r : r = Head(stdin[c])
      OBVIOUS
    <2>3. QueueInv(c) /\ r \in Ahead(c)
      <3>1. QueueInv(c) /\ stdin[c] \in Seq(Requests) /\ Once(stdin[c])
        BY DEF IInv, TypeInv, QueueInv, PlaceInv
      <3>2. r \in ToSet(stdin[c])
        BY <2>1, <2>2, <3>1, HeadTaken
      <3> QED BY <3>1, <3>2 DEF Ahead
    <2>4. r \in asked /\ answer[r] = <<>> /\ r \notin executed
      BY <2>3 DEF QueueInv, OpenInv, RunInv
    <2>5. ASSUME NEW a \in RequestReply!Refusals, answer' = [answer EXCEPT ![r] = Append(@, a)]
          PROVE  RequestReply!Next
      <3>1. a \in RequestReply!Answers /\ a \notin RequestReply!Results
        BY DEF RequestReply!Answers, RequestReply!Refusals, RequestReply!Results
      <3> QED BY <2>1, <2>4, <2>5, <3>1, OneReply
    <2> QED BY <1>1, <2>1, <2>2, <2>5
  <1>4. ASSUME NEW c \in Clients, ReadBackend(c)
        PROVE  [RequestReply!Next]_<<asked, executed, answer>>
    <2>1. PICK reply : reply = Head(from[c])
      OBVIOUS
    <2>2. /\ QueueInv(c) /\ from[c] \in Seq(Reply) /\ from[c] # <<>>
          /\ OnceNamed(from[c]) /\ Truthful(from[c], executed) /\ UNCHANGED <<asked, executed>>
      BY <1>4 DEF IInv, TypeInv, QueueInv, PlaceInv, RunInv, ReadBackend, serverVars
    <2>3. /\ reply \in Reply
          /\ reply.req # NoRequest =>
                reply.req \in Named(from[c]) /\ (reply.ans = "result" <=> reply.req \in executed)
      BY <2>1, <2>2, ReplyRead
    <2>4. CASE reply.req = NoRequest
      BY <1>1, <1>4, <2>1, <2>2, <2>4 DEF ReadBackend
    <2>5. CASE reply.req # NoRequest
      <3>1. answer' = [answer EXCEPT ![reply.req] = Append(@, reply.ans)]
        BY <1>4, <2>1, <2>5 DEF ReadBackend, Answer
      <3>2. reply.req \in asked /\ answer[reply.req] = <<>>
        BY <2>2, <2>3, <2>5 DEF QueueInv, OpenInv, Behind
      <3>3. /\ reply.ans \in RequestReply!Answers
            /\ reply.ans \in RequestReply!Results => reply.ans = "result"
            /\ reply.ans \in RequestReply!Refusals => reply.ans # "result"
        BY <2>3 DEF Reply, RequestReply!Answers, RequestReply!Refusals, RequestReply!Results
      <3> QED BY <2>2, <2>3, <2>5, <3>1, <3>2, <3>3, OneReply
    <2> QED BY <2>4, <2>5
  <1>5. ASSUME NEW c \in Clients, BackendDisconnected(c)
        PROVE  [RequestReply!Next]_<<asked, executed, answer>>
    <2>1. /\ answer' = [r \in Requests |-> IF c \in Bridged /\ r \in ToSet(pending[c])
                                           THEN Append(answer[r], "gone") ELSE answer[r]]
          /\ UNCHANGED <<asked, executed>>
      BY <1>5 DEF BackendDisconnected, serverVars
    <2>2. CASE c \notin Bridged
      <3>1. answer' = [r \in Requests |-> answer[r]]
        BY <2>1, <2>2
      <3>2. UNCHANGED answer
        BY <3>1 DEF IInv, TypeInv
      <3> QED BY <1>1, <2>1, <3>2
    <2>3. CASE c \in Bridged
      <3>1. PICK rs : rs = ToSet(pending[c])
        OBVIOUS
      <3>2. \A r \in rs : r \in asked /\ answer[r] = <<>> /\ r \in Requests
        BY <3>1 DEF IInv, TypeInv, QueueInv, OpenInv
      <3>3. Append(<<>>, "gone") = <<"gone">>
        OBVIOUS
      <3>4. answer' = [r \in Requests |-> IF r \in rs THEN <<"gone">> ELSE answer[r]]
        BY <2>1, <2>3, <3>1, <3>2, <3>3
      <3>5. "gone" \in RequestReply!Answers /\ "gone" \notin RequestReply!Results
            /\ "gone" \notin RequestReply!Refusals
        BY DEF RequestReply!Answers, RequestReply!Unknown, RequestReply!Refusals, RequestReply!Results
      <3>6. RequestReply!Reply(rs, "gone")
        BY <2>1, <3>2, <3>4, <3>5 DEF RequestReply!Reply
      <3>7. rs \in SUBSET Requests
        BY <3>2
      <3> QED BY <3>5, <3>6, <3>7 DEF RequestReply!Next
    <2> QED BY <2>2, <2>3
  <1>6. ASSUME NEW p \in Instances, HandleMessage(p), UNCHANGED bridgeVars
        PROVE  [RequestReply!Next]_<<asked, executed, answer>>
    <2>1. UNCHANGED <<asked, answer>>
      BY <1>6 DEF bridgeVars
    <2>2. PICK c, r : c = Innermost(p) /\ r = Head(input[c])
      OBVIOUS
    <2>3. /\ readers[p] # <<>> /\ input[c] # <<>>
          /\ UNCHANGED executed \/ executed' = executed \union {r}
      BY <1>6, <2>2, HandledCases
    <2>4. c \in Clients
      BY <2>2, <2>3, InHand DEF IInv
    <2>5. QueueInv(c) /\ r \in Ahead(c)
      <3>1. QueueInv(c) /\ input[c] \in Seq(Requests) /\ Once(input[c])
        BY <2>4 DEF IInv, TypeInv, QueueInv, PlaceInv
      <3>2. r \in ToSet(input[c])
        BY <2>2, <2>3, <3>1, HeadTaken
      <3> QED BY <3>1, <3>2 DEF Ahead
    <2>6. r \in asked /\ answer[r] = <<>> /\ r \notin executed /\ r \in Requests
      BY <2>5 DEF QueueInv, OpenInv, RunInv, IInv, TypeInv
    <2>7. executed' = executed \union {r} => RequestReply!Next
      BY <2>1, <2>6 DEF RequestReply!Next, RequestReply!Execute
    <2> QED BY <1>1, <2>1, <2>3, <2>7
  <1>7. ASSUME NEW p \in Instances, UNCHANGED bridgeVars,
               \/ InstanceStep(p) \/ ToolReturns(p) \/ ReadDone(p)
               \/ \E c \in Clients : ReadMessages(p, c) \/ WriteReplies(p, c) \/ CloseRejected(p, c)
        PROVE  UNCHANGED <<asked, executed, answer>>
    BY <1>7 DEF InstanceStep, Probe, RemoveStale, Bind, Quit, Crash, ConnectionsEnd, ToolReturns,
                ReadDone, ReadMessages, WriteReplies, CloseRejected, serverVars, bridgeVars
  <1>8. ASSUME NEW c \in Clients,
               \/ Forward(c) \/ ConnectDirectly(c) \/ ClientLeaves(c)
               \/ \E p \in Instances : PeerGone(p, c)
        PROVE  UNCHANGED <<asked, executed, answer>>
    BY <1>8 DEF Forward, ConnectDirectly, ClientLeaves, PeerGone, serverVars, bridgeVars
  <1>9. CASE UNCHANGED vars
    BY <1>9 DEF vars, serverVars, bridgeVars
  <1>10. CASE \E c \in Clients : BridgeStep(c) \/ ClientStep(c)
    BY <1>1, <1>2, <1>3, <1>4, <1>5, <1>8, <1>10 DEF BridgeStep, ClientStep
  <1>11. CASE \E p \in Instances : (InstanceStep(p) \/ ServeStep(p)) /\ UNCHANGED bridgeVars
    BY <1>1, <1>6, <1>7, <1>11 DEF ServeStep
  <1>12. CASE \E p \in Instances, c \in Clients : PeerGone(p, c)
    BY <1>1, <1>8, <1>12
  <1> QED BY <1>9, <1>10, <1>11, <1>12 DEF McpNext

\* The bridge and the server implement RequestReply, however many instances of PulseView
\* start, quit and crash, and whoever connects and leaves: no request runs twice or is
\* answered twice, and after any answer its tool does not run any more.
THEOREM ImplementsRequestReply == McpSpec => RequestSpec
  <1>1. McpInit => RequestReply!Init
    BY DEF McpInit, McpServerInit, RequestReply!Init
  <1>2. IInv /\ [McpNext]_vars => [RequestReply!Next]_<<asked, executed, answer>>
    BY Simulates
  <1> QED BY <1>1, <1>2, McpInvariant, PTL DEF McpSpec, RequestSpec, RequestReply!Spec

-----------------------------------------------------------------------------
(* What a bridge waits for is what is in its connection.  Queues are       *)
(* compared by what they hold and by what comes before what.               *)

LEMMA HeadBefore ==
    ASSUME NEW S, NEW s \in Seq(S), s # <<>>
    PROVE  /\ \A r : r \in ToSet(s) <=> r = Head(s) \/ r \in ToSet(Tail(s))
           /\ \A r, q : Before(s, r, q) <=>
                            Before(Tail(s), r, q) \/ (r = Head(s) /\ q \in ToSet(Tail(s)))
  <1>1. Len(s) \in Nat /\ Len(s) >= 1 /\ Head(s) = s[1] /\ Tail(s) \in Seq(S)
    OBVIOUS
  <1>2. /\ Len(Tail(s)) = Len(s) - 1 /\ DOMAIN s = 1 .. Len(s) /\ DOMAIN Tail(s) = 1 .. Len(Tail(s))
        /\ \A i \in 1 .. Len(Tail(s)) : Tail(s)[i] = s[i + 1]
    BY <1>1
  <1> DEFINE t == Tail(s)
             first == Head(s)
  <1>3. /\ \A i \in DOMAIN t : i \in Nat /\ i >= 1 /\ i + 1 \in DOMAIN s /\ s[i + 1] = t[i]
        /\ \A i \in DOMAIN s : i \in Nat /\ (i = 1 \/ (i > 1 /\ i - 1 \in DOMAIN t /\ t[i - 1] = s[i]))
        /\ 1 \in DOMAIN s /\ s[1] = first
    BY <1>1, <1>2
  <1> HIDE DEF t, first
  <1>4. \A r : r \in ToSet(s) <=> r = first \/ r \in ToSet(t)
    BY <1>3 DEF ToSet
  <1>5. ASSUME NEW r, NEW q
        PROVE  Before(s, r, q) <=> Before(t, r, q) \/ (r = first /\ q \in ToSet(t))
    <2>1. ASSUME NEW i \in DOMAIN s, NEW j \in DOMAIN s, i < j, s[i] = r, s[j] = q
          PROVE  Before(t, r, q) \/ (r = first /\ q \in ToSet(t))
      <3>1. j - 1 \in DOMAIN t /\ t[j - 1] = q
        BY <1>3, <2>1
      <3>2. CASE i = 1
        BY <1>3, <2>1, <3>1, <3>2 DEF ToSet
      <3>3. CASE i # 1
        <4>1. i - 1 \in DOMAIN t /\ t[i - 1] = r /\ i - 1 < j - 1
          BY <1>3, <2>1, <3>3
        <4> QED BY <3>1, <4>1 DEF Before
      <3> QED BY <3>2, <3>3
    <2>2. ASSUME NEW i \in DOMAIN t, NEW j \in DOMAIN t, i < j, t[i] = r, t[j] = q
          PROVE  Before(s, r, q)
      <3>1. /\ i + 1 \in DOMAIN s /\ j + 1 \in DOMAIN s /\ i + 1 < j + 1
            /\ s[i + 1] = r /\ s[j + 1] = q
        BY <1>3, <2>2
      <3> QED BY <3>1 DEF Before
    <2>3. ASSUME r = first, NEW j \in DOMAIN t, t[j] = q
          PROVE  Before(s, r, q)
      <3>1. /\ 1 \in DOMAIN s /\ j + 1 \in DOMAIN s /\ 1 < j + 1
            /\ s[1] = r /\ s[j + 1] = q
        BY <1>3, <2>3
      <3> QED BY <3>1 DEF Before
    <2> QED BY <2>1, <2>2, <2>3 DEF Before, ToSet
  <1> QED BY <1>4, <1>5 DEF t, first

LEMMA JoinBefore ==
    ASSUME NEW S, NEW s \in Seq(S), NEW t \in Seq(S)
    PROVE  /\ s \o t \in Seq(S)
           /\ \A r : r \in ToSet(s \o t) <=> r \in ToSet(s) \/ r \in ToSet(t)
           /\ \A r, q : Before(s \o t, r, q) <=>
                  \/ Before(s, r, q) \/ Before(t, r, q)
                  \/ r \in ToSet(s) /\ q \in ToSet(t)
  <1> DEFINE u == s \o t
             n == Len(s)
  <1>1. /\ u \in Seq(S) /\ Len(u) = Len(s) + Len(t)
        /\ \A i \in 1 .. Len(s) + Len(t) : u[i] = IF i <= Len(s) THEN s[i] ELSE t[i - Len(s)]
    BY ConcatProperties
  <1> HIDE DEF u
  <1>2. /\ n \in Nat /\ Len(t) \in Nat
        /\ DOMAIN u = 1 .. Len(u) /\ DOMAIN s = 1 .. n /\ DOMAIN t = 1 .. Len(t)
    BY <1>1
  <1>3. \A i \in DOMAIN u : /\ i \in Nat
                            /\ \/ i <= n /\ i \in DOMAIN s /\ u[i] = s[i]
                               \/ i > n /\ i - n \in DOMAIN t /\ u[i] = t[i - n]
    BY <1>1, <1>2
  <1>4. \A i \in DOMAIN s : i \in DOMAIN u /\ u[i] = s[i] /\ i \in Nat /\ i <= n
    BY <1>1, <1>2
  <1>5. \A i \in DOMAIN t : i + n \in DOMAIN u /\ u[i + n] = t[i] /\ i \in Nat /\ i + n > n
    <2> TAKE i \in DOMAIN t
    <2>1. i \in Nat /\ i + n \in 1 .. n + Len(t) /\ ~(i + n <= n) /\ i + n - n = i
      BY <1>2
    <2> QED BY <1>1, <1>2, <2>1
  <1> HIDE DEF n
  <1>6. ASSUME NEW r PROVE r \in ToSet(u) <=> r \in ToSet(s) \/ r \in ToSet(t)
    BY <1>3, <1>4, <1>5 DEF ToSet
  <1>7. ASSUME NEW r, NEW q, Before(u, r, q)
        PROVE  Before(s, r, q) \/ Before(t, r, q) \/ (r \in ToSet(s) /\ q \in ToSet(t))
    <2>1. PICK i \in DOMAIN u, j \in DOMAIN u : i < j /\ u[i] = r /\ u[j] = q
      BY <1>7 DEF Before
    <2>2. CASE j \in DOMAIN s /\ u[j] = s[j] /\ j <= n
      <3>1. i \in DOMAIN s /\ u[i] = s[i]
        BY <1>2, <1>3, <2>1, <2>2
      <3> QED BY <2>1, <2>2, <3>1 DEF Before
    <2>3. CASE i > n /\ i - n \in DOMAIN t /\ u[i] = t[i - n]
      <3>1. j - n \in DOMAIN t /\ u[j] = t[j - n] /\ i - n < j - n
        BY <1>2, <1>3, <2>1, <2>3
      <3> QED BY <2>1, <2>3, <3>1 DEF Before
    <2>4. CASE i \in DOMAIN s /\ u[i] = s[i] /\ j - n \in DOMAIN t /\ u[j] = t[j - n]
      BY <2>1, <2>4 DEF ToSet
    <2> QED BY <1>3, <2>1, <2>2, <2>3, <2>4
  <1>8. ASSUME NEW r, NEW q, Before(s, r, q) PROVE Before(u, r, q)
    BY <1>4, <1>8 DEF Before
  <1>9. ASSUME NEW r, NEW q, Before(t, r, q) PROVE Before(u, r, q)
    <2>1. PICK i \in DOMAIN t, j \in DOMAIN t : i < j /\ t[i] = r /\ t[j] = q
      BY <1>9 DEF Before
    <2>2. i + n < j + n
      BY <1>2, <1>5, <2>1
    <2> QED BY <1>5, <2>1, <2>2 DEF Before
  <1>10. ASSUME NEW r, NEW q, r \in ToSet(s), q \in ToSet(t) PROVE Before(u, r, q)
    <2>1. PICK i \in DOMAIN s, j \in DOMAIN t : s[i] = r /\ t[j] = q
      BY <1>10 DEF ToSet
    <2>2. i < j + n
      BY <1>2, <1>4, <1>5, <2>1
    <2> QED BY <1>4, <1>5, <2>1, <2>2 DEF Before
  <1> QED BY <1>1, <1>6, <1>7, <1>8, <1>9, <1>10 DEF u

LEMMA Single ==
    ASSUME NEW x
    PROVE  (\A r : r \in ToSet(<<x>>) <=> r = x) /\ \A r, q : ~Before(<<x>>, r, q)
  <1>1. DOMAIN <<x>> = {1} /\ <<x>>[1] = x
    OBVIOUS
  <1> HIDE DEF ToSet
  <1>2. \A r : r \in ToSet(<<x>>) <=> r = x
    BY <1>1 DEF ToSet
  <1>3. \A r, q : ~Before(<<x>>, r, q)
    BY <1>1 DEF Before
  <1> QED BY <1>2, <1>3

LEMMA AppendBefore ==
    ASSUME NEW S, NEW s \in Seq(S), NEW x \in S
    PROVE  /\ \A r : r \in ToSet(Append(s, x)) <=> r \in ToSet(s) \/ r = x
           /\ \A r, q : Before(Append(s, x), r, q) <=> Before(s, r, q) \/ (r \in ToSet(s) /\ q = x)
  <1> DEFINE t == <<x>>
  <1>1. t \in Seq(S) /\ Append(s, x) = s \o t
    BY AppendIsConcat
  <1>2. /\ \A r : r \in ToSet(t) <=> r = x
        /\ \A r, q : ~Before(t, r, q)
    BY Single
  <1> HIDE DEF t
  <1>3. /\ \A r : r \in ToSet(s \o t) <=> r \in ToSet(s) \/ r \in ToSet(t)
        /\ \A r, q : Before(s \o t, r, q) <=>
               Before(s, r, q) \/ Before(t, r, q) \/ (r \in ToSet(s) /\ q \in ToSet(t))
    BY <1>1, JoinBefore
  <1>4. /\ \A r : r \in ToSet(s \o t) <=> r \in ToSet(s) \/ r = x
        /\ \A r, q : Before(s \o t, r, q) <=> Before(s, r, q) \/ (r \in ToSet(s) /\ q = x)
    BY <1>2, <1>3
  <1> QED BY <1>1, <1>4

LEMMA EmptyBefore == ToSet(<<>>) = {} /\ \A r, q : ~Before(<<>>, r, q)
  <1>1. DOMAIN <<>> = {}
    OBVIOUS
  <1> QED BY <1>1 DEF ToSet, Before

\* A queue of which a part has moved to the next one.
LEMMA PartBefore ==
    ASSUME NEW S, NEW s \in Seq(S), NEW n \in 1 .. Len(s)
    PROVE  LET a == SubSeq(s, 1, n)
               b == SubSeq(s, n + 1, Len(s))
           IN  /\ a \in Seq(S) /\ b \in Seq(S)
               /\ \A r : r \in ToSet(s) <=> r \in ToSet(a) \/ r \in ToSet(b)
               /\ \A r, q : Before(s, r, q) <=>
                      Before(a, r, q) \/ Before(b, r, q) \/ (r \in ToSet(a) /\ q \in ToSet(b))
  <1> DEFINE a == SubSeq(s, 1, n)
             b == SubSeq(s, n + 1, Len(s))
  <1>1. Len(s) \in Nat /\ n \in Nat /\ 1 <= n /\ n <= Len(s) /\ \A i \in 1 .. Len(s) : s[i] \in S
    OBVIOUS
  <1>2. a \in Seq(S) /\ b \in Seq(S)
    BY <1>1
  <1>3. s = a \o b
    <2>1. SubSeq(s, 1, Len(s)) = s
      OBVIOUS
    <2>2. 1 \in 1 .. Len(s) + 1 /\ n \in 1 - 1 .. Len(s) /\ Len(s) \in n .. Len(s)
      BY <1>1
    <2>3. SubSeq(s, 1, n) \o SubSeq(s, n + 1, Len(s)) = SubSeq(s, 1, Len(s))
      BY <2>2, ConcatAdjacentSubSeq
    <2> QED BY <2>1, <2>3
  <1> HIDE DEF a, b
  <1>4. /\ \A r : r \in ToSet(a \o b) <=> r \in ToSet(a) \/ r \in ToSet(b)
        /\ \A r, q : Before(a \o b, r, q) <=>
               Before(a, r, q) \/ Before(b, r, q) \/ (r \in ToSet(a) /\ q \in ToSet(b))
    BY <1>2, JoinBefore
  <1> QED BY <1>2, <1>3, <1>4 DEF a, b

LEMMA RequestedType ==
    ASSUME NEW q \in Seq(Reply)
    PROVE  /\ Requested(q) \in Seq(Requests \union {NoRequest}) /\ Len(Requested(q)) = Len(q)
           /\ \A i \in 1 .. Len(q) : Requested(q)[i] = q[i].req
  <1>1. Len(q) \in Nat /\ DOMAIN q = 1 .. Len(q) /\ \A i \in 1 .. Len(q) : q[i] \in Reply
    OBVIOUS
  <1>2. \A i \in 1 .. Len(q) : q[i].req \in Requests \union {NoRequest}
    BY <1>1 DEF Reply
  <1>3. Requested(q) = [i \in 1 .. Len(q) |-> q[i].req]
    BY <1>1 DEF Requested
  <1> DEFINE n == Len(q)
             names == [i \in 1 .. n |-> q[i].req]
  <1>4. names \in [1 .. n -> Requests \union {NoRequest}] /\ \A i \in 1 .. n : names[i] = q[i].req
    BY <1>2
  <1> HIDE DEF n, names
  <1>5. n \in Nat
    BY <1>1 DEF n
  <1>6. names \in Seq(Requests \union {NoRequest}) /\ Len(names) = n
    BY <1>4, <1>5
  <1> QED BY <1>3, <1>4, <1>6 DEF n, names

\* What replies name, when they are read, sent and written.
LEMMA RequestedHead ==
    ASSUME NEW q \in Seq(Reply), q # <<>>
    PROVE  /\ Requested(q) \in Seq(Requests \union {NoRequest}) /\ Requested(q) # <<>>
           /\ Head(Requested(q)) = Head(q).req /\ Tail(Requested(q)) = Requested(Tail(q))
  <1> DEFINE names == Requested(q)
             rest == Requested(Tail(q))
  <1>1. Len(q) \in Nat /\ Len(q) >= 1 /\ Head(q) = q[1] /\ Tail(q) \in Seq(Reply)
    OBVIOUS
  <1>2. Len(Tail(q)) = Len(q) - 1 /\ \A i \in 1 .. Len(Tail(q)) : Tail(q)[i] = q[i + 1]
    BY <1>1
  <1>3. /\ names \in Seq(Requests \union {NoRequest}) /\ Len(names) = Len(q)
        /\ \A i \in 1 .. Len(q) : names[i] = q[i].req
    BY RequestedType
  <1>4. /\ rest \in Seq(Requests \union {NoRequest}) /\ Len(rest) = Len(Tail(q))
        /\ \A i \in 1 .. Len(Tail(q)) : rest[i] = Tail(q)[i].req
    BY <1>1, RequestedType
  <1> HIDE DEF names, rest
  <1>5. names # <<>> /\ Head(names) = q[1].req
    BY <1>1, <1>3
  <1>6. /\ Tail(names) \in Seq(Requests \union {NoRequest}) /\ Len(Tail(names)) = Len(q) - 1
        /\ \A i \in 1 .. Len(q) - 1 : Tail(names)[i] = q[i + 1].req
    <2>1. /\ Tail(names) \in Seq(Requests \union {NoRequest}) /\ Len(Tail(names)) = Len(names) - 1
          /\ \A i \in 1 .. Len(Tail(names)) : Tail(names)[i] = names[i + 1]
      BY <1>3, <1>5, HeadTailProperties
    <2>2. \A i \in 1 .. Len(q) - 1 : i + 1 \in 1 .. Len(q)
      BY <1>1
    <2> QED BY <1>3, <2>1, <2>2
  <1>7. Tail(names) = rest
    <2>1. \A i \in 1 .. Len(Tail(names)) : Tail(names)[i] = rest[i]
      BY <1>2, <1>4, <1>6
    <2> QED BY <1>2, <1>4, <1>6, <2>1, SeqEqual
  <1> QED BY <1>1, <1>3, <1>5, <1>7 DEF names, rest

LEMMA RequestedAppended ==
    ASSUME NEW q \in Seq(Reply), NEW x \in Reply
    PROVE  Requested(Append(q, x)) = Append(Requested(q), x.req)
  <1> DEFINE R == Requests \union {NoRequest}
             names == Requested(q)
             longer == Requested(Append(q, x))
             name == x.req
  <1>1. /\ Append(q, x) \in Seq(Reply) /\ Len(Append(q, x)) = Len(q) + 1 /\ Len(q) \in Nat
        /\ \A i \in 1 .. Len(q) : Append(q, x)[i] = q[i]
        /\ Append(q, x)[Len(q) + 1] = x
    OBVIOUS
  <1>2. names \in Seq(R) /\ Len(names) = Len(q) /\ \A i \in 1 .. Len(q) : names[i] = q[i].req
    BY RequestedType
  <1>3. /\ longer \in Seq(R) /\ Len(longer) = Len(q) + 1
        /\ \A i \in 1 .. Len(q) : longer[i] = q[i].req
        /\ longer[Len(q) + 1] = name
    <2>1. /\ longer \in Seq(R) /\ Len(longer) = Len(Append(q, x))
          /\ \A i \in 1 .. Len(Append(q, x)) : longer[i] = Append(q, x)[i].req
      BY <1>1, RequestedType
    <2> HIDE DEF longer, R
    <2> QED BY <1>1, <2>1
  <1>4. name \in R
    BY DEF Reply
  <1> HIDE DEF names, longer, name, R
  <1>5. /\ Append(names, name) \in Seq(R) /\ Len(Append(names, name)) = Len(q) + 1
        /\ \A i \in 1 .. Len(q) : Append(names, name)[i] = q[i].req
        /\ Append(names, name)[Len(q) + 1] = name
    BY <1>2, <1>4, AppendProperties
  <1>6. \A i \in 1 .. Len(longer) : longer[i] = Append(names, name)[i]
    <2>1. \A i \in 1 .. Len(longer) : i \in 1 .. Len(q) \/ i = Len(q) + 1
      BY <1>1, <1>3
    <2> QED BY <1>3, <1>5, <2>1
  <1>7. longer = Append(names, name)
    BY <1>3, <1>5, <1>6, SeqEqual
  <1> QED BY <1>7 DEF names, longer, name

LEMMA RequestedJoined ==
    ASSUME NEW q \in Seq(Reply), NEW p \in Seq(Reply)
    PROVE  Requested(q \o p) = Requested(q) \o Requested(p)
  <1> DEFINE R == Requests \union {NoRequest}
             qs == Requested(q)
             ps == Requested(p)
             both == Requested(q \o p)
  <1>1. /\ q \o p \in Seq(Reply) /\ Len(q \o p) = Len(q) + Len(p)
        /\ \A i \in 1 .. Len(q) + Len(p) : (q \o p)[i] = IF i <= Len(q) THEN q[i] ELSE p[i - Len(q)]
        /\ Len(q) \in Nat /\ Len(p) \in Nat
    BY ConcatProperties
  <1>2. /\ qs \in Seq(R) /\ Len(qs) = Len(q) /\ \A i \in 1 .. Len(q) : qs[i] = q[i].req
        /\ ps \in Seq(R) /\ Len(ps) = Len(p) /\ \A i \in 1 .. Len(p) : ps[i] = p[i].req
    BY RequestedType
  <1>3. /\ both \in Seq(R) /\ Len(both) = Len(q) + Len(p)
        /\ \A i \in 1 .. Len(q) + Len(p) : both[i] = (q \o p)[i].req
    BY <1>1, RequestedType
  <1> HIDE DEF qs, ps, both, R
  <1>4. /\ qs \o ps \in Seq(R) /\ Len(qs \o ps) = Len(q) + Len(p)
        /\ \A i \in 1 .. Len(q) + Len(p) :
              (qs \o ps)[i] = IF i <= Len(q) THEN qs[i] ELSE ps[i - Len(q)]
    <2>1. /\ qs \o ps \in Seq(R) /\ Len(qs \o ps) = Len(qs) + Len(ps)
          /\ \A i \in 1 .. Len(qs) + Len(ps) :
                (qs \o ps)[i] = IF i <= Len(qs) THEN qs[i] ELSE ps[i - Len(qs)]
      <3>1. qs \in Seq(R) /\ ps \in Seq(R)
        BY <1>2
      <3> QED BY <3>1, ConcatProperties
    <2>2. Len(qs) = Len(q) /\ Len(ps) = Len(p)
      BY <1>2
    <2> QED BY <2>1, <2>2
  <1>5. ASSUME NEW i \in 1 .. Len(q) + Len(p) PROVE both[i] = (qs \o ps)[i]
    <2>1. CASE i <= Len(q)
      <3>1. i \in 1 .. Len(q)
        BY <1>1, <2>1
      <3> QED BY <1>1, <1>2, <1>3, <1>4, <2>1, <3>1
    <2>2. CASE ~ (i <= Len(q))
      <3>1. i - Len(q) \in 1 .. Len(p)
        BY <1>1, <2>2
      <3> QED BY <1>1, <1>2, <1>3, <1>4, <2>2, <3>1
    <2> QED BY <2>1, <2>2
  <1>6. both = qs \o ps
    BY <1>3, <1>4, <1>5, SeqEqual
  <1> QED BY <1>6 DEF qs, ps, both

-----------------------------------------------------------------------------
(* The order of a connection's queues, taken together.                     *)

\* r is in one of the queues, and r comes before q in them.
Holds(f, u, x, i, t, r) ==
    r \in ToSet(Requested(f)) \/ r \in ToSet(Requested(u)) \/ r = x \/ r \in ToSet(i) \/ r \in ToSet(t)

Precedes(f, u, x, i, t, r, q) ==
    \/ Before(Requested(f), r, q) \/ Before(Requested(u), r, q) \/ Before(i, r, q) \/ Before(t, r, q)
    \/ r \in ToSet(Requested(f)) /\ (q \in ToSet(Requested(u)) \/ q = x \/ q \in ToSet(i) \/ q \in ToSet(t))
    \/ r \in ToSet(Requested(u)) /\ (q = x \/ q \in ToSet(i) \/ q \in ToSet(t))
    \/ r = x /\ (q \in ToSet(i) \/ q \in ToSet(t))
    \/ r \in ToSet(i) /\ q \in ToSet(t)

Queues(f, u, x, i, t) ==
    /\ f \in Seq(Reply) /\ u \in Seq(Reply) /\ x \in Requests \union {NoRequest}
    /\ i \in Seq(Requests) /\ t \in Seq(Requests)

Joined(f, u, x, i, t) == Requested(f) \o Requested(u) \o <<x>> \o i \o t

LEMMA QueuesJoined ==
    ASSUME NEW f, NEW u, NEW x, NEW i, NEW t, Queues(f, u, x, i, t)
    PROVE  /\ \A r : r \in ToSet(Joined(f, u, x, i, t)) <=> Holds(f, u, x, i, t, r)
           /\ \A r, q : Before(Joined(f, u, x, i, t), r, q) <=> Precedes(f, u, x, i, t, r, q)
  <1> DEFINE R == Requests \union {NoRequest}
             F == Requested(f)
             U == Requested(u)
             X == <<x>>
             FU == F \o U
             FUX == FU \o X
             FUXI == FUX \o i
  <1>1. F \in Seq(R) /\ U \in Seq(R) /\ X \in Seq(R) /\ i \in Seq(R) /\ t \in Seq(R)
    <2>1. F \in Seq(R) /\ U \in Seq(R)
      BY RequestedType DEF Queues
    <2>2. x \in R /\ Requests \subseteq R /\ i \in Seq(Requests) /\ t \in Seq(Requests)
      BY DEF Queues
    <2> HIDE DEF R, F, U
    <2>3. X \in Seq(R)
      BY <2>2
    <2>4. i \in Seq(R) /\ t \in Seq(R)
      BY <2>2, SeqMonotonic
    <2> QED BY <2>1, <2>3, <2>4
  <1>2. /\ \A r : r \in ToSet(X) <=> r = x
        /\ \A r, q : ~Before(X, r, q)
    BY Single
  <1> HIDE DEF R, F, U, X
  <1>3. /\ FU \in Seq(R)
        /\ \A r : r \in ToSet(FU) <=> r \in ToSet(F) \/ r \in ToSet(U)
        /\ \A r, q : Before(FU, r, q) <=>
               Before(F, r, q) \/ Before(U, r, q) \/ (r \in ToSet(F) /\ q \in ToSet(U))
    BY <1>1, JoinBefore
  <1> HIDE DEF FU
  <1>4. /\ FUX \in Seq(R)
        /\ \A r : r \in ToSet(FUX) <=> r \in ToSet(FU) \/ r \in ToSet(X)
        /\ \A r, q : Before(FUX, r, q) <=>
               Before(FU, r, q) \/ Before(X, r, q) \/ (r \in ToSet(FU) /\ q \in ToSet(X))
    BY <1>1, <1>3, JoinBefore
  <1> HIDE DEF FUX
  <1>5. /\ FUXI \in Seq(R)
        /\ \A r : r \in ToSet(FUXI) <=> r \in ToSet(FUX) \/ r \in ToSet(i)
        /\ \A r, q : Before(FUXI, r, q) <=>
               Before(FUX, r, q) \/ Before(i, r, q) \/ (r \in ToSet(FUX) /\ q \in ToSet(i))
    BY <1>1, <1>4, JoinBefore
  <1> HIDE DEF FUXI
  <1>6. /\ \A r : r \in ToSet(FUXI \o t) <=> r \in ToSet(FUXI) \/ r \in ToSet(t)
        /\ \A r, q : Before(FUXI \o t, r, q) <=>
               Before(FUXI, r, q) \/ Before(t, r, q) \/ (r \in ToSet(FUXI) /\ q \in ToSet(t))
    BY <1>1, <1>5, JoinBefore
  <1>7. Joined(f, u, x, i, t) = FUXI \o t
    BY DEF Joined, FUXI, FUX, FU, F, U, X
  <1>8. \A r : Holds(f, u, x, i, t, r) <=>
               r \in ToSet(F) \/ r \in ToSet(U) \/ r = x \/ r \in ToSet(i) \/ r \in ToSet(t)
    BY DEF Holds, F, U
  <1>9. \A r, q : Precedes(f, u, x, i, t, r, q) <=>
               \/ Before(F, r, q) \/ Before(U, r, q) \/ Before(i, r, q) \/ Before(t, r, q)
               \/ r \in ToSet(F) /\ (q \in ToSet(U) \/ q = x \/ q \in ToSet(i) \/ q \in ToSet(t))
               \/ r \in ToSet(U) /\ (q = x \/ q \in ToSet(i) \/ q \in ToSet(t))
               \/ r = x /\ (q \in ToSet(i) \/ q \in ToSet(t))
               \/ r \in ToSet(i) /\ q \in ToSet(t)
    BY DEF Precedes, F, U
  <1>10. \A r : r \in ToSet(Joined(f, u, x, i, t)) <=> Holds(f, u, x, i, t, r)
    BY <1>2, <1>3, <1>4, <1>5, <1>6, <1>7, <1>8
  <1>11. ASSUME NEW r, NEW q
         PROVE  Before(Joined(f, u, x, i, t), r, q) <=> Precedes(f, u, x, i, t, r, q)
    <2>1. Precedes(f, u, x, i, t, r, q) <=>
               \/ Before(F, r, q) \/ Before(U, r, q) \/ Before(i, r, q) \/ Before(t, r, q)
               \/ r \in ToSet(F) /\ (q \in ToSet(U) \/ q = x \/ q \in ToSet(i) \/ q \in ToSet(t))
               \/ r \in ToSet(U) /\ (q = x \/ q \in ToSet(i) \/ q \in ToSet(t))
               \/ r = x /\ (q \in ToSet(i) \/ q \in ToSet(t))
               \/ r \in ToSet(i) /\ q \in ToSet(t)
      BY <1>9
    <2>2. Before(FUX, r, q) <=>
               \/ Before(F, r, q) \/ Before(U, r, q)
               \/ r \in ToSet(F) /\ (q \in ToSet(U) \/ q = x)
               \/ r \in ToSet(U) /\ q = x
      BY <1>2, <1>3, <1>4
    <2>3. r \in ToSet(FUX) <=> r \in ToSet(F) \/ r \in ToSet(U) \/ r = x
      BY <1>2, <1>3, <1>4
    <2> QED BY <1>5, <1>6, <1>7, <2>1, <2>2, <2>3
  <1> QED BY <1>10, <1>11

\* The same requests to be answered, each once, and in the same order.
SameOrder(s, t) ==
    /\ ToSet(s) \intersect Answerable = ToSet(t) \intersect Answerable
    /\ \A r, q \in Answerable : Before(s, r, q) <=> Before(t, r, q)
    /\ \A r \in Answerable : ~Before(s, r, r)

LEMMA StaysInOrder ==
    ASSUME NEW p, NEW s, NEW t, SameOrder(p, s),
           \A r \in Answerable : r \in ToSet(t) <=> r \in ToSet(s),
           \A r, q \in Answerable : Before(t, r, q) <=> Before(s, r, q)
    PROVE  SameOrder(p, t)
  BY DEF SameOrder

LEMMA LongerInOrder ==
    ASSUME NEW p \in Seq(Requests), NEW s, NEW t, NEW x \in Requests, SameOrder(p, s),
           x \notin ToSet(p), x \notin ToSet(s),
           \A r \in Answerable : r \in ToSet(t) <=> r \in ToSet(s) \/ r = x,
           \A r, q \in Answerable : Before(t, r, q) <=> Before(s, r, q) \/ (r \in ToSet(s) /\ q = x)
    PROVE  SameOrder(Append(p, x), t)
  <1> DEFINE longer == Append(p, x)
  <1>1. /\ \A r : r \in ToSet(longer) <=> r \in ToSet(p) \/ r = x
        /\ \A r, q : Before(longer, r, q) <=> Before(p, r, q) \/ (r \in ToSet(p) /\ q = x)
    BY AppendBefore
  <1> HIDE DEF longer
  <1>2. \A r \in Answerable : r \in ToSet(p) <=> r \in ToSet(s)
    BY DEF SameOrder
  <1>3. ToSet(longer) \intersect Answerable = ToSet(t) \intersect Answerable
    BY <1>1, <1>2
  <1>4. \A r, q \in Answerable : Before(longer, r, q) <=> Before(t, r, q)
    BY <1>1, <1>2 DEF SameOrder
  <1>5. \A r \in Answerable : ~Before(longer, r, r)
    BY <1>1 DEF SameOrder
  <1> QED BY <1>3, <1>4, <1>5 DEF SameOrder, longer

LEMMA ShorterInOrder ==
    ASSUME NEW p \in Seq(Requests), NEW s, NEW t, NEW x, SameOrder(p, s), Once(p),
           \A r \in Answerable : r \in ToSet(s) <=> r \in ToSet(t) \/ r = x,
           \A r, q \in Answerable : Before(s, r, q) <=> Before(t, r, q) \/ (r = x /\ q \in ToSet(t))
    PROVE  SameOrder(RemoveFirst(p, x), t)
  <1> DEFINE shorter == RemoveFirst(p, x)
  <1>1. /\ ToSet(shorter) = ToSet(p) \ {x}
        /\ \A r, q : r # x /\ q # x => (Before(shorter, r, q) <=> Before(p, r, q))
    BY Removed
  <1> HIDE DEF shorter
  <1>2. x \in Answerable => x \notin ToSet(t)
    BY DEF SameOrder
  <1>3. \A u, r, q : Before(u, r, q) => r \in ToSet(u) /\ q \in ToSet(u)
    BY DEF Before, ToSet
  <1>4. ToSet(shorter) \intersect Answerable = ToSet(t) \intersect Answerable
    BY <1>1, <1>2 DEF SameOrder
  <1>5. ASSUME NEW r \in Answerable, NEW q \in Answerable
        PROVE  Before(shorter, r, q) <=> Before(t, r, q)
    <2>1. CASE r # x /\ q # x
      BY <1>1, <2>1 DEF SameOrder
    <2>2. CASE r = x \/ q = x
      BY <1>1, <1>2, <1>3, <2>2
    <2> QED BY <2>1, <2>2
  <1>6. \A r \in Answerable : ~Before(shorter, r, r)
    BY <1>1, <1>3 DEF SameOrder
  <1> QED BY <1>4, <1>5, <1>6 DEF SameOrder, shorter

\* Replies u, and one more, which names h.
Added(u, y, h, v) == u \in Seq(Reply) /\ y \in Reply /\ y.req = h /\ v = Append(u, y)

LEMMA ReplyAdded ==
    ASSUME NEW u, NEW y, NEW h, NEW v, Added(u, y, h, v)
    PROVE  /\ v \in Seq(Reply)
           /\ \A r : r \in ToSet(Requested(v)) <=> r \in ToSet(Requested(u)) \/ r = h
           /\ \A r, q : Before(Requested(v), r, q) <=>
                  Before(Requested(u), r, q) \/ (r \in ToSet(Requested(u)) /\ q = h)
  <1>0. u \in Seq(Reply) /\ y \in Reply /\ y.req = h /\ v = Append(u, y)
    BY DEF Added
  <1> DEFINE R == Requests \union {NoRequest}
             names == Requested(u)
             longer == Requested(v)
  <1>1. names \in Seq(R) /\ longer = Append(names, h) /\ v \in Seq(Reply)
    BY <1>0, RequestedType, RequestedAppended, AppendProperties
  <1>2. h \in R
    BY <1>0 DEF Reply
  <1> HIDE DEF names, longer, R
  <1>3. /\ \A r : r \in ToSet(Append(names, h)) <=> r \in ToSet(names) \/ r = h
        /\ \A r, q : Before(Append(names, h), r, q) <=> Before(names, r, q) \/ (r \in ToSet(names) /\ q = h)
    BY <1>1, <1>2, AppendBefore
  <1>4. /\ \A r : r \in ToSet(longer) <=> r \in ToSet(names) \/ r = h
        /\ \A r, q : Before(longer, r, q) <=> Before(names, r, q) \/ (r \in ToSet(names) /\ q = h)
    BY <1>1, <1>3
  <1> QED BY <1>1, <1>4 DEF names, longer

\* read_messages() takes the front of what has arrived.
Taken(t, n, a, b) == n \in 1 .. Len(t) /\ a = SubSeq(t, 1, n) /\ b = SubSeq(t, n + 1, Len(t))

LEMMA ReadInOrder ==
    ASSUME NEW f, NEW u, NEW x, NEW i, NEW t, Queues(f, u, x, i, t), NEW p, SameOrder(p, Joined(f, u, x, i, t)),
           i = <<>>, NEW n, NEW a, NEW b, Taken(t, n, a, b)
    PROVE  SameOrder(p, Joined(f, u, x, a, b))
  <1>0. /\ a \in Seq(Requests) /\ b \in Seq(Requests)
        /\ \A r : r \in ToSet(t) <=> r \in ToSet(a) \/ r \in ToSet(b)
        /\ \A r, q : Before(t, r, q) <=>
               Before(a, r, q) \/ Before(b, r, q) \/ (r \in ToSet(a) /\ q \in ToSet(b))
    BY PartBefore DEF Queues, Taken
  <1>1. Queues(f, u, x, a, b)
    BY <1>0 DEF Queues
  <1>2. /\ \A r : r \notin ToSet(i)
        /\ \A r, q : ~Before(i, r, q)
        /\ \A r : r \in ToSet(t) <=> r \in ToSet(a) \/ r \in ToSet(b)
        /\ \A r, q : Before(t, r, q) <=>
               Before(a, r, q) \/ Before(b, r, q) \/ (r \in ToSet(a) /\ q \in ToSet(b))
    BY <1>0, EmptyBefore
  <1>3. \A r \in Answerable : Holds(f, u, x, a, b, r) <=> Holds(f, u, x, i, t, r)
    BY <1>2 DEF Holds
  <1>4. \A r, q \in Answerable : Precedes(f, u, x, a, b, r, q) <=> Precedes(f, u, x, i, t, r, q)
    BY <1>2 DEF Precedes
  <1>5. /\ \A r : r \in ToSet(Joined(f, u, x, a, b)) <=> Holds(f, u, x, a, b, r)
        /\ \A r, q : Before(Joined(f, u, x, a, b), r, q) <=> Precedes(f, u, x, a, b, r, q)
    BY <1>1, QueuesJoined
  <1>6. /\ \A r : r \in ToSet(Joined(f, u, x, i, t)) <=> Holds(f, u, x, i, t, r)
        /\ \A r, q : Before(Joined(f, u, x, i, t), r, q) <=> Precedes(f, u, x, i, t, r, q)
    BY QueuesJoined
  <1> QED BY <1>3, <1>4, <1>5, <1>6, StaysInOrder

\* A notification is dropped.
LEMMA DroppedInOrder ==
    ASSUME NEW f, NEW u, NEW x, NEW i, NEW t, Queues(f, u, x, i, t), NEW p, SameOrder(p, Joined(f, u, x, i, t)),
           i # <<>>, NEW h, NEW j, h = Head(i), j = Tail(i), h \notin Answerable
    PROVE  SameOrder(p, Joined(f, u, x, j, t))
  <1>0. /\ h \in Requests /\ j \in Seq(Requests)
        /\ \A r : r \in ToSet(i) <=> r = h \/ r \in ToSet(j)
        /\ \A r, q : Before(i, r, q) <=> Before(j, r, q) \/ (r = h /\ q \in ToSet(j))
    BY HeadBefore, HeadTailProperties DEF Queues
  <1>1. Queues(f, u, x, j, t)
    BY <1>0 DEF Queues
  <1>2. /\ \A r \in Answerable : r # h
        /\ \A r : r \in ToSet(i) <=> r = h \/ r \in ToSet(j)
        /\ \A r, q : Before(i, r, q) <=> Before(j, r, q) \/ (r = h /\ q \in ToSet(j))
    BY <1>0
  <1>3. \A r \in Answerable : Holds(f, u, x, j, t, r) <=> Holds(f, u, x, i, t, r)
    BY <1>2 DEF Holds
  <1>4. \A r, q \in Answerable : Precedes(f, u, x, j, t, r, q) <=> Precedes(f, u, x, i, t, r, q)
    BY <1>2 DEF Precedes
  <1>5. /\ \A r : r \in ToSet(Joined(f, u, x, j, t)) <=> Holds(f, u, x, j, t, r)
        /\ \A r, q : Before(Joined(f, u, x, j, t), r, q) <=> Precedes(f, u, x, j, t, r, q)
    BY <1>1, QueuesJoined
  <1>6. /\ \A r : r \in ToSet(Joined(f, u, x, i, t)) <=> Holds(f, u, x, i, t, r)
        /\ \A r, q : Before(Joined(f, u, x, i, t), r, q) <=> Precedes(f, u, x, i, t, r, q)
    BY QueuesJoined
  <1> QED BY <1>3, <1>4, <1>5, <1>6, StaysInOrder

\* A tool is run.
LEMMA RunInOrder ==
    ASSUME NEW f, NEW u, NEW x, NEW i, NEW t, Queues(f, u, x, i, t), NEW p, SameOrder(p, Joined(f, u, x, i, t)),
           x = NoRequest, i # <<>>, NEW h, NEW j, h = Head(i), j = Tail(i)
    PROVE  SameOrder(p, Joined(f, u, h, j, t))
  <1>0. /\ h \in Requests /\ j \in Seq(Requests)
        /\ \A r : r \in ToSet(i) <=> r = h \/ r \in ToSet(j)
        /\ \A r, q : Before(i, r, q) <=> Before(j, r, q) \/ (r = h /\ q \in ToSet(j))
    BY HeadBefore, HeadTailProperties DEF Queues
  <1>1. Queues(f, u, h, j, t)
    BY <1>0 DEF Queues
  <1>2. /\ \A r \in Answerable : r # x
        /\ \A r : r \in ToSet(i) <=> r = h \/ r \in ToSet(j)
        /\ \A r, q : Before(i, r, q) <=> Before(j, r, q) \/ (r = h /\ q \in ToSet(j))
    BY <1>0, McpAssumption DEF Answerable
  <1>3. \A r \in Answerable : Holds(f, u, h, j, t, r) <=> Holds(f, u, x, i, t, r)
    BY <1>2 DEF Holds
  <1>4. \A r, q \in Answerable : Precedes(f, u, h, j, t, r, q) <=> Precedes(f, u, x, i, t, r, q)
    BY <1>2 DEF Precedes
  <1>5. /\ \A r : r \in ToSet(Joined(f, u, h, j, t)) <=> Holds(f, u, h, j, t, r)
        /\ \A r, q : Before(Joined(f, u, h, j, t), r, q) <=> Precedes(f, u, h, j, t, r, q)
    BY <1>1, QueuesJoined
  <1>6. /\ \A r : r \in ToSet(Joined(f, u, x, i, t)) <=> Holds(f, u, x, i, t, r)
        /\ \A r, q : Before(Joined(f, u, x, i, t), r, q) <=> Precedes(f, u, x, i, t, r, q)
    BY QueuesJoined
  <1> QED BY <1>3, <1>4, <1>5, <1>6, StaysInOrder

\* A message is answered without a tool.
Answered(u, i, h, j, y, v) == i # <<>> /\ h = Head(i) /\ j = Tail(i) /\ Added(u, y, h, v)

LEMMA AnsweredInOrder ==
    ASSUME NEW f, NEW u, NEW x, NEW i, NEW t, Queues(f, u, x, i, t), NEW p, SameOrder(p, Joined(f, u, x, i, t)),
           x = NoRequest, NEW h, NEW j, NEW y, NEW v, Answered(u, i, h, j, y, v)
    PROVE  SameOrder(p, Joined(f, v, x, j, t))
  <1>8. i # <<>> /\ h = Head(i) /\ j = Tail(i) /\ Added(u, y, h, v)
    BY DEF Answered
  <1>0. /\ h \in Requests /\ j \in Seq(Requests)
        /\ \A r : r \in ToSet(i) <=> r = h \/ r \in ToSet(j)
        /\ \A r, q : Before(i, r, q) <=> Before(j, r, q) \/ (r = h /\ q \in ToSet(j))
    BY <1>8, HeadBefore, HeadTailProperties DEF Queues
  <1>7. /\ v \in Seq(Reply)
        /\ \A r : r \in ToSet(Requested(v)) <=> r \in ToSet(Requested(u)) \/ r = h
        /\ \A r, q : Before(Requested(v), r, q) <=>
               Before(Requested(u), r, q) \/ (r \in ToSet(Requested(u)) /\ q = h)
    BY ONLY <1>8, ReplyAdded
  <1>1. Queues(f, v, x, j, t)
    BY <1>0, <1>7 DEF Queues
  <1>2. /\ \A r \in Answerable : r # x
        /\ \A r : r \in ToSet(i) <=> r = h \/ r \in ToSet(j)
        /\ \A r, q : Before(i, r, q) <=> Before(j, r, q) \/ (r = h /\ q \in ToSet(j))
        /\ \A r : r \in ToSet(Requested(v)) <=> r \in ToSet(Requested(u)) \/ r = h
        /\ \A r, q : Before(Requested(v), r, q) <=>
               Before(Requested(u), r, q) \/ (r \in ToSet(Requested(u)) /\ q = h)
    BY <1>0, <1>7, McpAssumption DEF Answerable
  <1>3. \A r \in Answerable : Holds(f, v, x, j, t, r) <=> Holds(f, u, x, i, t, r)
    BY <1>2 DEF Holds
  <1>4. \A r, q \in Answerable : Precedes(f, v, x, j, t, r, q) <=> Precedes(f, u, x, i, t, r, q)
    BY <1>2 DEF Precedes
  <1>5. /\ \A r : r \in ToSet(Joined(f, v, x, j, t)) <=> Holds(f, v, x, j, t, r)
        /\ \A r, q : Before(Joined(f, v, x, j, t), r, q) <=> Precedes(f, v, x, j, t, r, q)
    BY <1>1, QueuesJoined
  <1>6. /\ \A r : r \in ToSet(Joined(f, u, x, i, t)) <=> Holds(f, u, x, i, t, r)
        /\ \A r, q : Before(Joined(f, u, x, i, t), r, q) <=> Precedes(f, u, x, i, t, r, q)
    BY QueuesJoined
  <1> QED BY <1>3, <1>4, <1>5, <1>6, StaysInOrder

\* A tool returns.
LEMMA ReturnedInOrder ==
    ASSUME NEW f, NEW u, NEW x, NEW i, NEW t, Queues(f, u, x, i, t), NEW p, SameOrder(p, Joined(f, u, x, i, t)),
           NEW n, n = NoRequest, NEW y, NEW v, Added(u, y, x, v)
    PROVE  SameOrder(p, Joined(f, v, n, i, t))
  <1>7. /\ v \in Seq(Reply)
        /\ \A r : r \in ToSet(Requested(v)) <=> r \in ToSet(Requested(u)) \/ r = x
        /\ \A r, q : Before(Requested(v), r, q) <=>
               Before(Requested(u), r, q) \/ (r \in ToSet(Requested(u)) /\ q = x)
    BY ReplyAdded
  <1>1. Queues(f, v, n, i, t)
    BY <1>7 DEF Queues
  <1>2. /\ \A r \in Answerable : r # n
        /\ \A r : r \in ToSet(Requested(v)) <=> r \in ToSet(Requested(u)) \/ r = x
        /\ \A r, q : Before(Requested(v), r, q) <=>
               Before(Requested(u), r, q) \/ (r \in ToSet(Requested(u)) /\ q = x)
    BY <1>7, McpAssumption DEF Answerable
  <1>3. \A r \in Answerable : Holds(f, v, n, i, t, r) <=> Holds(f, u, x, i, t, r)
    BY <1>2 DEF Holds
  <1>4. \A r, q \in Answerable : Precedes(f, v, n, i, t, r, q) <=> Precedes(f, u, x, i, t, r, q)
    BY <1>2 DEF Precedes
  <1>5. /\ \A r : r \in ToSet(Joined(f, v, n, i, t)) <=> Holds(f, v, n, i, t, r)
        /\ \A r, q : Before(Joined(f, v, n, i, t), r, q) <=> Precedes(f, v, n, i, t, r, q)
    BY <1>1, QueuesJoined
  <1>6. /\ \A r : r \in ToSet(Joined(f, u, x, i, t)) <=> Holds(f, u, x, i, t, r)
        /\ \A r, q : Before(Joined(f, u, x, i, t), r, q) <=> Precedes(f, u, x, i, t, r, q)
    BY QueuesJoined
  <1> QED BY <1>3, <1>4, <1>5, <1>6, StaysInOrder

\* Replies go into the socket.
LEMMA WrittenInOrder ==
    ASSUME NEW f, NEW u, NEW x, NEW i, NEW t, Queues(f, u, x, i, t), NEW p, SameOrder(p, Joined(f, u, x, i, t)),
           NEW g, NEW v, g = f \o u, v = <<>>
    PROVE  SameOrder(p, Joined(g, v, x, i, t))
  <1>0. f \in Seq(Reply) /\ u \in Seq(Reply) /\ g \in Seq(Reply) /\ v \in Seq(Reply)
    BY DEF Queues
  <1>1. Queues(g, v, x, i, t)
    BY <1>0 DEF Queues
  <1>7. Requested(f) \in Seq(Requests \union {NoRequest}) /\ Requested(u) \in Seq(Requests \union {NoRequest})
    BY <1>0, RequestedType
  <1>8. Requested(g) = Requested(f) \o Requested(u)
    BY <1>0, RequestedJoined
  <1>9. Requested(v) = <<>>
    BY DEF Requested
  <1>2. /\ \A r : r \in ToSet(Requested(g)) <=> r \in ToSet(Requested(f)) \/ r \in ToSet(Requested(u))
        /\ \A r, q : Before(Requested(g), r, q) <=>
               \/ Before(Requested(f), r, q) \/ Before(Requested(u), r, q)
               \/ r \in ToSet(Requested(f)) /\ q \in ToSet(Requested(u))
        /\ \A r : r \notin ToSet(Requested(v))
        /\ \A r, q : ~Before(Requested(v), r, q)
    BY <1>7, <1>8, <1>9, JoinBefore, EmptyBefore
  <1>3. \A r \in Answerable : Holds(g, v, x, i, t, r) <=> Holds(f, u, x, i, t, r)
    BY <1>2 DEF Holds
  <1>4. \A r, q \in Answerable : Precedes(g, v, x, i, t, r, q) <=> Precedes(f, u, x, i, t, r, q)
    BY <1>2 DEF Precedes
  <1>5. /\ \A r : r \in ToSet(Joined(g, v, x, i, t)) <=> Holds(g, v, x, i, t, r)
        /\ \A r, q : Before(Joined(g, v, x, i, t), r, q) <=> Precedes(g, v, x, i, t, r, q)
    BY <1>1, QueuesJoined
  <1>6. /\ \A r : r \in ToSet(Joined(f, u, x, i, t)) <=> Holds(f, u, x, i, t, r)
        /\ \A r, q : Before(Joined(f, u, x, i, t), r, q) <=> Precedes(f, u, x, i, t, r, q)
    BY QueuesJoined
  <1> QED BY <1>3, <1>4, <1>5, <1>6, StaysInOrder

\* A request is sent, and remembered.
LEMMA SentInOrder ==
    ASSUME NEW f, NEW u, NEW x, NEW i, NEW t, Queues(f, u, x, i, t),
           NEW p \in Seq(Requests), SameOrder(p, Joined(f, u, x, i, t)),
           NEW m \in Requests, m \notin ToSet(p), ~Holds(f, u, x, i, t, m)
    PROVE  SameOrder(Append(p, m), Joined(f, u, x, i, Append(t, m)))
  <1> DEFINE t2 == Append(t, m)
             e == Joined(f, u, x, i, t)
             e2 == Joined(f, u, x, i, t2)
  <1>1. /\ t2 \in Seq(Requests)
        /\ \A r : r \in ToSet(t2) <=> r \in ToSet(t) \/ r = m
        /\ \A r, q : Before(t2, r, q) <=> Before(t, r, q) \/ (r \in ToSet(t) /\ q = m)
    BY AppendBefore, AppendProperties DEF Queues
  <1> HIDE DEF t2
  <1>2. Queues(f, u, x, i, t2)
    BY <1>1 DEF Queues
  <1>3. /\ \A r : r \in ToSet(e2) <=> Holds(f, u, x, i, t2, r)
        /\ \A r, q : Before(e2, r, q) <=> Precedes(f, u, x, i, t2, r, q)
    BY <1>2, QueuesJoined
  <1>4. /\ \A r : r \in ToSet(e) <=> Holds(f, u, x, i, t, r)
        /\ \A r, q : Before(e, r, q) <=> Precedes(f, u, x, i, t, r, q)
    BY QueuesJoined
  <1> HIDE DEF e, e2
  <1>5. \A r : Holds(f, u, x, i, t2, r) <=> Holds(f, u, x, i, t, r) \/ r = m
    BY <1>1 DEF Holds
  <1>6. \A r, q : Precedes(f, u, x, i, t2, r, q) <=>
               Precedes(f, u, x, i, t, r, q) \/ (Holds(f, u, x, i, t, r) /\ q = m)
    BY <1>1 DEF Holds, Precedes
  <1>7. m \notin ToSet(e) /\ SameOrder(p, e)
    BY <1>4 DEF e
  <1>8. /\ \A r \in Answerable : r \in ToSet(e2) <=> r \in ToSet(e) \/ r = m
        /\ \A r, q \in Answerable : Before(e2, r, q) <=> Before(e, r, q) \/ (r \in ToSet(e) /\ q = m)
    BY <1>3, <1>4, <1>5, <1>6
  <1>9. SameOrder(Append(p, m), e2)
    BY <1>7, <1>8, LongerInOrder
  <1> QED BY <1>9 DEF e2, t2

\* A reply is read, and its id forgotten; a reply without id changes nothing.
LEMMA RepliedInOrder ==
    ASSUME NEW f, NEW u, NEW x, NEW i, NEW t, Queues(f, u, x, i, t), f # <<>>,
           NEW p \in Seq(Requests), Once(p), SameOrder(p, Joined(f, u, x, i, t)),
           NEW h, h = Head(f).req, NEW g, g = Tail(f)
    PROVE  /\ SameOrder(RemoveFirst(p, h), Joined(g, u, x, i, t))
           /\ h = NoRequest => SameOrder(p, Joined(g, u, x, i, t))
  <1> DEFINE e == Joined(f, u, x, i, t)
             e2 == Joined(g, u, x, i, t)
  <1>1. /\ g \in Seq(Reply)
        /\ \A r : r \in ToSet(Requested(f)) <=> r = h \/ r \in ToSet(Requested(g))
        /\ \A r, q : Before(Requested(f), r, q) <=>
               Before(Requested(g), r, q) \/ (r = h /\ q \in ToSet(Requested(g)))
    <2>1. /\ Requested(f) \in Seq(Requests \union {NoRequest}) /\ Requested(f) # <<>>
          /\ Head(Requested(f)) = h /\ Tail(Requested(f)) = Requested(g) /\ g \in Seq(Reply)
      BY RequestedHead, HeadTailProperties DEF Queues
    <2> DEFINE names == Requested(f)
               rest == Requested(g)
    <2>2. /\ names \in Seq(Requests \union {NoRequest}) /\ names # <<>>
          /\ Head(names) = h /\ Tail(names) = rest
      BY <2>1
    <2> HIDE DEF names, rest
    <2>3. /\ \A r : r \in ToSet(names) <=> r = Head(names) \/ r \in ToSet(Tail(names))
          /\ \A r, q : Before(names, r, q) <=>
                 Before(Tail(names), r, q) \/ (r = Head(names) /\ q \in ToSet(Tail(names)))
      BY <2>2, HeadBefore
    <2>4. /\ \A r : r \in ToSet(names) <=> r = h \/ r \in ToSet(rest)
          /\ \A r, q : Before(names, r, q) <=>
                 Before(rest, r, q) \/ (r = h /\ q \in ToSet(rest))
      BY <2>2, <2>3
    <2> QED BY <2>1, <2>4 DEF names, rest
  <1>2. Queues(g, u, x, i, t)
    BY <1>1 DEF Queues
  <1>3. /\ \A r : r \in ToSet(e2) <=> Holds(g, u, x, i, t, r)
        /\ \A r, q : Before(e2, r, q) <=> Precedes(g, u, x, i, t, r, q)
    BY <1>2, QueuesJoined
  <1>4. /\ \A r : r \in ToSet(e) <=> Holds(f, u, x, i, t, r)
        /\ \A r, q : Before(e, r, q) <=> Precedes(f, u, x, i, t, r, q)
    BY QueuesJoined
  <1>5. SameOrder(p, e)
    BY DEF e
  <1> HIDE DEF e, e2
  <1>6. \A r : Holds(f, u, x, i, t, r) <=> Holds(g, u, x, i, t, r) \/ r = h
    BY <1>1 DEF Holds
  <1>7. \A r, q : Precedes(f, u, x, i, t, r, q) <=>
               Precedes(g, u, x, i, t, r, q) \/ (r = h /\ Holds(g, u, x, i, t, q))
    BY <1>1 DEF Holds, Precedes
  <1>8. /\ \A r \in Answerable : r \in ToSet(e) <=> r \in ToSet(e2) \/ r = h
        /\ \A r, q \in Answerable : Before(e, r, q) <=> Before(e2, r, q) \/ (r = h /\ q \in ToSet(e2))
    BY <1>3, <1>4, <1>6, <1>7
  <1>9. SameOrder(RemoveFirst(p, h), e2)
    <2>1. p \in Seq(Requests) /\ Once(p)
      OBVIOUS
    <2> QED BY ONLY <1>5, <1>8, <2>1, ShorterInOrder
  <1>10. ASSUME h = NoRequest PROVE SameOrder(p, e2)
    <2>1. \A r \in Answerable : r # h
      BY <1>10, McpAssumption DEF Answerable
    <2> QED BY <1>5, <1>8, <2>1, StaysInOrder
  <1> QED BY <1>9, <1>10 DEF e2

\* A new connection holds nothing, and nothing is waited for.
LEMMA NothingInOrder ==
    ASSUME NEW f, NEW u, NEW x, NEW i, NEW t, f = <<>>, u = <<>>, x = NoRequest, i = <<>>, t = <<>>
    PROVE  Queues(f, u, x, i, t) /\ SameOrder(<<>>, Joined(f, u, x, i, t))
  <1>1. Queues(f, u, x, i, t) /\ Requested(<<>>) = <<>>
    BY DEF Queues, Requested
  <1> DEFINE e == Joined(f, u, x, i, t)
  <1>2. /\ \A r : r \in ToSet(e) <=> Holds(f, u, x, i, t, r)
        /\ \A r, q : Before(e, r, q) <=> Precedes(f, u, x, i, t, r, q)
    BY <1>1, QueuesJoined
  <1> HIDE DEF e
  <1>3. \A r \in Answerable : ~Holds(f, u, x, i, t, r)
    BY <1>1, EmptyBefore, McpAssumption DEF Holds, Answerable
  <1>4. \A r, q \in Answerable : ~Precedes(f, u, x, i, t, r, q)
    BY <1>1, EmptyBefore, McpAssumption DEF Precedes, Answerable
  <1>5. SameOrder(<<>>, e)
    BY <1>2, <1>3, <1>4, EmptyBefore DEF SameOrder
  <1> QED BY <1>1, <1>5 DEF e

-----------------------------------------------------------------------------
(* What is pending is what is in the connection                            *)

\* What a standing connection's bridge waits for, in order.  Between connections it
\* waits for nothing; and what was read is used up by whoever read it.
PendInv(c) ==
    /\ home[c] # Nobody /\ linked[c] /\ ~closing[c] => SameOrder(pending[c], Pipeline(c))
    /\ ~linked[c] /\ c \notin left => pending[c] = <<>> /\ from[c] = <<>>
    /\ home[c] # Nobody /\ ~closing[c] /\ c \notin ToSet(readers[home[c]]) => input[c] = <<>>

LEMMA InQueues ==
    ASSUME TypeInv, NEW c \in Clients
    PROVE  /\ Queues(from[c], unsent[c], running[c], input[c], to[c])
           /\ Pipeline(c) = Joined(from[c], unsent[c], running[c], input[c], to[c])
  BY DEF TypeInv, Queues, Joined, Pipeline

\* A step elsewhere.
LEMMA PendSame ==
    ASSUME NEW d \in Clients, PendInv(d),
           home'[d] = home[d], linked'[d] = linked[d], closing'[d] = closing[d],
           pending'[d] = pending[d], from'[d] = from[d], unsent'[d] = unsent[d],
           running'[d] = running[d], input'[d] = input[d], to'[d] = to[d],
           left \subseteq left',
           home[d] # Nobody /\ d \in ToSet(readers[home[d]]) => d \in ToSet(readers'[home[d]])
    PROVE  PendInv(d)'
  <1>1. Pipeline(d)' = Pipeline(d)
    BY DEF Pipeline
  <1> QED BY <1>1 DEF PendInv

\* A connection is over, or rejected.
LEMMA PendGone ==
    ASSUME NEW d \in Clients, PendInv(d), home'[d] = Nobody \/ closing'[d] = TRUE,
           \/ linked'[d] = TRUE \/ d \in left'
           \/ pending'[d] = <<>> /\ from'[d] = <<>>
           \/ /\ linked'[d] = linked[d] /\ left \subseteq left'
              /\ pending'[d] = pending[d] /\ from'[d] = from[d]
    PROVE  PendInv(d)'
  BY DEF PendInv

\* A connection stands, and its instance reads from it or has read everything.
LEMMA PendStands ==
    ASSUME TypeInv', NEW d \in Clients, linked'[d] = TRUE,
           SameOrder(pending'[d], Joined(from'[d], unsent'[d], running'[d], input'[d], to'[d])),
           input'[d] = <<>> \/ d \in ToSet(readers'[home'[d]])
    PROVE  PendInv(d)'
  <1>1. Pipeline(d)' = Joined(from'[d], unsent'[d], running'[d], input'[d], to'[d])
    BY DEF Joined, Pipeline
  <1> QED BY <1>1 DEF PendInv

\* A request that is nowhere else is in none of the queues.
LEMMA Fresh ==
    ASSUME NEW c \in Clients, NEW r \in Requests,
           r \notin ToSet(to[c]) \union ToSet(input[c]) \union Inside(c) \union Behind(c)
    PROVE  ~Holds(from[c], unsent[c], running[c], input[c], to[c], r)
  <1>1. r # NoRequest
    BY McpAssumption
  <1>2. r # running[c]
    BY <1>1 DEF Inside
  <1>3. ASSUME NEW q, r \in ToSet(Requested(q)) PROVE r \in Named(q)
    <2>1. PICK i \in DOMAIN q : r = q[i].req
      BY <1>3 DEF ToSet, Requested
    <2> QED BY <1>1, <2>1 DEF Named
  <1>4. r \notin Named(from[c]) /\ r \notin Named(unsent[c])
    BY DEF Behind
  <1> QED BY <1>2, <1>3, <1>4 DEF Holds

-----------------------------------------------------------------------------
(* The steps of a client and its bridge                                    *)

LEMMA QuietPend ==
    ASSUME \A d \in Clients : PendInv(d),
           UNCHANGED <<home, to, from, input, unsent, closing, readers, running, linked, pending, left>>
    PROVE  \A d \in Clients : PendInv(d)'
  <1> TAKE d \in Clients
  <1> QED BY PendSame

\* The connection is there, or is made and empty: the bridge is about to send.
LEMMA ReadyToSend ==
    ASSUME IInv, NEW c \in Clients, PendInv(c), home'[c] # Nobody, ~closing[c],
           \/ linked[c] /\ UNCHANGED home
           \/ ~linked[c] /\ c \notin left
    PROVE  /\ SameOrder(pending[c], Joined(from[c], unsent[c], running[c], input[c], to[c]))
           /\ ~linked[c] => input[c] = <<>>
  <1>1. CASE linked[c] /\ UNCHANGED home
    BY <1>1, InQueues DEF PendInv, IInv
  <1>2. CASE ~linked[c] /\ c \notin left
    <2>1. /\ pending[c] = <<>> /\ from[c] = <<>> /\ to[c] = <<>> /\ unsent[c] = <<>>
          /\ running[c] = NoRequest /\ input[c] = <<>>
      BY <1>2 DEF PendInv, IInv, LinkInv
    <2> QED BY <2>1, NothingInOrder
  <1> QED BY <1>1, <1>2

LEMMA ForwardPend ==
    ASSUME IInv, TypeInv', NEW c \in Clients, Forward(c), \A d \in Clients : PendInv(d)
    PROVE  \A d \in Clients : PendInv(d)'
  <1> DEFINE r == Head(stdin[c])
  <1>1. /\ QueueInv(c) /\ stdin[c] \in Seq(Requests) /\ Once(stdin[c]) /\ stdin[c] # <<>>
        /\ pending[c] \in Seq(Requests) /\ to[c] \in Seq(Requests) /\ c \notin left
    BY DEF IInv, TypeInv, QueueInv, PlaceInv, Forward, NextLine
  <1>2. r \in Requests /\ r \in ToSet(stdin[c])
    BY <1>1, HeadTaken
  <1>3. /\ pending' = [pending EXCEPT ![c] = Append(@, r)]
        /\ to' = IF home'[c] = Nobody THEN to ELSE [to EXCEPT ![c] = Append(@, r)]
        /\ UNCHANGED <<from, serverVars, left>>
        /\ \/ linked[c] /\ UNCHANGED <<home, linked>>
           \/ ~linked[c] /\ Connected(c)
    BY DEF Forward, NextLine, Awaited
  <1> HIDE DEF r
  <1>4. /\ pending'[c] = Append(pending[c], r)
        /\ home'[c] # Nobody => to'[c] = Append(to[c], r)
        /\ linked'[c] = TRUE /\ (\/ linked[c] /\ UNCHANGED <<home, linked>>
                          \/ ~linked[c])
        /\ \A d \in Clients : d # c =>
              /\ pending'[d] = pending[d] /\ to'[d] = to[d]
              /\ home'[d] = home[d] /\ linked'[d] = linked[d]
    BY <1>3 DEF IInv, TypeInv, Connected
  <1>5. UNCHANGED <<from, unsent, input, closing, readers, running, left>>
    BY <1>3 DEF serverVars
  <1>6. ASSUME NEW d \in Clients, d # c PROVE PendInv(d)'
    BY <1>4, <1>5, <1>6, PendSame
  <1>7. ASSUME home'[c] = Nobody \/ closing[c] = TRUE PROVE PendInv(c)'
    BY <1>4, <1>5, <1>7, PendGone
  <1>8. ASSUME home'[c] # Nobody /\ closing[c] = FALSE PROVE PendInv(c)'
    <2>1. /\ SameOrder(pending[c], Joined(from[c], unsent[c], running[c], input[c], to[c]))
          /\ ~linked[c] => input[c] = <<>>
      BY <1>1, <1>4, <1>8, ReadyToSend
    <2>2. r \notin ToSet(pending[c])
          /\ r \notin ToSet(to[c]) \union ToSet(input[c]) \union Inside(c) \union Behind(c)
      BY <1>1, <1>2 DEF QueueInv, PlaceInv, RunInv, Ahead
    <2>3. Queues(from[c], unsent[c], running[c], input[c], to[c])
      BY InQueues DEF IInv
    <2>4. SameOrder(Append(pending[c], r),
                    Joined(from[c], unsent[c], running[c], input[c], Append(to[c], r)))
      BY <1>1, <1>2, <2>1, <2>2, <2>3, Fresh, SentInOrder
    <2>5. SameOrder(pending'[c], Joined(from'[c], unsent'[c], running'[c], input'[c], to'[c]))
      BY <1>4, <1>5, <1>8, <2>4
    <2>6. input'[c] = <<>> \/ c \in ToSet(readers'[home'[c]])
      <3>1. CASE linked[c]
        BY <1>4, <1>5, <1>8, <3>1 DEF PendInv
      <3> QED BY <1>5, <2>1, <3>1
    <2> QED BY <1>4, <2>5, <2>6, PendStands
  <1> QED BY <1>6, <1>7, <1>8 DEF IInv, TypeInv

LEMMA SendDirectlyPend ==
    ASSUME IInv, TypeInv', NEW c \in Clients, NEW r \in Requests, SendDirectly(c, r),
           \A d \in Clients : PendInv(d)
    PROVE  \A d \in Clients : PendInv(d)'
  <1>1. /\ QueueInv(c) /\ pending[c] \in Seq(Requests) /\ to[c] \in Seq(Requests)
        /\ r \notin asked /\ linked[c] = TRUE
    BY DEF IInv, TypeInv, SendDirectly
  <1>2. /\ pending' = [pending EXCEPT ![c] = Append(@, r)]
        /\ to' = IF home[c] = Nobody THEN to ELSE [to EXCEPT ![c] = Append(@, r)]
        /\ UNCHANGED <<home, from, serverVars, linked, left>>
    BY DEF SendDirectly
  <1>3. /\ pending'[c] = Append(pending[c], r)
        /\ home[c] # Nobody => to'[c] = Append(to[c], r)
        /\ \A d \in Clients : d # c => pending'[d] = pending[d] /\ to'[d] = to[d]
    BY <1>2 DEF IInv, TypeInv
  <1>4. UNCHANGED <<home, from, unsent, input, closing, readers, running, linked, left>>
    BY <1>2 DEF serverVars
  <1>5. ASSUME NEW d \in Clients, d # c PROVE PendInv(d)'
    BY <1>3, <1>4, <1>5, PendSame
  <1>6. ASSUME home[c] = Nobody \/ closing[c] = TRUE PROVE PendInv(c)'
    BY <1>1, <1>4, <1>6, PendGone
  <1>7. ASSUME home[c] # Nobody /\ closing[c] = FALSE PROVE PendInv(c)'
    <2>1. SameOrder(pending[c], Joined(from[c], unsent[c], running[c], input[c], to[c]))
      BY <1>1, <1>4, <1>7, ReadyToSend
    <2>2. r \notin ToSet(pending[c])
          /\ r \notin ToSet(to[c]) \union ToSet(input[c]) \union Inside(c) \union Behind(c)
      BY <1>1 DEF QueueInv, OpenInv, Ahead
    <2>3. Queues(from[c], unsent[c], running[c], input[c], to[c])
      BY InQueues DEF IInv
    <2>4. SameOrder(Append(pending[c], r),
                    Joined(from[c], unsent[c], running[c], input[c], Append(to[c], r)))
      BY <1>1, <2>1, <2>2, <2>3, Fresh, SentInOrder
    <2>5. SameOrder(pending'[c], Joined(from'[c], unsent'[c], running'[c], input'[c], to'[c]))
      BY <1>3, <1>4, <1>7, <2>4
    <2>6. input'[c] = <<>> \/ c \in ToSet(readers'[home'[c]])
      BY <1>4, <1>7 DEF PendInv
    <2> QED BY <1>1, <1>4, <2>5, <2>6, PendStands
  <1> QED BY <1>5, <1>6, <1>7 DEF IInv, TypeInv

LEMMA ReadBackendPend ==
    ASSUME IInv, TypeInv', NEW c \in Clients, ReadBackend(c), \A d \in Clients : PendInv(d)
    PROVE  \A d \in Clients : PendInv(d)'
  <1> DEFINE r == Head(from[c]).req
  <1>1. /\ QueueInv(c) /\ from[c] # <<>> /\ pending[c] \in Seq(Requests) /\ Once(pending[c]) /\ linked[c] = TRUE
    BY DEF IInv, TypeInv, QueueInv, PlaceInv, ReadBackend
  <1>2. /\ from' = [from EXCEPT ![c] = Tail(@)]
        /\ UNCHANGED <<home, to, serverVars, linked, left>>
        /\ IF r = NoRequest THEN UNCHANGED pending ELSE pending' = [pending EXCEPT ![c] = RemoveFirst(@, r)]
    BY DEF ReadBackend
  <1> HIDE DEF r
  <1>3. /\ from'[c] = Tail(from[c])
        /\ IF r = NoRequest THEN pending'[c] = pending[c] ELSE pending'[c] = RemoveFirst(pending[c], r)
        /\ \A d \in Clients : d # c => pending'[d] = pending[d] /\ from'[d] = from[d]
    BY <1>2 DEF IInv, TypeInv
  <1>4. UNCHANGED <<home, to, unsent, input, closing, readers, running, linked, left>>
    BY <1>2 DEF serverVars
  <1>5. ASSUME NEW d \in Clients, d # c PROVE PendInv(d)'
    BY <1>3, <1>4, <1>5, PendSame
  <1>6. ASSUME home[c] = Nobody \/ closing[c] = TRUE PROVE PendInv(c)'
    BY <1>1, <1>4, <1>6, PendGone
  <1>7. ASSUME home[c] # Nobody /\ closing[c] = FALSE PROVE PendInv(c)'
    <2>1. SameOrder(pending[c], Joined(from[c], unsent[c], running[c], input[c], to[c]))
      BY <1>1, <1>7, InQueues DEF PendInv, IInv
    <2>2. Queues(from[c], unsent[c], running[c], input[c], to[c])
      BY InQueues DEF IInv
    <2>3. /\ SameOrder(RemoveFirst(pending[c], r), Joined(Tail(from[c]), unsent[c], running[c], input[c], to[c]))
          /\ r = NoRequest => SameOrder(pending[c], Joined(Tail(from[c]), unsent[c], running[c], input[c], to[c]))
      BY <1>1, <2>1, <2>2, RepliedInOrder DEF r
    <2>4. SameOrder(pending'[c], Joined(from'[c], unsent'[c], running'[c], input'[c], to'[c]))
      BY <1>3, <1>4, <2>3
    <2>5. input'[c] = <<>> \/ c \in ToSet(readers'[home'[c]])
      BY <1>4, <1>7 DEF PendInv
    <2> QED BY <1>1, <1>4, <2>4, <2>5, PendStands
  <1> QED BY <1>5, <1>6, <1>7 DEF IInv, TypeInv

LEMMA ClientPend ==
    ASSUME IInv, TypeInv', NEW c \in Clients, BridgeStep(c) \/ ClientStep(c), \A d \in Clients : PendInv(d)
    PROVE  \A d \in Clients : PendInv(d)'
  <1>1. CASE AnswerLocally(c) \/ AnswerAbsent(c)
    BY <1>1, AnswersAtOnce, QuietPend DEF linkVars, serverVars
  <1>2. CASE \E r \in Requests : Ask(c, r)
    BY <1>2, QuietPend DEF Ask, linkVars, serverVars
  <1>3. CASE BackendDisconnected(c)
    <2>1. /\ home[c] = Nobody /\ from[c] = <<>> /\ UNCHANGED <<linkVars, serverVars, left>>
          /\ pending'[c] = <<>>
          /\ \A d \in Clients : d # c => pending'[d] = pending[d] /\ linked'[d] = linked[d]
      BY <1>3 DEF BackendDisconnected, IInv, TypeInv
    <2>2. ASSUME NEW d \in Clients, d # c PROVE PendInv(d)'
      BY <2>1, <2>2, PendSame DEF linkVars, serverVars
    <2>3. PendInv(c)'
      BY <2>1, PendGone DEF linkVars
    <2> QED BY <2>2, <2>3
  <1>4. CASE ConnectDirectly(c)
    <2>1. /\ ~linked[c] /\ c \notin left /\ UNCHANGED <<to, from, serverVars, pending, left>>
          /\ linked'[c] = TRUE
          /\ \A d \in Clients : d # c => home'[d] = home[d] /\ linked'[d] = linked[d]
      BY <1>4 DEF ConnectDirectly, Connected, IInv, TypeInv
    <2>2. ASSUME NEW d \in Clients, d # c PROVE PendInv(d)'
      BY <2>1, <2>2, PendSame DEF serverVars
    <2>3. ASSUME home'[c] = Nobody \/ closing[c] = TRUE PROVE PendInv(c)'
      BY <2>1, <2>3, PendGone DEF serverVars
    <2>4. ASSUME home'[c] # Nobody /\ closing[c] = FALSE PROVE PendInv(c)'
      BY <2>1, <2>4, ReadyToSend, PendStands DEF serverVars
    <2> QED BY <2>2, <2>3, <2>4 DEF IInv, TypeInv
  <1>5. CASE ClientLeaves(c)
    <2>1. /\ left' = left \union {c} /\ UNCHANGED <<linkVars, serverVars>> /\ ~linked'[c]
          /\ \A d \in Clients : d # c => pending'[d] = pending[d] /\ linked'[d] = linked[d]
      BY <1>5 DEF ClientLeaves, IInv, TypeInv
    <2>2. ASSUME NEW d \in Clients, d # c PROVE PendInv(d)'
      BY <2>1, <2>2, PendSame DEF linkVars, serverVars
    <2>3. PendInv(c)'
      BY <2>1 DEF PendInv, linkVars, serverVars
    <2> QED BY <2>2, <2>3
  <1> QED BY <1>1, <1>2, <1>3, <1>4, <1>5, ForwardPend, SendDirectlyPend, ReadBackendPend
          DEF BridgeStep, ClientStep

-----------------------------------------------------------------------------
(* The steps of the server                                                 *)

LEMMA EndPend ==
    ASSUME IInv, NEW p \in Instances, \A d \in Clients : PendInv(d),
           \/ \E c \in Clients : PeerGone(p, c)
           \/ \E c \in Clients : CloseRejected(p, c) /\ UNCHANGED bridgeVars
           \/ InstanceStep(p) /\ UNCHANGED bridgeVars
    PROVE  \A d \in Clients : PendInv(d)'
  <1>1. ASSUME NEW c \in Clients, PeerGone(p, c) \/ (CloseRejected(p, c) /\ UNCHANGED bridgeVars)
        PROVE  \A d \in Clients : PendInv(d)'
    <2>1. /\ home'[c] = Nobody /\ UNCHANGED <<from, readers, running, linked, pending, left>>
          /\ \A d \in Clients : d # c =>
                /\ home'[d] = home[d] /\ closing'[d] = closing[d] /\ unsent'[d] = unsent[d]
                /\ input'[d] = input[d] /\ to'[d] = to[d]
      BY <1>1 DEF PeerGone, CloseRejected, bridgeVars, IInv, TypeInv
    <2>2. ASSUME NEW d \in Clients, d # c PROVE PendInv(d)'
      BY <2>1, <2>2, PendSame
    <2>3. PendInv(c)'
      BY <2>1, PendGone
    <2> QED BY <2>2, <2>3
  <1>2. CASE ConnectionsEnd(p) /\ UNCHANGED bridgeVars
    <2>1. /\ readers' = [readers EXCEPT ![p] = <<>>] /\ UNCHANGED <<from, linked, pending, left>>
          /\ \A d \in Clients :
                IF home[d] = p THEN home'[d] = Nobody
                ELSE /\ home'[d] = home[d] /\ unsent'[d] = unsent[d] /\ running'[d] = running[d]
                     /\ input'[d] = input[d] /\ to'[d] = to[d]
      BY <1>2 DEF ConnectionsEnd, bridgeVars
    <2>2. \A d \in Clients : home[d] # p => closing'[d] = closing[d]
      BY <1>2 DEF ConnectionsEnd, IInv, TypeInv
    <2>3. ASSUME NEW d \in Clients PROVE PendInv(d)'
      <3>1. CASE home[d] = p
        BY <2>1, <3>1, PendGone
      <3>2. CASE home[d] # p
        <4>1. home[d] # Nobody => readers'[home[d]] = readers[home[d]]
          BY <2>1, <3>2 DEF IInv, TypeInv
        <4> QED BY <2>1, <2>2, <3>2, <4>1, PendSame
      <3> QED BY <3>1, <3>2
    <2> QED BY <2>3
  <1>3. CASE (Probe(p) \/ RemoveStale(p) \/ Bind(p)) /\ UNCHANGED bridgeVars
    BY <1>3, QuietPend DEF Probe, RemoveStale, Bind, linkVars, serverVars, bridgeVars
  <1> QED BY <1>1, <1>2, <1>3 DEF InstanceStep, Quit, Crash

LEMMA ReadMessagesPend ==
    ASSUME IInv, TypeInv', NEW p \in Instances, NEW c \in Clients, ReadMessages(p, c), UNCHANGED bridgeVars,
           \A d \in Clients : PendInv(d)
    PROVE  \A d \in Clients : PendInv(d)'
  <1>1. PICK n \in 1 .. Len(to[c]) :
            /\ to' = [to EXCEPT ![c] = SubSeq(@, n + 1, Len(@))]
            /\ \/ Reject(c) /\ UNCHANGED <<input, readers>>
               \/ /\ input' = [input EXCEPT ![c] = SubSeq(to[c], 1, n)]
                  /\ readers' = [readers EXCEPT ![p] = Append(@, c)]
                  /\ UNCHANGED <<unsent, closing>>
    BY DEF ReadMessages
  <1>2. /\ home[c] = p /\ p # Nobody /\ ~closing[c] /\ c \notin ToSet(readers[p])
        /\ UNCHANGED <<home, from, running, linked, pending, left>>
    BY McpAssumption DEF ReadMessages, bridgeVars
  <1>3. /\ to'[c] = SubSeq(to[c], n + 1, Len(to[c]))
        /\ \A d \in Clients : d # c =>
              to'[d] = to[d] /\ input'[d] = input[d] /\ unsent'[d] = unsent[d] /\ closing'[d] = closing[d]
    BY <1>1 DEF Reject, IInv, TypeInv
  <1>4. /\ readers \in [Instances -> Seq(Clients)]
        /\ ToSet(Append(readers[p], c)) = ToSet(readers[p]) \union {c}
    <2>1. readers \in [Instances -> Seq(Clients)] /\ readers[p] \in Seq(Clients)
      BY DEF IInv, TypeInv
    <2> QED BY <2>1, Appended
  <1>5. \A q \in Instances : ToSet(readers[q]) \subseteq ToSet(readers'[q])
    BY <1>1, <1>4
  <1>6. ASSUME NEW d \in Clients, d # c PROVE PendInv(d)'
    <2>1. home[d] # Nobody => home[d] \in Instances
      BY DEF IInv, TypeInv
    <2> QED BY <1>2, <1>3, <1>5, <1>6, <2>1, PendSame
  <1>7. ASSUME Reject(c) PROVE PendInv(c)'
    <2>1. closing'[c] = TRUE
      BY <1>7 DEF Reject, IInv, TypeInv
    <2> QED BY <1>2, <2>1, PendGone
  <1>8. ASSUME input' = [input EXCEPT ![c] = SubSeq(to[c], 1, n)],
               readers' = [readers EXCEPT ![p] = Append(@, c)], UNCHANGED <<unsent, closing>>
        PROVE  PendInv(c)'
    <2>1. input[c] = <<>>
      BY <1>2 DEF PendInv
    <2>2. linked[c] = TRUE \/ c \in left
      BY <1>2 DEF IInv, TypeInv, LinkInv
    <2>3. input'[c] = SubSeq(to[c], 1, n) /\ c \in ToSet(readers'[home'[c]])
      BY <1>2, <1>4, <1>8 DEF IInv, TypeInv
    <2>4. CASE linked[c] = TRUE
      <3>1. SameOrder(pending[c], Joined(from[c], unsent[c], running[c], input[c], to[c]))
        BY <1>2, <2>4, InQueues DEF PendInv, IInv
      <3>2. Queues(from[c], unsent[c], running[c], input[c], to[c])
        BY InQueues DEF IInv
      <3> DEFINE a == SubSeq(to[c], 1, n)
                 b == SubSeq(to[c], n + 1, Len(to[c]))
      <3>3. Taken(to[c], n, a, b)
        BY DEF Taken
      <3> HIDE DEF a, b
      <3>4. SameOrder(pending[c], Joined(from[c], unsent[c], running[c], a, b))
        BY <2>1, <3>1, <3>2, <3>3, ReadInOrder
      <3>5. SameOrder(pending'[c], Joined(from'[c], unsent'[c], running'[c], input'[c], to'[c]))
        BY <1>2, <1>3, <1>8, <2>3, <3>4 DEF a, b
      <3> QED BY <1>2, <2>3, <2>4, <3>5, PendStands
    <2>5. CASE c \in left
      <3>1. linked[c] = FALSE
        BY <2>5 DEF IInv, TypeInv, LinkInv
      <3> QED BY <1>2, <2>3, <2>5, <3>1 DEF PendInv
    <2> QED BY <2>2, <2>4, <2>5
  <1> QED BY <1>1, <1>6, <1>7, <1>8

LEMMA WriteRepliesPend ==
    ASSUME IInv, TypeInv', NEW p \in Instances, NEW c \in Clients, WriteReplies(p, c), UNCHANGED bridgeVars,
           \A d \in Clients : PendInv(d)
    PROVE  \A d \in Clients : PendInv(d)'
  <1>1. /\ home[c] = p /\ p # Nobody /\ from'[c] = from[c] \o unsent[c] /\ unsent'[c] = <<>>
        /\ \A d \in Clients : d # c => from'[d] = from[d] /\ unsent'[d] = unsent[d]
        /\ UNCHANGED <<home, to, input, closing, readers, running, linked, pending, left>>
    BY McpAssumption DEF WriteReplies, bridgeVars, IInv, TypeInv
  <1>2. ASSUME NEW d \in Clients, d # c PROVE PendInv(d)'
    BY <1>1, <1>2, PendSame
  <1>3. PendInv(c)'
    <2>1. /\ Queues(from[c], unsent[c], running[c], input[c], to[c])
          /\ Pipeline(c) = Joined(from[c], unsent[c], running[c], input[c], to[c])
      BY InQueues DEF IInv
    <2>2. Pipeline(c)' = Joined(from'[c], unsent'[c], running[c], input[c], to[c])
      BY <1>1 DEF Joined, Pipeline
    <2>3. ASSUME SameOrder(pending[c], Pipeline(c)) PROVE SameOrder(pending[c], Pipeline(c)')
      BY <1>1, <2>1, <2>2, <2>3, WrittenInOrder
    <2>4. linked[c] \/ c \in left
      BY <1>1 DEF IInv, LinkInv
    <2> QED BY <1>1, <2>3, <2>4 DEF PendInv
  <1> QED BY <1>2, <1>3

LEMMA HandleMessagePend ==
    ASSUME IInv, TypeInv', NEW p \in Instances, HandleMessage(p), UNCHANGED bridgeVars,
           \A d \in Clients : PendInv(d)
    PROVE  \A d \in Clients : PendInv(d)'
  <1>0. /\ Innermost(p) \in Clients /\ Innermost(p) \in ToSet(readers[p])
        /\ \A d \in ToSet(readers[p]) : d # Innermost(p) => d \in ToSet(Front(readers[p]))
    BY HandledCases, InHand DEF IInv
  <1>1. PICK c \in Clients : c = Innermost(p)
    BY <1>0
  <1>2. PICK r : r = Head(input[c])
    OBVIOUS
  <1>3. /\ running[c] = NoRequest /\ input[c] # <<>> /\ input' = [input EXCEPT ![c] = Tail(@)]
        /\ \/ Reject(c) /\ Leave(p) /\ UNCHANGED <<running, executed>>
           \/ Kind[r] = "note" /\ UNCHANGED <<unsent, closing, readers, running, executed>>
           \/ \E a \in {"refused", "info"} :
                 Send(c, r, a) /\ UNCHANGED <<closing, readers, running, executed>>
           \/ /\ running' = [running EXCEPT ![c] = r] /\ executed' = executed \union {r}
              /\ UNCHANGED <<unsent, closing, readers>>
    BY <1>1, <1>2, HandledCases
  <1>4. UNCHANGED <<home, to, from, linked, pending, left>>
    BY HandledCases DEF linkVars, bridgeVars
  <1>5. /\ input'[c] = Tail(input[c])
        /\ \A d \in Clients : d # c =>
              /\ input'[d] = input[d] /\ unsent'[d] = unsent[d] /\ closing'[d] = closing[d]
              /\ running'[d] = running[d]
    BY <1>3 DEF Reject, Send, IInv, TypeInv
  <1>6. \A q \in Instances, d \in Clients : d # c /\ d \in ToSet(readers[q]) => d \in ToSet(readers'[q])
    BY <1>0, <1>1, <1>3 DEF Leave, IInv, TypeInv
  <1>7. ASSUME NEW d \in Clients, d # c PROVE PendInv(d)'
    <2>1. home[d] # Nobody => home[d] \in Instances
      BY DEF IInv, TypeInv
    <2> QED BY <1>4, <1>5, <1>6, <1>7, <2>1, PendSame
  <1>8. ASSUME Reject(c) PROVE PendInv(c)'
    <2>1. closing'[c] = TRUE
      BY <1>8 DEF Reject, IInv, TypeInv
    <2> QED BY <1>4, <2>1, PendGone
  <1>9. ASSUME UNCHANGED <<closing, readers>>,
               SameOrder(pending[c], Joined(from[c], unsent[c], running[c], input[c], to[c])) =>
                   SameOrder(pending[c], Joined(from[c], unsent'[c], running'[c], input'[c], to[c]))
        PROVE  PendInv(c)'
    <2>1. home[c] = p
      BY <1>0, <1>1 DEF IInv, ReaderInv
    <2>2. Pipeline(c) = Joined(from[c], unsent[c], running[c], input[c], to[c])
      BY InQueues DEF IInv
    <2>3. Pipeline(c)' = Joined(from[c], unsent'[c], running'[c], input'[c], to[c])
      BY <1>4 DEF Joined, Pipeline
    <2> QED BY <1>0, <1>1, <1>4, <1>9, <2>1, <2>2, <2>3 DEF PendInv
  <1>10. /\ Queues(from[c], unsent[c], running[c], input[c], to[c]) /\ r \in Requests
    <2>1. QueueInv(c) /\ input[c] \in Seq(Requests) /\ Once(input[c])
      BY DEF IInv, TypeInv, QueueInv, PlaceInv
    <2> QED BY <1>2, <1>3, <2>1, HeadTaken, InQueues DEF IInv
  <1>11. ASSUME Kind[r] = "note", UNCHANGED <<unsent, closing, readers, running>> PROVE PendInv(c)'
    <2>1. r \notin Answerable
      BY <1>11 DEF Answerable
    <2> QED BY <1>2, <1>3, <1>5, <1>9, <1>10, <1>11, <2>1, DroppedInOrder
  <1>12. ASSUME NEW a \in {"refused", "info"}, Send(c, r, a), UNCHANGED <<closing, readers, running>>
         PROVE  PendInv(c)'
    <2>1. PICK y : y = [req |-> r, ans |-> a]
      OBVIOUS
    <2>2. y \in Reply /\ y.req = r
      BY <1>10, <2>1 DEF Reply
    <2>3. unsent'[c] = Append(unsent[c], y)
      BY <1>12, <2>1 DEF Send, IInv, TypeInv
    <2>4. UNCHANGED <<closing, readers>> /\ running'[c] = running[c]
      BY <1>12
    <2>5. ASSUME SameOrder(pending[c], Joined(from[c], unsent[c], running[c], input[c], to[c]))
          PROVE  SameOrder(pending[c], Joined(from[c], unsent'[c], running[c], input'[c], to[c]))
      <3>1. Answered(unsent[c], input[c], r, input'[c], y, unsent'[c])
        BY <1>2, <1>3, <1>5, <2>2, <2>3 DEF Answered, Added, IInv, TypeInv
      <3> QED BY <1>3, <1>10, <2>5, <3>1, AnsweredInOrder
    <2> QED BY <1>9, <2>4, <2>5
  <1>13. ASSUME running' = [running EXCEPT ![c] = r], UNCHANGED <<unsent, closing, readers>>
         PROVE  PendInv(c)'
    <2>1. running'[c] = r
      BY <1>13 DEF IInv, TypeInv
    <2> QED BY <1>2, <1>3, <1>5, <1>9, <1>10, <1>13, <2>1, RunInOrder
  <1> QED BY <1>3, <1>7, <1>8, <1>11, <1>12, <1>13

LEMMA ToolReturnsPend ==
    ASSUME IInv, TypeInv', NEW p \in Instances, ToolReturns(p), UNCHANGED bridgeVars,
           \A d \in Clients : PendInv(d)
    PROVE  \A d \in Clients : PendInv(d)'
  <1>1. Innermost(p) \in Clients /\ Innermost(p) \in ToSet(readers[p])
    BY InHand DEF ToolReturns, IInv
  <1>2. PICK c \in Clients : c = Innermost(p)
    BY <1>1
  <1>3. PICK r : r = running[c]
    OBVIOUS
  <1>4. PICK y : y = [req |-> r, ans |-> "result"]
    OBVIOUS
  <1>5. /\ unsent'[c] = Append(unsent[c], y) /\ running'[c] = NoRequest
        /\ \A d \in Clients : d # c => unsent'[d] = unsent[d] /\ running'[d] = running[d]
        /\ UNCHANGED <<home, to, from, input, closing, readers, linked, pending, left>>
    BY <1>2, <1>3, <1>4 DEF ToolReturns, Send, linkVars, bridgeVars, IInv, TypeInv
  <1>6. ASSUME NEW d \in Clients, d # c PROVE PendInv(d)'
    BY <1>5, <1>6, PendSame
  <1>7. PendInv(c)'
    <2>1. y \in Reply /\ y.req = r
      BY <1>3, <1>4 DEF Reply, IInv, TypeInv
    <2>2. /\ Queues(from[c], unsent[c], running[c], input[c], to[c])
          /\ Pipeline(c) = Joined(from[c], unsent[c], running[c], input[c], to[c])
      BY InQueues DEF IInv
    <2>3. Pipeline(c)' = Joined(from[c], unsent'[c], running'[c], input[c], to[c])
      BY <1>5 DEF Joined, Pipeline
    <2>4. ASSUME SameOrder(pending[c], Pipeline(c)) PROVE SameOrder(pending[c], Pipeline(c)')
      <3>1. Added(unsent[c], y, running[c], unsent'[c])
        BY <1>3, <1>5, <2>1 DEF Added, IInv, TypeInv
      <3> QED BY <1>5, <2>2, <2>3, <2>4, <3>1, ReturnedInOrder
    <2>5. home[c] = p
      BY <1>1, <1>2 DEF IInv, ReaderInv
    <2> QED BY <1>1, <1>2, <1>5, <2>4, <2>5 DEF PendInv
  <1> QED BY <1>6, <1>7

LEMMA ReadDonePend ==
    ASSUME IInv, NEW p \in Instances, ReadDone(p), UNCHANGED bridgeVars, \A d \in Clients : PendInv(d)
    PROVE  \A d \in Clients : PendInv(d)'
  <1>1. /\ readers[p] # <<>> /\ readers' = [readers EXCEPT ![p] = Front(@)]
        /\ input[Innermost(p)] = <<>>
        /\ UNCHANGED <<home, to, from, input, unsent, closing, running, linked, pending, left>>
    BY DEF ReadDone, Leave, linkVars, bridgeVars
  <1>2. /\ Innermost(p) \in Clients
        /\ \A d \in ToSet(readers[p]) : d # Innermost(p) => d \in ToSet(Front(readers[p]))
    BY <1>1, InHand DEF IInv
  <1>3. \A q \in Instances, d \in Clients :
            d # Innermost(p) /\ d \in ToSet(readers[q]) => d \in ToSet(readers'[q])
    BY <1>1, <1>2 DEF IInv, TypeInv
  <1>4. ASSUME NEW d \in Clients, d # Innermost(p) PROVE PendInv(d)'
    <2>1. home[d] # Nobody => home[d] \in Instances
      BY DEF IInv, TypeInv
    <2> QED BY <1>1, <1>3, <1>4, <2>1, PendSame
  <1>5. ASSUME NEW d \in Clients, d = Innermost(p) PROVE PendInv(d)'
    <2>1. Pipeline(d)' = Pipeline(d)
      BY <1>1 DEF Pipeline
    <2> QED BY <1>1, <1>5, <2>1 DEF PendInv
  <1> QED BY <1>4, <1>5

-----------------------------------------------------------------------------
(* The order is kept                                                       *)

LEMMA InitPend == McpInit => \A c \in Clients : PendInv(c)
  BY DEF McpInit, McpServerInit, PendInv

LEMMA StepPend ==
    ASSUME IInv, IInv', [McpNext]_vars, \A c \in Clients : PendInv(c)
    PROVE  \A c \in Clients : PendInv(c)'
  <1>1. TypeInv'
    BY DEF IInv
  <1>2. CASE \E c \in Clients : BridgeStep(c) \/ ClientStep(c)
    BY <1>1, <1>2, ClientPend
  <1>3. CASE \E p \in Instances : ServeStep(p) /\ UNCHANGED bridgeVars
    BY <1>1, <1>3, HandleMessagePend, ToolReturnsPend, ReadDonePend, ReadMessagesPend,
       WriteRepliesPend, EndPend DEF ServeStep
  <1>4. CASE \/ \E p \in Instances : InstanceStep(p) /\ UNCHANGED bridgeVars
             \/ \E p \in Instances, c \in Clients : PeerGone(p, c)
    BY <1>4, EndPend
  <1>5. CASE UNCHANGED vars
    BY <1>5, QuietPend DEF vars, linkVars, serverVars, bridgeVars
  <1> QED BY <1>2, <1>3, <1>4, <1>5 DEF McpNext

\* pending_ids_ of a standing connection is what is between the bridge and the tool,
\* and on the way back, in that order, for all instances, clients and requests.
THEOREM PendingInOrder == McpSpec => []PendingIsPipeline
  <1> DEFINE AllPend == \A c \in Clients : PendInv(c)
  <1>1. McpInit => AllPend
    BY InitPend
  <1>2. IInv /\ IInv' /\ [McpNext]_vars /\ AllPend => AllPend'
    BY StepPend
  <1>3. AllPend => PendingIsPipeline
    BY DEF PendInv, PendingIsPipeline, SameOrder
  <1> HIDE DEF AllPend
  <1> QED BY <1>1, <1>2, <1>3, McpInvariant, PTL DEF McpSpec
=============================================================================
