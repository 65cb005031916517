------------------------- MODULE MainWindow_proofs --------------------------
(***************************************************************************)
(* Proofs about MainWindow: its lists agree, the focus is one, ids are     *)
(* given once, and what follows for a client that writes by generation.    *)
(***************************************************************************)
EXTENDS MainWindowProperties, SequenceTheorems, TLAPS

\* A registry with an entry for each of W: ids are distinct, positive and below next.
IsRegistry(reg, W) ==
    /\ reg \in [entries : [W -> [id : Nat, generation : Nat]], next : Nat, active : Nat]
    /\ reg.next > 0
    /\ \A s \in W : reg.entries[s].id > 0 /\ reg.entries[s].id < reg.next
    /\ \A s, t \in W : reg.entries[s].id = reg.entries[t].id => s = t

\* A list without duplicates, of the sessions that have a window.
Lists(list) ==
    /\ list \in Seq(Addresses) /\ IsInjective(list)
    /\ ToSet(list) = windows

ListInv == Lists(sessions) /\ Lists(tabs) /\ windows \subseteq Addresses

FocusInv ==
    /\ current \in windows \union {NoSession}
    /\ lastFocused = current
    /\ registry.active = IdOf(registry, current)
    /\ current = NoSession <=> tabs = <<>>

CaptureTyped ==
    /\ capture \in [Addresses -> {"idle", "starting", "running"}]
    /\ posted \in [Addresses -> Nat]

\* As long as the generation of s is the one read, no announcement has been delivered
\* since; and without a new one its capture is in the state read.
SeenOf(s) ==
    /\ seen.generation <= registry.entries[s].generation
    /\ seen.generation = registry.entries[s].generation =>
          posted[s] > seen.posted \/ (posted[s] = seen.posted /\ Running(s) = seen.running)

\* What a client knows of a session that is still there is as old as its generation.
SeenInv ==
    /\ seen \in [id : Nat, generation : Nat, running : BOOLEAN, posted : Nat]
    /\ seen.id < registry.next
    /\ \A s \in windows : registry.entries[s].id = seen.id => SeenOf(s)

WindowInv ==
    /\ ListInv /\ IsRegistry(registry, windows) /\ FocusInv
    /\ CaptureTyped /\ SeenInv /\ WritesWhatWasRead

-----------------------------------------------------------------------------
(* Operations of the registry. *)

LEMMA EmptyIsRegistry == IsRegistry(EmptyRegistry, {})
BY DEF IsRegistry, EmptyRegistry

LEMMA ActivatedIsRegistry ==
    ASSUME NEW reg, NEW W, IsRegistry(reg, W), NEW s
    PROVE  LET new == Activate(reg, s) IN
           /\ IsRegistry(new, W)
           /\ new.next = reg.next /\ new.entries = reg.entries
           /\ new.active = IdOf(reg, s) /\ IdOf(new, s) = IdOf(reg, s)
BY DEF IsRegistry, Activate, Registered, IdOf

LEMMA BumpedIsRegistry ==
    ASSUME NEW reg, NEW W, IsRegistry(reg, W), NEW s
    PROVE  LET new == Bump(reg, s) IN
           /\ IsRegistry(new, W)
           /\ new.next = reg.next /\ new.active = reg.active
           /\ \A t \in W : /\ new.entries[t].id = reg.entries[t].id
                           /\ new.entries[t].generation =
                                IF t = s THEN reg.entries[t].generation + 1
                                         ELSE reg.entries[t].generation
BY DEF IsRegistry, Bump, Registered

LEMMA ResolvedIsRegistered ==
    ASSUME NEW reg, NEW W, IsRegistry(reg, W), NEW id,
           Resolve(reg, id) # NoSession
    PROVE  Resolve(reg, id) \in W /\ reg.entries[Resolve(reg, id)].id = id
<1> DEFINE found == {s \in Registered(reg) : reg.entries[s].id = id}
<1>1. found # {} BY DEF Resolve
<1>2. Resolve(reg, id) = CHOOSE s \in found : TRUE BY <1>1 DEF Resolve
<1>3. Resolve(reg, id) \in found BY <1>1, <1>2
<1> QED BY <1>3 DEF IsRegistry, Registered

-----------------------------------------------------------------------------
(* Lists. *)

LEMMA AppendedList ==
    ASSUME NEW list \in Seq(Addresses), IsInjective(list), NEW s \in Addresses,
           s \notin ToSet(list)
    PROVE  LET new == Append(list, s) IN
           /\ new \in Seq(Addresses) /\ IsInjective(new)
           /\ ToSet(new) = ToSet(list) \union {s} /\ new # <<>>
<1> DEFINE new == Append(list, s)
<1>1. /\ new \in Seq(Addresses) /\ new # <<>> /\ DOMAIN new = 1..(Len(list) + 1)
      /\ new[Len(list) + 1] = s /\ \A k \in 1..Len(list) : new[k] = list[k]
      /\ DOMAIN list = 1..Len(list) /\ Len(list) \in Nat
  OBVIOUS
<1>2. \A k \in 1..Len(list) : list[k] # s BY <1>1 DEF ToSet
<1> HIDE DEF new
<1>3. IsInjective(new)
  <2> SUFFICES ASSUME NEW j \in 1..(Len(list) + 1), NEW k \in 1..(Len(list) + 1), new[j] = new[k]
               PROVE  j = k
    BY <1>1 DEF IsInjective
  <2>1. CASE j \in 1..Len(list) /\ k \in 1..Len(list) BY <2>1, <1>1 DEF IsInjective
  <2>2. CASE j = Len(list) + 1 \/ k = Len(list) + 1 BY <2>2, <1>1, <1>2
  <2> QED BY <2>1, <2>2, <1>1
<1>4. ToSet(new) = ToSet(list) \union {s}
  <2>1. ToSet(new) = {new[k] : k \in 1..(Len(list) + 1)} BY <1>1 DEF ToSet
  <2>2. ToSet(list) = {list[k] : k \in 1..Len(list)} BY <1>1 DEF ToSet
  <2> QED BY <2>1, <2>2, <1>1
<1> QED BY <1>1, <1>3, <1>4 DEF new

LEMMA ShortenedList ==
    ASSUME NEW list \in Seq(Addresses), IsInjective(list), NEW s \in ToSet(list)
    PROVE  LET new == Without(list, s) IN
           /\ Position(list, s) \in DOMAIN list /\ list[Position(list, s)] = s
           /\ new \in Seq(Addresses) /\ IsInjective(new)
           /\ Len(new) = Len(list) - 1
           /\ ToSet(new) = ToSet(list) \ {s}
<1> DEFINE i == Position(list, s)
           new == Without(list, s)
<1>1. i \in DOMAIN list /\ list[i] = s BY DEF Position, ToSet
<1>2. new = SubSeq(list, 1, i - 1) \o SubSeq(list, i + 1, Len(list)) BY DEF Without, RemoveAt
<1> HIDE DEF i, new
<1>3. i \in 1..Len(list) /\ DOMAIN list = 1..Len(list) /\ Len(list) \in Nat BY <1>1
<1>4. /\ new \in Seq(Addresses) /\ Len(new) = Len(list) - 1 /\ DOMAIN new = 1..(Len(list) - 1)
      /\ \A k \in 1..(Len(list) - 1) : new[k] = IF k < i THEN list[k] ELSE list[k + 1]
  <2> DEFINE front == SubSeq(list, 1, i - 1)
             back == SubSeq(list, i + 1, Len(list))
  <2>1. /\ front \in Seq(Addresses) /\ Len(front) = i - 1
        /\ \A k \in 1..(i - 1) : front[k] = list[k]
    <3>1. \A k \in 1..(i - 1) : list[k] \in Addresses BY <1>3
    <3>2. 1 \in Int /\ i - 1 \in Int BY <1>3
    <3> HIDE DEF front
    <3>3. /\ front \in Seq(Addresses) /\ Len(front) = IF 1 <= i - 1 THEN i - 1 - 1 + 1 ELSE 0
          /\ \A k \in 1..(i - 1 - 1 + 1) : front[k] = list[1 + k - 1]
      BY <3>1, <3>2, SubSeqProperties DEF front
    <3> QED BY <3>3, <1>3
  <2>2. /\ back \in Seq(Addresses) /\ Len(back) = Len(list) - i
        /\ \A k \in 1..(Len(list) - i) : back[k] = list[i + k]
    <3>1. \A k \in (i + 1)..Len(list) : list[k] \in Addresses BY <1>3
    <3>2. i + 1 \in Int /\ Len(list) \in Int BY <1>3
    <3> HIDE DEF back
    <3>3. /\ back \in Seq(Addresses)
          /\ Len(back) = IF i + 1 <= Len(list) THEN Len(list) - (i + 1) + 1 ELSE 0
          /\ \A k \in 1..(Len(list) - (i + 1) + 1) : back[k] = list[(i + 1) + k - 1]
      BY <3>1, <3>2, SubSeqProperties DEF back
    <3>4. Len(back) = Len(list) - i
      <4>1. Len(back) = IF i + 1 <= Len(list) THEN Len(list) - (i + 1) + 1 ELSE 0 BY <3>3
      <4>2. CASE i + 1 <= Len(list) BY <4>1, <4>2, <1>3
      <4>3. CASE i = Len(list) BY <4>1, <4>3, <1>3
      <4>4. i + 1 <= Len(list) \/ i = Len(list)
        <5>1. \A n \in Nat : \A j \in 1..n : j + 1 <= n \/ j = n OBVIOUS
        <5> QED BY <5>1, <1>3
      <4> QED BY <4>2, <4>3, <4>4
    <3>5. ASSUME NEW k \in 1..(Len(list) - i) PROVE back[k] = list[i + k]
      <4>1. k \in 1..(Len(list) - (i + 1) + 1) BY <1>3
      <4>2. (i + 1) + k - 1 = i + k BY <1>3
      <4>3. back[k] = list[(i + 1) + k - 1] BY <4>1, <3>3
      <4> QED BY <4>2, <4>3
    <3> QED BY <3>3, <3>4, <3>5
  <2>3. new = front \o back BY <1>2
  <2> HIDE DEF front, back
  <2>4. /\ new \in Seq(Addresses) /\ Len(new) = Len(list) - 1
        /\ \A k \in 1..(Len(list) - 1) : new[k] = IF k <= i - 1 THEN front[k] ELSE back[k - (i - 1)]
    <3>1. front \o back \in Seq(Addresses) /\ Len(front \o back) = Len(list) - 1
      <4>1. /\ front \o back \in Seq(Addresses)
            /\ Len(front \o back) = Len(front) + Len(back)
        BY <2>1, <2>2, ConcatProperties
      <4> QED BY <4>1, <2>1, <2>2, <1>3
    <3>2. ASSUME NEW k \in 1..(Len(list) - 1)
          PROVE  (front \o back)[k] = IF k <= i - 1 THEN front[k] ELSE back[k - (i - 1)]
      <4>1. Len(front) + Len(back) = Len(list) - 1 BY <2>1, <2>2, <1>3
      <4>2. (front \o back)[k] = IF k <= Len(front) THEN front[k] ELSE back[k - Len(front)]
        BY <4>1, <2>1, <2>2, ConcatProperties, SMTT(30)
      <4> QED BY <4>2, <2>1
    <3> QED BY <3>1, <3>2, <2>3
  <2>5. ASSUME NEW k \in 1..(Len(list) - 1) PROVE new[k] = IF k < i THEN list[k] ELSE list[k + 1]
    <3>1. CASE k < i BY <3>1, <2>1, <2>4, <1>3
    <3>2. CASE ~(k < i)
      <4>1. k - (i - 1) \in 1..(Len(list) - i) /\ i + (k - (i - 1)) = k + 1 BY <3>2, <1>3
      <4> QED BY <4>1, <3>2, <2>2, <2>4, <1>3
    <3> QED BY <3>1, <3>2
  <2> QED BY <2>4, <2>5
<1>5. IsInjective(new)
  <2> SUFFICES ASSUME NEW j \in 1..(Len(list) - 1), NEW k \in 1..(Len(list) - 1), new[j] = new[k]
               PROVE  j = k
    BY <1>4 DEF IsInjective
  <2>1. \A m, n \in 1..Len(list) : list[m] = list[n] => m = n BY <1>3 DEF IsInjective
  <2> QED BY <2>1, <1>3, <1>4
<1>6. ToSet(new) = ToSet(list) \ {s}
  <2>1. ToSet(new) = {new[k] : k \in 1..(Len(list) - 1)} BY <1>4 DEF ToSet
  <2>2. ToSet(list) = {list[k] : k \in 1..Len(list)} BY <1>3 DEF ToSet
  <2>3. \A m, n \in 1..Len(list) : list[m] = list[n] => m = n BY <1>3 DEF IsInjective
  <2>4. ASSUME NEW k \in 1..(Len(list) - 1) PROVE new[k] \in ToSet(list) \ {s}
    BY <1>1, <1>3, <1>4, <2>2, <2>3
  <2>5. ASSUME NEW t \in ToSet(list), t # s PROVE t \in ToSet(new)
    <3>1. PICK k \in 1..Len(list) : list[k] = t BY <2>2
    <3>2. k # i BY <3>1, <2>5, <1>1
    <3>3. CASE k < i BY <3>1, <3>3, <1>3, <1>4, <2>1
    <3>4. CASE k > i
      <4>1. k - 1 \in 1..(Len(list) - 1) /\ ~(k - 1 < i) BY <3>4, <1>3
      <4>2. new[k - 1] = list[(k - 1) + 1] /\ (k - 1) + 1 = k BY <4>1, <1>3, <1>4
      <4> QED BY <4>1, <4>2, <3>1, <2>1
    <3> QED BY <3>2, <3>3, <3>4, <1>3
  <2>6. ToSet(new) \subseteq ToSet(list) \ {s} BY <2>1, <2>4
  <2> QED BY <2>5, <2>6
<1> QED BY <1>1, <1>4, <1>5, <1>6 DEF i, new

-----------------------------------------------------------------------------
(* The invariant. *)

LEMMA WindowInitially == WindowInit => WindowInv
<1> SUFFICES ASSUME WindowInit PROVE WindowInv OBVIOUS
<1>1. ListInv
  BY DEF WindowInit, ListInv, Lists, IsInjective, ToSet
<1>2. IsRegistry(registry, windows) BY EmptyIsRegistry DEF WindowInit
<1>3. FocusInv
  BY DEF WindowInit, FocusInv, EmptyRegistry, IdOf, Registered
<1>4. CaptureTyped /\ SeenInv BY DEF WindowInit, CaptureTyped, SeenInv, NothingSeen, EmptyRegistry
<1>5. WritesWhatWasRead BY DEF WindowInit, WritesWhatWasRead
<1> QED BY <1>1, <1>2, <1>3, <1>4, <1>5 DEF WindowInv

\* The current session has the only entry with its id.
LEMMA IdOfRegistered ==
    ASSUME NEW reg, NEW W, IsRegistry(reg, W), NEW s
    PROVE  IdOf(reg, s) = IF s \in W THEN reg.entries[s].id ELSE 0
BY DEF IsRegistry, IdOf, Registered

LEMMA AddKeeps ==
    ASSUME WindowInv, NEW s \in Addresses, AddSession(s)
    PROVE  WindowInv'
<1>1. s \notin windows /\ s \notin ToSet(sessions) /\ s \notin ToSet(tabs)
  BY DEF AddSession, Alive, Owned, WindowInv, ListInv, Lists
<1>2. ListInv'
  <2>1. Lists(sessions)' BY <1>1, AppendedList DEF AddSession, WindowInv, ListInv, Lists
  <2>2. Lists(tabs)' BY <1>1, AppendedList DEF AddSession, WindowInv, ListInv, Lists
  <2> QED BY <2>1, <2>2 DEF AddSession, WindowInv, ListInv
<1> DEFINE added == AddEntry(registry, s)
<1>3. /\ IsRegistry(added, windows') /\ added.next = registry.next + 1
      /\ added.entries[s] = [id |-> registry.next, generation |-> 1]
      /\ \A t \in windows : added.entries[t] = registry.entries[t]
  <2>1. IsRegistry(registry, windows) BY DEF WindowInv
  <2>2. windows' = windows \union {s} BY DEF AddSession
  <2>3. s \notin windows BY <1>1
  <2>4. /\ IsRegistry(added, windows \union {s}) /\ added.next = registry.next + 1
        /\ added.entries[s] = [id |-> registry.next, generation |-> 1]
        /\ \A t \in windows : added.entries[t] = registry.entries[t]
    BY ONLY <2>1, <2>3 DEF IsRegistry, AddEntry, Registered
  <2> QED BY <2>2, <2>4
<1>4. registry' = Activate(added, s) /\ lastFocused' = s /\ current' = s
  BY DEF AddSession, FocusIn
<1>5. windows' = windows \union {s} /\ tabs' = Append(tabs, s) BY DEF AddSession
<1> HIDE DEF added
<1>6. /\ IsRegistry(registry, windows)' /\ registry'.next = registry.next + 1
      /\ registry'.entries = added.entries /\ registry'.active = IdOf(registry', s)
  BY <1>3, <1>4, ActivatedIsRegistry
<1>7. FocusInv'
  <2>1. tabs' # <<>> BY <1>1, <1>5, AppendedList DEF WindowInv, ListInv, Lists
  <2>2. s # NoSession BY WindowAssumption
  <2> QED BY <2>1, <2>2, <1>4, <1>5, <1>6 DEF FocusInv
<1>8. CaptureTyped'
  BY DEF AddSession, WindowInv, CaptureTyped
<1>9. SeenInv'
  <2>1. /\ seen' = seen /\ SeenInv /\ IsRegistry(registry, windows) /\ CaptureTyped
        /\ windows \subseteq Addresses
    BY DEF AddSession, mcpVars, WindowInv, ListInv
  <2>2. registry.next \in Nat /\ seen.id \in Nat /\ seen.id < registry.next
    BY <2>1 DEF IsRegistry, SeenInv
  <2>3. \A t \in windows : /\ registry'.entries[t] = registry.entries[t]
                          /\ posted'[t] = posted[t] /\ capture'[t] = capture[t]
    BY <1>1, <1>3, <1>6, <2>1 DEF AddSession, CaptureTyped
  <2>4. registry'.entries[s].id # seen.id BY <1>3, <1>6, <2>2
  <2>5. ASSUME NEW t \in windows', registry'.entries[t].id = seen'.id PROVE SeenOf(t)'
    <3>1. t \in windows BY <1>5, <2>1, <2>4, <2>5
    <3>2. SeenOf(t) BY <2>1, <2>3, <2>5, <3>1 DEF SeenInv
    <3> QED BY <2>1, <2>3, <3>1, <3>2 DEF SeenOf, Running
  <2> QED BY <1>6, <2>1, <2>2, <2>5 DEF SeenInv
<1>10. WritesWhatWasRead' BY DEF AddSession, mcpVars, WindowInv, WritesWhatWasRead
<1> QED BY <1>2, <1>6, <1>7, <1>8, <1>9, <1>10 DEF WindowInv

LEMMA SwitchKeeps ==
    ASSUME WindowInv, NEW s \in Addresses, SwitchTo(s)
    PROVE  WindowInv'
<1>1. s \in windows BY DEF SwitchTo, WindowInv, ListInv, Lists
<1>2. /\ registry' = Activate(registry, s) /\ lastFocused' = s /\ current' = s
      /\ windows' = windows /\ tabs' = tabs /\ sessions' = sessions
      /\ capture' = capture /\ posted' = posted /\ seen' = seen /\ misdirected' = misdirected
  BY DEF SwitchTo, FocusIn, captureVars, mcpVars
<1>3. /\ IsRegistry(registry, windows)' /\ registry'.next = registry.next
      /\ registry'.entries = registry.entries /\ registry'.active = IdOf(registry', s)
  BY <1>2, ActivatedIsRegistry DEF WindowInv
<1>4. ListInv' BY <1>2 DEF WindowInv, ListInv, Lists
<1>5. FocusInv'
  <2>1. s # NoSession BY WindowAssumption
  <2>2. tabs # <<>> BY DEF SwitchTo, ToSet
  <2> QED BY <2>1, <2>2, <1>1, <1>2, <1>3 DEF FocusInv
<1>6. CaptureTyped' /\ SeenInv'
  BY <1>2, <1>3 DEF WindowInv, CaptureTyped, SeenInv, SeenOf, Running
<1>7. WritesWhatWasRead' BY <1>2 DEF WindowInv, WritesWhatWasRead
<1> QED BY <1>3, <1>4, <1>5, <1>6, <1>7 DEF WindowInv

\* What only counts a generation on, or nothing, leaves lists, ids and focus alone.
LEMMA BumpKeeps ==
    ASSUME WindowInv, NEW s,
           UNCHANGED listVars, registry' = Bump(registry, s)
    PROVE  /\ ListInv' /\ IsRegistry(registry, windows)' /\ FocusInv'
           /\ registry'.next = registry.next
           /\ \A t \in windows : /\ registry'.entries[t].id = registry.entries[t].id
                                 /\ registry'.entries[t].generation =
                                      IF t = s THEN registry.entries[t].generation + 1
                                               ELSE registry.entries[t].generation
<1>1. /\ IsRegistry(registry, windows)'
      /\ registry'.next = registry.next /\ registry'.active = registry.active
      /\ \A t \in windows : /\ registry'.entries[t].id = registry.entries[t].id
                            /\ registry'.entries[t].generation =
                                 IF t = s THEN registry.entries[t].generation + 1
                                          ELSE registry.entries[t].generation
  BY BumpedIsRegistry DEF WindowInv, listVars
<1>2. ListInv' BY DEF WindowInv, ListInv, Lists, listVars
<1>3. FocusInv'
  <2>1. IdOf(registry, current)' = IdOf(registry, current)
    BY <1>1, IdOfRegistered DEF WindowInv, listVars
  <2> QED BY <1>1, <2>1 DEF WindowInv, FocusInv, listVars
<1> QED BY <1>1, <1>2, <1>3

\* A generation that counts on is not the one read any more.
LEMMA BumpKeepsSeen ==
    ASSUME WindowInv, NEW s, UNCHANGED <<listVars, seen>>, registry' = Bump(registry, s),
           \A t \in windows : t # s => posted'[t] = posted[t] /\ capture'[t] = capture[t]
    PROVE  SeenInv'
<1>1. SeenInv /\ IsRegistry(registry, windows) /\ windows' = windows /\ seen' = seen
  BY DEF WindowInv, listVars
<1>2. /\ registry'.next = registry.next
      /\ \A t \in windows : /\ registry'.entries[t].id = registry.entries[t].id
                            /\ registry'.entries[t].generation =
                                 IF t = s THEN registry.entries[t].generation + 1
                                          ELSE registry.entries[t].generation
  BY BumpKeeps DEF listVars
<1>3. ASSUME NEW t \in windows, registry'.entries[t].id = seen.id PROVE SeenOf(t)'
  <2>1. SeenOf(t) BY <1>1, <1>2, <1>3 DEF SeenInv
  <2>2. CASE t # s BY <1>1, <1>2, <2>1, <2>2 DEF SeenOf, Running
  <2>3. CASE t = s
    <3>1. registry.entries[t].generation \in Nat /\ seen.generation \in Nat
      BY <1>1 DEF IsRegistry, SeenInv
    <3> QED BY <1>1, <1>2, <2>1, <2>3, <3>1 DEF SeenOf
  <2> QED BY <2>2, <2>3
<1> QED BY <1>1, <1>2, <1>3 DEF SeenInv

LEMMA ChangeKeeps ==
    ASSUME WindowInv, NEW s \in Addresses, ChangeSession(s)
    PROVE  WindowInv'
<1>1. /\ UNCHANGED <<listVars, seen, misdirected, capture, posted>>
      /\ registry' = Bump(registry, s)
  BY DEF ChangeSession, captureVars, mcpVars
<1>2. SeenInv' BY <1>1, BumpKeepsSeen
<1>3. CaptureTyped' /\ WritesWhatWasRead' BY <1>1 DEF WindowInv, CaptureTyped, WritesWhatWasRead
<1> QED BY <1>1, <1>2, <1>3, BumpKeeps DEF WindowInv

LEMMA DeliverKeeps ==
    ASSUME WindowInv, NEW s \in Addresses, DeliverState(s)
    PROVE  WindowInv'
<1>1. /\ UNCHANGED <<listVars, seen, misdirected, capture>> /\ registry' = Bump(registry, s)
      /\ posted[s] > 0 /\ posted' = [posted EXCEPT ![s] = @ - 1]
  BY DEF DeliverState, mcpVars
<1>2. SeenInv'
  BY <1>1, BumpKeepsSeen DEF WindowInv, ListInv, CaptureTyped
<1>3. CaptureTyped' /\ WritesWhatWasRead' BY <1>1 DEF WindowInv, CaptureTyped, WritesWhatWasRead
<1> QED BY <1>1, <1>2, <1>3, BumpKeeps DEF WindowInv

\* A tool that names its session and passes the test of the generation finds what was read.
LEMMA ActsOnWhatWasRead ==
    ASSUME WindowInv, NEW explicit \in BOOLEAN,
           Accepts(Target(explicit)), ActsOn(Target(explicit), explicit)
    PROVE  WritesWhatWasRead' /\ Target(explicit) \in windows
<1> DEFINE s == Target(explicit)
           id == IF explicit THEN seen.id ELSE registry.active
<1>1. /\ s = Resolve(registry, id) /\ s # NoSession
      /\ registry.entries[s].generation = seen.generation
      /\ misdirected' = (misdirected \/ (explicit /\ ReadAnother(s)))
      /\ explicit => id = seen.id
  BY DEF Target, Accepts, ActsOn
<1> HIDE DEF s, id
<1>2. s \in windows /\ (explicit => registry.entries[s].id = seen.id)
  BY <1>1, ResolvedIsRegistered DEF WindowInv
<1>3. ASSUME explicit PROVE ~ReadAnother(s)
  <2>1. registry.entries[s].id = seen.id BY <1>2, <1>3
  <2>2. SeenOf(s) BY <1>2, <2>1 DEF WindowInv, SeenInv
  <2>3. posted[s] \in Nat /\ seen.posted \in Nat
    BY <1>2 DEF WindowInv, CaptureTyped, SeenInv, ListInv
  <2> QED BY <1>1, <2>1, <2>2, <2>3 DEF SeenOf, ReadAnother
<1>4. ~misdirected BY DEF WindowInv, WritesWhatWasRead
<1> QED BY <1>1, <1>2, <1>3, <1>4 DEF WritesWhatWasRead, s

\* Captures leave lists and registry alone, and announce every change of their state.
LEMMA CapturesKeep ==
    ASSUME WindowInv, UNCHANGED <<listVars, registry, seen>>, CaptureTyped', WritesWhatWasRead',
           \A s \in windows :
              \/ posted'[s] > posted[s]
              \/ posted'[s] = posted[s] /\ (capture'[s] = "running" <=> capture[s] = "running")
    PROVE  WindowInv'
<1>1. ListInv' BY DEF WindowInv, ListInv, Lists, listVars
<1>2. IsRegistry(registry, windows)' BY DEF WindowInv, listVars
<1>3. FocusInv' BY DEF WindowInv, FocusInv, IdOf, Registered, listVars
<1>4. SeenInv'
  <2>1. seen' = seen /\ windows' = windows /\ registry' = registry /\ windows \subseteq Addresses
    BY DEF listVars, WindowInv, ListInv
  <2>2. SeenInv /\ CaptureTyped BY DEF WindowInv
  <2>3. ASSUME NEW s \in windows, registry.entries[s].id = seen.id PROVE SeenOf(s)'
    <3>1. SeenOf(s) BY <2>2, <2>3 DEF SeenInv
    <3>2. posted[s] \in Nat /\ posted'[s] \in Nat /\ seen.posted \in Nat
      BY <2>1, <2>2 DEF CaptureTyped, SeenInv
    <3> QED BY <2>1, <3>1, <3>2 DEF SeenOf, Running
  <2> QED BY <2>1, <2>2, <2>3 DEF SeenInv
<1> QED BY <1>1, <1>2, <1>3, <1>4 DEF WindowInv

LEMMA SetCapturingKeeps ==
    ASSUME WindowInv, NEW S, NEW on \in BOOLEAN, SetCapturing(S, on),
           UNCHANGED <<listVars, registry, seen>>, WritesWhatWasRead'
    PROVE  WindowInv'
<1>1. CaptureTyped /\ windows \subseteq Addresses BY DEF WindowInv, ListInv
<1>2. \A s \in Addresses : Announced(capture, s) \in Nat BY <1>1 DEF Announced
<1>3. CaptureTyped' BY <1>1, <1>2 DEF SetCapturing, CaptureTyped
<1>4. ASSUME NEW s \in windows
      PROVE  \/ posted'[s] > posted[s]
             \/ posted'[s] = posted[s] /\ (capture'[s] = "running" <=> capture[s] = "running")
  <2>1. /\ s \in Addresses /\ posted[s] \in Nat
        /\ posted'[s] = IF s \in S THEN posted[s] + Announced(capture, s) ELSE posted[s]
        /\ capture'[s] = IF s \in S THEN (IF on THEN "starting" ELSE "idle") ELSE capture[s]
    BY <1>1 DEF SetCapturing, CaptureTyped
  <2>2. capture[s] = "idle" => Announced(capture, s) = 0 BY DEF Announced
  <2>3. capture[s] # "idle" => Announced(capture, s) > 0 BY DEF Announced
  <2>4. Announced(capture, s) \in Nat BY <1>2, <2>1
  <2>5. CASE s \notin S BY <2>1, <2>5
  <2>6. CASE s \in S /\ capture[s] = "idle" BY <2>1, <2>2, <2>6
  <2>7. CASE s \in S /\ capture[s] # "idle" BY <2>1, <2>3, <2>4, <2>7
  <2> QED BY <2>5, <2>6, <2>7
<1> QED BY <1>3, <1>4, CapturesKeep

LEMMA WriteKeeps ==
    ASSUME WindowInv, NEW explicit \in BOOLEAN, Write(explicit)
    PROVE  WindowInv'
<1> DEFINE s == Target(explicit)
<1>1. /\ UNCHANGED <<listVars, capture, posted, seen>>
      /\ Accepts(s) /\ ActsOn(s, explicit)
      /\ registry' = registry \/ registry' = Bump(registry, s)
  BY DEF Write, captureVars
<1>2. WritesWhatWasRead' BY <1>1, ActsOnWhatWasRead
<1>3. CaptureTyped' BY <1>1 DEF WindowInv, CaptureTyped
<1> HIDE DEF s
<1>4. CASE registry' = registry BY <1>1, <1>2, <1>3, <1>4, CapturesKeep
<1>5. CASE registry' = Bump(registry, s)
  BY <1>1, <1>2, <1>3, <1>5, BumpKeeps, BumpKeepsSeen DEF WindowInv
<1> QED BY <1>1, <1>4, <1>5

LEMMA WaitingKeeps ==
    ASSUME WindowInv, NEW explicit \in BOOLEAN, WaitingTool(explicit)
    PROVE  WindowInv'
<1> DEFINE s == Target(explicit)
<1>1. /\ UNCHANGED <<listVars, registry, seen>>
      /\ Accepts(s) /\ ActsOn(s, explicit)
      /\ SetCapturing({s}, TRUE) \/ UNCHANGED captureVars
  BY DEF WaitingTool
<1>2. WritesWhatWasRead' BY <1>1, ActsOnWhatWasRead
<1> HIDE DEF s
<1>3. CASE SetCapturing({s}, TRUE) BY <1>1, <1>2, <1>3, SetCapturingKeeps
<1>4. CASE UNCHANGED captureVars
  <2>1. CaptureTyped' BY <1>4 DEF WindowInv, CaptureTyped, captureVars
  <2> QED BY <1>1, <1>2, <1>4, <2>1, CapturesKeep DEF captureVars
<1> QED BY <1>1, <1>3, <1>4

LEMMA GetKeeps ==
    ASSUME WindowInv, NEW s \in Addresses, GetSession(s)
    PROVE  WindowInv'
<1>1. /\ UNCHANGED <<listVars, registry, capture, posted, misdirected>> /\ s \in windows
      /\ seen' = [id |-> registry.entries[s].id, generation |-> registry.entries[s].generation,
                  running |-> Running(s), posted |-> posted[s]]
  BY DEF GetSession, captureVars, WindowInv, IsRegistry, Registered
<1>2. ListInv' BY <1>1 DEF WindowInv, ListInv, Lists, listVars
<1>3. IsRegistry(registry, windows)' BY <1>1 DEF WindowInv, listVars
<1>4. FocusInv' BY <1>1 DEF WindowInv, FocusInv, listVars
<1>5. SeenInv'
  <2>1. /\ registry.entries[s] \in [id : Nat, generation : Nat]
        /\ Running(s) \in BOOLEAN /\ posted[s] \in Nat
        /\ registry.entries[s].id < registry.next
        /\ \A t \in windows : registry.entries[t].id = registry.entries[s].id => t = s
    BY <1>1 DEF WindowInv, IsRegistry, CaptureTyped, ListInv, Running
  <2> QED BY <1>1, <2>1 DEF SeenInv, SeenOf, Running, listVars
<1>6. CaptureTyped' /\ WritesWhatWasRead' BY <1>1 DEF WindowInv, CaptureTyped, WritesWhatWasRead
<1> QED BY <1>2, <1>3, <1>4, <1>5, <1>6 DEF WindowInv

\* As long as there are sessions one of them is shown.
LEMMA SomeCurrent ==
    ASSUME ListInv, FocusInv, windows # {}
    PROVE  current \in windows
<1>1. tabs # <<>> BY DEF ListInv, Lists, ToSet
<1> QED BY <1>1 DEF FocusInv

\* The tab shown next is one of those left, and none if none is left.
LEMMA NeighbourIsLeft ==
    ASSUME ListInv, FocusInv, NEW s \in windows
    PROVE  /\ Neighbour(s) \in (windows \ {s}) \union {NoSession}
           /\ Neighbour(s) = NoSession <=> Without(tabs, s) = <<>>
<1>1. tabs \in Seq(Addresses) /\ IsInjective(tabs) /\ s \in ToSet(tabs) /\ ToSet(tabs) = windows
  BY DEF ListInv, Lists
<1> DEFINE rest == Without(tabs, s)
           i == Position(tabs, s)
<1>2. /\ i \in 1..Len(tabs) /\ rest \in Seq(Addresses) /\ Len(rest) = Len(tabs) - 1
      /\ ToSet(rest) = windows \ {s}
  BY <1>1, ShortenedList
<1>3. \A t \in windows : t # NoSession BY WindowAssumption DEF ListInv
<1>4. Neighbour(s) = IF current # s THEN current
                     ELSE IF rest = <<>> THEN NoSession
                     ELSE IF i <= Len(rest) THEN rest[i] ELSE Last(rest)
  BY DEF Neighbour
<1> HIDE DEF rest, i
<1>5. ToSet(rest) = {rest[k] : k \in 1..Len(rest)} BY <1>2 DEF ToSet
<1>6. rest = <<>> <=> windows \ {s} = {}
  <2>1. CASE Len(rest) = 0
    <3>1. rest = <<>> BY <1>2, <2>1
    <3>2. ToSet(rest) = {} BY <1>5, <2>1
    <3> QED BY <1>2, <3>1, <3>2
  <2>2. CASE Len(rest) # 0
    <3>1. 1 \in 1..Len(rest) BY <1>2, <2>2
    <3> QED BY <1>2, <1>5, <2>2, <3>1
  <2> QED BY <2>1, <2>2
<1>7. CASE current # s
  <2>1. current \in windows BY SomeCurrent
  <2> QED BY <1>3, <1>4, <1>6, <1>7, <2>1 DEF rest
<1>8. CASE current = s /\ rest = <<>> BY <1>4, <1>8 DEF rest
<1>9. CASE current = s /\ rest # <<>>
  <2>1. Len(rest) \in 1..Len(rest) /\ (i <= Len(rest) => i \in 1..Len(rest)) BY <1>2, <1>9
  <2>2. Neighbour(s) \in ToSet(rest) BY <1>4, <1>5, <1>9, <2>1 DEF Last
  <2> QED BY <1>2, <1>3, <1>9, <2>2 DEF rest
<1> QED BY <1>7, <1>8, <1>9

LEMMA RemoveKeeps ==
    ASSUME WindowInv, RemoveEnds
    PROVE  WindowInv'
<1> DEFINE s == Last(frames).session
<1>1. UNCHANGED mcpVars BY DEF RemoveEnds
<1>2. WritesWhatWasRead' BY <1>1 DEF WindowInv, WritesWhatWasRead, mcpVars
<1>3. CASE s \notin windows
  <2>1. UNCHANGED <<listVars, registry, capture, posted>> BY <1>3 DEF RemoveEnds
  <2>2. CaptureTyped' BY <2>1 DEF WindowInv, CaptureTyped
  <2> QED BY <1>1, <1>2, <2>1, <2>2, CapturesKeep DEF mcpVars
<1>4. CASE s \in windows
  <2> DEFINE removed == RemoveEntry(registry, s)
  <2>1. /\ sessions' = Without(sessions, s) /\ tabs' = Without(tabs, s)
        /\ windows' = windows \ {s} /\ current' = Neighbour(s)
        /\ IF CurrentChanges(s)
           THEN registry' = Activate(removed, current') /\ lastFocused' = current'
           ELSE registry' = removed /\ lastFocused' = IF lastFocused = s THEN NoSession ELSE lastFocused
        /\ Released(s, sessions', frames')
    BY <1>4 DEF RemoveEnds, FocusIn, WithoutWindow
  <2> HIDE DEF s
  <2>2. ListInv'
    <3>1. /\ sessions \in Seq(Addresses) /\ IsInjective(sessions) /\ ToSet(sessions) = windows
          /\ tabs \in Seq(Addresses) /\ IsInjective(tabs) /\ ToSet(tabs) = windows
          /\ windows \subseteq Addresses
      BY DEF WindowInv, ListInv, Lists
    <3>2. Lists(sessions)' BY <1>4, <2>1, <3>1, ShortenedList DEF Lists
    <3>3. Lists(tabs)' BY <1>4, <2>1, <3>1, ShortenedList DEF Lists
    <3> QED BY <2>1, <3>1, <3>2, <3>3 DEF ListInv
  <2>3. /\ IsRegistry(removed, windows \ {s}) /\ removed.next = registry.next
        /\ removed.active = IF registry.active = registry.entries[s].id THEN 0 ELSE registry.active
        /\ \A t \in windows \ {s} : removed.entries[t] = registry.entries[t]
    BY <1>4 DEF WindowInv, IsRegistry, RemoveEntry, Registered, IdOf
  <2> HIDE DEF removed
  <2>4. IsRegistry(registry', windows \ {s}) /\ registry'.entries = removed.entries
        /\ registry'.next = removed.next
    <3>1. CASE CurrentChanges(s) BY <2>1, <2>3, <3>1, ActivatedIsRegistry
    <3>2. CASE ~CurrentChanges(s) BY <2>1, <2>3, <3>2
    <3> QED BY <3>1, <3>2
  <2>5. IsRegistry(registry, windows)' BY <2>1, <2>4
  <2>6. FocusInv'
    <3>1. /\ current' \in windows' \union {NoSession}
          /\ current' = NoSession <=> tabs' = <<>>
      BY <1>4, <2>1, NeighbourIsLeft DEF WindowInv
    <3>2. CASE CurrentChanges(s)
      <4>1. registry'.active = IdOf(registry', current') BY <2>1, <2>3, <3>2, ActivatedIsRegistry
      <4> QED BY <2>1, <3>1, <3>2, <4>1 DEF FocusInv
    <3>3. CASE ~CurrentChanges(s) /\ current = s
      <4>1. tabs' = <<>>
        <5>1. tabs \in Seq(Addresses) /\ IsInjective(tabs) /\ s \in ToSet(tabs) BY <1>4 DEF WindowInv, ListInv, Lists
        <5>2. PICK k \in DOMAIN tabs : tabs[k] = s BY <5>1 DEF ToSet
        <5>3. ~(Len(tabs) > 1) BY <3>3, <5>2, <5>1 DEF CurrentChanges
        <5>4. Len(tabs') = 0 /\ tabs' \in Seq(Addresses) BY <2>1, <5>1, <5>2, <5>3, ShortenedList
        <5> QED BY <5>4
      <4>2. current' = NoSession /\ lastFocused' = NoSession
        BY <2>1, <3>1, <3>3, <4>1 DEF WindowInv, FocusInv
      <4>3. NoSession \notin windows' /\ NoSession \notin windows
        BY <2>1, WindowAssumption DEF WindowInv, ListInv
      <4>4. IdOf(registry', NoSession) = 0 BY <4>3, <2>5, IdOfRegistered
      <4>5. registry.active = registry.entries[s].id
        BY <1>4, <3>3, IdOfRegistered DEF WindowInv, FocusInv
      <4> QED BY <2>1, <2>3, <3>1, <3>3, <4>2, <4>4, <4>5 DEF FocusInv
    <3>4. CASE ~CurrentChanges(s) /\ current # s
      <4>1. current' = current /\ lastFocused' = current
        BY <2>1, <3>4 DEF WindowInv, FocusInv, Neighbour
      <4>2. current \in windows \ {s} BY <1>4, <3>4, SomeCurrent DEF WindowInv
      <4>3. registry.active = registry.entries[current].id
        BY <4>2, IdOfRegistered DEF WindowInv, FocusInv
      <4>4. registry.entries[current].id # registry.entries[s].id
        BY <1>4, <4>2 DEF WindowInv, IsRegistry
      <4>5. IdOf(registry', current) = removed.entries[current].id
        BY <2>4, <4>2, IdOfRegistered
      <4> QED BY <2>1, <2>3, <3>1, <3>4, <4>1, <4>2, <4>3, <4>4, <4>5 DEF FocusInv
    <3> QED BY <3>2, <3>3, <3>4
  <2>7. /\ CaptureTyped'
        /\ \A t \in windows' : posted'[t] = posted[t] /\ capture'[t] = capture[t]
    BY <2>1 DEF WindowInv, ListInv, CaptureTyped, Released
  <2>8. SeenInv'
    <3>1. SeenInv /\ IsRegistry(registry, windows) /\ seen' = seen BY <1>1 DEF WindowInv, mcpVars
    <3>2. registry'.next = registry.next
          /\ \A t \in windows' : registry'.entries[t] = registry.entries[t] /\ t \in windows
      BY <2>1, <2>3, <2>4
    <3>3. ASSUME NEW t \in windows', registry'.entries[t].id = seen'.id PROVE SeenOf(t)'
      <4>1. SeenOf(t) BY <3>1, <3>2, <3>3 DEF SeenInv
      <4> QED BY <2>7, <3>1, <3>2, <4>1 DEF SeenOf, Running
    <3> QED BY <3>1, <3>2, <3>3 DEF SeenInv
  <2> QED BY <1>2, <2>2, <2>5, <2>6, <2>7, <2>8 DEF WindowInv
<1> QED BY <1>3, <1>4

\* Slots and tools that only begin or end leave lists, registry and captures alone.
LEMMA OthersKeep ==
    ASSUME WindowInv, UNCHANGED <<listVars, registry, capture, posted, mcpVars>>
    PROVE  WindowInv'
<1>1. CaptureTyped' BY DEF WindowInv, CaptureTyped
<1>2. WritesWhatWasRead' BY DEF WindowInv, WritesWhatWasRead, mcpVars
<1> QED BY <1>1, <1>2, CapturesKeep DEF mcpVars

LEMMA StepKeeps == WindowInv /\ [WindowNext]_windowVars => WindowInv'
<1> SUFFICES ASSUME WindowInv, [WindowNext]_windowVars PROVE WindowInv'
  OBVIOUS
<1>1. ASSUME NEW s \in Addresses, AddSession(s) PROVE WindowInv' BY <1>1, AddKeeps
<1>2. ASSUME NEW s \in Addresses, SwitchTo(s) PROVE WindowInv' BY <1>2, SwitchKeeps
<1>3. ASSUME NEW s \in Addresses, ChangeSession(s) PROVE WindowInv' BY <1>3, ChangeKeeps
<1>4. ASSUME NEW s \in Addresses, CaptureRuns(s) \/ CaptureEnds(s) PROVE WindowInv'
  <2>1. /\ UNCHANGED <<listVars, registry, mcpVars>>
        /\ posted' = [posted EXCEPT ![s] = @ + 1]
        /\ \/ capture' = [capture EXCEPT ![s] = "running"]
           \/ capture' = [capture EXCEPT ![s] = "idle"]
    BY <1>4 DEF CaptureRuns, CaptureEnds
  <2>2. CaptureTyped /\ windows \subseteq Addresses /\ ~misdirected
    BY DEF WindowInv, ListInv, WritesWhatWasRead
  <2>3. CaptureTyped' /\ WritesWhatWasRead'
    BY <2>1, <2>2 DEF CaptureTyped, WritesWhatWasRead, mcpVars
  <2>4. \A t \in windows : \/ posted'[t] > posted[t]
                           \/ posted'[t] = posted[t] /\ capture'[t] = capture[t]
    BY <2>1, <2>2 DEF CaptureTyped
  <2> QED BY <2>1, <2>3, <2>4, CapturesKeep DEF mcpVars
<1>5. ASSUME NEW s \in Addresses, DeliverState(s) PROVE WindowInv' BY <1>5, DeliverKeeps
<1>6. ASSUME NEW s \in Addresses, GetSession(s) PROVE WindowInv' BY <1>6, GetKeeps
<1>7. ASSUME NEW slot, NEW s \in Addresses, RemoveBegins(slot, s) PROVE WindowInv'
  <2>1. /\ SetCapturing({s}, FALSE) /\ UNCHANGED <<listVars, registry, seen>>
        /\ WritesWhatWasRead'
    BY <1>7 DEF RemoveBegins, mcpVars, WindowInv, WritesWhatWasRead
  <2> QED BY <2>1, SetCapturingKeeps
<1>8. CASE RemoveEnds BY <1>8, RemoveKeeps
<1>9. CASE ToolDone
  <2> DEFINE s == Last(frames).session
  <2>1. Released(s, sessions, frames') /\ UNCHANGED <<listVars, registry, mcpVars>>
    BY <1>9 DEF ToolDone
  <2>2. /\ CaptureTyped' /\ WritesWhatWasRead'
        /\ \A t \in windows : posted'[t] = posted[t] /\ capture'[t] = capture[t]
    BY <2>1 DEF Released, Owned, WindowInv, ListInv, Lists, CaptureTyped, WritesWhatWasRead, mcpVars
  <2> QED BY <2>1, <2>2, CapturesKeep DEF mcpVars
<1>10. CASE CloseWindow BY <1>10, OthersKeep DEF CloseWindow, captureVars
<1>11. ASSUME NEW all \in BOOLEAN, RunStop(all) PROVE WindowInv'
  <2> DEFINE targets == IF all THEN ToSet(sessions) ELSE {lastFocused}
             on == \A s \in targets : ~Running(s)
  <2>1. /\ SetCapturing(targets, on) /\ on \in BOOLEAN /\ UNCHANGED <<listVars, registry, seen>>
        /\ WritesWhatWasRead'
    BY <1>11 DEF RunStop, mcpVars, WindowInv, WritesWhatWasRead
  <2> QED BY <2>1, SetCapturingKeeps
<1>12. ASSUME NEW explicit \in BOOLEAN, Write(explicit) PROVE WindowInv' BY <1>12, WriteKeeps
<1>13. ASSUME NEW explicit \in BOOLEAN, WaitingTool(explicit) PROVE WindowInv'
  BY <1>13, WaitingKeeps
<1>14. CASE UNCHANGED windowVars BY <1>14, OthersKeep DEF windowVars, captureVars
<1> QED
  BY <1>1, <1>2, <1>3, <1>4, <1>5, <1>6, <1>7, <1>8, <1>9, <1>10, <1>11, <1>12, <1>13, <1>14
  DEF WindowNext

-----------------------------------------------------------------------------
(* The button. *)

\* Captures are where their sessions are, and the button is right about the focused one.
ButtonInv ==
    /\ capture \in [Addresses -> {"idle", "starting", "running"}]
    /\ posted \in [Addresses -> Nat]
    /\ button \in BOOLEAN
    /\ ButtonTellsState

\* Announcements are never taken back: while one is under way, nothing is promised.
LEMMA CapturingKeepsButton ==
    ASSUME WindowInv, ButtonInv, NEW S, NEW on \in BOOLEAN, SetCapturing(S, on),
           UNCHANGED <<listVars, buttonVars>>,
           on => \A s \in S \intersect windows : ~Running(s)
    PROVE  ButtonInv'
<1>1. capture' \in [Addresses -> {"idle", "starting", "running"}] BY DEF SetCapturing, ButtonInv
<1>2. posted' \in [Addresses -> Nat] BY DEF SetCapturing, ButtonInv, Announced
<1>3. ButtonTellsState'
  <2> SUFFICES ASSUME lastFocused # NoSession, posted'[lastFocused] = 0, ~strayed
               PROVE  button = (capture'[lastFocused] = "running")
    BY DEF ButtonTellsState, Running, listVars, buttonVars
  <2>1. lastFocused \in windows /\ lastFocused \in Addresses BY DEF WindowInv, FocusInv, ListInv
  <2>2. CASE lastFocused \notin S
    BY <2>1, <2>2 DEF SetCapturing, ButtonInv, ButtonTellsState, Running
  <2>3. CASE lastFocused \in S
    <3>1. posted[lastFocused] = 0 /\ capture[lastFocused] = "idle"
      BY <2>1, <2>3 DEF SetCapturing, ButtonInv, Announced
    <3> QED BY <2>1, <2>3, <3>1 DEF SetCapturing, ButtonInv, ButtonTellsState, Running
  <2> QED BY <2>2, <2>3
<1> QED BY <1>1, <1>2, <1>3 DEF ButtonInv, listVars, buttonVars

\* A session that is released is not focused.
LEMMA ReleasedKeepsButton ==
    ASSUME ButtonInv, NEW s, NEW list, NEW stack, Released(s, list, stack),
           lastFocused' # NoSession => lastFocused' # s \/ Owned(s, list, stack),
           lastFocused' \in Addresses \union {NoSession},
           strayed' = strayed,
           lastFocused' # NoSession => lastFocused' = lastFocused /\ button' = button,
           button' \in BOOLEAN
    PROVE  ButtonInv'
BY DEF ButtonInv, ButtonTellsState, Released, Running

\* A session that sets the button says what is true of it.
LEMMA ShowKeepsButton ==
    ASSUME WindowInv, ButtonInv, NEW s \in Addresses, ShowState(s),
           UNCHANGED <<listVars, capture>>, posted' \in [Addresses -> Nat],
           \A t \in Addresses : t # s => posted'[t] = posted[t]
    PROVE  ButtonInv'
<1>1. /\ capture' = capture /\ UNCHANGED listVars
      /\ IF Shown(s) THEN button' = Running(s) /\ strayed' = (s \notin ToSet(sessions))
                     ELSE UNCHANGED buttonVars
  BY DEF ShowState
<1>2. posted' \in [Addresses -> Nat] OBVIOUS
<1>3. button' \in BOOLEAN
  <2>1. CASE Shown(s) BY <1>1, <2>1 DEF Running
  <2>2. CASE ~Shown(s) BY <1>1, <2>2 DEF ButtonInv, buttonVars
  <2> QED BY <2>1, <2>2
<1>4. ButtonTellsState'
  <2> SUFFICES ASSUME lastFocused # NoSession, posted'[lastFocused] = 0, ~strayed'
               PROVE  button' = (capture[lastFocused] = "running")
    BY <1>1 DEF ButtonTellsState, Running, listVars
  <2>1. /\ lastFocused \in windows /\ lastFocused \in Addresses
        /\ sessions \in Seq(Addresses) /\ IsInjective(sessions) /\ ToSet(sessions) = windows
    BY DEF WindowInv, FocusInv, ListInv, Lists
  <2>2. CASE s = lastFocused BY <1>1, <2>2 DEF Shown, Running
  <2>3. CASE s # lastFocused /\ Shown(s)
    <3>1. Len(sessions) <= 1 BY <2>3 DEF Shown
    <3>2. s \in ToSet(sessions) BY <1>1, <2>3
    <3>3. PICK j \in DOMAIN sessions, k \in DOMAIN sessions : sessions[j] = s /\ sessions[k] = lastFocused
      BY <2>1, <3>2 DEF ToSet
    <3>4. j = k BY <2>1, <3>1, <3>3
    <3> QED BY <2>3, <3>3, <3>4
  <2>4. CASE s # lastFocused /\ ~Shown(s)
    BY <1>1, <2>1, <2>4 DEF ButtonInv, ButtonTellsState, Running, buttonVars
  <2> QED BY <2>2, <2>3, <2>4
<1> QED BY <1>1, <1>2, <1>3, <1>4 DEF ButtonInv

LEMMA RemoveKeepsButton ==
    ASSUME WindowInv, ButtonInv, RemoveEnds
    PROVE  ButtonInv'
<1> DEFINE s == Last(frames).session
<1>1. CASE s \notin windows
  BY <1>1 DEF RemoveEnds, ButtonInv, ButtonTellsState, Running, listVars, buttonVars
<1>2. CASE s \in windows
  <2>1. /\ sessions' = Without(sessions, s) /\ current' = Neighbour(s)
        /\ windows' = windows \ {s}
        /\ Released(s, sessions', frames')
    BY <1>2 DEF RemoveEnds, WithoutWindow
  <2>2. WindowInv' BY RemoveKeeps
  <2>3. lastFocused' = current' /\ current' \in windows' \union {NoSession} /\ s # NoSession
    BY <1>2, <2>2, WindowAssumption DEF WindowInv, FocusInv, ListInv
  <2>4. lastFocused' # s /\ lastFocused' \in Addresses \union {NoSession}
    BY <2>1, <2>2, <2>3 DEF WindowInv, ListInv
  <2>5. CASE CurrentChanges(s)
    <3>1. button' = Running(current') BY <1>2, <2>1, <2>5 DEF RemoveEnds, FocusIn
    <3> QED BY <2>1, <2>3, <2>4, <3>1 DEF ButtonInv, ButtonTellsState, Released, Running
  <2>6. CASE ~CurrentChanges(s)
    <3>1. /\ lastFocused' = IF lastFocused = s THEN NoSession ELSE lastFocused
          /\ button' = (button /\ (sessions' = <<>> => Last(frames).slot # "tab"))
          /\ strayed' = strayed
      BY <1>2, <2>6 DEF RemoveEnds
    <3>2. lastFocused' # NoSession => sessions' # <<>>
      BY <2>2 DEF WindowInv, FocusInv, ListInv, Lists, ToSet
    <3>3. lastFocused' # NoSession => lastFocused' = lastFocused /\ button' = button
      BY <3>1, <3>2 DEF ButtonInv
    <3> QED BY <2>1, <2>4, <3>1, <3>3 DEF ButtonInv, ButtonTellsState, Released, Running
  <2> QED BY <2>5, <2>6
<1> QED BY <1>1, <1>2

LEMMA StepKeepsButton == WindowInv /\ ButtonInv /\ [WindowNext]_windowVars => ButtonInv'
<1> SUFFICES ASSUME WindowInv, ButtonInv, [WindowNext]_windowVars PROVE ButtonInv'
  OBVIOUS
<1> USE DEF ButtonInv, ButtonTellsState, Running
<1>0. lastFocused \in Addresses \union {NoSession} BY DEF WindowInv, FocusInv, ListInv
<1>1. ASSUME NEW s \in Addresses, AddSession(s) PROVE ButtonInv'
  BY <1>1 DEF AddSession, FocusIn
<1>2. ASSUME NEW s \in Addresses, SwitchTo(s) PROVE ButtonInv'
  BY <1>2 DEF SwitchTo, FocusIn, captureVars
<1>3. ASSUME NEW s \in Addresses, ChangeSession(s) \/ GetSession(s) PROVE ButtonInv'
  <2>1. UNCHANGED <<listVars, capture, posted>> /\ (UNCHANGED buttonVars \/ ShowState(s))
    BY <1>3 DEF ChangeSession, GetSession, captureVars
  <2>2. CASE UNCHANGED buttonVars BY <2>1, <2>2 DEF listVars, buttonVars
  <2>3. CASE ShowState(s) BY <2>1, <2>3, ShowKeepsButton
  <2> QED BY <2>1, <2>2, <2>3
<1>4. ASSUME NEW s \in Addresses, CaptureRuns(s) \/ CaptureEnds(s) PROVE ButtonInv'
  BY <1>0, <1>4 DEF CaptureRuns, CaptureEnds, listVars, buttonVars
<1>5. ASSUME NEW s \in Addresses, DeliverState(s) PROVE ButtonInv'
  <2>1. /\ ShowState(s) /\ UNCHANGED <<listVars, capture>>
        /\ posted[s] > 0 /\ posted' = [posted EXCEPT ![s] = @ - 1]
    BY <1>5 DEF DeliverState
  <2>2. posted' \in [Addresses -> Nat] /\ \A t \in Addresses : t # s => posted'[t] = posted[t]
    BY <2>1
  <2> QED BY <2>1, <2>2, ShowKeepsButton
<1>6. ASSUME NEW slot, NEW s \in Addresses, RemoveBegins(slot, s) PROVE ButtonInv'
  BY <1>6, CapturingKeepsButton DEF RemoveBegins
<1>7. CASE RemoveEnds BY <1>7, RemoveKeepsButton
<1>8. CASE ToolDone
  <2> DEFINE s == Last(frames).session
  <2>1. Released(s, sessions, frames') /\ UNCHANGED <<listVars, buttonVars>> BY <1>8 DEF ToolDone
  <2>2. lastFocused # NoSession => lastFocused \in ToSet(sessions)
    BY DEF WindowInv, FocusInv, ListInv, Lists
  <2>3. lastFocused # NoSession => lastFocused # s \/ Owned(s, sessions, frames')
    BY <2>2 DEF Owned
  <2> QED BY <1>0, <2>1, <2>3, ReleasedKeepsButton DEF listVars, buttonVars
<1>9. CASE CloseWindow BY <1>9 DEF CloseWindow, listVars, captureVars, buttonVars
<1>10. ASSUME NEW all \in BOOLEAN, RunStop(all) PROVE ButtonInv'
  <2> DEFINE targets == IF all THEN ToSet(sessions) ELSE {lastFocused}
             on == \A s \in targets : ~Running(s)
  <2>1. SetCapturing(targets, on) /\ on \in BOOLEAN BY <1>10 DEF RunStop
  <2>2. UNCHANGED <<listVars, buttonVars>> BY <1>10 DEF RunStop
  <2> QED BY <2>1, <2>2, CapturingKeepsButton
<1>11. ASSUME NEW explicit \in BOOLEAN, Write(explicit) PROVE ButtonInv'
  BY <1>11 DEF Write, listVars, captureVars, buttonVars
<1>12. ASSUME NEW explicit \in BOOLEAN, WaitingTool(explicit) PROVE ButtonInv'
  <2> DEFINE s == Target(explicit)
  <2>1. ~Running(s) /\ UNCHANGED <<listVars, buttonVars>>
        /\ (SetCapturing({s}, TRUE) \/ UNCHANGED captureVars)
    BY <1>12 DEF WaitingTool
  <2> HIDE DEF s
  <2>2. CASE SetCapturing({s}, TRUE) BY <2>1, <2>2, CapturingKeepsButton
  <2>3. CASE UNCHANGED captureVars BY <2>1, <2>3 DEF listVars, captureVars, buttonVars
  <2> QED BY <2>1, <2>2, <2>3
<1>13. CASE UNCHANGED windowVars BY <1>13 DEF windowVars, listVars, captureVars, buttonVars
<1> QED
  BY <1>1, <1>2, <1>3, <1>4, <1>5, <1>6, <1>7, <1>8, <1>9, <1>10, <1>11, <1>12, <1>13
  DEF WindowNext

\* The lists and the registry, the focus, and what a client has read fit together in
\* every state, whatever slots run inside each other.
THEOREM WindowInvariant == WindowSpec => []WindowInv
BY WindowInitially, StepKeeps, PTL DEF WindowSpec

\* A session has a window, a tab and an entry in the registry exactly if it is in the
\* list (remove_session, add_session).
THEOREM ListsAlwaysAgree == WindowSpec => []ListsAgree
<1>1. WindowInv => ListsAgree BY DEF WindowInv, ListInv, Lists, IsRegistry, ListsAgree, Registered
<1> QED BY <1>1, WindowInvariant, PTL

\* The tab shown, the focused session and the default of the tools are the same one.
THEOREM FocusAlwaysAgrees == WindowSpec => []FocusAgrees
<1>1. WindowInv => FocusAgrees BY DEF WindowInv, FocusInv, FocusAgrees
<1> QED BY <1>1, WindowInvariant, PTL

\* A write that names its session and passes the test of its generation finds the session
\* read, and its capture in the state read unless announcements are under way
\* (require_generation).
THEOREM WritesHitWhatWasRead == WindowSpec => []WritesWhatWasRead
<1>1. WindowInv => WritesWhatWasRead BY DEF WindowInv
<1> QED BY <1>1, WindowInvariant, PTL

\* An id is given to one session only (SessionRegistry::add).
THEOREM IdsAreGivenOnce == WindowSpec => IdsAreForever
<1> DEFINE Given == \A s \in Registered(registry)' :
                      IF s \in Registered(registry) THEN IdOf(registry, s)' = IdOf(registry, s)
                                                    ELSE IdOf(registry, s)' >= registry.next
<1>1. ASSUME WindowInv, WindowInv', [WindowNext]_windowVars PROVE Given
  <2>1. Registered(registry) = windows /\ Registered(registry)' = windows'
    BY <1>1 DEF WindowInv, IsRegistry, Registered
  <2>2. CASE registry' = registry BY <2>2, <1>1 DEF IdOf, Registered
  <2>3. ASSUME NEW s, UNCHANGED listVars, registry' = Bump(registry, s) PROVE Given
    BY <1>1, <2>1, <2>3, BumpKeeps DEF IdOf, listVars
  <2>4. ASSUME NEW s \in Addresses, AddSession(s) PROVE Given
    <3>1. s \notin windows BY <1>1, <2>4 DEF AddSession, Alive, Owned, WindowInv, ListInv, Lists
    <3>2. windows' = windows \union {s} /\ registry'.entries = AddEntry(registry, s).entries
      BY <2>4 DEF AddSession, FocusIn, Activate, AddEntry
    <3>3. /\ registry'.entries[s].id = registry.next
          /\ \A t \in windows : registry'.entries[t] = registry.entries[t]
          /\ registry.next \in Nat
      BY <1>1, <2>1, <3>1, <3>2 DEF AddEntry, WindowInv, IsRegistry
    <3> QED BY <2>1, <3>1, <3>2, <3>3 DEF IdOf
  <2>5. ASSUME NEW s \in Addresses, SwitchTo(s) PROVE Given
    <3>1. registry'.entries = registry.entries
      BY <1>1, <2>5 DEF SwitchTo, FocusIn, Activate, WindowInv, IsRegistry
    <3> QED BY <3>1 DEF IdOf, Registered
  <2>6. CASE RemoveEnds
    <3> DEFINE s == Last(frames).session
    <3>1. CASE s \notin windows BY <2>2, <2>6, <3>1 DEF RemoveEnds
    <3>2. CASE s \in windows
      <4>1. registry'.entries = RemoveEntry(registry, s).entries
        BY <2>6, <3>2 DEF RemoveEnds, FocusIn, Activate, RemoveEntry
      <4>2. /\ DOMAIN registry'.entries = windows \ {s}
            /\ \A t \in windows \ {s} : registry'.entries[t] = registry.entries[t]
        BY <2>1, <4>1 DEF RemoveEntry
      <4> QED BY <2>1, <4>2 DEF IdOf, Registered
    <3> QED BY <3>1, <3>2
  <2>7. ASSUME NEW s, ChangeSession(s) \/ DeliverState(s) PROVE Given
    BY <2>3, <2>7 DEF ChangeSession, DeliverState
  <2>8. ASSUME NEW explicit, Write(explicit) PROVE Given BY <2>2, <2>3, <2>8 DEF Write
  <2>9. ASSUME NEW s, CaptureRuns(s) \/ CaptureEnds(s) \/ GetSession(s) PROVE Given
    BY <2>2, <2>9 DEF CaptureRuns, CaptureEnds, GetSession
  <2>10. ASSUME NEW slot, NEW s, RemoveBegins(slot, s) PROVE Given BY <2>2, <2>10 DEF RemoveBegins
  <2>11. CASE ToolDone \/ CloseWindow BY <2>2, <2>11 DEF ToolDone, CloseWindow
  <2>12. ASSUME NEW b, RunStop(b) \/ WaitingTool(b) PROVE Given
    BY <2>2, <2>12 DEF RunStop, WaitingTool
  <2>13. CASE UNCHANGED windowVars BY <2>2, <2>13 DEF windowVars
  <2> HIDE DEF Given
  <2> QED BY <1>1, <2>4, <2>5, <2>6, <2>7, <2>8, <2>9, <2>10, <2>11, <2>12, <2>13 DEF WindowNext
<1> QED BY <1>1, WindowInvariant, PTL DEF WindowSpec, IdsAreForever

\* The run/stop button shows what a click would do once all announcements of the focused
\* session have been served (on_session_capture_state_changed).
THEOREM ButtonAlwaysTellsState == WindowSpec => []ButtonTellsState
<1>1. ASSUME WindowInit PROVE ButtonInv
  <2>1. lastFocused = NoSession /\ button = FALSE BY <1>1 DEF WindowInit
  <2>2. capture \in [Addresses -> {"idle", "starting", "running"}] /\ posted \in [Addresses -> Nat]
    BY <1>1 DEF WindowInit
  <2> QED BY <2>1, <2>2 DEF ButtonInv, ButtonTellsState
<1>2. ButtonInv => ButtonTellsState BY DEF ButtonInv
<1> QED BY <1>1, <1>2, WindowInvariant, StepKeepsButton, PTL DEF WindowSpec
=============================================================================
