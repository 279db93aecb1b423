--------------------------- MODULE EndpointProofs ---------------------------
(***************************************************************************)
(* The list of devices, for every set of services, every number of         *)
(* announcements and streams and every size of the channels: what comes    *)
(* out at the window, three channels from the network, is what the browse  *)
(* tasks know.  Then the six endpoints one beside another: what is proved  *)
(* of each alone holds where TLC runs them together.                       *)
(***************************************************************************)
EXTENDS MCEndpoints, DesktopProofs, ChromecastProofs, Integers, TLAPS

-----------------------------------------------------------------------------
\* What a channel will do to a set that its reader keeps, when some words add to it and some take
\* from it: the channel ends by adding, or it takes nothing away.

EndsAdding(q, add, take) ==
  \E n \in 1 .. Len(q) : q[n] \in add /\ \A m \in n + 1 .. Len(q) : q[m] \notin take
TakesNothing(q, take) == \A n \in 1 .. Len(q) : q[n] \notin take

\* The words about a device that the list of devices, and the set of streaming ones, go by.
Found(i) == {Said("found", i)}
Lost(i) == {Said("lost", i)}
Starts(i) == {Said("started", i)}
Parts(i) == {Said("lost", i), Said("stopped", i)}

News == [kind : {"found", "lost"}, id : Ids]
Words == [kind : {"found", "lost", "started", "stopped"}, id : Ids]
Tidings == [kind : {"resolved", "removed"}, of : Services, nr : 0 .. MaxTidings]

\* The manager's map once the forwarder has applied what it has not received yet.
ComesToDevices(i) ==
  EndsAdding(gFound, Found(i), Lost(i)) \/ (TakesNothing(gFound, Lost(i)) /\ i \in gDevices)

\* The window's two sets once every word on its way has arrived.
AlongTheWay(add, take, there) ==
  \/ EndsAdding(gForward, add, take)
  \/ /\ TakesNothing(gForward, take)
     /\ \/ EndsAdding(gEvents, add, take)
        \/ /\ TakesNothing(gEvents, take)
           /\ EndsAdding(gQueue, add, take) \/ (TakesNothing(gQueue, take) /\ there)
ComesToWindow(i) == AlongTheWay(Found(i), Lost(i), i \in gShown)
ComesToStream(i) == AlongTheWay(Starts(i), Parts(i), i \in gStreaming)

Holds(q, word) == \E n \in 1 .. Len(q) : q[n] = word
UnderWay(word) == Holds(gForward, word) \/ Holds(gEvents, word) \/ Holds(gQueue, word)

DirectoryShape ==
  /\ gNet \subseteq Services /\ gTidings \in 0 .. MaxTidings
  /\ gAdvert \in {"off", "announced", "on", "withdrawn"} /\ gFilter \in BOOLEAN
  /\ gBrowse \in [Protocols -> {"off", "on", "failed", "stopped"}]
  /\ gWire \in [Protocols -> Seq(Tidings)]
  /\ gKnown \subseteq Ids /\ gDevices \subseteq Ids
  /\ gFound \in Seq(News) /\ gForward \in Seq(News) /\ gEvents \in Seq(Words) /\ gQueue \in Seq(Words)
  /\ Len(gFound) <= ChannelRoom /\ Len(gEvents) <= ChannelRoom /\ Len(gQueue) <= ChannelRoom
  /\ Len(gForward) <= 1
  /\ gShown \subseteq Ids /\ gStreaming \subseteq Ids /\ gHidden \subseteq Ids
  /\ gCast \in [Casts -> [id : Ids \cup {Nobody}, at : {"idle", "asked", "new", "live", "gone", "done"}]]
  /\ gEarly \in BOOLEAN

\* What mDNS has for a task that browses: names of its protocol, and the last word on a service that
\* is gone is that it was removed.
WillBeRemoved(s) ==
  \E m \in 1 .. Len(gWire[ProtocolOf(s)]) :
     gWire[ProtocolOf(s)][m].kind = "removed" /\ gWire[ProtocolOf(s)][m].of = s
WireRight ==
  \A p \in Protocols : \A n \in 1 .. Len(gWire[p]) :
     /\ gBrowse[p] = "on"
     /\ ProtocolOf(gWire[p][n].of) = p
     /\ ~Named(gWire[p][n].of) => gWire[p][n].nr # 0
     /\ gWire[p][n].kind = "resolved" /\ gWire[p][n].of \notin gNet =>
          \E m \in n + 1 .. Len(gWire[p]) : gWire[p][m].kind = "removed" /\ gWire[p][m].of = gWire[p][n].of

\* A device's number is 0 exactly if it has a name of its own.
Numbered(i) == i.nr = 0 <=> Named(i.of)

KnownRight ==
  /\ \A i \in gKnown : /\ gBrowse[ProtocolOf(i.of)] = "on" /\ Numbered(i)
                       /\ i.of \notin gNet => WillBeRemoved(i.of)
                       /\ i.of = Us => gEarly
  /\ \A i, j \in gKnown : i.of = j.of => i = j

FoundRight ==
  /\ \A n \in 1 .. Len(gFound) : gFound[n].kind = "found" =>
       /\ gBrowse[ProtocolOf(gFound[n].id.of)] # "off" /\ Numbered(gFound[n].id)
       /\ gFound[n].id.of = Us => gEarly
  /\ \A i \in gDevices : /\ gBrowse[ProtocolOf(i.of)] # "off" /\ Numbered(i)
                         /\ i.of = Us => gEarly
  /\ \A i \in gKnown : ComesToDevices(i)
  /\ \A i \in Ids : ComesToDevices(i) /\ gBrowse[ProtocolOf(i.of)] = "on" /\ i \notin gKnown => i.nr # 0

WindowRight == \A i \in Ids : ComesToWindow(i) <=> i \in gDevices

CastsRight ==
  /\ \A i \in Ids : ComesToStream(i) => \E c \in Casts : gCast[c].id = i /\ gCast[c].at \in {"live", "gone"}
  /\ \A c \in Casts : gCast[c].at = "live" =>
       \/ gCast[c].id \in gHidden \cup gStreaming
       \/ \E told \in {"started", "stopped", "lost"} : UnderWay(Said(told, gCast[c].id))
  /\ \A c \in Casts : gCast[c].at # "idle" => gCast[c].id \in Ids

DirectoryInv == DirectoryShape /\ WireRight /\ KnownRight /\ FoundRight /\ WindowRight /\ CastsRight

-----------------------------------------------------------------------------
\* A channel that is empty, one word longer, and one word shorter.

LEMMA EmptyEnds ==
  ASSUME NEW add, NEW take
  PROVE  ~EndsAdding(<<>>, add, take) /\ TakesNothing(<<>>, take)
  BY DEF EndsAdding, TakesNothing

LEMMA AppendEnds ==
  ASSUME NEW S, NEW q \in Seq(S), NEW word \in S, NEW add, NEW take
  PROVE  /\ EndsAdding(Append(q, word), add, take)
              <=> word \in add \/ (word \notin take /\ EndsAdding(q, add, take))
         /\ TakesNothing(Append(q, word), take) <=> word \notin take /\ TakesNothing(q, take)
<1>1. PICK n, r : n = Len(q) /\ r = Append(q, word)
  OBVIOUS
<1>2. n \in Nat /\ Len(r) = n + 1 /\ r[n + 1] = word /\ \A k \in 1 .. n : r[k] = q[k]
  BY <1>1
<1>3. \A k \in 1 .. n + 1 : k = n + 1 \/ k \in 1 .. n
  BY <1>2
<1>4. \A k \in 1 .. n : k \in 1 .. n + 1
  BY <1>2
<1>5. TakesNothing(r, take) <=> word \notin take /\ TakesNothing(q, take)
  <2>1. n + 1 \in 1 .. n + 1
    BY <1>2
  <2> QED
    BY <1>1, <1>2, <1>3, <1>4, <2>1 DEF TakesNothing
<1>6. ASSUME word \in add PROVE EndsAdding(r, add, take)
  <2>1. n + 1 \in 1 .. n + 1 /\ (n + 1) + 1 .. n + 1 = {}
    BY <1>2
  <2> QED
    BY <1>2, <1>6, <2>1 DEF EndsAdding
<1>7. ASSUME word \notin take, EndsAdding(q, add, take) PROVE EndsAdding(r, add, take)
  <2>1. PICK k \in 1 .. n : q[k] \in add /\ \A m \in k + 1 .. n : q[m] \notin take
    BY <1>1, <1>7 DEF EndsAdding
  <2>2. \A m \in k + 1 .. n + 1 : m = n + 1 \/ (m \in k + 1 .. n /\ m \in 1 .. n)
    BY <1>2
  <2>3. k \in 1 .. n + 1 /\ r[k] \in add
    BY <1>2, <2>1
  <2>4. \A m \in k + 1 .. n + 1 : r[m] \notin take
    BY <1>2, <1>7, <2>1, <2>2
  <2> QED
    BY <1>2, <2>3, <2>4 DEF EndsAdding
<1>8. ASSUME EndsAdding(r, add, take), word \notin add PROVE word \notin take /\ EndsAdding(q, add, take)
  <2>1. PICK k \in 1 .. n + 1 : r[k] \in add /\ \A m \in k + 1 .. n + 1 : r[m] \notin take
    BY <1>2, <1>8 DEF EndsAdding
  <2>2. k \in 1 .. n /\ q[k] \in add
    BY <1>2, <1>3, <1>8, <2>1
  <2>3. n + 1 \in k + 1 .. n + 1
    BY <1>2, <2>2
  <2>4. \A m \in k + 1 .. n : m \in k + 1 .. n + 1 /\ m \in 1 .. n
    BY <1>2, <2>2
  <2>5. word \notin take /\ \A m \in k + 1 .. n : q[m] \notin take
    BY <1>2, <2>1, <2>3, <2>4
  <2> QED
    BY <1>1, <2>2, <2>5 DEF EndsAdding
<1> QED
  BY <1>1, <1>5, <1>6, <1>7, <1>8

LEMMA TailEnds ==
  ASSUME NEW S, NEW q \in Seq(S), q # <<>>, NEW add, NEW take
  PROVE  /\ Tail(q) \in Seq(S) /\ Head(q) \in S
         /\ EndsAdding(q, add, take)
              <=> EndsAdding(Tail(q), add, take) \/ (TakesNothing(Tail(q), take) /\ Head(q) \in add)
         /\ TakesNothing(q, take) <=> Head(q) \notin take /\ TakesNothing(Tail(q), take)
<1>1. PICK n, r : n = Len(q) - 1 /\ r = Tail(q)
  OBVIOUS
<1>2. /\ n \in Nat /\ Len(q) = n + 1 /\ r \in Seq(S) /\ Len(r) = n /\ Head(q) = q[1] /\ Head(q) \in S
      /\ \A k \in 1 .. n : r[k] = q[k + 1]
  BY <1>1
<1>3. \A k \in 1 .. n + 1 : k = 1 \/ (k - 1 \in 1 .. n /\ (k - 1) + 1 = k)
  BY <1>2
<1>4. 1 \in 1 .. n + 1 /\ \A k \in 1 .. n : k + 1 \in 1 .. n + 1
  BY <1>2
<1>5. TakesNothing(q, take) <=> Head(q) \notin take /\ TakesNothing(r, take)
  <2>1. ASSUME TakesNothing(q, take) PROVE Head(q) \notin take /\ TakesNothing(r, take)
    BY <1>2, <1>4, <2>1 DEF TakesNothing
  <2>2. ASSUME Head(q) \notin take, TakesNothing(r, take), NEW k \in 1 .. n + 1 PROVE q[k] \notin take
    BY <1>2, <1>3, <2>2 DEF TakesNothing
  <2> QED
    BY <1>2, <2>1, <2>2 DEF TakesNothing
<1>6. ASSUME EndsAdding(r, add, take) PROVE EndsAdding(q, add, take)
  <2>1. PICK k \in 1 .. n : r[k] \in add /\ \A m \in k + 1 .. n : r[m] \notin take
    BY <1>2, <1>6 DEF EndsAdding
  <2>2. k + 1 \in 1 .. n + 1 /\ q[k + 1] \in add
    BY <1>2, <1>4, <2>1
  <2>3. \A m \in (k + 1) + 1 .. n + 1 : m - 1 \in k + 1 .. n /\ m - 1 \in 1 .. n /\ (m - 1) + 1 = m
    BY <1>2
  <2>4. \A m \in (k + 1) + 1 .. n + 1 : q[m] \notin take
    BY <1>2, <2>1, <2>3, SMTT(60)
  <2> QED
    BY <1>2, <2>2, <2>4 DEF EndsAdding
<1>7. ASSUME TakesNothing(r, take), Head(q) \in add PROVE EndsAdding(q, add, take)
  <2>1. \A m \in 1 + 1 .. n + 1 : m - 1 \in 1 .. n /\ (m - 1) + 1 = m
    BY <1>2
  <2>2. \A m \in 1 + 1 .. n + 1 : q[m] \notin take
    BY <1>2, <1>7, <2>1, SMTT(60) DEF TakesNothing
  <2> QED
    BY <1>2, <1>4, <1>7, <2>2 DEF EndsAdding
<1>8. ASSUME EndsAdding(q, add, take)
      PROVE  EndsAdding(r, add, take) \/ (TakesNothing(r, take) /\ Head(q) \in add)
  <2>1. PICK k \in 1 .. n + 1 : q[k] \in add /\ \A m \in k + 1 .. n + 1 : q[m] \notin take
    BY <1>2, <1>8 DEF EndsAdding
  <2>2. CASE k = 1
    <3>1. \A m \in 1 .. n : m + 1 \in 1 + 1 .. n + 1
      BY <1>2
    <3>2. \A m \in 1 .. n : r[m] \notin take
      BY <1>2, <2>1, <2>2, <3>1
    <3> QED
      BY <1>2, <2>1, <2>2, <3>2 DEF TakesNothing
  <2>3. CASE k - 1 \in 1 .. n /\ (k - 1) + 1 = k
    <3>1. PICK j \in 1 .. n : j = k - 1 /\ j + 1 = k
      BY <2>3
    <3>2. r[j] \in add
      BY <1>2, <2>1, <3>1
    <3>3. \A m \in j + 1 .. n : m + 1 \in k + 1 .. n + 1 /\ m \in 1 .. n
      BY <1>2, <3>1
    <3>4. \A m \in j + 1 .. n : r[m] \notin take
      BY <1>2, <2>1, <3>3
    <3> QED
      BY <1>2, <3>2, <3>4 DEF EndsAdding
  <2> QED
    BY <1>3, <2>1, <2>2, <2>3
<1> QED
  BY <1>1, <1>2, <1>5, <1>6, <1>7, <1>8

\* The same of the words a channel holds.
LEMMA AppendHolds ==
  ASSUME NEW S, NEW q \in Seq(S), NEW word \in S, NEW other
  PROVE  /\ Append(q, word) \in Seq(S) /\ Len(Append(q, word)) = Len(q) + 1
         /\ Holds(Append(q, word), other) <=> other = word \/ Holds(q, other)
<1>1. PICK n, r : n = Len(q) /\ r = Append(q, word)
  OBVIOUS
<1>2. n \in Nat /\ Len(r) = n + 1 /\ r[n + 1] = word /\ \A k \in 1 .. n : r[k] = q[k]
  BY <1>1
<1>3. (\A k \in 1 .. n + 1 : k = n + 1 \/ k \in 1 .. n) /\ (\A k \in 1 .. n : k \in 1 .. n + 1)
      /\ n + 1 \in 1 .. n + 1
  BY <1>2
<1>4. r \in Seq(S) /\ Len(r) = Len(q) + 1
  BY <1>1
<1>5. (\E k \in 1 .. n + 1 : r[k] = other) <=> (other = word \/ \E k \in 1 .. n : q[k] = other)
  BY <1>2, <1>3
<1> QED
  BY <1>1, <1>2, <1>4, <1>5 DEF Holds

LEMMA TailHolds ==
  ASSUME NEW S, NEW q \in Seq(S), q # <<>>, NEW other
  PROVE  /\ Tail(q) \in Seq(S) /\ Len(Tail(q)) = Len(q) - 1 /\ Head(q) \in S
         /\ Holds(q, other) <=> other = Head(q) \/ Holds(Tail(q), other)
<1>1. PICK n, r : n = Len(q) - 1 /\ r = Tail(q)
  OBVIOUS
<1>2. /\ n \in Nat /\ Len(q) = n + 1 /\ Len(r) = n /\ Head(q) = q[1]
      /\ \A k \in 1 .. n : r[k] = q[k + 1]
  BY <1>1
<1>3. (\A k \in 1 .. n + 1 : k = 1 \/ (k - 1 \in 1 .. n /\ (k - 1) + 1 = k))
      /\ 1 \in 1 .. n + 1 /\ \A k \in 1 .. n : k + 1 \in 1 .. n + 1
  BY <1>2
<1>4. r \in Seq(S) /\ Len(r) = Len(q) - 1 /\ Head(q) \in S
  BY <1>1
<1>5. (\E k \in 1 .. n + 1 : q[k] = other) <=> (other = q[1] \/ \E k \in 1 .. n : r[k] = other)
  <2>1. ASSUME NEW k \in 1 .. n + 1, q[k] = other PROVE other = q[1] \/ \E j \in 1 .. n : r[j] = other
    <3>1. CASE k = 1
      BY <2>1, <3>1
    <3>2. CASE k - 1 \in 1 .. n /\ (k - 1) + 1 = k
      BY <1>2, <2>1, <3>2
    <3> QED
      BY <1>3, <3>1, <3>2
  <2>2. ASSUME NEW k \in 1 .. n, r[k] = other PROVE \E j \in 1 .. n + 1 : q[j] = other
    BY <1>2, <1>3, <2>2
  <2> QED
    BY <1>3, <2>1, <2>2
<1> QED
  BY <1>1, <1>2, <1>4, <1>5 DEF Holds

LEMMA OneWordEnds ==
  ASSUME NEW S, NEW q \in Seq(S), Len(q) = 1, NEW add, NEW take
  PROVE  /\ q[1] \in S
         /\ EndsAdding(q, add, take) <=> q[1] \in add
         /\ TakesNothing(q, take) <=> q[1] \notin take
<1>1. 1 .. Len(q) = {1} /\ 1 + 1 .. Len(q) = {}
  OBVIOUS
<1> QED
  BY <1>1 DEF EndsAdding, TakesNothing

-----------------------------------------------------------------------------
LEMMA DirectoryInitially == DirectoryInit => DirectoryInv
<1> SUFFICES ASSUME DirectoryInit PROVE DirectoryInv
  OBVIOUS
<1> USE DEF DirectoryInit
<1>1. Len(<<>>) = 0 /\ 1 .. 0 = {} /\ 0 <= ChannelRoom /\ 0 \in 0 .. MaxTidings /\ <<>> \in Seq(Tidings)
      /\ <<>> \in Seq(News) /\ <<>> \in Seq(Words)
  BY DirectoryAssumption
<1>2. DirectoryShape
  <2>1. /\ gBrowse \in [Protocols -> {"off", "on", "failed", "stopped"}]
        /\ gWire \in [Protocols -> Seq(Tidings)]
    BY <1>1
  <2>2. gCast \in [Casts -> [id : Ids \cup {Nobody}, at : {"idle", "asked", "new", "live", "gone", "done"}]]
    OBVIOUS
  <2>3. gNet \subseteq Services /\ gKnown \subseteq Ids /\ gDevices \subseteq Ids
        /\ gShown \subseteq Ids /\ gStreaming \subseteq Ids /\ gHidden \subseteq Ids
    OBVIOUS
  <2>4. /\ gFound \in Seq(News) /\ gForward \in Seq(News) /\ gEvents \in Seq(Words) /\ gQueue \in Seq(Words)
        /\ Len(gFound) <= ChannelRoom /\ Len(gEvents) <= ChannelRoom /\ Len(gQueue) <= ChannelRoom
        /\ Len(gForward) <= 1
    BY <1>1
  <2>5. gTidings \in 0 .. MaxTidings /\ gAdvert \in {"off", "announced", "on", "withdrawn"}
        /\ gFilter \in BOOLEAN /\ gEarly \in BOOLEAN
    BY <1>1
  <2> QED
    BY ONLY <2>1, <2>2, <2>3, <2>4, <2>5 DEF DirectoryShape
<1>3. WireRight /\ KnownRight
  BY <1>1 DEF WireRight, KnownRight
<1>4. \A add, take : ~EndsAdding(<<>>, add, take)
  BY EmptyEnds
<1>5. FoundRight /\ WindowRight
  BY <1>1, <1>4 DEF FoundRight, WindowRight, ComesToDevices, ComesToWindow, AlongTheWay
<1>6. CastsRight
  BY <1>1, <1>4 DEF CastsRight, ComesToStream, AlongTheWay
<1> QED
  BY <1>2, <1>3, <1>5, <1>6 DEF DirectoryInv

\* With nothing under way the invariant is the property.
LEMMA SettledRight == DirectoryInv => SettledWindowIsRight
<1> SUFFICES ASSUME DirectoryInv, Settled PROVE SettledWindowIsRight
  BY DEF SettledWindowIsRight
<1>1. /\ gFound = <<>> /\ gForward = <<>> /\ gEvents = <<>> /\ gQueue = <<>>
      /\ \A p \in Protocols : gWire[p] = <<>>
      /\ \A c \in Casts : gCast[c].at \notin {"new", "gone"}
  BY DEF Settled
<1>2. \A add, take : ~EndsAdding(<<>>, add, take) /\ TakesNothing(<<>>, take)
  BY EmptyEnds
<1>3. 1 .. Len(<<>>) = {}
  OBVIOUS
<1>4. gShown \subseteq Ids /\ gStreaming \subseteq Ids /\ gDevices \subseteq Ids /\ gKnown \subseteq Ids
  BY DEF DirectoryInv, DirectoryShape
<1>5. \A i \in Ids : ComesToDevices(i) <=> i \in gDevices
  BY <1>1, <1>2 DEF ComesToDevices
<1>6. \A i \in Ids : ComesToWindow(i) <=> i \in gShown
  BY <1>1, <1>2 DEF ComesToWindow, AlongTheWay
<1>7. \A i \in Ids : ComesToStream(i) <=> i \in gStreaming
  BY <1>1, <1>2 DEF ComesToStream, AlongTheWay
<1>8. gShown = gDevices
  BY <1>4, <1>6 DEF DirectoryInv, WindowRight
<1>9. \A i \in gKnown : i.of \in gNet /\ i \in gDevices
  <2>1. TAKE i \in gKnown
  <2>2. i \in gDevices
    BY <1>4, <1>5, <2>1 DEF DirectoryInv, FoundRight
  <2>3. ProtocolOf(i.of) \in Protocols
    BY DEF ProtocolOf, Protocols
  <2>4. ~WillBeRemoved(i.of)
    BY <1>1, <1>3, <2>3 DEF WillBeRemoved
  <2> QED
    BY <2>1, <2>2, <2>4 DEF DirectoryInv, KnownRight
<1>10. ASSUME NEW i \in gDevices, gBrowse[ProtocolOf(i.of)] = "on", i \notin gKnown PROVE i.nr # 0
  BY <1>4, <1>5, <1>10 DEF DirectoryInv, FoundRight
<1>11. ASSUME NEW i \in gDevices, i.of = Us PROVE gEarly
  BY <1>11 DEF DirectoryInv, FoundRight
<1>12. ASSUME NEW i \in gStreaming PROVE Runs(i)
  <2>1. PICK c \in Casts : gCast[c].id = i /\ gCast[c].at \in {"live", "gone"}
    BY <1>4, <1>7 DEF DirectoryInv, CastsRight
  <2> QED
    BY <1>1, <2>1 DEF Runs
<1>13. ASSUME NEW i \in Ids, Runs(i) PROVE i \in gStreaming \cup gHidden
  <2>1. PICK c \in Casts : gCast[c].id = i /\ gCast[c].at = "live"
    BY <1>1, <1>13 DEF Runs
  <2>2. \A word : ~UnderWay(word)
    BY <1>1, <1>3 DEF UnderWay, Holds
  <2> QED
    BY <2>1, <2>2 DEF DirectoryInv, CastsRight
<1> QED
  BY <1>8, <1>9, <1>10, <1>11, <1>12, <1>13 DEF SettledWindowIsRight

-----------------------------------------------------------------------------
\* The network. Steps that leave the channels to the window alone leave what they will bring alone.

LEMMA WindowStays ==
  ASSUME UNCHANGED <<gDevices, gForward, gEvents, gQueue, gShown, gStreaming, gHidden, gCast>>
  PROVE  /\ WindowRight => WindowRight'
         /\ CastsRight => CastsRight'
<1>1. \A i : ComesToWindow(i)' <=> ComesToWindow(i)
  BY DEF ComesToWindow, AlongTheWay, EndsAdding, TakesNothing
<1>2. \A i : ComesToStream(i)' <=> ComesToStream(i)
  BY DEF ComesToStream, AlongTheWay, EndsAdding, TakesNothing
<1>3. \A word : UnderWay(word)' <=> UnderWay(word)
  BY DEF UnderWay, Holds
<1> QED
  BY <1>1, <1>2, <1>3 DEF WindowRight, CastsRight

LEMMA FoundStays ==
  ASSUME UNCHANGED <<gFound, gDevices, gKnown, gBrowse, gEarly>>, FoundRight
  PROVE  FoundRight'
<1>1. \A i : ComesToDevices(i)' <=> ComesToDevices(i)
  BY DEF ComesToDevices, EndsAdding, TakesNothing
<1> QED
  BY <1>1 DEF FoundRight

LEMMA ProtocolOfAny ==
  ASSUME NEW s \in Services
  PROVE  ProtocolOf(s) \in Protocols
  BY DEF ProtocolOf, Protocols

LEMMA WireTold ==
  ASSUME DirectoryShape, NEW q \in Protocols, NEW n \in 1 .. Len(gWire[q])
  PROVE  gWire[q][n] \in Tidings /\ gWire[q][n].of \in Services
<1>1. gWire[q] \in Seq(Tidings)
  BY DEF DirectoryShape
<1>2. gWire[q][n] \in Tidings
  BY <1>1
<1> QED
  BY <1>2 DEF Tidings

\* A service of some protocol is announced or withdrawn.
LEMMA ToldRight ==
  ASSUME DirectoryInv, NEW s \in Services, NEW told, Tell(told, s),
         \/ told = "resolved" /\ gNet' = gNet \cup {s}
         \/ told = "removed" /\ gNet' = gNet \ {s},
         UNCHANGED <<gBrowse, gKnown, gEarly>>
  PROVE  /\ WireRight' /\ KnownRight'
         /\ gNet' \subseteq Services /\ gTidings' \in 0 .. MaxTidings
         /\ gWire' \in [Protocols -> Seq(Tidings)]
<1>1. DirectoryShape /\ WireRight /\ KnownRight
  BY DEF DirectoryInv
<1>2. PICK p, nr, e, net : /\ p = ProtocolOf(s) /\ nr = gTidings + 1
                           /\ e = [kind |-> told, of |-> s, nr |-> nr]
                           /\ net = gNet'
  OBVIOUS
<1>3. /\ gTidings < MaxTidings /\ gTidings' = nr
      /\ gWire' = IF gBrowse[p] = "on" THEN [gWire EXCEPT ![p] = Append(gWire[p], e)] ELSE gWire
  <2>1. gTidings < MaxTidings /\ gTidings' = nr
    BY <1>2 DEF Tell
  <2>2. [Heard(told, s) EXCEPT !.nr = gTidings'] = e
    BY <1>2, <2>1 DEF Heard
  <2> QED
    BY <1>2, <2>1, <2>2 DEF Tell
<1>4. /\ nr \in 0 .. MaxTidings /\ nr # 0 /\ e \in Tidings /\ e.of = s /\ e.kind = told /\ e.nr = nr
      /\ p \in Protocols /\ gWire \in [Protocols -> Seq(Tidings)] /\ net \subseteq Services
  <2>1. nr \in 0 .. MaxTidings /\ nr # 0
    BY <1>1, <1>2, <1>3, DirectoryAssumption DEF DirectoryShape
  <2> QED
    BY <1>1, <1>2, <2>1, ProtocolOfAny DEF DirectoryShape, Tidings
<1>5. gWire' \in [Protocols -> Seq(Tidings)]
  BY <1>3, <1>4
<1>6. \A x \in Services : x # s => (x \in net <=> x \in gNet)
  BY <1>2
<1>7. told = "resolved" => s \in net /\ \A x \in Services : x \in gNet => x \in net
  BY <1>2
<1>8. CASE gBrowse[p] = "on"
  <2>1. PICK len : len = Len(gWire[p])
    OBVIOUS
  <2>2. PICK wire : wire = Append(gWire[p], e)
    OBVIOUS
  <2>3. /\ len \in Nat /\ Len(wire) = len + 1 /\ wire[len + 1] = e /\ len + 1 \in 1 .. len + 1
        /\ \A n \in 1 .. len : wire[n] = gWire[p][n] /\ gWire[p][n] \in Tidings /\ n \in 1 .. len + 1
                              /\ len + 1 \in n + 1 .. len + 1
    BY <1>4, <2>1, <2>2
  <2>4. gWire'[p] = wire /\ \A q \in Protocols : q # p => gWire'[q] = gWire[q]
    BY <1>3, <1>4, <1>8, <2>2
  <2>5. ASSUME NEW q \in Protocols, q # p, NEW n \in 1 .. Len(gWire'[q])
        PROVE  /\ gBrowse'[q] = "on"
               /\ ProtocolOf(gWire'[q][n].of) = q
               /\ ~Named(gWire'[q][n].of) => gWire'[q][n].nr # 0
               /\ gWire'[q][n].kind = "resolved" /\ gWire'[q][n].of \notin net =>
                    \E m \in n + 1 .. Len(gWire'[q]) :
                       gWire'[q][m].kind = "removed" /\ gWire'[q][m].of = gWire'[q][n].of
    <3>1. /\ gBrowse[q] = "on"
          /\ ProtocolOf(gWire[q][n].of) = q
          /\ ~Named(gWire[q][n].of) => gWire[q][n].nr # 0
          /\ gWire[q][n].kind = "resolved" /\ gWire[q][n].of \notin gNet =>
               \E m \in n + 1 .. Len(gWire[q]) :
                  gWire[q][m].kind = "removed" /\ gWire[q][m].of = gWire[q][n].of
      BY <1>1, <2>4, <2>5 DEF WireRight
    <3>2. gWire[q][n].of # s /\ gWire[q][n].of \in Services
      BY <1>1, <1>2, <2>4, <2>5, <3>1, WireTold
    <3> QED
      BY <1>6, <2>4, <2>5, <3>1, <3>2
  <2>6. ASSUME NEW n \in 1 .. len + 1
        PROVE  /\ gBrowse'[p] = "on"
               /\ ProtocolOf(wire[n].of) = p
               /\ ~Named(wire[n].of) => wire[n].nr # 0
               /\ wire[n].kind = "resolved" /\ wire[n].of \notin net =>
                    \E m \in n + 1 .. len + 1 : wire[m].kind = "removed" /\ wire[m].of = wire[n].of
    <3>1. CASE n = len + 1
      BY <1>2, <1>4, <1>7, <1>8, <2>3, <3>1
    <3>2. CASE n \in 1 .. len
      <4>1. /\ ProtocolOf(gWire[p][n].of) = p
            /\ ~Named(gWire[p][n].of) => gWire[p][n].nr # 0
            /\ gWire[p][n].kind = "resolved" /\ gWire[p][n].of \notin gNet =>
                 \E m \in n + 1 .. len : gWire[p][m].kind = "removed" /\ gWire[p][m].of = gWire[p][n].of
        BY <1>1, <1>4, <2>1, <3>2 DEF WireRight
      <4>2. ASSUME wire[n].kind = "resolved", wire[n].of \notin net
            PROVE  \E m \in n + 1 .. len + 1 : wire[m].kind = "removed" /\ wire[m].of = wire[n].of
        <5>1. CASE wire[n].of = s
          <6>1. told = "removed"
            BY <1>7, <4>2, <5>1
          <6> QED
            BY <1>4, <2>3, <3>2, <5>1, <6>1
        <5>2. CASE wire[n].of # s
          <6>1. wire[n].of \notin gNet
            BY <1>4, <1>6, <2>3, <3>2, <4>2, <5>2 DEF Tidings
          <6>2. PICK m \in n + 1 .. len : gWire[p][m].kind = "removed" /\ gWire[p][m].of = wire[n].of
            BY <2>3, <3>2, <4>1, <4>2, <6>1
          <6>3. m \in 1 .. len /\ m \in n + 1 .. len + 1
            BY <2>3, <3>2
          <6> QED
            BY <2>3, <6>2, <6>3
        <5> QED
          BY <5>1, <5>2
      <4> QED
        BY <1>8, <2>3, <3>2, <4>1, <4>2
    <3> QED
      BY <2>3, <3>1, <3>2
  <2>7. WireRight'
    <3>1. ASSUME NEW n \in 1 .. Len(gWire'[p])
          PROVE  /\ gBrowse'[p] = "on"
                 /\ ProtocolOf(gWire'[p][n].of) = p
                 /\ ~Named(gWire'[p][n].of) => gWire'[p][n].nr # 0
                 /\ gWire'[p][n].kind = "resolved" /\ gWire'[p][n].of \notin net =>
                      \E m \in n + 1 .. Len(gWire'[p]) :
                         gWire'[p][m].kind = "removed" /\ gWire'[p][m].of = gWire'[p][n].of
      BY <2>3, <2>4, <2>6
    <3> QED
      BY <1>2, <2>5, <3>1 DEF WireRight
  <2>8. ASSUME NEW i \in gKnown, i.of \notin net PROVE WillBeRemoved(i.of)'
    <3>1. i.of \in Services /\ ProtocolOf(i.of) \in Protocols
      BY <1>1, ProtocolOfAny DEF DirectoryShape, Ids
    <3>2. CASE i.of = s
      <4>1. told = "removed"
        BY <1>7, <2>8, <3>2
      <4> QED
        BY <1>2, <1>4, <2>3, <2>4, <3>2, <4>1 DEF WillBeRemoved
    <3>3. CASE i.of # s
      <4>1. WillBeRemoved(i.of)
        BY <1>1, <1>6, <2>8, <3>1, <3>3 DEF KnownRight
      <4>2. CASE ProtocolOf(i.of) = p
        <5>1. PICK m \in 1 .. len : gWire[p][m].kind = "removed" /\ gWire[p][m].of = i.of
          BY <2>1, <4>1, <4>2 DEF WillBeRemoved
        <5>2. m \in 1 .. Len(gWire'[p]) /\ gWire'[p][m].kind = "removed" /\ gWire'[p][m].of = i.of
          BY <2>3, <2>4, <5>1
        <5> QED
          BY <4>2, <5>2 DEF WillBeRemoved
      <4>3. CASE ProtocolOf(i.of) # p
        BY <2>4, <3>1, <4>1, <4>3 DEF WillBeRemoved
      <4> QED
        BY <4>2, <4>3
    <3> QED
      BY <3>2, <3>3
  <2>9. KnownRight'
    BY <1>1, <1>2, <2>8 DEF KnownRight, Numbered
  <2> QED
    BY <1>2, <1>3, <1>4, <1>5, <2>7, <2>9
<1>9. CASE gBrowse[p] # "on"
  <2>1. gWire' = gWire
    BY <1>3, <1>9
  <2>2. ASSUME NEW q \in Protocols, NEW n \in 1 .. Len(gWire[q])
        PROVE  gWire[q][n].of # s /\ gWire[q][n].of \in Services
    <3>1. gBrowse[q] = "on" /\ ProtocolOf(gWire[q][n].of) = q
      BY <1>1, <2>2 DEF WireRight
    <3> QED
      BY <1>1, <1>2, <1>9, <2>2, <3>1, WireTold
  <2>3. ASSUME NEW i \in gKnown PROVE i.of # s /\ i.of \in Services
    <3>1. gBrowse[ProtocolOf(i.of)] = "on" /\ i.of \in Services
      BY <1>1, <2>3 DEF KnownRight, DirectoryShape, Ids
    <3> QED
      BY <1>2, <1>9, <3>1
  <2>4. WireRight'
    BY <1>1, <1>2, <1>6, <2>1, <2>2 DEF WireRight
  <2>5. KnownRight'
    BY <1>1, <1>2, <1>6, <2>1, <2>3 DEF KnownRight, Numbered, WillBeRemoved
  <2> QED
    BY <1>2, <1>3, <1>4, <1>5, <2>4, <2>5
<1> QED
  BY <1>8, <1>9

LEMMA NetworkRight ==
  ASSUME DirectoryInv, NEW s \in Services,
         Appear(s) \/ Withdraw(s) \/ AdvertiseStart \/ AdvertiseStop
  PROVE  DirectoryInv'
<1>1. DirectoryShape /\ FoundRight /\ WindowRight /\ CastsRight /\ Us \in Services
  BY DirectoryAssumption DEF DirectoryInv, Services
<1>2. PICK x \in Services :
        \/ Tell("resolved", x) /\ gNet' = gNet \cup {x}
        \/ Tell("removed", x) /\ gNet' = gNet \ {x}
  BY <1>1 DEF Appear, Withdraw, AdvertiseStart, AdvertiseStop
<1>3. /\ UNCHANGED <<gBrowse, gKnown, gFound, gDevices, gForward, gEvents, gQueue, gShown, gStreaming, gHidden,
                     gCast, gEarly, gFilter>>
      /\ gAdvert' \in {"off", "announced", "on", "withdrawn"}
  BY <1>1 DEF DirectoryShape, Appear, Withdraw, AdvertiseStart, AdvertiseStop, ours, passedOn, manager, window
<1>4. /\ WireRight' /\ KnownRight' /\ gNet' \subseteq Services /\ gTidings' \in 0 .. MaxTidings
      /\ gWire' \in [Protocols -> Seq(Tidings)]
  BY <1>2, <1>3, ToldRight
<1>5. DirectoryShape'
  BY <1>1, <1>3, <1>4 DEF DirectoryShape
<1> QED
  BY <1>1, <1>3, <1>4, <1>5, FoundStays, WindowStays DEF DirectoryInv

LEMMA RegistryRight ==
  ASSUME DirectoryInv, RegisterOurId \/ UnregisterOurId
  PROVE  DirectoryInv'
<1>1. /\ UNCHANGED <<gNet, gTidings, gWire, gBrowse, gKnown, gFound, gDevices, gForward, gEvents, gQueue, gShown,
                     gStreaming, gHidden, gCast, gEarly>>
      /\ gAdvert' \in {"off", "announced", "on", "withdrawn"} /\ gFilter' \in BOOLEAN
  BY DEF DirectoryInv, DirectoryShape, RegisterOurId, UnregisterOurId, network, browsers, passedOn, manager, window
<1>2. DirectoryShape'
  BY <1>1 DEF DirectoryInv, DirectoryShape
<1>3. WireRight' /\ KnownRight'
  BY <1>1 DEF DirectoryInv, WireRight, KnownRight, WillBeRemoved, Numbered
<1> QED
  BY <1>1, <1>2, <1>3, FoundStays, WindowStays DEF DirectoryInv

-----------------------------------------------------------------------------
\* The browse tasks.

\* A task takes a word from its wire: what is left is right, and only the word on the service it
\* took may be missing.
LEMMA TakenRight ==
  ASSUME DirectoryShape, WireRight, NEW p \in Protocols, NEW told, Takes(p, told), UNCHANGED <<gNet, gBrowse>>
  PROVE  /\ gWire' \in [Protocols -> Seq(Tidings)] /\ WireRight'
         /\ Head(gWire[p]) \in Tidings /\ Head(gWire[p]).of \in Services /\ Head(gWire[p]).kind = told
         /\ gBrowse[p] = "on" /\ ProtocolOf(Head(gWire[p]).of) = p
         /\ ~Named(Head(gWire[p]).of) => Head(gWire[p]).nr # 0
         /\ \A s \in Services : WillBeRemoved(s) => WillBeRemoved(s)' \/ (told = "removed" /\ s = Head(gWire[p]).of)
         /\ \A s \in Services : told = "resolved" /\ s = Head(gWire[p]).of /\ s \notin gNet => WillBeRemoved(s)'
<1>1. PICK len, wire, e : len = Len(gWire[p]) - 1 /\ wire = Tail(gWire[p]) /\ e = Head(gWire[p])
  OBVIOUS
<1>2. /\ gBrowse[p] = "on" /\ gWire[p] # <<>> /\ e.kind = told
      /\ gWire \in [Protocols -> Seq(Tidings)] /\ gWire' = [gWire EXCEPT ![p] = wire]
  BY <1>1 DEF Takes, DirectoryShape
<1>3. /\ len \in Nat /\ Len(gWire[p]) = len + 1 /\ wire \in Seq(Tidings) /\ Len(wire) = len
      /\ e = gWire[p][1] /\ 1 \in 1 .. len + 1
      /\ \A k \in 1 .. len : wire[k] = gWire[p][k + 1] /\ k + 1 \in 1 .. len + 1
  BY <1>1, <1>2
<1>4. gWire' \in [Protocols -> Seq(Tidings)] /\ gWire'[p] = wire /\ \A q \in Protocols : q # p => gWire'[q] = gWire[q]
  BY <1>2, <1>3
<1>5. e \in Tidings /\ e.of \in Services
  BY <1>3, WireTold
<1>6. /\ ProtocolOf(e.of) = p
      /\ ~Named(e.of) => e.nr # 0
      /\ e.kind = "resolved" /\ e.of \notin gNet =>
           \E m \in 1 + 1 .. len + 1 : gWire[p][m].kind = "removed" /\ gWire[p][m].of = e.of
  BY <1>3 DEF WireRight
<1>7. ASSUME NEW n \in 1 .. len
      PROVE  /\ ProtocolOf(wire[n].of) = p
             /\ ~Named(wire[n].of) => wire[n].nr # 0
             /\ wire[n].kind = "resolved" /\ wire[n].of \notin gNet =>
                  \E m \in n + 1 .. len : wire[m].kind = "removed" /\ wire[m].of = wire[n].of
  <2>1. PICK k \in 1 .. len + 1 : k = n + 1 /\ wire[n] = gWire[p][k]
    BY <1>3
  <2>2. /\ ProtocolOf(wire[n].of) = p
        /\ ~Named(wire[n].of) => wire[n].nr # 0
        /\ wire[n].kind = "resolved" /\ wire[n].of \notin gNet =>
             \E m \in k + 1 .. len + 1 : gWire[p][m].kind = "removed" /\ gWire[p][m].of = wire[n].of
    BY <1>3, <2>1 DEF WireRight
  <2>3. ASSUME wire[n].kind = "resolved", wire[n].of \notin gNet
        PROVE  \E m \in n + 1 .. len : wire[m].kind = "removed" /\ wire[m].of = wire[n].of
    <3>1. PICK m \in k + 1 .. len + 1 : gWire[p][m].kind = "removed" /\ gWire[p][m].of = wire[n].of
      BY <2>2, <2>3
    <3>2. PICK j : j = m - 1
      OBVIOUS
    <3>3. j \in n + 1 .. len /\ j \in 1 .. len /\ j + 1 = m
      BY <1>3, <2>1, <3>2
    <3> QED
      BY <1>3, <3>1, <3>3
  <2> QED
    BY <2>2, <2>3
<1>8. WireRight'
  <2>1. ASSUME NEW q \in Protocols, q # p, NEW n \in 1 .. Len(gWire'[q])
        PROVE  /\ gBrowse'[q] = "on"
               /\ ProtocolOf(gWire'[q][n].of) = q
               /\ ~Named(gWire'[q][n].of) => gWire'[q][n].nr # 0
               /\ gWire'[q][n].kind = "resolved" /\ gWire'[q][n].of \notin gNet' =>
                    \E m \in n + 1 .. Len(gWire'[q]) :
                       gWire'[q][m].kind = "removed" /\ gWire'[q][m].of = gWire'[q][n].of
    BY <1>4, <2>1 DEF WireRight
  <2>2. ASSUME NEW n \in 1 .. Len(gWire'[p])
        PROVE  /\ gBrowse'[p] = "on"
               /\ ProtocolOf(gWire'[p][n].of) = p
               /\ ~Named(gWire'[p][n].of) => gWire'[p][n].nr # 0
               /\ gWire'[p][n].kind = "resolved" /\ gWire'[p][n].of \notin gNet' =>
                    \E m \in n + 1 .. Len(gWire'[p]) :
                       gWire'[p][m].kind = "removed" /\ gWire'[p][m].of = gWire'[p][n].of
    BY <1>2, <1>3, <1>4, <1>7
  <2> QED
    BY <2>1, <2>2 DEF WireRight
<1>9. ASSUME NEW m \in 1 + 1 .. len + 1, gWire[p][m].kind = "removed"
      PROVE  \E j \in 1 .. len : wire[j].kind = "removed" /\ wire[j].of = gWire[p][m].of
  <2>1. PICK j : j = m - 1
    OBVIOUS
  <2>2. j \in 1 .. len /\ j + 1 = m
    BY <1>3, <2>1, SMTT(60)
  <2> QED
    BY <1>3, <1>9, <2>2
<1>10. \A m \in 1 .. len + 1 : m = 1 \/ m \in 1 + 1 .. len + 1
  BY <1>3
<1>11. ASSUME NEW s \in Services, WillBeRemoved(s) PROVE WillBeRemoved(s)' \/ (told = "removed" /\ s = e.of)
  <2>1. PICK q \in Protocols : q = ProtocolOf(s)
    BY ProtocolOfAny
  <2>2. CASE q # p
    BY <1>4, <1>11, <2>1, <2>2 DEF WillBeRemoved
  <2>3. CASE q = p
    <3>1. PICK m \in 1 .. len + 1 : gWire[p][m].kind = "removed" /\ gWire[p][m].of = s
      BY <1>3, <1>11, <2>1, <2>3 DEF WillBeRemoved
    <3>2. CASE m = 1
      BY <1>2, <1>3, <3>1, <3>2
    <3>3. CASE m \in 1 + 1 .. len + 1
      <4>1. PICK j \in 1 .. len : wire[j].kind = "removed" /\ wire[j].of = s
        BY <1>9, <3>1, <3>3
      <4> QED
        BY <1>3, <1>4, <2>1, <2>3, <4>1 DEF WillBeRemoved
    <3> QED
      BY <1>10, <3>2, <3>3
  <2> QED
    BY <2>2, <2>3
<1>12. ASSUME told = "resolved", e.of \notin gNet PROVE WillBeRemoved(e.of)'
  <2>1. PICK m \in 1 + 1 .. len + 1 : gWire[p][m].kind = "removed" /\ gWire[p][m].of = e.of
    BY <1>2, <1>6, <1>12
  <2>2. PICK j \in 1 .. len : wire[j].kind = "removed" /\ wire[j].of = e.of
    BY <1>9, <2>1
  <2> QED
    BY <1>3, <1>4, <1>6, <2>2 DEF WillBeRemoved
<1> QED
  BY <1>1, <1>2, <1>4, <1>5, <1>6, <1>8, <1>11, <1>12

\* What the forwarder will make of the devices, when its channel grows.
LEMMA FoundGrows ==
  ASSUME gFound \in Seq(News), NEW word \in News, gFound' = Append(gFound, word), gDevices' = gDevices
  PROVE  \A i \in Ids : ComesToDevices(i)' <=> word \in Found(i) \/ (word \notin Lost(i) /\ ComesToDevices(i))
<1>1. ASSUME NEW i \in Ids
      PROVE  ComesToDevices(i)' <=> word \in Found(i) \/ (word \notin Lost(i) /\ ComesToDevices(i))
  <2>1. PICK add, take : add = Found(i) /\ take = Lost(i)
    OBVIOUS
  <2>2. /\ EndsAdding(gFound, add, take)' <=> word \in add \/ (word \notin take /\ EndsAdding(gFound, add, take))
        /\ TakesNothing(gFound, take)' <=> word \notin take /\ TakesNothing(gFound, take)
    BY AppendEnds
  <2>3. /\ ComesToDevices(i) <=> EndsAdding(gFound, add, take) \/ (TakesNothing(gFound, take) /\ i \in gDevices)
        /\ ComesToDevices(i)' <=> EndsAdding(gFound, add, take)' \/ (TakesNothing(gFound, take)' /\ i \in gDevices)
    BY <2>1 DEF ComesToDevices, Found, Lost
  <2> QED
    BY <2>1, <2>2, <2>3
<1> QED
  BY <1>1

\* The steps of a browse task leave the manager and the window alone.
LEMMA BrowseLeaves ==
  ASSUME UNCHANGED <<network, ours, manager, window, gCast>>
  PROVE  UNCHANGED <<gNet, gTidings, gAdvert, gFilter, gDevices, gForward, gEvents, gQueue, gShown, gStreaming,
                     gHidden, gCast>>
  BY DEF network, ours, manager, window

LEMMA ResolvedRight ==
  ASSUME DirectoryInv, NEW p \in Protocols, Resolved(p)
  PROVE  DirectoryInv'
<1>1. DirectoryShape /\ WireRight /\ KnownRight /\ FoundRight /\ WindowRight /\ CastsRight
  BY DEF DirectoryInv
<1>2. PICK e, i, word : e = Head(gWire[p]) /\ i = IdOf(e) /\ word = Said("found", i)
  OBVIOUS
<1>3. /\ Takes(p, "resolved") /\ gBrowse' = gBrowse
      /\ UNCHANGED <<gNet, gTidings, gAdvert, gFilter, gDevices, gForward, gEvents, gQueue, gShown, gStreaming,
                     gHidden, gCast>>
  BY BrowseLeaves DEF Resolved
<1>4. /\ gWire' \in [Protocols -> Seq(Tidings)] /\ WireRight'
      /\ e \in Tidings /\ e.of \in Services /\ e.kind = "resolved"
      /\ gBrowse[p] = "on" /\ ProtocolOf(e.of) = p
      /\ ~Named(e.of) => e.nr # 0
      /\ \A s \in Services : WillBeRemoved(s) => WillBeRemoved(s)'
      /\ e.of \notin gNet => WillBeRemoved(e.of)'
  BY <1>1, <1>2, <1>3, TakenRight
<1>5. i \in Ids /\ i.of = e.of /\ Numbered(i)
  <2>1. i = [of |-> e.of, nr |-> IF Named(e.of) THEN 0 ELSE e.nr]
    BY <1>2 DEF IdOf
  <2>2. e.nr \in 0 .. MaxTidings /\ 0 \in 0 .. MaxTidings
    BY <1>4, DirectoryAssumption DEF Tidings
  <2> QED
    BY <1>4, <2>1, <2>2 DEF Ids, Numbered
<1>6. word \in News /\ word.kind = "found" /\ word.id = i
  BY <1>2, <1>5 DEF News, Said
<1>7. WindowRight' /\ CastsRight'
  BY <1>1, <1>3, WindowStays
<1>8. CASE UNCHANGED <<gKnown, gFound, gEarly>>
  <2>1. KnownRight'
    <3>1. \A j \in gKnown : j.of \in Services
      BY <1>1 DEF DirectoryShape, Ids
    <3> QED
      BY <1>1, <1>3, <1>4, <1>8, <3>1 DEF KnownRight, Numbered
  <2>2. DirectoryShape'
    BY <1>1, <1>3, <1>4, <1>8 DEF DirectoryShape
  <2> QED
    BY <1>1, <1>3, <1>4, <1>7, <1>8, <2>1, <2>2, FoundStays DEF DirectoryInv
<1>9. CASE /\ ~(i.of = Us /\ gFilter) /\ Fits(gFound)
           /\ gKnown' = Known(i) /\ gFound' = Append(gFound, word)
           /\ gEarly' = (gEarly \/ (i.of = Us /\ ~gFilter))
  <2>1. gKnown' \subseteq Ids /\ i \in gKnown' /\ \A j \in gKnown' : j = i \/ (j \in gKnown /\ j.of # i.of)
    BY <1>1, <1>5, <1>9 DEF Known, Unknown, DirectoryShape
  <2>2. gEarly' \in BOOLEAN /\ (gEarly => gEarly') /\ (i.of = Us => gEarly')
    BY <1>1, <1>9 DEF DirectoryShape
  <2>3. KnownRight'
    <3>1. ASSUME NEW j \in gKnown'
          PROVE  /\ gBrowse'[ProtocolOf(j.of)] = "on" /\ Numbered(j)
                 /\ j.of \notin gNet' => WillBeRemoved(j.of)'
                 /\ j.of = Us => gEarly'
      <4>1. CASE j = i
        BY <1>3, <1>4, <1>5, <2>2, <4>1
      <4>2. CASE j \in gKnown
        <5>1. j.of \in Services
          BY <1>1, <4>2 DEF DirectoryShape, Ids
        <5> QED
          BY <1>1, <1>3, <1>4, <2>2, <4>2, <5>1 DEF KnownRight
      <4> QED
        BY <2>1, <4>1, <4>2
    <3>2. \A j, k \in gKnown' : j.of = k.of => j = k
      BY <1>1, <2>1 DEF KnownRight
    <3> QED
      BY <3>1, <3>2 DEF KnownRight, Numbered
  <2>4. gFound' \in Seq(News) /\ Len(gFound') <= ChannelRoom
    BY <1>1, <1>6, <1>9, DirectoryAssumption DEF DirectoryShape, Fits
  <2>5. DirectoryShape'
    BY <1>1, <1>3, <1>4, <2>1, <2>2, <2>4 DEF DirectoryShape
  <2>6. \A j \in Ids : ComesToDevices(j)' <=> j = i \/ ComesToDevices(j)
    <3>1. \A j \in Ids : ComesToDevices(j)' <=> word \in Found(j) \/ (word \notin Lost(j) /\ ComesToDevices(j))
      BY <1>1, <1>3, <1>6, <1>9, FoundGrows DEF DirectoryShape
    <3>2. \A j \in Ids : (word \in Found(j) <=> j = i) /\ word \notin Lost(j)
      BY <1>2 DEF Found, Lost, Said
    <3> QED
      BY <3>1, <3>2
  <2>7. FoundRight'
    <3>1. ASSUME NEW n \in 1 .. Len(gFound'), gFound'[n].kind = "found"
          PROVE  /\ gBrowse'[ProtocolOf(gFound'[n].id.of)] # "off" /\ Numbered(gFound'[n].id)
                 /\ gFound'[n].id.of = Us => gEarly'
      <4>1. PICK len \in Nat : len = Len(gFound)
        BY <1>1 DEF DirectoryShape
      <4>2. /\ Len(gFound') = len + 1 /\ gFound'[len + 1] = word
            /\ \A k \in 1 .. len : gFound'[k] = gFound[k]
        BY <1>1, <1>9, <4>1 DEF DirectoryShape
      <4>3. CASE n = len + 1
        BY <1>3, <1>4, <1>5, <1>6, <2>2, <4>2, <4>3
      <4>4. CASE n \in 1 .. len
        BY <1>1, <1>3, <2>2, <3>1, <4>1, <4>2, <4>4 DEF FoundRight
      <4> QED
        BY <4>2, <4>3, <4>4
    <3>2. \A j \in gDevices' : /\ gBrowse'[ProtocolOf(j.of)] # "off" /\ Numbered(j)
                               /\ j.of = Us => gEarly'
      BY <1>1, <1>3, <2>2 DEF FoundRight
    <3>3. \A j \in gKnown' : ComesToDevices(j)'
      BY <1>1, <1>5, <2>1, <2>6 DEF FoundRight, DirectoryShape
    <3>4. ASSUME NEW j \in Ids, ComesToDevices(j)', gBrowse'[ProtocolOf(j.of)] = "on", j \notin gKnown'
          PROVE  j.nr # 0
      <4>1. j # i /\ ComesToDevices(j) /\ gBrowse[ProtocolOf(j.of)] = "on"
        BY <1>3, <2>1, <2>6, <3>4
      <4>2. CASE j \notin gKnown
        BY <1>1, <4>1, <4>2 DEF FoundRight
      <4>3. CASE j \in gKnown
        <5>1. j.of = i.of
          BY <1>9, <3>4, <4>3 DEF Known, Unknown
        <5>2. Numbered(j)
          BY <1>1, <4>3 DEF KnownRight
        <5>3. j.nr # i.nr
          BY <1>5, <4>1, <5>1 DEF Ids
        <5> QED
          BY <1>5, <5>1, <5>2, <5>3 DEF Numbered
      <4> QED
        BY <4>2, <4>3
    <3> QED
      BY <3>1, <3>2, <3>3, <3>4 DEF FoundRight, Numbered
  <2> QED
    BY <1>4, <1>7, <2>3, <2>5, <2>7 DEF DirectoryInv
<1> QED
  <2>1. \/ UNCHANGED <<gKnown, gFound, gEarly>>
        \/ /\ ~(i.of = Us /\ gFilter) /\ Fits(gFound)
           /\ gKnown' = Known(i) /\ gFound' = Append(gFound, word)
           /\ gEarly' = (gEarly \/ (i.of = Us /\ ~gFilter))
    BY <1>2 DEF Resolved
  <2> QED
    BY <1>8, <1>9, <2>1

LEMMA RemovedRight ==
  ASSUME DirectoryInv, NEW p \in Protocols, Removed(p)
  PROVE  DirectoryInv'
<1>1. DirectoryShape /\ WireRight /\ KnownRight /\ FoundRight /\ WindowRight /\ CastsRight
  BY DEF DirectoryInv
<1>2. PICK s : s = Head(gWire[p]).of
  OBVIOUS
<1>3. /\ Takes(p, "removed") /\ gBrowse' = gBrowse /\ gEarly' = gEarly /\ gKnown' = Unknown(s)
      /\ UNCHANGED <<gNet, gTidings, gAdvert, gFilter, gDevices, gForward, gEvents, gQueue, gShown, gStreaming,
                     gHidden, gCast>>
  BY <1>2, BrowseLeaves DEF Removed
<1>4. /\ gWire' \in [Protocols -> Seq(Tidings)] /\ WireRight'
      /\ \A x \in Services : x # s /\ WillBeRemoved(x) => WillBeRemoved(x)'
  BY <1>1, <1>2, <1>3, TakenRight
<1>5. WindowRight' /\ CastsRight'
  BY <1>1, <1>3, WindowStays
<1>6. \A j \in gKnown' : j \in gKnown /\ j.of # s /\ j \in Ids /\ j.of \in Services
  BY <1>1, <1>3 DEF Unknown, DirectoryShape, Ids
<1>7. KnownRight'
  BY <1>1, <1>3, <1>4, <1>6 DEF KnownRight, Numbered
<1>8. CASE {i \in gKnown : i.of = s} = {} /\ gFound' = gFound
  <2>1. gKnown' = gKnown
    BY <1>3, <1>8 DEF Unknown
  <2>2. DirectoryShape'
    BY <1>1, <1>3, <1>4, <1>8, <2>1 DEF DirectoryShape
  <2> QED
    BY <1>1, <1>3, <1>4, <1>5, <1>7, <1>8, <2>1, <2>2, FoundStays DEF DirectoryInv
<1>9. CASE Fits(gFound) /\ \E i \in {j \in gKnown : j.of = s} : gFound' = Append(gFound, Said("lost", i))
  <2>1. PICK i \in gKnown : i.of = s /\ gFound' = Append(gFound, Said("lost", i))
    BY <1>9
  <2>2. PICK word : word = Said("lost", i)
    OBVIOUS
  <2>3. i \in Ids /\ word \in News /\ word.kind = "lost"
    BY <1>1, <2>2 DEF DirectoryShape, News, Said
  <2>4. gFound' \in Seq(News) /\ Len(gFound') <= ChannelRoom
    BY <1>1, <1>9, <2>1, <2>2, <2>3, DirectoryAssumption DEF DirectoryShape, Fits
  <2>5. DirectoryShape'
    BY <1>1, <1>3, <1>4, <1>6, <2>4 DEF DirectoryShape
  <2>6. \A j \in Ids : ComesToDevices(j)' <=> j # i /\ ComesToDevices(j)
    <3>1. \A j \in Ids : ComesToDevices(j)' <=> word \in Found(j) \/ (word \notin Lost(j) /\ ComesToDevices(j))
      BY <1>1, <1>3, <2>1, <2>2, <2>3, FoundGrows DEF DirectoryShape
    <3>2. \A j \in Ids : word \notin Found(j) /\ (word \in Lost(j) <=> j = i)
      BY <2>2 DEF Found, Lost, Said
    <3> QED
      BY <3>1, <3>2
  <2>7. FoundRight'
    <3>1. ASSUME NEW n \in 1 .. Len(gFound'), gFound'[n].kind = "found"
          PROVE  /\ gBrowse'[ProtocolOf(gFound'[n].id.of)] # "off" /\ Numbered(gFound'[n].id)
                 /\ gFound'[n].id.of = Us => gEarly'
      <4>1. PICK len \in Nat : len = Len(gFound)
        BY <1>1 DEF DirectoryShape
      <4>2. /\ Len(gFound') = len + 1 /\ gFound'[len + 1] = word
            /\ \A k \in 1 .. len : gFound'[k] = gFound[k]
        BY <1>1, <2>1, <2>2, <4>1 DEF DirectoryShape
      <4>3. n \in 1 .. len
        BY <2>3, <3>1, <4>2
      <4> QED
        BY <1>1, <1>3, <3>1, <4>1, <4>2, <4>3 DEF FoundRight
    <3>2. \A j \in gDevices' : /\ gBrowse'[ProtocolOf(j.of)] # "off" /\ Numbered(j)
                               /\ j.of = Us => gEarly'
      BY <1>1, <1>3 DEF FoundRight
    <3>3. \A j \in gKnown' : ComesToDevices(j)'
      BY <1>1, <1>6, <2>1, <2>6 DEF FoundRight
    <3>4. ASSUME NEW j \in Ids, ComesToDevices(j)', gBrowse'[ProtocolOf(j.of)] = "on", j \notin gKnown'
          PROVE  j.nr # 0
      <4>1. j # i /\ ComesToDevices(j) /\ gBrowse[ProtocolOf(j.of)] = "on"
        BY <1>3, <2>6, <3>4
      <4>2. j \notin gKnown
        BY <1>1, <1>3, <2>1, <3>4, <4>1 DEF KnownRight, Unknown
      <4> QED
        BY <1>1, <4>1, <4>2 DEF FoundRight
    <3> QED
      BY <3>1, <3>2, <3>3, <3>4 DEF FoundRight, Numbered
  <2> QED
    BY <1>4, <1>5, <1>7, <2>5, <2>7 DEF DirectoryInv
<1> QED
  BY <1>2, <1>8, <1>9 DEF Removed

LEMMA StartBrowseRight ==
  ASSUME DirectoryInv, NEW p \in Protocols, StartBrowse(p)
  PROVE  DirectoryInv'
<1>1. DirectoryShape /\ WireRight /\ KnownRight /\ FoundRight /\ WindowRight /\ CastsRight
  BY DEF DirectoryInv
<1>2. /\ gBrowse[p] = "off"
      /\ UNCHANGED <<gNet, gTidings, gAdvert, gFilter, gKnown, gFound, gDevices, gForward, gEvents, gQueue, gShown,
                     gStreaming, gHidden, gCast, gEarly>>
  BY DEF StartBrowse, network, ours, passedOn, manager, window
<1>3. PICK e, us : /\ us = (p = ProtocolOf(Us) /\ Us \in gNet)
                   /\ e = [kind |-> "resolved", of |-> Us, nr |-> gTidings]
  OBVIOUS
<1>4. e \in Tidings /\ Named(e.of) /\ e.of = Us
  BY <1>1, <1>3, DirectoryAssumption DEF DirectoryShape, Tidings, Services, Named
<1>5. /\ gBrowse' \in [Protocols -> {"off", "on", "failed", "stopped"}] /\ gBrowse'[p] \in {"on", "failed"}
      /\ \A q \in Protocols : q # p => gBrowse'[q] = gBrowse[q]
      /\ gWire' = gWire \/ (gBrowse'[p] = "on" /\ us /\ gWire' = [gWire EXCEPT ![p] = <<e>>])
  <2>1. /\ gBrowse' = [gBrowse EXCEPT ![p] = "on"] \/ gBrowse' = [gBrowse EXCEPT ![p] = "failed"]
        /\ \/ gWire' = gWire
           \/ gBrowse' = [gBrowse EXCEPT ![p] = "on"] /\ us /\ gWire' = [gWire EXCEPT ![p] = <<e>>]
    BY <1>3 DEF StartBrowse, Heard
  <2> QED
    BY <1>1, <2>1 DEF DirectoryShape
<1>6. \A n \in 1 .. Len(gWire[p]) : FALSE
  BY <1>1, <1>2 DEF WireRight
<1>7. \A q \in Protocols : gBrowse[q] # "off" => q # p /\ gBrowse'[q] = gBrowse[q]
  BY <1>2, <1>5
<1>8. gWire' \in [Protocols -> Seq(Tidings)]
  <2>1. gWire \in [Protocols -> Seq(Tidings)] /\ <<e>> \in Seq(Tidings)
    BY <1>1, <1>4 DEF DirectoryShape
  <2> QED
    BY ONLY <1>5, <2>1
<1>9. ASSUME NEW q \in Protocols, NEW n \in 1 .. Len(gWire'[q])
      PROVE  /\ gBrowse'[q] = "on"
             /\ ProtocolOf(gWire'[q][n].of) = q
             /\ ~Named(gWire'[q][n].of) => gWire'[q][n].nr # 0
             /\ gWire'[q][n].kind = "resolved" /\ gWire'[q][n].of \notin gNet' =>
                  \E m \in n + 1 .. Len(gWire'[q]) :
                     gWire'[q][m].kind = "removed" /\ gWire'[q][m].of = gWire'[q][n].of
  <2>1. CASE gWire'[q] = gWire[q]
    <3>1. q # p
      BY <1>6, <1>9, <2>1
    <3> QED
      BY <1>1, <1>2, <1>5, <1>9, <2>1, <3>1 DEF WireRight
  <2>2. CASE q = p /\ gBrowse'[p] = "on" /\ us /\ gWire'[q] = <<e>>
    <3>1. n = 1 /\ gWire'[q][n] = e
      BY <1>9, <2>2
    <3> QED
      BY <1>2, <1>3, <1>4, <2>2, <3>1
  <2>3. gWire \in [Protocols -> Seq(Tidings)]
    BY <1>1 DEF DirectoryShape
  <2> QED
    BY <1>5, <2>1, <2>2, <2>3
<1>10. WireRight'
  BY <1>9 DEF WireRight
<1>11. \A j \in gKnown \cup gDevices : j \in Ids /\ ProtocolOf(j.of) \in Protocols /\ j.of \in Services
  BY <1>1, ProtocolOfAny DEF DirectoryShape, Ids
<1>12. \A j \in gKnown : gBrowse[ProtocolOf(j.of)] = "on" /\ gBrowse'[ProtocolOf(j.of)] = "on" /\ ProtocolOf(j.of) # p
  BY <1>1, <1>7, <1>11 DEF KnownRight
<1>13. \A j \in gKnown : WillBeRemoved(j.of) => WillBeRemoved(j.of)'
  <2>1. \A q \in Protocols : q # p => gWire'[q] = gWire[q]
    BY <1>1, <1>5 DEF DirectoryShape
  <2> QED
    BY <1>2, <1>11, <1>12, <2>1 DEF WillBeRemoved
<1>14. KnownRight'
  BY <1>1, <1>2, <1>12, <1>13 DEF KnownRight, Numbered
<1>15. DirectoryShape'
  BY <1>1, <1>2, <1>5, <1>8 DEF DirectoryShape
<1>16. \A n \in 1 .. Len(gFound) : gFound[n] \in News
  BY <1>1 DEF DirectoryShape
<1>17. ASSUME NEW n \in 1 .. Len(gFound), gFound[n].kind = "found"
       PROVE  /\ gBrowse[ProtocolOf(gFound[n].id.of)] # "off" /\ gBrowse'[ProtocolOf(gFound[n].id.of)] # "off"
              /\ ProtocolOf(gFound[n].id.of) # p
  <2>1. gFound[n].id.of \in Services /\ ProtocolOf(gFound[n].id.of) \in Protocols
    BY <1>16, ProtocolOfAny DEF News, Ids
  <2> QED
    BY <1>1, <1>7, <1>17, <2>1 DEF FoundRight
<1>18. \A j : ComesToDevices(j)' <=> ComesToDevices(j)
  BY <1>2 DEF ComesToDevices, EndsAdding, TakesNothing
<1>19. ASSUME NEW j \in Ids, ComesToDevices(j) PROVE ProtocolOf(j.of) # p
  <2>1. CASE j \in gDevices
    BY <1>1, <1>2, <2>1 DEF FoundRight
  <2>2. CASE EndsAdding(gFound, Found(j), Lost(j))
    <3>1. PICK n \in 1 .. Len(gFound) : gFound[n] = Said("found", j)
      BY <2>2 DEF EndsAdding, Found
    <3>2. gFound[n].kind = "found" /\ gFound[n].id = j
      BY <3>1 DEF Said
    <3> QED
      BY <1>17, <3>2
  <2> QED
    BY <1>19, <2>1, <2>2 DEF ComesToDevices
<1>20. FoundRight'
  <2>1. \A j \in gDevices : gBrowse'[ProtocolOf(j.of)] # "off"
    BY <1>1, <1>7, <1>11 DEF FoundRight
  <2>2. ASSUME NEW j \in Ids, ComesToDevices(j), gBrowse'[ProtocolOf(j.of)] = "on", j \notin gKnown PROVE j.nr # 0
    <3>1. ProtocolOf(j.of) \in Protocols /\ ProtocolOf(j.of) # p
      BY <1>19, <2>2, ProtocolOfAny DEF Ids
    <3> QED
      BY <1>1, <1>5, <2>2, <3>1 DEF FoundRight
  <2> QED
    BY <1>1, <1>2, <1>17, <1>18, <2>1, <2>2 DEF FoundRight, Numbered
<1> QED
  BY <1>1, <1>2, <1>10, <1>14, <1>15, <1>20, WindowStays DEF DirectoryInv

LEMMA StopDiscoveryRight ==
  ASSUME DirectoryInv, StopDiscovery
  PROVE  DirectoryInv'
<1>1. DirectoryShape /\ WireRight /\ KnownRight /\ FoundRight /\ WindowRight /\ CastsRight
  BY DEF DirectoryInv
<1>2. /\ gBrowse' = [gBrowse EXCEPT !["chromecast"] = "stopped"]
      /\ gWire' = [gWire EXCEPT !["chromecast"] = <<>>]
      /\ gKnown' = {i \in gKnown : ProtocolOf(i.of) # "chromecast"}
      /\ UNCHANGED <<gNet, gTidings, gAdvert, gFilter, gFound, gDevices, gForward, gEvents, gQueue, gShown,
                     gStreaming, gHidden, gCast, gEarly>>
  BY DEF StopDiscovery, network, ours, passedOn, manager, window
<1>3. "chromecast" \in Protocols
  BY DEF Protocols
<1>4. DirectoryShape'
  <2>1. gKnown' \subseteq Ids /\ gBrowse' \in [Protocols -> {"off", "on", "failed", "stopped"}]
    BY <1>1, <1>2 DEF DirectoryShape
  <2>2. gWire' \in [Protocols -> Seq(Tidings)]
    <3>1. gWire \in [Protocols -> Seq(Tidings)] /\ <<>> \in Seq(Tidings)
      BY <1>1 DEF DirectoryShape
    <3> QED
      BY ONLY <1>2, <3>1
  <2> QED
    BY <1>1, <1>2, <2>1, <2>2 DEF DirectoryShape
<1>5. /\ \A q \in Protocols : q # "chromecast" => gWire'[q] = gWire[q] /\ gBrowse'[q] = gBrowse[q]
      /\ gWire'["chromecast"] = <<>> /\ gBrowse'["chromecast"] = "stopped"
  BY <1>1, <1>2, <1>3 DEF DirectoryShape
<1>6. WireRight'
  <2>1. \A n \in 1 .. Len(<<>>) : FALSE
    OBVIOUS
  <2>2. ASSUME NEW q \in Protocols, NEW n \in 1 .. Len(gWire'[q])
        PROVE  /\ gBrowse'[q] = "on"
               /\ ProtocolOf(gWire'[q][n].of) = q
               /\ ~Named(gWire'[q][n].of) => gWire'[q][n].nr # 0
               /\ gWire'[q][n].kind = "resolved" /\ gWire'[q][n].of \notin gNet' =>
                    \E m \in n + 1 .. Len(gWire'[q]) :
                       gWire'[q][m].kind = "removed" /\ gWire'[q][m].of = gWire'[q][n].of
    <3>1. q # "chromecast"
      BY <1>5, <2>1, <2>2
    <3> QED
      BY <1>1, <1>2, <1>5, <2>2, <3>1 DEF WireRight
  <2> QED
    BY <2>2 DEF WireRight
<1>7. \A j \in gKnown' : j \in gKnown /\ j \in Ids /\ ProtocolOf(j.of) \in Protocols /\ ProtocolOf(j.of) # "chromecast"
  BY <1>1, <1>2, ProtocolOfAny DEF DirectoryShape, Ids
<1>8. KnownRight'
  <2>1. \A j \in gKnown' : WillBeRemoved(j.of) => WillBeRemoved(j.of)'
    BY <1>5, <1>7 DEF WillBeRemoved
  <2> QED
    BY <1>1, <1>2, <1>5, <1>7, <2>1 DEF KnownRight, Numbered
<1>9. \A j : ComesToDevices(j)' <=> ComesToDevices(j)
  BY <1>2 DEF ComesToDevices, EndsAdding, TakesNothing
<1>10. FoundRight'
  <2>1. \A q \in Protocols : gBrowse[q] # "off" => gBrowse'[q] # "off"
    BY <1>5
  <2>2. \A n \in 1 .. Len(gFound) : gFound[n].id.of \in Services /\ ProtocolOf(gFound[n].id.of) \in Protocols
    <3>1. \A n \in 1 .. Len(gFound) : gFound[n] \in News
      BY <1>1 DEF DirectoryShape
    <3> QED
      BY <3>1, ProtocolOfAny DEF News, Ids
  <2>3. \A j \in Ids : ProtocolOf(j.of) \in Protocols
    BY ProtocolOfAny DEF Ids
  <2>4. ASSUME NEW j \in Ids, ComesToDevices(j), gBrowse'[ProtocolOf(j.of)] = "on", j \notin gKnown' PROVE j.nr # 0
    <3>1. ProtocolOf(j.of) # "chromecast" /\ gBrowse[ProtocolOf(j.of)] = "on"
      BY <1>5, <2>3, <2>4
    <3>2. j \notin gKnown
      BY <1>2, <2>4, <3>1
    <3> QED
      BY <1>1, <2>4, <3>1, <3>2 DEF FoundRight
  <2>5. \A n \in 1 .. Len(gFound) : gFound[n].kind = "found" => gBrowse'[ProtocolOf(gFound[n].id.of)] # "off"
    BY <1>1, <2>1, <2>2 DEF FoundRight
  <2>6. \A j \in gDevices : gBrowse'[ProtocolOf(j.of)] # "off"
    BY <1>1, <2>1, <2>3 DEF FoundRight, DirectoryShape
  <2>7. \A j \in gKnown' : ComesToDevices(j)
    BY <1>1, <1>7 DEF FoundRight
  <2> QED
    BY <1>1, <1>2, <1>9, <2>4, <2>5, <2>6, <2>7 DEF FoundRight, Numbered
<1> QED
  BY <1>1, <1>2, <1>4, <1>6, <1>8, <1>10, WindowStays DEF DirectoryInv

-----------------------------------------------------------------------------
\* The channels to the window. What a set at their end comes to, in terms of each channel; and
\* what does not change when a word is moved from one channel to the next.

LEMMA WordIs ==
  ASSUME NEW word \in Words, NEW told, NEW i
  PROVE  word = Said(told, i) <=> word.kind = told /\ word.id = i
<1>1. word = [kind |-> word.kind, id |-> word.id]
  BY DEF Words
<1> QED
  BY <1>1 DEF Said

LEMMA NewsAreWords ==
  ASSUME NEW word \in News
  PROVE  word \in Words /\ word.id \in Ids /\ word.kind \in {"found", "lost"}
         /\ \A i : word \notin Starts(i)
  BY DEF News, Words, Starts, Said

\* The network's own steps, the browsers' variables and the fleeting ones.
LEMMA BrowsersStay ==
  ASSUME UNCHANGED <<gNet, gBrowse, gWire, gKnown, gEarly>>
  PROVE  (WireRight => WireRight') /\ (KnownRight => KnownRight')
  BY DEF WireRight, KnownRight, WillBeRemoved, Numbered

\* The forwarder takes a word from its channel and applies it.
LEMMA ApplyRight ==
  ASSUME DirectoryInv, gForward = <<>>, gFound # <<>>, NEW word, word = Head(gFound), gForward' = <<word>>,
         gFound' = Tail(gFound),
         gDevices' = IF word.kind = "found" THEN gDevices \cup {word.id} ELSE gDevices \ {word.id},
         UNCHANGED <<network, ours, browsers, gEvents, window, gCast, gEarly>>
  PROVE  DirectoryInv'
<1>1. DirectoryShape /\ WireRight /\ KnownRight /\ FoundRight /\ WindowRight /\ CastsRight
  BY DEF DirectoryInv
<1>2. UNCHANGED <<gNet, gTidings, gAdvert, gFilter, gBrowse, gWire, gKnown, gEvents, gQueue, gShown, gStreaming,
                  gHidden, gCast, gEarly>>
  BY DEF network, ours, browsers, window
<1>3. PICK len, found : len = Len(gFound) - 1 /\ found = gFound'
  OBVIOUS
<1>4. /\ word \in News /\ found \in Seq(News) /\ len \in Nat /\ Len(gFound) = len + 1 /\ Len(found) = len
      /\ word = gFound[1] /\ 1 \in 1 .. len + 1
      /\ \A k \in 1 .. len : found[k] = gFound[k + 1] /\ k + 1 \in 1 .. len + 1
  BY <1>1, <1>3 DEF DirectoryShape
<1>5. word \in Words /\ word.id \in Ids /\ word.kind \in {"found", "lost"} /\ \A i : word \notin Starts(i)
  BY <1>4, NewsAreWords
<1>6. gForward' \in Seq(News) /\ Len(gForward') = 1 /\ gForward'[1] = word
  BY <1>4
<1>7. DirectoryShape'
  <2>1. Len(gFound') <= ChannelRoom /\ Len(gForward') <= 1
    BY <1>1, <1>3, <1>4, <1>6, DirectoryAssumption DEF DirectoryShape
  <2> QED
    BY <1>1, <1>2, <1>3, <1>4, <1>5, <1>6, <2>1 DEF DirectoryShape
<1>8. \A i \in Ids : i \in gDevices' <=> word \in Found(i) \/ (word \notin Lost(i) /\ i \in gDevices)
  <2>1. ASSUME NEW i \in Ids
        PROVE  (word \in Found(i) <=> word.kind = "found" /\ word.id = i)
               /\ (word \in Lost(i) <=> word.kind = "lost" /\ word.id = i)
    BY <1>5, WordIs DEF Found, Lost
  <2> QED
    BY <1>5, <2>1
<1>9. \A i \in Ids : ComesToDevices(i)' <=> ComesToDevices(i)
  <2>1. ASSUME NEW i \in Ids PROVE ComesToDevices(i)' <=> ComesToDevices(i)
    <3>1. PICK add, take : add = Found(i) /\ take = Lost(i)
      OBVIOUS
    <3>2. /\ EndsAdding(gFound, add, take)
               <=> EndsAdding(found, add, take) \/ (TakesNothing(found, take) /\ word \in add)
          /\ TakesNothing(gFound, take) <=> word \notin take /\ TakesNothing(found, take)
      BY <1>1, <1>3, TailEnds DEF DirectoryShape
    <3>3. /\ ComesToDevices(i) <=> EndsAdding(gFound, add, take) \/ (TakesNothing(gFound, take) /\ i \in gDevices)
          /\ ComesToDevices(i)' <=> EndsAdding(found, add, take) \/ (TakesNothing(found, take) /\ i \in gDevices')
      BY <1>3, <3>1 DEF ComesToDevices, Found, Lost
    <3> QED
      BY <1>8, <3>1, <3>2, <3>3
  <2> QED
    BY <2>1
<1>10. FoundRight'
  <2>1. ASSUME NEW n \in 1 .. Len(gFound'), gFound'[n].kind = "found"
        PROVE  /\ gBrowse[ProtocolOf(gFound'[n].id.of)] # "off" /\ Numbered(gFound'[n].id)
               /\ gFound'[n].id.of = Us => gEarly
    BY <1>1, <1>3, <1>4, <2>1 DEF FoundRight
  <2>2. word.kind = "found" => /\ gBrowse[ProtocolOf(word.id.of)] # "off" /\ Numbered(word.id)
                               /\ word.id.of = Us => gEarly
    BY <1>1, <1>4 DEF FoundRight
  <2>3. \A j \in gDevices' : j \in gDevices \/ (j = word.id /\ word.kind = "found")
    OBVIOUS
  <2>4. \A j \in gDevices' : /\ gBrowse[ProtocolOf(j.of)] # "off" /\ Numbered(j)
                             /\ j.of = Us => gEarly
    BY <1>1, <2>2, <2>3 DEF FoundRight
  <2>5. \A j \in gKnown : ComesToDevices(j)'
    BY <1>1, <1>9 DEF FoundRight, DirectoryShape
  <2>6. \A i \in Ids : ComesToDevices(i)' /\ gBrowse[ProtocolOf(i.of)] = "on" /\ i \notin gKnown => i.nr # 0
    BY <1>1, <1>9 DEF FoundRight
  <2>7. gBrowse' = gBrowse /\ gKnown' = gKnown /\ gEarly' = gEarly
    BY <1>2
  <2> QED
    BY ONLY <2>1, <2>4, <2>5, <2>6, <2>7 DEF FoundRight, Numbered
<1>11. \A add, take : /\ ~EndsAdding(gForward, add, take) /\ TakesNothing(gForward, take)
                      /\ EndsAdding(gForward', add, take) <=> word \in add
                      /\ TakesNothing(gForward', take) <=> word \notin take
  BY <1>6, EmptyEnds, OneWordEnds
<1>12. WindowRight'
  <2>1. \A i \in Ids : ComesToWindow(i)' <=> word \in Found(i) \/ (word \notin Lost(i) /\ ComesToWindow(i))
    BY <1>2, <1>11 DEF ComesToWindow, AlongTheWay, Found, Lost
  <2> QED
    BY <1>1, <1>8, <2>1 DEF WindowRight
<1>13. \A i \in Ids : ComesToStream(i)' => ComesToStream(i)
  BY <1>2, <1>5, <1>11 DEF ComesToStream, AlongTheWay, Starts, Parts
<1>14. \A other : UnderWay(other) => UnderWay(other)'
  <2>1. \A other : ~Holds(gForward, other)
    BY DEF Holds
  <2> QED
    BY <1>2, <2>1 DEF UnderWay
<1>15. CastsRight'
  BY <1>1, <1>2, <1>13, <1>14 DEF CastsRight
<1> QED
  BY <1>1, <1>2, <1>7, <1>10, <1>12, <1>15, BrowsersStay DEF DirectoryInv

\* It hands the word on.
LEMMA HandOnRight ==
  ASSUME DirectoryInv, gForward # <<>>, Fits(gEvents), NEW word, word = gForward[1],
         gEvents' = Append(gEvents, word), gForward' = <<>>, gFound' = gFound, gDevices' = gDevices,
         UNCHANGED <<network, ours, browsers, window, gCast, gEarly>>
  PROVE  DirectoryInv'
<1>1. DirectoryShape /\ WireRight /\ KnownRight /\ FoundRight /\ WindowRight /\ CastsRight
  BY DEF DirectoryInv
<1>2. UNCHANGED <<gNet, gTidings, gAdvert, gFilter, gBrowse, gWire, gKnown, gFound, gDevices, gQueue, gShown,
                  gStreaming, gHidden, gCast, gEarly>>
  BY DEF network, ours, browsers, window
<1>3. gForward \in Seq(News) /\ Len(gForward) = 1 /\ gEvents \in Seq(Words) /\ word \in News
  <2>1. gForward \in Seq(News) /\ Len(gForward) <= 1 /\ gEvents \in Seq(Words) /\ gForward # <<>>
    BY <1>1 DEF DirectoryShape
  <2>2. Len(gForward) = 1
    BY ONLY <2>1, SMTT(60)
  <2>3. gForward[1] \in News
    BY ONLY <2>1, <2>2
  <2> QED
    BY <2>1, <2>2, <2>3
<1>4. word \in Words
  BY <1>3, NewsAreWords
<1>5. gEvents' \in Seq(Words) /\ Len(gEvents') = Len(gEvents) + 1 /\ Len(gEvents') <= ChannelRoom
  BY <1>1, <1>3, <1>4, DirectoryAssumption DEF DirectoryShape, Fits
<1>6. DirectoryShape'
  <2>1. gForward' \in Seq(News) /\ Len(gForward') <= 1
    OBVIOUS
  <2> QED
    BY <1>1, <1>2, <1>5, <2>1 DEF DirectoryShape
<1>7. \A add, take : /\ EndsAdding(gForward, add, take) <=> word \in add
                     /\ TakesNothing(gForward, take) <=> word \notin take
                     /\ ~EndsAdding(gForward', add, take) /\ TakesNothing(gForward', take)
                     /\ EndsAdding(gEvents', add, take)
                          <=> word \in add \/ (word \notin take /\ EndsAdding(gEvents, add, take))
                     /\ TakesNothing(gEvents', take) <=> word \notin take /\ TakesNothing(gEvents, take)
  <2>1. ASSUME NEW add, NEW take
        PROVE  /\ EndsAdding(gForward, add, take) <=> word \in add
               /\ TakesNothing(gForward, take) <=> word \notin take
    BY <1>3, OneWordEnds
  <2>2. ASSUME NEW add, NEW take
        PROVE  /\ EndsAdding(gEvents', add, take)
                    <=> word \in add \/ (word \notin take /\ EndsAdding(gEvents, add, take))
               /\ TakesNothing(gEvents', take) <=> word \notin take /\ TakesNothing(gEvents, take)
    BY <1>3, <1>4, AppendEnds
  <2>3. ASSUME NEW add, NEW take
        PROVE  ~EndsAdding(gForward', add, take) /\ TakesNothing(gForward', take)
    BY EmptyEnds
  <2> QED
    BY <2>1, <2>2, <2>3
<1>8. \A i : ComesToWindow(i)' <=> ComesToWindow(i)
  BY <1>2, <1>7 DEF ComesToWindow, AlongTheWay, Found, Lost
<1>9. \A i : ComesToStream(i)' <=> ComesToStream(i)
  BY <1>2, <1>7 DEF ComesToStream, AlongTheWay, Starts, Parts
<1>10. \A other : UnderWay(other) => UnderWay(other)'
  <2>1. ASSUME NEW other
        PROVE  Holds(gEvents', other) <=> other = word \/ Holds(gEvents, other)
    BY <1>3, <1>4, AppendHolds
  <2>2. \A other : Holds(gForward, other) => other = word
    BY <1>3 DEF Holds
  <2> QED
    BY <1>2, <2>1, <2>2 DEF UnderWay
<1>11. WindowRight' /\ CastsRight'
  BY <1>1, <1>2, <1>8, <1>9, <1>10 DEF WindowRight, CastsRight
<1> QED
  BY <1>1, <1>2, <1>6, <1>11, BrowsersStay, FoundStays DEF DirectoryInv

LEMMA ForwardsRight ==
  ASSUME DirectoryInv, DirectoryForwards
  PROVE  DirectoryInv'
<1>1. UNCHANGED <<network, ours, browsers, window, gCast, gEarly>>
  BY DEF DirectoryForwards
<1>2. CASE /\ gForward = <<>> /\ gFound # <<>> /\ gForward' = <<Head(gFound)>> /\ gFound' = Tail(gFound)
           /\ gDevices' = IF Head(gFound).kind = "found" THEN gDevices \cup {Head(gFound).id}
                          ELSE gDevices \ {Head(gFound).id}
           /\ UNCHANGED <<gEvents>>
  BY <1>1, <1>2, ApplyRight
<1>3. CASE /\ gForward # <<>> /\ Fits(gEvents)
           /\ gEvents' = Append(gEvents, gForward[1]) /\ gForward' = <<>>
           /\ UNCHANGED <<gFound, gDevices>>
  BY <1>1, <1>3, HandOnRight
<1> QED
  BY <1>2, <1>3 DEF DirectoryForwards, Forward

LEMMA RelayRight ==
  ASSUME DirectoryInv, Relay
  PROVE  DirectoryInv'
<1>1. DirectoryShape /\ WireRight /\ KnownRight /\ FoundRight /\ WindowRight /\ CastsRight
  BY DEF DirectoryInv
<1>2. PICK word : word = Head(gEvents)
  OBVIOUS
<1>3. /\ gEvents # <<>> /\ Fits(gQueue) /\ gQueue' = Append(gQueue, word) /\ gEvents' = Tail(gEvents)
      /\ UNCHANGED <<gNet, gTidings, gAdvert, gFilter, gBrowse, gWire, gKnown, gFound, gDevices, gForward, gShown,
                     gStreaming, gHidden, gCast, gEarly>>
  BY <1>2 DEF Relay, network, ours, browsers
<1>4. gEvents \in Seq(Words) /\ gQueue \in Seq(Words) /\ word \in Words
  BY <1>1, <1>2, <1>3 DEF DirectoryShape
<1>5. /\ gEvents' \in Seq(Words) /\ Len(gEvents') <= ChannelRoom
      /\ gQueue' \in Seq(Words) /\ Len(gQueue') <= ChannelRoom
  BY <1>1, <1>3, <1>4, DirectoryAssumption DEF DirectoryShape, Fits
<1>6. DirectoryShape'
  BY <1>1, <1>3, <1>5 DEF DirectoryShape
<1>7. \A add, take : /\ EndsAdding(gEvents, add, take)
                          <=> EndsAdding(gEvents', add, take) \/ (TakesNothing(gEvents', take) /\ word \in add)
                     /\ TakesNothing(gEvents, take) <=> word \notin take /\ TakesNothing(gEvents', take)
                     /\ EndsAdding(gQueue', add, take)
                          <=> word \in add \/ (word \notin take /\ EndsAdding(gQueue, add, take))
                     /\ TakesNothing(gQueue', take) <=> word \notin take /\ TakesNothing(gQueue, take)
  <2>1. ASSUME NEW add, NEW take
        PROVE  /\ EndsAdding(gEvents, add, take)
                    <=> EndsAdding(gEvents', add, take) \/ (TakesNothing(gEvents', take) /\ word \in add)
               /\ TakesNothing(gEvents, take) <=> word \notin take /\ TakesNothing(gEvents', take)
    BY <1>2, <1>3, <1>4, TailEnds
  <2>2. ASSUME NEW add, NEW take
        PROVE  /\ EndsAdding(gQueue', add, take)
                    <=> word \in add \/ (word \notin take /\ EndsAdding(gQueue, add, take))
               /\ TakesNothing(gQueue', take) <=> word \notin take /\ TakesNothing(gQueue, take)
    BY <1>3, <1>4, AppendEnds
  <2> QED
    BY <2>1, <2>2
<1>8. \A i : ComesToWindow(i)' <=> ComesToWindow(i)
  BY <1>3, <1>7 DEF ComesToWindow, AlongTheWay, Found, Lost
<1>9. \A i : ComesToStream(i)' <=> ComesToStream(i)
  BY <1>3, <1>7 DEF ComesToStream, AlongTheWay, Starts, Parts
<1>10. \A other : UnderWay(other) => UnderWay(other)'
  <2>1. ASSUME NEW other
        PROVE  Holds(gQueue', other) <=> other = word \/ Holds(gQueue, other)
    BY <1>3, <1>4, AppendHolds
  <2>2. ASSUME NEW other
        PROVE  Holds(gEvents, other) <=> other = word \/ Holds(gEvents', other)
    BY <1>2, <1>3, <1>4, TailHolds
  <2> QED
    BY <1>3, <2>1, <2>2 DEF UnderWay
<1>11. WindowRight' /\ CastsRight'
  BY <1>1, <1>3, <1>8, <1>9, <1>10 DEF WindowRight, CastsRight
<1> QED
  BY <1>1, <1>3, <1>6, <1>11, BrowsersStay, FoundStays DEF DirectoryInv

LEMMA LearnsRight ==
  ASSUME DirectoryInv, WindowLearns
  PROVE  DirectoryInv'
<1>1. DirectoryShape /\ WireRight /\ KnownRight /\ FoundRight /\ WindowRight /\ CastsRight
  BY DEF DirectoryInv
<1>2. PICK word, j, told : word = Head(gQueue) /\ j = word.id /\ told = word.kind
  OBVIOUS
<1>3. /\ gQueue # <<>> /\ gQueue' = Tail(gQueue)
      /\ UNCHANGED <<gNet, gTidings, gAdvert, gFilter, gBrowse, gWire, gKnown, gFound, gDevices, gForward, gEvents,
                     gCast, gEarly>>
  BY DEF WindowLearns, network, ours, browsers, manager
<1>4. /\ gShown' = CASE told = "found" -> gShown \cup {j}
                     [] told = "lost" -> gShown \ {j}
                     [] OTHER -> gShown
      /\ gStreaming' = CASE told = "started" -> gStreaming \cup {j}
                         [] told \in {"lost", "stopped"} -> gStreaming \ {j}
                         [] OTHER -> gStreaming
      /\ gHidden' = IF told \in {"lost", "stopped"} /\ Runs(j) THEN gHidden \cup {j} ELSE gHidden
  BY <1>2 DEF WindowLearns
<1>5. /\ gQueue \in Seq(Words) /\ gQueue' \in Seq(Words) /\ word \in Words
      /\ Len(gQueue') <= ChannelRoom
  BY <1>1, <1>2, <1>3, DirectoryAssumption DEF DirectoryShape
<1>6. j \in Ids /\ told \in {"found", "lost", "started", "stopped"}
  BY <1>2, <1>5 DEF Words
<1>7. gShown' \subseteq Ids /\ gStreaming' \subseteq Ids /\ gHidden' \subseteq Ids
  BY <1>1, <1>4, <1>6 DEF DirectoryShape
<1>8. DirectoryShape'
  BY <1>1, <1>3, <1>5, <1>7 DEF DirectoryShape
<1>9. \A i \in Ids : /\ word \in Found(i) <=> told = "found" /\ i = j
                     /\ word \in Lost(i) <=> told = "lost" /\ i = j
                     /\ word \in Starts(i) <=> told = "started" /\ i = j
                     /\ word \in Parts(i) <=> told \in {"lost", "stopped"} /\ i = j
  BY <1>2, <1>5, WordIs DEF Found, Lost, Starts, Parts
<1>10. \A i \in Ids : i \in gShown' <=> word \in Found(i) \/ (word \notin Lost(i) /\ i \in gShown)
  BY <1>4, <1>6, <1>9
<1>11. \A i \in Ids : i \in gStreaming' <=> word \in Starts(i) \/ (word \notin Parts(i) /\ i \in gStreaming)
  BY <1>4, <1>6, <1>9
<1>12. \A add, take : /\ EndsAdding(gQueue, add, take)
                           <=> EndsAdding(gQueue', add, take) \/ (TakesNothing(gQueue', take) /\ word \in add)
                      /\ TakesNothing(gQueue, take) <=> word \notin take /\ TakesNothing(gQueue', take)
  BY <1>2, <1>3, <1>5, TailEnds
<1>13. \A i \in Ids : ComesToWindow(i)' <=> ComesToWindow(i)
  BY <1>3, <1>10, <1>12 DEF ComesToWindow, AlongTheWay, Found, Lost
<1>14. \A i \in Ids : ComesToStream(i)' <=> ComesToStream(i)
  BY <1>3, <1>11, <1>12 DEF ComesToStream, AlongTheWay, Starts, Parts
<1>15. WindowRight'
  BY <1>1, <1>3, <1>13 DEF WindowRight
<1>16. ASSUME NEW c \in Casts, gCast[c].at = "live"
       PROVE  \/ gCast[c].id \in gHidden' \cup gStreaming'
              \/ \E k \in {"started", "stopped", "lost"} : UnderWay(Said(k, gCast[c].id))'
  <2>1. PICK i : i = gCast[c].id
    OBVIOUS
  <2>2. i \in Ids
    BY <1>1, <1>16, <2>1 DEF CastsRight
  <2>3. gHidden \subseteq gHidden'
    BY <1>4
  <2>4. CASE i = j /\ told \in {"lost", "stopped"}
    <3>1. Runs(j)
      BY <1>16, <2>1, <2>4 DEF Runs
    <3> QED
      BY <1>4, <2>1, <2>4, <3>1
  <2>5. CASE i = j /\ told = "started"
    BY <1>4, <2>1, <2>5
  <2>6. CASE ~(i = j /\ told \in {"lost", "stopped", "started"})
    <3>1. i \in gStreaming => i \in gStreaming'
      BY <1>4, <1>6, <2>6
    <3>2. ASSUME NEW k \in {"started", "stopped", "lost"}, UnderWay(Said(k, i)) PROVE UnderWay(Said(k, i))'
      <4>1. PICK other : other = Said(k, i)
        OBVIOUS
      <4>2. word # other
        <5>1. word.kind # k \/ word.id # i
          BY <1>2, <2>6
        <5> QED
          BY <4>1, <5>1 DEF Said
      <4>3. Holds(gQueue, other) <=> other = word \/ Holds(gQueue', other)
        BY <1>2, <1>3, <1>5, TailHolds
      <4>4. UnderWay(other)'
        BY <1>3, <3>2, <4>1, <4>2, <4>3 DEF UnderWay
      <4> QED
        BY <4>1, <4>4 DEF Said
    <3>3. i \in gHidden \cup gStreaming \/ \E k \in {"started", "stopped", "lost"} : UnderWay(Said(k, i))
      BY <1>1, <1>16, <2>1 DEF CastsRight
    <3>4. \/ i \in gHidden' \cup gStreaming'
          \/ \E k \in {"started", "stopped", "lost"} : UnderWay(Said(k, i))'
      BY <2>3, <3>1, <3>2, <3>3
    <3>5. gCast' = gCast /\ gCast'[c].id = i
      BY <1>3, <2>1
    <3> QED
      BY <2>1, <3>4, <3>5
  <2> QED
    BY <1>6, <2>4, <2>5, <2>6
<1>17. CastsRight'
  BY <1>1, <1>3, <1>14, <1>16 DEF CastsRight
<1> QED
  BY <1>1, <1>3, <1>8, <1>15, <1>17, BrowsersStay, FoundStays DEF DirectoryInv

-----------------------------------------------------------------------------
\* The streams.

\* Which states of a stream leave the window's channels right when nothing is said.
LEMMA QuietCastRight ==
  ASSUME DirectoryInv, NEW c \in Casts, NEW new, gCast' = [gCast EXCEPT ![c] = new],
         new \in [id : Ids, at : {"asked", "new", "gone", "done"}],
         gCast[c].at \in {"live", "gone"} => new.at = "gone" /\ new.id = gCast[c].id,
         UNCHANGED <<network, ours, browsers, passedOn, gEarly>>
  PROVE  DirectoryInv'
<1>1. DirectoryShape /\ WireRight /\ KnownRight /\ FoundRight /\ WindowRight /\ CastsRight
  BY DEF DirectoryInv
<1>2. UNCHANGED <<gNet, gTidings, gAdvert, gFilter, gBrowse, gWire, gKnown, gFound, gDevices, gForward, gEvents,
                  gQueue, gShown, gStreaming, gHidden, gEarly>>
  BY DEF network, ours, browsers, passedOn, manager, window
<1>3. gCast' \in [Casts -> [id : Ids \cup {Nobody}, at : {"idle", "asked", "new", "live", "gone", "done"}]]
      /\ gCast'[c] = new /\ \A d \in Casts : d # c => gCast'[d] = gCast[d]
  BY <1>1 DEF DirectoryShape
<1>4. DirectoryShape'
  BY <1>1, <1>2, <1>3 DEF DirectoryShape
<1>5. \A i \in Ids : (ComesToWindow(i)' <=> ComesToWindow(i)) /\ (ComesToStream(i)' <=> ComesToStream(i))
  BY <1>2 DEF ComesToWindow, ComesToStream, AlongTheWay, EndsAdding, TakesNothing
<1>6. WindowRight'
  BY <1>1, <1>2, <1>5 DEF WindowRight
<1>7. CastsRight'
  <2>1. ASSUME NEW i \in Ids, ComesToStream(i)
        PROVE  \E d \in Casts : gCast'[d].id = i /\ gCast'[d].at \in {"live", "gone"}
    <3>1. PICK d \in Casts : gCast[d].id = i /\ gCast[d].at \in {"live", "gone"}
      BY <1>1, <2>1 DEF CastsRight
    <3> QED
      BY <1>3, <3>1
  <2>2. \A word : UnderWay(word)' <=> UnderWay(word)
    BY <1>2 DEF UnderWay, Holds
  <2>3. \A d \in Casts : gCast'[d].at = "live" => d # c
    BY <1>3
  <2>4. \A d \in Casts : gCast'[d].at = "live" =>
          \/ gCast'[d].id \in gHidden' \cup gStreaming'
          \/ \E told \in {"started", "stopped", "lost"} : UnderWay(Said(told, gCast'[d].id))
    BY <1>1, <1>2, <1>3, <2>3 DEF CastsRight
  <2>5. \A d \in Casts : gCast'[d].at # "idle" => gCast'[d].id \in Ids
    BY <1>1, <1>3 DEF CastsRight
  <2> QED
    BY <1>5, <2>1, <2>2, <2>4, <2>5 DEF CastsRight
<1> QED
  BY <1>1, <1>2, <1>4, <1>6, <1>7, BrowsersStay, FoundStays DEF DirectoryInv

LEMMA CastAskedRight ==
  ASSUME DirectoryInv, NEW c \in Casts, NEW i \in gDevices, CastAsked(c, i)
  PROVE  DirectoryInv'
<1>1. i \in Ids
  BY DEF DirectoryInv, DirectoryShape
<1>2. PICK new : new = [id |-> i, at |-> "asked"]
  OBVIOUS
<1>3. new \in [id : Ids, at : {"asked", "new", "gone", "done"}]
  BY <1>1, <1>2
<1>4. /\ gCast' = [gCast EXCEPT ![c] = new] /\ gCast[c].at = "idle"
      /\ UNCHANGED <<network, ours, browsers, passedOn, gEarly>>
  BY <1>2 DEF CastAsked
<1> QED
  BY <1>3, <1>4, QuietCastRight

LEMMA CastSpawnedRight ==
  ASSUME DirectoryInv, NEW c \in Casts, CastSpawned(c)
  PROVE  DirectoryInv'
<1>1. PICK from, to : /\ CastStep(c, from, to)
                      /\ \/ from = "asked" /\ to \in {"new", "done"}
                         \/ from = "live" /\ to = "gone"
  BY DEF CastSpawned
<1>2. /\ gCast[c].at = from /\ gCast' = [gCast EXCEPT ![c].at = to] /\ gCast[c].id \in Ids
      /\ gCast[c] \in [id : Ids \cup {Nobody}, at : {"idle", "asked", "new", "live", "gone", "done"}]
      /\ UNCHANGED <<network, ours, browsers, passedOn, gEarly>>
  BY <1>1 DEF CastStep, CastSpawned, DirectoryInv, DirectoryShape, CastsRight
<1>3. PICK new : new = [gCast[c] EXCEPT !.at = to]
  OBVIOUS
<1>4. new.at = to /\ new.id = gCast[c].id /\ new \in [id : Ids, at : {"asked", "new", "gone", "done"}]
  BY <1>1, <1>2, <1>3
<1>5. gCast' = [gCast EXCEPT ![c] = new]
  BY <1>2, <1>3
<1> QED
  BY <1>1, <1>2, <1>4, <1>5, QuietCastRight

\* The task says that the stream has started, or stopped.
LEMMA CastSaysRight ==
  ASSUME DirectoryInv, NEW c \in Casts, NEW from, NEW to, NEW told, CastSays(c, from, to, told),
         \/ from = "new" /\ to = "live" /\ told = "started"
         \/ from = "gone" /\ to = "done" /\ told = "stopped"
  PROVE  DirectoryInv'
<1>1. DirectoryShape /\ WireRight /\ KnownRight /\ FoundRight /\ WindowRight /\ CastsRight
  BY DEF DirectoryInv
<1>2. PICK j, word : j = gCast[c].id /\ word = Said(told, j)
  OBVIOUS
<1>3. /\ gCast[c].at = from /\ gCast' = [gCast EXCEPT ![c].at = to]
      /\ Fits(gEvents) /\ gEvents' = Append(gEvents, word)
      /\ UNCHANGED <<gNet, gTidings, gAdvert, gFilter, gBrowse, gWire, gKnown, gFound, gDevices, gForward, gQueue,
                     gShown, gStreaming, gHidden, gEarly>>
  BY <1>2 DEF CastSays, CastStep, network, ours, browsers, window
<1>4. /\ gCast \in [Casts -> [id : Ids \cup {Nobody}, at : {"idle", "asked", "new", "live", "gone", "done"}]]
      /\ gEvents \in Seq(Words) /\ gForward \in Seq(News)
  BY <1>1 DEF DirectoryShape
<1>5. j \in Ids
  BY <1>1, <1>2, <1>3 DEF CastsRight
<1>6. word \in Words /\ word.kind = told /\ word.id = j
  BY <1>2, <1>5 DEF Words, Said
<1>7. /\ gCast' \in [Casts -> [id : Ids \cup {Nobody}, at : {"idle", "asked", "new", "live", "gone", "done"}]]
      /\ gCast'[c].id = j /\ gCast'[c].at = to /\ \A d \in Casts : d # c => gCast'[d] = gCast[d]
  BY <1>2, <1>3, <1>4
<1>8. gEvents' \in Seq(Words) /\ Len(gEvents') <= ChannelRoom
  BY <1>1, <1>3, <1>4, <1>6, DirectoryAssumption DEF DirectoryShape, Fits
<1>9. DirectoryShape'
  BY <1>1, <1>3, <1>7, <1>8 DEF DirectoryShape
<1>10. \A add, take : /\ EndsAdding(gEvents', add, take)
                           <=> word \in add \/ (word \notin take /\ EndsAdding(gEvents, add, take))
                      /\ TakesNothing(gEvents', take) <=> word \notin take /\ TakesNothing(gEvents, take)
  BY <1>3, <1>4, <1>6, AppendEnds
<1>11. \A i \in Ids : /\ word \notin Found(i) /\ word \notin Lost(i)
                      /\ word \in Starts(i) <=> told = "started" /\ i = j
                      /\ word \in Parts(i) <=> told = "stopped" /\ i = j
  BY <1>6, WordIs DEF Found, Lost, Starts, Parts
<1>12. WindowRight'
  <2>1. \A i \in Ids : ComesToWindow(i)' <=> ComesToWindow(i)
    BY <1>3, <1>10, <1>11 DEF ComesToWindow, AlongTheWay, Found, Lost
  <2> QED
    BY <1>1, <1>3, <2>1 DEF WindowRight
<1>13. \A i \in Ids : i # j => (ComesToStream(i)' <=> ComesToStream(i))
  BY <1>3, <1>10, <1>11 DEF ComesToStream, AlongTheWay, Starts, Parts
<1>14. \A i \in Ids : ~EndsAdding(gForward, Starts(i), Parts(i))
  <2>1. \A n \in 1 .. Len(gForward) : gForward[n] \in News
    BY <1>4
  <2> QED
    BY <2>1, NewsAreWords DEF EndsAdding
<1>15. told = "stopped" => ~ComesToStream(j)'
  <2>1. PICK add, take : add = Starts(j) /\ take = Parts(j)
    OBVIOUS
  <2>2. ComesToStream(j)' => \/ EndsAdding(gForward, add, take) \/ EndsAdding(gEvents', add, take)
                             \/ TakesNothing(gEvents', take)
    BY <1>3, <2>1 DEF ComesToStream, AlongTheWay, Starts, Parts
  <2>3. told = "stopped" => word \in take /\ word \notin add
    BY <1>5, <1>11, <2>1
  <2> QED
    BY <1>5, <1>10, <1>14, <2>1, <2>2, <2>3
<1>16. ASSUME NEW i \in Ids, ComesToStream(i)'
       PROVE  \E d \in Casts : gCast'[d].id = i /\ gCast'[d].at \in {"live", "gone"}
  <2>1. CASE i = j
    BY <1>7, <1>15, <1>16, <2>1
  <2>2. CASE i # j
    <3>1. ComesToStream(i)
      BY <1>13, <1>16, <2>2
    <3>2. PICK d \in Casts : gCast[d].id = i /\ gCast[d].at \in {"live", "gone"}
      BY <1>1, <3>1 DEF CastsRight
    <3> QED
      BY <1>2, <1>7, <2>2, <3>2
  <2> QED
    BY <2>1, <2>2
<1>17. \A other : UnderWay(other) \/ other = word => UnderWay(other)'
  <2>1. ASSUME NEW other PROVE Holds(gEvents', other) <=> other = word \/ Holds(gEvents, other)
    BY <1>3, <1>4, <1>6, AppendHolds
  <2> QED
    BY <1>3, <2>1 DEF UnderWay
<1>18. ASSUME NEW d \in Casts, gCast'[d].at = "live", NEW i, i = gCast'[d].id
       PROVE  i \in gHidden \cup gStreaming \/ \E k \in {"started", "stopped", "lost"} : UnderWay(Said(k, i))'
  <2>1. CASE d = c
    <3>1. word = Said("started", i)
      BY <1>2, <1>7, <1>18, <2>1
    <3> QED
      BY <1>17, <3>1
  <2>2. CASE d # c
    <3>1. i \in gHidden \cup gStreaming \/ \E k \in {"started", "stopped", "lost"} : UnderWay(Said(k, i))
      BY <1>1, <1>7, <1>18, <2>2 DEF CastsRight
    <3> QED
      BY <1>17, <3>1
  <2> QED
    BY <2>1, <2>2
<1>19. \A d \in Casts : gCast'[d].at # "idle" => gCast'[d].id \in Ids
  BY <1>1, <1>5, <1>7 DEF CastsRight
<1>20. CastsRight'
  BY <1>3, <1>16, <1>18, <1>19 DEF CastsRight
<1> QED
  BY <1>1, <1>3, <1>9, <1>12, <1>20, BrowsersStay, FoundStays DEF DirectoryInv

-----------------------------------------------------------------------------
LEMMA DirectoryStep == DirectoryInv /\ [DirectoryNext]_directoryVars => DirectoryInv'
<1> SUFFICES ASSUME DirectoryInv, [DirectoryNext]_directoryVars PROVE DirectoryInv'
  OBVIOUS
<1>1. CASE UNCHANGED directoryVars
  <2>1. UNCHANGED <<gNet, gTidings, gAdvert, gFilter, gBrowse, gWire, gKnown, gFound, gDevices, gForward, gEvents,
                    gQueue, gShown, gStreaming, gHidden, gCast, gEarly>>
    BY <1>1 DEF directoryVars, network, ours, browsers, passedOn, manager, window
  <2>2. DirectoryShape'
    BY <2>1 DEF DirectoryInv, DirectoryShape
  <2> QED
    BY <2>1, <2>2, BrowsersStay, FoundStays, WindowStays DEF DirectoryInv
<1>2. ASSUME NEW s \in Services, Appear(s) \/ Withdraw(s) PROVE DirectoryInv'
  BY <1>2, NetworkRight
<1>3. CASE AdvertiseStart \/ AdvertiseStop
  <2>1. Us \in Services
    BY DirectoryAssumption DEF Services
  <2> QED
    BY <1>3, <2>1, NetworkRight
<1>4. CASE RegisterOurId \/ UnregisterOurId
  BY <1>4, RegistryRight
<1>5. ASSUME NEW p \in Protocols, StartBrowse(p) \/ Resolved(p) \/ Removed(p) PROVE DirectoryInv'
  BY <1>5, StartBrowseRight, ResolvedRight, RemovedRight
<1>6. CASE StopDiscovery \/ DirectoryForwards \/ Relay \/ WindowLearns
  BY <1>6, StopDiscoveryRight, ForwardsRight, RelayRight, LearnsRight
<1>7. ASSUME NEW c \in Casts, NEW i \in gDevices, CastAsked(c, i) PROVE DirectoryInv'
  BY <1>7, CastAskedRight
<1>8. ASSUME NEW c \in Casts, CastSpawned(c) PROVE DirectoryInv'
  BY <1>8, CastSpawnedRight
<1>9. ASSUME NEW c \in Casts, CastSays(c, "new", "live", "started") \/ CastSays(c, "gone", "done", "stopped")
      PROVE  DirectoryInv'
  BY <1>9, CastSaysRight
<1> QED
  BY <1>1, <1>2, <1>3, <1>4, <1>5, <1>6, <1>7, <1>8, <1>9 DEF DirectoryNext

LEMMA DirectoryHolds == DirectorySpec => []DirectoryInv
  BY DirectoryInitially, DirectoryStep, PTL DEF DirectorySpec

\* The directory's state keeps its shape and the four channels their capacity, for every network.
THEOREM DirectoryTypes == DirectorySpec => []DirectoryTypeOK
<1>1. DirectoryInv => DirectoryTypeOK
  <2> SUFFICES ASSUME DirectoryInv PROVE DirectoryTypeOK
    OBVIOUS
  <2>1. Len(gForward) <= ChannelRoom
    <3>1. Len(gForward) \in Nat /\ Len(gForward) <= 1
      BY DEF DirectoryInv, DirectoryShape
    <3> QED
      BY <3>1, DirectoryAssumption
  <2> QED
    BY <2>1 DEF DirectoryInv, DirectoryShape, DirectoryTypeOK, Tidings
<1> QED
  BY <1>1, DirectoryHolds, PTL

\* For every set of services, number of announcements, streams and size of the channels, however
\* the browse tasks, the forwarder, the relay, the streams and the window interleave: with nothing
\* under way, the window lists what the browse tasks know (and random ids a later resolve has
\* replaced), itself only if it was resolved before its id was registered, and a stream where one
\* runs, but where the device was lost or cast to a second time.
THEOREM SettledWindow == DirectorySpec => []SettledWindowIsRight
  BY SettledRight, DirectoryHolds, PTL

-----------------------------------------------------------------------------
\* A step of one is a step or a stutter of each.
LEMMA OneAtATime ==
  [EndpointsNext]_endpointVars =>
    /\ [DirectNext]_directVars /\ [PipeNext]_pipeVars /\ [SourcesNext]_sourceVars
    /\ [Next]_vars /\ [ControlNext]_controlVars /\ [DirectoryNext]_directoryVars
<1> SUFFICES ASSUME [EndpointsNext]_endpointVars
             PROVE  /\ [DirectNext]_directVars /\ [PipeNext]_pipeVars /\ [SourcesNext]_sourceVars
                    /\ [Next]_vars /\ [ControlNext]_controlVars /\ [DirectoryNext]_directoryVars
  OBVIOUS
<1>1. CASE UNCHANGED endpointVars
  BY <1>1 DEF endpointVars
<1>2. CASE EndpointsNext
  BY <1>2 DEF EndpointsNext
<1> QED
  BY <1>1, <1>2

LEMMA AllBegin ==
  EndpointsInit => DirectInit /\ PipeInit /\ SourcesInit /\ Init /\ ControlInit /\ DirectoryInit
  BY DEF EndpointsInit

\* Beside one another the six behave as they do alone.
LEMMA EachAlone ==
  EndpointsSpec => /\ DirectSpec /\ PipeSpec /\ SourcesSpec /\ ControlSpec /\ DirectorySpec
                   /\ Init /\ [][Next]_vars
  BY OneAtATime, AllBegin, PTL
     DEF EndpointsSpec, DirectSpec, PipeSpec, SourcesSpec, ControlSpec, DirectorySpec

\* The state of every endpoint keeps its shape, for all values of all their constants.
THEOREM EndpointsTypes == EndpointsSpec => []EndpointsTypeOK
<1>1. Init /\ [][Next]_vars => []TypeOK
  <2>1. Inv => TypeOK
    BY DEF Inv
  <2> QED
    BY <2>1, InvInit, InvStep, PTL
<1>2. DirectTypeOK /\ PipeTypeOK /\ SourcesTypeOK /\ TypeOK /\ ControlTypeOK /\ DirectoryTypeOK
        => EndpointsTypeOK
  BY DEF EndpointsTypeOK
<1> QED
  BY <1>1, <1>2, EachAlone, DirectTypes, PipeTypes, SourcesTypes, ControlTypes, DirectoryTypes, PTL

\* What the run endpoints checks of each of them on a small instance holds for every instance: no
\* frame that was never written, a list that is the desktop's once quiet, a sender that is told,
\* no task left behind but a failed connect's reader and the handlers of HTTP connections, sound the
\* first session can hear, a window that shows what is there, and no accepted offer given up.
THEOREM EndpointsSafe ==
  EndpointsSpec =>
    /\ [](OnlyLateCopiesLie /\ QuietClientSeesTheDesktop /\ OnlyRacesMislead)
    /\ [](OnlyReadersAndHandlersLeak /\ FirstSessionIsHeard /\ SettledWindowIsRight)
    /\ AcceptedIsNotRefused
<1>1. Init /\ [][Next]_vars => [](OnlyReadersAndHandlersLeak /\ FirstSessionIsHeard)
  <2>1. Inv => OnlyReadersAndHandlersLeak /\ FirstSessionIsHeard
    BY DEF Inv
  <2> QED
    BY <2>1, InvInit, InvStep, PTL
<1>2. Init /\ [][Next]_vars => AcceptedIsNotRefused
  <2>1. Inv /\ [Next]_vars
          => [pc = "answer" /\ pc' = "stop" /\ next' = "fallback" => reply # "ok"]_vars
    BY AcceptedStep
  <2> QED
    BY <2>1, InvInit, InvStep, PTL DEF AcceptedIsNotRefused
<1> QED
  BY <1>1, <1>2, EachAlone, DeliveredIsWritten, QuietClient, ToldUnlessRaced, SettledWindow, PTL
=============================================================================
