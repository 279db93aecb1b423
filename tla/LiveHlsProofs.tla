--------------------------- MODULE LiveHlsProofs ---------------------------
(* Machine-checked proofs about LiveHls, for any ring capacity, lag        *)
(* threshold, number of players, frames and seeks.                         *)
EXTENDS LiveHls, TLAPS

(* The ring: its segments are numbered without a gap up to the last one    *)
(* pushed, and it evicts only when full.                                   *)
Numbered ==
  \A i \in 1 .. Len(segments) : segments[i].seq = nextSeq - Len(segments) + i - 1

RingInv ==
  /\ segments \in Seq(Segment) /\ Len(segments) <= Capacity
  /\ nextSeq \in Nat /\ pendingParts \in Seq(Clip)
  /\ Numbered
  /\ Len(segments) <= nextSeq
  /\ Len(segments) < nextSeq => Len(segments) = Capacity

(* The segmenter: a segment under construction has bytes, drained or not.  *)
SegmenterInv ==
  /\ lowLatency \in BOOLEAN /\ segmenter \in SegmenterState
  /\ taken \in Nat /\ muxed \in Nat /\ drained \in Nat /\ localParts \in Seq(Clip)
  /\ drained <= muxed /\ muxed <= taken
  /\ segmenter \in {"frames", "closing"} /\ localParts = <<>> => drained < muxed
  /\ segmenter = "completing" => localParts # <<>>

PlayersInv ==
  /\ reader \in [Players -> ReaderState]
  /\ want \in [Players -> [seq : Nat, part : Nat \cup {NoPart}]]
  /\ seen \in [Players -> [seq : Nat, part : Nat]]
  /\ notified \in [Players -> BOOLEAN]

(* The puller: its cursor is past what it has delivered, and after a 404   *)
(* the segment it points to was evicted.                                   *)
PullerInv ==
  /\ puller \in PullerState /\ snapshot \in [first : Nat, len : Nat]
  /\ nextIndex \in Nat /\ played \in Nat \cup {NoSeq} /\ seeks \in 0 .. MaxSeeks
  /\ snapshot.first + snapshot.len <= nextSeq
  /\ puller \in {"pulling", "skipping"} => played < Cursor
  /\ puller = "skipping" => Cursor < nextSeq - Len(segments)

(* A reload that has looked at the ring and was not woken since waits for  *)
(* something the ring has not reached.                                     *)
Asleep ==
  \A p \in Players :
    reader[p] \in {"parking", "waiting"} /\ ~notified[p]
      => ~HasReached(want[p].seq, want[p].part)

Inv == RingInv /\ SegmenterInv /\ PlayersInv /\ PullerInv /\ Asleep

-----------------------------------------------------------------------------
LEMMA PushKeepsRing ==
  ASSUME RingInv, NEW clip \in Clip, NEW parts \in Seq(Clip), Push(clip, parts)
  PROVE  /\ RingInv'
         /\ nextSeq - Len(segments) <= nextSeq' - Len(segments')
         /\ nextSeq' = nextSeq + 1
<1> USE SegmentRingAssumption
<1> DEFINE new == [seq |-> nextSeq, body |-> clip, parts |-> parts]
           longer == Append(segments, new)
<1>1. new \in Segment /\ new.seq = nextSeq
  BY DEF RingInv, Segment
<1> HIDE DEF new
<1>2. /\ longer \in Seq(Segment) /\ Len(longer) = Len(segments) + 1
      /\ \A i \in 1 .. Len(longer) : longer[i].seq = nextSeq - Len(segments) + i - 1
  <2>1. longer \in Seq(Segment) /\ Len(longer) = Len(segments) + 1
    BY <1>1 DEF RingInv
  <2>2. ASSUME NEW i \in 1 .. Len(longer)
        PROVE  longer[i].seq = nextSeq - Len(segments) + i - 1
    <3>1. CASE i \in 1 .. Len(segments)
      <4>1. longer[i] = segments[i]
        BY <1>1, <3>1 DEF RingInv
      <4> QED
        BY <3>1, <4>1 DEF RingInv, Numbered
    <3>2. CASE i = Len(segments) + 1
      <4>1. longer[i] = new
        BY <1>1, <3>2 DEF RingInv
      <4> QED
        BY <1>1, <3>2, <4>1 DEF RingInv
    <3> QED
      BY <2>1, <3>1, <3>2 DEF RingInv
  <2> QED
    BY <2>1, <2>2
<1>3. segments' = Retained(longer) /\ nextSeq' = nextSeq + 1 /\ pendingParts' = <<>>
  BY DEF Push, new
<1> HIDE DEF longer
<1>4. CASE Len(longer) > Capacity
  <2>1. segments' = Tail(longer)
    BY <1>3, <1>4 DEF Retained
  <2>2. /\ segments' \in Seq(Segment) /\ Len(segments') = Len(segments)
        /\ \A i \in 1 .. Len(segments') : segments'[i] = longer[i + 1]
    BY <1>2, <1>4, <2>1 DEF RingInv
  <2>3. Len(segments') = Capacity
    BY <1>2, <1>4, <2>2 DEF RingInv
  <2>4. \A i \in 1 .. Len(segments') :
          segments'[i].seq = nextSeq' - Len(segments') + i - 1
    <3> TAKE i \in 1 .. Len(segments')
    <3>1. i + 1 \in 1 .. Len(longer)
      BY <1>2, <2>2 DEF RingInv
    <3>2. longer[i + 1].seq = nextSeq - Len(segments) + (i + 1) - 1
      BY <1>2, <3>1
    <3>3. segments'[i] = longer[i + 1]
      BY <2>2
    <3>4. /\ nextSeq' = nextSeq + 1 /\ Len(segments') = Len(segments)
          /\ nextSeq \in Nat /\ Len(segments) \in Nat /\ i \in Nat
      BY <1>3, <2>2 DEF RingInv
    <3>5. nextSeq' - Len(segments') + i - 1 = nextSeq - Len(segments) + (i + 1) - 1
      BY ONLY <3>4, SMT
    <3> QED
      BY <3>2, <3>3, <3>5
  <2>5. nextSeq' \in Nat /\ pendingParts' \in Seq(Clip)
    BY <1>3 DEF RingInv
  <2> QED
    BY <1>2, <1>3, <1>4, <2>2, <2>3, <2>4, <2>5 DEF RingInv, Numbered
<1>5. CASE ~(Len(longer) > Capacity)
  <2>1. segments' = longer
    BY <1>3, <1>5 DEF Retained
  <2>2. Len(segments') = Len(segments) + 1
    BY <1>2, <2>1
  <2>4. \A i \in 1 .. Len(segments') :
          segments'[i].seq = nextSeq' - Len(segments') + i - 1
    <3> TAKE i \in 1 .. Len(segments')
    <3>1. longer[i].seq = nextSeq - Len(segments) + i - 1
      BY <1>2, <2>1
    <3> QED
      BY <1>3, <2>1, <2>2, <3>1 DEF RingInv
  <2>3. nextSeq = Len(segments)
    BY <1>2, <1>5 DEF RingInv
  <2> QED
    BY <1>2, <1>3, <1>5, <2>1, <2>2, <2>3, <2>4 DEF RingInv, Numbered
<1> QED
  BY <1>4, <1>5

LEMMA PushPartKeepsRing ==
  ASSUME RingInv, NEW clip \in Clip, PushPart(clip)
  PROVE  RingInv'
<1>1. pendingParts' \in Seq(Clip)
  BY DEF RingInv, PushPart
<1> QED
  BY <1>1 DEF RingInv, Numbered, PushPart

(* The first entry of a playlist, and what is missing from a ring.         *)
LEMMA PlaylistFirst ==
  ASSUME RingInv
  PROVE  /\ Playlist \in [first : Nat, len : Nat]
         /\ Playlist.first = nextSeq - Len(segments)
         /\ Playlist.len = Len(segments)
<1> USE SegmentRingAssumption
<1>1. CASE segments = <<>>
  BY <1>1 DEF RingInv, Playlist
<1>2. CASE segments # <<>>
  <2>1. Len(segments) >= 1 /\ Head(segments) = segments[1]
    BY <1>2 DEF RingInv
  <2>2. Head(segments).seq = nextSeq - Len(segments)
    BY <2>1 DEF RingInv, Numbered
  <2> QED
    BY <1>2, <2>1, <2>2 DEF RingInv, Playlist
<1> QED
  BY <1>1, <1>2

LEMMA MissingIsEvicted ==
  ASSUME RingInv, NEW seq \in Nat, seq < nextSeq, ~Has(seq)
  PROVE  seq < nextSeq - Len(segments)
<1> SUFFICES ASSUME seq >= nextSeq - Len(segments) PROVE FALSE
  BY DEF RingInv
<1> DEFINE i == seq - (nextSeq - Len(segments)) + 1
<1>1. i \in 1 .. Len(segments)
  BY DEF RingInv
<1>2. segments[i].seq = seq
  BY <1>1 DEF RingInv, Numbered
<1> QED
  BY <1>1, <1>2 DEF Has, RingInv

-----------------------------------------------------------------------------
LEMMA InvInit == Init => Inv
<1> SUFFICES ASSUME Init PROVE Inv
  OBVIOUS
<1> USE SegmentRingAssumption, LiveHlsAssumption
<1>1. RingInv
  BY DEF Init, RingInit, RingInv, Numbered
<1>2. SegmenterInv
  BY DEF Init, SegmenterInv, SegmenterState
<1>3. PlayersInv
  BY DEF Init, PlayersInv, NoWant, ReaderState
<1>4. PullerInv
  BY <1>1 DEF Init, RingInit, PullerInv, PullerState, NoSeq
<1>5. Asleep
  BY DEF Init, Asleep
<1> QED
  BY <1>1, <1>2, <1>3, <1>4, <1>5 DEF Inv

(* Parts of the state that a step leaves alone keep their part of Inv.     *)
LEMMA PlayersAside ==
  ASSUME PlayersInv, Asleep, UNCHANGED <<ringVars, playerVars, notified>>
  PROVE  PlayersInv' /\ Asleep'
BY DEF PlayersInv, Asleep, HasReached, PartsOf, Has, Evicted, ringVars, playerVars

LEMMA PullerAside ==
  ASSUME RingInv, PullerInv, UNCHANGED pullerVars, nextSeq <= nextSeq',
         nextSeq' \in Nat, Len(segments') \in Nat,
         nextSeq - Len(segments) <= nextSeq' - Len(segments')
  PROVE  PullerInv'
BY SMTT(30) DEF RingInv, PullerInv, pullerVars, Cursor

LEMMA RingAside ==
  ASSUME RingInv, UNCHANGED ringVars
  PROVE  RingInv'
BY DEF RingInv, Numbered, ringVars

(* Whoever publishes wakes every player that looked before.                *)
LEMMA NotifyWakes ==
  ASSUME PlayersInv, Notify, UNCHANGED playerVars
  PROVE  PlayersInv' /\ Asleep'
<1>1. /\ notified' \in [Players -> BOOLEAN]
      /\ \A p \in Players : reader'[p] \in {"parking", "waiting"} => notified'[p]
  BY DEF PlayersInv, Notify, Listens, playerVars
<1> QED
  BY <1>1 DEF PlayersInv, Asleep, playerVars

(* A push leaves the puller with a newer ring than its snapshot.           *)
LEMMA Published ==
  ASSUME Inv, NEW clip \in Clip, NEW parts \in Seq(Clip), Push(clip, parts),
         Notify, UNCHANGED <<playerVars, pullerVars>>, SegmenterInv'
  PROVE  Inv'
<1> RingInv /\ PlayersInv /\ PullerInv
  BY DEF Inv
<1>1. /\ RingInv' /\ nextSeq' = nextSeq + 1
      /\ nextSeq - Len(segments) <= nextSeq' - Len(segments')
  BY PushKeepsRing
<1>2. PullerInv'
  <2>1. nextSeq' \in Nat /\ Len(segments') \in Nat /\ nextSeq <= nextSeq'
    BY <1>1 DEF RingInv
  <2> QED
    BY <1>1, <2>1, PullerAside
<1> QED
  BY <1>1, <1>2, NotifyWakes DEF Inv

LEMMA PartPublished ==
  ASSUME Inv, NEW clip \in Clip, PushPart(clip),
         Notify, UNCHANGED <<playerVars, pullerVars>>, SegmenterInv'
  PROVE  Inv'
<1> RingInv /\ PlayersInv /\ PullerInv
  BY DEF Inv
<1>1. RingInv' /\ UNCHANGED <<segments, nextSeq>>
  BY PushPartKeepsRing DEF PushPart
<1>2. PullerInv'
  BY <1>1 DEF PullerInv, pullerVars, Cursor
<1> QED
  BY <1>1, <1>2, NotifyWakes DEF Inv

LEMMA SegmenterKeepsInv ==
  ASSUME Inv, Segmenter
  PROVE  Inv'
<1> USE SegmentRingAssumption
<1> RingInv /\ SegmenterInv /\ PlayersInv /\ PullerInv /\ Asleep
  BY DEF Inv
<1>1. CASE StartSegment \/ MuxFrame \/ StopAtKeyframe \/ HangUp \/ MuxFails
  <2>1. UNCHANGED <<ringVars, playerVars, notified, pullerVars>>
    BY <1>1 DEF StartSegment, MuxFrame, StopAtKeyframe, HangUp, MuxFails
  <2>2. SegmenterInv'
    <3>1. CASE StartSegment
      <4>1. taken' \in Nat /\ muxed' = taken' /\ drained' = drained /\ drained < muxed'
        BY <3>1 DEF StartSegment, SegmenterInv, Carried
      <4>2. localParts' \in Seq(Clip) /\ UNCHANGED lowLatency /\ segmenter' = "frames"
        BY <3>1 DEF StartSegment, NewParts
      <4> QED
        BY <4>1, <4>2 DEF SegmenterInv, SegmenterState
    <3>2. CASE MuxFrame \/ StopAtKeyframe
      BY <3>2 DEF MuxFrame, StopAtKeyframe, SegmenterInv, SegmenterState
    <3>3. CASE HangUp \/ MuxFails
      BY <3>3 DEF HangUp, MuxFails, SegmenterInv, SegmenterState
    <3> QED
      BY <1>1, <3>1, <3>2, <3>3
  <2>3. PullerInv'
    BY <2>1 DEF PullerInv, pullerVars, ringVars, Cursor
  <2> QED
    BY <2>1, <2>2, <2>3, RingAside, PlayersAside DEF Inv
<1>2. CASE MuxFrameAndFlush
  <2>1. <<drained + 1, taken + 1>> \in Clip
    BY DEF SegmenterInv, Clip
  <2>2. localParts' \in Seq(Clip) /\ localParts' # <<>>
    BY <1>2, <2>1 DEF MuxFrameAndFlush, SegmenterInv
  <2>3. SegmenterInv'
    BY <1>2, <2>2 DEF MuxFrameAndFlush, SegmenterInv, SegmenterState
  <2> QED
    BY <1>2, <2>1, <2>3, PartPublished DEF MuxFrameAndFlush
<1>3. CASE CloseClassic
  <2>1. Drained \in Clip /\ <<>> \in Seq(Clip)
    BY DEF SegmenterInv, Clip, Drained
  <2>2. SegmenterInv'
    BY <1>3 DEF CloseClassic, SegmenterInv, SegmenterState, NextSegment
  <2> QED
    BY <1>3, <2>1, <2>2, Published DEF CloseClassic
<1>4. CASE PushTrailingPart
  <2>1. Drained \in Clip
    BY DEF SegmenterInv, Clip, Drained
  <2>2. localParts' \in Seq(Clip) /\ localParts' # <<>>
    BY <1>4, <2>1 DEF PushTrailingPart, SegmenterInv
  <2>3. SegmenterInv'
    BY <1>4, <2>2 DEF PushTrailingPart, SegmenterInv, SegmenterState
  <2> QED
    BY <1>4, <2>1, <2>3, PartPublished DEF PushTrailingPart
<1>5. CASE CompleteSegment
  <2> DEFINE body == <<Head(localParts)[1], localParts[Len(localParts)][2]>>
  <2>1. localParts # <<>>
    BY <1>5 DEF CompleteSegment, SegmenterInv
  <2>2. Head(localParts) \in Clip /\ localParts[Len(localParts)] \in Clip
    BY <2>1 DEF SegmenterInv
  <2>3. body \in Clip
    BY <2>2 DEF Clip
  <2>4. TakenParts \in Seq(Clip) /\ Push(body, TakenParts)
    BY <1>5 DEF CompleteSegment, CompletePending, TakenParts, RingInv
  <2>5. SegmenterInv'
    BY <1>5 DEF CompleteSegment, SegmenterInv, SegmenterState, NextSegment
  <2> QED
    BY <1>5, <2>3, <2>4, <2>5, Published DEF CompleteSegment
<1> QED
  BY <1>1, <1>2, <1>3, <1>4, <1>5 DEF Segmenter

(* A player looks at the ring, once its future is made, before it sleeps.  *)
LEMMA PlayerKeepsInv ==
  ASSUME Inv, NEW p \in Players, Player(p)
  PROVE  Inv'
<1> USE SegmentRingAssumption
<1> RingInv /\ SegmenterInv /\ PlayersInv /\ PullerInv /\ Asleep
  BY DEF Inv
<1>1. UNCHANGED <<ringVars, segmenterVars, pullerVars>>
  BY DEF Player, Request, Arm, Recheck, Park, Wake, TimeOut, ServePlaylist
<1>2. RingInv' /\ SegmenterInv' /\ PullerInv'
  BY <1>1, RingAside
  DEF SegmenterInv, PullerInv, Cursor, segmenterVars, pullerVars, ringVars
<1>3. PlayersInv'
  <2>1. NoWant \in [seq : Nat, part : Nat \cup {NoPart}]
    BY DEF NoWant
  <2>2. Len(pendingParts) \in Nat /\ nextSeq \in Nat
    BY DEF RingInv
  <2>3. CASE Request(p)
    <3>1. reader' \in [Players -> ReaderState] /\ UNCHANGED <<seen, notified>>
      BY <2>3 DEF Request, PlayersInv, ReaderState
    <3>2. want' \in [Players -> [seq : Nat, part : Nat \cup {NoPart}]]
      <4>1. CASE UNCHANGED want
        BY <4>1 DEF PlayersInv
      <4>2. CASE \E part \in Nat \cup {NoPart} :
                   want' = [want EXCEPT ![p] = [seq |-> seen[p].seq, part |-> part]]
        BY <4>2 DEF PlayersInv
      <4>3. seen[p].part \in Nat
        BY DEF PlayersInv
      <4> QED
        BY <2>3, <4>1, <4>2, <4>3 DEF Request
    <3> QED
      BY <3>1, <3>2 DEF PlayersInv
  <2>4. CASE ServePlaylist(p)
    BY <2>1, <2>2, <2>4 DEF ServePlaylist, PlayersInv, ReaderState
  <2>5. CASE Arm(p) \/ Recheck(p) \/ Park(p) \/ Wake(p) \/ TimeOut(p)
    BY <2>5 DEF Arm, Recheck, Park, Wake, TimeOut, PlayersInv, ReaderState
  <2> QED
    BY <2>3, <2>4, <2>5 DEF Player
<1>4. ASSUME NEW q \in Players, reader'[q] \in {"parking", "waiting"}, ~notified'[q]
      PROVE  ~HasReached(want[q].seq, want[q].part) /\ want'[q] = want[q]
  <2>1. CASE Recheck(p) /\ q = p
    BY <1>4, <2>1 DEF Recheck, PlayersInv
  <2>2. CASE ~Recheck(p) \/ q # p
    <3>1. /\ reader[q] \in {"parking", "waiting"} /\ notified'[q] = notified[q]
          /\ want'[q] = want[q]
      BY <1>4, <2>2
      DEF Player, Request, Arm, Recheck, Park, Wake, TimeOut, ServePlaylist, PlayersInv
    <3> QED
      BY <1>4, <3>1 DEF Asleep
  <2> QED
    BY <2>1, <2>2
<1>5. Asleep'
  BY <1>1, <1>4, ZenonT(60) DEF Asleep, HasReached, PartsOf, Has, Evicted, ringVars
<1> QED
  BY <1>2, <1>3, <1>5 DEF Inv

-----------------------------------------------------------------------------
(* Where a new playlist puts the cursor: never before the old place, and   *)
(* past it only if the puller lags.                                        *)
LEMMA NewPlaylist ==
  ASSUME RingInv, PullerInv, Refresh \/ SkipToLive
  PROVE  /\ nextIndex' \in Nat /\ Cursor' \in Int /\ Cursor \in Nat
         /\ Cursor <= Cursor'
         /\ Cursor < Cursor' => nextSeq - Cursor > LagThreshold
<1> USE SegmentRingAssumption, LiveHlsAssumption
<1>1. /\ Playlist \in [first : Nat, len : Nat] /\ Playlist.len = Len(segments)
      /\ Playlist.first = nextSeq - Len(segments)
  BY PlaylistFirst
<1>2. snapshot' = Playlist /\ Cursor' = Playlist.first + nextIndex'
  BY DEF Refresh, SkipToLive, Cursor
<1>3. /\ Cursor \in Nat /\ nextSeq \in Nat /\ Len(segments) \in Nat
      /\ Cursor < nextSeq - Len(segments) => nextSeq - Cursor > LagThreshold
  BY DEF Cursor, PullerInv, RingInv
<1>4. /\ LiveEdge \in Nat
      /\ Playlist.len > LagThreshold => LiveEdge = Playlist.len - LagThreshold
  BY <1>1 DEF LiveEdge, AtLeastZero
<1>5. CASE SkipToLive
  <2>1. Cursor < Playlist.first /\ nextIndex' = LiveEdge
    BY <1>1, <1>5 DEF SkipToLive, PullerInv
  <2> QED
    BY <1>1, <1>2, <1>3, <1>4, <2>1
<1>6. CASE Refresh
  <2>1. /\ Translated \in Nat
        /\ \/ Cursor >= Playlist.first /\ Translated = Cursor - Playlist.first
           \/ Cursor < Playlist.first /\ Translated = 0
    BY <1>1, <1>3 DEF Translated, AtLeastZero
  <2>2. CASE Playlist.len - Translated > LagThreshold
    <3>1. nextIndex' = LiveEdge
      BY <1>6, <2>2 DEF Refresh
    <3> QED
      BY <1>1, <1>2, <1>3, <1>4, <2>1, <2>2, <3>1
  <2>3. CASE ~(Playlist.len - Translated > LagThreshold)
    <3>1. nextIndex' = Translated
      BY <1>6, <2>3 DEF Refresh
    <3> QED
      BY <1>1, <1>2, <1>3, <2>1, <3>1
  <2> QED
    BY <2>2, <2>3
<1> QED
  BY <1>5, <1>6

LEMMA PullerKeepsInv ==
  ASSUME Inv, Puller
  PROVE  Inv'
<1> USE SegmentRingAssumption, LiveHlsAssumption
<1> RingInv /\ SegmenterInv /\ PlayersInv /\ PullerInv /\ Asleep
  BY DEF Inv
<1>1. UNCHANGED <<ringVars, segmenterVars, playerVars, notified>>
  BY DEF Puller, OpenPlaylist, ProbeFirst, PullSegment, SkipToLive, Refresh, Seek,
         PullerEnds
<1>2. RingInv' /\ SegmenterInv' /\ PlayersInv' /\ Asleep'
  BY <1>1, RingAside, PlayersAside DEF SegmenterInv, segmenterVars
<1>3. /\ Playlist \in [first : Nat, len : Nat] /\ Playlist.len = Len(segments)
      /\ Playlist.first = nextSeq - Len(segments)
  BY PlaylistFirst
<1>4. PullerInv'
  <2>1. CASE OpenPlaylist
    BY <1>1, <1>3, <2>1 DEF OpenPlaylist, PullerInv, PullerState, ringVars, RingInv
  <2>2. CASE ProbeFirst
    BY <1>1, <2>2 DEF ProbeFirst, PullerInv, PullerState, ringVars, Cursor, NoSeq
  <2>3. CASE PullSegment
    <3>1. Cursor \in Nat /\ Cursor < nextSeq
      BY <2>3 DEF PullSegment, PullerInv, Cursor, RingInv
    <3>2. CASE Has(Cursor)
      BY <1>1, <2>3, <3>1, <3>2
      DEF PullSegment, PullerInv, PullerState, ringVars, Cursor
    <3>3. CASE ~Has(Cursor)
      <4>1. Cursor < nextSeq - Len(segments)
        BY <3>1, <3>3, MissingIsEvicted
      <4> QED
        BY <1>1, <2>3, <3>3, <4>1
        DEF PullSegment, PullerInv, PullerState, ringVars, Cursor, AfterNotFound
    <3> QED
      BY <3>2, <3>3
  <2>4. CASE Refresh \/ SkipToLive
    <3>1. nextIndex' \in Nat /\ Cursor' \in Int /\ Cursor \in Nat /\ Cursor <= Cursor'
      BY <2>4, NewPlaylist
    <3>2. /\ puller \in {"pulling", "skipping"} /\ puller' = "pulling"
          /\ snapshot' = Playlist /\ UNCHANGED <<played, seeks, nextSeq>>
      BY <1>1, <2>4 DEF Refresh, SkipToLive, ringVars
    <3>3. played' < Cursor'
      BY <3>1, <3>2 DEF PullerInv, NoSeq
    <3> QED
      BY <1>3, <3>1, <3>2, <3>3 DEF PullerInv, PullerState, RingInv
  <2>5. CASE Seek
    BY <1>1, <2>5 DEF Seek, PullerInv, PullerState, ringVars, Cursor, NoSeq
  <2>6. CASE PullerEnds
    BY <1>1, <2>6 DEF PullerEnds, PullerInv, PullerState, ringVars
  <2> QED
    BY <2>1, <2>2, <2>3, <2>4, <2>5, <2>6 DEF Puller
<1> QED
  BY <1>2, <1>4 DEF Inv

LEMMA InvStep == Inv /\ [Next]_vars => Inv'
<1> SUFFICES ASSUME Inv, [Next]_vars PROVE Inv'
  OBVIOUS
<1>1. CASE UNCHANGED vars
  <2>1. UNCHANGED <<ringVars, segmenterVars, playerVars, notified, pullerVars>>
    BY <1>1 DEF vars
  <2> QED
    BY <2>1, RingAside, PlayersAside
    DEF Inv, SegmenterInv, PullerInv, Cursor, segmenterVars, pullerVars, ringVars
<1> QED
  BY <1>1, SegmenterKeepsInv, PullerKeepsInv, PlayerKeepsInv DEF Next

LEMMA Invariance == Spec => []Inv
BY InvInit, InvStep, PTL DEF Spec

-----------------------------------------------------------------------------
(* The state keeps its shape, and the ring its capacity.                   *)
THEOREM TypeCorrect == Spec => []TypeOK
<1>1. Inv => TypeOK
  BY DEF Inv, RingInv, SegmenterInv, PlayersInv, PullerInv, TypeOK
<1> QED
  BY <1>1, Invariance, PTL

(* wait_for_msn never sleeps over a position the ring has reached.         *)
THEOREM NoWakeUpIsLost == Spec => []NoLostWakeUp
<1>1. Inv => NoLostWakeUp
  BY DEF Inv, Asleep, NoLostWakeUp
<1> QED
  BY <1>1, Invariance, PTL

(* However segments are pushed and evicted around its requests, the puller *)
(* delivers segments in strictly increasing order.                         *)
THEOREM NeverBackwards == Spec => PlaysForward
<1>1. Inv /\ [Next]_vars => [PullSegment /\ puller' = "pulling" => played' > played]_vars
  <2> SUFFICES ASSUME Inv, PullSegment, puller' = "pulling" PROVE played' > played
    OBVIOUS
  <2>1. played' = Cursor /\ played < Cursor
    BY DEF PullSegment, AfterNotFound, Inv, PullerInv
  <2>2. Cursor \in Nat /\ played \in Int
    BY DEF Inv, PullerInv, Cursor, NoSeq
  <2> QED
    BY <2>1, <2>2
<1> QED
  BY <1>1, Invariance, PTL DEF Spec, PlaysForward

(* The puller leaves segments out only when it lags by more than the       *)
(* threshold, whatever the threshold and the capacity above it.            *)
THEOREM KeepsUpOrSkips == Spec => SkipsOnlyWhenLagging
<1>1. Inv /\ [Next]_vars
        => [(Refresh \/ SkipToLive) /\ Cursor' # Cursor
              => Cursor' > Cursor /\ nextSeq - Cursor > LagThreshold]_vars
  <2> SUFFICES ASSUME Inv, Refresh \/ SkipToLive, Cursor' # Cursor
               PROVE  Cursor' > Cursor /\ nextSeq - Cursor > LagThreshold
    OBVIOUS
  <2> QED
    BY NewPlaylist DEF Inv
<1> QED
  BY <1>1, Invariance, PTL DEF Spec, SkipsOnlyWhenLagging

-----------------------------------------------------------------------------
(* The parts published of the segment under construction are local_parts,  *)
(* they abut, and with the frames drained last they go on where the last   *)
(* segment ends.                                                           *)
Started == segmenter \in {"frames", "closing", "completing"}

PartsInv ==
  /\ lowLatency /\ Started => pendingParts = localParts
  /\ segmenter = "first" \/ ~lowLatency => pendingParts = <<>>
  /\ segmenter = "completing" => lowLatency
  /\ Abut(pendingParts)
  /\ pendingParts # <<>> => pendingParts[Len(pendingParts)][2] = drained

GoesOn ==
  segments # <<>> =>
    LET end == segments[Len(segments)].body[2]
    IN  IF pendingParts = <<>> THEN end = drained ELSE pendingParts[1][1] = end + 1

BodiesAbut ==
  \A i \in 1 .. Len(segments) - 1 : segments[i + 1].body[1] = segments[i].body[2] + 1

PartsTile(s) ==
  /\ s.parts # <<>> /\ Abut(s.parts)
  /\ s.body = <<s.parts[1][1], s.parts[Len(s.parts)][2]>>

TileInv ==
  /\ PartsInv /\ GoesOn /\ BodiesAbut
  /\ lowLatency => \A i \in 1 .. Len(segments) : PartsTile(segments[i])

LEMMA SegmentAt ==
  ASSUME NEW s \in Seq(Segment), NEW i \in 1 .. Len(s)
  PROVE  /\ s[i] \in Segment /\ s[i].body \in Clip /\ s[i].parts \in Seq(Clip) /\ s[i].seq \in Nat
         /\ s[i].body[1] \in Nat /\ s[i].body[2] \in Nat
<1>1. s[i] \in Segment
  OBVIOUS
<1> QED
  BY <1>1 DEF Segment, Clip

LEMMA Bodies ==
  ASSUME segments \in Seq(Segment)
  PROVE  Abut([i \in DOMAIN segments |-> segments[i].body]) <=> BodiesAbut
<1> DEFINE bodies == [i \in DOMAIN segments |-> segments[i].body]
<1>1. DOMAIN segments = 1 .. Len(segments) /\ Len(segments) \in Nat
  OBVIOUS
<1>2. Len(bodies) = Len(segments)
  BY <1>1
<1>3. \A i \in 1 .. Len(segments) : bodies[i] = segments[i].body
  BY <1>1
<1> HIDE DEF bodies
<1>4. Abut(bodies) <=> \A i \in 1 .. Len(segments) - 1 : bodies[i + 1][1] = bodies[i][2] + 1
  BY <1>2 DEF Abut
<1>5. ASSUME NEW i \in 1 .. Len(segments) - 1
      PROVE  bodies[i + 1] = segments[i + 1].body /\ bodies[i] = segments[i].body
  BY <1>1, <1>3
<1>6. Abut(bodies) <=> BodiesAbut
  BY <1>4, <1>5 DEF BodiesAbut
<1> QED
  BY <1>6 DEF bodies

(* A clip that begins where the last one ends keeps a sequence abutting.   *)
LEMMA AppendAbuts ==
  ASSUME NEW clips \in Seq(Clip), Abut(clips), NEW clip \in Clip,
         clips # <<>> => clip[1] = clips[Len(clips)][2] + 1
  PROVE  Abut(Append(clips, clip))
<1> DEFINE all == Append(clips, clip)
<1>1. /\ Len(all) = Len(clips) + 1 /\ Len(clips) \in Nat /\ all[Len(clips) + 1] = clip
      /\ \A i \in 1 .. Len(clips) : all[i] = clips[i]
  OBVIOUS
<1> SUFFICES ASSUME NEW i \in 1 .. Len(all) - 1 PROVE all[i + 1][1] = all[i][2] + 1
  BY DEF Abut
<1> HIDE DEF all
<1>2. CASE i = Len(clips)
  <2>1. clips # <<>> /\ i \in 1 .. Len(clips)
    BY <1>1, <1>2
  <2> QED
    BY <1>1, <1>2, <2>1
<1>3. CASE i \in 1 .. Len(clips) - 1
  BY <1>1, <1>3 DEF Abut
<1> QED
  BY <1>1, <1>2, <1>3

(* A segment that begins where the last one ends is pushed.                *)
LEMMA PushTiles ==
  ASSUME RingInv, BodiesAbut, NEW clip \in Clip, NEW parts \in Seq(Clip), Push(clip, parts),
         segments # <<>> => clip[1] = segments[Len(segments)].body[2] + 1
  PROVE  /\ BodiesAbut' /\ segments' # <<>> /\ Len(segments') >= 1
         /\ segments'[Len(segments')] = [seq |-> nextSeq, body |-> clip, parts |-> parts]
         /\ \A i \in 1 .. Len(segments') :
              \/ segments'[i] = [seq |-> nextSeq, body |-> clip, parts |-> parts]
              \/ \E j \in 1 .. Len(segments) : segments'[i] = segments[j]
<1> USE SegmentRingAssumption
<1> DEFINE new == [seq |-> nextSeq, body |-> clip, parts |-> parts]
           all == Append(segments, new)
<1>1. new \in Segment /\ new.body = clip
  BY DEF RingInv, Segment
<1>2. segments' = Retained(all)
  BY DEF Push
<1> HIDE DEF new
<1>3. /\ all \in Seq(Segment) /\ Len(all) = Len(segments) + 1 /\ Len(segments) \in Nat
      /\ all[Len(segments) + 1] = new /\ \A i \in 1 .. Len(segments) : all[i] = segments[i]
  BY <1>1 DEF RingInv
<1> HIDE DEF all
<1>4. ASSUME NEW i \in 1 .. Len(all) - 1 PROVE all[i + 1].body[1] = all[i].body[2] + 1
  <2>1. CASE i = Len(segments)
    <3>1. segments # <<>> /\ i \in 1 .. Len(segments)
      BY <1>3, <2>1
    <3> QED
      BY <1>1, <1>3, <2>1, <3>1
  <2>2. CASE i \in 1 .. Len(segments) - 1
    BY <1>3, <2>2 DEF BodiesAbut
  <2> QED
    BY <1>3, <2>1, <2>2
<1>5. CASE Len(all) > Capacity
  <2>1. segments' = Tail(all)
    BY <1>2, <1>5 DEF Retained
  <2>2. /\ Len(segments') = Len(all) - 1 /\ Len(segments') >= 1
        /\ \A i \in 1 .. Len(segments') : segments'[i] = all[i + 1] /\ i + 1 \in 1 .. Len(all)
    BY <1>3, <1>5, <2>1
  <2>3. BodiesAbut'
    <3> SUFFICES ASSUME NEW i \in 1 .. Len(segments') - 1
                 PROVE  segments'[i + 1].body[1] = segments'[i].body[2] + 1
      BY DEF BodiesAbut
    <3>1. segments'[i] = all[i + 1] /\ segments'[i + 1] = all[i + 1 + 1] /\ i + 1 \in 1 .. Len(all) - 1
      BY <1>3, <2>2
    <3> QED
      BY <1>4, <3>1
  <2>4. segments'[Len(segments')] = new
    BY <1>3, <2>2
  <2>5. ASSUME NEW i \in 1 .. Len(segments')
        PROVE  segments'[i] = new \/ \E j \in 1 .. Len(segments) : segments'[i] = segments[j]
    BY <1>3, <2>2
  <2>6. segments' # <<>>
    BY <2>2
  <2> QED
    BY <2>2, <2>3, <2>4, <2>5, <2>6 DEF new
<1>6. CASE ~(Len(all) > Capacity)
  <2>1. segments' = all
    BY <1>2, <1>6 DEF Retained
  <2>2. BodiesAbut'
    BY <1>4, <2>1 DEF BodiesAbut
  <2>3. segments' # <<>> /\ Len(segments') >= 1 /\ segments'[Len(segments')] = new
    BY <1>3, <2>1
  <2>4. ASSUME NEW i \in 1 .. Len(segments')
        PROVE  segments'[i] = new \/ \E j \in 1 .. Len(segments) : segments'[i] = segments[j]
    BY <1>3, <2>1
  <2> QED
    BY <2>2, <2>3, <2>4 DEF new
<1> QED
  BY <1>5, <1>6

(* A part that begins where the last one ends is published.                *)
LEMMA PartTiles ==
  ASSUME Inv, TileInv, lowLatency, Started, NEW end \in Nat,
         PushPart(<<drained + 1, end>>), localParts' = Append(localParts, <<drained + 1, end>>),
         drained' = end, lowLatency' = lowLatency, Started'
  PROVE  TileInv'
<1> DEFINE clip == <<drained + 1, end>>
<1>1. /\ pendingParts = localParts /\ pendingParts' = Append(pendingParts, clip)
      /\ UNCHANGED segments /\ pendingParts \in Seq(Clip) /\ drained \in Nat
      /\ segments \in Seq(Segment)
  BY DEF Inv, RingInv, SegmenterInv, TileInv, PartsInv, PushPart
<1>2. clip \in Clip /\ clip[1] = drained + 1 /\ clip[2] = end
  BY <1>1 DEF Clip
<1> HIDE DEF clip
<1>3. /\ pendingParts' # <<>> /\ Len(pendingParts') = Len(pendingParts) + 1
      /\ pendingParts'[Len(pendingParts')] = clip
      /\ pendingParts = <<>> => pendingParts'[1] = clip
      /\ pendingParts # <<>> => pendingParts'[1] = pendingParts[1]
  BY <1>1, <1>2
<1>4. Abut(pendingParts')
  BY <1>1, <1>2, AppendAbuts DEF TileInv, PartsInv
<1>5. PartsInv'
  <2>1. localParts' = pendingParts'
    BY <1>1 DEF clip
  <2>2. segmenter' # "first" /\ lowLatency'
    BY DEF Started
  <2> QED
    BY <1>2, <1>3, <1>4, <2>1, <2>2 DEF PartsInv
<1>6. GoesOn'
  BY <1>1, <1>2, <1>3 DEF GoesOn, TileInv
<1> QED
  BY <1>1, <1>5, <1>6 DEF TileInv, BodiesAbut

LEMMA TileInit == Init => TileInv
BY DEF Init, RingInit, TileInv, PartsInv, Started, Abut, GoesOn, BodiesAbut

LEMMA TileStep == ASSUME Inv, TileInv, [Next]_vars PROVE TileInv'
<1> RingInv /\ SegmenterInv
  BY DEF Inv
<1>1. ASSUME UNCHANGED <<ringVars, lowLatency, drained, localParts>>,
             \/ segmenter' = segmenter
             \/ segmenter' \in {"closing", "ended"}
             \/ segmenter' = "first" /\ pendingParts = <<>>,
             lowLatency /\ Started' => Started
      PROVE  TileInv'
  BY <1>1 DEF TileInv, PartsInv, GoesOn, BodiesAbut, Started, ringVars
<1>2. CASE StartSegment
  <2>1. /\ UNCHANGED <<ringVars, lowLatency, drained>> /\ localParts' = <<>> /\ pendingParts = <<>>
        /\ segmenter' = "frames"
    BY <1>2 DEF StartSegment, NewParts, TileInv, PartsInv
  <2> QED
    BY <2>1 DEF TileInv, PartsInv, GoesOn, BodiesAbut, Started, ringVars
<1>3. CASE MuxFrame \/ StopAtKeyframe \/ HangUp \/ MuxFails
  <2>1. /\ UNCHANGED <<ringVars, lowLatency, drained, localParts>>
        /\ segmenter' = segmenter \/ segmenter' \in {"closing", "ended"}
        /\ Started' => Started
    BY <1>3 DEF MuxFrame, StopAtKeyframe, HangUp, MuxFails, Started
  <2> QED
    BY <1>1, <2>1
<1>4. CASE MuxFrameAndFlush
  <2>1. taken + 1 \in Nat
    BY DEF SegmenterInv
  <2> QED
    BY <1>4, <2>1, PartTiles DEF MuxFrameAndFlush, Started
<1>5. CASE PushTrailingPart
  <2>1. muxed \in Nat
    BY DEF SegmenterInv
  <2> QED
    BY <1>5, <2>1, PartTiles DEF PushTrailingPart, Started, Drained
<1>6. CASE CloseClassic
  <2>1. /\ Push(Drained, <<>>) /\ pendingParts = <<>> /\ ~lowLatency' /\ ~lowLatency /\ drained' = muxed
        /\ pendingParts' = <<>> /\ segmenter' \in {"first", "ended"}
    BY <1>6 DEF CloseClassic, NextSegment, TileInv, PartsInv, Push
  <2>2. Drained \in Clip /\ Drained[1] = drained + 1 /\ Drained[2] = muxed /\ <<>> \in Seq(Clip)
    BY DEF SegmenterInv, Clip, Drained
  <2>3. segments # <<>> => Drained[1] = segments[Len(segments)].body[2] + 1
    BY <2>1, <2>2 DEF TileInv, GoesOn
  <2> DEFINE new == [seq |-> nextSeq, body |-> Drained, parts |-> <<>>]
  <2>4. BodiesAbut' /\ segments'[Len(segments')] = new
    BY <2>1, <2>2, <2>3, PushTiles DEF TileInv
  <2>5. GoesOn'
    BY <2>1, <2>2, <2>4 DEF GoesOn
  <2>6. PartsInv'
    BY <2>1 DEF PartsInv, Abut
  <2> QED
    BY <2>1, <2>4, <2>5, <2>6 DEF TileInv
<1>7. CASE CompleteSegment
  <2> DEFINE body == <<Head(localParts)[1], localParts[Len(localParts)][2]>>
             new == [seq |-> nextSeq, body |-> body, parts |-> pendingParts]
  <2>1. /\ Push(body, pendingParts) /\ pendingParts' = <<>> /\ lowLatency' = lowLatency
        /\ drained' = drained /\ segmenter' \in {"first", "ended"}
        /\ Started /\ localParts # <<>>
    BY <1>7 DEF CompleteSegment, CompletePending, TakenParts, Push, NextSegment, SegmenterInv, Started
  <2>2. lowLatency
    BY <1>7 DEF CompleteSegment, TileInv, PartsInv
  <2>3. /\ pendingParts = localParts /\ pendingParts # <<>> /\ pendingParts \in Seq(Clip)
        /\ Abut(pendingParts) /\ pendingParts[Len(pendingParts)][2] = drained
    BY <2>1, <2>2 DEF TileInv, PartsInv, RingInv
  <2>4. /\ Len(pendingParts) >= 1 /\ Head(localParts) = pendingParts[1]
        /\ pendingParts[1] \in Clip /\ pendingParts[Len(pendingParts)] \in Clip
    BY <2>3
  <2>5. body = <<pendingParts[1][1], drained>> /\ body \in Clip /\ body[1] = pendingParts[1][1]
        /\ body[2] = drained
    BY <2>3, <2>4 DEF Clip
  <2> HIDE DEF body
  <2>6. segments # <<>> => body[1] = segments[Len(segments)].body[2] + 1
    BY <2>3, <2>5 DEF TileInv, GoesOn
  <2>7. /\ BodiesAbut' /\ segments'[Len(segments')] = new
        /\ \A i \in 1 .. Len(segments') :
             segments'[i] = new \/ \E j \in 1 .. Len(segments) : segments'[i] = segments[j]
    BY <2>1, <2>3, <2>5, <2>6, PushTiles DEF TileInv
  <2>8. PartsTile(new)
    BY <2>3, <2>5 DEF PartsTile
  <2>9. new.body = body
    OBVIOUS
  <2> HIDE DEF new
  <2>10. \A i \in 1 .. Len(segments') : PartsTile(segments'[i])
    BY <2>2, <2>7, <2>8 DEF TileInv
  <2>11. GoesOn'
    BY <2>1, <2>5, <2>7, <2>9 DEF GoesOn
  <2>12. PartsInv'
    BY <2>1 DEF PartsInv, Abut, Started
  <2> QED
    BY <2>7, <2>10, <2>11, <2>12 DEF TileInv
<1>8. CASE Puller \/ (\E p \in Players : Player(p)) \/ UNCHANGED vars
  <2>1. UNCHANGED <<ringVars, segmenterVars>>
    BY <1>8 DEF vars, Puller, OpenPlaylist, ProbeFirst, PullSegment, SkipToLive, Refresh, Seek,
                PullerEnds, Player, Request, Arm, Recheck, Park, Wake, TimeOut, ServePlaylist
  <2> QED
    BY <1>1, <2>1 DEF segmenterVars, Started
<1> QED
  BY <1>2, <1>3, <1>4, <1>5, <1>6, <1>7, <1>8 DEF Next, Segmenter

LEMMA Tiling == Spec => [](Inv /\ TileInv)
<1>1. Inv /\ TileInv /\ [Next]_vars => (Inv /\ TileInv)'
  BY InvStep, TileStep
<1> QED
  BY <1>1, InvInit, TileInit, PTL DEF Spec

(* For any ring, low-latency or not, and any cut of the frames into parts   *)
(* and segments: in every published segment the parts abut, the segments   *)
(* abut each other, and parts of the open one go on where they end.        *)
THEOREM SegmentsTile == Spec => []FramesTile
<1>1. Inv /\ TileInv => FramesTile
  <2> SUFFICES ASSUME Inv, TileInv PROVE FramesTile
    OBVIOUS
  <2>1. segments \in Seq(Segment) /\ DOMAIN segments = 1 .. Len(segments)
    BY DEF Inv, RingInv
  <2> QED
    BY <2>1, Bodies DEF TileInv, PartsTile, FramesTile
<1> QED
  BY <1>1, Tiling, PTL

-----------------------------------------------------------------------------
(* A segment of the ring is the one with its number; the next one is not   *)
(* there, and one that was there and is not has been evicted.              *)
HoldsOnce ==
  /\ \A i \in 1 .. Len(segments) : PartsOf(segments[i].seq) = segments[i].parts
  /\ ~Has(nextSeq) /\ PartsOf(nextSeq) = pendingParts
  /\ segments # <<>> =>
       \A s \in 0 .. nextSeq - 1 : Has(s) \/ Evicted(s)

LEMMA RingHoldsOnce == RingInv => HoldsOnce
<1> SUFFICES ASSUME RingInv PROVE HoldsOnce
  OBVIOUS
<1>1. /\ DOMAIN segments = 1 .. Len(segments) /\ Len(segments) \in Nat /\ nextSeq \in Nat
      /\ \A i \in 1 .. Len(segments) : segments[i].seq = nextSeq - Len(segments) + i - 1
  BY DEF RingInv, Numbered
<1>2. ASSUME NEW i \in 1 .. Len(segments)
      PROVE  PartsOf(segments[i].seq) = segments[i].parts
  <2>1. Has(segments[i].seq)
    BY <1>1 DEF Has
  <2>2. \A j \in DOMAIN segments : segments[j].seq = segments[i].seq => j = i
    BY <1>1
  <2>3. (CHOOSE j \in DOMAIN segments : segments[j].seq = segments[i].seq) = i
    BY <1>1, <2>2
  <2> QED
    BY <2>1, <2>3 DEF PartsOf
<1>3. ~Has(nextSeq)
  BY <1>1 DEF Has
<1>4. PartsOf(nextSeq) = pendingParts
  BY <1>3 DEF PartsOf
<1>5. ASSUME segments # <<>>, NEW s \in 0 .. nextSeq - 1, ~Has(s) PROVE Evicted(s)
  <2>1. s < nextSeq - Len(segments)
    BY <1>1, <1>5, MissingIsEvicted
  <2>2. Head(segments) = segments[1] /\ Len(segments) >= 1
    BY <1>5 DEF RingInv
  <2> QED
    BY <1>1, <1>5, <2>1, <2>2 DEF Evicted
<1> QED
  BY <1>2, <1>3, <1>4, <1>5 DEF HoldsOnce

LEMMA RingHoldsOnceNext == RingInv' => HoldsOnce'
BY RingHoldsOnce, PTL

(* Where the segments of a ring come from after a push.                    *)
LEMMA Pushed ==
  ASSUME RingInv, NEW clip \in Clip, NEW parts \in Seq(Clip), Push(clip, parts)
  PROVE  LET new == [seq |-> nextSeq, body |-> clip, parts |-> parts] IN
         /\ segments' # <<>> /\ Len(segments') >= 1
         /\ segments'[Len(segments')] = new
         /\ \A i \in 1 .. Len(segments') :
              segments'[i] = new \/ \E j \in 1 .. Len(segments) : segments'[i] = segments[j]
<1> USE SegmentRingAssumption
<1> DEFINE new == [seq |-> nextSeq, body |-> clip, parts |-> parts]
           all == Append(segments, new)
<1>1. new \in Segment
  BY DEF RingInv, Segment
<1>2. segments' = Retained(all)
  BY DEF Push
<1> HIDE DEF new
<1>3. /\ all \in Seq(Segment) /\ Len(all) = Len(segments) + 1 /\ Len(segments) \in Nat
      /\ all[Len(segments) + 1] = new /\ \A i \in 1 .. Len(segments) : all[i] = segments[i]
  BY <1>1 DEF RingInv
<1> HIDE DEF all
<1>5. CASE Len(all) > Capacity
  <2>1. segments' = Tail(all)
    BY <1>2, <1>5 DEF Retained
  <2>2. /\ Len(segments') = Len(all) - 1 /\ Len(segments') >= 1
        /\ \A i \in 1 .. Len(segments') : segments'[i] = all[i + 1] /\ i + 1 \in 1 .. Len(all)
    BY <1>3, <1>5, <2>1
  <2>4. segments' # <<>> /\ segments'[Len(segments')] = new
    BY <1>3, <2>2
  <2>5. ASSUME NEW i \in 1 .. Len(segments')
        PROVE  segments'[i] = new \/ \E j \in 1 .. Len(segments) : segments'[i] = segments[j]
    BY <1>3, <2>2
  <2> QED
    BY <2>2, <2>4, <2>5 DEF new
<1>6. CASE ~(Len(all) > Capacity)
  <2>1. segments' = all
    BY <1>2, <1>6 DEF Retained
  <2>3. segments' # <<>> /\ Len(segments') >= 1 /\ segments'[Len(segments')] = new
    BY <1>3, <2>1
  <2>4. ASSUME NEW i \in 1 .. Len(segments')
        PROVE  segments'[i] = new \/ \E j \in 1 .. Len(segments) : segments'[i] = segments[j]
    BY <1>3, <2>1
  <2> QED
    BY <2>3, <2>4 DEF new
<1> QED
  BY <1>5, <1>6

(* What PartsStay says of one segment number.                              *)
Stays(s) ==
  \/ Evicted(s)'
  \/ \A i \in DOMAIN PartsOf(s) :
       i \in DOMAIN PartsOf(s)' /\ PartsOf(s)'[i] = PartsOf(s)[i]

LEMMA PushKeepsParts ==
  ASSUME RingInv, NEW clip \in Clip, Push(clip, pendingParts), NEW s \in 0 .. nextSeq
  PROVE  Stays(s)
<1> DEFINE new == [seq |-> nextSeq, body |-> clip, parts |-> pendingParts]
<1>1. /\ segments' # <<>>
      /\ \A i \in 1 .. Len(segments') :
           segments'[i] = new \/ \E j \in 1 .. Len(segments) : segments'[i] = segments[j]
  BY Pushed DEF RingInv
<1>2. RingInv' /\ nextSeq' = nextSeq + 1 /\ nextSeq \in Nat
  BY PushKeepsRing DEF RingInv
<1>3. HoldsOnce /\ HoldsOnce'
  BY <1>2, RingHoldsOnce, RingHoldsOnceNext
<1>4. CASE ~Has(s)'
  <2>1. s \in 0 .. nextSeq' - 1
    BY <1>2
  <2> QED
    BY <1>1, <1>3, <1>4, <2>1 DEF HoldsOnce, Stays
<1>5. CASE Has(s)'
  <2>1. PICK k \in 1 .. Len(segments') : segments'[k].seq = s
    BY <1>2, <1>5 DEF Has, RingInv
  <2>2. PartsOf(s)' = segments'[k].parts
    BY <1>3, <2>1 DEF HoldsOnce
  <2>3. CASE segments'[k] = new
    <3>1. s = nextSeq /\ segments'[k].parts = pendingParts
      BY <2>1, <2>3
    <3>2. PartsOf(s) = pendingParts
      BY <1>3, <3>1 DEF HoldsOnce
    <3> QED
      BY <2>2, <3>1, <3>2 DEF Stays
  <2>4. CASE \E j \in 1 .. Len(segments) : segments'[k] = segments[j]
    <3>1. PartsOf(s) = segments'[k].parts
      BY <1>3, <2>1, <2>4 DEF HoldsOnce
    <3> QED
      BY <2>2, <3>1 DEF Stays
  <2> QED
    BY <1>1, <2>3, <2>4
<1> QED
  BY <1>4, <1>5

LEMMA PartKeepsParts ==
  ASSUME RingInv, NEW clip \in Clip, PushPart(clip), NEW s \in 0 .. nextSeq
  PROVE  Stays(s)
<1>1. UNCHANGED <<segments, nextSeq>> /\ pendingParts' = Append(pendingParts, clip)
  BY DEF PushPart
<1>2. Has(s)' = Has(s)
  BY <1>1 DEF Has
<1>3. CASE Has(s) \/ s # nextSeq
  <2>1. PartsOf(s)' = PartsOf(s)
    BY <1>1, <1>2, <1>3 DEF PartsOf
  <2> QED
    BY <2>1 DEF Stays
<1>4. CASE ~Has(s) /\ s = nextSeq
  <2>1. PartsOf(s) = pendingParts /\ PartsOf(s)' = Append(pendingParts, clip)
    BY <1>1, <1>2, <1>4 DEF PartsOf
  <2>2. pendingParts \in Seq(Clip)
    BY DEF RingInv
  <2>3. \A i \in DOMAIN pendingParts :
          /\ i \in DOMAIN Append(pendingParts, clip)
          /\ Append(pendingParts, clip)[i] = pendingParts[i]
    BY <2>2
  <2> QED
    BY <2>1, <2>3 DEF Stays
<1> QED
  BY <1>3, <1>4

LEMMA StepKeepsParts ==
  ASSUME Inv, TileInv, [Next]_vars, NEW s \in 0 .. nextSeq
  PROVE  Stays(s)
<1> RingInv /\ SegmenterInv
  BY DEF Inv
<1>1. CASE UNCHANGED ringVars
  <2>1. PartsOf(s)' = PartsOf(s)
    BY <1>1 DEF ringVars, PartsOf, Has
  <2> QED
    BY <2>1 DEF Stays
<1>2. ASSUME NEW clip \in Clip, PushPart(clip) PROVE Stays(s)
  BY <1>2, PartKeepsParts
<1>3. ASSUME NEW clip \in Clip, Push(clip, pendingParts) PROVE Stays(s)
  BY <1>3, PushKeepsParts
<1>4. /\ drained + 1 \in Nat /\ taken + 1 \in Nat
      /\ Drained \in Clip /\ <<drained + 1, taken + 1>> \in Clip
  BY DEF SegmenterInv, Clip, Drained
<1>5. CASE MuxFrameAndFlush \/ PushTrailingPart
  BY <1>2, <1>4, <1>5 DEF MuxFrameAndFlush, PushTrailingPart
<1>6. CASE CloseClassic
  <2>1. pendingParts = <<>> /\ Push(Drained, <<>>)
    BY <1>6 DEF CloseClassic, TileInv, PartsInv
  <2> QED
    BY <1>3, <1>4, <2>1
<1>7. CASE CompleteSegment
  <2> DEFINE body == <<Head(localParts)[1], localParts[Len(localParts)][2]>>
  <2>1. Push(body, pendingParts) /\ localParts # <<>>
    BY <1>7 DEF CompleteSegment, CompletePending, TakenParts, SegmenterInv
  <2>2. Head(localParts) \in Clip /\ localParts[Len(localParts)] \in Clip
    BY <2>1 DEF SegmenterInv
  <2>3. body \in Clip
    BY <2>2 DEF Clip
  <2> QED
    BY <1>3, <2>1, <2>3
<1>8. CASE StartSegment \/ MuxFrame \/ StopAtKeyframe \/ HangUp \/ MuxFails
  BY <1>1, <1>8 DEF StartSegment, MuxFrame, StopAtKeyframe, HangUp, MuxFails
<1>9. CASE Puller \/ (\E p \in Players : Player(p)) \/ UNCHANGED vars
  <2>1. UNCHANGED ringVars
    BY <1>9 DEF vars, Puller, OpenPlaylist, ProbeFirst, PullSegment, SkipToLive, Refresh, Seek,
                PullerEnds, Player, Request, Arm, Recheck, Park, Wake, TimeOut, ServePlaylist
  <2> QED
    BY <1>1, <2>1
<1> QED
  BY <1>5, <1>6, <1>7, <1>8, <1>9 DEF Next, Segmenter

(* What a player may have read of the playlist stays true of it: no step    *)
(* takes a part of a segment away, or puts another in its place, until the *)
(* ring evicts the segment.                                                *)
THEOREM PublishedPartsStay == Spec => PartsStay
<1>1. Inv /\ TileInv /\ [Next]_vars
        => [\A s \in 0 .. nextSeq :
              \/ Evicted(s)'
              \/ \A i \in DOMAIN PartsOf(s) :
                   i \in DOMAIN PartsOf(s)' /\ PartsOf(s)'[i] = PartsOf(s)[i]]_vars
  BY StepKeepsParts DEF Stays
<1> QED
  BY <1>1, Tiling, PTL DEF Spec, PartsStay
=============================================================================
