------------------------------- MODULE LiveHls -------------------------------
(***************************************************************************)
(* Live HLS from the segmenter to the players: run_from_frames cuts the    *)
(* encoded frames into segments and LL-HLS parts and publishes them in the *)
(* SegmentRing (src/crates/hls/src/segmenter.rs); the HTTP handler serves  *)
(* them, holding blocking playlist reloads back until the ring has reached *)
(* the position they name (http.rs, wait_for_msn); ferricast's own puller  *)
(* follows the playlist with a cursor relative to the snapshot it has      *)
(* (puller/mod.rs, run_worker). Every read or write of the ring is one     *)
(* acquisition of its lock, and anything may happen between two.           *)
(***************************************************************************)
EXTENDS SegmentRing

CONSTANTS
  Players,       (* LL-HLS players, which ask for blocking reloads          *)
  LagThreshold,  (* LIVE_EDGE_LAG_THRESHOLD (3 in the code)                 *)
  MaxFrames,     (* bound: video frames sent to the segmenter               *)
  MaxSeeks       (* bound: seeks made by the puller's user                  *)

ASSUME LiveHlsAssumption ==
  /\ LagThreshold \in Nat /\ LagThreshold <= Capacity
  /\ MaxFrames \in Nat /\ MaxSeeks \in Nat

VARIABLES
  lowLatency,   (* part_target_secs is set                                  *)
  segmenter,    (* where run_from_frames is                                 *)
  taken,        (* the last frame received                                  *)
  muxed,        (* the last frame given to the muxer                        *)
  drained,      (* the last frame drained from the muxer                    *)
  localParts,   (* local_parts                                              *)
  reader,       (* where a player's playlist request is                     *)
  want,         (* the position its request names                           *)
  notified,     (* its Notified future has been completed                   *)
  seen,         (* the live edge of the playlist it was served last         *)
  puller,       (* where the puller's worker is                             *)
  snapshot,     (* current_pl                                               *)
  nextIndex,    (* next_index, relative to the snapshot                     *)
  played,       (* history: the segment delivered last, since a seek        *)
  seeks         (* number of seeks made                                     *)

segmenterVars == <<lowLatency, segmenter, taken, muxed, drained, localParts>>
playerVars == <<reader, want, seen>>
pullerVars == <<puller, snapshot, nextIndex, played, seeks>>
vars == <<ringVars, segmenterVars, playerVars, notified, pullerVars>>

NoSeq == -1
NoWant == [seq |-> 0, part |-> NoPart]
SegmenterState == {"first", "frames", "closing", "completing", "ended"}
ReaderState == {"idle", "looping", "armed", "parking", "waiting", "serving"}
PullerState == {"opening", "probing", "pulling", "skipping", "empty", "notfound", "over"}

Init ==
  /\ RingInit
  /\ lowLatency \in BOOLEAN
  /\ segmenter = "first" /\ taken = 0 /\ muxed = 0 /\ drained = 0 /\ localParts = <<>>
  /\ reader = [p \in Players |-> "idle"]
  /\ want = [p \in Players |-> NoWant]
  /\ seen = [p \in Players |-> [seq |-> 0, part |-> 0]]
  /\ notified = [p \in Players |-> FALSE]
  /\ puller = "opening" /\ snapshot = [first |-> 0, len |-> 0]
  /\ nextIndex = 0 /\ played = NoSeq /\ seeks = 0

-----------------------------------------------------------------------------
(* Notify::notify_waiters completes every Notified future there is, polled *)
(* or not.                                                                 *)
ListensWhenPolled == {"waiting"}
Listens == {"armed", "parking", "waiting"}
Notify == notified' = [p \in Players |-> notified[p] \/ reader[p] \in Listens]

(* 'pending' holds a keyframe taken at the last segment's end.             *)
Carried == taken > muxed
Drained == <<drained + 1, muxed>>
StaleParts == localParts
NewParts == <<>>

(* A segment starts with the carried keyframe, or the next one received.   *)
StartSegment ==
  /\ segmenter = "first"
  /\ \/ Carried /\ UNCHANGED taken
     \/ ~Carried /\ taken < MaxFrames /\ taken' = taken + 1
  /\ muxed' = taken'
  /\ segmenter' = "frames"
  /\ localParts' = NewParts
  /\ UNCHANGED <<ringVars, lowLatency, drained, playerVars, notified, pullerVars>>

MuxFrame ==
  /\ segmenter = "frames" /\ taken < MaxFrames
  /\ taken' = taken + 1 /\ muxed' = taken + 1
  /\ UNCHANGED <<ringVars, lowLatency, segmenter, drained, localParts>>
  /\ UNCHANGED <<playerVars, notified, pullerVars>>

(* A frame after which the part target has elapsed.                        *)
MuxFrameAndFlush ==
  /\ segmenter = "frames" /\ taken < MaxFrames
  /\ lowLatency
  /\ taken' = taken + 1 /\ muxed' = taken + 1 /\ drained' = taken + 1
  /\ localParts' = Append(localParts, <<drained + 1, taken + 1>>)
  /\ PushPart(<<drained + 1, taken + 1>>)
  /\ Notify
  /\ UNCHANGED <<lowLatency, segmenter, playerVars, pullerVars>>

(* A keyframe past the segment target stays for the next segment.          *)
StopAtKeyframe ==
  /\ segmenter = "frames" /\ taken < MaxFrames
  /\ taken' = taken + 1
  /\ segmenter' = "closing"
  /\ UNCHANGED <<ringVars, lowLatency, muxed, drained, localParts>>
  /\ UNCHANGED <<playerVars, notified, pullerVars>>

(* The frame channel is closed.                                            *)
HangUp ==
  /\ \/ segmenter = "frames" /\ segmenter' = "closing"
     \/ segmenter = "first" /\ ~Carried /\ segmenter' = "ended"
  /\ UNCHANGED <<ringVars, lowLatency, taken, muxed, drained, localParts>>
  /\ UNCHANGED <<playerVars, notified, pullerVars>>

(* The muxer refuses a frame: run_from_frames returns at once.             *)
MuxFails ==
  /\ segmenter \in {"first", "frames"}
  /\ segmenter' = "ended"
  /\ UNCHANGED <<ringVars, lowLatency, taken, muxed, drained, localParts>>
  /\ UNCHANGED <<playerVars, notified, pullerVars>>

(* After a segment: the next one, unless the sender had hung up, which is  *)
(* the only other way out of the frame loop.                               *)
NextSegment == IF Carried THEN "first" ELSE "ended"

CloseClassic ==
  /\ segmenter = "closing" /\ ~lowLatency
  /\ Push(Drained, <<>>)
  /\ Notify
  /\ drained' = muxed
  /\ segmenter' = NextSegment
  /\ UNCHANGED <<lowLatency, taken, muxed, localParts, playerVars, pullerVars>>

(* LL-HLS: the bytes left become the last part, if there are any, ...      *)
PushTrailingPart ==
  /\ segmenter = "closing" /\ lowLatency /\ drained < muxed
  /\ localParts' = Append(localParts, Drained)
  /\ PushPart(Drained)
  /\ Notify
  /\ drained' = muxed
  /\ segmenter' = "completing"
  /\ UNCHANGED <<lowLatency, taken, muxed, playerVars, pullerVars>>

(* ... and the segment is published under a lock of its own.               *)
CompleteSegment ==
  /\ \/ segmenter = "completing"
     \/ segmenter = "closing" /\ lowLatency /\ drained = muxed
  /\ CompletePending(<<Head(localParts)[1], localParts[Len(localParts)][2]>>)
  /\ Notify
  /\ segmenter' = NextSegment
  /\ UNCHANGED <<lowLatency, taken, muxed, drained, localParts, playerVars, pullerVars>>

-----------------------------------------------------------------------------
(* A player asks for the playlist at once, or for the position after the   *)
(* last one it knows of: the next segment or, LL-HLS, its next part.       *)
Request(p) ==
  /\ reader[p] = "idle"
  /\ \/ UNCHANGED want /\ reader' = [reader EXCEPT ![p] = "serving"]
     \/ \E part \in {NoPart} \cup (IF lowLatency THEN {seen[p].part} ELSE {}) :
          /\ want' = [want EXCEPT ![p] = [seq |-> seen[p].seq, part |-> part]]
          /\ reader' = [reader EXCEPT
               ![p] = IF HasReached(seen[p].seq, part) THEN "serving" ELSE "looping"]
  /\ UNCHANGED <<ringVars, segmenterVars, seen, notified, pullerVars>>

(* notify.notified() is called before the ring is looked at again.         *)
Arm(p) ==
  /\ reader[p] = "looping"
  /\ reader' = [reader EXCEPT ![p] = "armed"]
  /\ notified' = [notified EXCEPT ![p] = FALSE]
  /\ UNCHANGED <<ringVars, segmenterVars, want, seen, pullerVars>>

Recheck(p) ==
  /\ reader[p] = "armed"
  /\ reader' = [reader EXCEPT
       ![p] = IF HasReached(want[p].seq, want[p].part) THEN "serving" ELSE "parking"]
  /\ UNCHANGED <<ringVars, segmenterVars, want, seen, notified, pullerVars>>

(* Not reached: the future is awaited, unless the deadline is over.        *)
Park(p) ==
  /\ reader[p] = "parking"
  /\ \E next \in {"waiting", "serving"} : reader' = [reader EXCEPT ![p] = next]
  /\ UNCHANGED <<ringVars, segmenterVars, want, seen, notified, pullerVars>>

Wake(p) ==
  /\ reader[p] = "waiting" /\ notified[p]
  /\ reader' = [reader EXCEPT ![p] = "looping"]
  /\ UNCHANGED <<ringVars, segmenterVars, want, seen, notified, pullerVars>>

TimeOut(p) ==
  /\ reader[p] = "waiting" /\ ~notified[p]
  /\ reader' = [reader EXCEPT ![p] = "serving"]
  /\ UNCHANGED <<ringVars, segmenterVars, want, seen, notified, pullerVars>>

ServePlaylist(p) ==
  /\ reader[p] = "serving"
  /\ reader' = [reader EXCEPT ![p] = "idle"]
  /\ seen' = [seen EXCEPT ![p] = [seq |-> nextSeq, part |-> Len(pendingParts)]]
  /\ want' = [want EXCEPT ![p] = NoWant]
  /\ notified' = [notified EXCEPT ![p] = FALSE]
  /\ UNCHANGED <<ringVars, segmenterVars, pullerVars>>

-----------------------------------------------------------------------------
AtLeastZero(n) == IF n < 0 THEN 0 ELSE n
LiveEdge == AtLeastZero(Playlist.len - LagThreshold)

(* The puller's worker fetches the playlist ...                            *)
OpenPlaylist ==
  /\ puller = "opening"
  /\ snapshot' = Playlist
  /\ puller' = IF segments = <<>> THEN "empty" ELSE "probing"
  /\ UNCHANGED <<ringVars, segmenterVars, playerVars, notified, nextIndex, played, seeks>>

(* ... and the first segment it lists, without which open() fails.         *)
ProbeFirst ==
  /\ puller = "probing"
  /\ IF Has(snapshot.first)
     THEN puller' = "pulling" /\ nextIndex' = 1 /\ played' = snapshot.first
     ELSE puller' = "notfound" /\ UNCHANGED <<nextIndex, played>>
  /\ UNCHANGED <<ringVars, segmenterVars, playerVars, notified, snapshot, seeks>>

(* The sequence number of the segment to fetch next.                       *)
Cursor == snapshot.first + nextIndex
FetchAgain == "pulling"
AfterNotFound == "skipping"

PullSegment ==
  /\ puller = "pulling" /\ nextIndex < snapshot.len
  /\ IF Has(Cursor)
     THEN /\ played' = Cursor
          /\ nextIndex' = nextIndex + 1
          /\ UNCHANGED puller
     ELSE puller' = AfterNotFound /\ UNCHANGED <<nextIndex, played>>
  /\ UNCHANGED <<ringVars, segmenterVars, playerVars, notified, snapshot, seeks>>

(* After a 404: a new playlist, and on with the live edge.                 *)
SkipToLive ==
  /\ puller = "skipping"
  /\ snapshot' = Playlist
  /\ nextIndex' = LiveEdge
  /\ puller' = "pulling"
  /\ UNCHANGED <<ringVars, segmenterVars, playerVars, notified, played, seeks>>

(* The cursor's place in the new playlist.                                 *)
FromTheStart == 0
Untranslated == nextIndex
Translated == AtLeastZero(Cursor - Playlist.first)

(* The snapshot is used up: a new one, and a skip if the puller lags.      *)
Refresh ==
  /\ puller = "pulling" /\ nextIndex >= snapshot.len
  /\ snapshot' = Playlist
  /\ nextIndex' = IF Playlist.len - Translated > LagThreshold THEN LiveEdge ELSE Translated
  /\ UNCHANGED <<ringVars, segmenterVars, playerVars, notified, puller, played, seeks>>

Seek ==
  /\ puller = "pulling" /\ seeks < MaxSeeks
  /\ nextIndex' \in 0 .. snapshot.len - 1
  /\ played' = NoSeq
  /\ seeks' = seeks + 1
  /\ UNCHANGED <<ringVars, segmenterVars, playerVars, notified, puller, snapshot>>

(* Cmd::Close, a lost connection, or a pump that has gone.                 *)
PullerEnds ==
  /\ puller \in {"opening", "probing", "pulling", "skipping"}
  /\ puller' = "over"
  /\ UNCHANGED <<ringVars, segmenterVars, playerVars, notified>>
  /\ UNCHANGED <<snapshot, nextIndex, played, seeks>>

-----------------------------------------------------------------------------
Segmenter ==
  \/ StartSegment \/ MuxFrame \/ MuxFrameAndFlush \/ StopAtKeyframe
  \/ HangUp \/ MuxFails \/ CloseClassic \/ PushTrailingPart \/ CompleteSegment

Player(p) ==
  \/ Request(p) \/ Arm(p) \/ Recheck(p) \/ Park(p)
  \/ Wake(p) \/ TimeOut(p) \/ ServePlaylist(p)

Puller ==
  \/ OpenPlaylist \/ ProbeFirst \/ PullSegment \/ SkipToLive \/ Refresh
  \/ Seek \/ PullerEnds

Next == Segmenter \/ Puller \/ \E p \in Players : Player(p)

(* The worker is a task of its own; its fetches end or time out.           *)
Fairness ==
  WF_vars(OpenPlaylist \/ ProbeFirst \/ PullSegment \/ SkipToLive \/ Refresh)

Spec == Init /\ [][Next]_vars /\ Fairness

-----------------------------------------------------------------------------
(* The shape of the state; the ring holds at most Capacity segments.       *)
TypeOK ==
  /\ segments \in Seq(Segment) /\ Len(segments) <= Capacity
  /\ nextSeq \in Nat /\ pendingParts \in Seq(Clip)
  /\ lowLatency \in BOOLEAN /\ segmenter \in SegmenterState
  /\ taken \in Nat /\ muxed \in Nat /\ drained \in Nat /\ localParts \in Seq(Clip)
  /\ reader \in [Players -> ReaderState]
  /\ want \in [Players -> [seq : Nat, part : Nat \cup {NoPart}]]
  /\ seen \in [Players -> [seq : Nat, part : Nat]]
  /\ notified \in [Players -> BOOLEAN]
  /\ puller \in PullerState /\ snapshot \in [first : Nat, len : Nat]
  /\ nextIndex \in Nat /\ played \in Nat \cup {NoSeq} /\ seeks \in 0 .. MaxSeeks

Abut(clips) == \A i \in 1 .. Len(clips) - 1 : clips[i + 1][1] = clips[i][2] + 1

(* "No frame is duplicated" (segmenter.rs:6-7), none is lost either: the   *)
(* bodies of successive segments, and the parts of each, tile the frames,  *)
(* whichever of the two a player fetches.                                  *)
FramesTile ==
  /\ Abut([i \in DOMAIN segments |-> segments[i].body])
  /\ lowLatency => \A i \in DOMAIN segments :
       LET s == segments[i] IN
         /\ s.parts # <<>> /\ Abut(s.parts)
         /\ s.body = <<s.parts[1][1], s.parts[Len(s.parts)][2]>>

(* A reload that sleeps, and has not been woken, names a position the ring *)
(* has not reached: no wake-up is lost between its look and its sleep.     *)
NoLostWakeUp ==
  \A p \in Players :
    reader[p] = "waiting" /\ ~notified[p] => ~HasReached(want[p].seq, want[p].part)

(* A part that could be fetched once can be fetched, with the same bytes,  *)
(* until its segment is evicted, also while the segment is completed.      *)
PartsStay ==
  [][\A s \in 0 .. nextSeq :
       \/ Evicted(s)'
       \/ \A i \in DOMAIN PartsOf(s) :
            i \in DOMAIN PartsOf(s)' /\ PartsOf(s)'[i] = PartsOf(s)[i]]_vars

(* The puller never delivers a segment twice, nor an older one after a     *)
(* newer one, unless its user seeks.                                       *)
PlaysForward ==
  [][PullSegment /\ puller' = "pulling" => played' > played]_vars

(* ... and when it gets a new playlist, its cursor moves only if it is     *)
(* further behind the live edge than LIVE_EDGE_LAG_THRESHOLD: a puller     *)
(* that keeps up leaves nothing out.                                       *)
SkipsOnlyWhenLagging ==
  [][(Refresh \/ SkipToLive) /\ Cursor' # Cursor
       => Cursor' > Cursor /\ nextSeq - Cursor > LagThreshold]_vars

(* Once the sender pauses, or ends, the puller gets to the last segment:   *)
(* 404s and skips do not keep it from the live edge.                       *)
CatchesUp ==
  <>[](played = nextSeq - 1 \/ puller \in {"empty", "notfound", "over"})
=============================================================================
