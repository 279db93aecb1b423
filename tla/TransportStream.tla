--------------------------- MODULE TransportStream ---------------------------
(***************************************************************************)
(* The MPEG-TS muxer of the sender and the demuxer of the HLS puller       *)
(* (muxer/src/mpeg_ts.rs, hls/src/puller/ts.rs), with the segments of the  *)
(* playlist between them.  The muxer outlives its segments and the demuxer *)
(* reads some of them: what it makes of a segment has to be what was muxed *)
(* into that segment, whatever it read before.  A packet is a piece of a   *)
(* unit; its bytes, stuffing and clock references are left out.            *)
(***************************************************************************)
EXTENDS Naturals, Sequences

CONSTANTS Counters,    \* values of a continuity counter (16)
          MaxPieces,   \* packets of the largest picture
          MaxUnits,    \* bound: pictures and audio frames muxed
          Kept         \* segments the playlist lists

ASSUME TransportAssumption ==
  /\ {Counters, MaxPieces, Kept} \subseteq Nat \ {0} /\ MaxUnits \in Nat

Streams == {"video", "audio"}
Pids == Streams \union {"pat", "pmt"}

VARIABLES wAudio,          \* has_external_audio or inject_silent_audio
          wCounter, wPsi,  \* the muxer: cc_pat, cc_pmt, cc_video, cc_audio; psi_emitted
          wOut, wUnits,    \* out; history: the units muxed since start_segment
          wNext,           \* bound; the number of the next unit
          wSegments, wSeq, \* the playlist: packets and units of a segment; media sequence
          xKnown,          \* the demuxer: the PIDs it has learnt
          xPes,            \* video_pes, audio_pes
          xAt, xGot        \* the segment read last, and what came of it

segmentVars == <<wCounter, wPsi, wOut, wUnits, wNext>>
playlistVars == <<wSegments, wSeq>>
demuxerVars == <<xKnown, xPes, xAt, xGot>>
transportVars == <<wAudio, segmentVars, playlistVars, demuxerVars>>

NoPes == [pid \in Streams |-> <<>>]

\* Type correctness of counters, playlist and assembly.
TransportTypeOK ==
  /\ wAudio \in BOOLEAN /\ wPsi \in BOOLEAN
  /\ wCounter \in [Pids -> 0 .. Counters - 1]
  /\ wNext \in 1 .. MaxUnits + 1 /\ Len(wSegments) <= Kept
  /\ xKnown \subseteq Pids /\ xPes = NoPes
  /\ xAt \in 0 .. wSeq

TransportInit ==
  /\ wAudio \in BOOLEAN
  /\ wCounter = [pid \in Pids |-> 0] /\ wPsi = FALSE /\ wOut = <<>> /\ wUnits = <<>> /\ wNext = 1
  /\ wSegments = <<>> /\ wSeq = 0
  /\ xKnown = {"pat"} /\ xPes = NoPes /\ xAt = 0 /\ xGot = <<>>

-----------------------------------------------------------------------------
\* The muxer.

\* write_pes_to_ts and write_psi_packet: the packets of a unit and the counter after them.
Packets(unit, counter) ==
  [i \in 1 .. unit.pieces |->
     [pid |-> unit.pid, unit |-> unit.unit, start |-> i = 1, piece |-> i,
      cc |-> (counter + i - 1) % Counters]]

Psi(pid) == [pid |-> pid, unit |-> 0, pieces |-> 1]

\* PAT and PMT come before the first unit of a segment.
Numbered(unit) == Packets(unit, wCounter[unit.pid])
Written(unit) ==
  IF wPsi THEN Numbered(unit) ELSE Numbered(Psi("pat")) \o Numbered(Psi("pmt")) \o Numbered(unit)

CountedAfter(unit, pid) ==
  IF pid = unit.pid THEN unit.pieces ELSE IF wPsi \/ pid \in Streams THEN 0 ELSE 1

Add(unit) ==
  /\ wNext <= MaxUnits /\ wNext' = wNext + 1
  /\ wOut' = wOut \o Written(unit)
  /\ wCounter' = [pid \in Pids |-> (wCounter[pid] + CountedAfter(unit, pid)) % Counters]
  /\ wPsi' = TRUE
  /\ wUnits' = Append(wUnits, unit)
  /\ UNCHANGED <<wAudio, playlistVars, demuxerVars>>

AddFrame(pieces) == Add([pid |-> "video", unit |-> wNext, pieces |-> pieces])

\* An audio frame fits a packet or two.  The segmenter muxes none before a segment's picture.
AddAudioFrame(pieces) ==
  wAudio /\ wUnits # <<>> /\ Add([pid |-> "audio", unit |-> wNext, pieces |-> pieces])

\* drain, the segment's publication, and start_segment: the counters and the watermark stay.
\* (Mutant: PAT and PMT once in the stream's life.)
PsiOnce == wPsi
PsiAgain == FALSE

CloseSegment ==
  /\ wUnits # <<>>
  /\ LET all == Append(wSegments, [packets |-> wOut, units |-> wUnits])
     IN  wSegments' = IF Len(all) > Kept THEN Tail(all) ELSE all
  /\ wSeq' = wSeq + 1
  /\ wOut' = <<>> /\ wUnits' = <<>> /\ wPsi' = PsiAgain
  /\ UNCHANGED <<wAudio, wCounter, wNext, demuxerVars>>

-----------------------------------------------------------------------------
\* The demuxer, packet by packet; a state of it is [known, pes, got].

\* A unit as it was assembled.
Emitted(state, pid) == IF state.pes[pid] = <<>> THEN state.got ELSE Append(state.got, state.pes[pid])

\* collect_pes: a new unit lets the one before it out; a piece that follows is appended, to
\* nothing if nothing was begun.
Collect(state, packet) ==
  IF packet.pid \notin state.known THEN state
  ELSE IF packet.start
       THEN [state EXCEPT !.got = Emitted(state, packet.pid), !.pes[packet.pid] = <<packet>>]
       ELSE [state EXCEPT !.pes[packet.pid] = Append(@, packet)]

\* parse_pat leads to the PMT, parse_pmt to the streams it lists.
Process(state, packet) ==
  IF packet.pid \notin state.known THEN state
  ELSE CASE packet.pid = "pat" -> [state EXCEPT !.known = @ \union {"pmt"}]
         [] packet.pid = "pmt" ->
              [state EXCEPT !.known = @ \union {"video"} \union (IF wAudio THEN {"audio"} ELSE {})]
         [] OTHER -> Collect(state, packet)

\* flush: video, then audio.
Flushed(state) ==
  LET video == Emitted(state, "video")
      both == Emitted([state EXCEPT !.got = video], "audio")
  IN  [known |-> state.known, pes |-> NoPes, got |-> both]

\* push and flush of a segment's bytes.
Demuxed(known, pes, packets) ==
  LET after[n \in 0 .. Len(packets)] ==
        IF n = 0 THEN [known |-> known, pes |-> pes, got |-> <<>>]
        ELSE Process(after[n - 1], packets[n])
  IN  Flushed(after[Len(packets)])

Segment(seq) == wSegments[Len(wSegments) - (wSeq - seq)]
Listed == (wSeq - Len(wSegments) + 1) .. wSeq

ReadSegment(seq, known, pes) ==
  LET state == Demuxed(known, pes, Segment(seq).packets)
  IN  /\ xKnown' = state.known /\ xPes' = state.pes /\ xGot' = state.got /\ xAt' = seq
      /\ UNCHANGED <<wAudio, segmentVars, playlistVars>>

\* The first of the segments still listed that it has not read, with the same demuxer; another one,
\* after a skip or a seek, with a new one.
PullNext ==
  /\ xAt > 0
  /\ \E seq \in Listed :
       /\ seq > xAt /\ \A s \in Listed : s > xAt => seq <= s
       /\ ReadSegment(seq, xKnown, xPes)
PullElsewhere(seq) == seq \in Listed /\ seq # xAt /\ ReadSegment(seq, {"pat"}, NoPes)

TransportNext ==
  \/ \E pieces \in 1 .. MaxPieces : AddFrame(pieces) \/ AddAudioFrame(pieces)
  \/ CloseSegment \/ PullNext
  \/ \E seq \in 1 .. MaxUnits : PullElsewhere(seq)

TransportSpec == TransportInit /\ [][TransportNext]_transportVars
-----------------------------------------------------------------------------
\* What was assembled is a unit, from its first packet to its last.
Whole(pieces, unit) ==
  /\ Len(pieces) = unit.pieces
  /\ \A i \in DOMAIN pieces :
       pieces[i].pid = unit.pid /\ pieces[i].unit = unit.unit /\ pieces[i].piece = i

\* With what it remembers or with nothing, the demuxer gets each stream's units of a segment out of
\* it, whole, once, in order (units are numbered as they are muxed).
PulledIsMuxed ==
  LET units == Segment(xAt).units
  IN  xAt \in Listed =>
        /\ \A u \in DOMAIN units : \E g \in DOMAIN xGot : Whole(xGot[g], units[u])
        /\ \A g \in DOMAIN xGot : \E u \in DOMAIN units : Whole(xGot[g], units[u])
        /\ \A g, h \in DOMAIN xGot :
             g < h /\ xGot[g][1].pid = xGot[h][1].pid => xGot[g][1].unit < xGot[h][1].unit

\* The packets of a PID in the listed segments and the open one, by segment and place in it.
PacketsIn(s) == IF s \in DOMAIN wSegments THEN wSegments[s].packets ELSE wOut
Places(pid) ==
  {at \in UNION {{s} \X DOMAIN PacketsIn(s) : s \in 1 .. Len(wSegments) + 1} :
     PacketsIn(at[1])[at[2]].pid = pid}
Before(p, q) == p[1] < q[1] \/ (p[1] = q[1] /\ p[2] < q[2])
CounterAt(p) == PacketsIn(p[1])[p[2]].cc

\* The counter of every PID runs on from one packet to the next, in a segment and from one segment
\* into the next.
CountersRun ==
  \A pid \in Pids : \A p, q \in Places(pid) :
    \/ ~Before(p, q)
    \/ \E r \in Places(pid) : Before(p, r) /\ Before(r, q)
    \/ CounterAt(q) = (CounterAt(p) + 1) % Counters

\* "An HLS concatenation of segments keeps cc strictly monotonic per PID" and every segment is
\* "independently decodable" (mpeg_ts.rs:7-9, 129-134): a segment can be played after its
\* predecessor, after a skip, or first of all, and gives what was muxed into it.
SegmentsSplice == PulledIsMuxed /\ CountersRun
=============================================================================
