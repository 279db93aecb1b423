----------------------------- MODULE SegmentRing -----------------------------
(***************************************************************************)
(* The ring of MPEG-TS segments the HLS server keeps for its live playlist *)
(* (src/crates/hls/src/ring.rs): the segmenter appends to it, the HTTP     *)
(* handlers read it, each under one RwLock. Bytes are stood for by a Clip, *)
(* the first and the last video frame they carry.                          *)
(***************************************************************************)
EXTENDS Integers, Sequences

CONSTANTS
  Capacity,   (* segments the ring retains (keep_segments, 12 in the code)  *)
  NoPart      (* a blocking reload that names no part                       *)

ASSUME SegmentRingAssumption == Capacity \in Nat \ {0} /\ NoPart \notin Nat

VARIABLES
  segments,      (* the retained segments, oldest first                     *)
  nextSeq,       (* the media sequence number the next segment gets         *)
  pendingParts   (* parts published of the segment under construction       *)

ringVars == <<segments, nextSeq, pendingParts>>

Clip == Nat \X Nat
Segment == [seq : Nat, body : Clip, parts : Seq(Clip)]

RingInit == segments = <<>> /\ nextSeq = 0 /\ pendingParts = <<>>

PushPart(clip) ==
  /\ pendingParts' = Append(pendingParts, clip)
  /\ UNCHANGED <<segments, nextSeq>>

(* A full ring evicts its oldest segment.                                  *)
RetainedAndOne(s) == IF Len(s) > Capacity + 1 THEN Tail(s) ELSE s
Retained(s) == IF Len(s) > Capacity THEN Tail(s) ELSE s

LostParts == <<>>
TakenParts == pendingParts

Push(clip, parts) ==
  /\ segments' =
       Retained(Append(segments, [seq |-> nextSeq, body |-> clip, parts |-> parts]))
  /\ nextSeq' = nextSeq + 1
  /\ pendingParts' = <<>>

CompletePending(clip) == Push(clip, TakenParts)

Has(seq) == \E i \in DOMAIN segments : segments[i].seq = seq

PartsOf(seq) ==
  IF Has(seq) THEN segments[CHOOSE i \in DOMAIN segments : segments[i].seq = seq].parts
  ELSE IF seq = nextSeq THEN pendingParts ELSE <<>>

Evicted(seq) == ~Has(seq) /\ segments # <<>> /\ seq < Head(segments).seq

(* What a blocking reload of part 'part' of segment 'seq' waits for.       *)
HasReached(seq, part) ==
  \/ Has(seq) /\ (part = NoPart \/ part < Len(PartsOf(seq)))
  \/ seq = nextSeq /\ part # NoPart /\ part < Len(pendingParts)
  \/ seq # nextSeq /\ Evicted(seq)

(* What build_playlist tells of the segments: EXT-X-MEDIA-SEQUENCE and how *)
(* many entries follow.                                                    *)
Playlist ==
  [first |-> IF segments = <<>> THEN 0 ELSE Head(segments).seq, len |-> Len(segments)]
=============================================================================
