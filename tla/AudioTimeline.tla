---------------------------- MODULE AudioTimeline ----------------------------
(***************************************************************************)
(* Sound and picture on one timeline: the HLS segmenter gives both a time  *)
(* since its first picture and the MPEG-TS muxer fills the audio PID with  *)
(* silence where the sound stays away (hls/src/segmenter.rs,               *)
(* muxer/src/mpeg_ts.rs).  A picture is stamped with the clock; the sound, *)
(* from its first sample on, with the samples counted since                *)
(* (capture/src/pipewire_audio.rs, encoder/src/aac/fdk_impl.rs).           *)
(***************************************************************************)
EXTENDS Integers, Sequences

CONSTANTS AudioFrame,    \* AAC_FRAME_TICKS_90K
          Jitter,        \* ticks the two roundings of a stamp may take off
          Tolerance,     \* AUDIO_PTS_TOLERANCE_90K
          Lag,           \* SILENT_INJECT_LAG_90K
          Burst,         \* SILENT_INJECT_MAX_PER_FRAME
          Stale,         \* MAX_AUDIO_STALENESS_US
          AudioRoom,     \* AUDIO_QUEUE_DEPTH
          MaxClock       \* bound: ticks

ASSUME TimelineAssumption ==
  /\ {AudioFrame, Burst, AudioRoom} \subseteq Nat \ {0}
  /\ {Jitter, Tolerance, Lag, Stale, MaxClock} \subseteq Nat
  /\ Jitter <= Tolerance /\ Jitter + Tolerance < AudioFrame
  /\ Stale + Jitter + AudioFrame <= Lag + Tolerance + 1

Unset == -1

VARIABLES yNow, yVideo,      \* the clock; the stamp of the last picture
          yFirst, yHeard,    \* when the first sample was captured, and the ticks of sound since
          yQueue,            \* encoded sound on its way to the segmenter: [stamp, done]
          yExternal,         \* has_external_audio, else inject_silent_audio
          yAnchor,           \* video_wall_anchor
          yMark, yLast       \* audio_pts_90k; the PTS last written to the audio PID

pictures == <<yNow, yVideo>>
sound == <<yFirst, yHeard, yQueue>>
muxer == <<yAnchor, yMark, yLast>>
timelineVars == <<pictures, sound, yExternal, muxer>>

Clock == 0 .. MaxClock

\* Type correctness of the clock, the queue and the muxer's watermark.
TimelineTypeOK ==
  /\ yNow \in Clock /\ yVideo \in Clock /\ yFirst \in Clock \union {Unset} /\ yHeard \in Clock
  /\ Len(yQueue) <= AudioRoom
  /\ \A i \in DOMAIN yQueue : yQueue[i] \in [stamp : Clock, done : Clock]
  /\ yExternal \in BOOLEAN /\ yAnchor \in Clock \union {Unset}
  /\ yMark \in Unset .. MaxClock + AudioFrame /\ yLast \in Unset .. MaxClock

TimelineInit ==
  /\ yNow = 0 /\ yVideo = 0 /\ yFirst = Unset /\ yHeard = 0 /\ yQueue = <<>>
  /\ yExternal \in BOOLEAN /\ yAnchor = Unset /\ yMark = Unset /\ yLast = Unset

AtLeastZero(n) == IF n < 0 THEN 0 ELSE n
Later(a, b) == IF a > b THEN a ELSE b

\* A tick without sound: the source is idle and PipeWire delivers nothing.
IdleTick ==
  /\ yNow < MaxClock /\ yNow' = yNow + 1
  /\ UNCHANGED <<yVideo, sound, yExternal, muxer>>

\* A tick of sound.  The encoder lets a frame out when it is full; send_audio_frame drops it when
\* the queue is.
SoundTick ==
  /\ yExternal /\ yNow < MaxClock /\ yNow' = yNow + 1
  /\ yFirst' = IF yFirst = Unset THEN yNow ELSE yFirst
  /\ yHeard' = yHeard + 1
  /\ yQueue' = IF yHeard' % AudioFrame = 0 /\ Len(yQueue) < AudioRoom
               THEN Append(yQueue, [stamp |-> yFirst' + yHeard' - AudioFrame, done |-> yNow'])
               ELSE yQueue
  /\ UNCHANGED <<yVideo, yExternal, muxer>>

-----------------------------------------------------------------------------
\* push_frame and the muxer's add_frame, with its silent frames.

Threshold(pts) == AtLeastZero(pts - Lag)
SilentFrames(start, threshold) ==
  IF start >= threshold THEN 0
  ELSE LET gap == (threshold - start + AudioFrame - 1) \div AudioFrame
       IN  IF gap < Burst THEN gap ELSE Burst

PictureMuxed(stamp) ==
  /\ stamp \in yVideo .. yNow
  /\ yVideo' = stamp
  /\ yAnchor' = IF yAnchor = Unset THEN stamp ELSE yAnchor
  /\ LET pts == stamp - yAnchor'
         start == IF yMark = Unset THEN Threshold(pts) ELSE yMark
         silent == SilentFrames(start, Threshold(pts))
     IN  /\ yMark' = start + silent * AudioFrame
         /\ yLast' = IF silent = 0 THEN yLast ELSE start + (silent - 1) * AudioFrame
  /\ UNCHANGED <<yNow, sound, yExternal>>

-----------------------------------------------------------------------------
\* push_audio_frame and the muxer's add_audio_frame.

PtsOf(frame, slack) == AtLeastZero(frame.stamp - yAnchor - slack)
\* (Mutant: no tolerance for the roundings.)
BehindAtAll(pts) == pts < yMark
Behind(pts) == pts + Tolerance < yMark

Fate(frame, slack) ==
  IF yAnchor = Unset THEN "early"
  ELSE IF yNow - frame.stamp > Stale THEN "stale"
  ELSE IF yMark # Unset /\ Behind(PtsOf(frame, slack)) THEN "behind"
  ELSE "muxed"

\* (Mutant: real sound leaves the watermark to the silence.)
MarkKept(pts) == yMark
MarkAfter(pts) == Later(pts + AudioFrame, yMark)

TakeSound(slack) ==
  /\ yQueue # <<>>
  /\ yQueue' = Tail(yQueue)
  /\ LET frame == Head(yQueue) IN
     IF Fate(frame, slack) = "muxed"
     THEN yLast' = PtsOf(frame, slack) /\ yMark' = MarkAfter(PtsOf(frame, slack))
     ELSE UNCHANGED <<yLast, yMark>>
  /\ UNCHANGED <<pictures, yFirst, yHeard, yExternal, yAnchor>>

\* A reconnect: another segmenter and another muxer; capture and encoder go on, and what was
\* encoded waits for the new session or is lost with the old one.
NextSession ==
  /\ yAnchor # Unset
  /\ yAnchor' = Unset /\ yMark' = Unset /\ yLast' = Unset /\ yQueue' \in {<<>>, yQueue}
  /\ UNCHANGED <<pictures, yFirst, yHeard, yExternal>>

TimelineNext ==
  \/ IdleTick \/ SoundTick \/ NextSession
  \/ \E stamp \in Clock : PictureMuxed(stamp)
  \/ \E slack \in 0 .. Jitter : TakeSound(slack)

TimelineSpec == TimelineInit /\ [][TimelineNext]_timelineVars
-----------------------------------------------------------------------------
\* "A real frame that survives this filter is still in the window the muxer will accept"
\* (segmenter.rs:800): silence never takes the place of sound that is on time, nor does the frame
\* before it.  Only the first frame after the first picture may be lost, to one captured before the
\* picture, whose negative time becomes 0 and which the watermark lets in.
FreshSoundFits ==
  yQueue # <<>> =>
    \A slack \in 0 .. Jitter :
      Fate(Head(yQueue), slack) = "behind" => Head(yQueue).stamp < yAnchor + AudioFrame

\* Sound and silence never cross on the audio PID: what is written next is later than all before.
AudioPidRises == [][yLast # Unset /\ yLast' # Unset /\ yLast' # yLast => yLast' > yLast]_timelineVars

\* Only backlog is stale (segmenter.rs:745-756, 795-800): a frame taken when its last sample has
\* just been captured is not dropped for its age.
OnlyBacklogIsStale ==
  yQueue # <<>> /\ Head(yQueue).done = yNow => Fate(Head(yQueue), 0) # "stale"
=============================================================================
