---------------------------- MODULE FramePacing ----------------------------
(***************************************************************************)
(* The streaming loop's clock.  A capture delivers a frame when the screen *)
(* changes; when none comes within a frame period the last one goes out    *)
(* again under a later timestamp, unless sound is taken meanwhile, which   *)
(* starts the wait anew.  Keyframes are asked for by the clock and also    *)
(* come from the encoder's own count of frames.  Time is in ticks, a few   *)
(* of them to a frame period.                                              *)
(***************************************************************************)
EXTENDS Integers, Sequences

CONSTANTS Period,      \* frame_period
          Interval,    \* keyframe_interval, 2 s
          MaxEncode,   \* bound: the longest encode and send, in ticks
          Room,        \* frames a capture keeps for the loop
          MaxAway,     \* bound: the longest reconnect
          MaxTime      \* bound on the clock

ASSUME PacingAssumption == /\ Period \in Nat \ {0} /\ Interval \in Nat /\ Interval >= Period
                           /\ MaxEncode \in Nat /\ Room \in Nat \ {0} /\ MaxAway \in Nat /\ MaxTime \in Nat \ {0}

GopFrames == Interval \div Period

VARIABLES pNow, pSet,      \* Instant::now; how far the wall clock was set back since the start
          pQueue, pCopy,   \* stamps of the frames waiting in the capture and of the one it copies
          pPc, pUntil,     \* the loop: where it is, and until when
          pLast,           \* the stored frame's stamp, 0 for none
          pKeyAt, pAsked, pIndex, \* next_keyframe_at, the encoder's pending_keyframe and frame_idx
          pSent, pKeySent, \* history: the last stamp encoded, when the last keyframe was,
          pSlow, pSound    \* a repeated frame overtook the copy of the next one; sound has
                           \* restarted the wait since the last frame was encoded

keyVars == <<pKeyAt, pAsked, pIndex, pKeySent>>
pacingVars == <<pNow, pSet, pQueue, pCopy, pPc, pUntil, pLast, keyVars, pSent, pSlow, pSound>>

\* Type correctness of the loop's clock.
PacingTypeOK ==
  /\ pNow \in 1 .. MaxTime /\ pSet \in 0 .. 2
  /\ Len(pQueue) <= Room
  /\ pPc \in {"wait", "busy", "away", "fresh"} /\ pUntil \in 0 .. MaxTime + MaxEncode + MaxAway + Period
  /\ pAsked \in BOOLEAN /\ pIndex \in 0 .. GopFrames - 1 /\ pSlow \in BOOLEAN /\ pSound \in BOOLEAN

\* The loop starts with the frame the stream was negotiated with.
PacingInit ==
  /\ pNow = 1 /\ pSet = 0 /\ pQueue = <<1>> /\ pCopy = 0
  /\ pPc = "wait" /\ pUntil = 1 + Period /\ pLast = 0
  /\ pKeyAt = 1 /\ pAsked = FALSE /\ pIndex = 0
  /\ pSent = 0 /\ pKeySent = 1 /\ pSlow = FALSE /\ pSound = FALSE

\* A frame of the loop is due: it does not let the clock pass.
Waiting == pPc \in {"wait", "fresh"}
Due == \/ Waiting /\ (pQueue # <<>> \/ (pLast # 0 /\ pNow >= pUntil))
       \/ pPc \in {"busy", "away"} /\ pNow >= pUntil

Tick ==
  /\ pNow < MaxTime /\ ~Due
  /\ pNow' = pNow + 1
  /\ UNCHANGED <<pSet, pQueue, pCopy, pPc, pUntil, pLast, keyVars, pSent, pSlow, pSound>>

\* process: now_us, the time of day, is taken when the buffer is dequeued ...
CopyStarts ==
  /\ pCopy = 0 /\ (pQueue # <<>> => pQueue[Len(pQueue)] < pNow - pSet)
  /\ pCopy' = pNow - pSet
  /\ UNCHANGED <<pNow, pSet, pQueue, pPc, pUntil, pLast, keyVars, pSent, pSlow, pSound>>

\* ... and the frame offered when it has been copied; a channel with no room drops it.
Captured ==
  /\ pCopy # 0 /\ pCopy' = 0
  /\ pQueue' = IF Len(pQueue) < Room THEN Append(pQueue, pCopy) ELSE pQueue
  /\ UNCHANGED <<pNow, pSet, pPc, pUntil, pLast, keyVars, pSent, pSlow, pSound>>

\* The time of day is set back.
ClockSet ==
  /\ pSet = 0 /\ pNow > 2
  /\ pSet' = 2
  /\ UNCHANGED <<pNow, pQueue, pCopy, pPc, pUntil, pLast, keyVars, pSent, pSlow, pSound>>

\* The while loop over next_keyframe_at.
KeyAtTwice(now) == IF now >= pKeyAt THEN pKeyAt + ((now - pKeyAt) \div Interval + 2) * Interval ELSE pKeyAt
NextKeyAt(now) == IF now >= pKeyAt THEN pKeyAt + ((now - pKeyAt) \div Interval + 1) * Interval ELSE pKeyAt

\* The request by the clock, the encoder's decision, the stamp on the frame; the receiver may
\* answer with a PLI.
Encoded(stamp, length) ==
  LET asked == pAsked \/ pNow >= pKeyAt
      natural == pIndex = 0
  IN
  /\ pKeyAt' = NextKeyAt(pNow)
  /\ pKeySent' = IF natural \/ asked THEN pNow ELSE pKeySent
  /\ pAsked' \in {asked /\ natural, TRUE}
  /\ pIndex' = (pIndex + 1) % GopFrames
  /\ pSent' = stamp /\ pSound' = FALSE
  /\ pPc' = "busy" /\ pUntil' = pNow + length

\* next_frame answers in time.
TakeFrame(length) ==
  /\ Waiting /\ pQueue # <<>>
  /\ pLast' = Head(pQueue) /\ pQueue' = Tail(pQueue)
  /\ Encoded(Head(pQueue), length)
  /\ pSlow' = FALSE
  /\ UNCHANGED <<pNow, pSet, pCopy>>

\* bump_timestamp: a period in whole microseconds, never more than the period.
BumpedTwice == pLast + 2 * Period
Bumped == pLast + Period

\* The stored frame again, whether or not the next one is being copied.
Reemit(length) ==
  /\ Waiting /\ pQueue = <<>> /\ pLast # 0 /\ pNow >= pUntil
  /\ pLast' = Bumped
  /\ Encoded(Bumped, length)
  /\ pSlow' = (pSlow \/ pCopy # 0)
  /\ UNCHANGED <<pNow, pSet, pQueue, pCopy>>

\* The audio arm, polled before the frame: it passes on what is there, and the next turn waits a
\* whole period for a frame again.
SoundTaken ==
  /\ Waiting
  /\ pUntil' = pNow + Period /\ pSound' = TRUE
  /\ UNCHANGED <<pNow, pSet, pQueue, pCopy, pPc, pLast, keyVars, pSent, pSlow>>

\* The frame is sent: the next wait gets a whole period.
Sent ==
  /\ pPc = "busy" /\ pNow >= pUntil
  /\ pPc' = "wait" /\ pUntil' = pNow + Period
  /\ UNCHANGED <<pNow, pSet, pQueue, pCopy, pLast, keyVars, pSent, pSlow, pSound>>

\* The request for the next session's first frame.
AskedForSession == TRUE

\* The session died: the supervisor asks for a keyframe and reconnects, and nothing drains the capture.
SessionEnds(length) ==
  /\ pPc = "busy" /\ pNow >= pUntil
  /\ pAsked' = AskedForSession
  /\ pPc' = "away" /\ pUntil' = pNow + length
  /\ UNCHANGED <<pNow, pSet, pQueue, pCopy, pLast, pKeyAt, pIndex, pSent, pKeySent, pSlow, pSound>>

SessionResumes ==
  /\ pPc = "away" /\ pNow >= pUntil
  /\ pPc' = "fresh" /\ pUntil' = pNow + Period
  /\ UNCHANGED <<pNow, pSet, pQueue, pCopy, pLast, keyVars, pSent, pSlow, pSound>>

PacingNext ==
  \/ Tick \/ CopyStarts \/ Captured \/ ClockSet \/ Sent \/ SessionResumes \/ SoundTaken
  \/ \E length \in 0 .. MaxEncode : TakeFrame(length) \/ Reemit(length)
  \/ \E length \in 1 .. MaxAway : SessionEnds(length)

PacingSpec == PacingInit /\ [][PacingNext]_pacingVars

\* Real and repeated frames interleave, across encodes of any length, sound and reconnects: as
\* long as nobody sets the clock back, no frame is stamped before one already encoded, but for a
\* frame that was still being copied when the stored one was repeated before it.
TimestampsRise == [][pSet = 0 /\ pSet' = 0 => pSent' >= pSent \/ pSlow]_pacingVars

\* A keyframe at least every interval, give or take a frame period and an encode, while the
\* session lives and until sound restarts the wait: the clock's grid, the requests and the
\* encoder's own count together.  (The hardware encoders; x264 ignores requests.)
KeyframesInTime ==
  pPc \in {"wait", "busy"} /\ ~pSound => pNow <= pKeySent + Interval + Period + MaxEncode

\* The comment on bump_timestamp, "a synthetic monotonic timestamp": the stamps never fall.  That
\* of a frame whose copy was overtaken does.
StampsNeverFall == [][pSet = 0 /\ pSet' = 0 => pSent' >= pSent]_pacingVars

\* The comment on keyframe_interval, "this guarantees one even if the capture stalls between
\* segmenter ticks": a keyframe in time, whatever the capture does.  Sound every period keeps the
\* stored frame from being repeated.
KeyframeEvenIfStalled ==
  pPc \in {"wait", "busy"} => pNow <= pKeySent + Interval + Period + MaxEncode
=============================================================================
