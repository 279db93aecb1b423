-------------------------- MODULE TransportProofs --------------------------
(***************************************************************************)
(* Sound, from the capture to the wire: how far the encoder's stamps fall  *)
(* behind, for every chunk, capacity and loss; and the muxer's watermark,  *)
(* for every frame length, lag, burst, staleness limit and queue: silence  *)
(* makes room for sound that is on time, and what is written on the audio  *)
(* PID is later than all before.  The transport stream, for every          *)
(* number of counter values, size of a unit, length of playlist and number *)
(* of units: whichever segments the demuxer reads, and in which order, it  *)
(* gets out of each what was muxed into it.  Then the seven parts of a     *)
(* stream one beside another: what is proved of each alone holds where TLC *)
(* runs them together.                                                     *)
(***************************************************************************)
EXTENDS MCMedia, EncoderLoopProofs, FiniteSetTheorems, WellFoundedInduction, TLAPS

\* The state's shape, without its bounds.
TimelineShape ==
  /\ yNow \in Nat /\ yVideo \in Nat /\ yVideo <= yNow
  /\ yFirst \in Nat \union {Unset} /\ yHeard \in Nat
  /\ yQueue \in Seq([stamp : Int, done : Int]) /\ yExternal \in BOOLEAN
  /\ yAnchor \in Nat \union {Unset} /\ yMark \in Nat \union {Unset} /\ yLast \in Nat \union {Unset}
  /\ yAnchor = Unset <=> yMark = Unset

\* The stamp of the frame the encoder is filling, or would begin with the next sample.
NextStamp == IF yFirst = Unset THEN yNow ELSE yFirst + yHeard - (yHeard % AudioFrame)

\* Frames queue in the order they were captured in, without an overlap.
QueueInOrder ==
  /\ yFirst = Unset => yQueue = <<>> /\ yHeard = 0
  /\ \A i \in 1 .. Len(yQueue) : yQueue[i].stamp + AudioFrame <= NextStamp
  /\ \A i, j \in 1 .. Len(yQueue) : i < j => yQueue[i].stamp + AudioFrame <= yQueue[j].stamp

\* The watermark's two ways to come where it is: the frame before one stamped so, or silence.
Reach(now, anchor, stamp) ==
  Later(AtLeastZero(stamp - AudioFrame - anchor) + AudioFrame,
        AtLeastZero(now - anchor - Lag) + AudioFrame - 1)

\* The watermark leaves room for every frame queued and for the next one.
RoomForSound ==
  yMark # Unset =>
    /\ yMark <= Reach(yNow, yAnchor, NextStamp)
    /\ \A i \in 1 .. Len(yQueue) : yMark <= Reach(yNow, yAnchor, yQueue[i].stamp)

\* What was written last ends at the watermark or before.
WrittenBelow == yLast # Unset => yMark # Unset /\ yLast + AudioFrame <= yMark

TimelineInv == TimelineShape /\ QueueInOrder /\ RoomForSound /\ WrittenBelow
-----------------------------------------------------------------------------
LEMMA Division ==
  ASSUME NEW n \in Nat, NEW d \in Nat \ {0}
  PROVE  /\ n % d \in 0 .. d - 1 /\ n \div d \in Nat
         /\ n = d * (n \div d) + (n % d)
OBVIOUS

LEMMA NothingBetweenMultiples ==
  ASSUME NEW k \in Int, NEW d \in Nat \ {0}, d * k <= d, d * k > 0 - d
  PROVE  k \in {0, 1}
<1>1. ASSUME k >= 2 PROVE FALSE
  <2>1. d * k >= d * 2
    BY <1>1
  <2>2. QED
    BY <2>1
<1>2. ASSUME k <= -1 PROVE FALSE
  <2>1. d * k <= d * (-1)
    BY <1>2
  <2>2. QED
    BY <2>1
<1>3. QED
  BY <1>1, <1>2

LEMMA Constants ==
  /\ AudioFrame \in Nat /\ AudioFrame > 0 /\ Lag \in Nat
  /\ Jitter \in Nat /\ Tolerance \in Nat /\ Stale \in Nat
BY TimelineAssumption

LEMMA Entry == ASSUME NEW S, NEW q \in Seq(S), NEW i \in 1 .. Len(q) PROVE q[i] \in S
OBVIOUS

LEMMA Longer == ASSUME NEW S, NEW q \in Seq(S), NEW e \in S PROVE Append(q, e) \in Seq(S)
OBVIOUS

LEMMA StampsAreInts ==
  ASSUME NEW queue \in Seq([stamp : Int, done : Int])
  PROVE  \A i \in 1 .. Len(queue) : queue[i].stamp \in Int
<1> TAKE i \in 1 .. Len(queue)
<1>1. queue[i] \in [stamp : Int, done : Int]
  BY Entry
<1>2. QED
  BY <1>1

\* Counting on by one, in frames.
LEMMA CountedOn ==
  ASSUME NEW n \in Nat, NEW d \in Nat \ {0}
  PROVE  (n + 1) % d = IF n % d = d - 1 THEN 0 ELSE (n % d) + 1
<1> DEFINE q == n \div d
           r == n % d
           m == n + 1
           p == m \div d
           s == m % d
<1>1. /\ q \in Nat /\ r \in 0 .. d - 1 /\ n = d * q + r
  BY Division
<1>2. /\ p \in Nat /\ s \in 0 .. d - 1 /\ m = d * p + s
  <2>1. m \in Nat
    OBVIOUS
  <2> HIDE DEF m
  <2>2. QED
    BY <2>1, Division
<1> HIDE DEF q, r, p, s
<1>3. d * (p - q) = r + 1 - s
  BY <1>1, <1>2
<1>4. p - q \in {0, 1}
  BY <1>1, <1>2, <1>3, NothingBetweenMultiples
<1>5. CASE p - q = 0
  BY <1>1, <1>2, <1>3, <1>5 DEF r, s
<1>6. CASE p - q = 1
  <2>1. r + 1 - s = d
    BY <1>3, <1>6
  <2>2. r = d - 1 /\ s = 0
    BY <1>1, <1>2, <2>1
  <2>3. QED
    BY <2>2 DEF r, s
<1>7. QED
  BY <1>4, <1>5, <1>6

\* The watermark's reach grows with the clock and with the stamp.
LEMMA ReachIsInt ==
  ASSUME NEW now \in Int, NEW anchor \in Int, NEW stamp \in Int
  PROVE  Reach(now, anchor, stamp) \in Int
BY TimelineAssumption DEF Reach, Later, AtLeastZero

LEMMA ReachGrows ==
  ASSUME NEW now \in Nat, NEW then \in Nat, now <= then, NEW anchor \in Nat,
         NEW s \in Int, NEW t \in Int, s <= t
  PROVE  Reach(now, anchor, s) <= Reach(then, anchor, t)
BY TimelineAssumption DEF Reach, Later, AtLeastZero

\* Silence is put in up to less than a frame beyond the threshold.
LEMMA SilenceEnds ==
  ASSUME NEW start \in Nat, NEW threshold \in Nat
  PROVE  LET silent == SilentFrames(start, threshold) IN
         /\ silent \in Nat
         /\ silent # 0 => /\ silent >= 1 /\ start + silent * AudioFrame <= threshold + AudioFrame - 1
                         /\ (silent - 1) * AudioFrame = silent * AudioFrame - AudioFrame
                         /\ (silent - 1) * AudioFrame \in Nat
<1> USE TimelineAssumption
<1>1. CASE start >= threshold
  BY <1>1 DEF SilentFrames
<1>2. CASE start < threshold
  <2> DEFINE rest == threshold - start + AudioFrame - 1
             gap == rest \div AudioFrame
             silent == SilentFrames(start, threshold)
  <2>1. rest \in Nat /\ AudioFrame \in Nat \ {0} /\ rest >= AudioFrame
    BY <1>2
  <2>2. gap \in Nat /\ AudioFrame * gap <= rest
    <3> HIDE DEF rest
    <3>1. /\ rest % AudioFrame \in 0 .. AudioFrame - 1 /\ gap \in Nat
          /\ rest = AudioFrame * gap + (rest % AudioFrame)
      BY <2>1, Division
    <3>2. AudioFrame * gap \in Nat
      BY <2>1, <3>1
    <3> HIDE DEF gap
    <3>3. QED
      BY <2>1, <3>1, <3>2
  <2>3. silent = IF gap < Burst THEN gap ELSE Burst
    BY <1>2 DEF SilentFrames
  <2> HIDE DEF gap, silent
  <2>4. silent \in Nat /\ silent <= gap
    BY <2>2, <2>3
  <2>5. AudioFrame * silent <= AudioFrame * gap
    BY <2>1, <2>2, <2>4
  <2>6. silent # 0 => AudioFrame * (silent - 1) \in Nat
    BY <2>1, <2>4
  <2>7. QED
    BY <2>1, <2>2, <2>4, <2>5, <2>6 DEF silent
<1>3. QED
  BY <1>1, <1>2
-----------------------------------------------------------------------------
LEMMA RoomGrows ==
  ASSUME NEW now \in Nat, NEW then \in Nat, now <= then, NEW anchor \in Nat, NEW mark \in Int,
         NEW s \in Int, NEW t \in Int, s <= t, mark <= Reach(now, anchor, s)
  PROVE  mark <= Reach(then, anchor, t)
<1> DEFINE before == Reach(now, anchor, s)
           after == Reach(then, anchor, t)
<1>1. before \in Int /\ after \in Int
  BY ReachIsInt
<1>2. before <= after
  BY ReachGrows
<1>3. mark <= before
  OBVIOUS
<1> HIDE DEF before, after
<1>4. mark <= after
  BY <1>1, <1>2, <1>3
<1>5. QED
  BY <1>4 DEF after

\* A frame of the next state's queue was queued before, or is stamped NextStamp or later.
QueuedOrNew(i) ==
  /\ yQueue'[i].stamp \in Int
  /\ \/ NextStamp <= yQueue'[i].stamp
     \/ \E j \in 1 .. Len(yQueue) : yQueue'[i].stamp = yQueue[j].stamp

\* While the clock goes on, the room for sound is kept.
LEMMA RoomKept ==
  ASSUME TimelineShape, RoomForSound, yNow' \in Nat, yNow <= yNow',
         yAnchor' = yAnchor, yMark' = yMark,
         NextStamp \in Int, NextStamp' \in Int, NextStamp <= NextStamp',
         \A i \in 1 .. Len(yQueue') : QueuedOrNew(i)
  PROVE  RoomForSound'
<1> SUFFICES ASSUME yMark # Unset
             PROVE  /\ yMark <= Reach(yNow', yAnchor, NextStamp')
                    /\ \A i \in 1 .. Len(yQueue') : yMark <= Reach(yNow', yAnchor, yQueue'[i].stamp)
  BY DEF RoomForSound
<1>1. yAnchor \in Nat /\ yMark \in Int /\ yNow \in Nat
  BY DEF TimelineShape, Unset
<1>2. /\ yMark <= Reach(yNow, yAnchor, NextStamp)
      /\ \A j \in 1 .. Len(yQueue) : yMark <= Reach(yNow, yAnchor, yQueue[j].stamp)
  BY DEF RoomForSound
<1>3. \A s \in Int : NextStamp <= s => yMark <= Reach(yNow', yAnchor, s)
  BY <1>1, <1>2, RoomGrows
<1>4. ASSUME NEW i \in 1 .. Len(yQueue') PROVE yMark <= Reach(yNow', yAnchor, yQueue'[i].stamp)
  <2> DEFINE s == yQueue'[i].stamp
  <2>1. s \in Int /\ (NextStamp <= s \/ \E j \in 1 .. Len(yQueue) : s = yQueue[j].stamp)
    BY <1>4 DEF QueuedOrNew
  <2> HIDE DEF s
  <2>2. CASE NextStamp <= s
    BY <1>3, <2>1, <2>2 DEF s
  <2>3. ASSUME NEW j \in 1 .. Len(yQueue), s = yQueue[j].stamp PROVE yMark <= Reach(yNow', yAnchor, s)
    <3>1. yMark <= Reach(yNow, yAnchor, s)
      BY <1>2, <2>3
    <3>2. QED
      BY <1>1, <2>1, <3>1, RoomGrows
  <2>4. QED
    BY <2>1, <2>2, <2>3 DEF s
<1>5. QED
  BY <1>3, <1>4

LEMMA StampIsInt == ASSUME TimelineShape PROVE NextStamp \in Int
<1>1. AudioFrame \in Nat \ {0}
  BY TimelineAssumption
<1>2. yHeard % AudioFrame \in 0 .. AudioFrame - 1
  BY <1>1, Division DEF TimelineShape
<1>3. QED
  BY <1>1, <1>2 DEF TimelineShape, NextStamp, Unset

LEMMA IdleKeeps == ASSUME TimelineInv, IdleTick PROVE TimelineInv'
<1> USE DEF TimelineInv, IdleTick, sound, muxer
<1>1. TimelineShape'
  BY DEF TimelineShape
<1>2. NextStamp \in Int /\ NextStamp' \in Int /\ NextStamp <= NextStamp'
  <2>1. NextStamp \in Int
    BY StampIsInt
  <2>2. NextStamp' = IF yFirst = Unset THEN NextStamp + 1 ELSE NextStamp
    BY DEF NextStamp
  <2>3. QED
    BY <2>1, <2>2
<1>3. QueueInOrder'
  <2>1. yQueue' = yQueue /\ yFirst' = yFirst /\ yHeard' = yHeard
    OBVIOUS
  <2>2. ASSUME NEW i \in 1 .. Len(yQueue) PROVE yQueue[i].stamp + AudioFrame <= NextStamp'
    <3>1. yQueue[i].stamp \in Int /\ AudioFrame \in Nat
      BY Constants, StampsAreInts DEF TimelineShape
    <3>2. yQueue[i].stamp + AudioFrame <= NextStamp
      BY DEF QueueInOrder
    <3>3. QED
      BY <1>2, <3>1, <3>2
  <2>3. QED
    BY <2>1, <2>2 DEF QueueInOrder
<1>4. RoomForSound'
  <2>1. \A i \in 1 .. Len(yQueue') : QueuedOrNew(i)
    <3>1. yQueue' = yQueue /\ \A i \in 1 .. Len(yQueue) : yQueue[i].stamp \in Int
      BY StampsAreInts DEF TimelineShape
    <3>2. QED
      BY <3>1 DEF QueuedOrNew
  <2>2. yNow \in Nat /\ yNow' \in Nat /\ yNow <= yNow' /\ yAnchor' = yAnchor /\ yMark' = yMark
    BY DEF TimelineShape
  <2>3. QED
    BY <1>2, <2>1, <2>2, RoomKept
<1>5. WrittenBelow'
  BY DEF WrittenBelow
<1>6. QED
  BY <1>1, <1>3, <1>4, <1>5

LEMMA SoundKeeps == ASSUME TimelineInv, SoundTick PROVE TimelineInv'
<1> DEFINE first == yFirst'
           heard == yHeard + 1
           phase == yHeard % AudioFrame
           new == [stamp |-> first + heard - AudioFrame, done |-> yNow']
<1>1. /\ TimelineShape /\ QueueInOrder /\ RoomForSound /\ WrittenBelow
      /\ yNow' = yNow + 1 /\ yHeard' = heard /\ first = IF yFirst = Unset THEN yNow ELSE yFirst
      /\ yVideo' = yVideo /\ yExternal' = yExternal
      /\ yAnchor' = yAnchor /\ yMark' = yMark /\ yLast' = yLast
      /\ \/ yQueue' = yQueue
         \/ heard % AudioFrame = 0 /\ yQueue' = Append(yQueue, new)
  BY DEF TimelineInv, SoundTick, muxer
<1>2. /\ yNow \in Nat /\ yHeard \in Nat /\ yFirst \in Nat \union {Unset}
      /\ yQueue \in Seq([stamp : Int, done : Int])
  BY <1>1 DEF TimelineShape
<1>3. first \in Nat /\ heard \in Nat /\ yNow' \in Nat
  BY <1>1, <1>2
<1>4. /\ phase \in 0 .. AudioFrame - 1
      /\ heard % AudioFrame = IF phase = AudioFrame - 1 THEN 0 ELSE phase + 1
  <2>1. AudioFrame \in Nat \ {0} /\ yHeard \in Nat
    BY <1>2, Constants
  <2>2. phase \in 0 .. AudioFrame - 1
    BY <2>1, Division
  <2>3. heard % AudioFrame = IF phase = AudioFrame - 1 THEN 0 ELSE phase + 1
    BY <2>1, CountedOn
  <2>4. QED
    BY <2>2, <2>3
<1>5. NextStamp = first + yHeard - phase
  <2>1. CASE yFirst = Unset
    <3>1. yHeard = 0
      BY <1>1, <2>1 DEF QueueInOrder
    <3>2. 0 % AudioFrame = 0
      BY Constants
    <3>3. QED
      BY <1>1, <1>2, <2>1, <3>1, <3>2 DEF NextStamp
  <2>2. CASE yFirst # Unset
    BY <1>1, <2>2 DEF NextStamp
  <2>3. QED
    BY <2>1, <2>2
<1>6. NextStamp' = first + heard - (heard % AudioFrame)
  BY <1>1, <1>3 DEF NextStamp, Unset
<1>7. NextStamp' = IF phase = AudioFrame - 1 THEN NextStamp + AudioFrame ELSE NextStamp
  <2> HIDE DEF first, heard, phase
  <2>1. heard = yHeard + 1
    BY DEF heard
  <2>2. QED
    BY <1>2, <1>3, <1>4, <1>5, <1>6, <2>1, Constants
<1>8. NextStamp \in Int /\ NextStamp' \in Int /\ NextStamp <= NextStamp'
  BY <1>1, <1>7, StampIsInt, Constants
<1>9. yQueue' = yQueue \/ (yQueue' = Append(yQueue, new) /\ new.stamp = NextStamp
                           /\ new \in [stamp : Int, done : Int] /\ NextStamp' = NextStamp + AudioFrame)
  <2>1. SUFFICES ASSUME heard % AudioFrame = 0
                 PROVE  /\ new.stamp = NextStamp /\ new \in [stamp : Int, done : Int]
                        /\ NextStamp' = NextStamp + AudioFrame
    BY <1>1
  <2>2. phase = AudioFrame - 1
    BY <1>4, <2>1, Constants
  <2>3. QED
    BY <1>2, <1>3, <1>5, <1>7, <2>2, Constants
<1> HIDE DEF first, heard, phase, new
<1>10. \A i \in 1 .. Len(yQueue) : yQueue[i].stamp \in Int /\ yQueue[i].stamp + AudioFrame <= NextStamp
  BY <1>1, <1>2, StampsAreInts DEF QueueInOrder
<1>11. TimelineShape'
  <2>1. yQueue' \in Seq([stamp : Int, done : Int])
    BY <1>2, <1>9, Longer
  <2>2. QED
    BY <1>1, <1>2, <1>3, <2>1 DEF TimelineShape, first
<1>12. QueueInOrder'
  <2>1. yFirst' # Unset
    BY <1>3 DEF first, Unset
  <2>2. CASE yQueue' = yQueue
    <3>1. \A i \in 1 .. Len(yQueue) : yQueue[i].stamp + AudioFrame <= NextStamp'
      BY <1>8, <1>10, Constants
    <3>2. QED
      BY <1>1, <2>1, <2>2, <3>1 DEF QueueInOrder
  <2>3. CASE /\ yQueue' = Append(yQueue, new) /\ new.stamp = NextStamp
             /\ NextStamp' = NextStamp + AudioFrame
    <3>1. /\ Len(yQueue') = Len(yQueue) + 1 /\ Len(yQueue) \in Nat
          /\ yQueue'[Len(yQueue) + 1] = new
          /\ \A i \in 1 .. Len(yQueue) : yQueue'[i] = yQueue[i]
      BY <1>2, <2>3
    <3>2. ASSUME NEW i \in 1 .. Len(yQueue') PROVE yQueue'[i].stamp + AudioFrame <= NextStamp'
      <4>1. CASE i = Len(yQueue) + 1
        BY <1>8, <2>3, <3>1, <4>1, Constants
      <4>2. CASE i \in 1 .. Len(yQueue)
        BY <1>8, <1>10, <3>1, <4>2, Constants
      <4>3. QED
        BY <3>1, <4>1, <4>2
    <3>3. ASSUME NEW i \in 1 .. Len(yQueue'), NEW j \in 1 .. Len(yQueue'), i < j
          PROVE  yQueue'[i].stamp + AudioFrame <= yQueue'[j].stamp
      <4>1. i \in 1 .. Len(yQueue) /\ yQueue'[i] = yQueue[i]
        BY <3>1, <3>3
      <4>2. CASE j = Len(yQueue) + 1
        BY <1>10, <2>3, <3>1, <4>1, <4>2
      <4>3. CASE j \in 1 .. Len(yQueue)
        BY <1>1, <3>1, <3>3, <4>1, <4>3 DEF QueueInOrder
      <4>4. QED
        BY <3>1, <4>2, <4>3
    <3>4. QED
      BY <2>1, <3>2, <3>3 DEF QueueInOrder
  <2>4. QED
    BY <1>9, <2>2, <2>3
<1>13. RoomForSound'
  <2>1. ASSUME NEW i \in 1 .. Len(yQueue') PROVE QueuedOrNew(i)
    <3>1. CASE yQueue' = yQueue
      BY <1>10, <3>1 DEF QueuedOrNew
    <3>2. CASE yQueue' = Append(yQueue, new) /\ new.stamp = NextStamp
      <4>1. CASE i = Len(yQueue) + 1
        BY <1>2, <1>8, <3>2, <4>1 DEF QueuedOrNew
      <4>2. CASE i \in 1 .. Len(yQueue)
        BY <1>2, <1>10, <3>2, <4>2 DEF QueuedOrNew
      <4>3. QED
        BY <1>2, <3>2, <4>1, <4>2
    <3>3. QED
      BY <1>9, <3>1, <3>2
  <2>2. yNow <= yNow'
    BY <1>1, <1>2
  <2>3. QED
    BY <1>1, <1>3, <1>8, <2>1, <2>2, RoomKept
<1>14. WrittenBelow'
  BY <1>1 DEF WrittenBelow
<1>15. QED
  BY <1>11, <1>12, <1>13, <1>14 DEF TimelineInv
LEMMA InitHolds == ASSUME TimelineInit PROVE TimelineInv
BY DEF TimelineInit, TimelineInv, TimelineShape, QueueInOrder, RoomForSound, WrittenBelow, Unset

\* The two ways to come within reach.
LEMMA SilenceReaches ==
  ASSUME NEW now \in Nat, NEW anchor \in Nat, NEW s \in Int, NEW mark \in Int,
         mark <= AtLeastZero(now - anchor - Lag) + AudioFrame - 1
  PROVE  mark <= Reach(now, anchor, s)
BY Constants DEF Reach, Later, AtLeastZero

LEMMA FrameReaches ==
  ASSUME NEW now \in Nat, NEW anchor \in Nat, NEW h \in Int, NEW s \in Int, NEW slack \in Nat,
         h + AudioFrame <= s
  PROVE  AtLeastZero(h - anchor - slack) + AudioFrame <= Reach(now, anchor, s)
BY Constants DEF Reach, Later, AtLeastZero

\* A picture's threshold is not beyond the clock's.
LEMMA ThresholdBelow ==
  ASSUME NEW now \in Nat, NEW anchor \in Nat, NEW stamp \in Nat, stamp <= now
  PROVE  /\ AtLeastZero(now - anchor - Lag) \in Nat /\ Threshold(stamp - anchor) \in Nat
         /\ Threshold(stamp - anchor) <= AtLeastZero(now - anchor - Lag)
BY Constants DEF Threshold, AtLeastZero

\* What a step that leaves clock, sound and queue alone keeps of the queue.
LEMMA QueueKept ==
  ASSUME QueueInOrder, yFirst' = yFirst, yHeard' = yHeard, yQueue' = yQueue, yNow' = yNow
  PROVE  QueueInOrder' /\ NextStamp' = NextStamp
BY DEF QueueInOrder, NextStamp

LEMMA PictureKeeps ==
  ASSUME TimelineInv, NEW stamp \in Clock, PictureMuxed(stamp) PROVE TimelineInv'
<1> DEFINE pts == stamp - yAnchor'
           threshold == Threshold(pts)
           start == IF yMark = Unset THEN threshold ELSE yMark
           silent == SilentFrames(start, threshold)
<1>1. /\ TimelineShape /\ QueueInOrder /\ RoomForSound /\ WrittenBelow
      /\ stamp \in yVideo .. yNow /\ yVideo' = stamp
      /\ yAnchor' = IF yAnchor = Unset THEN stamp ELSE yAnchor
      /\ yMark' = start + silent * AudioFrame
      /\ yLast' = IF silent = 0 THEN yLast ELSE start + (silent - 1) * AudioFrame
      /\ yNow' = yNow /\ yFirst' = yFirst /\ yHeard' = yHeard /\ yQueue' = yQueue
      /\ yExternal' = yExternal
  BY DEF TimelineInv, PictureMuxed, sound
<1>2. stamp \in Nat /\ stamp <= yNow /\ yNow \in Nat
  BY <1>1 DEF Clock, TimelineShape
<1>3. yAnchor' \in Nat /\ yAnchor' # Unset
  BY <1>1, <1>2 DEF TimelineShape, Unset
<1>4. /\ AtLeastZero(yNow - yAnchor' - Lag) \in Nat /\ threshold \in Nat
      /\ threshold <= AtLeastZero(yNow - yAnchor' - Lag)
  BY <1>2, <1>3, ThresholdBelow
<1>5. start \in Nat /\ (yMark = Unset => start = threshold)
  BY <1>1, <1>4 DEF TimelineShape
<1> HIDE DEF pts, threshold, start
<1>6. /\ silent \in Nat
      /\ silent # 0 => /\ silent >= 1 /\ start + silent * AudioFrame <= threshold + AudioFrame - 1
                       /\ (silent - 1) * AudioFrame = silent * AudioFrame - AudioFrame
                       /\ (silent - 1) * AudioFrame \in Nat
  BY <1>4, <1>5, SilenceEnds
<1> HIDE DEF silent
<1>7. /\ yMark' \in Nat /\ (silent = 0 => yMark' = start)
      /\ silent # 0 => /\ yMark' <= threshold + AudioFrame - 1
                       /\ yLast' \in Nat /\ yLast' + AudioFrame = yMark'
  <2>1. CASE silent = 0
    <3>1. silent * AudioFrame = 0
      BY <2>1, Constants
    <3>2. QED
      BY <1>1, <1>5, <2>1, <3>1
  <2>2. CASE silent # 0
    <3> DEFINE all == silent * AudioFrame
               before == (silent - 1) * AudioFrame
    <3>1. before \in Nat /\ before = all - AudioFrame /\ start + all <= threshold + AudioFrame - 1
      BY <1>6, <2>2
    <3>2. yMark' = start + all /\ yLast' = start + before
      BY <1>1, <2>2
    <3>3. all \in Int
      BY <1>6, Constants
    <3> HIDE DEF all, before
    <3>4. QED
      BY <1>5, <2>2, <3>1, <3>2, <3>3, Constants
  <2>3. QED
    BY <2>1, <2>2
<1>8. TimelineShape'
  <2>1. yMark' # Unset
    BY <1>7 DEF Unset
  <2>2. yLast' \in Nat \union {Unset}
    BY <1>1, <1>7 DEF TimelineShape
  <2>3. QED
    BY <1>1, <1>2, <1>3, <1>7, <2>1, <2>2 DEF TimelineShape
<1>9. QueueInOrder' /\ NextStamp' = NextStamp /\ NextStamp \in Int
  BY <1>1, QueueKept, StampIsInt
<1>10. RoomForSound'
  <2>1. CASE silent = 0 /\ yMark # Unset
    <3>1. yMark' = yMark /\ yAnchor' = yAnchor
      BY <1>1, <1>7, <2>1 DEF start, TimelineShape
    <3>2. QED
      BY <1>1, <1>9, <3>1 DEF RoomForSound
  <2>2. CASE silent # 0 \/ yMark = Unset
    <3>1. yMark' <= threshold + AudioFrame - 1
      BY <1>4, <1>5, <1>7, <2>2, Constants
    <3>2. yMark' <= AtLeastZero(yNow - yAnchor' - Lag) + AudioFrame - 1
      <4> DEFINE reached == AtLeastZero(yNow - yAnchor' - Lag)
      <4>1. reached \in Nat /\ threshold \in Nat /\ threshold <= reached
        BY <1>4
      <4> HIDE DEF reached
      <4>2. yMark' <= reached + AudioFrame - 1
        BY <1>7, <3>1, <4>1, Constants
      <4>3. QED
        BY <4>2 DEF reached
    <3>3. \A s \in Int : yMark' <= Reach(yNow, yAnchor', s)
      BY <1>2, <1>3, <1>7, <3>2, SilenceReaches
    <3>4. \A i \in 1 .. Len(yQueue) : yQueue[i].stamp \in Int
      BY <1>1, StampsAreInts DEF TimelineShape
    <3>5. QED
      BY <1>1, <1>9, <3>3, <3>4 DEF RoomForSound
  <2>3. QED
    BY <2>1, <2>2
<1>11. WrittenBelow'
  <2>1. yMark' # Unset
    BY <1>7 DEF Unset
  <2>2. CASE silent = 0
    <3>1. yLast' = yLast /\ (yMark # Unset => yMark' = yMark)
      BY <1>1, <1>7, <2>2 DEF start
    <3>2. QED
      BY <1>1, <2>1, <3>1 DEF WrittenBelow
  <2>3. CASE silent # 0
    BY <1>7, <2>1, <2>3, Constants DEF WrittenBelow
  <2>4. QED
    BY <2>2, <2>3
<1>12. QED
  BY <1>8, <1>9, <1>10, <1>11 DEF TimelineInv

LEMMA TakeKeeps ==
  ASSUME TimelineInv, NEW slack \in 0 .. Jitter, TakeSound(slack) PROVE TimelineInv'
<1> DEFINE frame == Head(yQueue)
           pts == PtsOf(frame, slack)
<1>1. /\ TimelineShape /\ QueueInOrder /\ RoomForSound /\ WrittenBelow
      /\ yQueue # <<>> /\ yQueue' = Tail(yQueue)
      /\ yNow' = yNow /\ yVideo' = yVideo /\ yFirst' = yFirst /\ yHeard' = yHeard
      /\ yExternal' = yExternal /\ yAnchor' = yAnchor
      /\ \/ yLast' = yLast /\ yMark' = yMark
         \/ yAnchor # Unset /\ yLast' = pts /\ yMark' = Later(pts + AudioFrame, yMark)
  BY DEF TimelineInv, TakeSound, Fate, MarkAfter, pictures
<1>2. /\ yNow \in Nat /\ yQueue \in Seq([stamp : Int, done : Int]) /\ slack \in Nat
  BY <1>1, Constants DEF TimelineShape
<1>3. /\ yQueue' \in Seq([stamp : Int, done : Int]) /\ Len(yQueue) \in Nat /\ Len(yQueue) >= 1
      /\ Len(yQueue') = Len(yQueue) - 1 /\ frame = yQueue[1]
      /\ \A i \in 1 .. Len(yQueue') : yQueue'[i] = yQueue[i + 1] /\ i + 1 \in 1 .. Len(yQueue)
  BY <1>1, <1>2
<1>4. \A i \in 1 .. Len(yQueue) : yQueue[i].stamp \in Int
  BY <1>2, StampsAreInts
<1>5. frame.stamp \in Int
  BY <1>3, <1>4
<1> HIDE DEF frame
<1>6. QueueInOrder' /\ NextStamp' = NextStamp /\ NextStamp \in Int
  <2>1. NextStamp' = NextStamp /\ NextStamp \in Int
    BY <1>1, StampIsInt DEF NextStamp
  <2>2. yFirst' # Unset
    BY <1>1 DEF QueueInOrder
  <2>3. \A i \in 1 .. Len(yQueue') : yQueue'[i].stamp + AudioFrame <= NextStamp'
    BY <1>1, <1>3, <2>1 DEF QueueInOrder
  <2>4. ASSUME NEW i \in 1 .. Len(yQueue'), NEW j \in 1 .. Len(yQueue'), i < j
        PROVE  yQueue'[i].stamp + AudioFrame <= yQueue'[j].stamp
    <3>1. /\ yQueue'[i] = yQueue[i + 1] /\ i + 1 \in 1 .. Len(yQueue)
          /\ yQueue'[j] = yQueue[j + 1] /\ j + 1 \in 1 .. Len(yQueue)
      BY <1>3
    <3>2. i + 1 < j + 1
      BY <1>3, <2>4
    <3>3. QED
      BY <1>1, <3>1, <3>2 DEF QueueInOrder
  <2>5. QED
    BY <2>1, <2>2, <2>3, <2>4 DEF QueueInOrder
\* The frames left, and the next one, follow the frame taken.
<1>7. /\ frame.stamp + AudioFrame <= NextStamp
      /\ \A i \in 1 .. Len(yQueue') :
           yQueue'[i].stamp \in Int /\ frame.stamp + AudioFrame <= yQueue'[i].stamp
  <2>1. 1 \in 1 .. Len(yQueue)
    BY <1>3
  <2>2. frame.stamp + AudioFrame <= NextStamp
    BY <1>1, <1>3, <2>1 DEF QueueInOrder
  <2>3. ASSUME NEW i \in 1 .. Len(yQueue')
        PROVE  yQueue'[i].stamp \in Int /\ frame.stamp + AudioFrame <= yQueue'[i].stamp
    <3>1. yQueue'[i] = yQueue[i + 1] /\ i + 1 \in 1 .. Len(yQueue) /\ 1 < i + 1
      BY <1>3, <2>3, SMTT(60)
    <3>2. QED
      BY <1>1, <1>3, <1>4, <2>1, <3>1 DEF QueueInOrder
  <2>4. QED
    BY <2>2, <2>3
<1>8. CASE yLast' = yLast /\ yMark' = yMark
  <2>1. TimelineShape' /\ WrittenBelow'
    BY <1>1, <1>3, <1>8 DEF TimelineShape, WrittenBelow
  <2>2. \A i \in 1 .. Len(yQueue') : QueuedOrNew(i)
    BY <1>3, <1>4, <1>7 DEF QueuedOrNew
  <2>3. yNow' \in Nat /\ yNow <= yNow' /\ NextStamp' \in Int /\ NextStamp <= NextStamp'
    BY <1>1, <1>2, <1>6
  <2>4. RoomForSound'
    BY <1>1, <1>6, <1>8, <2>2, <2>3, RoomKept
  <2>5. QED
    BY <1>6, <2>1, <2>4 DEF TimelineInv
<1>9. CASE yAnchor # Unset /\ yLast' = pts /\ yMark' = Later(pts + AudioFrame, yMark)
  <2>1. yAnchor \in Nat /\ yMark \in Nat
    BY <1>1, <1>9 DEF TimelineShape
  <2>2. pts \in Nat
    BY <1>2, <1>5, <2>1 DEF PtsOf, AtLeastZero
  <2>3. \A s \in Int : frame.stamp + AudioFrame <= s => pts + AudioFrame <= Reach(yNow, yAnchor, s)
    BY <1>2, <1>5, <2>1, FrameReaches DEF PtsOf
  <2> HIDE DEF pts
  <2>4. /\ yMark' \in Nat /\ yMark <= yMark' /\ pts + AudioFrame <= yMark'
        /\ yMark' \in {yMark, pts + AudioFrame} /\ yMark' # Unset
    BY <1>9, <2>1, <2>2, Constants DEF Later, Unset
  <2>5. TimelineShape'
    BY <1>1, <1>3, <1>9, <2>1, <2>2, <2>4 DEF TimelineShape
  <2>6. /\ yMark <= Reach(yNow, yAnchor, NextStamp)
        /\ \A i \in 1 .. Len(yQueue) : yMark <= Reach(yNow, yAnchor, yQueue[i].stamp)
    BY <1>1, <2>1 DEF RoomForSound, Unset
  <2>7. yMark' <= Reach(yNow, yAnchor, NextStamp)
    BY <1>6, <1>7, <2>3, <2>4, <2>6
  <2>8. ASSUME NEW i \in 1 .. Len(yQueue') PROVE yMark' <= Reach(yNow, yAnchor, yQueue'[i].stamp)
    <3>1. yMark <= Reach(yNow, yAnchor, yQueue'[i].stamp)
      BY <1>3, <2>6
    <3>2. QED
      BY <1>7, <2>3, <2>4, <3>1
  <2>9. RoomForSound'
    BY <1>1, <1>6, <2>7, <2>8 DEF RoomForSound
  <2>10. WrittenBelow'
    BY <1>9, <2>4 DEF WrittenBelow
  <2>11. QED
    BY <1>6, <2>5, <2>9, <2>10 DEF TimelineInv
<1>10. QED
  BY <1>1, <1>8, <1>9

LEMMA Nothing == ASSUME NEW S PROVE <<>> \in Seq(S)
OBVIOUS

LEMMA SessionKeeps == ASSUME TimelineInv, NextSession PROVE TimelineInv'
<1>1. /\ TimelineShape /\ QueueInOrder
      /\ yAnchor' = Unset /\ yMark' = Unset /\ yLast' = Unset /\ yQueue' \in {<<>>, yQueue}
      /\ yNow' = yNow /\ yVideo' = yVideo /\ yFirst' = yFirst /\ yHeard' = yHeard
      /\ yExternal' = yExternal
  BY DEF TimelineInv, NextSession, pictures
<1>2. TimelineShape'
  <2>1. yQueue' \in Seq([stamp : Int, done : Int])
    BY <1>1, Nothing DEF TimelineShape
  <2>2. QED
    BY <1>1, <2>1 DEF TimelineShape
<1>3. QueueInOrder'
  <2>1. CASE yQueue' = yQueue
    BY <1>1, <2>1, QueueKept
  <2>2. CASE yQueue' = <<>>
    BY <1>1, <2>2 DEF QueueInOrder
  <2>3. QED
    BY <1>1, <2>1, <2>2
<1>4. RoomForSound' /\ WrittenBelow'
  BY <1>1 DEF RoomForSound, WrittenBelow
<1>5. QED
  BY <1>2, <1>3, <1>4 DEF TimelineInv

LEMMA StepKeeps == ASSUME TimelineInv, [TimelineNext]_timelineVars PROVE TimelineInv'
<1>1. CASE UNCHANGED timelineVars
  BY <1>1 DEF timelineVars, pictures, sound, muxer, TimelineInv, TimelineShape, QueueInOrder,
              RoomForSound, WrittenBelow, NextStamp
<1>2. QED
  BY <1>1, IdleKeeps, SoundKeeps, PictureKeeps, TakeKeeps, SessionKeeps DEF TimelineNext

-----------------------------------------------------------------------------
\* Wherever pictures, sound and reconnects go (push_frame, push_audio_frame, add_frame,
\* add_audio_frame), the watermark is within the reach of every frame of sound still to come.
THEOREM TimelineInvariant == TimelineSpec => []TimelineInv
<1>1. TimelineInit => TimelineInv
  BY InitHolds
<1>2. TimelineInv /\ [TimelineNext]_timelineVars => TimelineInv'
  BY StepKeeps
<1>3. QED
  BY <1>1, <1>2, PTL DEF TimelineSpec

LEMMA RoomIsEnough == ASSUME TimelineInv PROVE FreshSoundFits
<1> SUFFICES ASSUME yQueue # <<>>, NEW slack \in 0 .. Jitter, Fate(Head(yQueue), slack) = "behind"
             PROVE  Head(yQueue).stamp < yAnchor + AudioFrame
  BY DEF FreshSoundFits
<1> DEFINE stamp == Head(yQueue).stamp
           pts == AtLeastZero(stamp - yAnchor - slack)
<1>1. TimelineShape /\ RoomForSound
  BY DEF TimelineInv
<1>2. /\ yAnchor # Unset /\ ~(yNow - stamp > Stale) /\ yMark # Unset /\ pts + Tolerance < yMark
  BY DEF Fate, Behind, PtsOf
<1>3. yNow \in Nat /\ yAnchor \in Nat /\ yMark \in Nat /\ slack \in Nat /\ slack <= Jitter
  BY <1>1, <1>2, Constants DEF TimelineShape
<1>4. /\ Head(yQueue) = yQueue[1] /\ 1 \in 1 .. Len(yQueue)
  BY <1>1 DEF TimelineShape
<1>5. stamp \in Int
  BY <1>1, <1>4, StampsAreInts DEF TimelineShape
<1>6. yMark <= Reach(yNow, yAnchor, stamp)
  BY <1>1, <1>2, <1>4 DEF RoomForSound
<1> HIDE DEF stamp
<1>7. /\ Jitter <= Tolerance /\ Jitter + Tolerance < AudioFrame
      /\ Stale + Jitter + AudioFrame <= Lag + Tolerance + 1
  BY TimelineAssumption
<1>8. stamp < yAnchor + AudioFrame
  BY <1>2, <1>3, <1>5, <1>6, <1>7, Constants DEF Reach, Later, AtLeastZero
<1>9. QED
  BY <1>8 DEF stamp

\* Silence never takes the place of sound that is on time (segmenter.rs:800), whatever the frame
\* length, lag and staleness limit, as long as what is stale is not beyond the lag.
THEOREM SoundFits == TimelineSpec => []FreshSoundFits
<1>1. TimelineInv => FreshSoundFits
  BY RoomIsEnough
<1>2. QED
  BY <1>1, TimelineInvariant, PTL

\* A step's part of AudioPidRises.
Rises == yLast # Unset /\ yLast' # Unset /\ yLast' # yLast => yLast' > yLast

LEMMA SilenceRises ==
  ASSUME TimelineInv, NEW stamp \in Clock, PictureMuxed(stamp) PROVE Rises
<1> DEFINE pts == stamp - yAnchor'
           threshold == Threshold(pts)
           silent == SilentFrames(yMark, threshold)
<1> SUFFICES ASSUME yLast # Unset, yLast' # yLast PROVE yLast' > yLast
  BY DEF Rises
<1>1. TimelineShape /\ yMark # Unset /\ yLast + AudioFrame <= yMark
  BY DEF TimelineInv, WrittenBelow
<1>2. yMark \in Nat /\ yLast \in Nat /\ yAnchor \in Nat
  BY <1>1 DEF TimelineShape
<1>3. /\ stamp \in Nat /\ yAnchor' = yAnchor /\ silent # 0
      /\ yLast' = yMark + (silent - 1) * AudioFrame
  BY <1>1, <1>2 DEF PictureMuxed, Clock, TimelineShape
<1>4. threshold \in Nat
  BY <1>2, <1>3, Constants DEF Threshold, AtLeastZero
<1> HIDE DEF pts, threshold
<1>5. (silent - 1) * AudioFrame \in Nat
  BY <1>2, <1>3, <1>4, SilenceEnds
<1> DEFINE before == (silent - 1) * AudioFrame
<1>6. before \in Nat /\ yLast' = yMark + before
  BY <1>3, <1>5
<1> HIDE DEF before
<1>7. QED
  BY <1>1, <1>2, <1>6, Constants

LEMMA SoundRises ==
  ASSUME TimelineInv, NEW slack \in 0 .. Jitter, TakeSound(slack) PROVE Rises
<1> DEFINE frame == Head(yQueue)
           pts == PtsOf(frame, slack)
<1> SUFFICES ASSUME yLast # Unset, yLast' # yLast PROVE yLast' > yLast
  BY DEF Rises
<1>1. TimelineShape /\ yMark # Unset /\ yLast + AudioFrame <= yMark
  BY DEF TimelineInv, WrittenBelow
<1>2. yMark \in Nat /\ yLast \in Nat /\ yAnchor \in Nat
  BY <1>1 DEF TimelineShape
<1>3. yLast' = pts /\ ~(pts + Tolerance < yMark)
  BY <1>1 DEF TakeSound, Fate, Behind
<1>4. frame.stamp \in Int /\ slack \in Nat
  <2>1. yQueue # <<>> /\ yQueue \in Seq([stamp : Int, done : Int])
    BY <1>1 DEF TakeSound, TimelineShape
  <2>2. frame = yQueue[1] /\ 1 \in 1 .. Len(yQueue)
    BY <2>1
  <2>3. QED
    BY <2>1, <2>2, StampsAreInts, Constants
<1>5. pts \in Nat
  BY <1>2, <1>4 DEF PtsOf, AtLeastZero
<1>6. Tolerance < AudioFrame
  BY TimelineAssumption
<1> HIDE DEF pts
<1>7. QED
  BY <1>1, <1>2, <1>3, <1>5, <1>6, Constants

\* What the muxer writes on the audio PID, silence or sound, is later than all it wrote before.
THEOREM PidRises == TimelineSpec => AudioPidRises
<1>1. ASSUME TimelineInv, [TimelineNext]_timelineVars
      PROVE  [yLast # Unset /\ yLast' # Unset /\ yLast' # yLast => yLast' > yLast]_timelineVars
  <2>1. CASE UNCHANGED timelineVars
    BY <2>1
  <2>2. CASE IdleTick \/ SoundTick \/ NextSession
    BY <2>2 DEF IdleTick, SoundTick, NextSession, muxer
  <2>3. CASE \E stamp \in Clock : PictureMuxed(stamp)
    BY <1>1, <2>3, SilenceRises DEF Rises
  <2>4. CASE \E slack \in 0 .. Jitter : TakeSound(slack)
    BY <1>1, <2>4, SoundRises DEF Rises
  <2>5. QED
    BY <1>1, <2>1, <2>2, <2>3, <2>4 DEF TimelineNext
<1>2. QED
  BY <1>1, TimelineInvariant, PTL DEF TimelineSpec, AudioPidRises

-----------------------------------------------------------------------------
\* Sound lost between two positions, in samples, and the length of n chunks.
Lost(dropped, base, at) == {d \in dropped : base < d /\ d < at}
Loss(dropped, base, at) == Chunk * Cardinality(Lost(dropped, base, at))
Span(n) == Chunk * n

\* Where the encoder's stamps count from: the first chunk it took, or will take.
Base ==
  IF uAnchor # -1 THEN uAnchor ELSE IF uFrames # <<>> THEN uFrames[1].at ELSE uClock

\* The next chunk on its way to the encoder.
Frontier == IF uFrames # <<>> THEN uFrames[1].at ELSE uClock

Taken == uEmitted + uSwallowed + Len(uPcm)
Open == uTask # "ended"

\* The state's shape, without its bounds.
PathShape ==
  /\ uLoop \in {"off", "running", "ended"} /\ uTask \in {"off", "running", "ended"}
  /\ uShape \in 0 .. 2 /\ uEnc \in 0 .. 2
  /\ uClock \in Nat /\ uCounted \in Nat /\ uEmitted \in Nat /\ uSwallowed \in Nat
  /\ uAnchor \in Nat \union {-1}
  /\ uFrames \in Seq([at : Nat, stamp : Nat, shape : 1 .. 2]) /\ uPcm \in Seq(Nat)
  /\ uOut \in Seq([label : Nat, at : Nat, swallowed : Int])
  /\ uTx \in Seq([label : Nat, at : Nat, swallowed : Int]) /\ uQueue \in Seq([label : Nat, at : Nat, swallowed : Int])
  /\ uGaps \in SUBSET Nat /\ IsFiniteSet(uGaps)

\* Nothing is encoded before the first chunk is.
Phases ==
  /\ uTask = "off" => uClock = 0 /\ uCounted = 0 /\ uFrames = <<>> /\ uGaps = {} /\ uAnchor = -1
  /\ uLoop = "running" => uTask = "running"
  /\ uEnc = 0 <=> uAnchor = -1
  /\ uAnchor = -1 => uEmitted = 0 /\ uSwallowed = 0 /\ uPcm = <<>> /\ uOut = <<>> /\ uTx = <<>> /\ uQueue = <<>>
  /\ uAnchor # -1 /\ Open => uAnchor < Frontier

\* Until the encoder has its first chunk, nothing came before it: time and count begin with it.
FromTheStart ==
  uAnchor = -1 /\ Open =>
    IF uFrames = <<>> THEN uClock = 0 /\ uCounted = 0 ELSE uFrames[1].at = 0 /\ uFrames[1].stamp = 0

\* Chunks do not overlap, and are queued in the order they were captured in.
Apart ==
  /\ \A d \in uGaps : d + Chunk <= uClock
  /\ \A i \in 1 .. Len(uFrames) : uFrames[i].at + Chunk <= uClock
  /\ \A d \in uGaps : \A i \in 1 .. Len(uFrames) :
       d + Chunk <= uFrames[i].at \/ uFrames[i].at + Chunk <= d
  /\ \A i, j \in 1 .. Len(uFrames) : i < j => uFrames[i].at + Chunk <= uFrames[j].at

\* A chunk that waits starts where the samples taken, the chunks before it and those lost end.
InLine ==
  Open =>
    /\ \A i \in 1 .. Len(uFrames) :
         uFrames[i].at = Base + Taken + Span(i - 1) + Loss(uGaps, Base, uFrames[i].at)
    /\ uClock = Base + Taken + Span(Len(uFrames)) + Loss(uGaps, Base, uClock)

\* A sample behind the encoder, the k-th after its first.
OnTime(k, at) ==
  /\ at = Base + k + Loss(uGaps, Base, at)
  /\ Open => at < Frontier

InPcm == \A i \in 1 .. Len(uPcm) : OnTime(uEmitted + uSwallowed + i - 1, uPcm[i])
Heard(frame) == OnTime(frame.label - Base + frame.swallowed, frame.at)
AllHeard(queue) == \A i \in 1 .. Len(queue) : Heard(queue[i])

PathInv ==
  /\ PathShape /\ Phases /\ FromTheStart /\ Apart /\ InLine
  /\ InPcm /\ AllHeard(uOut) /\ AllHeard(uTx) /\ AllHeard(uQueue)
-----------------------------------------------------------------------------
LEMMA QueueEntry == ASSUME NEW S, NEW q \in Seq(S), NEW i \in 1 .. Len(q) PROVE q[i] \in S
OBVIOUS

LEMMA LostIsFinite ==
  ASSUME NEW dropped, IsFiniteSet(dropped), NEW base, NEW at
  PROVE  /\ IsFiniteSet(Lost(dropped, base, at))
         /\ Cardinality(Lost(dropped, base, at)) \in Nat
<1>1. Lost(dropped, base, at) \subseteq dropped
  BY DEF Lost
<1>2. IsFiniteSet(Lost(dropped, base, at))
  BY <1>1, FS_Subset
<1> QED
  BY <1>2, FS_CardinalityType

LEMMA LossType ==
  ASSUME NEW dropped, IsFiniteSet(dropped), NEW base, NEW at
  PROVE  Loss(dropped, base, at) \in Nat
<1>1. Cardinality(Lost(dropped, base, at)) \in Nat
  BY LostIsFinite
<1> QED
  BY <1>1, AudioAssumption DEF Loss

\* A chunk lost on the way to a sample moves it by a chunk ...
LEMMA OneMoreLost ==
  ASSUME NEW dropped \in SUBSET Nat, IsFiniteSet(dropped),
         NEW base \in Nat, NEW at \in Nat, NEW chunk \in Nat \ dropped, base < chunk, chunk < at
  PROVE  Loss(dropped \union {chunk}, base, at) = Loss(dropped, base, at) + Chunk
<1> DEFINE lost == Lost(dropped, base, at)
<1>1. Lost(dropped \union {chunk}, base, at) = lost \union {chunk} /\ chunk \notin lost
  BY DEF Lost
<1>2. IsFiniteSet(lost) /\ Cardinality(lost) \in Nat
  BY LostIsFinite
<1>3. Cardinality(lost \union {chunk}) = Cardinality(lost) + 1
  BY <1>1, <1>2, FS_AddElement
<1> HIDE DEF lost
<1>4. Chunk * (Cardinality(lost) + 1) = Chunk * Cardinality(lost) + Chunk
  BY <1>2, AudioAssumption
<1>5. Loss(dropped \union {chunk}, base, at) = Chunk * (Cardinality(lost) + 1)
  BY <1>1, <1>3 DEF Loss
<1> QED
  BY <1>4, <1>5 DEF Loss, lost

\* ... and one lost behind it does not.
LEMMA LostLater ==
  ASSUME NEW dropped \in SUBSET Nat, NEW base \in Nat, NEW at \in Nat,
         NEW chunk \in Nat, chunk >= at
  PROVE  Loss(dropped \union {chunk}, base, at) = Loss(dropped, base, at)
<1>1. Lost(dropped \union {chunk}, base, at) = Lost(dropped, base, at)
  BY DEF Lost
<1> QED
  BY <1>1 DEF Loss

LEMMA NothingLostBetween ==
  ASSUME NEW dropped \in SUBSET Nat, NEW base \in Nat, NEW at \in Nat, NEW later \in Nat,
         at <= later, \A d \in dropped : d < at \/ later <= d
  PROVE  Loss(dropped, base, at) = Loss(dropped, base, later)
<1>1. \A d \in dropped : d \in Nat /\ (d < at <=> d < later)
  OBVIOUS
<1>2. Lost(dropped, base, at) = Lost(dropped, base, later)
  BY <1>1 DEF Lost
<1> QED
  BY <1>2 DEF Loss

LEMMA ChunkLength == Chunk \in Nat /\ Chunk > 0
BY AudioAssumption

LEMMA Spans ==
  /\ Chunk \in Nat /\ Chunk > 0 /\ Span(0) = 0
  /\ \A n \in Nat : Span(n) \in Nat /\ Span(n + 1) = Span(n) + Chunk
BY AudioAssumption DEF Span

\* A sample stays on time while nothing is lost before it.
LEMMA StaysOnTime ==
  ASSUME NEW k, NEW at, OnTime(k, at), Base' = Base,
         Loss(uGaps', Base, at) = Loss(uGaps, Base, at),
         Open' => Open /\ (at < Frontier => at < Frontier')
  PROVE  OnTime(k, at)'
BY DEF OnTime

LEMMA PathBase ==
  ASSUME PathShape
  PROVE  Base \in Nat /\ Frontier \in Nat /\ Taken \in Nat
<1>1. uFrames # <<>> => uFrames[1] \in [at : Nat, stamp : Nat, shape : 1 .. 2]
  <2>1. uFrames # <<>> => 1 \in 1 .. Len(uFrames)
    BY DEF PathShape
  <2> QED
    BY <2>1, QueueEntry DEF PathShape
<1>2. Len(uPcm) \in Nat
  BY DEF PathShape
<1> QED
  BY <1>1, <1>2 DEF PathShape, Base, Frontier, Taken

LEMMA FrameOrder ==
  ASSUME PathShape, Apart
  PROVE  /\ Frontier <= uClock
         /\ \A i \in 1 .. Len(uFrames) : uFrames[i].at \in Nat /\ Frontier <= uFrames[i].at
<1>1. \A i \in 1 .. Len(uFrames) : uFrames[i].at \in Nat
  <2> TAKE i \in 1 .. Len(uFrames)
  <2>1. uFrames[i] \in [at : Nat, stamp : Nat, shape : 1 .. 2]
    BY QueueEntry DEF PathShape
  <2> QED
    BY <2>1
<1>2. CASE uFrames = <<>>
  BY <1>1, <1>2 DEF Frontier, PathShape
<1>3. CASE uFrames # <<>>
  <2>1. Len(uFrames) \in Nat /\ 1 \in 1 .. Len(uFrames) /\ Frontier = uFrames[1].at
    BY <1>3 DEF PathShape, Frontier
  <2>2. Frontier <= uClock
    <3>1. uFrames[1].at + Chunk <= uClock
      BY <2>1 DEF Apart
    <3>2. uFrames[1].at \in Nat /\ uClock \in Nat
      BY <1>1, <2>1 DEF PathShape
    <3>3. Chunk \in Nat
      BY AudioAssumption
    <3>4. uFrames[1].at <= uClock
      BY ONLY <3>1, <3>2, <3>3, SMT
    <3> QED
      BY <2>1, <3>4
  <2>3. ASSUME NEW i \in 1 .. Len(uFrames) PROVE Frontier <= uFrames[i].at
    <3>1. CASE i = 1
      BY <1>1, <2>1, <3>1
    <3>2. CASE 1 < i
      <4>1. 1 \in 1 .. Len(uFrames) /\ uFrames[1].at \in Nat /\ uFrames[i].at \in Nat
        BY <1>1, <2>1, <2>3 DEF PathShape
      <4>2. uFrames[1].at + Chunk <= uFrames[i].at
        BY <3>2, <4>1 DEF Apart
      <4>3. Chunk \in Nat
        BY AudioAssumption
      <4>4. uFrames[1].at <= uFrames[i].at
        BY ONLY <4>1, <4>2, <4>3, SMT
      <4> QED
        BY <2>1, <4>4
    <3> QED
      BY <2>1, <3>1, <3>2
  <2> QED
    BY <1>1, <2>2, <2>3
<1> QED
  BY <1>2, <1>3

LEMMA PathInit == AudioInit => PathInv
<1> SUFFICES ASSUME AudioInit PROVE PathInv
  OBVIOUS
<1>1. IsFiniteSet({}) /\ <<>> \in Seq([at : Nat, stamp : Nat, shape : 1 .. 2]) /\ <<>> \in Seq(Nat)
      /\ <<>> \in Seq([label : Nat, at : Nat, swallowed : Int])
  BY FS_EmptySet
<1>2. PathShape
  BY <1>1 DEF AudioInit, PathShape
<1>3. Phases /\ Apart /\ FromTheStart
  BY DEF AudioInit, Phases, Apart, Frontier, FromTheStart
<1>4. InPcm /\ AllHeard(uOut) /\ AllHeard(uTx) /\ AllHeard(uQueue)
  BY DEF AudioInit, InPcm, AllHeard
<1>5. InLine
  <2>1. Base = 0 /\ Taken = 0 /\ uFrames = <<>> /\ Len(uFrames) = 0 /\ uClock = 0 /\ uGaps = {}
    BY DEF AudioInit, Base, Taken
  <2>2. Loss({}, 0, 0) = 0
    <3>1. Lost({}, 0, 0) = {}
      BY DEF Lost
    <3>2. Cardinality({}) = 0 /\ Chunk * 0 = 0
      BY FS_EmptySet, AudioAssumption
    <3> QED
      BY <3>1, <3>2 DEF Loss
  <2> QED
    BY <2>1, <2>2, Spans DEF InLine
<1> QED
  BY <1>2, <1>3, <1>4, <1>5 DEF PathInv

-----------------------------------------------------------------------------
\* Frames of a queue that were heard before are still in place.
Still ==
  \A k \in Int, at \in Nat : OnTime(k, at) => OnTime(k, at)'

LEMMA QueueStill ==
  ASSUME NEW queue \in Seq([label : Nat, at : Nat, swallowed : Int]), AllHeard(queue), Still,
         Base \in Nat, Base' = Base
  PROVE  AllHeard(queue)'
<1>1. ASSUME NEW i \in 1 .. Len(queue) PROVE Heard(queue[i])'
  <2>1. queue[i] \in [label : Nat, at : Nat, swallowed : Int] /\ Heard(queue[i])
    BY <1>1, QueueEntry DEF AllHeard
  <2>2. queue[i].label - Base + queue[i].swallowed \in Int /\ queue[i].at \in Nat
    BY <2>1
  <2> QED
    BY <2>1, <2>2 DEF Heard, Still
<1> QED
  BY <1>1 DEF AllHeard

\* A queue that gives up its head, or gets a frame that was heard.
LEMMA Shorter ==
  ASSUME NEW S, NEW q \in Seq(S), q # <<>>
  PROVE  /\ Tail(q) \in Seq(S) /\ Len(Tail(q)) = Len(q) - 1 /\ Len(q) \in Nat
         /\ \A i \in 1 .. Len(Tail(q)) : Tail(q)[i] = q[i + 1] /\ i + 1 \in 1 .. Len(q)
         /\ Head(q) = q[1] /\ 1 \in 1 .. Len(q) /\ Head(q) \in S
OBVIOUS

LEMMA QueueTail ==
  ASSUME NEW queue \in Seq([label : Nat, at : Nat, swallowed : Int]), AllHeard(queue), queue # <<>>
  PROVE  AllHeard(Tail(queue)) /\ Heard(Head(queue))
BY Shorter DEF AllHeard

LEMMA QueueExtended ==
  ASSUME NEW S, NEW q \in Seq(S), NEW e \in S
  PROVE  /\ Append(q, e) \in Seq(S) /\ Len(Append(q, e)) = Len(q) + 1 /\ Len(q) \in Nat
         /\ \A i \in 1 .. Len(Append(q, e)) :
              Append(q, e)[i] = IF i <= Len(q) THEN q[i] ELSE e
OBVIOUS

LEMMA QueueLonger ==
  ASSUME NEW queue \in Seq([label : Nat, at : Nat, swallowed : Int]), AllHeard(queue),
         NEW frame \in [label : Nat, at : Nat, swallowed : Int], Heard(frame)
  PROVE  AllHeard(Append(queue, frame))
<1>1. /\ Len(Append(queue, frame)) = Len(queue) + 1 /\ Len(queue) \in Nat
      /\ \A i \in 1 .. Len(Append(queue, frame)) :
           Append(queue, frame)[i] = IF i <= Len(queue) THEN queue[i] ELSE frame
  BY QueueExtended
<1>2. ASSUME NEW i \in 1 .. Len(Append(queue, frame)) PROVE Heard(Append(queue, frame)[i])
  <2>1. CASE i <= Len(queue)
    <3>1. i \in 1 .. Len(queue) /\ Append(queue, frame)[i] = queue[i]
      BY <1>1, <2>1
    <3> QED
      BY <3>1 DEF AllHeard
  <2>2. CASE ~(i <= Len(queue))
    BY <1>1, <2>2
  <2> QED
    BY <2>1, <2>2
<1> QED
  BY <1>2 DEF AllHeard

LEMMA NoFrames == AllHeard(<<>>) /\ <<>> \in Seq([label : Nat, at : Nat, swallowed : Int])
BY DEF AllHeard

\* What a step leaves of the sound behind the encoder.
LEMMA SoundStill ==
  ASSUME PathInv, Still, Base' = Base, UNCHANGED <<uPcm, uEmitted, uSwallowed, uOut, uTx, uQueue>>
  PROVE  InPcm' /\ AllHeard(uOut)' /\ AllHeard(uTx)' /\ AllHeard(uQueue)'
<1> PathShape
  BY DEF PathInv
<1>1. InPcm'
  <2>1. ASSUME NEW i \in 1 .. Len(uPcm), NEW k, NEW at, k = uEmitted + uSwallowed + i - 1, at = uPcm[i]
        PROVE  OnTime(k, at)'
    <3>1. at \in Nat /\ k \in Int
      BY <2>1 DEF PathShape
    <3>2. OnTime(k, at)
      BY <2>1 DEF PathInv, InPcm
    <3> QED
      BY <3>1, <3>2 DEF Still
  <2> QED
    BY <2>1 DEF InPcm, OnTime
<1>2. ASSUME NEW queue \in Seq([label : Nat, at : Nat, swallowed : Int]), AllHeard(queue)
      PROVE  \A i \in 1 .. Len(queue) : Heard(queue[i])'
  BY <1>2, PathBase, QueueStill DEF AllHeard
<1>3. /\ uOut \in Seq([label : Nat, at : Nat, swallowed : Int]) /\ AllHeard(uOut)
      /\ uTx \in Seq([label : Nat, at : Nat, swallowed : Int]) /\ AllHeard(uTx)
      /\ uQueue \in Seq([label : Nat, at : Nat, swallowed : Int]) /\ AllHeard(uQueue)
  BY DEF PathInv, PathShape
<1> QED
  BY <1>1, <1>2, <1>3 DEF AllHeard, Heard

\* The encoder and its chunks left alone.
Quiet == UNCHANGED <<uClock, uCounted, uFrames, uEnc, uAnchor, uPcm, uEmitted, uSwallowed, uGaps>>

LEMMA QuietStill ==
  ASSUME PathInv, Quiet, Open' => Open
  PROVE  /\ Still /\ Base' = Base /\ Base \in Nat /\ Frontier' = Frontier /\ Taken' = Taken
         /\ FromTheStart' /\ Apart' /\ InLine' /\ InPcm'
<1>1. Base' = Base /\ Frontier' = Frontier /\ Taken' = Taken
  BY DEF Quiet, Base, Frontier, Taken
<1>2. Still
  BY <1>1 DEF Quiet, Still, OnTime
<1>3. FromTheStart' /\ Apart' /\ InLine'
  BY <1>1 DEF Quiet, PathInv, FromTheStart, Apart, InLine
<1>4. InPcm'
  BY <1>1 DEF Quiet, PathInv, InPcm, OnTime
<1>5. Base \in Nat
  BY PathBase DEF PathInv
<1> QED
  BY <1>1, <1>2, <1>3, <1>4, <1>5

\* The loop and the session pass on what is there, and take up nothing.
LEMMA QuietKeeps ==
  ASSUME PathInv, Quiet, Open' => Open,
         uLoop' \in {"off", "running", "ended"}, uTask' \in {"off", "running", "ended"},
         uShape' \in 0 .. 2, uTask' = "off" => uTask = "off", uLoop' = "running" => uTask' = "running",
         \/ UNCHANGED <<uOut, uTx, uQueue>>
         \/ uOut # <<>> /\ uTx' = Append(uTx, Head(uOut)) /\ uOut' = Tail(uOut) /\ uQueue' = uQueue
         \/ uOut' = uOut /\ uTx # <<>> /\ uTx' = Tail(uTx)
              /\ uQueue' \in {uQueue, Append(uQueue, Head(uTx))}
         \/ uOut' = uOut /\ uTx' = uTx /\ uQueue # <<>> /\ uQueue' = Tail(uQueue)
         \/ uOut' = uOut /\ uTx' = uTx /\ uQueue' = <<>>
  PROVE  PathInv'
<1> DEFINE F == [label : Nat, at : Nat, swallowed : Int]
<1>1. /\ uOut \in Seq(F) /\ uTx \in Seq(F) /\ uQueue \in Seq(F)
      /\ AllHeard(uOut) /\ AllHeard(uTx) /\ AllHeard(uQueue)
  BY DEF PathInv, PathShape
<1>2. /\ uOut' \in Seq(F) /\ uTx' \in Seq(F) /\ uQueue' \in Seq(F)
      /\ AllHeard(uOut') /\ AllHeard(uTx') /\ AllHeard(uQueue')
  <2>1. uOut # <<>> => Tail(uOut) \in Seq(F) /\ AllHeard(Tail(uOut)) /\ Head(uOut) \in F /\ Heard(Head(uOut))
    BY <1>1, Shorter, QueueTail
  <2>2. uTx # <<>> => Tail(uTx) \in Seq(F) /\ AllHeard(Tail(uTx)) /\ Head(uTx) \in F /\ Heard(Head(uTx))
    BY <1>1, Shorter, QueueTail
  <2>3. uQueue # <<>> => Tail(uQueue) \in Seq(F) /\ AllHeard(Tail(uQueue))
    BY <1>1, Shorter, QueueTail
  <2>4. uOut # <<>> => Append(uTx, Head(uOut)) \in Seq(F) /\ AllHeard(Append(uTx, Head(uOut)))
    BY <1>1, <2>1, QueueExtended, QueueLonger
  <2>5. uTx # <<>> => Append(uQueue, Head(uTx)) \in Seq(F) /\ AllHeard(Append(uQueue, Head(uTx)))
    BY <1>1, <2>2, QueueExtended, QueueLonger
  <2> HIDE DEF F
  <2> QED
    BY <1>1, <2>1, <2>2, <2>3, <2>4, <2>5, NoFrames DEF F
<1>3. /\ Still /\ Base' = Base /\ Base \in Nat /\ Frontier' = Frontier
      /\ FromTheStart' /\ Apart' /\ InLine' /\ InPcm'
  BY QuietStill
<1>4. AllHeard(uOut)' /\ AllHeard(uTx)' /\ AllHeard(uQueue)'
  <2>1. ASSUME NEW queue \in Seq(F), AllHeard(queue) PROVE AllHeard(queue)'
    BY <1>3, <2>1, QueueStill
  <2>2. \A queue \in Seq(F) : AllHeard(queue) =>
          \A i \in 1 .. Len(queue) : Heard(queue[i])'
    BY <2>1 DEF AllHeard
  <2> QED
    BY <1>2, <2>2 DEF AllHeard, Heard
<1>5. Phases'
  BY <1>1, <1>3 DEF Quiet, PathInv, Phases, Open
<1>6. PathShape'
  BY <1>2 DEF Quiet, PathInv, PathShape
<1> QED
  BY <1>3, <1>4, <1>5, <1>6 DEF PathInv

LEMMA QuietSteps ==
  ASSUME PathInv,
         \/ AudioStart \/ AudioLoopFails \/ (\E shape \in 1 .. 2 : AudioShape(shape))
         \/ SendCoded \/ PassOn \/ Bootstrapped \/ SegmenterTakes
         \/ AudioSessionLost \/ AudioReconnected \/ UNCHANGED audioVars
  PROVE  PathInv'
<1> PathShape /\ Phases
  BY DEF PathInv
<1> USE DEF Quiet, Open, callback, coder, session, audioVars, PathShape
<1>1. CASE AudioStart \/ AudioLoopFails
  <2>1. /\ Quiet /\ UNCHANGED <<uOut, uTx, uQueue, uShape>> /\ uTask' # "off"
        /\ Open' => Open
    BY <1>1 DEF AudioStart, AudioLoopFails, Phases
  <2>2. uLoop' \in {"off", "running", "ended"} /\ uTask' \in {"off", "running", "ended"}
        /\ (uLoop' = "running" => uTask' = "running")
    BY <1>1 DEF AudioStart, AudioLoopFails
  <2> QED
    BY <2>1, <2>2, QuietKeeps
<1>2. CASE \E shape \in 1 .. 2 : AudioShape(shape)
  <2>1. /\ Quiet /\ UNCHANGED <<uOut, uTx, uQueue, uTask, uLoop>> /\ uShape' \in 0 .. 2
    BY <1>2 DEF AudioShape
  <2> QED
    BY <2>1, QuietKeeps DEF Phases
<1>3. CASE SendCoded
  <2>1. /\ Quiet /\ UNCHANGED <<uTask, uLoop, uShape, uQueue>>
        /\ uOut # <<>> /\ uTx' = Append(uTx, Head(uOut)) /\ uOut' = Tail(uOut)
    BY <1>3 DEF SendCoded
  <2> QED
    BY <2>1, QuietKeeps DEF Phases
<1>4. CASE PassOn
  <2>1. /\ Quiet /\ UNCHANGED <<uTask, uLoop, uShape, uOut>>
        /\ uTx # <<>> /\ uTx' = Tail(uTx) /\ uQueue' \in {uQueue, Append(uQueue, Head(uTx))}
    BY <1>4 DEF PassOn
  <2> QED
    BY <2>1, QuietKeeps DEF Phases
<1>5. CASE SegmenterTakes
  <2>1. /\ Quiet /\ UNCHANGED <<uTask, uLoop, uShape, uOut, uTx>>
        /\ uQueue # <<>> /\ uQueue' = Tail(uQueue)
    BY <1>5 DEF SegmenterTakes
  <2> QED
    BY <2>1, QuietKeeps DEF Phases
<1>6. CASE AudioSessionLost
  <2>1. /\ Quiet /\ UNCHANGED <<uTask, uLoop, uShape, uOut, uTx>> /\ uQueue' = <<>>
    BY <1>6 DEF AudioSessionLost
  <2> QED
    BY <2>1, QuietKeeps DEF Phases
<1>7. CASE Bootstrapped \/ AudioReconnected \/ UNCHANGED audioVars
  <2>1. /\ Quiet /\ UNCHANGED <<uTask, uLoop, uShape, uOut, uTx, uQueue>>
    BY <1>7 DEF Bootstrapped, AudioReconnected
  <2> QED
    BY <2>1, QuietKeeps DEF Phases
<1> QED
  BY <1>1, <1>2, <1>3, <1>4, <1>5, <1>6, <1>7

\* The end: nothing is lost any more, whatever is still to be heard.
LEMMA EndKeeps ==
  ASSUME PathInv, TaskEnds \/ AudioStreamEnds
  PROVE  PathInv'
<1> PathShape /\ Phases /\ Apart
  BY DEF PathInv
<1> USE DEF callback, coder, session
<1>1. /\ UNCHANGED <<uClock, uCounted, uEnc, uAnchor, uPcm, uEmitted, uSwallowed, uGaps, uShape>>
      /\ uFrames' = <<>> /\ uTask' = "ended" /\ uLoop' = "ended"
      /\ uOut' \in {uOut, <<>>} /\ uTx' \in {uTx, <<>>} /\ uQueue' \in {uQueue, <<>>}
  BY DEF TaskEnds, AudioStreamEnds
<1>2. PathShape'
  <2>1. <<>> \in Seq([at : Nat, stamp : Nat, shape : 1 .. 2]) /\ <<>> \in Seq([label : Nat, at : Nat, swallowed : Int])
    OBVIOUS
  <2> QED
    BY <1>1, <2>1 DEF PathShape
<1>3. Apart' /\ InLine' /\ Phases' /\ FromTheStart'
  BY <1>1 DEF Apart, InLine, Phases, FromTheStart, Open
<1>4. CASE uAnchor = -1
  <2>1. uOut' = <<>> /\ uTx' = <<>> /\ uQueue' = <<>> /\ uPcm' = <<>>
    BY <1>1, <1>4 DEF Phases
  <2> QED
    BY <1>2, <1>3, <2>1 DEF PathInv, AllHeard, InPcm
<1>5. CASE uAnchor # -1
  <2>1. Base' = Base /\ Base \in Nat
    BY <1>1, <1>5, PathBase DEF Base
  <2>2. Still
    BY <1>1, <2>1 DEF Still, OnTime, Open
  <2>3. InPcm'
    <3>1. ASSUME NEW i \in 1 .. Len(uPcm), NEW k, NEW at, k = uEmitted + uSwallowed + i - 1, at = uPcm[i]
          PROVE  OnTime(k, at)'
      <4>1. at \in Nat /\ k \in Int
        BY <3>1 DEF PathShape
      <4>2. OnTime(k, at)
        BY <3>1 DEF PathInv, InPcm
      <4> QED
        BY <2>2, <4>1, <4>2 DEF Still
    <3> QED
      BY <1>1, <3>1 DEF InPcm, OnTime
  <2>4. AllHeard(uOut)' /\ AllHeard(uTx)' /\ AllHeard(uQueue)'
    <3>1. \A queue \in Seq([label : Nat, at : Nat, swallowed : Int]) : AllHeard(queue) =>
            \A i \in 1 .. Len(queue) : Heard(queue[i])'
      <4> TAKE queue \in Seq([label : Nat, at : Nat, swallowed : Int])
      <4>1. AllHeard(queue) => AllHeard(queue)'
        BY <2>1, <2>2, QueueStill
      <4> QED
        BY <4>1 DEF AllHeard
    <3>2. /\ uOut \in Seq([label : Nat, at : Nat, swallowed : Int]) /\ AllHeard(uOut)
          /\ uTx \in Seq([label : Nat, at : Nat, swallowed : Int]) /\ AllHeard(uTx)
          /\ uQueue \in Seq([label : Nat, at : Nat, swallowed : Int]) /\ AllHeard(uQueue)
      BY DEF PathInv, PathShape
    <3>3. ASSUME NEW q, q \in {uOut, uTx, uQueue, <<>>}
          PROVE  \A i \in 1 .. Len(q) : Heard(q[i])'
      BY <3>1, <3>2, <3>3, NoFrames
    <3> QED
      BY <1>1, <3>3 DEF AllHeard, Heard
  <2> QED
    BY <1>2, <1>3, <2>3, <2>4 DEF PathInv
<1> QED
  BY <1>4, <1>5

\* PipeWire's callback: a chunk is queued ...
LEMMA QueuedKeeps ==
  ASSUME PathInv, AudioProcess, Len(uFrames) < CaptureRoom
  PROVE  PathInv'
<1> DEFINE new == [at |-> uClock, stamp |-> uCounted, shape |-> IF uShape = 0 THEN 1 ELSE uShape]
           n == Len(uFrames)
<1> PathShape /\ Phases /\ FromTheStart /\ Apart /\ InLine
  BY DEF PathInv
<1>1. /\ uClock' = uClock + Chunk /\ uCounted' = uCounted + Chunk /\ uFrames' = Append(uFrames, new)
      /\ UNCHANGED <<uGaps, uLoop, uShape, uTask, uOut, uEnc, uAnchor, uPcm, uEmitted, uSwallowed, uTx, uQueue>>
      /\ uLoop = "running"
  BY DEF AudioProcess, coder, session
<1>2. new \in [at : Nat, stamp : Nat, shape : 1 .. 2] /\ new.at = uClock /\ new.stamp = uCounted
  BY DEF PathShape
<1> HIDE DEF new
<1>3. /\ uFrames' \in Seq([at : Nat, stamp : Nat, shape : 1 .. 2]) /\ Len(uFrames') = n + 1 /\ n \in Nat
      /\ \A i \in 1 .. Len(uFrames') : uFrames'[i] = IF i <= n THEN uFrames[i] ELSE new
      /\ uFrames' # <<>>
  <2>1. uFrames \in Seq([at : Nat, stamp : Nat, shape : 1 .. 2]) /\ uFrames' = Append(uFrames, new)
    BY <1>1 DEF PathShape
  <2>2. /\ uFrames' \in Seq([at : Nat, stamp : Nat, shape : 1 .. 2]) /\ Len(uFrames') = n + 1 /\ n \in Nat
        /\ \A i \in 1 .. Len(uFrames') : uFrames'[i] = IF i <= n THEN uFrames[i] ELSE new
    BY <1>2, <2>1, QueueExtended
  <2>3. uFrames' # <<>>
    BY <2>1
  <2> QED
    BY <2>2, <2>3
<1>4. uFrames = <<>> <=> n = 0
  BY DEF PathShape
<1> HIDE DEF n
<1>5. Base' = Base /\ Taken' = Taken /\ Frontier' = Frontier
  BY <1>1, <1>2, <1>3, <1>4 DEF Base, Taken, Frontier
<1>6. Base \in Nat /\ Frontier \in Nat /\ Taken \in Nat /\ uClock \in Nat /\ uGaps \in SUBSET Nat
  BY PathBase DEF PathShape
<1>7. PathShape'
  BY <1>1, <1>3, ChunkLength DEF PathShape
<1>8. Phases' /\ FromTheStart'
  <2>1. Phases'
    BY <1>1, <1>3, <1>5 DEF Phases, Open
  <2>2. FromTheStart'
    <3>1. CASE uFrames = <<>>
      <4>1. uFrames'[1] = new
        BY <1>3, <1>4, <3>1
      <4> QED
        BY <1>1, <1>2, <1>3, <3>1, <4>1 DEF FromTheStart, Open
    <3>2. CASE uFrames # <<>>
      <4>1. uFrames'[1] = uFrames[1]
        BY <1>3, <1>4, <3>2
      <4> QED
        BY <1>1, <1>3, <3>2, <4>1 DEF FromTheStart, Open
    <3> QED
      BY <3>1, <3>2
  <2> QED
    BY <2>1, <2>2
<1>9. /\ \A i \in 1 .. n : uFrames'[i].at = uFrames[i].at /\ uFrames[i].at \in Nat
      /\ uFrames'[n + 1].at = uClock
  BY <1>2, <1>3, FrameOrder DEF n
<1>10. Apart'
  <2>1. \A d \in uGaps : d + Chunk <= uClock /\ d \in Nat
    BY <1>6 DEF Apart
  <2>2. \A i \in 1 .. n : uFrames[i].at + Chunk <= uClock
    BY DEF Apart, n
  <2>3. \A i \in 1 .. n + 1 : i \in 1 .. n \/ i = n + 1
    BY <1>3
  <2>4. \A d \in uGaps : d + Chunk <= uClock'
    BY <1>1, <1>6, <2>1, ChunkLength
  <2>5. \A i \in 1 .. n + 1 : uFrames'[i].at + Chunk <= uClock'
    <3>1. \A i \in 1 .. n : uFrames'[i].at + Chunk <= uClock'
      <4> TAKE i \in 1 .. n
      <4>1. /\ uFrames'[i].at = uFrames[i].at /\ uFrames[i].at \in Nat
            /\ uFrames[i].at + Chunk <= uClock /\ uClock' = uClock + Chunk
        BY <1>1, <1>9, <2>2
      <4> QED
        BY <1>6, <4>1, ChunkLength
    <3>2. uFrames'[n + 1].at + Chunk <= uClock'
      BY <1>1, <1>6, <1>9, ChunkLength
    <3> QED
      BY <2>3, <3>1, <3>2
  <2>6. \A d \in uGaps : \A i \in 1 .. n + 1 :
          d + Chunk <= uFrames'[i].at \/ uFrames'[i].at + Chunk <= d
    BY <1>9, <2>1, <2>3 DEF Apart, n
  <2>7. \A i, j \in 1 .. n + 1 : i < j => uFrames'[i].at + Chunk <= uFrames'[j].at
    <3> TAKE i, j \in 1 .. n + 1
    <3>1. ASSUME j \in 1 .. n, i < j PROVE uFrames'[i].at + Chunk <= uFrames'[j].at
      <4>1. i \in 1 .. n
        BY <1>3, <3>1
      <4>2. uFrames[i].at + Chunk <= uFrames[j].at
        BY <3>1, <4>1 DEF Apart, n
      <4> QED
        BY <1>9, <3>1, <4>1, <4>2
    <3>2. ASSUME j = n + 1, i < j PROVE uFrames'[i].at + Chunk <= uFrames'[j].at
      <4>1. i \in 1 .. n
        BY <1>3, <3>2
      <4>2. uFrames[i].at + Chunk <= uClock
        BY <2>2, <4>1
      <4> QED
        BY <1>9, <3>2, <4>1, <4>2
    <3>3. j \in 1 .. n \/ j = n + 1
      BY <2>3
    <3> QED
      BY ONLY <3>1, <3>2, <3>3, Zenon
  <2> QED
    BY <1>1, <1>3, <2>4, <2>5, <2>6, <2>7 DEF Apart
<1>11. InLine'
  <2>1. Open /\ Open'
    BY <1>1 DEF Open, Phases
  <2>2. \A i \in 1 .. n :
          uFrames[i].at = Base + Taken + Span(i - 1) + Loss(uGaps, Base, uFrames[i].at)
    BY <2>1 DEF InLine, n
  <2>3. uClock = Base + Taken + Span(n) + Loss(uGaps, Base, uClock)
    BY <2>1 DEF InLine, n
  <2>4. Loss(uGaps, Base, uClock) = Loss(uGaps, Base, uClock + Chunk)
    <3>1. \A d \in uGaps : d < uClock
      BY <1>6, ChunkLength DEF Apart
    <3>2. uClock + Chunk \in Nat /\ uClock <= uClock + Chunk
      BY <1>6, ChunkLength
    <3> QED
      BY <1>6, <3>1, <3>2, NothingLostBetween
  <2>5. Span(n + 1) = Span(n) + Chunk /\ Span(n) \in Nat /\ Chunk \in Nat
    BY <1>3, Spans
  <2>6. Loss(uGaps, Base, uClock) \in Nat
    BY LossType DEF PathShape
  <2>7. uClock + Chunk = Base + Taken + Span(n + 1) + Loss(uGaps, Base, uClock + Chunk)
    BY <1>6, <2>3, <2>4, <2>5, <2>6, SMTT(60)
  <2>8. ASSUME NEW i \in 1 .. n + 1
        PROVE  uFrames'[i].at = Base + Taken + Span(i - 1) + Loss(uGaps, Base, uFrames'[i].at)
    <3>1. CASE i \in 1 .. n
      BY <1>9, <2>2, <3>1
    <3>2. CASE i = n + 1
      BY <1>3, <1>9, <2>3, <3>2
    <3> QED
      BY <1>3, <3>1, <3>2
  <2> QED
    BY <1>1, <1>3, <1>5, <2>7, <2>8 DEF InLine
<1>12. Still
  BY <1>1, <1>5 DEF Still, OnTime, Open
<1> QED
  BY <1>1, <1>5, <1>6, <1>7, <1>8, <1>10, <1>11, <1>12, SoundStill DEF PathInv

\* ... or time goes on without one.
LEMMA GapKeeps ==
  ASSUME PathInv, uLoop = "running", uFrames # <<>> \/ uAnchor # -1,
         uClock' = uClock + Chunk, uCounted' \in Nat, uGaps' = uGaps \union {uClock},
         UNCHANGED <<uFrames, uLoop, uShape, uTask, uOut, uEnc, uAnchor, uPcm, uEmitted, uSwallowed, uTx, uQueue>>
  PROVE  PathInv'
<1> PathShape /\ Phases /\ FromTheStart /\ Apart /\ InLine
  BY DEF PathInv
<1>1. /\ uClock' = uClock + Chunk /\ uGaps' = uGaps \union {uClock}
      /\ UNCHANGED <<uFrames, uLoop, uShape, uTask, uOut, uEnc, uAnchor, uPcm, uEmitted, uSwallowed, uTx, uQueue>>
      /\ uLoop = "running"
  OBVIOUS
<1>2. /\ Base \in Nat /\ Frontier \in Nat /\ Taken \in Nat /\ uClock \in Nat
      /\ uGaps \in SUBSET Nat /\ IsFiniteSet(uGaps) /\ Len(uFrames) \in Nat
      /\ Chunk \in Nat /\ Chunk > 0
  BY PathBase, ChunkLength DEF PathShape
<1>3. uFrames # <<>> => 1 \in 1 .. Len(uFrames)
  BY DEF PathShape
<1>4. /\ Base' = Base /\ Taken' = Taken /\ Open /\ Open'
      /\ Frontier' = IF uFrames = <<>> THEN uClock + Chunk ELSE Frontier
  BY <1>1 DEF Base, Taken, Frontier, Phases, Open
<1>5. \A i \in 1 .. Len(uFrames) : uFrames[i].at \in Nat /\ uFrames[i].at + Chunk <= uClock
  BY FrameOrder DEF Apart
<1>6. Frontier <= uClock /\ Frontier <= Frontier' /\ Frontier' \in Nat /\ Base < uClock
  <2>1. Frontier <= uClock
    BY FrameOrder
  <2>2. Frontier <= Frontier' /\ Frontier' \in Nat
    BY <1>2, <1>4, <2>1
  <2>3. Base < uClock
    <3>1. CASE uAnchor # -1
      BY <1>2, <1>4, <2>1, <3>1 DEF Base, Phases
    <3>2. CASE uAnchor = -1
      <4>1. uFrames # <<>> /\ Base = uFrames[1].at
        BY <3>2 DEF Base
      <4>2. uFrames[1].at \in Nat /\ uFrames[1].at + Chunk <= uClock
        BY <1>3, <1>5, <4>1
      <4> QED
        BY <1>2, <4>1, <4>2
    <3> QED
      BY <3>1, <3>2
  <2> QED
    BY <2>1, <2>2, <2>3
<1>7. \A d \in uGaps : d \in Nat /\ d + Chunk <= uClock
  BY <1>2 DEF Apart
<1>8. \A at \in Nat : at <= uClock => Loss(uGaps', Base, at) = Loss(uGaps, Base, at)
  BY <1>1, <1>2, LostLater
<1>9. Loss(uGaps', Base, uClock + Chunk) = Loss(uGaps, Base, uClock) + Chunk
  <2>1. uClock \in Nat \ uGaps
    BY <1>2, <1>7
  <2>2. uClock + Chunk \in Nat /\ uClock < uClock + Chunk
    BY <1>2
  <2>3. Loss(uGaps', Base, uClock + Chunk) = Loss(uGaps, Base, uClock + Chunk) + Chunk
    BY <1>1, <1>2, <1>6, <2>1, <2>2, OneMoreLost
  <2>4. \A d \in uGaps : d < uClock \/ uClock + Chunk <= d
    BY <1>2, <1>7
  <2>5. Loss(uGaps, Base, uClock) = Loss(uGaps, Base, uClock + Chunk)
    BY <1>2, <2>2, <2>4, NothingLostBetween
  <2> QED
    BY <2>3, <2>5
<1>10. PathShape'
  <2>1. uGaps' \in SUBSET Nat /\ IsFiniteSet(uGaps')
    BY <1>1, <1>2, FS_AddElement
  <2> QED
    BY <1>1, <1>2, <2>1 DEF PathShape
<1>11. Phases' /\ FromTheStart'
  <2>1. uAnchor' # -1 => uAnchor' < Frontier'
    BY <1>1, <1>2, <1>4, <1>6 DEF Phases, PathShape
  <2>2. uTask' # "off"
    BY <1>1 DEF Phases
  <2>3. Phases'
    BY <1>1, <2>1, <2>2 DEF Phases
  <2>4. FromTheStart'
    BY <1>1, <1>4 DEF FromTheStart
  <2> QED
    BY <2>3, <2>4
<1>12. Apart'
  <2>1. \A d \in uGaps' : d + Chunk <= uClock'
    BY <1>1, <1>2, <1>7
  <2>2. \A i \in 1 .. Len(uFrames) : uFrames[i].at + Chunk <= uClock'
    <3> TAKE i \in 1 .. Len(uFrames)
    <3>1. uFrames[i].at \in Nat /\ uFrames[i].at + Chunk <= uClock /\ uClock' = uClock + Chunk
      BY <1>1, <1>5
    <3> QED
      BY <1>2, <3>1
  <2>3. \A d \in uGaps' : \A i \in 1 .. Len(uFrames) :
          d + Chunk <= uFrames[i].at \/ uFrames[i].at + Chunk <= d
    BY <1>1, <1>5 DEF Apart
  <2> QED
    BY <1>1, <2>1, <2>2, <2>3 DEF Apart
<1>13. InLine'
  <2>1. \A i \in 1 .. Len(uFrames) : uFrames[i].at <= uClock /\ uFrames[i].at \in Nat
    BY <1>2, <1>5
  <2>2. \A i \in 1 .. Len(uFrames) :
          uFrames[i].at = Base + Taken + Span(i - 1) + Loss(uGaps', Base, uFrames[i].at)
    BY <1>4, <1>8, <2>1 DEF InLine
  <2>3. uClock = Base + Taken + Span(Len(uFrames)) + Loss(uGaps, Base, uClock)
    BY <1>4 DEF InLine
  <2>4. Span(Len(uFrames)) \in Nat /\ Loss(uGaps, Base, uClock) \in Nat
    BY <1>2, Spans, LossType
  <2>5. uClock' = Base + Taken + Span(Len(uFrames)) + Loss(uGaps', Base, uClock')
    <3>1. ASSUME NEW a \in Nat, NEW b \in Nat, NEW d \in Nat, NEW e \in Nat, NEW f \in Nat, NEW g \in Nat,
                 a = b + d + e + f
          PROVE  a + g = b + d + e + (f + g)
      BY <3>1
    <3>2. uClock \in Nat /\ Base \in Nat /\ Taken \in Nat /\ Chunk \in Nat
      BY <1>2
    <3>3. uClock + Chunk = Base + Taken + Span(Len(uFrames)) + (Loss(uGaps, Base, uClock) + Chunk)
      BY ONLY <3>1, <3>2, <2>3, <2>4, SMT
    <3> QED
      BY ONLY <1>1, <1>9, <3>3, Zenon
  <2> QED
    BY <1>1, <1>4, <2>2, <2>5 DEF InLine
<1>14. Still
  <2> SUFFICES ASSUME NEW k \in Int, NEW at \in Nat, OnTime(k, at) PROVE OnTime(k, at)'
    BY DEF Still
  <2>1. at < Frontier
    BY <1>4 DEF OnTime
  <2>2. at <= uClock /\ at < Frontier'
    BY <1>2, <1>6, <2>1
  <2> QED
    BY <1>4, <1>8, <2>2 DEF OnTime
<1> QED
  BY <1>1, <1>4, <1>10, <1>11, <1>12, <1>13, <1>14, SoundStill DEF PathInv

LEMMA DroppedKeeps ==
  ASSUME PathInv, AudioProcess, ~(Len(uFrames) < CaptureRoom)
  PROVE  PathInv'
<1>1. uFrames # <<>>
  <2>1. Len(<<>>) = 0
    OBVIOUS
  <2> QED
    BY <2>1, AudioAssumption
<1>2. uCounted' \in Nat
  BY ChunkLength DEF AudioProcess, PathInv, PathShape
<1> QED
  BY <1>1, <1>2, GapKeeps DEF AudioProcess, coder, session

\* A source that stands idle has delivered a chunk before: the encoder has taken it, or it waits.
LEMMA PauseKeeps == ASSUME PathInv, SourceIdle PROVE PathInv'
<1>1. uFrames # <<>> \/ uAnchor # -1
  <2>1. Open /\ uCounted > 0 /\ uCounted \in Nat
    BY DEF SourceIdle, PathInv, Phases, PathShape, Open
  <2>2. uCounted # 0
    BY <2>1
  <2> QED
    BY <2>1, <2>2 DEF PathInv, FromTheStart
<1>2. uCounted' \in Nat
  BY DEF SourceIdle, PathInv, PathShape
<1> QED
  BY <1>1, <1>2, GapKeeps DEF SourceIdle, coder, session

\* The queue of chunks after its head was taken.
LEMMA FramesTail ==
  ASSUME PathInv, Open, uFrames # <<>>, uFrames' = Tail(uFrames), uClock' = uClock
  PROVE  LET c == uFrames[1].at IN
         /\ c \in Nat /\ uFrames[1].shape \in 1 .. 2 /\ Frontier = c /\ uFrames[1] = Head(uFrames)
         /\ uFrames' \in Seq([at : Nat, stamp : Nat, shape : 1 .. 2])
         /\ Len(uFrames') = Len(uFrames) - 1 /\ Len(uFrames) \in Nat /\ 1 \in 1 .. Len(uFrames)
         /\ \A i \in 1 .. Len(uFrames') :
              /\ uFrames'[i] = uFrames[i + 1] /\ i + 1 \in 1 .. Len(uFrames)
              /\ uFrames'[i].at \in Nat /\ c + Chunk <= uFrames'[i].at
         /\ c + Chunk <= uClock /\ c + Chunk <= Frontier' /\ Frontier' \in Nat
         /\ c \notin uGaps
         /\ Base \in Nat /\ Base <= c
         /\ \A d \in uGaps : d \in Nat /\ (d + Chunk <= c \/ c + Chunk <= d)
<1> DEFINE c == uFrames[1].at
<1> PathShape /\ Phases /\ Apart
  BY DEF PathInv
<1>1. uFrames \in Seq([at : Nat, stamp : Nat, shape : 1 .. 2])
  BY DEF PathShape
<1>2. /\ uFrames' \in Seq([at : Nat, stamp : Nat, shape : 1 .. 2])
      /\ Len(uFrames') = Len(uFrames) - 1 /\ Len(uFrames) \in Nat /\ 1 \in 1 .. Len(uFrames)
      /\ \A i \in 1 .. Len(uFrames') : uFrames'[i] = uFrames[i + 1] /\ i + 1 \in 1 .. Len(uFrames)
      /\ uFrames[1] = Head(uFrames) /\ uFrames[1] \in [at : Nat, stamp : Nat, shape : 1 .. 2]
  BY <1>1, Shorter
<1>3. c \in Nat /\ uFrames[1].shape \in 1 .. 2 /\ Frontier = c
  BY <1>2 DEF Frontier
<1>4. \A i \in 1 .. Len(uFrames) : uFrames[i].at \in Nat
  BY FrameOrder
<1>5. ASSUME NEW i \in 1 .. Len(uFrames')
      PROVE  uFrames'[i].at \in Nat /\ c + Chunk <= uFrames'[i].at
  <2>1. uFrames'[i] = uFrames[i + 1] /\ i + 1 \in 1 .. Len(uFrames) /\ 1 < i + 1
    BY <1>2
  <2> QED
    BY <1>2, <1>4, <2>1 DEF Apart
<1>6. c + Chunk <= uClock
  BY <1>2 DEF Apart
<1>7. c + Chunk <= Frontier' /\ Frontier' \in Nat
  <2>1. CASE uFrames' = <<>>
    BY <1>6, <2>1 DEF Frontier, PathShape
  <2>2. CASE uFrames' # <<>>
    <3>1. 1 \in 1 .. Len(uFrames')
      BY <1>2, <2>2
    <3> QED
      BY <1>5, <2>2, <3>1 DEF Frontier
  <2> QED
    BY <2>1, <2>2
<1>8. \A d \in uGaps : d \in Nat /\ (d + Chunk <= c \/ c + Chunk <= d)
  BY <1>2 DEF Apart, PathShape
<1>9. c \notin uGaps
  BY <1>3, <1>8, ChunkLength
<1>10. Base \in Nat /\ Base <= c
  BY <1>3, PathBase DEF Base, Frontier, Phases
<1> QED
  BY <1>2, <1>3, <1>5, <1>6, <1>7, <1>8, <1>9, <1>10

LEMMA RefusedKeeps ==
  ASSUME PathInv, TakeChunk, Refused(Head(uFrames))
  PROVE  PathInv'
<1> DEFINE c == uFrames[1].at
           n == Len(uFrames)
<1> PathShape /\ Phases /\ Apart /\ InLine
  BY DEF PathInv
<1>1. /\ uTask = "running" /\ uFrames # <<>> /\ uFrames' = Tail(uFrames)
      /\ uEnc' = (IF uEnc = 0 THEN Head(uFrames).shape ELSE uEnc)
      /\ uGaps' = uGaps \union {Head(uFrames).at}
      /\ UNCHANGED <<uAnchor, uPcm, uEmitted, uSwallowed, uOut, uLoop, uShape, uClock, uCounted, uTask, uTx, uQueue>>
  BY DEF TakeChunk, callback, session
<1>2. Open /\ Open'
  BY <1>1 DEF Open
<1>3. /\ c \in Nat /\ Frontier = c /\ uFrames[1] = Head(uFrames)
      /\ uFrames' \in Seq([at : Nat, stamp : Nat, shape : 1 .. 2])
      /\ Len(uFrames') = n - 1 /\ n \in Nat /\ 1 \in 1 .. n
      /\ \A i \in 1 .. n - 1 :
           /\ uFrames'[i] = uFrames[i + 1] /\ i + 1 \in 1 .. n
           /\ uFrames'[i].at \in Nat /\ c + Chunk <= uFrames'[i].at
      /\ c + Chunk <= uClock /\ c + Chunk <= Frontier' /\ Frontier' \in Nat
      /\ c \notin uGaps /\ Base \in Nat
  BY <1>1, <1>2, FramesTail
<1>4. \A d \in uGaps : d \in Nat /\ (d + Chunk <= c \/ c + Chunk <= d)
  BY <1>1, <1>2, FramesTail
<1>5. uEnc # 0 /\ uAnchor # -1 /\ uAnchor < Frontier /\ uGaps' = uGaps \union {c}
  BY <1>1, <1>2, <1>3 DEF Refused, Phases
<1>6. Base' = Base /\ Taken' = Taken /\ Base = uAnchor /\ Base < c
  BY <1>1, <1>3, <1>5 DEF Base, Taken
<1>7. /\ Taken \in Nat /\ uClock \in Nat /\ uGaps \in SUBSET Nat /\ IsFiniteSet(uGaps)
      /\ Chunk \in Nat /\ Chunk > 0
  BY PathBase, ChunkLength DEF PathShape
<1> HIDE DEF c, n
<1>8. \A at \in Nat : at <= c => Loss(uGaps', Base, at) = Loss(uGaps, Base, at)
  BY <1>3, <1>5, <1>7, LostLater, SMTT(60)
<1>9. \A at \in Nat : c < at => Loss(uGaps', Base, at) = Loss(uGaps, Base, at) + Chunk
  <2>1. PICK base, dropped : base = Base /\ dropped = uGaps
    OBVIOUS
  <2>2. /\ dropped \in SUBSET Nat /\ IsFiniteSet(dropped) /\ base \in Nat /\ c \in Nat \ dropped /\ base < c
        /\ uGaps' = dropped \union {c}
    BY <1>3, <1>5, <1>6, <1>7, <2>1
  <2>3. ASSUME NEW at \in Nat, c < at PROVE Loss(dropped \union {c}, base, at) = Loss(dropped, base, at) + Chunk
    BY <2>2, <2>3, OneMoreLost
  <2> QED
    BY <2>1, <2>2, <2>3
<1>10. PathShape'
  <2>1. uGaps' \in SUBSET Nat /\ IsFiniteSet(uGaps')
    BY <1>3, <1>5, <1>7, FS_AddElement
  <2> QED
    BY <1>1, <1>3, <1>5, <2>1 DEF PathShape
<1>11. Phases' /\ FromTheStart'
  <2>1. uAnchor' < Frontier'
    <3>1. uAnchor' = Base
      BY <1>1, <1>6
    <3> QED
      BY <1>3, <1>6, <1>7, <3>1
  <2> QED
    BY <1>1, <1>5, <2>1 DEF Phases, FromTheStart
<1>12. Apart'
  <2>1. \A d \in uGaps' : d + Chunk <= uClock
    BY <1>3, <1>5 DEF Apart
  <2>2. \A i \in 1 .. n - 1 : uFrames'[i].at + Chunk <= uClock
    BY <1>3 DEF Apart, n
  <2>3. \A d \in uGaps' : \A i \in 1 .. n - 1 :
          d + Chunk <= uFrames'[i].at \/ uFrames'[i].at + Chunk <= d
    BY <1>3, <1>5 DEF Apart, n
  <2>4. ASSUME NEW i \in 1 .. n - 1, NEW j \in 1 .. n - 1, i < j
        PROVE  uFrames'[i].at + Chunk <= uFrames'[j].at
    <3>2. i + 1 < j + 1
      BY ONLY <2>4, <1>3
    <3>1. /\ uFrames'[i] = uFrames[i + 1] /\ uFrames'[j] = uFrames[j + 1] /\ i + 1 < j + 1
          /\ i + 1 \in 1 .. n /\ j + 1 \in 1 .. n
      BY <1>3, <2>4, <3>2
    <3> QED
      BY <3>1 DEF Apart, n
  <2> QED
    BY <1>1, <1>3, <2>1, <2>2, <2>3, <2>4 DEF Apart
<1>13. InLine'
  <2>1. \A i \in 1 .. n :
          uFrames[i].at = Base + Taken + Span(i - 1) + Loss(uGaps, Base, uFrames[i].at)
    BY <1>2 DEF InLine, n
  <2>2. uClock = Base + Taken + Span(n) + Loss(uGaps, Base, uClock)
    BY <1>2 DEF InLine, n
  <2>3. ASSUME NEW i \in 1 .. n - 1
        PROVE  uFrames'[i].at = Base + Taken + Span(i - 1) + Loss(uGaps', Base, uFrames'[i].at)
    <3> DEFINE at == uFrames'[i].at
    <3>1. at \in Nat /\ c + Chunk <= at /\ at = uFrames[i + 1].at /\ i + 1 \in 1 .. n
      BY <1>3
    <3>2. i + 1 - 1 = (i - 1) + 1 /\ i - 1 \in Nat
      BY <1>3
    <3>3. at = Base + Taken + Span((i - 1) + 1) + Loss(uGaps, Base, at)
      BY <2>1, <3>1, <3>2
    <3> HIDE DEF at
    <3>4. Span((i - 1) + 1) = Span(i - 1) + Chunk /\ Span(i - 1) \in Nat
      BY <3>2, Spans
    <3>5. Loss(uGaps, Base, at) \in Nat
      BY <1>7, LossType
    <3>6. c < at
      BY <1>3, <1>7, <3>1
    <3>7. Loss(uGaps', Base, at) = Loss(uGaps, Base, at) + Chunk
      BY <1>9, <3>1, <3>6
    <3>8. at = Base + Taken + Span(i - 1) + Loss(uGaps', Base, at)
      BY <1>3, <1>7, <3>1, <3>3, <3>4, <3>5, <3>7, SMTT(60)
    <3> QED
      BY <3>8 DEF at
  <2>4. uClock = Base + Taken + Span(n - 1) + Loss(uGaps', Base, uClock)
    <3>1. n - 1 \in Nat /\ n = (n - 1) + 1
      BY <1>3
    <3>2. Span(n) = Span(n - 1) + Chunk /\ Span(n - 1) \in Nat
      BY <3>1, Spans
    <3>3. Loss(uGaps, Base, uClock) \in Nat
      BY <1>7, LossType
    <3>8. uClock \in Nat /\ c < uClock
      BY <1>3, <1>7
    <3>4. Loss(uGaps', Base, uClock) = Loss(uGaps, Base, uClock) + Chunk
      BY <1>9, <3>8
    <3>5. ASSUME NEW a \in Nat, NEW b \in Nat, NEW d \in Nat, NEW e \in Nat, NEW f \in Nat, NEW g \in Nat,
                 a = b + d + (e + g) + f
          PROVE  a = b + d + e + (f + g)
      BY <3>5
    <3>6. uClock = Base + Taken + (Span(n - 1) + Chunk) + Loss(uGaps, Base, uClock)
      BY <2>2, <3>2
    <3>7. uClock = Base + Taken + Span(n - 1) + (Loss(uGaps, Base, uClock) + Chunk)
      BY <1>3, <1>7, <3>2, <3>3, <3>5, <3>6
    <3> QED
      BY <3>4, <3>7
  <2> QED
    BY <1>1, <1>3, <1>6, <2>3, <2>4 DEF InLine
<1>14. Still
  <2> SUFFICES ASSUME NEW k \in Int, NEW at \in Nat, OnTime(k, at) PROVE OnTime(k, at)'
    BY DEF Still
  <2>1. at < c
    BY <1>2, <1>3 DEF OnTime
  <2>2. Loss(uGaps', Base, at) = Loss(uGaps, Base, at)
    BY <1>3, <1>8, <2>1
  <2>4. at < Frontier'
    BY <1>3, <1>7, <2>1
  <2> QED
    BY <1>6, <2>2, <2>4 DEF OnTime
<1> QED
  BY <1>1, <1>6, <1>10, <1>11, <1>12, <1>13, <1>14, SoundStill DEF PathInv

LEMMA FullFrames ==
  ASSUME NEW len \in Nat, NEW size \in Nat \ {0}
  PROVE  /\ len \div size \in Nat /\ (len \div size) * size \in 0 .. len
         /\ \A j \in 1 .. len \div size : (j - 1) * size + 1 \in 1 .. len
<1> DEFINE n == len \div size
<1>1. n \in Nat /\ len % size \in Nat /\ len = size * n + (len % size)
  OBVIOUS
<1> HIDE DEF n
<1>2. size * n \in Nat /\ size * n <= len /\ n * size = size * n
  BY <1>1
<1>3. ASSUME NEW j \in 1 .. n PROVE (j - 1) * size + 1 \in 1 .. len
  <2>1. j - 1 \in Nat /\ (j - 1) + 1 <= n
    BY <1>1, <1>3
  <2>2. (j - 1) * size \in Nat
    BY <2>1
  <2>3. ((j - 1) + 1) * size <= n * size
    BY <1>1, <2>1
  <2>4. ((j - 1) + 1) * size = (j - 1) * size + size
    BY <2>1
  <2> HIDE DEF n
  <2> QED
    BY <1>2, <2>2, <2>3, <2>4
<1> QED
  BY <1>1, <1>2, <1>3 DEF n

LEMMA KeptShape ==
  ASSUME NEW n \in Nat, NEW kept \in KeptFrames(n)
  PROVE  /\ Len(kept) \in 0 .. n /\ DOMAIN kept = 1 .. Len(kept)
         /\ \A i \in 1 .. Len(kept) : kept[i] \in 1 .. n
<1>1. PICK m \in 0 .. n : kept \in [1 .. m -> 1 .. n]
  BY DEF KeptFrames
<1>2. Len(kept) = m
  BY <1>1
<1> QED
  BY <1>1, <1>2

\* What leaves the encoder, and what stays in it, are samples in their order, and those that neither
\* leave it nor stay were swallowed.
LEMMA CodingInOrder ==
  ASSUME NEW anchor \in Nat, NEW pcm \in Seq(Nat), uEmitted \in Nat, uSwallowed \in Nat,
         NEW kept \in KeptFrames(Len(pcm) \div FrameLength)
  PROVE  LET coded == Coding(anchor, pcm, kept)
             samples == (Len(pcm) \div FrameLength) * FrameLength
         IN
         /\ coded.out \in Seq([label : Nat, at : Nat, swallowed : Int])
         /\ \A j \in 1 .. Len(coded.out) : \E k \in 1 .. Len(pcm) :
              /\ coded.out[j].at = pcm[k]
              /\ coded.out[j].label + coded.out[j].swallowed = anchor + uEmitted + uSwallowed + k - 1
         /\ coded.emitted \in Nat /\ coded.swallowed \in Nat
         /\ coded.emitted + coded.swallowed = samples /\ samples \in 0 .. Len(pcm)
         /\ coded.rest \in Seq(Nat) /\ Len(coded.rest) = Len(pcm) - samples
         /\ \A j \in 1 .. Len(coded.rest) : coded.rest[j] = pcm[samples + j]
<1> DEFINE n == Len(pcm) \div FrameLength
           samples == n * FrameLength
           frame(j) == [label |-> Stamp(anchor, j), at |-> pcm[(kept[j] - 1) * FrameLength + 1],
                        swallowed |-> uSwallowed + (kept[j] - j) * FrameLength]
           out == [j \in DOMAIN kept |-> frame(j)]
           rest == SubSeq(pcm, samples + 1, Len(pcm))
<1>1. FrameLength \in Nat \ {0} /\ Len(pcm) \in Nat
  BY AudioAssumption DEF FrameLength
<1>2. /\ n \in Nat /\ samples \in 0 .. Len(pcm)
      /\ \A j \in 1 .. n : (j - 1) * FrameLength + 1 \in 1 .. Len(pcm)
  BY <1>1, FullFrames
<1> HIDE DEF n
<1>3. /\ Len(kept) \in 0 .. n /\ DOMAIN kept = 1 .. Len(kept)
      /\ \A j \in 1 .. Len(kept) : kept[j] \in 1 .. n
  BY <1>2, KeptShape DEF n
<1>4. ASSUME NEW j \in 1 .. Len(kept)
      PROVE  /\ frame(j) \in [label : Nat, at : Nat, swallowed : Int]
             /\ \E k \in 1 .. Len(pcm) :
                  /\ frame(j).at = pcm[k]
                  /\ frame(j).label + frame(j).swallowed = anchor + uEmitted + uSwallowed + k - 1
  <2> DEFINE k == (kept[j] - 1) * FrameLength + 1
             before == (j - 1) * FrameLength
             lost == (kept[j] - j) * FrameLength
  <2>1. kept[j] \in Nat /\ j \in Nat /\ j - 1 \in Nat /\ k \in 1 .. Len(pcm) /\ pcm[k] \in Nat
    <3>1. kept[j] \in 1 .. n
      BY <1>3
    <3>2. k \in 1 .. Len(pcm)
      BY <1>2, <3>1
    <3> HIDE DEF k
    <3> QED
      BY <1>2, <3>1, <3>2
  <2>2. before \in Nat /\ lost \in Int /\ k = before + lost + 1
    <3>1. ASSUME NEW a \in Nat, NEW b \in Nat, NEW f \in Nat, b - 1 \in Nat
          PROVE  (b - 1) * f \in Nat /\ (a - b) * f \in Int /\ (a - 1) * f = (b - 1) * f + (a - b) * f
      <4>1. (a - 1) * f = a * f - f /\ (b - 1) * f = b * f - f /\ (a - b) * f = a * f - b * f
        BY <3>1
      <4>2. a * f \in Nat /\ b * f \in Nat /\ (b - 1) * f \in Nat
        BY <3>1
      <4> QED
        BY <4>1, <4>2
    <3> QED
      BY <1>1, <2>1, <3>1
  <2>3. /\ frame(j).at = pcm[k] /\ frame(j).label = anchor + uEmitted + before
        /\ frame(j).swallowed = uSwallowed + lost
    BY DEF Stamp
  <2>4. frame(j) = [label |-> frame(j).label, at |-> frame(j).at, swallowed |-> frame(j).swallowed]
    OBVIOUS
  <2> HIDE DEF k, before, lost, frame
  <2>5. frame(j).label \in Nat /\ frame(j).swallowed \in Int /\ frame(j).at \in Nat
    BY <2>1, <2>2, <2>3
  <2>6. frame(j).label + frame(j).swallowed = anchor + uEmitted + uSwallowed + k - 1
    BY <2>1, <2>2, <2>3
  <2> QED
    BY <2>1, <2>3, <2>4, <2>5, <2>6
<1>5. /\ Len(kept) * FrameLength \in Nat /\ (n - Len(kept)) * FrameLength \in Nat
      /\ Len(kept) * FrameLength + (n - Len(kept)) * FrameLength = samples
  <2>1. Len(kept) \in Nat /\ n \in Nat /\ n - Len(kept) \in Nat /\ FrameLength \in Nat
    BY <1>1, <1>2, <1>3
  <2>2. PICK a \in Nat, b \in Nat, f \in Nat :
          a = Len(kept) /\ b = n /\ f = FrameLength /\ b - a \in Nat
    BY <2>1
  <2>3. (b - a) * f = b * f - a * f /\ a * f \in Nat /\ b * f \in Nat /\ (b - a) * f \in Nat
    BY <2>2
  <2>4. a * f \in Nat /\ (b - a) * f \in Nat /\ a * f + (b - a) * f = b * f
    BY ONLY <2>3
  <2> QED
    BY <2>2, <2>4
<1> HIDE DEF samples, frame
<1>6. /\ out \in Seq([label : Nat, at : Nat, swallowed : Int]) /\ Len(out) = Len(kept)
      /\ \A j \in 1 .. Len(kept) : out[j] = frame(j)
  <2>1. out = [j \in 1 .. Len(kept) |-> frame(j)] /\ Len(kept) \in Nat
    BY <1>2, <1>3
  <2> HIDE DEF out
  <2>2. Len(out) = Len(kept) /\ \A j \in 1 .. Len(kept) : out[j] = frame(j)
    BY <2>1
  <2>3. \A j \in 1 .. Len(kept) : frame(j) \in [label : Nat, at : Nat, swallowed : Int]
    BY <1>4
  <2> QED
    BY <2>1, <2>2, <2>3
<1>7. /\ rest \in Seq(Nat) /\ Len(rest) = Len(pcm) - samples
      /\ \A j \in 1 .. Len(rest) : rest[j] = pcm[samples + j]
  <2>1. /\ Len(rest) = Len(pcm) - samples
        /\ \A j \in 1 .. Len(rest) : rest[j] = pcm[samples + j]
    BY <1>1, <1>2
  <2>2. rest \in Seq(Nat)
    BY <1>1, <1>2
  <2> QED
    BY <2>1, <2>2
<1>8. /\ Coding(anchor, pcm, kept).out = out /\ Coding(anchor, pcm, kept).rest = rest
      /\ Coding(anchor, pcm, kept).emitted = Len(kept) * FrameLength
      /\ Coding(anchor, pcm, kept).swallowed = (n - Len(kept)) * FrameLength
      /\ samples = (Len(pcm) \div FrameLength) * FrameLength
  BY DEF Coding, n, frame, samples
<1> HIDE DEF out, rest
<1>9. \A j \in 1 .. Len(out) : \E k \in 1 .. Len(pcm) :
        out[j].at = pcm[k] /\ out[j].label + out[j].swallowed = anchor + uEmitted + uSwallowed + k - 1
  <2> TAKE j \in 1 .. Len(out)
  <2>1. j \in 1 .. Len(kept) /\ out[j] = frame(j)
    BY <1>6
  <2>2. \E k \in 1 .. Len(pcm) :
          /\ frame(j).at = pcm[k]
          /\ frame(j).label + frame(j).swallowed = anchor + uEmitted + uSwallowed + k - 1
    BY <1>4, <2>1
  <2> QED
    BY <2>1, <2>2
<1> QED
  BY <1>2, <1>5, <1>6, <1>7, <1>8, <1>9

LEMMA Joined ==
  ASSUME NEW s \in Seq(Nat), NEW t \in Seq(Nat)
  PROVE  /\ s \o t \in Seq(Nat) /\ Len(s \o t) = Len(s) + Len(t) /\ Len(s) \in Nat
         /\ \A k \in 1 .. Len(s) : (s \o t)[k] = s[k]
         /\ \A j \in 1 .. Len(t) : (s \o t)[Len(s) + j] = t[j]
OBVIOUS

\* A chunk whose encoder takes it goes on where the samples taken before end.
LEMMA ChunkGoesOn ==
  ASSUME PathInv, Open, uFrames # <<>>
  PROVE  LET c == uFrames[1].at
             pcm == uPcm \o SamplesOf(uFrames[1])
         IN  /\ pcm \in Seq(Nat) /\ Len(pcm) = Len(uPcm) + Chunk
             /\ \A k \in 1 .. Len(pcm) :
                  /\ pcm[k] = Base + (uEmitted + uSwallowed + k - 1) + Loss(uGaps, Base, pcm[k])
                  /\ pcm[k] < c + Chunk
<1> DEFINE c == uFrames[1].at
           new == SamplesOf(uFrames[1])
           pcm == uPcm \o new
<1> PathShape /\ InLine /\ InPcm
  BY DEF PathInv
<1>1. /\ 1 \in 1 .. Len(uFrames) /\ uFrames[1] \in [at : Nat, stamp : Nat, shape : 1 .. 2]
  <2>1. uFrames \in Seq([at : Nat, stamp : Nat, shape : 1 .. 2])
    BY DEF PathShape
  <2> QED
    BY <2>1, Shorter
<1>2. c \in Nat /\ Frontier = c /\ Base \in Nat /\ Taken \in Nat /\ uEmitted \in Nat /\ uSwallowed \in Nat
      /\ Chunk \in Nat /\ Chunk > 0 /\ uGaps \in SUBSET Nat
  BY <1>1, PathBase, ChunkLength DEF Frontier, PathShape
<1>3. \A d \in uGaps : d + Chunk <= c \/ c + Chunk <= d
  BY <1>1 DEF PathInv, Apart
<1>4. c = Base + Taken + Loss(uGaps, Base, c)
  <2>1. c = Base + Taken + Span(1 - 1) + Loss(uGaps, Base, c)
    BY <1>1 DEF InLine
  <2>2. Span(1 - 1) = 0
    BY Spans
  <2>3. Loss(uGaps, Base, c) \in Nat
    BY LossType DEF PathShape
  <2> QED
    BY <1>2, <2>1, <2>2, <2>3
<1> HIDE DEF c
<1>5. new \in Seq(Nat) /\ Len(new) = Chunk /\ \A j \in 1 .. Chunk : new[j] = c + j - 1
  <2>1. new = [j \in 1 .. Chunk |-> c + j - 1]
    BY DEF SamplesOf, c
  <2> HIDE DEF new
  <2>2. \A j \in 1 .. Chunk : c + j - 1 \in Nat
    BY <1>2
  <2> QED
    BY <1>2, <2>1, <2>2
<1> HIDE DEF new
<1>6. /\ uPcm \in Seq(Nat) /\ Len(uPcm) \in Nat
      /\ pcm \in Seq(Nat) /\ Len(pcm) = Len(uPcm) + Chunk
      /\ \A k \in 1 .. Len(uPcm) : pcm[k] = uPcm[k]
      /\ \A j \in 1 .. Chunk : pcm[Len(uPcm) + j] = new[j]
  <2>1. uPcm \in Seq(Nat)
    BY DEF PathShape
  <2> QED
    BY <1>5, <2>1, Joined
<1> HIDE DEF pcm
<1>7. ASSUME NEW k \in 1 .. Len(pcm)
      PROVE  /\ pcm[k] = Base + (uEmitted + uSwallowed + k - 1) + Loss(uGaps, Base, pcm[k])
             /\ pcm[k] < c + Chunk
  <2>1. CASE k \in 1 .. Len(uPcm)
    <3>1. pcm[k] = uPcm[k] /\ uPcm[k] \in Nat
      BY <1>6, <2>1
    <3>2. OnTime(uEmitted + uSwallowed + k - 1, uPcm[k])
      BY <2>1 DEF InPcm
    <3>3. pcm[k] = Base + (uEmitted + uSwallowed + k - 1) + Loss(uGaps, Base, pcm[k]) /\ pcm[k] < c
      BY <1>2, <3>1, <3>2 DEF OnTime
    <3> QED
      BY <1>2, <3>1, <3>3
  <2>2. CASE k \in Len(uPcm) + 1 .. Len(uPcm) + Chunk
    <3> DEFINE j == k - Len(uPcm)
    <3>1. j \in 1 .. Chunk /\ k = Len(uPcm) + j
      BY <1>2, <1>6, <2>2
    <3>2. pcm[k] = c + j - 1
      BY <1>5, <1>6, <3>1
    <3> HIDE DEF j
    <3>3. pcm[k] \in Nat /\ c <= pcm[k] /\ pcm[k] < c + Chunk
      BY <1>2, <3>1, <3>2
    <3>4. \A d \in uGaps : d < c \/ pcm[k] <= d
      BY <1>2, <1>3, <3>3
    <3>5. Loss(uGaps, Base, c) = Loss(uGaps, Base, pcm[k])
      BY <1>2, <3>3, <3>4, NothingLostBetween
    <3>6. Loss(uGaps, Base, c) \in Nat
      BY LossType DEF PathShape
    <3>7. Taken = uEmitted + uSwallowed + Len(uPcm)
      BY DEF Taken
    <3> QED
      BY <1>2, <1>4, <1>6, <3>1, <3>2, <3>3, <3>5, <3>6, <3>7, SMTT(60)
  <2> QED
    BY <1>2, <1>6, <2>1, <2>2
<1> QED
  BY <1>6, <1>7 DEF c, new, pcm

LEMMA EncodedKeeps ==
  ASSUME PathInv, TakeChunk, ~Refused(Head(uFrames))
  PROVE  PathInv'
<1> DEFINE c == uFrames[1].at
           n == Len(uFrames)
           pcm == uPcm \o SamplesOf(uFrames[1])
<1> PathShape /\ Phases /\ FromTheStart /\ Apart /\ InLine
  BY DEF PathInv
<1>1. /\ uTask = "running" /\ uFrames # <<>> /\ uFrames' = Tail(uFrames)
      /\ uEnc' = (IF uEnc = 0 THEN Head(uFrames).shape ELSE uEnc)
      /\ EncodeChunk(Head(uFrames))
      /\ UNCHANGED <<uGaps, uLoop, uShape, uClock, uCounted, uTask, uTx, uQueue>>
  BY DEF TakeChunk, callback, session
<1>2. Open /\ Open'
  BY <1>1 DEF Open
<1>3. /\ c \in Nat /\ Frontier = c /\ uFrames[1] = Head(uFrames) /\ uFrames[1].shape \in 1 .. 2
      /\ uFrames' \in Seq([at : Nat, stamp : Nat, shape : 1 .. 2])
      /\ Len(uFrames') = n - 1 /\ n \in Nat /\ 1 \in 1 .. n
      /\ \A i \in 1 .. n - 1 :
           /\ uFrames'[i] = uFrames[i + 1] /\ i + 1 \in 1 .. n
           /\ uFrames'[i].at \in Nat /\ c + Chunk <= uFrames'[i].at
      /\ c + Chunk <= uClock /\ c + Chunk <= Frontier' /\ Frontier' \in Nat
      /\ c \notin uGaps /\ Base \in Nat /\ Base <= c
  BY <1>1, <1>2, FramesTail
<1>4. Base = IF uAnchor = -1 THEN c ELSE uAnchor
  BY <1>1 DEF Base
<1>20. uAnchor = -1 => uFrames[1].stamp = c
  BY <1>1, <1>2 DEF FromTheStart
<1>21. PICK kept \in KeptFrames(Len(pcm) \div FrameLength) :
         LET coded == Coding(Base, pcm, kept)
         IN  /\ uAnchor' = Base /\ uOut' = coded.out /\ uPcm' = coded.rest
             /\ uEmitted' = uEmitted + coded.emitted /\ uSwallowed' = uSwallowed + coded.swallowed
  <2>1. EncodeChunk(uFrames[1]) /\ Base = IF uAnchor = -1 THEN uFrames[1].stamp ELSE uAnchor
    BY <1>1, <1>3, <1>4, <1>20
  <2> QED
    BY <2>1 DEF EncodeChunk
<1> DEFINE coded == Coding(Base, pcm, kept)
           samples == (Len(pcm) \div FrameLength) * FrameLength
<1>5. /\ uAnchor' = Base /\ uOut' = coded.out /\ uPcm' = coded.rest
      /\ uEmitted' = uEmitted + coded.emitted /\ uSwallowed' = uSwallowed + coded.swallowed
  BY <1>21
<1>6. /\ pcm \in Seq(Nat) /\ Len(pcm) = Len(uPcm) + Chunk
      /\ \A k \in 1 .. Len(pcm) :
           /\ pcm[k] = Base + (uEmitted + uSwallowed + k - 1) + Loss(uGaps, Base, pcm[k])
           /\ pcm[k] < c + Chunk
  BY <1>1, <1>2, ChunkGoesOn
<1>7. /\ Taken \in Nat /\ uClock \in Nat /\ uEmitted \in Nat /\ uSwallowed \in Nat /\ Len(uPcm) \in Nat
      /\ uGaps \in SUBSET Nat /\ Chunk \in Nat /\ Chunk > 0
  BY PathBase, ChunkLength DEF PathShape
<1> HIDE DEF c, n, pcm
<1>8. /\ coded.out \in Seq([label : Nat, at : Nat, swallowed : Int])
      /\ \A j \in 1 .. Len(coded.out) : \E k \in 1 .. Len(pcm) :
           /\ coded.out[j].at = pcm[k]
           /\ coded.out[j].label + coded.out[j].swallowed = Base + uEmitted + uSwallowed + k - 1
      /\ coded.emitted \in Nat /\ coded.swallowed \in Nat
      /\ coded.emitted + coded.swallowed = samples /\ samples \in 0 .. Len(pcm)
      /\ coded.rest \in Seq(Nat) /\ Len(coded.rest) = Len(pcm) - samples
      /\ \A j \in 1 .. Len(coded.rest) : coded.rest[j] = pcm[samples + j]
  BY <1>3, <1>6, <1>7, CodingInOrder
<1> HIDE DEF coded, samples
<1>9. Base' = Base
  BY <1>3, <1>5 DEF Base
<1>10. Taken' = Taken + Chunk
  <2>1. Len(uPcm') = (Len(uPcm) + Chunk) - samples
    <3>1. uPcm' = coded.rest
      BY <1>5
    <3>2. Len(coded.rest) = Len(pcm) - samples
      BY <1>8
    <3>3. Len(pcm) = Len(uPcm) + Chunk
      BY <1>6
    <3> QED
      BY ONLY <3>1, <3>2, <3>3, Zenon
  <2>2. samples \in Nat /\ coded.emitted + coded.swallowed = samples
    BY <1>6, <1>7, <1>8
  <2>3. Taken' = (uEmitted + coded.emitted) + (uSwallowed + coded.swallowed) + Len(uPcm')
    BY <1>5 DEF Taken
  <2>4. coded.emitted \in Nat /\ coded.swallowed \in Nat
    BY <1>8
  <2>5. Taken = uEmitted + uSwallowed + Len(uPcm)
    BY DEF Taken
  <2>6. uEmitted \in Nat /\ uSwallowed \in Nat /\ Len(uPcm) \in Nat /\ Chunk \in Nat
    BY <1>7
  <2>7. PICK e \in Nat, w \in Nat, len \in Nat, size \in Nat, ce \in Nat, cw \in Nat :
          /\ e = uEmitted /\ w = uSwallowed /\ len = Len(uPcm) /\ size = Chunk
          /\ ce = coded.emitted /\ cw = coded.swallowed
    BY <2>4, <2>6
  <2>8. (e + ce) + (w + cw) + ((len + size) - (ce + cw)) = e + w + len + size
    OBVIOUS
  <2>9. Taken' = (e + ce) + (w + cw) + ((len + size) - (ce + cw)) /\ Taken = e + w + len
    BY <2>1, <2>2, <2>3, <2>5, <2>7
  <2> QED
    BY <2>7, <2>8, <2>9
<1>11. PathShape'
  <2>1. uEmitted' \in Nat /\ uSwallowed' \in Nat
    BY <1>5, <1>6, <1>7, <1>8, SMTT(60)
  <2>2. uPcm' \in Seq(Nat) /\ uOut' \in Seq([label : Nat, at : Nat, swallowed : Int]) /\ uAnchor' \in Nat
    BY <1>3, <1>5, <1>8
  <2>3. uEnc' \in 0 .. 2
    BY <1>1, <1>3 DEF PathShape
  <2> QED
    BY <1>1, <1>3, <2>1, <2>2, <2>3 DEF PathShape
<1>12. Phases' /\ FromTheStart'
  <2>1. uEnc' # 0 /\ uAnchor' # -1 /\ uTask' = "running"
    BY <1>1, <1>3, <1>5
  <2>2. uAnchor' < Frontier'
    BY <1>3, <1>5, <1>7
  <2> QED
    BY <2>1, <2>2 DEF Phases, FromTheStart
<1>13. Apart'
  <2>1. \A d \in uGaps : d + Chunk <= uClock
    BY DEF Apart
  <2>2. \A i \in 1 .. n - 1 : uFrames'[i].at + Chunk <= uClock
    BY <1>3 DEF Apart, n
  <2>3. \A d \in uGaps : \A i \in 1 .. n - 1 :
          d + Chunk <= uFrames'[i].at \/ uFrames'[i].at + Chunk <= d
    BY <1>3 DEF Apart, n
  <2>4. ASSUME NEW i \in 1 .. n - 1, NEW j \in 1 .. n - 1, i < j
        PROVE  uFrames'[i].at + Chunk <= uFrames'[j].at
    <3>2. i + 1 < j + 1
      BY ONLY <2>4, <1>3
    <3>1. /\ uFrames'[i] = uFrames[i + 1] /\ uFrames'[j] = uFrames[j + 1] /\ i + 1 < j + 1
          /\ i + 1 \in 1 .. n /\ j + 1 \in 1 .. n
      BY <1>3, <2>4, <3>2
    <3> QED
      BY <3>1 DEF Apart, n
  <2> QED
    BY <1>1, <1>3, <2>1, <2>2, <2>3, <2>4 DEF Apart
<1>14. InLine'
  <2>1. \A i \in 1 .. n :
          uFrames[i].at = Base + Taken + Span(i - 1) + Loss(uGaps, Base, uFrames[i].at)
    BY <1>2 DEF InLine, n
  <2>2. uClock = Base + Taken + Span(n) + Loss(uGaps, Base, uClock)
    BY <1>2 DEF InLine, n
  <2>3. ASSUME NEW i \in 1 .. n - 1
        PROVE  uFrames'[i].at
                 = Base + (Taken + Chunk) + Span(i - 1) + Loss(uGaps, Base, uFrames'[i].at)
    <3> DEFINE at == uFrames'[i].at
    <3>1. at \in Nat /\ at = uFrames[i + 1].at /\ i + 1 \in 1 .. n
      BY <1>3
    <3>2. i + 1 - 1 = (i - 1) + 1 /\ i - 1 \in Nat
      BY <1>3
    <3>3. at = Base + Taken + Span((i - 1) + 1) + Loss(uGaps, Base, at)
      BY <2>1, <3>1, <3>2
    <3> HIDE DEF at
    <3>4. Span((i - 1) + 1) = Span(i - 1) + Chunk /\ Span(i - 1) \in Nat
      BY <3>2, Spans
    <3>5. Loss(uGaps, Base, at) \in Nat
      BY LossType DEF PathShape
    <3>6. at = Base + (Taken + Chunk) + Span(i - 1) + Loss(uGaps, Base, at)
      BY <1>3, <1>7, <3>1, <3>3, <3>4, <3>5, SMTT(60)
    <3> QED
      BY <3>6 DEF at
  <2>4. uClock = Base + (Taken + Chunk) + Span(n - 1) + Loss(uGaps, Base, uClock)
    <3>1. n - 1 \in Nat /\ n = (n - 1) + 1
      BY <1>3
    <3>2. Span(n) = Span(n - 1) + Chunk /\ Span(n - 1) \in Nat
      BY <3>1, Spans
    <3>3. Loss(uGaps, Base, uClock) \in Nat
      BY LossType DEF PathShape
    <3> QED
      BY <1>3, <1>7, <2>2, <3>2, <3>3
  <2> QED
    BY <1>1, <1>3, <1>9, <1>10, <2>3, <2>4 DEF InLine
<1>15. ASSUME NEW k \in 1 .. Len(pcm), NEW m, NEW at, m = uEmitted + uSwallowed + k - 1, at = pcm[k]
       PROVE  OnTime(m, at)'
  <2>1. at \in Nat /\ at = Base + m + Loss(uGaps, Base, at) /\ at < c + Chunk
    BY <1>6, <1>15
  <2>2. c + Chunk <= Frontier' /\ Frontier' \in Nat /\ c \in Nat
    BY <1>3
  <2>3. at < Frontier'
    BY <1>7, <2>1, <2>2
  <2> QED
    BY <1>1, <1>9, <2>1, <2>3 DEF OnTime
<1>16. InPcm'
  <2>1. ASSUME NEW j \in 1 .. Len(uPcm'), NEW m, NEW at, m = uEmitted' + uSwallowed' + j - 1, at = uPcm'[j]
        PROVE  OnTime(m, at)'
    <3> DEFINE first == samples
    <3>1. first \in Nat /\ Len(pcm) \in Nat /\ first <= Len(pcm)
      BY <1>6, <1>8
    <3>3. j \in 1 .. Len(coded.rest) /\ Len(coded.rest) = Len(pcm) - first
      BY <1>5, <1>8, <2>1
    <3>4. at = pcm[first + j]
      BY <1>5, <1>8, <2>1, <3>3
    <3> HIDE DEF first
    <3>5. first + j \in 1 .. Len(pcm)
      BY <3>1, <3>3
    <3>6. /\ m = (uEmitted + coded.emitted) + (uSwallowed + coded.swallowed) + j - 1
          /\ coded.emitted \in Nat /\ coded.swallowed \in Nat /\ coded.emitted + coded.swallowed = first
          /\ j \in Nat
      BY <1>5, <1>8, <2>1, <3>3 DEF first
    <3>7. uEmitted \in Nat /\ uSwallowed \in Nat
      BY <1>7
    <3>8. PICK e \in Nat, w \in Nat, ce \in Nat, cw \in Nat :
            e = uEmitted /\ w = uSwallowed /\ ce = coded.emitted /\ cw = coded.swallowed
      BY <3>6, <3>7
    <3>9. (e + ce) + (w + cw) + j - 1 = e + w + ((ce + cw) + j) - 1
      BY <3>6
    <3>2. m = uEmitted + uSwallowed + (first + j) - 1
      BY <3>6, <3>8, <3>9
    <3> QED
      BY <1>15, <3>2, <3>4, <3>5
  <2> QED
    BY <2>1 DEF InPcm, OnTime
<1>17. AllHeard(uOut)'
  <2> SUFFICES ASSUME NEW j \in 1 .. Len(uOut') PROVE Heard(uOut[j])'
    BY DEF AllHeard
  <2>1. PICK k \in 1 .. Len(pcm) :
          uOut'[j].at = pcm[k] /\ uOut'[j].label + uOut'[j].swallowed = Base + uEmitted + uSwallowed + k - 1
    BY <1>5, <1>8
  <2>3. uOut'[j] \in [label : Nat, at : Nat, swallowed : Int]
    BY <1>5, <1>8, QueueEntry
  <2>2. /\ uOut'[j].label - Base' + uOut'[j].swallowed = uEmitted + uSwallowed + k - 1
        /\ uEmitted + uSwallowed + k - 1 \in Int
    <3>1. /\ uOut'[j].label \in Nat /\ uOut'[j].swallowed \in Int /\ k \in Int /\ Base' = Base /\ Base \in Nat
          /\ uOut'[j].label + uOut'[j].swallowed = Base + uEmitted + uSwallowed + k - 1
      BY <1>3, <1>9, <2>1, <2>3
    <3> QED
      BY ONLY <1>7, <3>1
  <2> QED
    BY <1>15, <2>1, <2>2 DEF Heard, OnTime
<1>18. AllHeard(uTx)' /\ AllHeard(uQueue)'
  <2>1. CASE uAnchor = -1
    BY <1>1, <2>1 DEF Phases, AllHeard
  <2>2. CASE uAnchor # -1
    <3>1. Still
      <4> SUFFICES ASSUME NEW k \in Int, NEW at \in Nat, OnTime(k, at) PROVE OnTime(k, at)'
        BY DEF Still
      <4>1. at < c
        BY <1>2, <1>3 DEF OnTime
      <4>2. at < Frontier'
        BY <1>3, <1>7, <4>1
      <4> QED
        BY <1>1, <1>9, <4>2 DEF OnTime
    <3>2. ASSUME NEW queue \in Seq([label : Nat, at : Nat, swallowed : Int]), AllHeard(queue)
          PROVE  \A i \in 1 .. Len(queue) : Heard(queue[i])'
      BY <1>3, <1>9, <3>1, <3>2, QueueStill DEF AllHeard
    <3>3. /\ uTx \in Seq([label : Nat, at : Nat, swallowed : Int]) /\ AllHeard(uTx)
          /\ uQueue \in Seq([label : Nat, at : Nat, swallowed : Int]) /\ AllHeard(uQueue)
      BY DEF PathInv, PathShape
    <3> QED
      BY <1>1, <3>2, <3>3 DEF AllHeard, Heard
  <2> QED
    BY <2>1, <2>2
<1> QED
  BY <1>11, <1>12, <1>13, <1>14, <1>16, <1>17, <1>18 DEF PathInv

LEMMA PathStep == PathInv /\ [AudioNext]_audioVars => PathInv'
<1> SUFFICES ASSUME PathInv, [AudioNext]_audioVars PROVE PathInv'
  OBVIOUS
<1>1. CASE AudioProcess
  BY <1>1, QueuedKeeps, DroppedKeeps
<1>4. CASE SourceIdle
  BY <1>4, PauseKeeps
<1>2. CASE TakeChunk
  BY <1>2, RefusedKeeps, EncodedKeeps
<1>3. CASE TaskEnds \/ AudioStreamEnds
  BY <1>3, EndKeeps
<1> QED
  BY <1>1, <1>2, <1>3, <1>4, QuietSteps DEF AudioNext

\* For every length of a chunk and of a frame, and any channel capacities: what leaves the encoder is
\* stamped before the moment it was captured by exactly the chunks dropped and the idle times between
\* the encoder's first sample and this one, and by what the encoder swallowed before it, wherever the
\* chunks were dropped, whenever the source paused, and in whichever queue the frame waits.
THEOREM SoundLagAccountedFor == AudioSpec => []LagIsAccountedFor
<1>1. PathInv => LagIsAccountedFor
  <2> SUFFICES ASSUME PathInv, NEW queue \in {uOut, uTx, uQueue}, NEW i \in DOMAIN queue
               PROVE  queue[i].at - queue[i].label
                        = Chunk * Cardinality(GapsBefore(queue[i].at)) + queue[i].swallowed
    BY DEF LagIsAccountedFor
  <2>1. queue \in Seq([label : Nat, at : Nat, swallowed : Int]) /\ AllHeard(queue)
    BY DEF PathInv, PathShape
  <2>2. i \in 1 .. Len(queue) /\ queue # <<>>
    BY <2>1
  <2>3. queue[i] \in [label : Nat, at : Nat, swallowed : Int] /\ Heard(queue[i])
    BY <2>1, <2>2, QueueEntry DEF AllHeard
  <2>4. uAnchor # -1
    BY <2>2 DEF PathInv, Phases
  <2>5. Base = uAnchor
    BY <2>4 DEF Base
  <2>6. Loss(uGaps, Base, queue[i].at) = Chunk * Cardinality(GapsBefore(queue[i].at))
    BY <2>5 DEF Loss, Lost, GapsBefore
  <2>7. Loss(uGaps, Base, queue[i].at) \in Nat /\ Base \in Nat
    BY LossType, PathBase DEF PathInv, PathShape
  <2>8. queue[i].at = Base + (queue[i].label - Base + queue[i].swallowed) + Loss(uGaps, Base, queue[i].at)
    BY <2>3 DEF Heard, OnTime
  <2>9. queue[i].label \in Nat /\ queue[i].at \in Nat /\ queue[i].swallowed \in Int
    BY <2>3
  <2>10. queue[i].at - queue[i].label = Loss(uGaps, Base, queue[i].at) + queue[i].swallowed
    BY <2>7, <2>8, <2>9
  <2> QED
    BY <2>6, <2>10
<1> QED
  BY <1>1, PathInit, PathStep, PTL DEF AudioSpec

-----------------------------------------------------------------------------
\* The transport stream.

\* A set of natural numbers has a least one.
Below == {ss \in Nat \X Nat : ss[1] < ss[2]}

LEMMA BelowWellFounded == IsWellFoundedOn(Below, Nat)
  BY NatLessThanWellFounded, Zenon DEF OpToRel, Below

LEMMA Least ==
  ASSUME NEW T \in SUBSET Nat, T # {}
  PROVE  \E x \in T : \A y \in T : x <= y
<1>1. \A x, y \in Nat : x < y => <<x, y>> \in Below
  BY DEF Below
<1>2. PICK x \in T : \A y \in T : ~ (<<y, x>> \in Below)
  BY BelowWellFounded, WFMin
<1>3. ASSUME NEW y \in T PROVE x <= y
  <2>1. x \in Nat /\ y \in Nat /\ ~ (<<y, x>> \in Below)
    BY <1>2
  <2>2. ~ (y < x)
    BY <1>1, <2>1
  <2> QED
    BY <2>1, <2>2
<1> QED
  BY <1>3

\* Induction, over a set: what holds at 0 and one further holds up to n.
LEMMA UpTo ==
  ASSUME NEW n \in Nat, NEW S, 0 \in S, \A i \in 1 .. n : i - 1 \in S => i \in S
  PROVE  \A i \in 0 .. n : i \in S
<1> DEFINE Out == {i \in 0 .. n : i \notin S}
<1> SUFFICES ASSUME Out # {} PROVE FALSE
  OBVIOUS
<1>1. Out \in SUBSET Nat
  OBVIOUS
<1>2. PICK x \in Out : \A y \in Out : x <= y
  BY <1>1, Least
<1>3. x \in 1 .. n /\ x \notin S
  BY <1>2
<1>4. x - 1 \in 0 .. n /\ ~ (x <= x - 1)
  BY <1>3
<1>5. x - 1 \in S
  BY <1>2, <1>4
<1> QED
  BY <1>3, <1>5

\* The demuxer before a segment's packets, and after each of them.
Processed(audio, state, packet) ==
  IF packet.pid \notin state.known THEN state
  ELSE CASE packet.pid = "pat" -> [state EXCEPT !.known = @ \union {"pmt"}]
         [] packet.pid = "pmt" ->
              [state EXCEPT !.known = @ \union {"video"} \union (IF audio THEN {"audio"} ELSE {})]
         [] OTHER -> Collect(state, packet)
Fresh(known, pes) == [known |-> known, pes |-> pes, got |-> <<>>]
IsRun(run, audio, first, packets, n) ==
  run = [m \in 0 .. n |-> IF m = 0 THEN first ELSE Processed(audio, run[m - 1], packets[m])]

\* Demuxing is such a run.
LEMMA RunExists ==
  ASSUME NEW audio, NEW first, NEW packets, NEW n \in Nat
  PROVE  \E run : IsRun(run, audio, first, packets, n)
<1> DEFINE Without == {m \in 0 .. n : ~ \E run : IsRun(run, audio, first, packets, m)}
<1> SUFFICES ASSUME Without # {} PROVE FALSE
  BY DEF IsRun
<1>1. PICK m \in Without : \A k \in Without : m <= k
  <2> HIDE DEF Without
  <2>1. Without \in SUBSET Nat
    BY DEF Without
  <2> QED
    BY <2>1, Least
<1>2. CASE m = 0
  <2> DEFINE run == [k \in 0 .. 0 |-> first]
  <2>1. IsRun(run, audio, first, packets, 0)
    BY DEF IsRun
  <2> QED
    BY <1>2, <2>1
<1>3. CASE m # 0
  <2>1. m - 1 \in 0 .. n /\ m - 1 \notin Without
    BY <1>1, <1>3
  <2>2. PICK run : IsRun(run, audio, first, packets, m - 1)
    BY <2>1
  <2> DEFINE longer == [k \in 0 .. m |-> IF k = m THEN Processed(audio, run[m - 1], packets[m]) ELSE run[k]]
  <2>3. ASSUME NEW k \in 0 .. m
        PROVE  longer[k] = IF k = 0 THEN first ELSE Processed(audio, longer[k - 1], packets[k])
    BY <2>2, <1>3 DEF IsRun
  <2>4. IsRun(longer, audio, first, packets, m)
    BY <2>3 DEF IsRun
  <2> QED
    BY <2>4, <1>1
<1> QED
  BY <1>2, <1>3

LEMMA DemuxedByRun ==
  ASSUME NEW known, NEW pes, NEW packets, Len(packets) \in Nat
  PROVE  \E run : /\ IsRun(run, wAudio, Fresh(known, pes), packets, Len(packets))
                  /\ Demuxed(known, pes, packets) = Flushed(run[Len(packets)])
<1> DEFINE after == CHOOSE run : IsRun(run, wAudio, Fresh(known, pes), packets, Len(packets))
<1>1. IsRun(after, wAudio, Fresh(known, pes), packets, Len(packets))
  BY RunExists
<1>2. Demuxed(known, pes, packets) = Flushed(after[Len(packets)])
  BY DEF Demuxed, IsRun, Fresh, Process, Processed
<1> QED
  BY <1>1, <1>2

\* What a packet and a unit are.
Packet == [pid : Pids, unit : Nat, start : BOOLEAN, piece : Nat, cc : 0 .. Counters - 1]
AccessUnit == [pid : Streams, unit : Nat, pieces : Nat \ {0}]
Pieces == Seq(Packet)

\* The first k units were gathered: each is whole, among those let out or under assembly, and in
\* each stream they are in order.
Gathered(got, pes, units, k) ==
  /\ got \in Seq(Pieces) /\ pes \in [Streams -> Pieces]
  /\ \A pid \in Streams :
       pes[pid] # <<>> => \E j \in 1 .. k : units[j].pid = pid /\ Whole(pes[pid], units[j])
  /\ \A g \in DOMAIN got : \E j \in 1 .. k : Whole(got[g], units[j])
  /\ \A j \in 1 .. k : \/ \E g \in DOMAIN got : Whole(got[g], units[j])
                       \/ Whole(pes[units[j].pid], units[j])
  /\ \A g, h \in DOMAIN got : g < h /\ got[g][1].pid = got[h][1].pid => got[g][1].unit < got[h][1].unit
  /\ \A g \in DOMAIN got : \A pid \in Streams :
       got[g][1].pid = pid /\ pes[pid] # <<>> => got[g][1].unit < pes[pid][1].unit

\* A stream's assembly becomes x.
Put(pes, pid, x) == [pes EXCEPT ![pid] = x]

\* What Put does, once and twice.
LEMMA PutIs ==
  ASSUME NEW pes \in [Streams -> Pieces], NEW pid \in Streams, NEW x \in Pieces
  PROVE  /\ Put(pes, pid, x) \in [Streams -> Pieces] /\ Put(pes, pid, x)[pid] = x
         /\ \A q \in Streams : q # pid => Put(pes, pid, x)[q] = pes[q]
  BY DEF Put

LEMMA PutAgain ==
  ASSUME NEW pes \in [Streams -> Pieces], NEW pid \in Streams, NEW x, NEW y
  PROVE  Put(Put(pes, pid, x), pid, y) = Put(pes, pid, y)
  BY DEF Put

\* A stream's unit under assembly is let out.
LetOut(got, pes, pid) == IF pes[pid] = <<>> THEN got ELSE Append(got, pes[pid])

LEMMA Head1 ==
  ASSUME NEW x \in Pieces, NEW u \in AccessUnit, Whole(x, u)
  PROVE  Len(x) \in Nat /\ Len(x) >= 1 /\ x # <<>> /\ x[1].pid = u.pid /\ x[1].unit = u.unit
  BY DEF Whole, AccessUnit, Pieces

LEMMA EmitGathers ==
  ASSUME NEW units \in Seq(AccessUnit), NEW k \in 0 .. Len(units), NEW got, NEW pes, NEW pid \in Streams,
         Gathered(got, pes, units, k)
  PROVE  Gathered(LetOut(got, pes, pid), Put(pes, pid, <<>>), units, k)
<1> DEFINE pes2 == Put(pes, pid, <<>>)
           out == LetOut(got, pes, pid)
<1>1. \A j \in 1 .. k : units[j] \in AccessUnit
  OBVIOUS
<1>2. got \in Seq(Pieces) /\ pes \in [Streams -> Pieces]
  BY DEF Gathered
<1>3. pes2 \in [Streams -> Pieces] /\ pes2[pid] = <<>>
      /\ \A q \in Streams : q # pid => pes2[q] = pes[q]
  BY <1>2 DEF Put, Pieces
<1>4. CASE pes[pid] = <<>>
  <2>1. pes2 = pes /\ out = got
    BY <1>2, <1>3, <1>4 DEF LetOut, Put
  <2> QED
    BY <2>1
<1>5. CASE pes[pid] # <<>>
  <2>1. PICK i \in 1 .. k : units[i].pid = pid /\ Whole(pes[pid], units[i])
    BY <1>5 DEF Gathered
  <2>2. /\ out = Append(got, pes[pid]) /\ out \in Seq(Pieces) /\ Len(out) = Len(got) + 1
        /\ DOMAIN out = 1 .. Len(got) + 1 /\ DOMAIN got = 1 .. Len(got) /\ Len(got) \in Nat
        /\ out[Len(got) + 1] = pes[pid] /\ \A g \in DOMAIN got : out[g] = got[g]
    BY <1>2, <1>5 DEF LetOut
  <2>3. pes[pid] \in Pieces /\ pes[pid][1].pid = pid
    BY <2>1, <1>1, <1>2, Head1
  <2> HIDE DEF pes2, out
  <2>4. ASSUME NEW q \in Streams, pes2[q] # <<>>
        PROVE  \E j \in 1 .. k : units[j].pid = q /\ Whole(pes2[q], units[j])
    BY <2>4, <1>3 DEF Gathered
  <2>5. ASSUME NEW g \in DOMAIN out PROVE \E j \in 1 .. k : Whole(out[g], units[j])
    BY <2>1, <2>2 DEF Gathered
  <2>6. ASSUME NEW j \in 1 .. k
        PROVE  \/ \E g \in DOMAIN out : Whole(out[g], units[j])
               \/ Whole(pes2[units[j].pid], units[j])
    <3>1. units[j].pid \in Streams
      BY <1>1 DEF AccessUnit
    <3>2. CASE \E g \in DOMAIN got : Whole(got[g], units[j])
      BY <3>2, <2>2
    <3>3. CASE Whole(pes[units[j].pid], units[j])
      <4>1. CASE units[j].pid = pid
        BY <4>1, <3>3, <2>2
      <4>2. CASE units[j].pid # pid
        BY <4>2, <3>1, <3>3, <1>3
      <4> QED
        BY <4>1, <4>2
    <3> QED
      BY <3>2, <3>3 DEF Gathered
  <2>7. ASSUME NEW g \in DOMAIN out, NEW h \in DOMAIN out, g < h, out[g][1].pid = out[h][1].pid
        PROVE  out[g][1].unit < out[h][1].unit
    <3>1. g \in DOMAIN got /\ out[g] = got[g]
      BY <2>2, <2>7
    <3>2. CASE h \in DOMAIN got
      BY <3>1, <3>2, <2>2, <2>7 DEF Gathered
    <3>3. CASE h = Len(got) + 1
      BY <3>1, <3>3, <2>2, <2>3, <2>7, <1>5 DEF Gathered
    <3> QED
      BY <3>2, <3>3, <2>2
  <2>8. ASSUME NEW g \in DOMAIN out, NEW q \in Streams, out[g][1].pid = q, pes2[q] # <<>>
        PROVE  out[g][1].unit < pes2[q][1].unit
    <3>1. q # pid /\ pes2[q] = pes[q]
      BY <2>8, <1>3
    <3>2. g \in DOMAIN got /\ out[g] = got[g]
      BY <2>2, <2>3, <2>8, <3>1
    <3> QED
      BY <3>1, <3>2, <2>8 DEF Gathered
  <2>9. Gathered(out, pes2, units, k)
    BY <2>2, <2>4, <2>5, <2>6, <2>7, <2>8, <1>3 DEF Gathered
  <2> QED
    BY <2>9 DEF pes2, out
<1> QED
  BY <1>4, <1>5

\* A unit's pieces come after what was gathered.
LEMMA AddGathers ==
  ASSUME NEW units \in Seq(AccessUnit), NEW k \in 1 .. Len(units), NEW got, NEW pes, NEW x \in Pieces,
         \A i, j \in DOMAIN units : i < j => units[i].unit < units[j].unit,
         Gathered(got, pes, units, k - 1), pes[units[k].pid] = <<>>, Whole(x, units[k])
  PROVE  Gathered(got, Put(pes, units[k].pid, x), units, k)
<1> DEFINE pid == units[k].pid
           pes2 == Put(pes, pid, x)
<1>1. \A j \in 1 .. k : units[j] \in AccessUnit
  OBVIOUS
<1>2. got \in Seq(Pieces) /\ pes \in [Streams -> Pieces] /\ pid \in Streams
  <2>1. got \in Seq(Pieces) /\ pes \in [Streams -> Pieces]
    BY DEF Gathered
  <2>2. units[k] \in AccessUnit
    OBVIOUS
  <2> QED
    BY <2>1, <2>2 DEF AccessUnit
<1>3. pes2 \in [Streams -> Pieces] /\ pes2[pid] = x
      /\ \A q \in Streams : q # pid => pes2[q] = pes[q]
  BY <1>2 DEF Put, Pieces
<1>4. x[1].pid = pid /\ x[1].unit = units[k].unit
  BY <1>1, Head1
<1> HIDE DEF pes2
<1>5. ASSUME NEW q \in Streams, pes2[q] # <<>>
      PROVE  \E j \in 1 .. k : units[j].pid = q /\ Whole(pes2[q], units[j])
  <2>1. CASE q = pid
    BY <2>1, <1>3
  <2>2. CASE q # pid
    <3>1. PICK j \in 1 .. k - 1 : units[j].pid = q /\ Whole(pes[q], units[j])
      BY <2>2, <1>3, <1>5 DEF Gathered
    <3> QED
      BY <3>1, <2>2, <1>3
  <2> QED
    BY <2>1, <2>2
<1>6. ASSUME NEW g \in DOMAIN got PROVE \E j \in 1 .. k - 1 : Whole(got[g], units[j])
  BY DEF Gathered
<1>7. ASSUME NEW j \in 1 .. k
      PROVE  \/ \E g \in DOMAIN got : Whole(got[g], units[j])
             \/ Whole(pes2[units[j].pid], units[j])
  <2>1. CASE j = k
    BY <2>1, <1>3
  <2>2. CASE j # k
    <3>1. j \in 1 .. k - 1 /\ units[j].pid \in Streams
      BY <2>2, <1>1 DEF AccessUnit
    <3>2. CASE Whole(pes[units[j].pid], units[j])
      <4>1. pes[units[j].pid] # <<>>
        BY <3>1, <3>2, <1>1, <1>2, Head1
      <4>2. units[j].pid # pid
        BY <4>1
      <4> QED
        BY <4>2, <3>1, <3>2, <1>3
    <3> QED
      BY <3>1, <3>2 DEF Gathered
  <2> QED
    BY <2>1, <2>2
<1>8. ASSUME NEW g \in DOMAIN got, NEW q \in Streams, got[g][1].pid = q, pes2[q] # <<>>
      PROVE  got[g][1].unit < pes2[q][1].unit
  <2>1. CASE q # pid
    BY <2>1, <1>3, <1>8 DEF Gathered
  <2>2. CASE q = pid
    <3>1. PICK j \in 1 .. k - 1 : Whole(got[g], units[j])
      BY <1>6
    <3>2. got[g] \in Pieces /\ units[j] \in AccessUnit
      BY <1>1, <1>2
    <3>3. got[g][1].unit = units[j].unit
      BY <3>1, <3>2, Head1
    <3>4. units[j].unit < units[k].unit
      <4>1. j \in DOMAIN units /\ k \in DOMAIN units /\ j < k
        OBVIOUS
      <4> QED
        BY <4>1
    <3> QED
      BY <3>3, <3>4, <2>2, <1>3, <1>4
  <2> QED
    BY <2>1, <2>2
<1>9. \A g, h \in DOMAIN got : g < h /\ got[g][1].pid = got[h][1].pid => got[g][1].unit < got[h][1].unit
  BY DEF Gathered
<1>10. \A g \in DOMAIN got : \E j \in 1 .. k : Whole(got[g], units[j])
  BY <1>6
<1>11. Gathered(got, pes2, units, k)
  BY <1>2, <1>3, <1>5, <1>7, <1>8, <1>9, <1>10 DEF Gathered
<1> QED
  BY <1>11 DEF pes2

\* A packet is the i-th of a unit; the packets are PAT, PMT and the units' own, each after those
\* of the unit before it.
Carries(p, unit, i) == p.pid = unit.pid /\ p.unit = unit.unit /\ p.piece = i /\ (p.start <=> i = 1)
Layout(packets, units, off) ==
  /\ off \in [1 .. Len(units) + 1 -> Nat \ {0, 1}] /\ off[1] = 2 /\ off[Len(units) + 1] = Len(packets)
  /\ \A j, k \in 1 .. Len(units) + 1 : j < k => off[j] < off[k]
  /\ packets[1].pid = "pat" /\ packets[2].pid = "pmt"
  /\ \A k \in 1 .. Len(units) :
       /\ off[k + 1] = off[k] + units[k].pieces
       /\ \A i \in 1 .. units[k].pieces : Carries(packets[off[k] + i], units[k], i)
Rising(units) == \A i, j \in DOMAIN units : i < j => units[i].unit < units[j].unit
Muxed(audio, packets, units) ==
  /\ packets \in Pieces /\ units \in Seq(AccessUnit) /\ Rising(units)
  /\ \A i \in DOMAIN units : units[i].pid = "video" \/ audio
  /\ IF units = <<>> THEN packets = <<>> ELSE \E off : Layout(packets, units, off)

State(known, pes, got) == [known |-> known, pes |-> pes, got |-> got]
AllKnown(audio, known) == known \subseteq Pids /\ {"pat", "pmt", "video"} \subseteq known /\ (audio => "audio" \in known)

LEMMA ProcessPat ==
  ASSUME NEW audio, NEW known, NEW pes, NEW got, NEW p, p.pid = "pat", "pat" \in known
  PROVE  Processed(audio, State(known, pes, got), p) = State(known \union {"pmt"}, pes, got)
  BY DEF Processed, State

LEMMA ProcessPmt ==
  ASSUME NEW audio, NEW known \in SUBSET Pids, NEW pes, NEW got, NEW p, p.pid = "pmt", {"pat", "pmt"} \subseteq known
  PROVE  \E all : AllKnown(audio, all) /\ Processed(audio, State(known, pes, got), p) = State(all, pes, got)
<1> DEFINE all == known \union {"video"} \union (IF audio THEN {"audio"} ELSE {})
<1>1. Processed(audio, State(known, pes, got), p) = State(all, pes, got)
  BY DEF Processed, State
<1>2. AllKnown(audio, all)
  BY DEF AllKnown, Pids, Streams
<1> QED
  BY <1>1, <1>2

LEMMA ProcessStart ==
  ASSUME NEW audio, NEW known, NEW pes \in [Streams -> Pieces], NEW got, NEW p, NEW pid \in Streams, p.pid = pid,
         pid \in known, p.start
  PROVE  Processed(audio, State(known, pes, got), p) =
           State(known, Put(pes, pid, <<p>>), LetOut(got, pes, pid))
<1>1. p.pid # "pat" /\ p.pid # "pmt"
  BY DEF Streams
<1>2. Processed(audio, State(known, pes, got), p) = Collect(State(known, pes, got), p)
  BY <1>1 DEF Processed, State
<1> QED
  BY <1>2 DEF Collect, State, Emitted, LetOut, Put

LEMMA ProcessMore ==
  ASSUME NEW audio, NEW known, NEW pes \in [Streams -> Pieces], NEW got, NEW p, NEW pid \in Streams, p.pid = pid,
         pid \in known, ~p.start
  PROVE  Processed(audio, State(known, pes, got), p) =
           State(known, Put(pes, pid, Append(pes[pid], p)), got)
<1>1. p.pid # "pat" /\ p.pid # "pmt"
  BY DEF Streams
<1>2. Processed(audio, State(known, pes, got), p) = Collect(State(known, pes, got), p)
  BY <1>1 DEF Processed, State
<1> QED
  BY <1>2 DEF Collect, State, Put

LEMMA FlushLetsOut ==
  ASSUME NEW audio, NEW known, NEW pes \in [Streams -> Pieces], NEW got
  PROVE  Flushed(State(known, pes, got)) =
           State(known, NoPes,
                 LetOut(LetOut(got, pes, "video"), Put(pes, "video", <<>>), "audio"))
<1> DEFINE state == State(known, pes, got)
           video == LetOut(got, pes, "video")
<1>1. state.pes = pes /\ state.got = got /\ state.known = known
  BY DEF State
<1>2. Emitted(state, "video") = video
  BY <1>1 DEF Emitted, LetOut
<1>3. [state EXCEPT !.got = video] = State(known, pes, video)
  BY DEF State
<1>4. Emitted([state EXCEPT !.got = video], "audio") = LetOut(video, pes, "audio")
  BY <1>3 DEF Emitted, LetOut, State
<1>5. LetOut(video, pes, "audio") = LetOut(video, Put(pes, "video", <<>>), "audio")
  BY DEF LetOut, Streams, Put
<1> HIDE DEF video
<1>7. Flushed(state) = State(known, NoPes, LetOut(video, pes, "audio"))
  BY <1>1, <1>2, <1>4 DEF Flushed, State
<1> QED
  BY <1>5, <1>7 DEF video

\* What was begun of a unit is its first i pieces.
Begun(x, unit, i) ==
  /\ x \in Pieces /\ Len(x) = i
  /\ \A j \in 1 .. i : x[j].pid = unit.pid /\ x[j].unit = unit.unit /\ x[j].piece = j

LEMMA BegunGrows ==
  ASSUME NEW x, NEW unit, NEW i \in Nat, NEW p \in Packet, Begun(x, unit, i), Carries(p, unit, i + 1)
  PROVE  Begun(Append(x, p), unit, i + 1)
  BY DEF Begun, Carries, Pieces

\* The demuxer has i pieces of the k-th unit, and the units before it.
At(audio, state, units, k, i) ==
  \E all, pes, got, x :
    /\ AllKnown(audio, all) /\ Gathered(got, pes, units, k - 1) /\ pes[units[k].pid] = <<>>
    /\ Begun(x, units[k], i)
    /\ state = State(all, Put(pes, units[k].pid, x), got)
Walked(audio, state, units, off, n) ==
  \E k \in 1 .. Len(units) : \E i \in 0 .. units[k].pieces : n = off[k] + i /\ At(audio, state, units, k, i)

\* The demuxer has the first k units, whole.
Has(audio, state, units, k) ==
  \E all, pes, got : AllKnown(audio, all) /\ Gathered(got, pes, units, k) /\ state = State(all, pes, got)

LEMMA UnitWhole ==
  ASSUME NEW audio, NEW units \in Seq(AccessUnit), NEW k \in 1 .. Len(units), NEW state, Rising(units),
         NEW i \in Nat, i = units[k].pieces, At(audio, state, units, k, i)
  PROVE  Has(audio, state, units, k)
<1>1. units[k] \in AccessUnit
  OBVIOUS
<1>2. PICK all, pes, got, x :
        /\ AllKnown(audio, all) /\ Gathered(got, pes, units, k - 1) /\ pes[units[k].pid] = <<>>
        /\ Begun(x, units[k], units[k].pieces)
        /\ state = State(all, Put(pes, units[k].pid, x), got)
  BY DEF At
<1>3. Whole(x, units[k]) /\ x \in Pieces
  BY <1>1, <1>2 DEF Begun, Whole, Pieces
<1>4. Gathered(got, Put(pes, units[k].pid, x), units, k)
  BY <1>2, <1>3, AddGathers DEF Rising
<1> QED
  BY <1>2, <1>4 DEF Has

LEMMA PieceAfterPiece ==
  ASSUME NEW audio, NEW units \in Seq(AccessUnit), NEW k \in 1 .. Len(units), NEW i \in Nat, NEW state, NEW p \in Packet,
         units[k].pid = "video" \/ audio, At(audio, state, units, k, i), Carries(p, units[k], i + 1)
  PROVE  At(audio, Processed(audio, state, p), units, k, i + 1)
<1> DEFINE pid == units[k].pid
<1>1. units[k] \in AccessUnit /\ pid \in Streams /\ p.pid = pid
  <2>1. units[k] \in AccessUnit
    OBVIOUS
  <2> QED
    BY <2>1 DEF AccessUnit, Carries
<1>2. PICK all, pes, got, x :
        /\ AllKnown(audio, all) /\ Gathered(got, pes, units, k - 1) /\ pes[pid] = <<>>
        /\ Begun(x, units[k], i)
        /\ state = State(all, Put(pes, pid, x), got)
  BY DEF At
<1> DEFINE pes2 == Put(pes, pid, x)
<1>3. pes \in [Streams -> Pieces] /\ x \in Pieces /\ pes2 \in [Streams -> Pieces] /\ pes2[pid] = x
  BY <1>1, <1>2, PutIs DEF Gathered, Begun
<1>4. pid \in all
  BY <1>1, <1>2 DEF AllKnown, Streams
<1>5. Begun(Append(x, p), units[k], i + 1)
  BY <1>2, BegunGrows
<1>6. state = State(all, pes2, got)
  BY <1>2
<1>7. \A y : Put(pes2, pid, y) = Put(pes, pid, y)
  BY <1>1, <1>3, PutAgain
<1>8. Processed(audio, state, p) = State(all, Put(pes, pid, Append(x, p)), got)
  <2> HIDE DEF pes2, pid
  <2>1. CASE i = 0
    <3>1. x = <<>> /\ p.start
      BY <2>1, <1>2 DEF Begun, Carries, Pieces
    <3>2. LetOut(got, pes2, pid) = got /\ <<p>> = Append(x, p)
      BY <3>1, <1>3 DEF LetOut
    <3>3. Processed(audio, state, p) = State(all, Put(pes2, pid, <<p>>), got)
      BY <3>1, <3>2, <1>1, <1>3, <1>4, <1>6, ProcessStart
    <3> QED
      BY <3>2, <3>3, <1>7
  <2>2. CASE i # 0
    <3>1. ~p.start
      BY <2>2 DEF Carries
    <3>2. Processed(audio, state, p) = State(all, Put(pes2, pid, Append(x, p)), got)
      BY <3>1, <1>1, <1>3, <1>4, <1>6, ProcessMore
    <3> QED
      BY <3>2, <1>7
  <2> QED
    BY <2>1, <2>2
<1> HIDE DEF pid
<1>9. At(audio, Processed(audio, state, p), units, k, i + 1)
  BY <1>2, <1>5, <1>8 DEF At, pid
<1> QED
  BY <1>9

LEMMA UnitAfterUnit ==
  ASSUME NEW audio, NEW units \in Seq(AccessUnit), NEW k \in 1 .. Len(units), k + 1 \in 1 .. Len(units), NEW state,
         NEW p \in Packet, Rising(units), units[k + 1].pid = "video" \/ audio,
         Has(audio, state, units, k), Carries(p, units[k + 1], 1)
  PROVE  At(audio, Processed(audio, state, p), units, k + 1, 1)
<1> DEFINE pid == units[k + 1].pid
<1>1. units[k + 1] \in AccessUnit /\ pid \in Streams /\ p.pid = pid /\ p.start
  <2>1. units[k + 1] \in AccessUnit
    OBVIOUS
  <2> QED
    BY <2>1 DEF AccessUnit, Carries
<1>2. PICK all, pes, got : AllKnown(audio, all) /\ Gathered(got, pes, units, k) /\ state = State(all, pes, got)
  BY DEF Has
<1>3. pes \in [Streams -> Pieces] /\ pid \in all
  BY <1>1, <1>2 DEF Gathered, AllKnown, Streams
<1> DEFINE pes2 == Put(pes, pid, <<>>)
           out == LetOut(got, pes, pid)
<1>4. Gathered(out, pes2, units, k) /\ pes2[pid] = <<>>
  <2>2. <<>> \in Pieces
    BY DEF Pieces
  <2>1. k \in 0 .. Len(units)
    OBVIOUS
  <2> QED
    BY <2>1, <2>2, <1>1, <1>2, <1>3, EmitGathers, PutIs
<1>5. Processed(audio, state, p) = State(all, Put(pes, pid, <<p>>), out)
  BY <1>1, <1>2, <1>3, ProcessStart
<1>6. Put(pes, pid, <<p>>) = Put(pes2, pid, <<p>>)
  BY <1>1, <1>3, PutAgain
<1>7. Begun(<<p>>, units[k + 1], 1)
  BY DEF Begun, Carries, Pieces
<1>8. (k + 1) - 1 = k
  OBVIOUS
<1> HIDE DEF out, pes2
<1>9. At(audio, Processed(audio, state, p), units, k + 1, 1)
  BY <1>2, <1>4, <1>5, <1>6, <1>7, <1>8 DEF At
<1> QED
  BY <1>9

\* The demuxer's state after n packets of a segment.
LEMMA Walk ==
  ASSUME NEW audio, NEW packets, NEW units, NEW known \in SUBSET Pids, "pat" \in known,
         Muxed(audio, packets, units), units # <<>>, NEW run,
         IsRun(run, audio, Fresh(known, NoPes), packets, Len(packets))
  PROVE  Has(audio, run[Len(packets)], units, Len(units))
<1> DEFINE n == Len(packets)
<1>1. packets \in Pieces /\ units \in Seq(AccessUnit) /\ Rising(units) /\ Len(units) \in Nat \ {0} /\ n \in Nat
  BY DEF Muxed, Pieces
<1>2. PICK off : Layout(packets, units, off)
  BY DEF Muxed
<1>3. /\ off \in [1 .. Len(units) + 1 -> Nat \ {0, 1}] /\ off[1] = 2 /\ off[Len(units) + 1] = n
      /\ packets[1].pid = "pat" /\ packets[2].pid = "pmt"
  BY <1>2 DEF Layout
<1>4. ASSUME NEW k \in 1 .. Len(units)
      PROVE  /\ units[k] \in AccessUnit /\ units[k].pieces \in Nat \ {0} /\ off[k] \in Nat
             /\ off[k + 1] = off[k] + units[k].pieces
             /\ \A i \in 1 .. units[k].pieces : Carries(packets[off[k] + i], units[k], i)
             /\ (units[k].pid = "video" \/ audio)
  <2>1. units[k] \in AccessUnit /\ k \in 1 .. Len(units) + 1 /\ k \in DOMAIN units
    BY <1>1
  <2>2. units[k].pieces \in Nat \ {0}
    BY <2>1 DEF AccessUnit
  <2>3. units[k].pid = "video" \/ audio
    BY <2>1 DEF Muxed
  <2> QED
    BY <2>1, <2>2, <2>3, <1>2, <1>3 DEF Layout
<1>5. n \in Nat /\ n >= 2
  BY <1>1, <1>3
<1>6. \A m \in 1 .. n : packets[m] \in Packet
  BY <1>1 DEF Pieces
<1>7. run[0] = State(known, NoPes, <<>>)
      /\ \A m \in 1 .. n : run[m] = Processed(audio, run[m - 1], packets[m])
  BY <1>5 DEF IsRun, Fresh, State
<1>8. run[1] = State(known \union {"pmt"}, NoPes, <<>>)
  <2>1. 1 \in 1 .. n /\ 1 - 1 = 0
    BY <1>5
  <2>2. run[1] = Processed(audio, State(known, NoPes, <<>>), packets[1])
    BY <2>1, <1>7
  <2> QED
    BY <2>2, <1>3, ProcessPat
<1>9. At(audio, run[2], units, 1, 0)
  <2>1. 2 \in 1 .. n /\ 2 - 1 = 1 /\ known \union {"pmt"} \in SUBSET Pids
    BY <1>5 DEF Pids
  <2>2. run[2] = Processed(audio, State(known \union {"pmt"}, NoPes, <<>>), packets[2])
    BY <2>1, <1>7, <1>8
  <2>3. PICK all : AllKnown(audio, all) /\ run[2] = State(all, NoPes, <<>>)
    BY <2>1, <2>2, <1>3, ProcessPmt
  <2>4. units[1].pid \in Streams
    BY <1>1, <1>4 DEF AccessUnit
  <2>5. NoPes \in [Streams -> Pieces] /\ NoPes[units[1].pid] = <<>> /\ <<>> \in Pieces
    BY <2>4 DEF NoPes, Pieces
  <2>6. NoPes = Put(NoPes, units[1].pid, <<>>)
    BY <2>4 DEF NoPes, Put
  <2>7. Gathered(<<>>, NoPes, units, 0)
    BY <2>5 DEF Gathered, NoPes
  <2>8. Begun(<<>>, units[1], 0)
    BY <2>5 DEF Begun
  <2>9. 1 - 1 = 0
    OBVIOUS
  <2> QED
    BY <2>3, <2>5, <2>6, <2>7, <2>8, <2>9 DEF At
<1> DEFINE S == {m \in 0 .. n : m < 2 \/ Walked(audio, run[m], units, off, m)}
<1>10. 0 \in S
  BY <1>5
<1>11. ASSUME NEW m \in 1 .. n, m - 1 \in S PROVE m \in S
  <2>1. CASE m < 2
    BY <2>1
  <2>2. CASE m = 2
    <3>1. 1 \in 1 .. Len(units) /\ 0 \in 0 .. units[1].pieces /\ 2 = off[1] + 0
      BY <1>1, <1>3, <1>4
    <3>2. Walked(audio, run[2], units, off, 2)
      BY <3>1, <1>9 DEF Walked
    <3> QED
      BY <3>2, <2>2
  <2>3. CASE m > 2
    <3>1. Walked(audio, run[m - 1], units, off, m - 1)
      <4>1. m - 1 < 2 \/ Walked(audio, run[m - 1], units, off, m - 1)
        BY <1>11, Zenon
      <4>2. ~ (m - 1 < 2)
        BY <2>3, <1>1
      <4> QED
        BY <4>1, <4>2, Zenon
    <3>2. PICK k \in 1 .. Len(units) : \E i \in 0 .. units[k].pieces :
            m - 1 = off[k] + i /\ At(audio, run[m - 1], units, k, i)
      BY <3>1 DEF Walked
    <3>21. PICK i \in 0 .. units[k].pieces : m - 1 = off[k] + i /\ At(audio, run[m - 1], units, k, i)
      BY <3>2
    <3>3. run[m] = Processed(audio, run[m - 1], packets[m]) /\ packets[m] \in Packet
      BY <1>6, <1>7
    <3>4. CASE i < units[k].pieces
      <4>1. i \in Nat /\ i + 1 \in 1 .. units[k].pieces /\ i + 1 \in 0 .. units[k].pieces
            /\ m = off[k] + (i + 1)
        <5>1. units[k].pieces \in Nat /\ off[k] \in Nat /\ m \in Nat /\ m - 1 = off[k] + i
          BY <3>21, <1>4
        <5>2. i \in 0 .. units[k].pieces /\ i < units[k].pieces
          BY <3>4
        <5>3. i \in Nat /\ i + 1 \in 1 .. units[k].pieces /\ i + 1 \in 0 .. units[k].pieces
          BY ONLY <5>1, <5>2
        <5>4. m = off[k] + (i + 1)
          BY ONLY <5>1, <5>3
        <5> QED
          BY <5>3, <5>4
      <4>2. Carries(packets[m], units[k], i + 1) /\ (units[k].pid = "video" \/ audio)
        BY <4>1, <1>4
      <4>3. At(audio, run[m], units, k, i + 1)
        BY <4>1, <4>2, <3>21, <3>3, <1>1, PieceAfterPiece
      <4>4. Walked(audio, run[m], units, off, m)
        BY <4>1, <4>3 DEF Walked
      <4> QED
        BY <4>4
    <3>5. CASE i = units[k].pieces
      <4>1. i \in Nat /\ m = off[k + 1] + 1
        BY <3>21, <3>5, <1>4
      <4>2. k + 1 \in 1 .. Len(units)
        <5>1. off[k + 1] < n
          <6>1. off[k + 1] \in Nat /\ m \in Nat /\ m <= n
            BY <1>1, <1>3
          <6> QED
            BY <6>1, <4>1, <1>1
        <5> QED
          BY <5>1, <1>1, <1>3
      <4>3. Has(audio, run[m - 1], units, k)
        BY <4>1, <3>21, <3>5, <1>1, UnitWhole
      <4>4. 1 \in 1 .. units[k + 1].pieces /\ 1 \in 0 .. units[k + 1].pieces
            /\ (units[k + 1].pid = "video" \/ audio) /\ Carries(packets[m], units[k + 1], 1)
        BY <4>1, <4>2, <1>4
      <4>5. At(audio, run[m], units, k + 1, 1)
        BY <4>2, <4>3, <4>4, <3>3, <1>1, UnitAfterUnit
      <4>6. Walked(audio, run[m], units, off, m)
        BY <4>1, <4>2, <4>4, <4>5 DEF Walked
      <4> QED
        BY <4>6
    <3> QED
      BY <3>21, <3>4, <3>5, <1>4
  <2> QED
    BY <2>1, <2>2, <2>3
<1>12. n \in S
  <2> HIDE DEF S
  <2>1. \A i \in 0 .. n : i \in S
    BY <1>1, <1>10, <1>11, UpTo
  <2> QED
    BY <2>1, <1>1
<1>13. PICK k \in 1 .. Len(units) : \E i \in 0 .. units[k].pieces :
         n = off[k] + i /\ At(audio, run[n], units, k, i)
  BY <1>5, <1>12 DEF Walked
<1>131. PICK i \in 0 .. units[k].pieces : n = off[k] + i /\ At(audio, run[n], units, k, i)
  BY <1>13
<1>14. k = Len(units) /\ i = units[k].pieces
  <2>1. i <= units[k].pieces /\ off[k + 1] = off[k] + units[k].pieces /\ off[k] \in Nat
        /\ units[k].pieces \in Nat /\ k + 1 \in 1 .. Len(units) + 1
    BY <1>4, <1>1
  <2>2. k # Len(units) => off[k + 1] < n
    <3>1. k # Len(units) => k + 1 < Len(units) + 1 /\ Len(units) + 1 \in 1 .. Len(units) + 1
      BY <1>1
    <3> QED
      BY <3>1, <2>1, <1>2, <1>3 DEF Layout
  <2>3. off[k + 1] \in Nat
    BY <2>1, <1>3
  <2>4. k = Len(units)
    BY ONLY <2>1, <2>2, <2>3, <1>131, <1>5
  <2> QED
    BY <2>1, <2>4, <1>3, <1>131
<1>15. i \in Nat
  BY <1>4
<1> QED
  BY <1>131, <1>14, <1>15, <1>1, UnitWhole

\* What a segment gave: each of its units, whole, and nothing else, in order in each stream.
Right(got, units) ==
  /\ \A u \in DOMAIN units : \E g \in DOMAIN got : Whole(got[g], units[u])
  /\ \A g \in DOMAIN got : \E u \in DOMAIN units : Whole(got[g], units[u])
  /\ \A g, h \in DOMAIN got : g < h /\ got[g][1].pid = got[h][1].pid => got[g][1].unit < got[h][1].unit

LEMMA FlushedRight ==
  ASSUME NEW audio, NEW units \in Seq(AccessUnit), NEW state, Has(audio, state, units, Len(units))
  PROVE  /\ Flushed(state).pes = NoPes /\ Right(Flushed(state).got, units)
         /\ AllKnown(audio, Flushed(state).known)
<1> DEFINE n == Len(units)
<1>1. PICK all, pes, got : AllKnown(audio, all) /\ Gathered(got, pes, units, n) /\ state = State(all, pes, got)
  BY DEF Has
<1>2. pes \in [Streams -> Pieces] /\ n \in 0 .. n /\ n \in Nat
  BY <1>1 DEF Gathered
<1> DEFINE got1 == LetOut(got, pes, "video")
           pes1 == Put(pes, "video", <<>>)
           got2 == LetOut(got1, pes1, "audio")
           pes2 == Put(pes1, "audio", <<>>)
<1>3. "video" \in Streams /\ "audio" \in Streams /\ <<>> \in Pieces
  BY DEF Streams, Pieces
<1>4. Gathered(got1, pes1, units, n)
  BY <1>1, <1>2, <1>3, EmitGathers
<1>5. pes1 \in [Streams -> Pieces] /\ pes1["video"] = <<>>
  BY <1>2, <1>3, PutIs
<1> HIDE DEF pes1, got1
<1>6. Gathered(got2, pes2, units, n)
  BY <1>2, <1>3, <1>4, EmitGathers
<1>7. pes2 \in [Streams -> Pieces] /\ pes2["video"] = <<>> /\ pes2["audio"] = <<>>
  <2>1. pes2 \in [Streams -> Pieces] /\ pes2["audio"] = <<>>
        /\ \A q \in Streams : q # "audio" => pes2[q] = pes1[q]
    BY <1>3, <1>5, PutIs
  <2>2. "video" # "audio"
    OBVIOUS
  <2> HIDE DEF pes2
  <2> QED
    BY <2>1, <2>2, <1>3, <1>5
<1>8. \A u \in DOMAIN units : units[u] \in AccessUnit /\ units[u].pid \in Streams /\ u \in 1 .. n /\ units[u].pieces > 0
  <2>1. \A u \in DOMAIN units : units[u] \in AccessUnit
    OBVIOUS
  <2> QED
    BY <2>1 DEF AccessUnit
<1>9. \A u \in DOMAIN units : pes2[units[u].pid] = <<>>
  BY <1>7, <1>8 DEF Streams
<1>10. Right(got2, units)
  <2>1. ASSUME NEW u \in DOMAIN units PROVE \E g \in DOMAIN got2 : Whole(got2[g], units[u])
    <3>1. ~ Whole(<<>>, units[u])
      BY <1>8 DEF Whole
    <3> QED
      BY <3>1, <1>6, <1>8, <1>9 DEF Gathered
  <2>2. ASSUME NEW g \in DOMAIN got2 PROVE \E u \in DOMAIN units : Whole(got2[g], units[u])
    BY <1>6 DEF Gathered
  <2>3. \A g, h \in DOMAIN got2 : g < h /\ got2[g][1].pid = got2[h][1].pid => got2[g][1].unit < got2[h][1].unit
    BY <1>6 DEF Gathered
  <2> QED
    BY <2>1, <2>2, <2>3 DEF Right
<1>11. Flushed(state) = State(all, NoPes, got2)
  BY <1>1, <1>2, FlushLetsOut DEF got1, pes1
<1> QED
  BY <1>1, <1>10, <1>11 DEF State

\* What a demuxer makes of a segment, new or with what it knew.
LEMMA DemuxedRight ==
  ASSUME NEW packets, NEW units, NEW known \in SUBSET Pids, "pat" \in known,
         Muxed(wAudio, packets, units), units # <<>>
  PROVE  LET state == Demuxed(known, NoPes, packets)
         IN  /\ state.pes = NoPes /\ Right(state.got, units)
             /\ state.known \in SUBSET Pids /\ "pat" \in state.known
<1>1. units \in Seq(AccessUnit) /\ Len(packets) \in Nat
  BY DEF Muxed, Pieces
<1>2. PICK run : /\ IsRun(run, wAudio, Fresh(known, NoPes), packets, Len(packets))
                 /\ Demuxed(known, NoPes, packets) = Flushed(run[Len(packets)])
  BY <1>1, DemuxedByRun
<1>3. Has(wAudio, run[Len(packets)], units, Len(units))
  BY <1>2, Walk
<1> QED
  BY <1>1, <1>2, <1>3, FlushedRight DEF AllKnown

-----------------------------------------------------------------------------
\* Continuity counters: the packets of a PID, from segment to segment.
PacketsAt(segments, out, s) == IF s \in DOMAIN segments THEN segments[s].packets ELSE out
Here(segments, out, pid, s, i) ==
  /\ s \in 1 .. Len(segments) + 1 /\ i \in DOMAIN PacketsAt(segments, out, s)
  /\ PacketsAt(segments, out, s)[i].pid = pid
Earlier(s, i, t, j) == s < t \/ (s = t /\ i < j)
RunOn(segments, out, pid) ==
  \A s, i, t, j \in Nat :
    Here(segments, out, pid, s, i) /\ Here(segments, out, pid, t, j) /\ Earlier(s, i, t, j) =>
      \/ \E u, k \in Nat : Here(segments, out, pid, u, k) /\ Earlier(s, i, u, k) /\ Earlier(u, k, t, j)
      \/ PacketsAt(segments, out, t)[j].cc = (PacketsAt(segments, out, s)[i].cc + 1) % Counters
\* The PID's counter is the one after its last packet's.
GoOn(segments, out, counter, pid) ==
  \A s, i \in Nat : Here(segments, out, pid, s, i) =>
    \/ \E u, k \in Nat : Here(segments, out, pid, u, k) /\ Earlier(s, i, u, k)
    \/ counter = (PacketsAt(segments, out, s)[i].cc + 1) % Counters

\* Packets that take a PID's counter from c to c2.
Chain(w, pid, c, c2) ==
  /\ \A i \in DOMAIN w : w[i].pid = pid =>
       /\ (\A k \in DOMAIN w : w[k].pid = pid => i <= k) => w[i].cc = c
       /\ (\A k \in DOMAIN w : w[k].pid = pid => k <= i) => c2 = (w[i].cc + 1) % Counters
  /\ \A i, j \in DOMAIN w : i < j /\ w[i].pid = pid /\ w[j].pid = pid =>
       (\E k \in DOMAIN w : i < k /\ k < j /\ w[k].pid = pid) \/ w[j].cc = (w[i].cc + 1) % Counters
  /\ (\A i \in DOMAIN w : w[i].pid # pid) => c2 = c

LEMMA RunGrows ==
  ASSUME NEW segments, Len(segments) \in Nat, DOMAIN segments = 1 .. Len(segments),
         NEW out \in Pieces, NEW w \in Pieces, NEW pid, NEW c, NEW c2,
         RunOn(segments, out, pid), GoOn(segments, out, c, pid), Chain(w, pid, c, c2)
  PROVE  RunOn(segments, out \o w, pid) /\ GoOn(segments, out \o w, c2, pid)
<1> DEFINE L == Len(segments)
           n == Len(out)
           both == out \o w
<1>1. n \in Nat /\ Len(w) \in Nat /\ DOMAIN out = 1 .. n /\ DOMAIN w = 1 .. Len(w)
      /\ DOMAIN both = 1 .. n + Len(w)
      /\ (\A i \in 1 .. n : both[i] = out[i]) /\ (\A i \in 1 .. Len(w) : both[n + i] = w[i])
  BY DEF Pieces
<1> HIDE DEF both
<1>2. \A s \in 1 .. L : PacketsAt(segments, both, s) = PacketsAt(segments, out, s)
  BY DEF PacketsAt
<1>3. PacketsAt(segments, both, L + 1) = both /\ PacketsAt(segments, out, L + 1) = out
  BY DEF PacketsAt
<1>4. ASSUME NEW s \in Nat, NEW i \in Nat, Here(segments, out, pid, s, i)
      PROVE  /\ Here(segments, both, pid, s, i)
             /\ PacketsAt(segments, both, s)[i] = PacketsAt(segments, out, s)[i]
             /\ \A j \in Nat : j >= 1 => Earlier(s, i, L + 1, n + j)
  BY <1>1, <1>2, <1>3, <1>4 DEF Here, Earlier
<1>5. ASSUME NEW j \in DOMAIN w, w[j].pid = pid
      PROVE  Here(segments, both, pid, L + 1, n + j) /\ PacketsAt(segments, both, L + 1)[n + j] = w[j]
             /\ L + 1 \in Nat /\ n + j \in Nat
  BY <1>1, <1>3, <1>5 DEF Here
<1>6. ASSUME NEW s \in Nat, NEW i \in Nat, Here(segments, both, pid, s, i),
             ~ Here(segments, out, pid, s, i)
      PROVE  s = L + 1 /\ \E j \in DOMAIN w : i = n + j /\ w[j].pid = pid
  <2>1. s = L + 1 /\ i \in 1 .. n + Len(w) /\ both[i].pid = pid /\ ~ (i \in 1 .. n)
    BY <1>1, <1>2, <1>3, <1>6 DEF Here
  <2>2. i - n \in DOMAIN w /\ i = n + (i - n)
    BY <2>1, <1>1
  <2> QED
    BY <2>1, <2>2, <1>1
<1>7. ASSUME NEW s \in Nat, NEW i \in Nat, NEW t \in Nat, NEW j \in Nat,
             Here(segments, both, pid, s, i), Here(segments, both, pid, t, j), Earlier(s, i, t, j),
             ~ \E u, k \in Nat : Here(segments, both, pid, u, k) /\ Earlier(s, i, u, k) /\ Earlier(u, k, t, j)
      PROVE  PacketsAt(segments, both, t)[j].cc = (PacketsAt(segments, both, s)[i].cc + 1) % Counters
  <2>1. CASE Here(segments, out, pid, s, i) /\ Here(segments, out, pid, t, j)
    <3>1. ~ \E u, k \in Nat : Here(segments, out, pid, u, k) /\ Earlier(s, i, u, k) /\ Earlier(u, k, t, j)
      BY <1>4, <1>7
    <3>2. PacketsAt(segments, out, t)[j].cc = (PacketsAt(segments, out, s)[i].cc + 1) % Counters
      BY <3>1, <2>1, <1>7 DEF RunOn
    <3> QED
      BY <3>2, <2>1, <1>4
  <2>2. CASE Here(segments, out, pid, s, i) /\ ~ Here(segments, out, pid, t, j)
    <3>1. t = L + 1
      BY <2>2, <1>6, <1>7
    <3>2. PICK y \in DOMAIN w : j = n + y /\ w[y].pid = pid
      BY <2>2, <1>6, <1>7
    <3>3. y \in Nat /\ y >= 1
      BY <1>1
    <3>4. \A k \in DOMAIN w : w[k].pid = pid => y <= k
      <4>1. SUFFICES ASSUME NEW k \in DOMAIN w, w[k].pid = pid, k < y PROVE FALSE
        BY <1>1
      <4>2. Earlier(s, i, L + 1, n + k) /\ Earlier(L + 1, n + k, L + 1, n + y)
        BY <4>1, <2>2, <1>1, <1>4 DEF Earlier
      <4> QED
        BY <4>1, <4>2, <3>1, <3>2, <1>5, <1>7
    <3>5. w[y].cc = c
      BY <3>2, <3>4 DEF Chain
    <3>6. ~ \E u, k \in Nat : Here(segments, out, pid, u, k) /\ Earlier(s, i, u, k)
      BY <1>4, <1>7, <3>1, <3>2, <3>3
    <3>7. c = (PacketsAt(segments, out, s)[i].cc + 1) % Counters
      BY <3>6, <2>2 DEF GoOn
    <3> QED
      BY <3>1, <3>2, <3>5, <3>7, <2>2, <1>4, <1>5
  <2>3. CASE ~ Here(segments, out, pid, s, i)
    <3>1. s = L + 1
      BY <2>3, <1>6, <1>7
    <3>2. PICK x \in DOMAIN w : i = n + x /\ w[x].pid = pid
      BY <2>3, <1>6, <1>7
    <3>3. ~ Here(segments, out, pid, t, j)
      BY <3>1, <3>2, <1>1, <1>3, <1>7 DEF Here, Earlier
    <3>4. t = L + 1
      BY <3>3, <1>6, <1>7
    <3>5. PICK y \in DOMAIN w : j = n + y /\ w[y].pid = pid
      BY <3>3, <1>6, <1>7
    <3>6. x < y
      BY <3>1, <3>2, <3>4, <3>5, <1>1, <1>7 DEF Earlier
    <3>7. ~ \E k \in DOMAIN w : x < k /\ k < y /\ w[k].pid = pid
      <4>1. SUFFICES ASSUME NEW k \in DOMAIN w, x < k, k < y, w[k].pid = pid PROVE FALSE
        OBVIOUS
      <4>2. Earlier(L + 1, n + x, L + 1, n + k) /\ Earlier(L + 1, n + k, L + 1, n + y)
        BY <4>1, <1>1 DEF Earlier
      <4> QED
        BY <4>1, <4>2, <3>1, <3>2, <3>4, <3>5, <1>5, <1>7
    <3>8. w[y].cc = (w[x].cc + 1) % Counters
      BY <3>2, <3>5, <3>6, <3>7 DEF Chain
    <3> QED
      BY <3>1, <3>2, <3>4, <3>5, <3>8, <1>5
  <2> QED
    BY <2>1, <2>2, <2>3
<1>8. ASSUME NEW s \in Nat, NEW i \in Nat, Here(segments, both, pid, s, i),
             ~ \E u, k \in Nat : Here(segments, both, pid, u, k) /\ Earlier(s, i, u, k)
      PROVE  c2 = (PacketsAt(segments, both, s)[i].cc + 1) % Counters
  <2>1. CASE Here(segments, out, pid, s, i)
    <3>1. ~ \E u, k \in Nat : Here(segments, out, pid, u, k) /\ Earlier(s, i, u, k)
      BY <1>4, <1>8
    <3>2. \A j \in DOMAIN w : w[j].pid # pid
      <4>1. \A j \in DOMAIN w : j \in Nat /\ j >= 1
        BY <1>1
      <4> QED
        BY <4>1, <2>1, <1>4, <1>5, <1>8
    <3>3. c2 = c
      BY <3>2 DEF Chain
    <3> QED
      BY <3>1, <3>3, <2>1, <1>4 DEF GoOn
  <2>2. CASE ~ Here(segments, out, pid, s, i)
    <3>1. s = L + 1
      BY <2>2, <1>6, <1>8
    <3>2. PICK x \in DOMAIN w : i = n + x /\ w[x].pid = pid
      BY <2>2, <1>6, <1>8
    <3>3. \A k \in DOMAIN w : w[k].pid = pid => k <= x
      <4>1. SUFFICES ASSUME NEW k \in DOMAIN w, w[k].pid = pid, x < k PROVE FALSE
        BY <1>1
      <4>2. Earlier(L + 1, n + x, L + 1, n + k)
        BY <4>1, <1>1 DEF Earlier
      <4> QED
        BY <4>1, <4>2, <3>1, <3>2, <1>5, <1>8
    <3>4. c2 = (w[x].cc + 1) % Counters
      BY <3>2, <3>3 DEF Chain
    <3> QED
      BY <3>1, <3>2, <3>4, <1>5
  <2> QED
    BY <2>1, <2>2
<1>9. RunOn(segments, both, pid)
  BY <1>7 DEF RunOn
<1>10. GoOn(segments, both, c2, pid)
  BY <1>8 DEF GoOn
<1> QED
  BY <1>9, <1>10 DEF both

\* A segment is closed: places move, none comes between two others.
LEMMA RunShifts ==
  ASSUME NEW segments, NEW out, NEW segments2, NEW d \in Nat, NEW pid, NEW c,
         Len(segments) \in Nat, Len(segments2) \in Nat, Len(segments2) + d = Len(segments) + 1,
         DOMAIN segments = 1 .. Len(segments), DOMAIN segments2 = 1 .. Len(segments2),
         \A s \in 1 .. Len(segments2) : segments2[s].packets = PacketsAt(segments, out, s + d),
         RunOn(segments, out, pid), GoOn(segments, out, c, pid)
  PROVE  RunOn(segments2, <<>>, pid) /\ GoOn(segments2, <<>>, c, pid)
<1>1. ASSUME NEW s \in Nat, NEW i \in Nat, Here(segments2, <<>>, pid, s, i)
      PROVE  /\ s >= 1 /\ s + d \in Nat
             /\ Here(segments, out, pid, s + d, i)
             /\ PacketsAt(segments2, <<>>, s)[i] = PacketsAt(segments, out, s + d)[i]
  <2>1. PacketsAt(segments2, <<>>, Len(segments2) + 1) = <<>>
    BY DEF PacketsAt
  <2>2. s \in 1 .. Len(segments2)
    BY <1>1, <2>1 DEF Here
  <2>3. PacketsAt(segments2, <<>>, s) = PacketsAt(segments, out, s + d)
    BY <2>2 DEF PacketsAt
  <2> QED
    BY <2>2, <2>3, <1>1 DEF Here
<1>2. ASSUME NEW s \in Nat, NEW i \in Nat, s > d, Here(segments, out, pid, s, i)
      PROVE  s - d \in Nat /\ Here(segments2, <<>>, pid, s - d, i)
  <2>1. s - d \in 1 .. Len(segments2) /\ (s - d) + d = s
    BY <1>2 DEF Here
  <2>2. PacketsAt(segments2, <<>>, s - d) = PacketsAt(segments, out, s)
    BY <2>1 DEF PacketsAt
  <2> QED
    BY <2>1, <2>2, <1>2 DEF Here
<1>3. ASSUME NEW s \in Nat, NEW i \in Nat, NEW t \in Nat, NEW j \in Nat,
             Here(segments2, <<>>, pid, s, i), Here(segments2, <<>>, pid, t, j), Earlier(s, i, t, j),
             ~ \E u, k \in Nat : Here(segments2, <<>>, pid, u, k) /\ Earlier(s, i, u, k) /\ Earlier(u, k, t, j)
      PROVE  PacketsAt(segments2, <<>>, t)[j].cc = (PacketsAt(segments2, <<>>, s)[i].cc + 1) % Counters
  <2>1. Earlier(s + d, i, t + d, j)
    BY <1>3 DEF Earlier
  <2>2. ~ \E u, k \in Nat : Here(segments, out, pid, u, k) /\ Earlier(s + d, i, u, k) /\ Earlier(u, k, t + d, j)
    <3>1. SUFFICES ASSUME NEW u \in Nat, NEW k \in Nat, Here(segments, out, pid, u, k),
                          Earlier(s + d, i, u, k), Earlier(u, k, t + d, j)
                   PROVE  FALSE
      OBVIOUS
    <3>2. u > d /\ s >= 1
      BY <3>1, <1>1, <1>3 DEF Earlier
    <3>3. u - d \in Nat /\ Here(segments2, <<>>, pid, u - d, k)
      BY <3>1, <3>2, <1>2
    <3>4. Earlier(s, i, u - d, k) /\ Earlier(u - d, k, t, j)
      BY <3>1 DEF Earlier
    <3> QED
      BY <3>3, <3>4, <1>3
  <2>3. PacketsAt(segments, out, t + d)[j].cc = (PacketsAt(segments, out, s + d)[i].cc + 1) % Counters
    <3>1. /\ s + d \in Nat /\ t + d \in Nat
          /\ Here(segments, out, pid, s + d, i) /\ Here(segments, out, pid, t + d, j)
      BY <1>1, <1>3
    <3> QED
      BY <2>1, <2>2, <3>1 DEF RunOn
  <2> QED
    BY <2>3, <1>1, <1>3
<1>4. ASSUME NEW s \in Nat, NEW i \in Nat, Here(segments2, <<>>, pid, s, i),
             ~ \E u, k \in Nat : Here(segments2, <<>>, pid, u, k) /\ Earlier(s, i, u, k)
      PROVE  c = (PacketsAt(segments2, <<>>, s)[i].cc + 1) % Counters
  <2>1. ~ \E u, k \in Nat : Here(segments, out, pid, u, k) /\ Earlier(s + d, i, u, k)
    <3>1. SUFFICES ASSUME NEW u \in Nat, NEW k \in Nat, Here(segments, out, pid, u, k),
                          Earlier(s + d, i, u, k)
                   PROVE  FALSE
      OBVIOUS
    <3>2. u > d /\ s >= 1
      BY <3>1, <1>1, <1>4 DEF Earlier
    <3>3. u - d \in Nat /\ Here(segments2, <<>>, pid, u - d, k)
      BY <3>1, <3>2, <1>2
    <3>4. Earlier(s, i, u - d, k)
      BY <3>1 DEF Earlier
    <3> QED
      BY <3>3, <3>4, <1>4
  <2>2. c = (PacketsAt(segments, out, s + d)[i].cc + 1) % Counters
    <3>1. s + d \in Nat /\ Here(segments, out, pid, s + d, i)
      BY <1>1, <1>4
    <3> QED
      BY <2>1, <3>1 DEF GoOn
  <2> QED
    BY <2>2, <1>1, <1>4
<1>5. RunOn(segments2, <<>>, pid)
  BY <1>3 DEF RunOn
<1>6. GoOn(segments2, <<>>, c, pid)
  BY <1>4 DEF GoOn
<1> QED
  BY <1>5, <1>6

-----------------------------------------------------------------------------
\* One unit more.
Counter == 0 .. Counters - 1

LEMMA CountersArePositive == Counters \in Nat /\ Counters > 0 /\ Kept \in Nat /\ Kept > 0 /\ MaxUnits \in Nat
  BY TransportAssumption

\* Remainders: unique, and what adding one does to them.
LEMMA SameRest ==
  ASSUME NEW p \in Int, NEW q \in Int, NEW r \in Counter, NEW t \in Counter,
         Counters * p + r = Counters * q + t
  PROVE  r = t
<1>1. r \in Nat /\ t \in Nat /\ r < Counters /\ t < Counters
  BY CountersArePositive DEF Counter
<1>2. \A x, y \in Int : x < y => Counters * x + Counters <= Counters * y
  <2>1. SUFFICES ASSUME NEW x \in Int, NEW y \in Int, x < y PROVE Counters * x + Counters <= Counters * y
    OBVIOUS
  <2>2. y - x - 1 \in Nat
    BY <2>1
  <2>3. Counters * (y - x - 1) >= 0
    BY <2>2, CountersArePositive
  <2>4. Counters * (y - x - 1) = Counters * y - Counters * x - Counters
    BY CountersArePositive
  <2> QED
    BY <2>3, <2>4, CountersArePositive
<1>3. Counters * p \in Int /\ Counters * q \in Int /\ Counters \in Int
  BY CountersArePositive
<1>4. ~ (p < q)
  <2>1. p < q => Counters * p + Counters <= Counters * q
    BY <1>2
  <2> QED
    BY <2>1, <1>1, <1>3
<1>5. ~ (q < p)
  <2>1. q < p => Counters * q + Counters <= Counters * p
    BY <1>2
  <2> QED
    BY <2>1, <1>1, <1>3
<1>6. p = q
  BY <1>4, <1>5
<1> QED
  BY <1>6, <1>1, <1>3

LEMMA Rest ==
  ASSUME NEW a \in Int, NEW q \in Int, NEW r \in Counter, a = Counters * q + r
  PROVE  a % Counters = r
<1>1. a % Counters \in Counter /\ a = Counters * (a \div Counters) + (a % Counters) /\ a \div Counters \in Int
  BY CountersArePositive DEF Counter
<1> QED
  BY <1>1, SameRest

LEMMA OneLonger ==
  ASSUME NEW a \in Nat
  PROVE  a % Counters \in Counter /\ ((a % Counters) + 1) % Counters = (a + 1) % Counters
<1> DEFINE q == a \div Counters
           r == a % Counters
<1>1. q \in Int /\ r \in Counter /\ a = Counters * q + r
  BY CountersArePositive DEF Counter
<1> HIDE DEF q, r
<1>2. CASE r + 1 < Counters
  <2>1. r + 1 \in Counter
    BY <1>1, <1>2, CountersArePositive DEF Counter
  <2>2. a + 1 = Counters * q + (r + 1) /\ r + 1 = Counters * 0 + (r + 1)
    BY <1>1, <2>1, CountersArePositive DEF Counter
  <2>3. (a + 1) % Counters = r + 1 /\ (r + 1) % Counters = r + 1
    BY <2>1, <2>2, <1>1, Rest DEF Counter
  <2> QED
    BY <2>3, <1>1 DEF r
<1>3. CASE r + 1 = Counters
  <2>1. 0 \in Counter /\ r + 1 \in Int
    BY <1>3, CountersArePositive DEF Counter
  <2>2. a + 1 = Counters * (q + 1) + 0 /\ r + 1 = Counters * 1 + 0
    <3>1. Counters * (q + 1) = Counters * q + Counters
      BY <1>1, CountersArePositive
    <3> QED
      BY <3>1, <1>1, <1>3, CountersArePositive DEF Counter
  <2>3. (a + 1) % Counters = 0 /\ (r + 1) % Counters = 0
    BY <2>1, <2>2, <1>1, Rest
  <2> QED
    BY <2>3, <1>1 DEF r
<1> QED
  BY <1>1, <1>2, <1>3, CountersArePositive DEF Counter, r

\* The packets of a unit carry it, and count on from the counter.
LEMMA PacketsAre ==
  ASSUME NEW unit, unit.pid \in Pids, unit.unit \in Nat, unit.pieces \in Nat, NEW c \in Counter
  PROVE  /\ Packets(unit, c) \in Pieces /\ Len(Packets(unit, c)) = unit.pieces
         /\ \A i \in 1 .. unit.pieces :
              /\ Carries(Packets(unit, c)[i], unit, i)
              /\ Packets(unit, c)[i].cc = (c + i - 1) % Counters
<1>1. \A i \in 1 .. unit.pieces : c + i - 1 \in Nat
  BY CountersArePositive DEF Counter
<1>2. \A i \in 1 .. unit.pieces : (c + i - 1) % Counters \in Counter
  BY <1>1, OneLonger
<1>3. \A i \in 1 .. unit.pieces : Packets(unit, c)[i] \in Packet
  BY <1>2 DEF Packets, Packet, Counter
<1>4. Packets(unit, c) \in Pieces /\ Len(Packets(unit, c)) = unit.pieces
  <2>1. Packets(unit, c) = [i \in 1 .. unit.pieces |-> Packets(unit, c)[i]]
    BY DEF Packets
  <2>2. PICK n \in Nat : n = unit.pieces
    OBVIOUS
  <2>3. \A f \in [1 .. n -> Packet] : f \in Seq(Packet) /\ Len(f) = n
    OBVIOUS
  <2>4. Packets(unit, c) \in [1 .. n -> Packet]
    BY <2>1, <2>2, <1>3
  <2> QED
    BY <2>2, <2>3, <2>4 DEF Pieces
<1> QED
  BY <1>4 DEF Packets, Carries

\* What one unit adds: n packets of PAT and PMT, then its own.
Adds(w, unit, n, counter) ==
  /\ w \in Pieces /\ Len(w) = n + unit.pieces
  /\ \A i \in 1 .. unit.pieces :
       Carries(w[n + i], unit, i) /\ w[n + i].cc = (counter[unit.pid] + i - 1) % Counters
  /\ n = 2 => /\ w[1].pid = "pat" /\ w[1].cc = counter["pat"]
              /\ w[2].pid = "pmt" /\ w[2].cc = counter["pmt"]

LEMMA CounterRest == ASSUME NEW c \in Counter PROVE c % Counters = c /\ (c + 0) % Counters = c
<1>1. c \in Nat /\ c \in Int /\ c = Counters * 0 + c /\ c + 0 = c
  BY CountersArePositive DEF Counter
<1> QED
  BY <1>1, Rest

\* PAT, PMT and what follows, one after the other.
LEMMA ThreeJoined ==
  ASSUME NEW S, NEW a \in Seq(S), NEW b \in Seq(S), NEW c \in Seq(S), Len(a) = 1, Len(b) = 1
  PROVE  /\ a \o b \o c \in Seq(S) /\ Len(a \o b \o c) = 2 + Len(c)
         /\ (a \o b \o c)[1] = a[1] /\ (a \o b \o c)[2] = b[1]
         /\ \A i \in 1 .. Len(c) : (a \o b \o c)[2 + i] = c[i]
<1>1. a \o b \in Seq(S) /\ Len(a \o b) = Len(a) + Len(b)
  BY ONLY a \in Seq(S), b \in Seq(S)
<1>2. /\ \A i \in 1 .. Len(a) : (a \o b)[i] = a[i]
      /\ \A i \in Len(a) + 1 .. Len(a) + Len(b) : (a \o b)[i] = b[i - Len(a)]
  BY ONLY a \in Seq(S), b \in Seq(S)
<1>3. a \o b \in Seq(S) /\ Len(a \o b) = 2
  BY <1>1
<1>4. 1 \in 1 .. Len(a) /\ 2 \in Len(a) + 1 .. Len(a) + Len(b) /\ 2 - Len(a) = 1
  OBVIOUS
<1>5. (a \o b)[1] = a[1] /\ (a \o b)[2] = b[1]
  BY ONLY <1>2, <1>4
<1>6. PICK ab \in Seq(S) : ab = a \o b
  BY <1>3
<1>7. ab \o c \in Seq(S) /\ Len(ab \o c) = 2 + Len(c)
  BY <1>3, <1>6
<1>8. (ab \o c)[1] = ab[1] /\ (ab \o c)[2] = ab[2]
  BY <1>3, <1>6
<1>9. ASSUME NEW i \in 1 .. Len(c) PROVE (ab \o c)[2 + i] = c[i]
  <2>1. 2 + i \in 1 .. Len(ab) + Len(c) /\ ~ (2 + i <= Len(ab)) /\ (2 + i) - Len(ab) = i
    BY <1>3, <1>6
  <2> QED
    BY <2>1
<1> QED
  BY <1>5, <1>6, <1>7, <1>8, <1>9

\* What add_frame and add_audio_frame write is that, and takes every counter on.
LEMMA WrittenIs ==
  ASSUME NEW unit \in AccessUnit, wCounter \in [Pids -> Counter], wPsi \in BOOLEAN
  PROVE  Adds(Written(unit), unit, IF wPsi THEN 0 ELSE 2, wCounter)
<1>1. unit.pid \in Pids /\ unit.unit \in Nat /\ unit.pieces \in Nat
  BY DEF AccessUnit, Pids
<1> DEFINE own == Packets(unit, wCounter[unit.pid])
           pat == Packets(Psi("pat"), wCounter["pat"])
           pmt == Packets(Psi("pmt"), wCounter["pmt"])
<1>2. own \in Pieces /\ Len(own) = unit.pieces
      /\ \A i \in 1 .. unit.pieces :
           Carries(own[i], unit, i) /\ own[i].cc = (wCounter[unit.pid] + i - 1) % Counters
  BY <1>1, PacketsAre
<1>3. ASSUME NEW pid \in {"pat", "pmt"}
      PROVE  LET p == Packets(Psi(pid), wCounter[pid])
             IN  p \in Pieces /\ Len(p) = 1 /\ p[1].pid = pid /\ p[1].cc = wCounter[pid]
  <2>1. PICK u : u = Psi(pid)
    OBVIOUS
  <2>2. u.pid = pid /\ u.unit \in Nat /\ u.pieces = 1 /\ u.pieces \in Nat /\ u.pid \in Pids
    BY <2>1 DEF Psi, Pids
  <2>3. PICK c \in Counter : c = wCounter[pid]
    BY DEF Pids
  <2>4. /\ Packets(u, c) \in Pieces /\ Len(Packets(u, c)) = u.pieces
        /\ \A i \in 1 .. u.pieces :
             Carries(Packets(u, c)[i], u, i) /\ Packets(u, c)[i].cc = (c + i - 1) % Counters
    BY <2>2, PacketsAre
  <2>5. 1 \in 1 .. u.pieces /\ c + 1 - 1 = c /\ c % Counters = c
    BY <2>2, CounterRest, CountersArePositive DEF Counter
  <2>6. Packets(u, c)[1].pid = pid /\ Packets(u, c)[1].cc = c
    BY <2>2, <2>4, <2>5 DEF Carries
  <2> QED
    BY <2>1, <2>2, <2>3, <2>4, <2>6
<1>4. pat \in Pieces /\ Len(pat) = 1 /\ pat[1].pid = "pat" /\ pat[1].cc = wCounter["pat"]
  BY <1>3
<1>5. pmt \in Pieces /\ Len(pmt) = 1 /\ pmt[1].pid = "pmt" /\ pmt[1].cc = wCounter["pmt"]
  BY <1>3
<1>6. CASE wPsi
  <2>1. Written(unit) = own
    BY <1>6 DEF Written, Numbered
  <2>2. \A i \in 1 .. unit.pieces : 0 + i = i
    BY <1>1
  <2> HIDE DEF own, pat, pmt
  <2> QED
    BY <2>1, <2>2, <1>1, <1>2, <1>6 DEF Adds
<1>7. CASE ~ wPsi
  <2>1. Numbered(Psi("pat")) = pat /\ Numbered(Psi("pmt")) = pmt /\ Numbered(unit) = own
    BY DEF Numbered, Psi
  <2>2. Written(unit) = Numbered(Psi("pat")) \o Numbered(Psi("pmt")) \o Numbered(unit)
    BY <1>7 DEF Written
  <2> HIDE DEF own, pat, pmt
  <2>3. Written(unit) = pat \o pmt \o own
    BY <2>1, <2>2
  <2>4. Written(unit) \in Pieces /\ Len(Written(unit)) = 2 + unit.pieces
        /\ Written(unit)[1] = pat[1] /\ Written(unit)[2] = pmt[1]
        /\ \A i \in 1 .. unit.pieces : Written(unit)[2 + i] = own[i]
    BY <2>3, <1>2, <1>4, <1>5, ThreeJoined DEF Pieces
  <2> QED
    BY <2>4, <1>2, <1>4, <1>5, <1>7 DEF Adds
<1> QED
  BY <1>6, <1>7

LEMMA AddsChain ==
  ASSUME NEW unit \in AccessUnit, NEW counter \in [Pids -> Counter], NEW n \in {0, 2}, NEW w,
         Adds(w, unit, n, counter), NEW pid \in Pids, NEW more \in Nat,
         more = IF pid = unit.pid THEN unit.pieces ELSE IF n = 0 \/ pid \in Streams THEN 0 ELSE 1
  PROVE  Chain(w, pid, counter[pid], (counter[pid] + more) % Counters)
<1>1. unit.pid \in Streams /\ unit.pieces \in Nat \ {0} /\ counter[pid] \in Counter
      /\ unit.pid # "pat" /\ unit.pid # "pmt"
  BY DEF AccessUnit, Streams
<1>2. /\ w \in Pieces /\ Len(w) = n + unit.pieces /\ DOMAIN w = 1 .. n + unit.pieces
      /\ \A i \in 1 .. unit.pieces : w[n + i].pid = unit.pid
      /\ \A i \in 1 .. unit.pieces : w[n + i].cc = (counter[unit.pid] + i - 1) % Counters
      /\ n = 2 => /\ w[1].pid = "pat" /\ w[1].cc = counter["pat"]
                  /\ w[2].pid = "pmt" /\ w[2].cc = counter["pmt"]
  BY <1>1 DEF Adds, Carries, Pieces
<1>3. ASSUME NEW i \in DOMAIN w, i > n PROVE i - n \in 1 .. unit.pieces /\ n + (i - n) = i
  BY <1>1, <1>2, <1>3
<1>4. \A i \in DOMAIN w : i <= n => n = 2 /\ i \in {1, 2}
  BY <1>1, <1>2
<1>5. CASE pid = unit.pid
  <2>1. \A i \in DOMAIN w : w[i].pid = pid <=> i > n
    BY <1>1, <1>2, <1>3, <1>4, <1>5
  <2>2. \A i \in DOMAIN w : i > n => w[i].cc = (counter[pid] + (i - n) - 1) % Counters
    BY <1>2, <1>3, <1>5
  <2>3. n + 1 \in DOMAIN w /\ n + unit.pieces \in DOMAIN w /\ more = unit.pieces
    BY <1>1, <1>2, <1>5
  <2>4. ASSUME NEW i \in DOMAIN w, i > n
        PROVE  (w[i].cc + 1) % Counters = (counter[pid] + (i - n)) % Counters
    <3>1. counter[pid] + (i - n) - 1 \in Nat
          /\ (counter[pid] + (i - n) - 1) + 1 = counter[pid] + (i - n)
      BY <2>4, <1>1, <1>2 DEF Counter
    <3> QED
      BY <3>1, <2>2, <2>4, OneLonger
  <2>5. ASSUME NEW i \in DOMAIN w, w[i].pid = pid, \A k \in DOMAIN w : w[k].pid = pid => i <= k
        PROVE  w[i].cc = counter[pid]
    <3>1. i = n + 1
      BY <2>1, <2>3, <2>5, <1>2
    <3>2. counter[pid] + (i - n) - 1 = counter[pid]
      BY <3>1, <1>1 DEF Counter
    <3> QED
      BY <3>1, <3>2, <2>2, <2>3, <1>1, CounterRest
  <2>6. ASSUME NEW i \in DOMAIN w, w[i].pid = pid, \A k \in DOMAIN w : w[k].pid = pid => k <= i
        PROVE  (counter[pid] + more) % Counters = (w[i].cc + 1) % Counters
    <3>1. i = n + unit.pieces /\ i > n
      BY <2>1, <2>3, <2>6, <1>1, <1>2
    <3>2. i - n = more
      BY <3>1, <2>3, <1>1
    <3> QED
      BY <3>1, <3>2, <2>4
  <2>7. ASSUME NEW i \in DOMAIN w, NEW j \in DOMAIN w, i < j, w[i].pid = pid, w[j].pid = pid,
               ~ \E k \in DOMAIN w : i < k /\ k < j /\ w[k].pid = pid
        PROVE  w[j].cc = (w[i].cc + 1) % Counters
    <3>1. i > n /\ j > n
      BY <2>1, <2>7
    <3>2. j = i + 1
      <4>1. i + 1 \in DOMAIN w /\ i + 1 > n
        BY <3>1, <2>7, <1>1, <1>2
      <4> QED
        BY <4>1, <2>1, <2>7, <1>2
    <3>3. counter[pid] + (j - n) - 1 = counter[pid] + (i - n)
      BY <3>2, <1>1, <1>2 DEF Counter
    <3> QED
      BY <3>1, <3>3, <2>2, <2>4
  <2>8. ~ \A i \in DOMAIN w : w[i].pid # pid
    BY <2>1, <2>3
  <2> QED
    BY <2>5, <2>6, <2>7, <2>8 DEF Chain
<1>6. CASE pid # unit.pid /\ (n = 0 \/ pid \in Streams)
  <2>1. \A i \in DOMAIN w : w[i].pid # pid
    <3>1. \A i \in DOMAIN w : i > n => w[i].pid = unit.pid
      BY <1>2, <1>3
    <3>2. "pat" \notin Streams /\ "pmt" \notin Streams
      BY DEF Streams
    <3> QED
      BY <3>1, <3>2, <1>2, <1>4, <1>6
  <2>2. (counter[pid] + more) % Counters = counter[pid]
    BY <1>1, <1>6, CounterRest
  <2> QED
    BY <2>1, <2>2 DEF Chain
<1>7. CASE pid # unit.pid /\ n = 2 /\ pid \notin Streams
  <2>1. PICK m \in {1, 2} : m \in DOMAIN w /\ w[m].pid = pid /\ w[m].cc = counter[pid]
    <3>1. pid \in {"pat", "pmt"} /\ 1 \in DOMAIN w /\ 2 \in DOMAIN w
      BY <1>1, <1>2, <1>7 DEF Pids
    <3> QED
      BY <3>1, <1>2, <1>7
  <2>2. \A i \in DOMAIN w : w[i].pid = pid => i = m
    <3>1. \A i \in DOMAIN w : i > n => w[i].pid = unit.pid
      BY <1>2, <1>3
    <3>2. "pat" # "pmt"
      OBVIOUS
    <3>3. \A i \in DOMAIN w : i > n \/ i \in {1, 2}
      BY <1>2, <1>4
    <3> QED
      BY <3>1, <3>2, <3>3, <2>1, <1>2, <1>7
  <2>3. more = 1
    BY <1>7
  <2> QED
    BY <2>1, <2>2, <2>3, <1>2 DEF Chain
<1> QED
  BY <1>5, <1>6, <1>7

\* What a segment holds after packets are appended.
LEMMA Extended ==
  ASSUME NEW out \in Pieces, NEW w \in Pieces
  PROVE  /\ out \o w \in Pieces /\ Len(out \o w) = Len(out) + Len(w)
         /\ \A i \in 1 .. Len(out) : (out \o w)[i] = out[i]
         /\ \A i \in 1 .. Len(w) : (out \o w)[Len(out) + i] = w[i]
<1>1. out \o w \in Pieces /\ Len(out \o w) = Len(out) + Len(w)
  BY DEF Pieces
<1>2. ASSUME NEW i \in 1 .. Len(out) PROVE (out \o w)[i] = out[i]
  BY DEF Pieces
<1>3. ASSUME NEW i \in 1 .. Len(w) PROVE (out \o w)[Len(out) + i] = w[i]
  <2>1. Len(out) \in Nat /\ Len(w) \in Nat
    BY DEF Pieces
  <2>2. Len(out) + i \in 1 .. Len(out) + Len(w) /\ ~ (Len(out) + i <= Len(out)) /\ (Len(out) + i) - Len(out) = i
    BY <2>1
  <2> QED
    BY <2>2 DEF Pieces
<1> QED
  BY <1>1, <1>2, <1>3

LEMMA WithOneMore ==
  ASSUME NEW S, NEW s \in Seq(S), NEW e \in S
  PROVE  /\ Append(s, e) \in Seq(S) /\ Append(s, e) # <<>>
         /\ Len(s) \in Nat /\ Len(Append(s, e)) = Len(s) + 1 /\ DOMAIN Append(s, e) = 1 .. Len(s) + 1
         /\ Append(s, e)[Len(s) + 1] = e /\ \A i \in 1 .. Len(s) : Append(s, e)[i] = s[i]
<1>1. Append(s, e) \in Seq(S) /\ Len(s) \in Nat /\ Len(Append(s, e)) = Len(s) + 1
  OBVIOUS
<1>2. DOMAIN Append(s, e) = 1 .. Len(s) + 1 /\ Append(s, e) # <<>>
  BY <1>1
<1>3. Append(s, e)[Len(s) + 1] = e /\ \A i \in 1 .. Len(s) : Append(s, e)[i] = s[i]
  OBVIOUS
<1> QED
  BY <1>1, <1>2, <1>3

\* The open segment after one unit more.
LEMMA MuxedGrows ==
  ASSUME NEW audio, NEW out, NEW units, Muxed(audio, out, units),
         NEW unit \in AccessUnit, unit.pid = "video" \/ audio, \A i \in DOMAIN units : units[i].unit < unit.unit,
         NEW w, NEW counter, Adds(w, unit, IF units = <<>> THEN 2 ELSE 0, counter)
  PROVE  Muxed(audio, out \o w, Append(units, unit))
<1> DEFINE L == Len(units)
           both == out \o w
           longer == Append(units, unit)
           more == unit.pieces
<1>1. out \in Pieces /\ units \in Seq(AccessUnit) /\ Rising(units) /\ w \in Pieces /\ L \in Nat /\ Len(out) \in Nat
      /\ \A i \in DOMAIN units : units[i].pid = "video" \/ audio
  <2>1. /\ out \in Pieces /\ units \in Seq(AccessUnit) /\ Rising(units)
        /\ \A i \in DOMAIN units : units[i].pid = "video" \/ audio
    BY DEF Muxed
  <2>2. w \in Pieces
    BY DEF Adds
  <2>3. L \in Nat /\ Len(out) \in Nat
    BY <2>1 DEF Pieces
  <2> QED
    BY <2>1, <2>2, <2>3
<1>2. more \in Nat /\ more > 0 /\ unit.unit \in Nat
  BY DEF AccessUnit
<1>3. /\ both \in Pieces /\ Len(both) = Len(out) + Len(w)
      /\ \A i \in 1 .. Len(out) : both[i] = out[i]
      /\ \A i \in 1 .. Len(w) : both[Len(out) + i] = w[i]
  BY <1>1, Extended
<1>4. /\ longer \in Seq(AccessUnit) /\ Len(longer) = L + 1 /\ DOMAIN longer = 1 .. L + 1 /\ longer # <<>>
      /\ longer[L + 1] = unit /\ \A i \in 1 .. L : longer[i] = units[i]
  BY <1>1, WithOneMore
<1> HIDE DEF both, longer
<1>5. Rising(longer)
  <2>1. ASSUME NEW i \in 1 .. L + 1, NEW j \in 1 .. L + 1, i < j PROVE longer[i].unit < longer[j].unit
    <3>1. i \in 1 .. L /\ i \in DOMAIN units
      BY <2>1, <1>1
    <3>2. CASE j = L + 1
      BY <3>1, <3>2, <1>4
    <3>3. CASE j # L + 1
      <4>1. j \in 1 .. L /\ j \in DOMAIN units
        BY <3>3, <1>1
      <4> QED
        BY <4>1, <3>1, <2>1, <1>1, <1>4 DEF Rising
    <3> QED
      BY <3>2, <3>3
  <2> QED
    BY <2>1, <1>4 DEF Rising
<1>6. \A i \in DOMAIN longer : longer[i].pid = "video" \/ audio
  <2>1. ASSUME NEW i \in 1 .. L + 1 PROVE longer[i].pid = "video" \/ audio
    <3>1. CASE i = L + 1
      BY <3>1, <1>4
    <3>2. CASE i # L + 1
      <4>1. i \in 1 .. L /\ i \in DOMAIN units
        BY <3>2, <1>1
      <4> QED
        BY <4>1, <1>1, <1>4
    <3> QED
      BY <3>1, <3>2
  <2> QED
    BY <2>1, <1>4
<1>7. CASE units = <<>>
  <2>1. out = <<>> /\ L = 0 /\ Len(out) = 0
    BY <1>7 DEF Muxed
  <2>2. /\ Len(w) = 2 + more /\ w[1].pid = "pat" /\ w[2].pid = "pmt"
        /\ \A i \in 1 .. more : Carries(w[2 + i], unit, i)
    BY <1>7 DEF Adds
  <2>3. /\ Len(both) = 2 + more /\ both[1] = w[1] /\ both[2] = w[2]
        /\ \A i \in 1 .. more : both[2 + i] = w[2 + i]
    <3>1. \A i \in 1 .. Len(w) : both[i] = w[i]
      BY <1>3, <2>1
    <3>2. 1 \in 1 .. Len(w) /\ 2 \in 1 .. Len(w) /\ \A i \in 1 .. more : 2 + i \in 1 .. Len(w)
      BY <2>2, <1>2
    <3> QED
      BY <3>1, <3>2, <2>1, <2>2, <1>2, <1>3
  <2> DEFINE off == [j \in 1 .. 2 |-> IF j = 1 THEN 2 ELSE 2 + more]
  <2>4. off \in [1 .. L + 2 -> Nat \ {0, 1}] /\ off[1] = 2 /\ off[2] = 2 + more
    BY <2>1, <1>2
  <2>5. \A j, k \in 1 .. L + 2 : j < k => off[j] < off[k]
    BY <2>1, <2>4, <1>2
  <2> HIDE DEF off
  <2>6. ASSUME NEW k \in 1 .. L + 1
        PROVE  /\ off[k + 1] = off[k] + longer[k].pieces
               /\ \A i \in 1 .. longer[k].pieces : Carries(both[off[k] + i], longer[k], i)
    <3>1. k = 1 /\ longer[k] = unit
      BY <2>1, <1>4
    <3> QED
      BY <3>1, <2>2, <2>3, <2>4
  <2>7. (L + 1) + 1 = L + 2
    BY <1>1
  <2>8. Layout(both, longer, off)
    BY <2>1, <2>2, <2>3, <2>4, <2>5, <2>6, <2>7, <1>4 DEF Layout
  <2> QED
    BY <2>8, <1>3, <1>4, <1>5, <1>6 DEF Muxed, both, longer
<1>8. CASE units # <<>>
  <2>1. PICK old : Layout(out, units, old)
    BY <1>8 DEF Muxed
  <2>2. /\ Len(w) = more
        /\ \A i \in 1 .. more : Carries(w[i], unit, i)
    <3>1. \A i \in 1 .. more : 0 + i = i
      BY <1>2
    <3>2. Len(w) = 0 + more /\ \A i \in 1 .. more : Carries(w[0 + i], unit, i)
      BY <1>8 DEF Adds
    <3> QED
      BY <3>1, <3>2, <1>2
  <2>3. /\ old \in [1 .. L + 1 -> Nat \ {0, 1}] /\ old[1] = 2 /\ old[L + 1] = Len(out)
        /\ \A j, k \in 1 .. L + 1 : j < k => old[j] < old[k]
        /\ out[1].pid = "pat" /\ out[2].pid = "pmt"
        /\ \A k \in 1 .. L :
             /\ old[k + 1] = old[k] + units[k].pieces
             /\ \A i \in 1 .. units[k].pieces : Carries(out[old[k] + i], units[k], i)
    BY <2>1 DEF Layout
  <2>4. Len(out) > 1 /\ 1 \in 1 .. Len(out) /\ 2 \in 1 .. Len(out)
    BY <2>3, <1>1
  <2> DEFINE off == [j \in 1 .. L + 2 |-> IF j = L + 2 THEN Len(out) + more ELSE old[j]]
  <2>5. /\ off \in [1 .. L + 2 -> Nat \ {0, 1}] /\ off[1] = 2 /\ off[L + 2] = Len(out) + more
        /\ \A j \in 1 .. L + 1 : off[j] = old[j]
    <3>1. \A j \in 1 .. L + 2 : j # L + 2 => j \in 1 .. L + 1 /\ old[j] \in Nat \ {0, 1}
      BY <2>3, <1>1
    <3>2. Len(out) + more \in Nat \ {0, 1} /\ 1 \in 1 .. L + 1 /\ 1 # L + 2 /\ L + 2 \in 1 .. L + 2
          /\ \A j \in 1 .. L + 1 : j \in 1 .. L + 2 /\ j # L + 2
      BY <2>4, <1>1, <1>2
    <3> QED
      BY <3>1, <3>2, <2>3
  <2> HIDE DEF off
  <2>6. ASSUME NEW j \in 1 .. L + 2, NEW k \in 1 .. L + 2, j < k PROVE off[j] < off[k]
    <3>1. j \in 1 .. L + 1 /\ off[j] = old[j] /\ old[j] \in Nat /\ old[j] <= Len(out)
      <4>1. j \in 1 .. L + 1 /\ L + 1 \in 1 .. L + 1 /\ (j = L + 1 \/ j < L + 1)
        BY <2>6, <1>1
      <4>2. j < L + 1 => old[j] < old[L + 1]
        BY <4>1, <2>3
      <4> QED
        BY <4>1, <4>2, <2>3, <2>5, <1>1
    <3>2. CASE k = L + 2
      BY <3>1, <3>2, <2>5, <1>1, <1>2
    <3>3. CASE k # L + 2
      <4>1. k \in 1 .. L + 1
        BY <3>3, <1>1
      <4> QED
        BY <4>1, <3>1, <2>3, <2>5, <2>6
    <3> QED
      BY <3>2, <3>3
  <2>7. ASSUME NEW k \in 1 .. L + 1
        PROVE  /\ off[k + 1] = off[k] + longer[k].pieces
               /\ \A i \in 1 .. longer[k].pieces : Carries(both[off[k] + i], longer[k], i)
    <3>1. CASE k = L + 1
      <4>1. off[k] = Len(out) /\ k + 1 = L + 2 /\ longer[k] = unit
        BY <3>1, <2>3, <2>5, <1>1, <1>4
      <4>2. \A i \in 1 .. more : both[Len(out) + i] = w[i]
        BY <2>2, <1>3
      <4> QED
        BY <4>1, <4>2, <2>2, <2>5
    <3>2. CASE k # L + 1
      <4>1. k \in 1 .. L /\ k + 1 \in 1 .. L + 1 /\ k \in 1 .. L + 1 /\ longer[k] = units[k]
        BY <3>2, <1>1, <1>4
      <4>2. off[k] = old[k] /\ off[k + 1] = old[k + 1] /\ old[k + 1] = old[k] + units[k].pieces
            /\ \A i \in 1 .. units[k].pieces : Carries(out[old[k] + i], units[k], i)
        BY <4>1, <2>3, <2>5
      <4>3. old[k + 1] <= Len(out)
        <5>1. L + 1 \in 1 .. L + 1 /\ (k + 1 = L + 1 \/ k + 1 < L + 1)
          BY <4>1, <1>1
        <5>2. k + 1 < L + 1 => old[k + 1] < old[L + 1]
          BY <4>1, <5>1, <2>3
        <5>3. old[k + 1] \in Nat
          BY <4>1, <2>3
        <5> QED
          BY <5>1, <5>2, <5>3, <2>3, <1>1
      <4>4. units[k].pieces \in Nat /\ old[k] \in Nat
        <5>1. units[k] \in AccessUnit
          BY <4>1, <1>1
        <5> QED
          BY <5>1, <4>1, <2>3 DEF AccessUnit
      <4>5. ASSUME NEW i \in 1 .. units[k].pieces PROVE Carries(both[off[k] + i], longer[k], i)
        <5>1. old[k] + i \in 1 .. Len(out)
          BY <4>2, <4>3, <4>4, <1>1
        <5> QED
          BY <5>1, <4>1, <4>2, <1>3
      <4> QED
        BY <4>1, <4>2, <4>5
    <3> QED
      BY <3>1, <3>2
  <2>8. both[1].pid = "pat" /\ both[2].pid = "pmt" /\ Len(both) = Len(out) + more /\ (L + 1) + 1 = L + 2
    BY <2>2, <2>3, <2>4, <1>1, <1>3
  <2>9. Layout(both, longer, off)
    BY <2>5, <2>6, <2>7, <2>8, <1>4 DEF Layout
  <2> QED
    BY <2>9, <1>3, <1>4, <1>5, <1>6 DEF Muxed, both, longer
<1> QED
  BY <1>7, <1>8

-----------------------------------------------------------------------------
\* What holds in every state of muxer, playlist and demuxer.
SegmentsAre(audio, segments) ==
  /\ segments \in Seq([packets : Pieces, units : Seq(AccessUnit)])
  /\ \A s \in DOMAIN segments :
       segments[s].units # <<>> /\ Muxed(audio, segments[s].packets, segments[s].units)
Continuous(segments, out, counter) ==
  \A pid \in Pids : RunOn(segments, out, pid) /\ GoOn(segments, out, counter[pid], pid)

TransportInv ==
  /\ TransportTypeOK
  /\ wSeq \in Nat /\ Len(wSegments) <= wSeq /\ "pat" \in xKnown /\ (wPsi <=> wUnits # <<>>)
  /\ \A i \in DOMAIN wUnits : wUnits[i].unit < wNext
  /\ Muxed(wAudio, wOut, wUnits) /\ SegmentsAre(wAudio, wSegments)
  /\ xAt \in Listed => Right(xGot, Segment(xAt).units)
  /\ Continuous(wSegments, wOut, wCounter)

\* The initial states are well, and every step keeps them so: a unit muxed, a segment closed, a
\* segment read.
LEMMA TransportStarts == TransportInit => TransportInv
<1> SUFFICES ASSUME TransportInit PROVE TransportInv
  OBVIOUS
<1>1. Counters \in Nat /\ Counters > 0 /\ Kept \in Nat /\ Kept > 0 /\ MaxUnits \in Nat
  BY CountersArePositive
<1>2. TransportTypeOK
  <2>1. wCounter \in [Pids -> 0 .. Counters - 1]
    BY <1>1 DEF TransportInit
  <2>2. wNext \in 1 .. MaxUnits + 1 /\ Len(wSegments) <= Kept /\ xAt \in 0 .. wSeq /\ xKnown \subseteq Pids
    BY <1>1 DEF TransportInit, Pids
  <2> QED
    BY <2>1, <2>2 DEF TransportInit, TransportTypeOK
<1>3. Muxed(wAudio, wOut, wUnits)
  <2>1. <<>> \in Seq(Packet) /\ <<>> \in Seq(AccessUnit)
    OBVIOUS
  <2> QED
    BY <2>1 DEF TransportInit, Muxed, Rising, Pieces
<1>4. SegmentsAre(wAudio, wSegments)
  BY DEF TransportInit, SegmentsAre
<1>5. xAt \notin Listed
  BY DEF TransportInit, Listed
<1>6. Continuous(wSegments, wOut, wCounter)
  <2>1. ASSUME NEW pid, NEW s, NEW i PROVE ~ Here(wSegments, wOut, pid, s, i)
    BY DEF TransportInit, Here, PacketsAt
  <2> QED
    BY <2>1 DEF Continuous, RunOn, GoOn
<1> QED
  BY <1>2, <1>3, <1>4, <1>5, <1>6 DEF TransportInit, TransportInv

LEMMA AddKeeps ==
  ASSUME TransportInv, NEW unit \in AccessUnit, unit.unit = wNext, unit.pid = "video" \/ wAudio, Add(unit)
  PROVE  TransportInv'
<1>1. /\ wAudio \in BOOLEAN /\ wPsi \in BOOLEAN /\ wCounter \in [Pids -> Counter]
      /\ wNext \in 1 .. MaxUnits + 1 /\ Len(wSegments) <= Kept
      /\ xKnown \subseteq Pids /\ xPes = NoPes /\ xAt \in 0 .. wSeq
  BY DEF TransportInv, TransportTypeOK, Counter
<1> DEFINE n == IF wPsi THEN 0 ELSE 2
           w == Written(unit)
<1>2. Adds(w, unit, n, wCounter)
  BY <1>1, WrittenIs
<1>3. n = IF wUnits = <<>> THEN 2 ELSE 0
  BY DEF TransportInv
<1>4. n \in {0, 2} /\ w \in Pieces
  BY <1>2 DEF Adds
<1>5. /\ wOut' = wOut \o w /\ wUnits' = Append(wUnits, unit) /\ wPsi' = TRUE /\ wNext' = wNext + 1
      /\ wNext <= MaxUnits /\ wAudio' = wAudio /\ wSegments' = wSegments /\ wSeq' = wSeq
      /\ xKnown' = xKnown /\ xPes' = xPes /\ xAt' = xAt /\ xGot' = xGot
      /\ wCounter' = [pid \in Pids |-> (wCounter[pid] + CountedAfter(unit, pid)) % Counters]
  BY DEF Add, playlistVars, demuxerVars
<1>6. ASSUME NEW pid \in Pids
      PROVE  /\ CountedAfter(unit, pid) \in Nat
             /\ CountedAfter(unit, pid) =
                  IF pid = unit.pid THEN unit.pieces ELSE IF n = 0 \/ pid \in Streams THEN 0 ELSE 1
  BY DEF CountedAfter, AccessUnit
<1> HIDE DEF n, w
<1>7. Muxed(wAudio', wOut', wUnits')
  <2>1. Muxed(wAudio, wOut, wUnits) /\ \A i \in DOMAIN wUnits : wUnits[i].unit < unit.unit
    BY DEF TransportInv
  <2>2. Muxed(wAudio, wOut \o w, Append(wUnits, unit))
    BY <1>2, <1>3, <2>1, MuxedGrows
  <2> QED
    BY <2>2, <1>5
<1>8. wCounter' \in [Pids -> Counter]
  <2>1. ASSUME NEW pid \in Pids PROVE (wCounter[pid] + CountedAfter(unit, pid)) % Counters \in Counter
    <3>1. wCounter[pid] + CountedAfter(unit, pid) \in Nat
      BY <1>1, <1>6 DEF Counter
    <3> QED
      BY <3>1, OneLonger
  <2> QED
    BY <2>1, <1>5
<1>9. wSegments \in Seq([packets : Pieces, units : Seq(AccessUnit)]) /\ wOut \in Pieces /\ wUnits \in Seq(AccessUnit)
  BY DEF TransportInv, SegmentsAre, Muxed
<1>10. Continuous(wSegments', wOut', wCounter')
  <2>1. ASSUME NEW pid \in Pids
        PROVE  /\ RunOn(wSegments, wOut \o w, pid)
               /\ GoOn(wSegments, wOut \o w, (wCounter[pid] + CountedAfter(unit, pid)) % Counters, pid)
    <3>1. Chain(w, pid, wCounter[pid], (wCounter[pid] + CountedAfter(unit, pid)) % Counters)
      BY <1>1, <1>2, <1>4, <1>6, AddsChain
    <3>2. RunOn(wSegments, wOut, pid) /\ GoOn(wSegments, wOut, wCounter[pid], pid)
      BY DEF TransportInv, Continuous
    <3> QED
      BY <3>1, <3>2, <1>4, <1>9, RunGrows
  <2>2. \A pid \in Pids : wCounter'[pid] = (wCounter[pid] + CountedAfter(unit, pid)) % Counters
    BY <1>5
  <2> QED
    BY <2>1, <2>2, <1>5 DEF Continuous
<1>11. \A i \in DOMAIN wUnits' : wUnits'[i].unit < wNext'
  <2>1. Len(wUnits) \in Nat /\ DOMAIN wUnits = 1 .. Len(wUnits) /\ DOMAIN wUnits' = 1 .. Len(wUnits) + 1
        /\ wUnits'[Len(wUnits) + 1] = unit /\ \A i \in DOMAIN wUnits : wUnits'[i] = wUnits[i]
    BY <1>5, <1>9
  <2>2. ASSUME NEW i \in DOMAIN wUnits PROVE wUnits[i].unit < wNext + 1
    <3>1. wUnits[i].unit \in Nat /\ wUnits[i].unit < wNext
      <4>1. wUnits[i] \in AccessUnit
        BY <1>9
      <4> QED
        BY <4>1 DEF AccessUnit, TransportInv
    <3> QED
      BY <3>1, <1>1
  <2>3. ASSUME NEW i \in DOMAIN wUnits' PROVE wUnits'[i].unit < wNext'
    <3>1. i \in DOMAIN wUnits \/ i = Len(wUnits) + 1
      BY <2>1
    <3>2. wNext < wNext + 1
      BY <1>1
    <3> QED
      BY <3>1, <3>2, <2>1, <2>2, <1>5
  <2> QED
    BY <2>3
<1>12. wUnits' # <<>>
  BY <1>5, <1>9
<1>13. TransportTypeOK'
  BY <1>1, <1>5, <1>8, CountersArePositive DEF TransportTypeOK, Counter, NoPes
<1>14. (xAt \in Listed => Right(xGot, Segment(xAt).units))'
  BY <1>5 DEF TransportInv, Listed, Segment
<1>15. SegmentsAre(wAudio', wSegments') /\ wSeq' \in Nat /\ Len(wSegments') <= wSeq' /\ "pat" \in xKnown'
  BY <1>5 DEF TransportInv
<1> QED
  BY <1>5, <1>7, <1>10, <1>11, <1>12, <1>13, <1>14, <1>15 DEF TransportInv

LEMMA CloseKeeps == ASSUME TransportInv, CloseSegment PROVE TransportInv'
<1>1. /\ wAudio \in BOOLEAN /\ wCounter \in [Pids -> Counter] /\ wNext \in 1 .. MaxUnits + 1
      /\ xKnown \subseteq Pids /\ xPes = NoPes /\ xAt \in 0 .. wSeq /\ wSeq \in Nat
      /\ Len(wSegments) <= Kept /\ Len(wSegments) <= wSeq
  BY DEF TransportInv, TransportTypeOK, Counter
<1> DEFINE L == Len(wSegments)
           last == [packets |-> wOut, units |-> wUnits]
           all == Append(wSegments, last)
           d == IF L + 1 > Kept THEN 1 ELSE 0
<1>2. /\ wUnits # <<>> /\ wSeq' = wSeq + 1 /\ wOut' = <<>> /\ wUnits' = <<>> /\ wPsi' = FALSE
      /\ wSegments' = (IF Len(all) > Kept THEN Tail(all) ELSE all)
      /\ wAudio' = wAudio /\ wCounter' = wCounter /\ wNext' = wNext
      /\ xKnown' = xKnown /\ xPes' = xPes /\ xAt' = xAt /\ xGot' = xGot
  BY DEF CloseSegment, PsiAgain, demuxerVars
<1>3. /\ wSegments \in Seq([packets : Pieces, units : Seq(AccessUnit)]) /\ last \in [packets : Pieces, units : Seq(AccessUnit)]
      /\ L \in Nat /\ DOMAIN wSegments = 1 .. L
  BY DEF TransportInv, SegmentsAre, Muxed
<1>4. /\ all \in Seq([packets : Pieces, units : Seq(AccessUnit)]) /\ Len(all) = L + 1 /\ DOMAIN all = 1 .. L + 1
      /\ all[L + 1] = last /\ \A s \in 1 .. L : all[s] = wSegments[s]
  BY <1>3, WithOneMore
<1> HIDE DEF all
<1>5. PICK new : new = wSegments'
  OBVIOUS
<1>6. /\ new \in Seq([packets : Pieces, units : Seq(AccessUnit)]) /\ Len(new) \in Nat /\ Len(new) + d = L + 1
      /\ DOMAIN new = 1 .. Len(new) /\ \A s \in 1 .. Len(new) : s + d \in 1 .. L + 1 /\ new[s] = all[s + d]
  <2>1. CASE L + 1 > Kept
    <3>1. new = Tail(all) /\ all # <<>>
      BY <2>1, <1>2, <1>4, <1>5
    <3>2. new \in Seq([packets : Pieces, units : Seq(AccessUnit)]) /\ Len(new) = L /\ DOMAIN new = 1 .. L
          /\ \A s \in 1 .. L : new[s] = all[s + 1]
      BY <3>1, <1>3, <1>4
    <3> QED
      BY <3>2, <2>1, <1>3
  <2>2. CASE ~ (L + 1 > Kept)
    <3>1. new = all
      BY <2>2, <1>2, <1>4, <1>5
    <3>2. \A s \in 1 .. L + 1 : s + 0 = s
      BY <1>3
    <3> QED
      BY <3>1, <3>2, <2>2, <1>3, <1>4
  <2> QED
    BY <2>1, <2>2
<1>7. d \in {0, 1} /\ Len(new) <= Kept
  BY <1>1, <1>3, <1>6, CountersArePositive
<1> HIDE DEF d
<1>8. SegmentsAre(wAudio, new)
  <2>1. ASSUME NEW s \in 1 .. L + 1 PROVE all[s].units # <<>> /\ Muxed(wAudio, all[s].packets, all[s].units)
    <3>1. CASE s = L + 1
      BY <3>1, <1>2, <1>4 DEF TransportInv
    <3>2. CASE s # L + 1
      <4>1. s \in 1 .. L /\ all[s] = wSegments[s]
        BY <3>2, <1>3, <1>4
      <4> QED
        BY <4>1, <1>3 DEF TransportInv, SegmentsAre
    <3> QED
      BY <3>1, <3>2
  <2> QED
    BY <2>1, <1>6 DEF SegmentsAre
<1>9. Continuous(new, <<>>, wCounter)
  <2>1. ASSUME NEW s \in 1 .. Len(new) PROVE new[s].packets = PacketsAt(wSegments, wOut, s + d)
    <3>1. new[s] = all[s + d] /\ s + d \in 1 .. L + 1
      BY <1>6
    <3>2. CASE s + d = L + 1
      <4>1. s + d \notin DOMAIN wSegments
        BY <3>2, <1>3
      <4> QED
        BY <4>1, <3>1, <3>2, <1>4 DEF PacketsAt
    <3>3. CASE s + d # L + 1
      <4>1. s + d \in 1 .. L
        BY <3>1, <3>3, <1>3
      <4> QED
        BY <4>1, <3>1, <1>3, <1>4 DEF PacketsAt
    <3> QED
      BY <3>2, <3>3
  <2>2. ASSUME NEW pid \in Pids
        PROVE  RunOn(new, <<>>, pid) /\ GoOn(new, <<>>, wCounter[pid], pid)
    <3>1. RunOn(wSegments, wOut, pid) /\ GoOn(wSegments, wOut, wCounter[pid], pid)
      BY DEF TransportInv, Continuous
    <3>2. d \in Nat
      BY <1>7
    <3> QED
      BY <2>1, <3>1, <3>2, <1>3, <1>6, RunShifts
  <2> QED
    BY <2>2 DEF Continuous
<1>10. ASSUME xAt \in Listed' PROVE Right(xGot, Segment(xAt)'.units)
  <2>1. xAt <= wSeq /\ xAt >= (wSeq + 1) - Len(new) + 1 /\ xAt \in Nat
    BY <1>1, <1>2, <1>5, <1>6, <1>10 DEF Listed
  <2>2. xAt \in Listed
    BY <2>1, <1>1, <1>3, <1>6, <1>7 DEF Listed
  <2> DEFINE k == Len(new) - ((wSeq + 1) - xAt)
  <2>3. k \in 1 .. Len(new) /\ k + d = L - (wSeq - xAt) /\ k + d \in 1 .. L
    <3>1. wSeq \in Nat /\ L \in Nat /\ Len(new) \in Nat /\ Len(new) + d = L + 1 /\ d \in {0, 1}
          /\ xAt \in Nat /\ xAt <= wSeq /\ xAt >= (wSeq + 1) - Len(new) + 1
      BY <2>1, <1>1, <1>3, <1>6, <1>7
    <3>2. k \in 1 .. Len(new)
      BY ONLY <3>1
    <3>3. k + d = L - (wSeq - xAt)
      BY ONLY <3>1
    <3>4. L - (wSeq - xAt) \in 1 .. L
      BY ONLY <3>1
    <3> QED
      BY <3>2, <3>3, <3>4
  <2>4. Segment(xAt)' = new[k]
    BY <1>2, <1>5 DEF Segment
  <2>5. Segment(xAt) = wSegments[k + d]
    BY <2>3 DEF Segment
  <2> HIDE DEF k
  <2>6. Segment(xAt)' = Segment(xAt)
    BY <2>3, <2>4, <2>5, <1>4, <1>6
  <2> QED
    BY <2>2, <2>6 DEF TransportInv
<1>11. TransportTypeOK'
  <2>1. xAt' \in 0 .. wSeq'
    BY <1>1, <1>2
  <2>2. Len(wSegments') <= Kept
    BY <1>5, <1>7
  <2>3. wCounter' \in [Pids -> 0 .. Counters - 1]
    BY <1>1, <1>2 DEF Counter
  <2>4. xPes' = NoPes
    BY <1>1, <1>2 DEF NoPes
  <2>5. wAudio' \in BOOLEAN /\ wPsi' \in BOOLEAN /\ wNext' \in 1 .. MaxUnits + 1 /\ xKnown' \subseteq Pids
    BY <1>1, <1>2
  <2> QED
    BY <2>1, <2>2, <2>3, <2>4, <2>5 DEF TransportTypeOK
<1>12. Muxed(wAudio, <<>>, <<>>)
  <2>1. <<>> \in Seq(Packet) /\ <<>> \in Seq(AccessUnit)
    OBVIOUS
  <2> QED
    BY <2>1 DEF Muxed, Rising, Pieces
<1>13. wSeq + 1 \in Nat /\ Len(new) <= wSeq + 1 /\ "pat" \in xKnown
  <2>1. "pat" \in xKnown
    BY DEF TransportInv
  <2>2. Len(new) <= wSeq + 1
    BY <1>1, <1>3, <1>6, <1>7
  <2> QED
    BY <1>1, <2>1, <2>2
<1>14. (xAt \in Listed => Right(xGot, Segment(xAt).units))'
  BY <1>2, <1>10
<1>15. (\A i \in DOMAIN wUnits : wUnits[i].unit < wNext)'
  BY <1>2
<1>16. (Muxed(wAudio, wOut, wUnits) /\ SegmentsAre(wAudio, wSegments) /\ Continuous(wSegments, wOut, wCounter))'
  BY <1>2, <1>5, <1>8, <1>9, <1>12
<1>17. (wSeq \in Nat /\ Len(wSegments) <= wSeq /\ "pat" \in xKnown /\ (wPsi <=> wUnits # <<>>))'
  BY <1>2, <1>5, <1>13
<1> QED
  BY <1>11, <1>14, <1>15, <1>16, <1>17 DEF TransportInv

LEMMA ReadKeeps ==
  ASSUME TransportInv, NEW seq \in Listed, NEW known \in SUBSET Pids, "pat" \in known,
         ReadSegment(seq, known, NoPes)
  PROVE  TransportInv'
<1>1. seq \in 1 .. wSeq /\ Len(wSegments) - (wSeq - seq) \in DOMAIN wSegments
  <2>1. wSegments \in Seq([packets : Pieces, units : Seq(AccessUnit)]) /\ wSeq \in Nat /\ Len(wSegments) <= wSeq
    BY DEF TransportInv, SegmentsAre
  <2> QED
    BY <2>1 DEF Listed
<1>2. Segment(seq).units # <<>> /\ Muxed(wAudio, Segment(seq).packets, Segment(seq).units)
  BY <1>1 DEF TransportInv, SegmentsAre, Segment
<1> DEFINE state == Demuxed(known, NoPes, Segment(seq).packets)
<1>3. state.pes = NoPes /\ Right(state.got, Segment(seq).units) /\ state.known \in SUBSET Pids /\ "pat" \in state.known
  BY <1>2, DemuxedRight
<1>4. /\ xKnown' = state.known /\ xPes' = state.pes /\ xGot' = state.got /\ xAt' = seq
      /\ wAudio' = wAudio /\ wCounter' = wCounter /\ wPsi' = wPsi /\ wOut' = wOut /\ wUnits' = wUnits
      /\ wNext' = wNext /\ wSegments' = wSegments /\ wSeq' = wSeq
  BY DEF ReadSegment, segmentVars, playlistVars
<1> HIDE DEF state
<1>5. TransportTypeOK'
  <2>1. seq \in 0 .. wSeq
    BY <1>1 DEF TransportInv
  <2> QED
    BY <2>1, <1>3, <1>4 DEF TransportInv, TransportTypeOK, NoPes
<1>6. Segment(xAt)' = Segment(seq)
  BY <1>4 DEF Segment
<1>7. (xAt \in Listed => Right(xGot, Segment(xAt).units))'
  BY <1>3, <1>4, <1>6
<1>8. (Muxed(wAudio, wOut, wUnits) /\ SegmentsAre(wAudio, wSegments) /\ Continuous(wSegments, wOut, wCounter))'
  BY <1>4 DEF TransportInv
<1>9. (\A i \in DOMAIN wUnits : wUnits[i].unit < wNext)'
  BY <1>4 DEF TransportInv
<1>10. (wSeq \in Nat /\ Len(wSegments) <= wSeq /\ "pat" \in xKnown /\ (wPsi <=> wUnits # <<>>))'
  BY <1>3, <1>4 DEF TransportInv
<1> QED
  BY <1>5, <1>7, <1>8, <1>9, <1>10 DEF TransportInv

LEMMA TransportStep == TransportInv /\ [TransportNext]_transportVars => TransportInv'
<1> SUFFICES ASSUME TransportInv, [TransportNext]_transportVars PROVE TransportInv'
  OBVIOUS
<1>1. wNext \in Nat /\ xKnown \in SUBSET Pids /\ "pat" \in xKnown /\ xPes = NoPes
  BY CountersArePositive DEF TransportInv, TransportTypeOK
<1>2. ASSUME NEW pieces \in 1 .. MaxPieces, AddFrame(pieces) PROVE TransportInv'
  <2>1. [pid |-> "video", unit |-> wNext, pieces |-> pieces] \in AccessUnit
    BY <1>1, TransportAssumption DEF AccessUnit, Streams
  <2> QED
    BY <2>1, <1>2, AddKeeps DEF AddFrame
<1>3. ASSUME NEW pieces \in 1 .. MaxPieces, AddAudioFrame(pieces) PROVE TransportInv'
  <2>1. [pid |-> "audio", unit |-> wNext, pieces |-> pieces] \in AccessUnit
    BY <1>1, TransportAssumption DEF AccessUnit, Streams
  <2> QED
    BY <2>1, <1>3, AddKeeps DEF AddAudioFrame
<1>4. CASE CloseSegment
  BY <1>4, CloseKeeps
<1>5. CASE PullNext
  BY <1>1, <1>5, ReadKeeps DEF PullNext
<1>6. ASSUME NEW seq \in 1 .. MaxUnits, PullElsewhere(seq) PROVE TransportInv'
  <2>1. {"pat"} \in SUBSET Pids /\ "pat" \in {"pat"}
    BY DEF Pids
  <2> QED
    BY <2>1, <1>6, ReadKeeps DEF PullElsewhere
<1>7. CASE UNCHANGED transportVars
  <2>1. /\ wAudio' = wAudio /\ wCounter' = wCounter /\ wPsi' = wPsi /\ wOut' = wOut /\ wUnits' = wUnits
        /\ wNext' = wNext /\ wSegments' = wSegments /\ wSeq' = wSeq
        /\ xKnown' = xKnown /\ xPes' = xPes /\ xAt' = xAt /\ xGot' = xGot
    BY <1>7 DEF transportVars, segmentVars, playlistVars, demuxerVars
  <2>2. TransportTypeOK'
    BY <2>1 DEF TransportInv, TransportTypeOK, NoPes
  <2>3. (xAt \in Listed => Right(xGot, Segment(xAt).units))'
    BY <2>1 DEF TransportInv, Listed, Segment
  <2> QED
    BY <2>1, <2>2, <2>3 DEF TransportInv
<1> QED
  BY <1>2, <1>3, <1>4, <1>5, <1>6, <1>7 DEF TransportNext

\* The invariant is what a player needs.
LEMMA Splices == ASSUME TransportInv PROVE SegmentsSplice
<1>1. PulledIsMuxed
  BY DEF TransportInv, PulledIsMuxed, Right
<1>2. /\ Len(wSegments) \in Nat /\ DOMAIN wSegments = 1 .. Len(wSegments)
      /\ \A s \in 1 .. Len(wSegments) + 1 : PacketsAt(wSegments, wOut, s) \in Pieces
      /\ \A s : PacketsIn(s) = PacketsAt(wSegments, wOut, s)
  BY DEF TransportInv, SegmentsAre, Muxed, PacketsIn, PacketsAt
<1>3. ASSUME NEW pid, NEW s, NEW i, Here(wSegments, wOut, pid, s, i)
      PROVE  s \in Nat /\ i \in Nat /\ <<s, i>> \in Places(pid)
  <2>1. s \in 1 .. Len(wSegments) + 1 /\ i \in DOMAIN PacketsIn(s) /\ PacketsIn(s)[i].pid = pid
    BY <1>2, <1>3 DEF Here
  <2>2. s \in Nat /\ i \in Nat
    BY <2>1, <1>2 DEF Pieces
  <2>3. <<s, i>> \in {s} \X DOMAIN PacketsIn(s) /\ <<s, i>>[1] = s /\ <<s, i>>[2] = i
    BY <2>1
  <2> QED
    BY <2>1, <2>2, <2>3 DEF Places
<1>4. ASSUME NEW pid, NEW p \in Places(pid)
      PROVE  Here(wSegments, wOut, pid, p[1], p[2])
  <2>1. PICK s \in 1 .. Len(wSegments) + 1 : p \in {s} \X DOMAIN PacketsIn(s)
    BY DEF Places
  <2>2. p[1] = s /\ p[2] \in DOMAIN PacketsIn(s)
    BY <2>1
  <2>3. PacketsIn(p[1])[p[2]].pid = pid
    BY DEF Places
  <2> QED
    BY <2>1, <2>2, <2>3, <1>2 DEF Here
<1>5. ASSUME NEW pid \in Pids, NEW p \in Places(pid), NEW q \in Places(pid), Before(p, q),
             ~ \E r \in Places(pid) : Before(p, r) /\ Before(r, q)
      PROVE  CounterAt(q) = (CounterAt(p) + 1) % Counters
  <2>1. /\ Here(wSegments, wOut, pid, p[1], p[2]) /\ Here(wSegments, wOut, pid, q[1], q[2])
        /\ p[1] \in Nat /\ p[2] \in Nat /\ q[1] \in Nat /\ q[2] \in Nat
    BY <1>3, <1>4
  <2>2. Earlier(p[1], p[2], q[1], q[2])
    BY <1>5 DEF Before, Earlier
  <2>3. ASSUME NEW u \in Nat, NEW k \in Nat, Here(wSegments, wOut, pid, u, k),
               Earlier(p[1], p[2], u, k), Earlier(u, k, q[1], q[2])
        PROVE  FALSE
    <3>1. <<u, k>> \in Places(pid) /\ <<u, k>>[1] = u /\ <<u, k>>[2] = k
      BY <2>3, <1>3
    <3>2. Before(p, <<u, k>>) /\ Before(<<u, k>>, q)
      BY <3>1, <2>3 DEF Before, Earlier
    <3> QED
      BY <3>1, <3>2, <1>5
  <2>4. RunOn(wSegments, wOut, pid)
    BY DEF TransportInv, Continuous
  <2>5. PacketsAt(wSegments, wOut, q[1])[q[2]].cc = (PacketsAt(wSegments, wOut, p[1])[p[2]].cc + 1) % Counters
    BY <2>1, <2>2, <2>3, <2>4 DEF RunOn
  <2> QED
    BY <2>5, <1>2 DEF CounterAt
<1>6. CountersRun
  BY <1>5 DEF CountersRun
<1> QED
  BY <1>1, <1>6 DEF SegmentsSplice

LEMMA TransportHolds == TransportSpec => []TransportInv
<1>1. TransportInit => TransportInv
  BY TransportStarts
<1>2. TransportInv /\ [TransportNext]_transportVars => TransportInv'
  BY TransportStep
<1> QED
  BY <1>1, <1>2, PTL DEF TransportSpec

\* Every segment of the playlist, read after the one before it, after a skip or first of all, gives
\* the units that were muxed into it, whole, once and in order, and the continuity counter of every
\* PID runs on through segments and from one into the next (mpeg_ts.rs:129-134, ts.rs).
THEOREM SplicesRight == TransportSpec => []SegmentsSplice
<1>1. TransportInv => SegmentsSplice
  BY Splices
<1> QED
  BY <1>1, TransportHolds, PTL

\* The muxer's counters stay in range, the playlist keeps to its length, and after a segment the
\* demuxer has nothing under assembly.
THEOREM TransportTypes == TransportSpec => []TransportTypeOK
<1>1. TransportInv => TransportTypeOK
  BY DEF TransportInv
<1> QED
  BY <1>1, TransportHolds, PTL

-----------------------------------------------------------------------------
\* The timeline's and the path's state, within the clock and within what was captured.

Stamped == [stamp : Clock, done : Clock]

\* Nothing is stamped beyond the clock, and silence ends within a frame of it.
WithinClock ==
  /\ yNow <= MaxClock
  /\ yFirst # Unset => yFirst + yHeard <= yNow
  /\ yAnchor # Unset => yAnchor <= yVideo
  /\ yQueue \in Seq(Stamped) /\ Len(yQueue) <= AudioRoom
  /\ yMark <= MaxClock + AudioFrame /\ yLast <= MaxClock

LEMMA ClockConstants == MaxClock \in Nat /\ AudioRoom \in Nat /\ AudioFrame \in Nat /\ AudioFrame > 0
BY TimelineAssumption

LEMMA WholeFrame ==
  ASSUME NEW n \in Nat, NEW d \in Nat \ {0}, n > 0, n % d = 0 PROVE n >= d
<1>1. PICK q \in Nat : n = d * q
  <2>1. n \div d \in Nat /\ n = d * (n \div d) + 0
    BY Division
  <2>2. d * (n \div d) \in Nat
    BY <2>1
  <2>3. n = d * (n \div d)
    BY <2>1, <2>2
  <2> QED
    BY <2>1, <2>3
<1>2. q >= 1
  BY <1>1
<1>3. d * q >= d * 1
  BY <1>2
<1> QED
  BY <1>1, <1>3

LEMMA Since ==
  ASSUME NEW a \in Nat, NEW b \in Nat, NEW c \in Nat, a <= b, b <= c
  PROVE  b - a \in Nat /\ b - a <= c
OBVIOUS

LEMMA IdleWithin == ASSUME TimelineShape, WithinClock, IdleTick PROVE WithinClock'
BY ClockConstants DEF TimelineShape, WithinClock, IdleTick, sound, muxer

LEMMA SoundWithin == ASSUME TimelineShape, QueueInOrder, WithinClock, SoundTick PROVE WithinClock'
<1> DEFINE first == yFirst'
           heard == yHeard + 1
           new == [stamp |-> first + heard - AudioFrame, done |-> yNow']
<1>1. /\ yNow < MaxClock /\ yNow' = yNow + 1 /\ yHeard' = heard
      /\ first = IF yFirst = Unset THEN yNow ELSE yFirst
      /\ UNCHANGED <<yVideo, yAnchor, yMark, yLast>>
      /\ \/ yQueue' = yQueue
         \/ heard % AudioFrame = 0 /\ Len(yQueue) < AudioRoom /\ yQueue' = Append(yQueue, new)
  BY DEF SoundTick, muxer
<1>2. yNow \in Nat /\ yHeard \in Nat /\ yFirst \in Nat \union {Unset}
  BY DEF TimelineShape
<1>3. first \in Nat /\ heard \in Nat /\ heard > 0 /\ first + heard <= yNow + 1
  <2>1. CASE yFirst = Unset
    BY <1>1, <1>2, <2>1 DEF QueueInOrder
  <2>2. CASE yFirst # Unset
    BY <1>1, <1>2, <2>2 DEF WithinClock
  <2> QED
    BY <2>1, <2>2
<1> HIDE DEF first, heard
<1>4. yQueue' \in Seq(Stamped) /\ Len(yQueue') <= AudioRoom
  <2>1. CASE yQueue' = yQueue
    BY <2>1 DEF WithinClock
  <2>2. CASE heard % AudioFrame = 0 /\ Len(yQueue) < AudioRoom /\ yQueue' = Append(yQueue, new)
    <3>1. heard >= AudioFrame
      BY <1>3, <2>2, ClockConstants, WholeFrame
    <3>2. first + heard - AudioFrame \in Clock /\ yNow' \in Clock
      BY <1>1, <1>2, <1>3, <3>1, ClockConstants DEF Clock
    <3>3. new \in Stamped
      BY <3>2 DEF Stamped
    <3> HIDE DEF new
    <3> QED
      BY <2>2, <3>3, ClockConstants DEF WithinClock
  <2> QED
    BY <1>1, <2>1, <2>2
<1>5. yNow' <= MaxClock /\ yFirst' + yHeard' <= yNow'
  BY <1>1, <1>2, <1>3, ClockConstants DEF first
<1> QED
  BY <1>1, <1>4, <1>5 DEF WithinClock

LEMMA PictureInClock ==
  ASSUME TimelineShape, WithinClock, NEW stamp \in Clock, PictureMuxed(stamp) PROVE WithinClock'
<1> DEFINE threshold == Threshold(stamp - yAnchor')
           start == IF yMark = Unset THEN threshold ELSE yMark
           silent == SilentFrames(start, threshold)
<1>1. /\ stamp \in yVideo .. yNow /\ yVideo' = stamp
      /\ yAnchor' = IF yAnchor = Unset THEN stamp ELSE yAnchor
      /\ yMark' = start + silent * AudioFrame
      /\ yLast' = IF silent = 0 THEN yLast ELSE start + (silent - 1) * AudioFrame
      /\ UNCHANGED <<yNow, yFirst, yHeard, yQueue>>
  BY DEF PictureMuxed, sound
<1>2. stamp \in Nat /\ yVideo <= stamp /\ stamp <= yNow /\ yNow <= MaxClock /\ yNow \in Nat /\ yVideo \in Nat
  BY <1>1 DEF TimelineShape, WithinClock
<1>3. yAnchor' \in Nat /\ yAnchor' <= stamp
  BY <1>1, <1>2 DEF TimelineShape, WithinClock
<1>4. threshold \in Nat /\ threshold <= MaxClock
  <2>1. stamp - yAnchor' \in Nat /\ stamp - yAnchor' <= MaxClock
    <3>1. stamp <= MaxClock /\ MaxClock \in Nat /\ stamp \in Nat
      BY <1>2, ClockConstants
    <3> QED
      BY <1>3, <3>1, Since
  <2>2. ASSUME NEW n \in Nat, n <= MaxClock PROVE Threshold(n) \in Nat /\ Threshold(n) <= MaxClock
    BY <2>2, Constants, ClockConstants DEF Threshold, AtLeastZero
  <2> QED
    BY <2>1, <2>2
<1>5. start \in Nat /\ start <= MaxClock + AudioFrame
  BY <1>4, ClockConstants DEF TimelineShape, WithinClock
<1> HIDE DEF threshold, start
<1>6. /\ silent \in Nat
      /\ silent # 0 => /\ silent >= 1 /\ start + silent * AudioFrame <= threshold + AudioFrame - 1
                       /\ (silent - 1) * AudioFrame = silent * AudioFrame - AudioFrame
                       /\ (silent - 1) * AudioFrame \in Nat
  BY <1>4, <1>5, SilenceEnds
<1> HIDE DEF silent
<1>7. yMark' <= MaxClock + AudioFrame /\ yLast' <= MaxClock
  <2>1. CASE silent = 0
    <3>1. silent * AudioFrame = 0
      BY <2>1, ClockConstants
    <3> QED
      BY <1>1, <1>5, <2>1, <3>1 DEF WithinClock
  <2>2. CASE silent # 0
    <3> DEFINE all == silent * AudioFrame
               before == (silent - 1) * AudioFrame
    <3>1. before \in Nat /\ before = all - AudioFrame /\ start + all <= threshold + AudioFrame - 1
      BY <1>6, <2>2
    <3>2. yMark' = start + all /\ yLast' = start + before
      BY <1>1, <2>2
    <3>3. all \in Int
      BY <1>6, ClockConstants
    <3> HIDE DEF all, before
    <3> QED
      BY <1>4, <1>5, <3>1, <3>2, <3>3, ClockConstants
  <2> QED
    BY <2>1, <2>2
<1> QED
  BY <1>1, <1>3, <1>7 DEF WithinClock

LEMMA TakeWithin ==
  ASSUME TimelineShape, WithinClock, NEW slack \in 0 .. Jitter, TakeSound(slack) PROVE WithinClock'
<1> DEFINE frame == Head(yQueue)
           pts == PtsOf(frame, slack)
<1>1. /\ yQueue # <<>> /\ yQueue' = Tail(yQueue)
      /\ UNCHANGED <<yNow, yVideo, yFirst, yHeard, yAnchor>>
      /\ \/ yLast' = yLast /\ yMark' = yMark
         \/ yAnchor # Unset /\ yLast' = pts /\ yMark' = Later(pts + AudioFrame, yMark)
  BY DEF TakeSound, Fate, MarkAfter, pictures
<1>2. yQueue' \in Seq(Stamped) /\ Len(yQueue') <= AudioRoom /\ frame \in Stamped
  BY <1>1, ClockConstants DEF WithinClock
<1>3. frame.stamp \in Nat /\ frame.stamp <= MaxClock /\ slack \in Nat
  BY <1>2, ClockConstants, Constants DEF Stamped, Clock
<1> HIDE DEF frame
<1>4. CASE yLast' = yLast /\ yMark' = yMark
  BY <1>1, <1>2, <1>4 DEF WithinClock
<1>5. CASE yAnchor # Unset /\ yLast' = pts /\ yMark' = Later(pts + AudioFrame, yMark)
  <2>1. yAnchor \in Nat /\ yMark \in Nat
    BY <1>5 DEF TimelineShape
  <2>2. pts \in Nat /\ pts <= MaxClock
    BY <1>3, <2>1, ClockConstants DEF PtsOf, AtLeastZero
  <2> HIDE DEF pts
  <2>3. yLast' <= MaxClock /\ yMark' <= MaxClock + AudioFrame
    BY <1>5, <2>1, <2>2, ClockConstants DEF Later, WithinClock
  <2> QED
    BY <1>1, <1>2, <2>3 DEF WithinClock
<1> QED
  BY <1>1, <1>4, <1>5

LEMMA SessionWithin == ASSUME WithinClock, NextSession PROVE WithinClock'
<1>1. /\ UNCHANGED <<yNow, yVideo, yFirst, yHeard>>
      /\ yAnchor' = Unset /\ yMark' = Unset /\ yLast' = Unset /\ yQueue' \in {<<>>, yQueue}
  BY DEF NextSession, pictures
<1>2. yQueue' \in Seq(Stamped) /\ Len(yQueue') <= AudioRoom
  <2>1. CASE yQueue' = <<>>
    BY <2>1, ClockConstants
  <2>2. CASE yQueue' = yQueue
    BY <2>2 DEF WithinClock
  <2> QED
    BY <1>1, <2>1, <2>2
<1> QED
  BY <1>1, <1>2, ClockConstants DEF WithinClock, Unset

LEMMA ClockTyped == ASSUME TimelineShape, QueueInOrder, WithinClock PROVE TimelineTypeOK
<1>1. yNow \in Clock /\ yVideo \in Clock
  BY ClockConstants DEF TimelineShape, WithinClock, Clock
<1>2. yFirst \in Clock \union {Unset} /\ yHeard \in Clock
  <2>1. CASE yFirst = Unset
    BY <2>1, ClockConstants DEF QueueInOrder, Clock
  <2>2. CASE yFirst # Unset
    BY <2>2, ClockConstants DEF TimelineShape, WithinClock, Clock
  <2> QED
    BY <2>1, <2>2
<1>3. yAnchor \in Clock \union {Unset}
  BY ClockConstants DEF TimelineShape, WithinClock, Clock
<1>4. yMark \in Unset .. MaxClock + AudioFrame /\ yLast \in Unset .. MaxClock
  BY ClockConstants DEF TimelineShape, WithinClock, Unset
<1>5. Len(yQueue) <= AudioRoom /\ \A i \in DOMAIN yQueue : yQueue[i] \in [stamp : Clock, done : Clock]
  <2>1. \A i \in 1 .. Len(yQueue) : yQueue[i] \in Stamped
    BY Entry DEF WithinClock
  <2>2. DOMAIN yQueue = 1 .. Len(yQueue)
    BY DEF WithinClock
  <2> QED
    BY <2>1, <2>2 DEF WithinClock, Stamped
<1>6. yExternal \in BOOLEAN
  BY DEF TimelineShape
<1> QED
  BY <1>1, <1>2, <1>3, <1>4, <1>5, <1>6 DEF TimelineTypeOK

LEMMA TimelineTypes == TimelineSpec => []TimelineTypeOK
<1>1. TimelineInit => WithinClock
  <2> SUFFICES ASSUME TimelineInit PROVE WithinClock
    OBVIOUS
  <2>1. yQueue \in Seq(Stamped) /\ Len(yQueue) <= AudioRoom
    BY ClockConstants DEF TimelineInit
  <2> QED
    BY <2>1, ClockConstants DEF TimelineInit, WithinClock, Unset
<1>2. TimelineInv /\ WithinClock /\ [TimelineNext]_timelineVars => WithinClock'
  <2> SUFFICES ASSUME TimelineShape, QueueInOrder, WithinClock, [TimelineNext]_timelineVars
               PROVE  WithinClock'
    BY DEF TimelineInv
  <2>1. CASE UNCHANGED timelineVars
    BY <2>1 DEF timelineVars, pictures, sound, muxer, WithinClock
  <2> QED
    BY <2>1, IdleWithin, SoundWithin, PictureInClock, TakeWithin, SessionWithin DEF TimelineNext
<1>3. TimelineInv /\ WithinClock => TimelineTypeOK
  BY ClockTyped DEF TimelineInv
<1> QED
  BY <1>1, <1>2, <1>3, TimelineInvariant, PTL DEF TimelineSpec

-----------------------------------------------------------------------------
Limit == Chunk * MaxChunks

\* Nothing is stamped or put out beyond what was captured.
WithinCapture ==
  /\ uErrors \in BOOLEAN /\ uCodec \in {"aac", "opus"} /\ uStage \in {"connected", "live", "away", "over"}
  /\ \E n \in 0 .. MaxChunks : uClock = Chunk * n
  /\ uCounted <= uClock /\ uEmitted <= uClock /\ uSwallowed <= uClock
  /\ (uAnchor # -1 => uAnchor <= uClock)
  /\ uFrames \in Seq(Chunks)
  /\ uOut \in Seq(Coded) /\ uTx \in Seq(Coded) /\ uQueue \in Seq(Coded)
  /\ Len(uFrames) <= CaptureRoom /\ Len(uTx) <= EncodedRoom /\ Len(uQueue) <= QueueRoom
  /\ Len(uPcm) < FrameLength

LEMMA Rooms == CaptureRoom \in Nat \ {0} /\ EncodedRoom \in Nat \ {0} /\ QueueRoom \in Nat \ {0}
BY AudioAssumption

LEMMA FrameIsSome == FrameLength \in Nat \ {0}
BY AudioAssumption DEF FrameLength

LEMMA LimitType == Limit \in Nat /\ Positions = 0 .. Limit
BY AudioAssumption DEF Limit, Positions

LEMMA CountedBelow ==
  ASSUME NEW n \in 0 .. MaxChunks PROVE Chunk * n \in Nat /\ Chunk * n <= Limit
<1>1. n \in Nat /\ MaxChunks \in Nat /\ Chunk \in Nat /\ n <= MaxChunks
  BY AudioAssumption
<1>2. ASSUME NEW a \in Nat, NEW b \in Nat, NEW c \in Nat, b <= c PROVE a * b \in Nat /\ a * b <= a * c
  <2>1. a * c = a * b + a * (c - b) /\ c - b \in Nat /\ a * b \in Nat
    BY <1>2
  <2>2. a * (c - b) \in Nat
    BY <2>1
  <2> QED
    BY <2>1, <2>2
<1> QED
  BY ONLY <1>1, <1>2 DEF Limit

LEMMA OneChunkMore ==
  ASSUME NEW n \in 0 .. MaxChunks, Chunk * n < Limit
  PROVE  n + 1 \in 0 .. MaxChunks /\ Chunk * n + Chunk = Chunk * (n + 1)
<1>1. n \in Nat /\ MaxChunks \in Nat /\ Chunk \in Nat /\ n <= MaxChunks
  BY AudioAssumption
<1>2. n # MaxChunks
  BY <1>1 DEF Limit
<1>3. Chunk * n + Chunk = Chunk * (n + 1)
  BY <1>1
<1> QED
  BY <1>1, <1>2, <1>3

\* What the encoder has put out was captured, as long as the task lives.
LEMMA TakenWasCounted == PathInv /\ Open => uEmitted <= uClock /\ uSwallowed <= uClock
<1> SUFFICES ASSUME PathInv, Open PROVE uEmitted <= uClock /\ uSwallowed <= uClock
  OBVIOUS
<1>1. PathShape /\ InLine
  BY DEF PathInv
<1>2. uClock = Base + Taken + Span(Len(uFrames)) + Loss(uGaps, Base, uClock)
  BY <1>1 DEF InLine
<1>3. /\ Base \in Nat /\ uEmitted \in Nat /\ uSwallowed \in Nat
      /\ Len(uPcm) \in Nat /\ Len(uFrames) \in Nat
  BY <1>1, PathBase DEF PathShape
<1>4. Span(Len(uFrames)) \in Nat /\ Loss(uGaps, Base, uClock) \in Nat
  BY <1>1, <1>3, Spans, LossType DEF PathShape
<1> QED
  BY <1>2, <1>3, <1>4 DEF Taken

\* A frame was captured by now.
LEMMA HeardWasCounted ==
  PathInv /\ Open => \A i \in 1 .. Len(uOut) : uOut[i].at <= uClock
<1> SUFFICES ASSUME PathInv, Open, NEW i \in 1 .. Len(uOut) PROVE uOut[i].at <= uClock
  OBVIOUS
<1>1. PathShape /\ Apart /\ Heard(uOut[i])
  BY DEF PathInv, AllHeard
<1>2. uOut[i] \in [label : Nat, at : Nat, swallowed : Int]
  BY <1>1, QueueEntry DEF PathShape
<1>3. Frontier \in Nat
  BY <1>1, PathBase
<1>4. Frontier <= uClock /\ uClock \in Nat
  BY <1>1, FrameOrder DEF PathShape
<1>5. uOut[i].at < Frontier
  BY <1>1 DEF Heard, OnTime
<1>6. uOut[i].at \in Nat
  BY <1>2
<1> QED
  BY ONLY <1>3, <1>4, <1>5, <1>6

LEMMA RestIsShort ==
  ASSUME NEW len \in Nat, NEW size \in Nat \ {0}
  PROVE  len - (len \div size) * size < size
<1>1. len % size \in 0 .. size - 1 /\ len \div size \in Nat /\ len = size * (len \div size) + (len % size)
  BY Division
<1>2. size * (len \div size) \in Nat /\ size * (len \div size) = (len \div size) * size
  BY <1>1
<1> QED
  BY <1>1, <1>2

LEMMA WithinTyped == PathInv /\ WithinCapture => AudioTypeOK
<1> SUFFICES ASSUME PathInv, WithinCapture PROVE AudioTypeOK
  OBVIOUS
<1>1. PathShape /\ Apart
  BY DEF PathInv
<1>2. uClock \in Nat /\ uClock <= Limit
  BY CountedBelow DEF WithinCapture
<1>3. /\ uCounted \in Positions /\ uClock \in Positions /\ uAnchor \in Positions \union {-1}
      /\ uEmitted \in Positions /\ uSwallowed \in Positions
  <2>1. uEmitted \in Nat /\ uEmitted <= Limit
    BY <1>1, <1>2, LimitType DEF PathShape, WithinCapture
  <2>2. uAnchor # -1 => uAnchor \in Nat /\ uAnchor <= Limit
    BY <1>1, <1>2, LimitType DEF PathShape, WithinCapture
  <2>3. uCounted \in Nat /\ uCounted <= Limit
    BY <1>1, <1>2, LimitType DEF PathShape, WithinCapture
  <2>4. uSwallowed \in Nat /\ uSwallowed <= Limit
    BY <1>1, <1>2, LimitType DEF PathShape, WithinCapture
  <2> QED
    BY <1>2, <2>1, <2>2, <2>3, <2>4, LimitType
<1>4. \A i \in DOMAIN uFrames : uFrames[i] \in Chunks
  BY DEF WithinCapture
<1>5. /\ \A i \in DOMAIN uTx : uTx[i] \in Coded
      /\ \A i \in DOMAIN uQueue : uQueue[i] \in Coded
  BY DEF WithinCapture
<1> QED
  BY <1>1, <1>3, <1>4, <1>5 DEF AudioTypeOK, PathShape, WithinCapture

\* What fits a queue still fits when a frame is taken from it, or put into it while there is room.
LEMMA FitsLess ==
  ASSUME NEW S, NEW q \in Seq(S), NEW n \in Nat, Len(q) <= n, q # <<>>
  PROVE  Tail(q) \in Seq(S) /\ Len(Tail(q)) <= n /\ Head(q) \in S
OBVIOUS

LEMMA FitsMore ==
  ASSUME NEW S, NEW q \in Seq(S), NEW n \in Nat, Len(q) < n, NEW e \in S
  PROVE  Append(q, e) \in Seq(S) /\ Len(Append(q, e)) <= n
OBVIOUS

LEMMA FitsNone == ASSUME NEW S, NEW n \in Nat PROVE <<>> \in Seq(S) /\ Len(<<>>) <= n
OBVIOUS

\* The steps that move no sound.
LEMMA QuietWithin ==
  ASSUME WithinCapture, uErrors' \in BOOLEAN, uStage' \in {"connected", "live", "away", "over"},
         UNCHANGED <<uClock, uCounted, uFrames, uCodec, uOut, coder, uTx, uQueue>>
  PROVE  WithinCapture'
BY DEF WithinCapture, coder, FrameLength

LEMMA QuietStepsWithin ==
  ASSUME WithinCapture,
         \/ AudioStart \/ AudioLoopFails \/ Bootstrapped \/ AudioReconnected \/ UNCHANGED audioVars
         \/ \E shape \in 1 .. 2 : AudioShape(shape)
  PROVE  WithinCapture'
<1>1. /\ uErrors' \in BOOLEAN /\ uStage' \in {"connected", "live", "away", "over"}
      /\ UNCHANGED <<uClock, uCounted, uFrames, uCodec, uOut, coder, uTx, uQueue>>
  <2> USE DEF session, callback
  <2>1. CASE AudioStart
    BY <2>1 DEF AudioStart, WithinCapture
  <2>2. CASE AudioLoopFails
    BY <2>2 DEF AudioLoopFails, WithinCapture
  <2>3. CASE Bootstrapped \/ AudioReconnected
    BY <2>3 DEF Bootstrapped, AudioReconnected, WithinCapture
  <2>4. CASE UNCHANGED audioVars
    BY <2>4 DEF audioVars, WithinCapture
  <2>5. ASSUME NEW shape \in 1 .. 2, AudioShape(shape)
        PROVE  UNCHANGED <<uErrors, uStage, uClock, uCounted, uFrames, uCodec, uOut, coder, uTx, uQueue>>
    BY <2>5 DEF AudioShape
  <2> QED
    BY <2>1, <2>2, <2>3, <2>4, <2>5 DEF WithinCapture
<1> QED
  BY <1>1, QuietWithin

LEMMA ProcessWithin == ASSUME PathShape, WithinCapture, AudioProcess \/ SourceIdle PROVE WithinCapture'
<1>1. /\ uClock < Limit /\ uClock' = uClock + Chunk /\ uCounted' \in {uCounted, uCounted + Chunk}
      /\ UNCHANGED <<uErrors, uStage, uCodec, uOut, coder, uTx, uQueue>>
  BY DEF AudioProcess, SourceIdle, Limit, session, callback
<1>2. PICK n \in 0 .. MaxChunks : uClock = Chunk * n
  BY DEF WithinCapture
<1>3. n + 1 \in 0 .. MaxChunks /\ uClock' = Chunk * (n + 1)
  BY <1>1, <1>2, OneChunkMore
<1>4. /\ uCounted' <= uClock' /\ uEmitted' <= uClock' /\ uSwallowed' <= uClock'
      /\ (uAnchor' # -1 => uAnchor' <= uClock')
  BY <1>1, ChunkLength DEF WithinCapture, PathShape, coder
<1>5. Len(uFrames') <= CaptureRoom /\ uFrames' \in Seq(Chunks)
  <2>1. CASE uFrames' = uFrames
    BY <2>1 DEF WithinCapture
  <2>2. CASE uFrames' # uFrames
    <3> DEFINE new == [at |-> uClock, stamp |-> uCounted, shape |-> IF uShape = 0 THEN 1 ELSE uShape]
    <3>1. Len(uFrames) < CaptureRoom /\ uFrames' = Append(uFrames, new)
      BY <2>2 DEF AudioProcess, SourceIdle
    <3>2. uClock \in Positions /\ uCounted \in Positions
      BY <1>1, LimitType DEF PathShape, WithinCapture
    <3>3. new \in Chunks
      BY <3>2 DEF Chunks, PathShape
    <3> QED
      BY <3>1, <3>3, FitsMore, Rooms DEF WithinCapture
  <2> QED
    BY <2>1, <2>2
<1>6. \E m \in 0 .. MaxChunks : uClock' = Chunk * m
  BY <1>3
<1> QED
  BY <1>1, <1>4, <1>5, <1>6 DEF WithinCapture, coder, FrameLength

\* A frame that goes from one queue to the next, or to nobody, and a chunk nobody encodes.
LEMMA MovedWithin ==
  ASSUME PathShape, WithinCapture,
         \/ SendCoded \/ PassOn \/ SegmenterTakes \/ AudioSessionLost \/ AudioStreamEnds \/ TaskEnds
         \/ TakeChunk /\ Refused(Head(uFrames))
  PROVE  WithinCapture'
<1> USE DEF callback, session, coder
<1>1. /\ uErrors' \in BOOLEAN /\ uStage' \in {"connected", "live", "away", "over"}
      /\ UNCHANGED <<uClock, uCounted, uCodec, uEmitted, uSwallowed, uAnchor, uPcm>>
  <2>1. CASE SendCoded \/ PassOn \/ SegmenterTakes
    BY <2>1 DEF SendCoded, PassOn, SegmenterTakes, WithinCapture
  <2>2. CASE AudioSessionLost \/ AudioStreamEnds \/ TaskEnds
    BY <2>2 DEF AudioSessionLost, AudioStreamEnds, TaskEnds, WithinCapture
  <2>3. CASE TakeChunk /\ Refused(Head(uFrames))
    BY <2>3 DEF TakeChunk, WithinCapture
  <2> QED
    BY <2>1, <2>2, <2>3
<1>2. uOut' \in Seq(Coded) /\ uTx' \in Seq(Coded) /\ Len(uTx') <= EncodedRoom
  <2>1. CASE SendCoded
    <3>1. uOut # <<>> /\ Len(uTx) < EncodedRoom /\ uTx' = Append(uTx, Head(uOut)) /\ uOut' = Tail(uOut)
      BY <2>1 DEF SendCoded
    <3>2. uOut' \in Seq(Coded) /\ Head(uOut) \in Coded
      BY <3>1 DEF WithinCapture
    <3> QED
      BY <3>1, <3>2, FitsMore, Rooms DEF WithinCapture
  <2>2. CASE PassOn
    BY <2>2, FitsLess, Rooms DEF PassOn, WithinCapture
  <2>3. CASE AudioStreamEnds
    BY <2>3, FitsNone, Rooms DEF AudioStreamEnds
  <2>4. CASE SegmenterTakes \/ AudioSessionLost \/ TaskEnds \/ (TakeChunk /\ Refused(Head(uFrames)))
    BY <2>4 DEF SegmenterTakes, AudioSessionLost, TaskEnds, TakeChunk, WithinCapture
  <2> QED
    BY <2>1, <2>2, <2>3, <2>4
<1>3. uQueue' \in Seq(Coded) /\ Len(uQueue') <= QueueRoom
  <2>1. CASE PassOn
    <3>1. uTx # <<>> /\ uQueue' = IF uStage = "live" /\ uCodec = "aac" /\ Len(uQueue) < QueueRoom
                                   THEN Append(uQueue, Head(uTx)) ELSE uQueue
      BY <2>1 DEF PassOn
    <3>2. Head(uTx) \in Coded
      BY <3>1 DEF WithinCapture
    <3>3. CASE Len(uQueue) < QueueRoom /\ uQueue' = Append(uQueue, Head(uTx))
      BY <3>2, <3>3, FitsMore, Rooms DEF WithinCapture
    <3>4. CASE uQueue' = uQueue
      BY <3>4 DEF WithinCapture
    <3> QED
      BY <3>1, <3>3, <3>4
  <2>2. CASE SegmenterTakes
    BY <2>2, FitsLess, Rooms DEF SegmenterTakes, WithinCapture
  <2>3. CASE AudioStreamEnds \/ AudioSessionLost
    BY <2>3, FitsNone, Rooms DEF AudioStreamEnds, AudioSessionLost
  <2>4. CASE SendCoded \/ TaskEnds \/ (TakeChunk /\ Refused(Head(uFrames)))
    BY <2>4 DEF SendCoded, TaskEnds, TakeChunk, WithinCapture
  <2> QED
    BY <2>1, <2>2, <2>3, <2>4
<1>4. Len(uFrames') <= CaptureRoom /\ uFrames' \in Seq(Chunks)
  <2>1. CASE AudioStreamEnds \/ TaskEnds
    BY <2>1, FitsNone, Rooms DEF AudioStreamEnds, TaskEnds
  <2>2. CASE TakeChunk
    <3>1. uFrames # <<>> /\ uFrames' = Tail(uFrames)
      BY <2>2 DEF TakeChunk
    <3> QED
      BY <3>1, FitsLess, Rooms DEF WithinCapture, PathShape
  <2>3. CASE SendCoded \/ PassOn \/ SegmenterTakes \/ AudioSessionLost
    BY <2>3 DEF SendCoded, PassOn, SegmenterTakes, AudioSessionLost, WithinCapture
  <2> QED
    BY <2>1, <2>2, <2>3
<1> QED
  BY <1>1, <1>2, <1>3, <1>4 DEF WithinCapture, FrameLength

\* What leaves the encoder is stamped from the first sample it took, and less than a frame stays.
LEMMA EncodedWithin ==
  ASSUME PathInv, PathInv', WithinCapture, TakeChunk, ~Refused(Head(uFrames)),
         uEmitted' <= uClock', uSwallowed' <= uClock',
         \A i \in 1 .. Len(uOut') : uOut'[i].at <= uClock'
  PROVE  WithinCapture'
<1> DEFINE c == uFrames[1].at
           pcm == uPcm \o SamplesOf(uFrames[1])
<1> PathShape /\ PathShape' /\ FromTheStart
  BY DEF PathInv
<1>1. /\ uTask = "running" /\ uFrames # <<>> /\ uFrames' = Tail(uFrames)
      /\ EncodeChunk(Head(uFrames))
      /\ UNCHANGED <<uErrors, uStage, uCodec, uClock, uCounted, uTx, uQueue>>
  BY DEF TakeChunk, callback, session
<1>2. Open
  BY <1>1 DEF Open
<1>3. c \in Nat /\ uFrames[1] = Head(uFrames) /\ c + Chunk <= uClock /\ Base \in Nat /\ Base <= c
  BY <1>1, <1>2, FramesTail
<1>4. Base = IF uAnchor = -1 THEN uFrames[1].stamp ELSE uAnchor
  BY <1>1, <1>2 DEF Base, FromTheStart
<1>5. PICK kept \in KeptFrames(Len(pcm) \div FrameLength) :
        LET coded == Coding(Base, pcm, kept)
        IN  uAnchor' = Base /\ uOut' = coded.out /\ uPcm' = coded.rest
  <2>1. EncodeChunk(uFrames[1])
    BY <1>1, <1>3
  <2> QED
    BY <1>4, <2>1 DEF EncodeChunk
<1> DEFINE coded == Coding(Base, pcm, kept)
<1>6. pcm \in Seq(Nat)
  BY <1>1, <1>2, ChunkGoesOn
<1>7. uEmitted \in Nat /\ uSwallowed \in Nat /\ uClock \in Nat /\ uClock <= Limit
  BY CountedBelow DEF PathShape, WithinCapture
<1>8. uOut' = coded.out /\ uPcm' = coded.rest /\ uAnchor' = Base
  BY <1>5
<1> HIDE DEF c, pcm
<1>9. /\ coded.out \in Seq([label : Nat, at : Nat, swallowed : Int])
      /\ Len(coded.rest) = Len(pcm) - (Len(pcm) \div FrameLength) * FrameLength
  BY <1>3, <1>6, <1>7, CodingInOrder
<1> HIDE DEF coded
<1>10. Len(uPcm') < FrameLength'
  <2>1. FrameLength' = FrameLength
    BY <1>1 DEF FrameLength
  <2>2. Len(pcm) - (Len(pcm) \div FrameLength) * FrameLength < FrameLength
    BY <1>6, FrameIsSome, RestIsShort
  <2> QED
    BY <1>8, <1>9, <2>1, <2>2
<1>11. uOut' \in Seq(Coded)
  <2>2. uOut' \in Seq([label : Nat, at : Nat, swallowed : Int])
    BY <1>8, <1>9
  <2>1. ASSUME NEW j \in 1 .. Len(uOut') PROVE uOut'[j] \in Coded
    <3>1. uOut'[j] \in [label : Nat, at : Nat, swallowed : Int]
      BY <1>8, <1>9, QueueEntry
    <3>2. uOut'[j].at \in Nat /\ uOut'[j].at <= Limit
      BY <1>1, <1>7, <3>1, LimitType
    <3>3. uOut'[j].at \in Positions
      BY <3>2, LimitType
    <3> QED
      BY <3>1, <3>3 DEF Coded
  <2> QED
    BY ONLY <2>1, <2>2
<1>12. uCounted' <= uClock' /\ uAnchor' <= uClock'
  BY <1>1, <1>3, <1>7, <1>8, ChunkLength DEF WithinCapture
<1>13. Len(uFrames') <= CaptureRoom /\ uFrames' \in Seq(Chunks)
  BY <1>1, FitsLess, Rooms DEF WithinCapture
<1> QED
  BY <1>1, <1>10, <1>11, <1>12, <1>13 DEF WithinCapture

LEMMA AudioTypes == AudioSpec => []AudioTypeOK
<1>1. AudioInit => WithinCapture
  <2> SUFFICES ASSUME AudioInit PROVE WithinCapture
    OBVIOUS
  <2>1. /\ uClock = Chunk * 0 /\ 0 \in 0 .. MaxChunks
        /\ uCounted <= uClock /\ uEmitted <= uClock /\ uSwallowed <= uClock
    BY AudioAssumption DEF AudioInit
  <2>2. /\ uOut \in Seq(Coded) /\ uTx \in Seq(Coded) /\ uQueue \in Seq(Coded) /\ uFrames \in Seq(Chunks)
        /\ Len(uFrames) <= CaptureRoom /\ Len(uTx) <= EncodedRoom /\ Len(uQueue) <= QueueRoom
    BY FitsNone, Rooms DEF AudioInit
  <2>3. Len(uPcm) < FrameLength
    BY FrameIsSome DEF AudioInit
  <2> QED
    BY <2>1, <2>2, <2>3 DEF AudioInit, WithinCapture
<1>2. (PathInv /\ Open => uEmitted <= uClock /\ uSwallowed <= uClock)'
  BY TakenWasCounted, PTL
<1>3. (PathInv /\ Open => \A i \in 1 .. Len(uOut) : uOut[i].at <= uClock)'
  BY HeardWasCounted, PTL
<1>4. PathInv /\ PathInv' /\ WithinCapture /\ [AudioNext]_audioVars => WithinCapture'
  <2> SUFFICES ASSUME PathInv, PathInv', WithinCapture, [AudioNext]_audioVars PROVE WithinCapture'
    OBVIOUS
  <2>1. PathShape
    BY DEF PathInv
  <2>2. CASE TakeChunk /\ ~Refused(Head(uFrames))
    <3>1. Open'
      BY <2>2 DEF TakeChunk, Open
    <3> QED
      BY <1>2, <1>3, <2>2, <3>1, EncodedWithin
  <2> QED
    BY <2>1, <2>2, QuietStepsWithin, ProcessWithin, MovedWithin DEF AudioNext
<1>5. PathInv /\ [AudioNext]_audioVars => PathInv'
  BY PathStep
<1>6. PathInv /\ WithinCapture => AudioTypeOK
  BY WithinTyped
<1> QED
  BY <1>1, <1>4, <1>5, <1>6, PathInit, PTL DEF AudioSpec

-----------------------------------------------------------------------------
\* A step of one part is a step or a stutter of each.
LEMMA OnePartMoves ==
  [MediaNext]_mediaVars =>
    /\ [VideoNext]_videoVars /\ [BitrateNext]_bitrateVars /\ [PacingNext]_pacingVars
    /\ [AudioNext]_audioVars /\ [Next]_vars
    /\ [TimelineNext]_timelineVars /\ [TransportNext]_transportVars
<1> SUFFICES ASSUME [MediaNext]_mediaVars
             PROVE  /\ [VideoNext]_videoVars /\ [BitrateNext]_bitrateVars /\ [PacingNext]_pacingVars
                    /\ [AudioNext]_audioVars /\ [Next]_vars
                    /\ [TimelineNext]_timelineVars /\ [TransportNext]_transportVars
  OBVIOUS
<1>1. CASE UNCHANGED mediaVars
  BY <1>1 DEF mediaVars
<1>2. CASE MediaNext
  BY <1>2 DEF MediaNext
<1> QED
  BY <1>1, <1>2

LEMMA PartsBegin ==
  MediaInit => /\ VideoInit /\ BitrateInit /\ PacingInit /\ AudioInit /\ Init
               /\ TimelineInit /\ TransportInit
  BY DEF MediaInit

\* Beside one another the seven parts behave as they do alone.
LEMMA PartsAlone ==
  MediaSpec => /\ VideoSpec /\ BitrateSpec /\ PacingSpec /\ AudioSpec /\ Spec
               /\ TimelineSpec /\ TransportSpec
  BY OnePartMoves, PartsBegin, PTL
     DEF MediaSpec, VideoSpec, BitrateSpec, PacingSpec, AudioSpec, Spec, TimelineSpec, TransportSpec

\* The state of every part of a stream keeps its shape and its bounds, for all values of all their
\* constants: no queue, counter, stamp or picture number leaves its range.
THEOREM MediaTypes == MediaSpec => []MediaTypeOK
<1>1. VideoSpec => []VideoTypeOK
  BY VideoTypes DEF VideoSpec
<1>2. BitrateSpec => []BitrateTypeOK
  BY BitrateTypes, PTL DEF BitrateSpec
<1>3. VideoTypeOK /\ BitrateTypeOK /\ PacingTypeOK /\ AudioTypeOK /\ TypeOK /\ TimelineTypeOK
        /\ TransportTypeOK => MediaTypeOK
  BY DEF MediaTypeOK
<1> QED
  BY <1>1, <1>2, <1>3, PartsAlone, PacingTypes, AudioTypes, TypeCorrect, TimelineTypes,
     TransportTypes, PTL

\* What the run media checks of each part on a small instance holds for every instance: pixels under
\* their own timestamp but for the known causes, keyframes in time, sound whose lag is accounted for,
\* an outage given up when promised, room for sound that is on time, segments that splice, and
\* timestamps and an audio PID that rise.
THEOREM MediaSafe ==
  MediaSpec =>
    /\ [](OnlyKnownCausesMislead /\ KeyframesInTime /\ LagIsAccountedFor)
    /\ [](FirstOutageAsPromised /\ FreshSoundFits /\ SegmentsSplice)
    /\ TimestampsRise /\ AudioPidRises
  BY PartsAlone, OnlyKnownCauses, KeyframesOnTime, SoundLagAccountedFor, FirstOutageKept, SoundFits,
     SplicesRight, StampsRise, PidRises, PTL
=============================================================================
