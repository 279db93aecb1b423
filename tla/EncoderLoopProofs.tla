------------------------- MODULE EncoderLoopProofs -------------------------
(***************************************************************************)
(* The streaming loop, its encoder, its supervisor and the decoder at the  *)
(* other end, for every bitrate, period, failure budget and pool: the      *)
(* target stays within its bounds, stamps rise, keyframes come in time,    *)
(* retries stay within their budget, and what is shown is what was         *)
(* encoded but for the causes the code admits.                             *)
(***************************************************************************)
EXTENDS AdaptiveBitrate, FramePacing, StreamSupervisor, VideoCoding, TLAPS

\* Between the floor and the ceiling, whichever is the lower.
Bounds == Smaller(Floor, Ceiling) .. Larger(Floor, Ceiling)

Tasks == [Handlers -> [pc : {"idle", "probe", "seed", "pressure", "store"}, new : Nat]]

\* Whatever a handler is about to store was computed from a target within the bounds.
BitrateInv ==
  /\ TargetWithinBounds /\ aPressure \in Nat /\ aTask \in Tasks
  /\ \A h \in Handlers : aTask[h].pc \in {"seed", "store"} => aTask[h].new \in Bounds

LEMMA BoundsShape ==
  /\ Bounds \subseteq Nat /\ Floor \in Bounds /\ Ceiling \in Bounds
  /\ Floor \in Nat /\ Ceiling \in Nat
BY BitrateAssumption DEF Bounds, Smaller, Larger, Floor, Ceiling

\* The probe computes a new target only when the clamp does not panic.
LEMMA CapacityBounded ==
  ASSUME NEW current \in Bounds, NEW measured \in Nat, ~ClampPanics(current, measured)
  PROVE  CapacityTarget(current, measured) \in Bounds
<1>1. CASE measured >= 2 * current
  BY <1>1 DEF CapacityTarget
<1>2. CASE ~(measured >= 2 * current)
  <2> DEFINE wish == IF measured >= current THEN (measured * 7) \div 10 ELSE measured
  <2>1. wish \in Int
    OBVIOUS
  <2>2. current \in Nat
    BY BoundsShape
  <2>3. Floor <= Ceiling /\ Floor \in Nat /\ Ceiling \in Nat
    BY <1>2, <2>2, BoundsShape DEF ClampPanics
  <2> HIDE DEF wish
  <2>4. Smaller(Ceiling, Larger(Floor, wish)) \in Bounds
    BY <2>1, <2>3 DEF Smaller, Larger, Bounds
  <2> QED
    BY <1>2, <2>4 DEF CapacityTarget, wish
<1> QED
  BY <1>1, <1>2

LEMMA PressureBounded ==
  ASSUME NEW current \in Bounds, NEW average \in Nat
  PROVE  PressureTarget(current, average) \in Bounds
BY BitrateAssumption DEF PressureTarget, Bounds, Smaller, Larger, Floor, Ceiling, PressureDown, PressureUp

\* One handler's task gets a new state.
LEMMA TaskStep ==
  ASSUME NEW tasks \in Tasks, NEW h \in Handlers,
         NEW task \in [pc : {"idle", "probe", "seed", "pressure", "store"}, new : Nat],
         task.pc \in {"seed", "store"} => task.new \in Bounds,
         \A g \in Handlers : tasks[g].pc \in {"seed", "store"} => tasks[g].new \in Bounds
  PROVE  /\ [tasks EXCEPT ![h] = task] \in Tasks
         /\ \A g \in Handlers : [tasks EXCEPT ![h] = task][g].pc \in {"seed", "store"}
                                  => [tasks EXCEPT ![h] = task][g].new \in Bounds
BY DEF Tasks

LEMMA AverageType ==
  ASSUME NEW pressure \in Nat, NEW sample \in Nat
  PROVE  (pressure * 7 + Smaller(sample, 200) * 100) \div 8 \in Nat
<1>1. Smaller(sample, 200) \in Nat
  BY DEF Smaller
<1>2. pressure * 7 + Smaller(sample, 200) * 100 \in Nat
  BY <1>1
<1> QED
  BY <1>2

LEMMA BitrateInductive == ASSUME BitrateInv, [BitrateNext]_bitrateVars PROVE BitrateInv'
<1> USE BitrateAssumption
<1> USE DEF BitrateInv, TargetWithinBounds, encoderVars
<1>0. aTarget \in Bounds /\ aTarget \in Nat
  BY BoundsShape DEF Bounds
<1>1. ASSUME NEW h \in Handlers, SegmentDelivered(h) PROVE BitrateInv'
  <2> DEFINE next == IF aSamples' = ProbeSamples /\ aSamples < ProbeSamples THEN "probe" ELSE "pressure"
             task == [aTask[h] EXCEPT !.pc = next]
  <2>1. /\ aTask' = [aTask EXCEPT ![h].pc = next] /\ aTarget' = aTarget /\ aPressure' = aPressure
        /\ next \in {"probe", "pressure"}
    BY <1>1 DEF SegmentDelivered
  <2>2. aTask[h] \in [pc : {"idle", "probe", "seed", "pressure", "store"}, new : Nat]
    BY DEF Tasks
  <2> HIDE DEF next
  <2>3. task \in [pc : {"idle", "probe", "seed", "pressure", "store"}, new : Nat] /\ task.pc = next
    BY <2>1, <2>2
  <2>4. aTask' = [aTask EXCEPT ![h] = task]
    BY <2>1 DEF Tasks
  <2> HIDE DEF task
  <2>5. task.pc \in {"seed", "store"} => task.new \in Bounds
    BY <2>1, <2>3
  <2>6. aTask' \in Tasks /\ \A g \in Handlers : aTask'[g].pc \in {"seed", "store"} => aTask'[g].new \in Bounds
    BY <2>3, <2>4, <2>5, TaskStep
  <2> QED
    BY <2>1, <2>6
<1>2. ASSUME NEW h \in Handlers, StoreTarget(h) PROVE BitrateInv'
  <2> DEFINE task == [pc |-> IF aTask[h].pc = "seed" THEN "pressure" ELSE "idle", new |-> 0]
  <2>1. /\ aTask' = [aTask EXCEPT ![h] = task] /\ aTarget' = aTask[h].new /\ aPressure' = aPressure
        /\ aTask[h].new \in Bounds
    BY <1>2 DEF StoreTarget
  <2>2. task \in [pc : {"idle", "probe", "seed", "pressure", "store"}, new : Nat]
        /\ task.pc \in {"pressure", "idle"}
    OBVIOUS
  <2> HIDE DEF task
  <2>3. aTask' \in Tasks /\ \A g \in Handlers : aTask'[g].pc \in {"seed", "store"} => aTask'[g].new \in Bounds
    BY <2>1, <2>2, TaskStep
  <2> QED
    BY <2>1, <2>3 DEF Bounds
<1>3. ASSUME NEW h \in Handlers, NEW measured \in Capacities, ObserveCapacity(h, measured)
      PROVE BitrateInv'
  <2> DEFINE new == CapacityTarget(aTarget, measured)
             task == IF ClampPanics(aTarget, measured) THEN [pc |-> "idle", new |-> 0]
                     ELSE IF new = aTarget THEN [pc |-> "pressure", new |-> 0]
                     ELSE [pc |-> "seed", new |-> new]
  <2>1. aTask' = [aTask EXCEPT ![h] = task] /\ aTarget' = aTarget /\ aPressure' = aPressure
    BY <1>3 DEF ObserveCapacity
  <2>2. ~ClampPanics(aTarget, measured) => new \in Bounds
    BY <1>0, CapacityBounded
  <2> HIDE DEF new
  <2>3. /\ task \in [pc : {"idle", "probe", "seed", "pressure", "store"}, new : Nat]
        /\ task.pc \in {"seed", "store"} => task.new \in Bounds
    BY <2>2, BoundsShape
  <2> HIDE DEF task
  <2> QED
    BY <2>1, <2>3, TaskStep
<1>4. ASSUME NEW h \in Handlers, NEW sample \in Samples, RecordPressure(h, sample) PROVE BitrateInv'
  <2> DEFINE average == (aPressure * 7 + Smaller(sample, 200) * 100) \div 8
             new == PressureTarget(aTarget, average)
             task == IF aCooling = "cooling" \/ new = aTarget
                     THEN [pc |-> "idle", new |-> 0] ELSE [pc |-> "store", new |-> new]
  <2>1. average \in Nat
    BY AverageType
  <2>2. aTask' = [aTask EXCEPT ![h] = task] /\ aTarget' = aTarget /\ aPressure' = average
    BY <1>4 DEF RecordPressure
  <2> HIDE DEF average
  <2>3. new \in Bounds
    BY <1>0, <2>1, PressureBounded
  <2> HIDE DEF new
  <2>4. /\ task \in [pc : {"idle", "probe", "seed", "pressure", "store"}, new : Nat]
        /\ task.pc \in {"seed", "store"} => task.new \in Bounds
    BY <2>3, BoundsShape
  <2> HIDE DEF task
  <2> QED
    BY <2>1, <2>2, <2>4, TaskStep
<1>5. CASE CoolDown
  BY <1>5 DEF CoolDown
<1>6. CASE ApplyTarget
  BY <1>6 DEF ApplyTarget
<1>7. CASE DropToFloor
  <2>1. aTarget' \in Bounds /\ UNCHANGED <<aPressure, aTask>>
    BY <1>7, BoundsShape DEF DropToFloor
  <2> QED
    BY <2>1 DEF Bounds
<1>8. CASE FramesChange
  BY <1>8 DEF FramesChange
<1>9. CASE UNCHANGED bitrateVars
  BY <1>9 DEF bitrateVars
<1> HIDE DEF BitrateInv
<1>10. QED
  BY <1>1, <1>2, <1>3, <1>4, <1>5, <1>6, <1>7, <1>8, <1>9 DEF BitrateNext

\* However the loads and stores of any number of handlers and the supervisor's drop interleave,
\* with any measurements and for every bitrate a stream is asked for, the target stays between the
\* floor and the ceiling, whichever is the lower: a probe whose clamp has them the wrong way round
\* panics and stores nothing (adaptive.rs, 185-188).
THEOREM TargetBounded == BitrateSpec => []TargetWithinBounds
<1>1. BitrateInit => BitrateInv
  <2> SUFFICES ASSUME BitrateInit PROVE BitrateInv
    OBVIOUS
  <2>1. aTarget = Ceiling /\ aPressure = 0 /\ aTask = [h \in Handlers |-> [pc |-> "idle", new |-> 0]]
    BY DEF BitrateInit, Ceiling
  <2>2. aTask \in Tasks /\ \A h \in Handlers : aTask[h].pc = "idle"
    BY <2>1 DEF Tasks
  <2>3. aTarget \in Bounds
    BY <2>1, BoundsShape
  <2> QED
    BY <2>1, <2>2, <2>3 DEF BitrateInv, TargetWithinBounds, Bounds
<1>2. BitrateInv /\ [BitrateNext]_bitrateVars => BitrateInv'
  BY BitrateInductive
<1>3. BitrateInv => TargetWithinBounds
  BY DEF BitrateInv
<1>4. QED
  BY <1>1, <1>2, <1>3, PTL DEF BitrateSpec
-----------------------------------------------------------------------------
\* The shape of the loop's clock, for every period.
PacingShape ==
  /\ pNow \in Nat /\ pSet \in Nat /\ pQueue \in Seq(Int) /\ pUntil \in Nat
  /\ pPc \in {"wait", "busy", "away", "fresh"}
  /\ pLast \in Int /\ pSent \in Int /\ pCopy \in Int

\* The captured frames wait in the order they were stamped in, the one being copied behind them;
\* only the first to come may be older than the stored frame, when a repeated one overtook its copy;
\* and a frame is repeated only when its period is over.
StampsInOrder ==
  /\ pSent = pLast /\ pLast <= pNow
  /\ Waiting => pLast + Period <= pUntil
  /\ \A i \in 1 .. Len(pQueue) : (pLast <= pQueue[i] \/ (pSlow /\ i = 1)) /\ pQueue[i] <= pNow
  /\ \A i, j \in 1 .. Len(pQueue) : i <= j => pQueue[i] <= pQueue[j]
  /\ pCopy # 0 => /\ pCopy <= pNow
                  /\ pLast <= pCopy \/ (pSlow /\ pQueue = <<>>)
                  /\ \A i \in 1 .. Len(pQueue) : pQueue[i] <= pCopy

PacingInv == PacingShape /\ (pSet = 0 => StampsInOrder)

LEMMA EncodedShape ==
  ASSUME PacingShape, NEW stamp \in Int, NEW length \in Nat, Encoded(stamp, length)
  PROVE  pUntil' \in Nat /\ pPc' = "busy" /\ pSent' = stamp
BY DEF PacingShape, Encoded

LEMMA QueueGrows ==
  ASSUME NEW q \in Seq(Int), NEW e \in Int
  PROVE  /\ Append(q, e) \in Seq(Int) /\ Len(Append(q, e)) = Len(q) + 1 /\ Append(q, e) # <<>>
         /\ Len(q) \in Nat /\ Append(q, e)[Len(q) + 1] = e
         /\ \A i \in 1 .. Len(q) : Append(q, e)[i] = q[i]
OBVIOUS

\* The frame that was copied joins the end of the queue.
LEMMA CopiedKeeps ==
  ASSUME PacingInv, Captured, Len(pQueue) < Room
  PROVE  PacingInv'
<1> PacingShape
  BY DEF PacingInv
<1>1. /\ pQueue' = Append(pQueue, pCopy) /\ pCopy # 0 /\ pCopy' = 0
      /\ UNCHANGED <<pNow, pSet, pPc, pUntil, pLast, pSent, pSlow>>
  BY DEF Captured
<1>2. pQueue \in Seq(Int) /\ pCopy \in Int
  BY DEF PacingShape
<1>3. /\ pQueue' \in Seq(Int) /\ Len(pQueue') = Len(pQueue) + 1 /\ pQueue'[Len(pQueue) + 1] = pCopy
      /\ Len(pQueue) \in Nat /\ \A i \in 1 .. Len(pQueue) : pQueue'[i] = pQueue[i]
  BY <1>1, <1>2, QueueGrows
<1>4. PacingShape'
  BY <1>1, <1>3 DEF PacingShape
<1>5. ASSUME pSet = 0 PROVE StampsInOrder'
  <2>1. StampsInOrder
    BY <1>5 DEF PacingInv
  <2>2. ASSUME NEW i \in 1 .. Len(pQueue')
        PROVE  (pLast <= pQueue'[i] \/ (pSlow /\ i = 1)) /\ pQueue'[i] <= pNow
    <3>1. CASE i \in 1 .. Len(pQueue)
      BY <1>3, <2>1, <3>1 DEF StampsInOrder
    <3>2. CASE i = Len(pQueue) + 1
      <4>1. pQueue'[i] = pCopy /\ pCopy <= pNow
        BY <1>1, <1>3, <2>1, <3>2 DEF StampsInOrder
      <4>2. CASE pLast <= pCopy
        BY <4>1, <4>2
      <4>3. CASE ~(pLast <= pCopy)
        <5>1. pSlow /\ pQueue = <<>>
          BY <1>1, <2>1, <4>3 DEF StampsInOrder
        <5> QED
          BY <3>2, <4>1, <5>1
      <4> QED
        BY <4>2, <4>3
    <3> QED
      BY <1>3, <2>2, <3>1, <3>2
  <2>3. ASSUME NEW i \in 1 .. Len(pQueue'), NEW k \in 1 .. Len(pQueue'), i <= k
        PROVE  pQueue'[i] <= pQueue'[k]
    <3>1. CASE k \in 1 .. Len(pQueue)
      <4>1. i \in 1 .. Len(pQueue)
        BY <1>3, <2>3, <3>1
      <4> QED
        BY <1>3, <2>1, <2>3, <3>1, <4>1 DEF StampsInOrder
    <3>2. CASE k = Len(pQueue) + 1
      <4>1. pQueue'[k] = pCopy
        BY <1>3, <3>2
      <4>2. CASE i \in 1 .. Len(pQueue)
        BY <1>1, <1>3, <2>1, <4>1, <4>2 DEF StampsInOrder
      <4>3. CASE i = Len(pQueue) + 1
        BY <1>2, <3>2, <4>1, <4>3
      <4> QED
        BY <1>3, <2>3, <4>2, <4>3
    <3> QED
      BY <1>3, <2>3, <3>1, <3>2
  <2>4. pSent' = pLast' /\ pLast' <= pNow' /\ (Waiting' => pLast' + Period <= pUntil')
    BY <1>1, <2>1 DEF StampsInOrder, Waiting
  <2> QED
    BY <1>1, <2>2, <2>3, <2>4 DEF StampsInOrder
<1> QED
  BY <1>1, <1>4, <1>5 DEF PacingInv

LEMMA PacingInductive ==
  ASSUME PacingInv, [PacingNext]_pacingVars
  PROVE  PacingInv'
<1> USE PacingAssumption
<1> USE DEF PacingInv, PacingShape, keyVars
<1>1. CASE Tick
  BY <1>1 DEF Tick, StampsInOrder, Waiting
<1>2. CASE CopyStarts
  <2>1. pCopy' = pNow - pSet /\ UNCHANGED <<pNow, pSet, pQueue, pPc, pUntil, pLast, pSent, pSlow>>
    BY <1>2 DEF CopyStarts
  <2>2. ASSUME pSet = 0 PROVE StampsInOrder'
    <3>1. pCopy' = pNow
      BY <2>1, <2>2
    <3> QED
      BY <2>1, <2>2, <3>1 DEF StampsInOrder, Waiting
  <2> QED
    BY <2>1, <2>2
<1>3. CASE Captured
  <2>1. CASE Len(pQueue) < Room
    BY <1>3, <2>1, CopiedKeeps
  <2>2. CASE ~(Len(pQueue) < Room)
    BY <1>3, <2>2 DEF Captured, StampsInOrder, Waiting
  <2> QED
    BY <2>1, <2>2
<1>4. CASE ClockSet
  BY <1>4 DEF ClockSet
<1>5. CASE Sent
  BY <1>5 DEF Sent, StampsInOrder, Waiting
<1>6. CASE SessionResumes
  BY <1>6 DEF SessionResumes, StampsInOrder, Waiting
<1>7. CASE SoundTaken
  BY <1>7 DEF SoundTaken, StampsInOrder, Waiting
<1>8. ASSUME NEW length \in 0 .. MaxEncode, TakeFrame(length) PROVE PacingInv'
  <2>1. pQueue # <<>> /\ Head(pQueue) \in Int /\ Len(pQueue) >= 1 /\ Head(pQueue) = pQueue[1]
    BY <1>8 DEF TakeFrame
  <2>2. /\ pQueue' = Tail(pQueue) /\ pLast' = Head(pQueue) /\ UNCHANGED <<pNow, pSet, pCopy>>
        /\ pUntil' \in Nat /\ pPc' = "busy" /\ pSent' = Head(pQueue) /\ pSlow' = FALSE
    BY <1>8, <2>1, EncodedShape DEF TakeFrame
  <2>3. PacingShape'
    BY <2>1, <2>2
  <2>4. ASSUME pSet = 0 PROVE StampsInOrder'
    <3>1. Len(pQueue') = Len(pQueue) - 1 /\ \A i \in 1 .. Len(pQueue') : pQueue'[i] = pQueue[i + 1]
      BY <2>1, <2>2
    <3>2. pCopy' # 0 => /\ pCopy' <= pNow /\ pLast' <= pCopy'
                        /\ \A i \in 1 .. Len(pQueue') : pQueue'[i] <= pCopy'
      BY <2>1, <2>2, <2>4, <3>1 DEF StampsInOrder
    <3>3. /\ pSent' = pLast' /\ pLast' <= pNow' /\ ~Waiting'
          /\ \A i \in 1 .. Len(pQueue') : pLast' <= pQueue'[i] /\ pQueue'[i] <= pNow'
          /\ \A i, j \in 1 .. Len(pQueue') : i <= j => pQueue'[i] <= pQueue'[j]
      BY <2>1, <2>2, <2>4, <3>1 DEF StampsInOrder, Waiting
    <3> QED
      BY <2>2, <3>2, <3>3 DEF StampsInOrder
  <2>5. QED
    BY <2>2, <2>3, <2>4
<1>9. ASSUME NEW length \in 0 .. MaxEncode, Reemit(length) PROVE PacingInv'
  <2>1. /\ pQueue = <<>> /\ pQueue' = pQueue /\ pLast' = pLast + Period /\ UNCHANGED <<pNow, pSet, pCopy>>
        /\ pUntil' \in Nat /\ pPc' = "busy" /\ pSent' = pLast + Period
        /\ Waiting /\ pNow >= pUntil /\ pSlow' = (pSlow \/ pCopy # 0)
    BY <1>9, EncodedShape DEF Reemit, Bumped
  <2>2. pCopy # 0 => pSlow'
    BY <2>1
  <2>3. PacingShape'
    BY <2>1, <2>2
  <2>4. ASSUME pSet = 0 PROVE StampsInOrder'
    BY <2>1, <2>2, <2>4 DEF StampsInOrder, Waiting
  <2> QED
    BY <2>1, <2>3, <2>4
<1>10. ASSUME NEW length \in 1 .. MaxAway, SessionEnds(length) PROVE PacingInv'
  BY <1>10 DEF SessionEnds, StampsInOrder, Waiting
<1>11. CASE UNCHANGED pacingVars
  BY <1>11 DEF pacingVars, StampsInOrder, Waiting
<1> HIDE DEF PacingInv
<1>12. QED
  BY <1>1, <1>2, <1>3, <1>4, <1>5, <1>6, <1>7, <1>8, <1>9, <1>10, <1>11 DEF PacingNext

LEMMA StampRises ==
  ASSUME PacingInv, [PacingNext]_pacingVars, pSet = 0, pSet' = 0
  PROVE  pSent' >= pSent \/ pSlow
<1> USE PacingAssumption
<1> USE DEF PacingInv, PacingShape
<1>1. ASSUME NEW length \in 0 .. MaxEncode, TakeFrame(length) PROVE pSent' >= pSent \/ pSlow
  <2>1. Len(pQueue) >= 1 /\ Head(pQueue) = pQueue[1] /\ Head(pQueue) \in Int
    BY <1>1 DEF TakeFrame
  <2>2. pSent' = Head(pQueue)
    BY <1>1, <2>1, EncodedShape DEF TakeFrame
  <2>3. QED
    BY <2>1, <2>2 DEF StampsInOrder
<1>2. ASSUME NEW length \in 0 .. MaxEncode, Reemit(length) PROVE pSent' >= pSent
  <2>1. pSent' = pLast + Period
    BY <1>2, EncodedShape DEF Reemit, Bumped
  <2>2. QED
    BY <2>1 DEF StampsInOrder
<1>3. ASSUME \/ Tick \/ CopyStarts \/ Captured \/ ClockSet \/ Sent \/ SessionResumes \/ SoundTaken
             \/ UNCHANGED pacingVars
             \/ \E length \in 1 .. MaxAway : SessionEnds(length)
      PROVE pSent' >= pSent
  BY <1>3 DEF Tick, CopyStarts, Captured, ClockSet, Sent, SessionResumes, SoundTaken, SessionEnds, pacingVars
<1>4. QED
  BY <1>1, <1>2, <1>3 DEF PacingNext

\* While nobody sets the clock back, no frame is encoded under an earlier stamp than the one
\* before it, for every frame period, encoding time, reconnect and number of waiting frames, however
\* often sound restarts the wait and however long a copy takes (pipewire/stream.rs, 477-597), but
\* for the frame a repeated one overtook while it was being copied.
THEOREM StampsRise == PacingSpec => TimestampsRise
<1>1. PacingInit => PacingInv
  BY PacingAssumption DEF PacingInit, PacingInv, PacingShape, StampsInOrder, Waiting
<1>2. PacingInv /\ [PacingNext]_pacingVars => PacingInv'
  BY PacingInductive
<1>3. PacingInv /\ [PacingNext]_pacingVars => [pSet = 0 /\ pSet' = 0 => pSent' >= pSent \/ pSlow]_pacingVars
  BY StampRises
<1>4. QED
  BY <1>1, <1>2, <1>3, PTL DEF PacingSpec, TimestampsRise

-----------------------------------------------------------------------------
\* No stamp is 0, which stands for no frame: the loop waits without a frame only for the first one.
SomeFrame ==
  /\ pNow >= 1 /\ pLast >= 0
  /\ \/ pSet = 0
     \/ pSet = 2 /\ pNow > 2
  /\ \A i \in 1 .. Len(pQueue) : pQueue[i] >= 1
  /\ pCopy >= 0
  /\ pLast = 0 => pQueue # <<>>

\* The clock's next keyframe is never more than an interval after the last one sent, and the loop
\* is back for it within a period and an encode, unless sound restarts its wait.
KeyClock ==
  /\ pKeyAt \in Nat /\ pKeySent \in 0 .. pNow /\ pKeyAt <= pKeySent + Interval
  /\ pPc \in {"wait", "busy"} => pNow <= pUntil
  /\ pPc = "busy" => pUntil <= pKeyAt + MaxEncode
  /\ pPc = "wait" /\ ~pSound => pUntil <= pKeyAt + MaxEncode + Period

KeyInv == PacingShape /\ SomeFrame /\ KeyClock

\* The loop over next_keyframe_at ends at the next point of the grid.
LEMMA NextOnGrid ==
  ASSUME NEW now \in Nat, pKeyAt \in Nat
  PROVE  /\ NextKeyAt(now) \in Nat /\ now < NextKeyAt(now)
         /\ now >= pKeyAt => NextKeyAt(now) <= now + Interval
         /\ now < pKeyAt => NextKeyAt(now) = pKeyAt
<1>1. Interval \in Nat \ {0}
  BY PacingAssumption
<1>2. CASE now < pKeyAt
  BY <1>2 DEF NextKeyAt
<1>3. CASE now >= pKeyAt
  <2> DEFINE late == now - pKeyAt
             q == late \div Interval
             r == late % Interval
             all == (q + 1) * Interval
  <2>1. late \in Nat
    BY <1>3
  <2> HIDE DEF late
  <2>2. q \in Nat /\ r \in 0 .. Interval - 1 /\ late = Interval * q + r
    BY <1>1, <2>1
  <2> HIDE DEF q, r
  <2>3. all = Interval * q + Interval /\ Interval * q \in Nat
    BY <1>1, <2>2
  <2>4. NextKeyAt(now) = pKeyAt + all
    BY <1>3 DEF NextKeyAt, q, late
  <2> HIDE DEF all
  <2>5. late = now - pKeyAt
    BY DEF late
  <2>6. QED
    BY <1>1, <1>3, <2>2, <2>3, <2>4, <2>5
<1>4. QED
  BY <1>2, <1>3

\* An encode sends the keyframe that is due and puts the next one off by an interval at most.
LEMMA EncodedKeepsKeys ==
  ASSUME PacingShape, SomeFrame, KeyClock, NEW stamp \in Int, NEW length \in 0 .. MaxEncode,
         Encoded(stamp, length), pNow' = pNow
  PROVE  KeyClock'
<1> USE PacingAssumption
<1>1. pNow \in Nat /\ pKeyAt \in Nat /\ pKeySent \in 0 .. pNow /\ pKeyAt <= pKeySent + Interval
  BY DEF PacingShape, KeyClock
<1>2. /\ pKeyAt' = NextKeyAt(pNow) /\ pPc' = "busy" /\ pUntil' = pNow + length
      /\ pKeySent' \in {pNow, pKeySent} /\ (pNow >= pKeyAt => pKeySent' = pNow)
  BY DEF Encoded
<1>3. /\ NextKeyAt(pNow) \in Nat /\ pNow < NextKeyAt(pNow)
      /\ pNow >= pKeyAt => NextKeyAt(pNow) <= pNow + Interval
      /\ pNow < pKeyAt => NextKeyAt(pNow) = pKeyAt
  BY <1>1, NextOnGrid
<1>4. pKeyAt' <= pKeySent' + Interval
  BY <1>1, <1>2, <1>3
<1>5. QED
  BY <1>1, <1>2, <1>3, <1>4 DEF KeyClock

LEMMA LaterQueued ==
  ASSUME NEW s \in Seq(Int), \A i \in 1 .. Len(s) : s[i] >= 1, NEW e \in Int, e >= 1
  PROVE  /\ Append(s, e) \in Seq(Int) /\ Append(s, e) # <<>>
         /\ \A i \in 1 .. Len(Append(s, e)) : Append(s, e)[i] >= 1
<1>1. /\ Append(s, e) \in Seq(Int) /\ Len(Append(s, e)) = Len(s) + 1 /\ Append(s, e) # <<>>
      /\ Len(s) \in Nat /\ Append(s, e)[Len(s) + 1] = e
      /\ \A i \in 1 .. Len(s) : Append(s, e)[i] = s[i]
  BY QueueGrows
<1> QED
  BY <1>1

LEMMA KeyInductive == ASSUME KeyInv, [PacingNext]_pacingVars PROVE KeyInv'
<1> USE PacingAssumption
<1> USE DEF KeyInv, PacingShape, keyVars
<1>1. CASE Tick
  <2>1. pPc = "wait" => pLast # 0 \/ pQueue # <<>>
    BY DEF SomeFrame
  <2>2. pPc \in {"wait", "busy"} => pNow < pUntil
    BY <1>1, <2>1 DEF Tick, Due, Waiting
  <2>3. QED
    BY <1>1, <2>2 DEF Tick, SomeFrame, KeyClock
<1>2. CASE CopyStarts
  <2>1. /\ UNCHANGED <<pNow, pSet, pQueue, pPc, pUntil, pLast, pKeyAt, pKeySent, pSent, pSlow, pSound>>
        /\ pCopy' = pNow - pSet
    BY <1>2 DEF CopyStarts
  <2> QED
    BY <2>1 DEF SomeFrame, KeyClock
<1>3. CASE Captured
  <2>1. /\ UNCHANGED <<pNow, pSet, pPc, pUntil, pLast, pKeyAt, pKeySent, pSent, pSlow, pSound>>
        /\ pQueue' \in {pQueue, Append(pQueue, pCopy)} /\ pCopy' = 0 /\ pCopy >= 1
    BY <1>3 DEF Captured, SomeFrame
  <2>2. /\ pQueue' \in Seq(Int) /\ \A i \in 1 .. Len(pQueue') : pQueue'[i] >= 1
        /\ pQueue # <<>> => pQueue' # <<>>
    <3>1. CASE pQueue' = pQueue
      BY <3>1 DEF SomeFrame
    <3>2. CASE pQueue' = Append(pQueue, pCopy)
      <4>1. pQueue \in Seq(Int) /\ \A i \in 1 .. Len(pQueue) : pQueue[i] >= 1
        BY DEF SomeFrame
      <4> QED
        BY <2>1, <3>2, <4>1, LaterQueued
    <3> QED
      BY <2>1, <3>1, <3>2
  <2> QED
    BY <2>1, <2>2 DEF SomeFrame, KeyClock
<1>4. CASE ClockSet
  BY <1>4 DEF ClockSet, SomeFrame, KeyClock
<1>5. CASE Sent
  BY <1>5 DEF Sent, SomeFrame, KeyClock
<1>6. CASE SessionResumes
  BY <1>6 DEF SessionResumes, SomeFrame, KeyClock
<1>8. ASSUME NEW length \in 0 .. MaxEncode, TakeFrame(length) PROVE KeyInv'
  <2>1. pQueue # <<>> /\ Head(pQueue) \in Int /\ Len(pQueue) >= 1 /\ Head(pQueue) = pQueue[1]
    BY <1>8 DEF TakeFrame
  <2>2. /\ pQueue' = Tail(pQueue) /\ pLast' = Head(pQueue) /\ pNow' = pNow /\ pSet' = pSet
        /\ Encoded(Head(pQueue), length) /\ pCopy' = pCopy /\ pSlow' = FALSE
    BY <1>8 DEF TakeFrame
  <2>3. KeyClock'
    BY <2>1, <2>2, EncodedKeepsKeys
  <2>4. pUntil' \in Nat /\ pPc' = "busy" /\ pSent' = Head(pQueue)
    BY <2>1, <2>2, EncodedShape
  <2>5. Len(pQueue') = Len(pQueue) - 1 /\ \A i \in 1 .. Len(pQueue') : pQueue'[i] = pQueue[i + 1]
    BY <2>1, <2>2
  <2>6. SomeFrame'
    BY <2>1, <2>2, <2>5 DEF SomeFrame
  <2>7. PacingShape'
    BY <2>1, <2>2, <2>4
  <2>8. QED
    BY <2>3, <2>6, <2>7
<1>9. ASSUME NEW length \in 0 .. MaxEncode, Reemit(length) PROVE KeyInv'
  <2>1. /\ pQueue' = pQueue /\ pLast' = pLast + Period /\ pLast # 0 /\ pNow' = pNow /\ pSet' = pSet
        /\ Encoded(pLast + Period, length) /\ pCopy' = pCopy /\ pSlow' = (pSlow \/ pCopy # 0)
    BY <1>9 DEF Reemit, Bumped
  <2>2. KeyClock'
    BY <2>1, EncodedKeepsKeys
  <2>3. pUntil' \in Nat /\ pPc' = "busy" /\ pSent' = pLast + Period
    BY <2>1, EncodedShape
  <2>4. QED
    BY <2>1, <2>2, <2>3 DEF SomeFrame
<1>10. ASSUME NEW length \in 1 .. MaxAway, SessionEnds(length) PROVE KeyInv'
  BY <1>10 DEF SessionEnds, SomeFrame, KeyClock
<1>11. CASE UNCHANGED pacingVars
  BY <1>11 DEF pacingVars, SomeFrame, KeyClock
<1>7. CASE SoundTaken
  <2>1. /\ UNCHANGED <<pNow, pSet, pQueue, pCopy, pPc, pLast, pKeyAt, pKeySent, pSent>>
        /\ pUntil' = pNow + Period /\ pPc # "busy"
    BY <1>7 DEF SoundTaken, Waiting
  <2>2. pSound'
    BY <1>7 DEF SoundTaken
  <2>3. KeyClock'
    <3>1. pNow <= pUntil' /\ pUntil' \in Nat
      BY <2>1
    <3> QED
      BY <2>1, <2>2, <3>1 DEF KeyClock
  <2> QED
    BY <2>1, <2>3 DEF SomeFrame
<1>12. QED
  BY <1>1, <1>2, <1>3, <1>4, <1>5, <1>6, <1>7, <1>8, <1>9, <1>10, <1>11 DEF PacingNext

\* For every frame period, keyframe interval, encoding time and number of reconnects: from one
\* keyframe sent to the next passes no more than the interval, a period and an encode, because the
\* loop's clock and the encoder's own count of frames ask for one each (manager.rs, 1249-1300), as
\* long as sound does not restart the wait for a frame before it is over (1201).
THEOREM KeyframesOnTime == PacingSpec => []KeyframesInTime
<1>1. PacingInit => KeyInv
  BY PacingAssumption DEF PacingInit, KeyInv, PacingShape, SomeFrame, KeyClock
<1>2. KeyInv /\ [PacingNext]_pacingVars => KeyInv'
  BY KeyInductive
<1>3. KeyInv => KeyframesInTime
  BY PacingAssumption DEF KeyInv, PacingShape, KeyClock, KeyframesInTime
<1>4. QED
  BY <1>1, <1>2, <1>3, PTL DEF PacingSpec

-----------------------------------------------------------------------------
(* The backoff is one of five durations.                                   *)
LEMMA BackoffType == ASSUME NEW n \in Nat \ {0} PROVE Backoff(n) \in Nat
<1>1. AtMost(n, 5) \in 1 .. 5
  BY DEF AtMost
<1>2. CASE AtMost(n, 5) = 1
  BY <1>2 DEF Backoff
<1>3. CASE AtMost(n, 5) = 2
  BY <1>3 DEF Backoff
<1>4. CASE AtMost(n, 5) = 3
  BY <1>4 DEF Backoff
<1>5. CASE AtMost(n, 5) = 4
  BY <1>5 DEF Backoff
<1>6. CASE AtMost(n, 5) = 5
  BY <1>6 DEF Backoff
<1> QED
  BY <1>1, <1>2, <1>3, <1>4, <1>5, <1>6

(* The seconds n backoffs have taken, as far as they are counted.          *)
Waited(n) == <<0, 1, 3, 7, 15, 31>>[AtMost(n, 5) + 1]

(* The backoff before attempt n + 1 is what is missing to that.            *)
LEMMA WaitedStep ==
  ASSUME NEW n \in Nat, NEW d \in 0 .. LongDown, d >= Waited(n)
  PROVE  AtMost(d + Backoff(n + 1), LongDown) >= Waited(n + 1)
<1>1. n = 0 \/ n = 1 \/ n = 2 \/ n = 3 \/ n = 4 \/ n >= 5
  OBVIOUS
<1>2. CASE n = 0
  BY <1>2 DEF Waited, Backoff, AtMost, LongDown
<1>3. CASE n = 1
  BY <1>3 DEF Waited, Backoff, AtMost, LongDown
<1>4. CASE n = 2
  BY <1>4 DEF Waited, Backoff, AtMost, LongDown
<1>5. CASE n = 3
  BY <1>5 DEF Waited, Backoff, AtMost, LongDown
<1>6. CASE n = 4
  BY <1>6 DEF Waited, Backoff, AtMost, LongDown
<1>7. CASE n >= 5
  BY <1>7 DEF Waited, Backoff, AtMost, LongDown
<1> QED
  BY <1>1, <1>2, <1>3, <1>4, <1>5, <1>6, <1>7

(* Passing time keeps ages and outages in range and never makes an instant *)
(* out of None, nor None out of an instant.                                *)
LEMMA PassesType ==
  ASSUME TypeOK, NEW t \in Nat, Passes(t)
  PROVE  /\ age' \in {Never} \cup 0 .. Old /\ down' \in 0 .. LongDown
         /\ age' = Never <=> age = Never
BY StreamSupervisorAssumption DEF TypeOK, Passes, AtMost, Never, Old, LongDown

(* A task that is deciding has failures left or has just used up the last. *)
Budget == pc # "gaveup" => failures <= MaxFailures

(* In the first outage the counter counts the failed attempts.             *)
Counted ==
  age = Never =>
    /\ pc \in {"streaming", "deciding"} => row = failures
    /\ pc = "connecting" => row + 1 = failures
    /\ row <= MaxFailures

Inv == TypeOK /\ Budget /\ Counted

LEMMA InvInit == Init => Inv
BY StreamSupervisorAssumption
DEF Init, Inv, TypeOK, Budget, Counted, Never, Old, RowCap, LongDown

LEMMA InvStep == Inv /\ [Next]_vars => Inv'
<1> SUFFICES ASSUME Inv, [Next]_vars PROVE Inv'
  OBVIOUS
<1> USE StreamSupervisorAssumption
<1> TypeOK /\ Budget /\ Counted
  BY DEF Inv
<1>1. CASE UNCHANGED vars
  BY <1>1 DEF vars, Inv, TypeOK, Budget, Counted
<1>2. CASE SessionDies \/ Leave
  BY <1>2 DEF SessionDies, Leave, Inv, TypeOK, Budget, Counted
<1>3. CASE TryAgain
  <2>1. Attempt \in 1 .. MaxFailures /\ (age = Never => Attempt = failures + 1)
    BY <1>3 DEF TryAgain, Retries, Attempt, KeptFailures, TypeOK, Budget, Never, Old
  <2>2. /\ age' \in {Never} \cup 0 .. Old /\ down' \in 0 .. LongDown
        /\ age' = Never <=> age = Never
    BY <1>3, <2>1, BackoffType, PassesType DEF TryAgain
  <2> QED
    BY <1>3, <2>1, <2>2 DEF TryAgain, Inv, TypeOK, Budget, Counted, RowCap
<1>4. CASE GiveUp
  <2>1. Attempt \in 0 .. MaxFailures + 1
    BY <1>4 DEF GiveUp, Attempt, KeptFailures, TypeOK, Budget
  <2> QED
    BY <1>4, <2>1 DEF GiveUp, Inv, TypeOK, Budget, Counted
<1>5. CASE Reconnected
  BY <1>5
  DEF Reconnected, Inv, TypeOK, Budget, Counted, Never, Old, RowCap, LongDown
<1>6. ASSUME NEW t \in Nat, Stream(t) PROVE Inv'
  BY <1>6, PassesType DEF Stream, Inv, TypeOK, Budget, Counted
<1>7. ASSUME NEW t \in Nat, ConnectFails(t) PROVE Inv'
  <2>1. /\ age' \in {Never} \cup 0 .. Old /\ down' \in 0 .. LongDown
        /\ age' = Never <=> age = Never
    BY <1>7, PassesType DEF ConnectFails
  <2>2. row' \in 0 .. RowCap /\ (row <= MaxFailures => row' = row + 1)
    BY <1>7 DEF ConnectFails, AtMost, RowCap, TypeOK
  <2> QED
    BY <1>7, <2>1, <2>2 DEF ConnectFails, Inv, TypeOK, Budget, Counted
<1>8. Old \in Nat
  BY DEF Old
<1> QED
  BY <1>1, <1>2, <1>3, <1>4, <1>5, <1>6, <1>7, <1>8 DEF Next

(* The first outage has lasted at least the backoffs it has waited for, and*)
(* has waited for all of them before the task gives up.                    *)
Patient ==
  age = Never =>
    /\ pc = "streaming" => failures = 0
    /\ pc \in {"deciding", "connecting"} => down >= Waited(failures)
    /\ pc = "gaveup" => down >= Waited(MaxFailures)

LEMMA WaitedMost == ASSUME NEW n \in Nat PROVE Waited(n) \in 0 .. LongDown
<1>1. AtMost(n, 5) + 1 \in 1 .. 6
  BY DEF AtMost
<1> QED
  BY <1>1 DEF Waited, LongDown

LEMMA PatientInit == Init => Patient
BY DEF Init, Patient

LEMMA PatientStep == Inv /\ Patient /\ [Next]_vars => Patient'
<1> SUFFICES ASSUME Inv, Patient, [Next]_vars PROVE Patient'
  OBVIOUS
<1> USE StreamSupervisorAssumption
<1>a. TypeOK /\ Budget
  BY DEF Inv
<1>b. failures \in Nat /\ down \in 0 .. LongDown /\ LongDown \in Nat
  BY <1>a DEF TypeOK, LongDown
<1>1. CASE UNCHANGED vars
  BY <1>1 DEF vars, Patient
<1>2. CASE SessionDies
  <2>1. age = Never => failures = 0
    BY <1>2 DEF SessionDies, Patient
  <2>2. Waited(0) = 0
    BY DEF Waited, AtMost
  <2> QED
    BY <1>2, <1>b, <2>1, <2>2 DEF SessionDies, Patient
<1>3. CASE Leave
  BY <1>3 DEF Leave, Patient
<1>4. CASE TryAgain
  <2>1. SUFFICES ASSUME age' = Never
                 PROVE  pc' = "connecting" /\ down' >= Waited(failures')
    BY DEF Patient
  <2>a. Attempt \in Nat \ {0} /\ Passes(Backoff(Attempt))
    BY <1>4, <1>b DEF TryAgain, Attempt, KeptFailures
  <2>b. age = Never
    BY <1>a, <2>1, <2>a, BackoffType, PassesType
  <2>2. age = Never /\ pc = "deciding" /\ pc' = "connecting" /\ failures' = failures + 1
    BY <1>4, <2>b DEF TryAgain, Never, Attempt, KeptFailures
  <2>3. down' = AtMost(down + Backoff(failures + 1), LongDown)
    BY <1>4, <2>2 DEF TryAgain, Passes, Attempt, KeptFailures, Never
  <2>4. down >= Waited(failures)
    BY <2>2 DEF Patient
  <2> QED
    BY <1>b, <2>2, <2>3, <2>4, WaitedStep
<1>5. CASE GiveUp
  <2>1. SUFFICES ASSUME age = Never
                 PROVE  pc' = "gaveup" /\ down >= Waited(MaxFailures)
    BY <1>5 DEF GiveUp, Patient
  <2>2. failures = MaxFailures
    BY <1>5, <1>a, <2>1
    DEF GiveUp, Retries, Attempt, KeptFailures, Never, Budget, TypeOK
  <2> QED
    BY <1>5, <2>1, <2>2 DEF GiveUp, Patient
<1>6. CASE Reconnected
  BY <1>6 DEF Reconnected, Patient, Never
<1>7. ASSUME NEW t \in Nat, Stream(t) PROVE Patient'
  BY <1>7, <1>a, PassesType DEF Stream, Patient
<1>8. ASSUME NEW t \in Nat, ConnectFails(t) PROVE Patient'
  <2>1. SUFFICES ASSUME age' = Never
                 PROVE  pc' = "deciding" /\ down' >= Waited(failures')
    BY <1>8 DEF ConnectFails, Patient
  <2>2. age = Never
    BY <1>8, <1>a, <2>1, PassesType DEF ConnectFails
  <2>3. down >= Waited(failures) /\ down' >= down
    <3>1. down + t >= down /\ down' = AtMost(down + t, LongDown)
      BY <1>8, <1>b DEF ConnectFails, Passes
    <3> QED
      BY <1>8, <1>b, <2>2, <3>1 DEF ConnectFails, Patient, AtMost
  <2> QED
    BY <1>8, <1>b, <2>3, WaitedMost, PassesType, <1>a DEF ConnectFails, TypeOK
<1>9. Old \in Nat
  BY DEF Old
<1> QED
  BY <1>1, <1>2, <1>3, <1>4, <1>5, <1>6, <1>7, <1>8, <1>9 DEF Next

(* The counters and instants stay in range.                                *)
THEOREM TypeCorrect == Spec => []TypeOK
<1>1. Spec => []Inv
  BY InvInit, InvStep, PTL DEF Spec
<1>2. Inv => TypeOK
  BY DEF Inv
<1> QED
  BY <1>1, <1>2, PTL

(* Until the stream is first re-established, no more attempts fail than    *)
(* the budget allows, whatever it is and however long the attempts take,   *)
(* and a task that gives up has waited through the whole backoff.          *)
THEOREM FirstOutageKept == Spec => []FirstOutageAsPromised
<1>1. Spec => []Inv
  BY InvInit, InvStep, PTL DEF Spec
<1>2. Spec => []Patient
  BY <1>1, PatientInit, PatientStep, PTL DEF Spec
<1>3. Inv => FirstOutageBounded
  BY DEF Inv, Counted, FirstOutageBounded
<1>4. Inv /\ Patient => FirstOutagePatient
  <2> SUFFICES ASSUME Inv, Patient, pc = "gaveup", age = Never, MaxFailures >= 5
               PROVE  down = LongDown
    BY DEF FirstOutagePatient
  <2>1. Waited(MaxFailures) = 31
    BY StreamSupervisorAssumption DEF Waited, AtMost
  <2> QED
    BY <2>1 DEF Patient, Inv, TypeOK, LongDown
<1> QED
  BY <1>1, <1>2, <1>3, <1>4, PTL DEF FirstOutageAsPromised

-----------------------------------------------------------------------------
\* The state's shape, without its bounds.
VideoShape ==
  /\ vHost \in Hosts /\ vPending \in BOOLEAN /\ vIdx \in Nat
  /\ vKind \in {"pending", "nvenc", "vaapi", "x264", "none", "failed"}
  /\ vNext \in Recon /\ vPrev \in Recon \union {NoPrev} /\ DOMAIN vRecon = Recon
  /\ vBuffer \in {1, 2} /\ vCache \in {0, 1, 2}
  /\ DOMAIN dSurf = Pool /\ dNext \in Pool /\ dPrev \in Pool \union {NoPrev}
  /\ dParams \in BOOLEAN /\ dFailed \in BOOLEAN
  /\ \E S : vWire \in Seq(S)

\* Nothing happens before the encoder is chosen, or to the first buffer before the second.
Beginnings ==
  /\ vKind = "pending" =>
       vWire = <<>> /\ vIdx = 0 /\ vPrev = NoPrev /\ dKind = "pending"
  /\ vBuffer = 1 => vCache \in {0, 1} /\ vSize = "same"

\* None of the causes that mislead the receiver without a failure of its own.
NoCause == vKind \in {"nvenc", "vaapi"} /\ vCache \in {0, vBuffer} /\ vSize = "same"

\* A unit that codes the n-th picture, as it was captured and against the one before it.
Truthful(unit, n) ==
  /\ n \in Nat \ {0} /\ unit.pic = n /\ unit.src = n /\ unit.label = n
  /\ unit.idr \in BOOLEAN /\ unit.headers = unit.idr
  /\ ~unit.idr => unit.ref = n - 1 /\ n > 1

\* The encoder's only reference is the picture before the next.
ReconRight ==
  vKind = "vaapi" =>
    /\ vPrev = NoPrev <=> vIdx = 0
    /\ vPrev # NoPrev => vPrev # vNext /\ vRecon[vPrev] = vIdx

\* The picture the receiver's decoder gets next.
Following == vIdx - Len(vWire) + 1

WireRight == \A i \in 1 .. Len(vWire) : Truthful(vWire[i], vIdx - Len(vWire) + i)

\* A decoder that has not failed holds the picture before, unless it gets an IDR.
Restarts == vWire # <<>> /\ vWire[1].idr
Prepared == dParams /\ dPrev # NoPrev /\ dSurf[dPrev] = Following - 1 /\ Following > 1

DecoderRight ==
  dKind = "vaapi" /\ ~dFailed =>
    /\ dShown.label > 0 => dShown.src = dShown.label
    /\ vHost.codec = "h264" => Restarts \/ Prepared

ShownNothing == dKind = "pending" => dShown = [src |-> 0, label |-> 0]

VideoInv ==
  /\ VideoShape /\ Beginnings /\ ShownNothing
  /\ NoCause => ReconRight /\ WireRight /\ DecoderRight
-----------------------------------------------------------------------------
LEMMA OneMore ==
  ASSUME NEW s, \E S : s \in Seq(S), NEW e
  PROVE  /\ \E S : Append(s, e) \in Seq(S)
         /\ Len(s) \in Nat /\ Len(Append(s, e)) = Len(s) + 1
         /\ Append(s, e)[Len(s) + 1] = e /\ Append(s, e) # <<>>
         /\ \A i \in 1 .. Len(s) : Append(s, e)[i] = s[i]
<1>1. PICK S : s \in Seq(S)
  OBVIOUS
<1>2. s \in Seq(S \union {e}) /\ e \in S \union {e}
  BY <1>1
<1> QED
  BY <1>2

LEMMA FewerFrom ==
  ASSUME NEW s, \E S : s \in Seq(S), NEW n \in 1 .. Len(s)
  PROVE  /\ \E S : SubSeq(s, n, Len(s)) \in Seq(S)
         /\ Len(s) \in Nat /\ Len(SubSeq(s, n, Len(s))) = Len(s) - n + 1
         /\ \A i \in 1 .. Len(s) - n + 1 : SubSeq(s, n, Len(s))[i] = s[n - 1 + i]
<1>1. PICK S : s \in Seq(S)
  OBVIOUS
<1>2. /\ Len(SubSeq(s, n, Len(s))) = Len(s) - n + 1 /\ Len(s) \in Nat
      /\ \A i \in 1 .. Len(s) - n + 1 : SubSeq(s, n, Len(s))[i] = s[n - 1 + i]
  BY <1>1
<1>3. SubSeq(s, n, Len(s)) \in Seq(S)
  BY <1>1
<1> QED
  BY <1>2, <1>3

LEMMA FewerByOne ==
  ASSUME NEW s, \E S : s \in Seq(S), s # <<>>
  PROVE  /\ \E S : Tail(s) \in Seq(S)
         /\ Len(s) \in Nat \ {0} /\ Len(Tail(s)) = Len(s) - 1 /\ Head(s) = s[1]
         /\ \A i \in 1 .. Len(s) - 1 : Tail(s)[i] = s[i + 1]
<1>1. PICK S : s \in Seq(S)
  OBVIOUS
<1> QED
  BY <1>1

LEMMA EmptyWire == (\E S : <<>> \in Seq(S)) /\ Len(<<>>) = 0
<1>1. <<>> \in Seq({})
  OBVIOUS
<1> QED
  BY <1>1

LEMMA VideoInitially == VideoInit => VideoInv
<1> SUFFICES ASSUME VideoInit PROVE VideoInv
  OBVIOUS
<1> USE VideoAssumption
<1>1. VideoShape
  <2>1. \E S : vWire \in Seq(S)
    BY EmptyWire DEF VideoInit
  <2>2. 0 \in Recon /\ 0 \in Pool
    BY DEF Recon, Pool
  <2>3. DOMAIN vRecon = Recon /\ DOMAIN dSurf = Pool
    BY DEF VideoInit
  <2> QED
    BY <2>1, <2>2, <2>3 DEF VideoInit, VideoShape
<1>2. Beginnings /\ ShownNothing /\ ~NoCause
  BY DEF VideoInit, Beginnings, ShownNothing, NoCause
<1> QED
  BY <1>1, <1>2 DEF VideoInv

\* What reaches the wire of an encoder that nothing misleads.
LEMMA SentRight ==
  ASSUME VideoInv, NoCause, NEW unit, Truthful(unit, vIdx + 1),
         vWire' = Append(vWire, unit), vIdx' = vIdx + 1, UNCHANGED decoder, vHost' = vHost
  PROVE  WireRight' /\ DecoderRight'
<1> VideoShape /\ WireRight /\ DecoderRight
  BY DEF VideoInv
<1>1. /\ Len(vWire) \in Nat /\ Len(vWire') = Len(vWire) + 1 /\ vWire' # <<>>
      /\ vWire'[Len(vWire) + 1] = unit /\ \A i \in 1 .. Len(vWire) : vWire'[i] = vWire[i]
  BY OneMore DEF VideoShape
<1>2. vIdx \in Nat
  BY DEF VideoShape
<1>3. WireRight'
  <2> SUFFICES ASSUME NEW i \in 1 .. Len(vWire) + 1
               PROVE  Truthful(vWire'[i], vIdx' - Len(vWire') + i)
    BY <1>1 DEF WireRight
  <2>1. CASE i \in 1 .. Len(vWire)
    <3>1. vIdx' - Len(vWire') + i = vIdx - Len(vWire) + i
      BY <1>1, <1>2
    <3> QED
      BY <1>1, <2>1, <3>1 DEF WireRight
  <2>2. CASE i = Len(vWire) + 1
    <3>1. vIdx' - Len(vWire') + i = vIdx + 1
      BY <1>1, <1>2, <2>2
    <3> QED
      BY <1>1, <2>2, <3>1
  <2> QED
    BY <1>1, <2>1, <2>2
<1>4. Following' = Following
  BY <1>1, <1>2 DEF Following
<1>5. DecoderRight'
  <2>1. Restarts => Restarts'
    <3>1. vWire # <<>> => 1 \in 1 .. Len(vWire)
      BY DEF VideoShape
    <3> QED
      BY <1>1, <3>1 DEF Restarts
  <2>2. Prepared => Prepared'
    BY <1>4 DEF Prepared, decoder, worker
  <2> QED
    BY <2>1, <2>2 DEF DecoderRight, decoder, worker
<1> QED
  BY <1>3, <1>5

LEMMA EncoderAside ==
  ASSUME VideoInv, UNCHANGED <<vWire, vIdx, decoder>>, vHost'.codec = vHost.codec, NoCause
  PROVE  WireRight' /\ DecoderRight'
BY DEF VideoInv, WireRight, DecoderRight, Restarts, Prepared, Following, decoder, worker

\* The rest of the state after a picture.
LEMMA EncodedRight ==
  ASSUME VideoInv, vKind # "pending",
         NEW unit, vWire' = Append(vWire, unit), vIdx' = vIdx + 1,
         vPending' \in BOOLEAN, vNext' \in Recon, vPrev' \in Recon \union {NoPrev},
         DOMAIN vRecon' = Recon, vCache' \in {0, 1, 2},
         vBuffer = 1 => vCache' \in {0, 1},
         UNCHANGED <<vHost, vKind, capture, decoder>>,
         NoCause' => NoCause /\ ReconRight' /\ Truthful(unit, vIdx + 1)
  PROVE  VideoInv'
<1> VideoShape /\ Beginnings /\ ShownNothing
  BY DEF VideoInv
<1>1. VideoShape'
  <2>1. \E S : vWire' \in Seq(S)
    BY OneMore DEF VideoShape
  <2>2. vIdx' \in Nat
    BY DEF VideoShape
  <2> QED
    BY <2>1, <2>2 DEF VideoShape, capture, decoder, worker
<1>2. Beginnings' /\ ShownNothing'
  BY DEF Beginnings, ShownNothing, capture, decoder
<1>3. NoCause' => WireRight' /\ DecoderRight'
  BY SentRight
<1> QED
  BY <1>1, <1>2, <1>3 DEF VideoInv

LEMMA FirstIsIdr ==
  ASSUME vIdx \in Nat, vPending \in BOOLEAN
  PROVE  IsIdr \in BOOLEAN /\ (~IsIdr => vIdx > 0) /\ PendingAfter \in BOOLEAN
<1>1. vIdx = 0 => vIdx % Gop = 0
  BY VideoAssumption
<1>2. IsIdr \in BOOLEAN
  BY DEF IsIdr
<1> QED
  BY <1>1, <1>2 DEF IsIdr, PendingAfter

LEMMA TheOther ==
  ASSUME NEW s \in Recon
  PROVE  (s + 1) % ReconPool \in Recon /\ (s + 1) % ReconPool # s
<1>1. s \in Int /\ 0 <= s /\ s < ReconPool /\ ReconPool \in Nat /\ ReconPool > 1
  BY VideoAssumption DEF Recon
<1>2. CASE s + 1 < ReconPool
  BY <1>1, <1>2 DEF Recon
<1>3. CASE s + 1 = ReconPool
  <2>1. (s + 1) % ReconPool = 0
    BY <1>1, <1>3
  <2> QED
    BY <1>1, <1>3, <2>1 DEF Recon
<1> QED
  BY <1>1, <1>2, <1>3

\* VA-API: the surfaces after the upload hold the picture, and the one before it.
LEMMA VaapiRight ==
  ASSUME VideoInv, NEW gpu \in BOOLEAN, vKind = "vaapi", Reconstructed(Upload(gpu))
  PROVE  /\ vKind = "vaapi" /\ vIdx' = vIdx + 1 /\ vPending' \in BOOLEAN
         /\ vNext' \in Recon /\ vPrev' \in Recon /\ DOMAIN vRecon' = Recon
         /\ UNCHANGED <<vHost, vKind, capture, vCache, decoder>>
         /\ NoCause' => NoCause
         /\ NoCause => /\ ReconRight'
                       /\ Upload(gpu)[vNext] = vIdx + 1
                       /\ ~IsIdr => ReferenceOf(Upload(gpu)) = vIdx
<1> DEFINE surfaces == Upload(gpu)
<1> VideoShape
  BY DEF VideoInv
<1>1. /\ vRecon' = surfaces /\ vNext' = (vNext + 1) % ReconPool /\ vPrev' = vNext
      /\ vIdx' = vIdx + 1 /\ vPending' = PendingAfter
      /\ UNCHANGED <<vHost, vKind, capture, vCache, decoder>>
  BY DEF Reconstructed
<1>2. vNext \in Recon /\ vIdx \in Nat /\ vPending \in BOOLEAN /\ NoPrev \notin Recon
  BY VideoAssumption DEF VideoShape, Recon, NoPrev
<1>3. vNext' \in Recon /\ vNext' # vNext
  BY <1>1, <1>2, TheOther
<1>4. DOMAIN surfaces = Recon /\ \A s \in Recon : s # vNext => surfaces[s] = vRecon[s]
  BY DEF VideoShape, Upload, UploadBgra, UploadDmabuf
<1>5. NoCause => surfaces[vNext] = vIdx + 1
  BY <1>2 DEF VideoShape, NoCause, Upload, UploadBgra, UploadDmabuf, AtConfiguredSize, Picture
<1> HIDE DEF surfaces
<1>6. ASSUME NoCause PROVE ReconRight'
  BY <1>1, <1>2, <1>3, <1>5, <1>6 DEF ReconRight
<1>7. ASSUME NoCause, ~IsIdr PROVE ReferenceOf(surfaces) = vIdx
  <2>1. vIdx # 0
    BY <1>2, <1>7, FirstIsIdr
  <2>2. vPrev # NoPrev /\ vPrev # vNext /\ vRecon[vPrev] = vIdx /\ vPrev \in Recon
    BY <1>7, <2>1 DEF VideoInv, ReconRight, VideoShape
  <2> QED
    BY <1>4, <1>7, <2>2 DEF ReferenceOf
<1>8. NoCause' => NoCause
  BY <1>1 DEF NoCause, capture
<1>9. vPending' \in BOOLEAN
  BY <1>1, <1>2, FirstIsIdr
<1> QED
  BY <1>1, <1>2, <1>3, <1>4, <1>5, <1>6, <1>7, <1>8, <1>9 DEF surfaces

LEMMA H264Right ==
  ASSUME VideoInv, NEW gpu \in BOOLEAN, EncodeVaapi(gpu)
  PROVE  VideoInv'
<1> DEFINE surfaces == Upload(gpu)
           unit == With(With(With(PictureParam(surfaces), SliceParam(surfaces)), PackedHeaders),
                        [label |-> Picture])
<1> VideoShape /\ Beginnings
  BY DEF VideoInv
<1>1. vKind = "vaapi" /\ vWire' = Append(vWire, unit) /\ Reconstructed(surfaces)
  BY DEF EncodeVaapi, Emit
<1>2. /\ unit.pic = Picture /\ unit.src = surfaces[vNext] /\ unit.idr = IsIdr
      /\ unit.ref = ReferenceOf(surfaces) /\ unit.headers = IsIdr /\ unit.label = Picture
  BY DEF With, PictureParam, SliceParam, PackedHeaders
<1>3. /\ vIdx' = vIdx + 1 /\ vPending' \in BOOLEAN
      /\ vNext' \in Recon /\ vPrev' \in Recon /\ DOMAIN vRecon' = Recon
      /\ UNCHANGED <<vHost, vKind, capture, vCache, decoder>>
      /\ NoCause' => NoCause
      /\ NoCause => /\ ReconRight' /\ surfaces[vNext] = vIdx + 1
                    /\ ~IsIdr => ReferenceOf(surfaces) = vIdx
  BY <1>1, VaapiRight
<1>4. IsIdr \in BOOLEAN /\ (~IsIdr => vIdx > 0) /\ vIdx \in Nat /\ Picture = vIdx + 1
  BY FirstIsIdr DEF VideoShape, Picture
<1> HIDE DEF unit, surfaces
<1>5. NoCause => Truthful(unit, vIdx + 1)
  BY <1>2, <1>3, <1>4 DEF Truthful
<1>6. vCache' \in {0, 1, 2} /\ (vBuffer = 1 => vCache' \in {0, 1})
  BY <1>3 DEF VideoShape, Beginnings
<1> QED
  BY <1>1, <1>3, <1>5, <1>6, EncodedRight

LEMMA H265Right ==
  ASSUME VideoInv, NEW gpu \in BOOLEAN, EncodeHevcVaapi(gpu)
  PROVE  VideoInv'
<1> DEFINE surfaces == Upload(gpu)
           unit == With(With(With(HevcPictureParam(surfaces), HevcSliceParam(surfaces)),
                             HevcPackedHeaders), [label |-> Picture])
<1> VideoShape /\ Beginnings
  BY DEF VideoInv
<1>1. vKind = "vaapi" /\ vWire' = Append(vWire, unit) /\ Reconstructed(surfaces)
  BY DEF EncodeHevcVaapi, Emit
<1>2. /\ unit.pic = Picture /\ unit.src = surfaces[vNext] /\ unit.idr = IsIdr
      /\ unit.ref = ReferenceOf(surfaces) /\ unit.headers = IsIdr /\ unit.label = Picture
  BY DEF With, HevcPictureParam, HevcSliceParam, HevcPackedHeaders
<1>3. /\ vIdx' = vIdx + 1 /\ vPending' \in BOOLEAN
      /\ vNext' \in Recon /\ vPrev' \in Recon /\ DOMAIN vRecon' = Recon
      /\ UNCHANGED <<vHost, vKind, capture, vCache, decoder>>
      /\ NoCause' => NoCause
      /\ NoCause => /\ ReconRight' /\ surfaces[vNext] = vIdx + 1
                    /\ ~IsIdr => ReferenceOf(surfaces) = vIdx
  BY <1>1, VaapiRight
<1>4. IsIdr \in BOOLEAN /\ (~IsIdr => vIdx > 0) /\ vIdx \in Nat /\ Picture = vIdx + 1
  BY FirstIsIdr DEF VideoShape, Picture
<1> HIDE DEF unit, surfaces
<1>5. NoCause => Truthful(unit, vIdx + 1)
  BY <1>2, <1>3, <1>4 DEF Truthful
<1>6. vCache' \in {0, 1, 2} /\ (vBuffer = 1 => vCache' \in {0, 1})
  BY <1>3 DEF VideoShape, Beginnings
<1> QED
  BY <1>1, <1>3, <1>5, <1>6, EncodedRight

LEMMA NvencRight ==
  ASSUME VideoInv, NEW gpu \in BOOLEAN, EncodeNvenc(gpu)
  PROVE  VideoInv'
<1> DEFINE src == IF gpu THEN DmabufPixels ELSE HostPixels
           ref == IF IsIdr THEN 0 ELSE vIdx
           unit == With([pic |-> Picture, src |-> src, idr |-> IsIdr, ref |-> ref,
                         headers |-> IsIdr], [label |-> Picture])
<1> VideoShape /\ Beginnings
  BY DEF VideoInv
<1>1. /\ vKind = "nvenc" /\ vWire' = Append(vWire, unit)
      /\ vCache' = (IF gpu THEN RegisteredFor ELSE vCache)
      /\ vIdx' = vIdx + 1 /\ vPending' = PendingAfter
      /\ UNCHANGED <<vHost, vKind, vNext, vPrev, vRecon, capture, decoder>>
  BY DEF EncodeNvenc, Emit
<1>2. /\ unit.pic = Picture /\ unit.src = src /\ unit.idr = IsIdr
      /\ unit.ref = ref /\ unit.headers = IsIdr /\ unit.label = Picture
  BY DEF With
<1>3. /\ IsIdr \in BOOLEAN /\ (~IsIdr => vIdx > 0) /\ vIdx \in Nat /\ Picture = vIdx + 1
      /\ vPending' \in BOOLEAN
  BY <1>1, FirstIsIdr DEF VideoShape, Picture
<1>4. NoCause' => NoCause
  BY <1>1 DEF VideoShape, NoCause, RegisteredFor, capture
<1>5. NoCause => src = vIdx + 1
  BY <1>3 DEF VideoShape, NoCause, DmabufPixels, HostPixels, RegisteredFor, AtConfiguredSize
<1> HIDE DEF unit, src
<1>6. NoCause => Truthful(unit, vIdx + 1)
  BY <1>2, <1>3, <1>5 DEF Truthful
<1>7. vCache' \in {0, 1, 2} /\ (vBuffer = 1 => vCache' \in {0, 1})
  BY <1>1 DEF VideoShape, Beginnings, RegisteredFor
<1>8. ReconRight'
  BY <1>1 DEF ReconRight
<1>9. vNext' \in Recon /\ vPrev' \in Recon \union {NoPrev} /\ DOMAIN vRecon' = Recon
  BY <1>1 DEF VideoShape
<1> QED
  BY <1>1, <1>3, <1>4, <1>6, <1>7, <1>8, <1>9, EncodedRight

\* x264's units are of no interest to a decoder that is told of no cause.
LEMMA X264Right ==
  ASSUME VideoInv, NEW delay \in {0, 2}, EncodeX264(delay)
  PROVE  VideoInv'
<1> VideoShape /\ Beginnings
  BY DEF VideoInv
<1>1. /\ vKind = "x264" /\ \E unit : vWire' = Append(vWire, unit)
      /\ vIdx' = vIdx + 1
      /\ UNCHANGED <<vHost, vKind, vPending, vNext, vPrev, vRecon, capture, vCache, decoder>>
  BY DEF EncodeX264, Emit
<1>2. ~NoCause'
  BY <1>1 DEF NoCause
<1>3. PICK unit : vWire' = Append(vWire, unit)
  BY <1>1
<1>4. /\ vPending' \in BOOLEAN /\ vNext' \in Recon /\ vPrev' \in Recon \union {NoPrev}
      /\ DOMAIN vRecon' = Recon /\ vCache' \in {0, 1, 2} /\ (vBuffer = 1 => vCache' \in {0, 1})
  BY <1>1 DEF VideoShape, Beginnings
<1> QED
  BY <1>1, <1>2, <1>3, <1>4, EncodedRight

\* The steps of the sender that send nothing.
LEMMA NothingSent ==
  ASSUME VideoInv, Configure \/ RequestKeyframe \/ EncodeFails \/ UNCHANGED videoVars
  PROVE  VideoInv'
<1> VideoShape /\ Beginnings /\ ShownNothing
  BY DEF VideoInv
<1> USE DEF frameState, capture, encoder, worker, decoder
<1>1. CASE Configure
  <2>1. /\ vKind = "pending" /\ vHost' = [vHost EXCEPT !.want = "", !.works = {}]
        /\ UNCHANGED <<frameState, vRecon, capture, vCache, vLook, vWire, decoder>>
        /\ vKind' \in {"nvenc", "vaapi", "x264", "none"}
    BY <1>1 DEF Configure, ChooseH264, ChooseH265
  <2>2. vHost' \in Hosts
    BY <2>1 DEF VideoShape, Hosts
  <2>3. VideoShape' /\ ShownNothing' /\ Beginnings'
    BY <2>1, <2>2 DEF VideoShape, ShownNothing, Beginnings
  <2>4. ReconRight' /\ WireRight' /\ DecoderRight'
    BY <2>1, EmptyWire DEF Beginnings, ReconRight, WireRight, DecoderRight
  <2> QED
    BY <2>3, <2>4 DEF VideoInv
<1>2. CASE RequestKeyframe
  <2>1. /\ vPending' = TRUE
        /\ UNCHANGED <<vHost, vKind, vIdx, vNext, vPrev, vRecon, capture, vCache, vWire, decoder>>
    BY <1>2 DEF RequestKeyframe
  <2>2. VideoShape' /\ ShownNothing' /\ Beginnings' /\ (NoCause' => NoCause)
    BY <2>1 DEF VideoShape, ShownNothing, Beginnings, NoCause
  <2>3. NoCause => ReconRight' /\ WireRight' /\ DecoderRight'
    BY <2>1, EncoderAside DEF VideoInv, ReconRight
  <2> QED
    BY <2>2, <2>3 DEF VideoInv
<1>3. CASE EncodeFails
  <2>1. /\ vKind' = "failed" /\ vPending' = FALSE
        /\ UNCHANGED <<vHost, vIdx, vNext, vPrev, vRecon, capture, vCache, vWire, decoder>>
    BY <1>3 DEF EncodeFails
  <2> QED
    BY <2>1 DEF VideoInv, VideoShape, ShownNothing, Beginnings, NoCause
<1>4. CASE UNCHANGED videoVars
  <2>1. UNCHANGED <<vHost, vKind, vPending, vIdx, vNext, vPrev, vRecon, capture, vCache, vWire, decoder>>
    BY <1>4 DEF videoVars
  <2>2. VideoShape' /\ ShownNothing' /\ Beginnings' /\ (NoCause' => NoCause)
    BY <2>1 DEF VideoShape, ShownNothing, Beginnings, NoCause
  <2>3. NoCause => ReconRight' /\ WireRight' /\ DecoderRight'
    BY <2>1, EncoderAside DEF VideoInv, ReconRight
  <2> QED
    BY <2>2, <2>3 DEF VideoInv
<1> QED
  BY <1>1, <1>2, <1>3, <1>4

\* A renegotiated buffer: what was registered for the first one is a cause.
LEMMA BufferRight ==
  ASSUME VideoInv, NEW size \in {"same", "larger", "smaller"}, NewBuffer(size)
  PROVE  VideoInv'
<1> VideoShape /\ Beginnings /\ ShownNothing
  BY DEF VideoInv
<1>1. /\ vKind \in {"nvenc", "vaapi", "x264"} /\ vBuffer = 1 /\ vBuffer' = 2 /\ vSize' = size
      /\ vCache' \in {vCache, 0}
      /\ UNCHANGED <<vHost, vKind, vPending, vIdx, vNext, vPrev, vRecon, vWire, decoder>>
  BY DEF NewBuffer, frameState
<1>2. VideoShape' /\ ShownNothing' /\ Beginnings'
  BY <1>1 DEF VideoShape, ShownNothing, Beginnings, decoder, worker
<1>3. NoCause' => NoCause
  BY <1>1 DEF Beginnings, NoCause
<1>4. NoCause => ReconRight' /\ WireRight' /\ DecoderRight'
  BY <1>1, EncoderAside DEF VideoInv, ReconRight
<1> QED
  BY <1>2, <1>3, <1>4 DEF VideoInv

LEMMA SkipRight ==
  ASSUME VideoInv, NEW n \in 2 .. MaxTransit, SkipToSegment(n)
  PROVE  VideoInv'
<1> VideoShape /\ Beginnings /\ ShownNothing
  BY DEF VideoInv
<1>1. /\ n \in 1 .. Len(vWire) /\ vWire[n].idr /\ vWire' = SubSeq(vWire, n, Len(vWire))
      /\ UNCHANGED <<vHost, vKind, vPending, vIdx, vNext, vPrev, vRecon, vCache, capture, decoder>>
  BY DEF SkipToSegment, encoder, frameState
<1>2. /\ \E S : vWire' \in Seq(S)
      /\ Len(vWire) \in Nat /\ Len(vWire') = Len(vWire) - n + 1
      /\ \A i \in 1 .. Len(vWire) - n + 1 : vWire'[i] = vWire[n - 1 + i]
  BY <1>1, FewerFrom DEF VideoShape
<1>3. 1 \in 1 .. Len(vWire') /\ vWire' # <<>> /\ vWire'[1] = vWire[n]
  <2>1. 1 \in 1 .. Len(vWire') /\ vWire'[1] = vWire[n - 1 + 1] /\ n - 1 + 1 = n
    BY <1>1, <1>2
  <2>2. vWire' # <<>>
    BY <2>1, EmptyWire
  <2> QED
    BY <2>1, <2>2
<1>4. VideoShape' /\ ShownNothing' /\ Beginnings' /\ (NoCause' => NoCause)
  <2>1. vKind # "pending"
    BY <1>1, EmptyWire DEF Beginnings
  <2> QED
    BY <1>1, <1>2, <2>1, ZenonT(60) DEF VideoShape, ShownNothing, Beginnings, NoCause, capture, decoder, worker
<1>5. ASSUME NoCause PROVE ReconRight' /\ WireRight' /\ DecoderRight'
  <2>1. ReconRight'
    BY <1>1, <1>5 DEF VideoInv, ReconRight
  <2>2. WireRight'
    <3> SUFFICES ASSUME NEW i \in 1 .. Len(vWire) - n + 1
                 PROVE  Truthful(vWire'[i], vIdx' - Len(vWire') + i)
      BY <1>2 DEF WireRight
    <3>1. n - 1 + i \in 1 .. Len(vWire)
      BY <1>1, <1>2, SMTT(60)
    <3>2. vIdx' - Len(vWire') + i = vIdx - Len(vWire) + (n - 1 + i)
      BY <1>1, <1>2 DEF VideoShape
    <3> QED
      BY <1>2, <1>5, <3>1, <3>2 DEF VideoInv, WireRight
  <2>3. DecoderRight'
    BY <1>1, <1>3, <1>5 DEF VideoInv, DecoderRight, Restarts, decoder
  <2> QED
    BY <2>1, <2>2, <2>3
<1> QED
  BY <1>4, <1>5 DEF VideoInv

LEMMA DecoderChosen ==
  ASSUME VideoInv, NEW kind \in DecoderChoices, ConfigureDecoder(kind)
  PROVE  VideoInv'
<1> VideoShape /\ Beginnings /\ ShownNothing
  BY DEF VideoInv
<1>1. /\ dKind = "pending" /\ vWire # <<>> /\ vWire[1].idr /\ dKind' # "pending"
      /\ UNCHANGED <<vHost, vKind, vPending, vIdx, vNext, vPrev, vRecon, vCache, capture, vWire>>
      /\ UNCHANGED <<worker, dShown, dFailed>>
  <2>1. Head(vWire) = vWire[1]
    BY DEF VideoShape
  <2> QED
    BY <2>1 DEF ConfigureDecoder, Unit, DecoderChoices, HevcDecoderChoices, encoder, frameState
<1>2. VideoShape' /\ ShownNothing' /\ Beginnings' /\ (NoCause' => NoCause)
  BY <1>1 DEF VideoShape, ShownNothing, Beginnings, NoCause, capture, worker
<1>3. ASSUME NoCause PROVE ReconRight' /\ WireRight' /\ DecoderRight'
  BY <1>1, <1>3 DEF VideoInv, ReconRight, WireRight, DecoderRight, Restarts, ShownNothing
<1> QED
  BY <1>2, <1>3 DEF VideoInv

\* A picture decoded without a failure since the last IDR has its own reference.
LEMMA ShownRight ==
  ASSUME VideoInv, NoCause, vWire # <<>>, vWire' = Tail(vWire), dKind' = dKind,
         UNCHANGED <<encoder, capture>>, NEW outcome \in Outcomes, DecodeVaapi(outcome)
  PROVE  WireRight' /\ DecoderRight'
<1> DEFINE unit == vWire[1]
           n == Following
<1> VideoShape /\ WireRight /\ DecoderRight
  BY DEF VideoInv
<1>1. /\ Len(vWire) \in Nat \ {0} /\ Len(vWire') = Len(vWire) - 1 /\ Unit = unit
      /\ \A i \in 1 .. Len(vWire) - 1 : vWire'[i] = vWire[i + 1]
  BY FewerByOne DEF VideoShape, Unit
<1>2. vIdx \in Nat /\ vIdx' = vIdx /\ vHost' = vHost
  BY DEF VideoShape, encoder, frameState
<1>3. WireRight'
  <2> SUFFICES ASSUME NEW i \in 1 .. Len(vWire) - 1
               PROVE  Truthful(vWire'[i], vIdx' - Len(vWire') + i)
    BY <1>1 DEF WireRight
  <2>1. vIdx' - Len(vWire') + i = vIdx - Len(vWire) + (i + 1) /\ i + 1 \in 1 .. Len(vWire)
    BY <1>1, <1>2
  <2> QED
    BY <1>1, <2>1 DEF WireRight
<1>4. Truthful(unit, n)
  <2>1. 1 \in 1 .. Len(vWire) /\ n = vIdx - Len(vWire) + 1
    BY <1>1 DEF Following
  <2> QED
    BY <2>1 DEF WireRight
<1>5. n \in Nat \ {0} /\ Following' = n + 1
  <2>1. n \in Nat \ {0}
    BY <1>4 DEF Truthful
  <2>2. Following' = vIdx - (Len(vWire) - 1) + 1
    BY <1>1, <1>2 DEF Following
  <2>3. n = vIdx - Len(vWire) + 1
    BY DEF Following
  <2>4. ASSUME NEW len \in Nat, NEW idx \in Nat
        PROVE  idx - (len - 1) + 1 = (idx - len + 1) + 1
    OBVIOUS
  <2>5. Len(vWire) \in Nat
    BY <1>1
  <2> HIDE DEF n
  <2> QED
    BY <1>2, <2>1, <2>2, <2>3, <2>4, <2>5
<1> HIDE DEF unit, n
<1>6. dKind = "vaapi" /\ vHost.codec = "h264" /\ unit.pic # 0
  BY <1>1, <1>4 DEF DecodeVaapi, Truthful
<1>7. CASE ~ParamsAfter(unit)
  <2>2. ~dParams /\ ~unit.idr
    BY <1>4, <1>7 DEF ParamsAfter, Truthful
  <2>3. dFailed
    BY <1>6, <2>2 DEF DecoderRight, Restarts, Prepared, unit
  <2>4. UNCHANGED <<dShown, dFailed>>
    BY <1>1, <1>6, <1>7 DEF DecodeVaapi
  <2> QED
    BY <1>3, <2>3, <2>4 DEF DecoderRight
<1>8. CASE ParamsAfter(unit) /\ outcome # "done"
  <2>1. dFailed' = TRUE
    BY <1>1, <1>6, <1>8 DEF DecodeVaapi, Outcomes
  <2> QED
    BY <1>3, <2>1 DEF DecoderRight
<1>9. CASE ParamsAfter(unit) /\ outcome = "done"
  <2> DEFINE surface == OutputSurface
             shown == Decoded(unit, ReferencePicture(unit))
  <2>1. /\ dParams' = TRUE /\ dSurf' = [dSurf EXCEPT ![surface] = shown] /\ dPrev' = surface
        /\ dShown' = [src |-> IF shown = 0 THEN 0 ELSE unit.src, label |-> unit.label]
        /\ dFailed' = (dFailed /\ ~unit.idr)
    BY <1>1, <1>6, <1>9 DEF DecodeVaapi, Show
  <2>2. surface \in Pool
    BY VideoAssumption DEF VideoShape, OutputSurface, Pool
  <2>3. ASSUME ~dFailed' PROVE shown = n
    <3>1. CASE unit.idr
      BY <1>4, <3>1 DEF Decoded, Truthful
    <3>2. CASE ~unit.idr
      <4>1. Prepared
        BY <1>6, <2>1, <2>3, <3>2 DEF DecoderRight, Restarts, unit, VideoShape
      <4>2. ReferencePicture(unit) = n - 1 /\ n - 1 # 0
        BY <1>5, <3>2, <4>1 DEF Prepared, ReferencePicture, PrevAtDecode, n
      <4> QED
        BY <1>4, <3>2, <4>2 DEF Decoded, Truthful
    <3> QED
      BY <3>1, <3>2
  <2> HIDE DEF surface, shown
  <2>4. ASSUME ~dFailed'
        PROVE  Prepared' /\ (dShown'.label > 0 => dShown'.src = dShown'.label)
    <3>1. dSurf'[surface] = n /\ surface # NoPrev
      BY <2>1, <2>2, <2>3, <2>4, VideoAssumption DEF VideoShape, Pool, NoPrev
    <3>2. Prepared'
      BY <1>5, <2>1, <3>1 DEF Prepared
    <3>3. dShown'.src = dShown'.label
      BY <1>4, <1>5, <2>1, <2>3, <2>4 DEF Truthful
    <3> QED
      BY <3>2, <3>3
  <2> QED
    BY <1>3, <2>4 DEF DecoderRight
<1> QED
  BY <1>7, <1>8, <1>9

LEMMA DecodeRight == ASSUME VideoInv, Decode PROVE VideoInv'
<1> VideoShape /\ Beginnings /\ ShownNothing
  BY DEF VideoInv
<1>1. vWire # <<>> /\ vWire' = Tail(vWire) /\ UNCHANGED <<encoder, capture, dKind>>
  BY DEF Decode
<1>2. /\ \E S : vWire' \in Seq(S)
      /\ Len(vWire) \in Nat \ {0} /\ Len(vWire') = Len(vWire) - 1
      /\ \A i \in 1 .. Len(vWire) - 1 : vWire'[i] = vWire[i + 1]
  BY <1>1, FewerByOne DEF VideoShape
<1>3. UNCHANGED <<vHost, vKind, vPending, vIdx, vNext, vPrev, vRecon, vCache, vBuffer, vSize>>
  BY <1>1 DEF encoder, frameState, capture
<1>4. vKind # "pending"
  BY <1>1 DEF Beginnings
<1>5. NoCause' => NoCause
  BY <1>3 DEF NoCause
<1>6. Beginnings'
  BY <1>1, <1>3, <1>4 DEF Beginnings
<1>7. CASE \E outcome \in Outcomes : DecodeVaapi(outcome)
  <2>1. dKind = "vaapi"
    BY <1>7 DEF DecodeVaapi
  <2>2. OutputSurface \in Pool /\ NextSurface(OutputSurface) \in Pool
    <3>1. OutputSurface \in Pool
      BY VideoAssumption DEF VideoShape, OutputSurface, Pool
    <3> QED
      BY <3>1, VideoAssumption DEF NextSurface, Pool
  <2>3. /\ DOMAIN dSurf' = Pool /\ dNext' \in Pool /\ dPrev' \in Pool \union {NoPrev}
        /\ dFailed' \in BOOLEAN
    <3> PICK outcome \in Outcomes : DecodeVaapi(outcome)
      BY <1>7
    <3>1. PrevAtDecode(Unit) \in Pool \union {NoPrev}
      BY DEF VideoShape, PrevAtDecode
    <3>2. CASE ~ParamsAfter(Unit) \/ Unit.pic = 0 \/ outcome = "early"
      BY <3>2 DEF DecodeVaapi, VideoShape
    <3>3. CASE ParamsAfter(Unit) /\ Unit.pic # 0 /\ outcome # "early"
      <4>1. dNext' = NextSurface(OutputSurface)
        BY <3>3 DEF DecodeVaapi
      <4>2. CASE outcome = "late"
        BY <2>2, <3>1, <3>3, <4>1, <4>2 DEF DecodeVaapi, VideoShape
      <4>3. CASE outcome = "submit"
        BY <2>2, <3>1, <3>3, <4>1, <4>3 DEF DecodeVaapi, VideoShape
      <4>4. CASE outcome = "done"
        BY <2>2, <3>1, <3>3, <4>1, <4>4 DEF DecodeVaapi, VideoShape
      <4> QED
        BY <3>3, <4>2, <4>3, <4>4 DEF Outcomes
    <3> QED
      BY <3>2, <3>3
  <2>4. dParams' \in BOOLEAN
    BY <1>7 DEF DecodeVaapi, ParamsAfter
  <2>5. VideoShape' /\ ShownNothing'
    BY <1>1, <1>2, <1>3, <2>1, <2>3, <2>4 DEF VideoShape, ShownNothing
  <2>6. NoCause => WireRight' /\ DecoderRight'
    BY <1>1, <1>7, ShownRight
  <2>7. NoCause => ReconRight'
    BY <1>3 DEF VideoInv, ReconRight
  <2> QED
    BY <1>5, <1>6, <2>5, <2>6, <2>7 DEF VideoInv
<1>8. CASE DecodeHevcVaapi \/ \E hold \in {0, 1} : DecodeLibrary(hold)
  <2>1. UNCHANGED worker /\ dKind \in {"vaapi", "nvdec", "openh264"}
        /\ dFailed' \in BOOLEAN /\ (dKind = "vaapi" => dFailed')
    BY <1>8 DEF DecodeHevcVaapi, DecodeLibrary, VideoShape
  <2>2. VideoShape' /\ ShownNothing'
    BY <1>1, <1>2, <1>3, <2>1 DEF VideoShape, ShownNothing, worker
  <2>3. DecoderRight'
    BY <1>1, <2>1 DEF DecoderRight
  <2>4. ASSUME NoCause PROVE ReconRight' /\ WireRight'
    <3>1. WireRight'
      <4> SUFFICES ASSUME NEW i \in 1 .. Len(vWire) - 1
                   PROVE  Truthful(vWire'[i], vIdx' - Len(vWire') + i)
        BY <1>2 DEF WireRight
      <4>1. vIdx' - Len(vWire') + i = vIdx - Len(vWire) + (i + 1) /\ i + 1 \in 1 .. Len(vWire)
        BY <1>2, <1>3 DEF VideoShape
      <4> QED
        BY <1>2, <2>4, <4>1 DEF VideoInv, WireRight
    <3> QED
      BY <1>3, <2>4, <3>1 DEF VideoInv, ReconRight
  <2> QED
    BY <1>5, <1>6, <2>2, <2>3, <2>4 DEF VideoInv
<1> QED
  BY <1>7, <1>8 DEF Decode

LEMMA VideoStep == VideoInv /\ [VideoNext]_videoVars => VideoInv'
<1> SUFFICES ASSUME VideoInv, [VideoNext]_videoVars PROVE VideoInv'
  OBVIOUS
<1>1. CASE Encode
  BY <1>1, H264Right, H265Right, NvencRight, X264Right, NothingSent DEF Encode
<1> QED
  BY <1>1, NothingSent, BufferRight, SkipRight, DecoderChosen, DecodeRight DEF VideoNext

\* For every number of reconstruction surfaces but one, every length of a group of pictures and
\* every interleaving of frames, lost units, failed decodes and restarts: the picture shown is the
\* one that was encoded, unless one of the causes the property names is at work. With a single
\* surface the encoder would predict a frame from the surface it is writing: the code has two
\* (h264 and h265 VA-API encoders), and the proof is why ReconPool may not be 1.
THEOREM OnlyKnownCauses == VideoSpec => []OnlyKnownCausesMislead
<1>1. VideoInv => OnlyKnownCausesMislead
  BY DEF VideoInv, NoCause, DecoderRight, OnlyKnownCausesMislead
<1> QED
  BY <1>1, VideoInitially, VideoStep, PTL DEF VideoSpec

-----------------------------------------------------------------------------
\* The shape of the controller's and the clock's state, with the bounds of what they count.

\* The controller's state, with a bound on what it averages.
BitrateTyped ==
  /\ aTarget \in Nat /\ aPressure \in Nat /\ aPressure <= 20000
  /\ aCooling \in {"never", "cooling", "over"}
  /\ aGets \in 0 .. MaxGets /\ aSamples \in 0 .. ProbeSamples
  /\ aBackend \in {"h264_nvenc", "h265_nvenc", "other"} /\ aApplied \in Nat /\ aRate \in Nat
  /\ aFrames \in BOOLEAN /\ aFailed \in BOOLEAN
  /\ aTask \in Tasks

LEMMA SevenEighths ==
  ASSUME NEW p \in Nat, NEW s \in Nat, p <= 20000, s <= 200
  PROVE  p * 7 + s * 100 <= 160000 /\ p * 7 + s * 100 \in Nat
OBVIOUS

LEMMA AnEighth == ASSUME NEW n \in Nat, n <= 160000 PROVE n \div 8 \in Nat /\ n \div 8 <= 20000
OBVIOUS

LEMMA AverageBounded ==
  ASSUME NEW pressure \in Nat, pressure <= 20000, NEW sample \in Nat
  PROVE  /\ (pressure * 7 + Smaller(sample, 200) * 100) \div 8 \in Nat
         /\ (pressure * 7 + Smaller(sample, 200) * 100) \div 8 <= 20000
<1>1. Smaller(sample, 200) \in Nat /\ Smaller(sample, 200) <= 200
  BY DEF Smaller
<1> QED
  BY <1>1, SevenEighths, AnEighth

LEMMA RateType ==
  ASSUME BitrateTyped, NEW kbps \in Nat, SetBitrate(kbps)
  PROVE  aApplied' \in Nat /\ aRate' \in Nat /\ aFailed' \in BOOLEAN
<1>1. RateAfter(kbps) \in Nat /\ aRate \in Nat
  BY DEF BitrateTyped, RateAfter, Larger
<1>2. CASE aRate' = RateAfter(kbps) /\ aFailed' = FALSE
  BY <1>1, <1>2 DEF SetBitrate
<1>3. CASE aRate' = aRate /\ aFailed' = TRUE
  BY <1>1, <1>3 DEF SetBitrate
<1> QED
  BY <1>2, <1>3 DEF SetBitrate

LEMMA BitrateTypedStep ==
  ASSUME BitrateTyped, [BitrateNext]_bitrateVars PROVE BitrateTyped'
<1> USE BitrateAssumption DEF BitrateTyped, encoderVars
<1>1. ASSUME NEW h \in Handlers, SegmentDelivered(h) PROVE BitrateTyped'
  <2>1. aGets' \in 0 .. MaxGets
    BY <1>1 DEF SegmentDelivered
  <2>2. aSamples' \in 0 .. ProbeSamples
    BY <1>1 DEF SegmentDelivered, Smaller, ProbeSamples
  <2>3. aTask' \in Tasks
    <3> DEFINE next == IF aSamples' = ProbeSamples /\ aSamples < ProbeSamples THEN "probe" ELSE "pressure"
    <3>1. aTask' = [aTask EXCEPT ![h].pc = next] /\ next \in {"idle", "probe", "seed", "pressure", "store"}
      BY <1>1 DEF SegmentDelivered
    <3>2. aTask \in Tasks
      OBVIOUS
    <3> HIDE DEF next
    <3> QED
      BY ONLY <3>1, <3>2 DEF Tasks
  <2> QED
    BY <1>1, <2>1, <2>2, <2>3 DEF SegmentDelivered
<1>2. ASSUME NEW h \in Handlers, StoreTarget(h) PROVE BitrateTyped'
  <2>1. aTask' \in Tasks /\ aTask[h].new \in Nat
    BY <1>2 DEF StoreTarget, Tasks
  <2> QED
    BY <1>2, <2>1 DEF StoreTarget
<1>3. ASSUME NEW h \in Handlers, NEW measured \in Capacities, ObserveCapacity(h, measured)
      PROVE BitrateTyped'
  <2> DEFINE new == CapacityTarget(aTarget, measured)
  <2>1. new \in Nat
    <3> DEFINE wish == IF measured >= aTarget THEN (measured * 7) \div 10 ELSE measured
    <3>1. wish \in Int /\ aTarget \in Nat
      OBVIOUS
    <3> HIDE DEF wish
    <3>2. Smaller(Ceiling, Larger(Floor, wish)) \in Nat
      BY <3>1 DEF Smaller, Larger, Floor, Ceiling
    <3> QED
      BY <3>1, <3>2 DEF CapacityTarget, wish
  <2>2. /\ aTask' = [aTask EXCEPT ![h] = IF ClampPanics(aTarget, measured) THEN [pc |-> "idle", new |-> 0]
                                         ELSE IF new = aTarget THEN [pc |-> "pressure", new |-> 0]
                                         ELSE [pc |-> "seed", new |-> new]]
        /\ UNCHANGED <<aTarget, aCooling, aPressure, aGets, aSamples, encoderVars>>
    BY <1>3 DEF ObserveCapacity
  <2> HIDE DEF new
  <2>3. aTask' \in Tasks
    <3>1. aTask \in Tasks
      OBVIOUS
    <3> QED
      BY ONLY <2>1, <2>2, <3>1 DEF Tasks
  <2> QED
    BY <2>2, <2>3
<1>4. ASSUME NEW h \in Handlers, NEW sample \in Samples, RecordPressure(h, sample) PROVE BitrateTyped'
  <2> DEFINE average == (aPressure * 7 + Smaller(sample, 200) * 100) \div 8
             new == PressureTarget(aTarget, average)
  <2>1. average \in Nat /\ average <= 20000
    BY AverageBounded
  <2>2. /\ aPressure' = average
        /\ aTask' = [aTask EXCEPT ![h] = IF aCooling = "cooling" \/ new = aTarget
                                         THEN [pc |-> "idle", new |-> 0] ELSE [pc |-> "store", new |-> new]]
        /\ UNCHANGED <<aTarget, aCooling, aGets, aSamples, encoderVars>>
    BY <1>4 DEF RecordPressure
  <2> HIDE DEF average
  <2>3. new \in Nat
    BY <2>1 DEF PressureTarget, Smaller, Larger, Floor, Ceiling, PressureDown, PressureUp
  <2> HIDE DEF new
  <2>4. aTask' \in Tasks
    <3>1. aTask \in Tasks
      OBVIOUS
    <3> QED
      BY ONLY <2>2, <2>3, <3>1 DEF Tasks
  <2> QED
    BY <2>1, <2>2, <2>4
<1>5. CASE CoolDown
  BY <1>5 DEF CoolDown
<1>6. CASE ApplyTarget
  BY <1>6, RateType DEF ApplyTarget
<1>7. CASE DropToFloor
  <2>1. Floor \in Nat /\ SetBitrate(Floor)
    BY <1>7 DEF DropToFloor, Floor
  <2>2. aApplied' \in Nat /\ aRate' \in Nat /\ aFailed' \in BOOLEAN
    BY <2>1, RateType
  <2> QED
    BY <1>7, <2>1, <2>2 DEF DropToFloor, ProbeSamples
<1>8. CASE FramesChange
  BY <1>8 DEF FramesChange
<1>9. CASE UNCHANGED bitrateVars
  BY <1>9 DEF bitrateVars
<1> HIDE DEF BitrateTyped
<1>10. ASSUME NEW h \in Handlers,
             \/ SegmentDelivered(h) \/ StoreTarget(h)
             \/ \E measured \in Capacities : ObserveCapacity(h, measured)
             \/ \E sample \in Samples : RecordPressure(h, sample)
      PROVE BitrateTyped'
  BY <1>1, <1>2, <1>3, <1>4, <1>10
<1> QED
  BY <1>5, <1>6, <1>7, <1>8, <1>9, <1>10 DEF BitrateNext

LEMMA BitrateTypes == BitrateInit /\ [][BitrateNext]_bitrateVars => []BitrateTypeOK
<1>1. BitrateInit => BitrateTyped
  <2> SUFFICES ASSUME BitrateInit PROVE BitrateTyped
    OBVIOUS
  <2>1. aTask \in Tasks
    BY DEF BitrateInit, Tasks
  <2>2. aFrames \in BOOLEAN /\ aFailed \in BOOLEAN
    BY DEF BitrateInit
  <2> QED
    BY <2>1, <2>2, BitrateAssumption DEF BitrateInit, BitrateTyped, ProbeSamples
<1>2. BitrateTyped /\ [BitrateNext]_bitrateVars => BitrateTyped'
  BY BitrateTypedStep
<1>3. BitrateTyped => BitrateTypeOK
  <2> SUFFICES ASSUME BitrateTyped PROVE BitrateTypeOK
    OBVIOUS
  <2>1. \A h \in Handlers : aTask[h].pc \in {"idle", "probe", "seed", "pressure", "store"}
    BY DEF BitrateTyped, Tasks
  <2> QED
    BY <2>1 DEF BitrateTyped, BitrateTypeOK
<1> QED
  BY <1>1, <1>2, <1>3, PTL

-----------------------------------------------------------------------------
PacingTyped == PacingTypeOK /\ pQueue \in Seq(Int) /\ pCopy \in Int

LEMMA Frames == GopFrames \in Nat \ {0}
BY PacingAssumption DEF GopFrames

LEMMA EncodedTyped ==
  ASSUME PacingTypeOK, NEW stamp, NEW length \in 0 .. MaxEncode, Encoded(stamp, length)
  PROVE  /\ pPc' = "busy" /\ pUntil' \in 0 .. MaxTime + MaxEncode + MaxAway + Period
         /\ pAsked' \in BOOLEAN /\ pIndex' \in 0 .. GopFrames - 1 /\ pSound' \in BOOLEAN
<1>1. pIndex \in Nat /\ pAsked \in BOOLEAN
  BY Frames DEF PacingTypeOK
<1>2. pIndex' \in 0 .. GopFrames - 1
  BY <1>1, Frames DEF Encoded
<1>3. pUntil' \in 0 .. MaxTime + MaxEncode + MaxAway + Period
  BY PacingAssumption DEF Encoded, PacingTypeOK
<1> QED
  BY <1>1, <1>2, <1>3 DEF Encoded

LEMMA PacingTypedStep == ASSUME PacingTyped, [PacingNext]_pacingVars PROVE PacingTyped'
<1> USE PacingAssumption, Frames DEF PacingTyped, keyVars
<1>1. CASE Tick
  BY <1>1 DEF Tick, PacingTypeOK
<1>2. CASE CopyStarts
  BY <1>2 DEF CopyStarts, PacingTypeOK
<1>3. CASE Captured
  <2>1. pQueue' \in Seq(Int) /\ Len(pQueue') <= Room
    BY <1>3 DEF Captured, PacingTypeOK
  <2> QED
    BY <1>3, <2>1 DEF Captured, PacingTypeOK
<1>4. CASE ClockSet
  BY <1>4 DEF ClockSet, PacingTypeOK
<1>5. CASE Sent
  BY <1>5 DEF Sent, PacingTypeOK
<1>6. CASE SessionResumes
  BY <1>6 DEF SessionResumes, PacingTypeOK
<1>8. ASSUME NEW length \in 0 .. MaxEncode, TakeFrame(length) PROVE PacingTyped'
  <2>1. pQueue' \in Seq(Int) /\ Len(pQueue') <= Room /\ UNCHANGED <<pNow, pSet, pCopy>> /\ pSlow' = FALSE
    BY <1>8 DEF TakeFrame, PacingTypeOK
  <2>2. Encoded(Head(pQueue), length)
    BY <1>8 DEF TakeFrame
  <2> QED
    BY <2>1, <2>2, EncodedTyped DEF PacingTypeOK
<1>9. ASSUME NEW length \in 0 .. MaxEncode, Reemit(length) PROVE PacingTyped'
  <2>1. Encoded(Bumped, length) /\ UNCHANGED <<pNow, pSet, pQueue, pCopy>> /\ pSlow' \in BOOLEAN
    BY <1>9 DEF Reemit
  <2> QED
    BY <2>1, EncodedTyped DEF PacingTypeOK
<1>10. ASSUME NEW length \in 1 .. MaxAway, SessionEnds(length) PROVE PacingTyped'
  BY <1>10 DEF SessionEnds, AskedForSession, PacingTypeOK
<1>11. CASE UNCHANGED pacingVars
  BY <1>11 DEF pacingVars, PacingTypeOK
<1>7. CASE SoundTaken
  BY <1>7 DEF SoundTaken, PacingTypeOK
<1> QED
  BY <1>1, <1>2, <1>3, <1>4, <1>5, <1>6, <1>7, <1>8, <1>9, <1>10, <1>11 DEF PacingNext

LEMMA PacingTypes == PacingSpec => []PacingTypeOK
<1>1. PacingInit => PacingTyped
  <2> SUFFICES ASSUME PacingInit PROVE PacingTyped
    OBVIOUS
  <2>1. pQueue \in Seq(Int) /\ Len(pQueue) <= Room
    BY PacingAssumption DEF PacingInit
  <2>2. pIndex \in 0 .. GopFrames - 1
    BY Frames DEF PacingInit
  <2>3. pUntil \in 0 .. MaxTime + MaxEncode + MaxAway + Period /\ pNow \in 1 .. MaxTime
    BY PacingAssumption DEF PacingInit
  <2>4. pSet \in 0 .. 2
    BY DEF PacingInit
  <2>5. pPc \in {"wait", "busy", "away", "fresh"} /\ pAsked \in BOOLEAN
    BY DEF PacingInit
  <2>6. pSlow \in BOOLEAN /\ pSound \in BOOLEAN
    BY Zenon DEF PacingInit
  <2>7. pCopy \in Int
    BY DEF PacingInit
  <2> QED
    BY <2>1, <2>2, <2>3, <2>4, <2>5, <2>6, <2>7, Zenon DEF PacingTyped, PacingTypeOK
<1>2. PacingTyped /\ [PacingNext]_pacingVars => PacingTyped'
  BY PacingTypedStep
<1>3. PacingTyped => PacingTypeOK
  BY DEF PacingTyped
<1> QED
  BY <1>1, <1>2, <1>3, PTL DEF PacingSpec

-----------------------------------------------------------------------------
\* Every picture number in the two codecs, and on the way between them, is one the capture produced.

Pictures == 0 .. MaxPictures

EncoderWithin ==
  /\ vIdx <= MaxPictures /\ vVpp \in BOOLEAN /\ vPrevNum \in 0 .. 255
  /\ vRecon \in [Recon -> Pictures]

LookedAt == [pic : Pictures, src : Pictures]

LookWithin == vLook \in Seq(LookedAt) /\ Len(vLook) <= 2

WireWithin == Len(vWire) <= MaxTransit /\ \A i \in 1 .. Len(vWire) : vWire[i].pic \in Pictures

DecoderWithin ==
  /\ dKind \in {"pending", "nvdec", "vaapi", "openh264", "refused"}
  /\ dCtx \in BOOLEAN /\ (dCtx => dParams)
  /\ dSurf \in [Pool -> Pictures]

VideoWithin == EncoderWithin /\ LookWithin /\ WireWithin /\ DecoderWithin

\* The access unit that leaves is one more on the wire.
LEMMA SentWithin ==
  ASSUME VideoShape, WireWithin, Len(vWire) < MaxTransit,
         NEW unit, unit.pic \in Pictures, vWire' = Append(vWire, unit)
  PROVE  WireWithin'
<1>1. /\ Len(vWire) \in Nat /\ Len(vWire') = Len(vWire) + 1
      /\ vWire'[Len(vWire) + 1] = unit /\ \A i \in 1 .. Len(vWire) : vWire'[i] = vWire[i]
  BY OneMore DEF VideoShape
<1>2. Len(vWire') <= MaxTransit
  BY <1>1, VideoAssumption
<1>3. ASSUME NEW i \in 1 .. Len(vWire) + 1 PROVE vWire'[i].pic \in Pictures
  <2>1. CASE i \in 1 .. Len(vWire)
    BY <1>1, <2>1 DEF WireWithin
  <2>2. CASE i = Len(vWire) + 1
    BY <1>1, <2>2
  <2> QED
    BY <1>1, <2>1, <2>2
<1> QED
  BY <1>1, <1>2, <1>3 DEF WireWithin

LEMMA PictureWithin ==
  ASSUME VideoShape, vIdx < MaxPictures
  PROVE  Picture \in Pictures /\ AtConfiguredSize \in Pictures /\ 0 \in Pictures /\ Picture = vIdx + 1
BY VideoAssumption DEF VideoShape, Pictures, Picture, AtConfiguredSize

LEMMA FrameNumWithin == ASSUME VideoShape PROVE FrameNum \in 0 .. 255
<1>1. vIdx \in Nat /\ Gop \in Nat \ {0}
  BY VideoAssumption DEF VideoShape
<1>2. SinceGop \in Int
  BY <1>1 DEF SinceGop
<1>3. SinceGop % 256 \in 0 .. 255
  BY <1>2
<1> QED
  BY <1>3 DEF FrameNum

LEMMA UploadWithin ==
  ASSUME VideoShape, EncoderWithin, vIdx < MaxPictures, NEW gpu \in BOOLEAN
  PROVE  Upload(gpu) \in [Recon -> Pictures]
<1>1. vNext \in Recon /\ vRecon \in [Recon -> Pictures]
  BY DEF VideoShape, EncoderWithin
<1> QED
  BY <1>1, PictureWithin DEF Upload, UploadBgra, UploadDmabuf

\* One encode, by the backend that is open.
LEMMA VaapiWithin ==
  ASSUME VideoShape, VideoWithin, vIdx < MaxPictures, Len(vWire) < MaxTransit,
         NEW gpu \in BOOLEAN, EncodeVaapi(gpu) \/ EncodeHevcVaapi(gpu)
  PROVE  VideoWithin'
<1> DEFINE surfaces == Upload(gpu)
<1>1. /\ vRecon' = surfaces /\ vIdx' = vIdx + 1
      /\ UNCHANGED <<vHost, vKind, vVpp, capture, vCache, vLook, decoder>>
  BY DEF EncodeVaapi, EncodeHevcVaapi, Reconstructed
<1>2. vPrevNum' = FrameNum \/ UNCHANGED vPrevNum
  BY DEF EncodeVaapi, EncodeHevcVaapi
<1>3. EncoderWithin'
  <2>1. vIdx' <= MaxPictures /\ vVpp' \in BOOLEAN
    BY <1>1, VideoAssumption DEF VideoShape, VideoWithin, EncoderWithin
  <2>2. vPrevNum' \in 0 .. 255
    BY <1>2, FrameNumWithin DEF VideoWithin, EncoderWithin
  <2>3. vRecon' \in [Recon -> Pictures]
    BY <1>1, UploadWithin DEF VideoWithin
  <2> QED
    BY <2>1, <2>2, <2>3 DEF EncoderWithin
<1>4. \E unit : unit.pic = Picture /\ vWire' = Append(vWire, unit)
  <2>1. CASE EncodeVaapi(gpu)
    <3> DEFINE unit == With(With(With(PictureParam(surfaces), SliceParam(surfaces)), PackedHeaders),
                            [label |-> Picture])
    <3>1. unit.pic = Picture
      BY DEF With, PictureParam, SliceParam, PackedHeaders
    <3> QED
      BY <2>1, <3>1 DEF EncodeVaapi, Emit
  <2>2. CASE EncodeHevcVaapi(gpu)
    <3> DEFINE unit == With(With(With(HevcPictureParam(surfaces), HevcSliceParam(surfaces)),
                                 HevcPackedHeaders), [label |-> Picture])
    <3>1. unit.pic = Picture
      BY DEF With, HevcPictureParam, HevcSliceParam, HevcPackedHeaders
    <3> QED
      BY <2>2, <3>1 DEF EncodeHevcVaapi, Emit
  <2> QED
    BY <2>1, <2>2
<1>5. WireWithin'
  BY <1>4, PictureWithin, SentWithin DEF VideoWithin
<1> QED
  BY <1>1, <1>3, <1>5 DEF VideoWithin, LookWithin, DecoderWithin, decoder, worker

LEMMA NvencWithin ==
  ASSUME VideoShape, VideoWithin, vIdx < MaxPictures, Len(vWire) < MaxTransit,
         NEW gpu \in BOOLEAN, EncodeNvenc(gpu)
  PROVE  VideoWithin'
<1> DEFINE unit == With([pic |-> Picture, src |-> IF gpu THEN DmabufPixels ELSE HostPixels, idr |-> IsIdr,
                         ref |-> IF IsIdr THEN 0 ELSE vIdx, headers |-> IsIdr], [label |-> Picture])
<1>1. /\ vWire' = Append(vWire, unit) /\ vIdx' = vIdx + 1
      /\ UNCHANGED <<vVpp, vPrevNum, vRecon, vLook, decoder>>
  BY DEF EncodeNvenc, Emit
<1>2. unit.pic = Picture
  BY DEF With
<1> HIDE DEF unit
<1>3. WireWithin'
  BY <1>1, <1>2, PictureWithin, SentWithin DEF VideoWithin
<1>4. EncoderWithin'
  BY <1>1, VideoAssumption DEF VideoShape, VideoWithin, EncoderWithin
<1> QED
  BY <1>1, <1>3, <1>4 DEF VideoWithin, LookWithin, DecoderWithin, decoder, worker

\* The lookahead: one picture in, at most one out.
LEMMA LookedAhead ==
  ASSUME NEW S, NEW s \in Seq(S), NEW e \in S, Len(s) <= 2, NEW delay \in {0, 2}
  PROVE  LET held == Append(s, e)
             full == Len(held) > delay
         IN  /\ Head(held) \in S
             /\ (IF full THEN Tail(held) ELSE held) \in Seq(S)
             /\ Len(IF full THEN Tail(held) ELSE held) <= 2
<1> DEFINE held == Append(s, e)
<1>1. held \in Seq(S) /\ Len(held) = Len(s) + 1 /\ held # <<>> /\ Len(s) \in Nat
  <2>1. \E T : s \in Seq(T)
    OBVIOUS
  <2>2. held \in Seq(S)
    OBVIOUS
  <2> QED
    BY <2>1, <2>2, OneMore
<1>2. Head(held) \in S /\ Tail(held) \in Seq(S) /\ Len(Tail(held)) = Len(held) - 1
  BY <1>1
<1> HIDE DEF held
<1>3. CASE Len(held) > delay
  BY <1>1, <1>2, <1>3 DEF held
<1>4. CASE ~(Len(held) > delay)
  BY <1>1, <1>2, <1>4 DEF held
<1> QED
  BY <1>3, <1>4

LEMMA X264Within ==
  ASSUME VideoShape, VideoWithin, vIdx < MaxPictures, Len(vWire) < MaxTransit,
         NEW delay \in {0, 2}, EncodeX264(delay)
  PROVE  VideoWithin'
<1> DEFINE e == [pic |-> Picture, src |-> AtConfiguredSize]
           held == Append(vLook, e)
           full == Len(held) > delay
           out == IF full THEN Head(held) ELSE [pic |-> 0, src |-> 0]
           intra == full /\ (out.pic - 1) % Gop = 0
           unit == With(With(out, [idr |-> intra, ref |-> IF full /\ ~intra THEN out.pic - 1 ELSE 0,
                                   headers |-> intra]), [label |-> Picture])
<1>1. /\ vLook' = (IF full THEN Tail(held) ELSE held) /\ vWire' = Append(vWire, unit) /\ vIdx' = vIdx + 1
      /\ UNCHANGED <<vVpp, vPrevNum, vRecon, decoder>>
  BY DEF EncodeX264, Emit
<1>2. e \in LookedAt
  BY PictureWithin DEF LookedAt
<1>3. vLook \in Seq(LookedAt) /\ Len(vLook) <= 2
  BY DEF VideoWithin, LookWithin
<1> HIDE DEF e
<1>4. Head(held) \in LookedAt /\ LookWithin'
  BY <1>1, <1>2, <1>3, LookedAhead DEF LookWithin
<1> HIDE DEF held, full
<1>5. out \in LookedAt
  BY <1>4, PictureWithin DEF LookedAt
<1> HIDE DEF out, intra
<1>6. unit.pic = out.pic
  BY <1>5 DEF With, LookedAt
<1> HIDE DEF unit
<1>7. unit.pic \in Pictures
  BY <1>5, <1>6 DEF LookedAt
<1>8. WireWithin'
  BY <1>1, <1>7, SentWithin DEF VideoWithin
<1>9. EncoderWithin'
  BY <1>1, VideoAssumption DEF VideoShape, VideoWithin, EncoderWithin
<1> QED
  BY <1>1, <1>4, <1>8, <1>9 DEF VideoWithin, DecoderWithin, decoder, worker

LEMMA EncodeWithin == ASSUME VideoShape, VideoWithin, Encode PROVE VideoWithin'
<1>1. vIdx < MaxPictures /\ Len(vWire) < MaxTransit
  BY DEF Encode
<1>2. CASE \E gpu \in BOOLEAN : EncodeVaapi(gpu) \/ EncodeHevcVaapi(gpu) \/ EncodeNvenc(gpu)
  BY <1>1, <1>2, VaapiWithin, NvencWithin
<1>3. CASE \E delay \in {0, 2} : (vIdx > 0 => delay = 2) /\ EncodeX264(delay)
  BY <1>1, <1>3, X264Within
<1>4. CASE EncodeFails
  BY <1>4 DEF EncodeFails, VideoWithin, EncoderWithin, LookWithin, WireWithin, DecoderWithin, decoder, worker
<1> QED
  BY <1>2, <1>3, <1>4 DEF Encode

\* The steps that send and decode nothing.
LEMMA AsideWithin ==
  ASSUME VideoShape, VideoWithin,
         \/ Configure \/ RequestKeyframe \/ (\E size \in {"same", "larger", "smaller"} : NewBuffer(size))
         \/ (\E kind \in DecoderChoices : ConfigureDecoder(kind)) \/ UNCHANGED videoVars
  PROVE  VideoWithin'
<1> USE DEF videoVars, encoder, frameState, capture, worker, decoder
<1>1. /\ UNCHANGED <<vIdx, vPrevNum, vRecon, vLook, vWire, dCtx, dParams, dSurf>>
      /\ vVpp' \in BOOLEAN /\ dKind' \in {"pending", "nvdec", "vaapi", "openh264", "refused"}
  <2>1. CASE Configure
    BY <2>1 DEF Configure, VideoWithin, DecoderWithin
  <2>2. CASE RequestKeyframe \/ UNCHANGED videoVars
    BY <2>2 DEF RequestKeyframe, VideoWithin, EncoderWithin, DecoderWithin
  <2>3. CASE \E size \in {"same", "larger", "smaller"} : NewBuffer(size)
    BY <2>3 DEF NewBuffer, VideoWithin, EncoderWithin, DecoderWithin
  <2>4. CASE \E kind \in DecoderChoices : ConfigureDecoder(kind)
    BY <2>4 DEF ConfigureDecoder, DecoderChoices, VideoWithin, EncoderWithin
  <2> QED
    BY <2>1, <2>2, <2>3, <2>4
<1> QED
  BY <1>1 DEF VideoWithin, EncoderWithin, LookWithin, WireWithin, DecoderWithin

LEMMA SkipWithin ==
  ASSUME VideoShape, VideoWithin, NEW n \in 2 .. MaxTransit, SkipToSegment(n)
  PROVE  VideoWithin'
<1>1. n \in 1 .. Len(vWire) /\ vWire' = SubSeq(vWire, n, Len(vWire)) /\ n \in Nat /\ n > 1
      /\ UNCHANGED <<encoder, capture, decoder>>
  BY DEF SkipToSegment, VideoShape
<1>2. /\ Len(vWire) \in Nat /\ Len(vWire') = Len(vWire) - n + 1
      /\ \A i \in 1 .. Len(vWire) - n + 1 : vWire'[i] = vWire[n - 1 + i]
  BY <1>1, FewerFrom DEF VideoShape
<1>3. ASSUME NEW i \in 1 .. Len(vWire) - n + 1 PROVE vWire'[i].pic \in Pictures
  <2>1. n - 1 + i \in 1 .. Len(vWire)
    BY <1>1, <1>2
  <2> QED
    BY <1>2, <2>1 DEF VideoWithin, WireWithin
<1>4. Len(vWire') <= MaxTransit
  BY <1>1, <1>2, VideoAssumption DEF VideoWithin, WireWithin
<1>5. WireWithin'
  BY <1>2, <1>3, <1>4 DEF WireWithin
<1> QED
  BY <1>1, <1>5 DEF VideoWithin, EncoderWithin, LookWithin, DecoderWithin, encoder, frameState, decoder, worker

LEMMA SurfaceWithin ==
  ASSUME VideoShape
  PROVE  OutputSurface \in Pool
<1>1. dNext \in Pool /\ SurfacePool \in Nat \ {0}
  BY VideoAssumption DEF VideoShape
<1>2. (dNext + 1) % SurfacePool \in Pool
  BY <1>1 DEF Pool
<1> QED
  BY <1>1, <1>2 DEF OutputSurface

LEMMA DecodeWithin == ASSUME VideoShape, VideoWithin, Decode PROVE VideoWithin'
<1> USE DEF Unit
<1>1. vWire # <<>> /\ vWire' = Tail(vWire) /\ UNCHANGED <<encoder, capture, dKind>>
  BY DEF Decode
<1>2. /\ Len(vWire) \in Nat \ {0} /\ Len(vWire') = Len(vWire) - 1 /\ Head(vWire) = vWire[1]
      /\ \A i \in 1 .. Len(vWire) - 1 : vWire'[i] = vWire[i + 1]
  BY <1>1, FewerByOne DEF VideoShape
<1>3. Head(vWire).pic \in Pictures
  BY <1>2 DEF VideoWithin, WireWithin
<1>4. WireWithin'
  <2>1. ASSUME NEW i \in 1 .. Len(vWire) - 1 PROVE vWire'[i].pic \in Pictures
    BY <1>2 DEF VideoWithin, WireWithin
  <2>2. Len(vWire') <= MaxTransit
    BY <1>2, VideoAssumption DEF VideoWithin, WireWithin
  <2> QED
    BY <1>2, <2>1, <2>2 DEF WireWithin
<1>5. /\ dCtx' \in BOOLEAN /\ (dCtx' => dParams') /\ dSurf' \in [Pool -> Pictures]
  <2>1. dCtx \in BOOLEAN /\ (dCtx => dParams) /\ dSurf \in [Pool -> Pictures] /\ dParams \in BOOLEAN
    BY DEF VideoWithin, DecoderWithin, VideoShape
  <2>2. ASSUME NEW outcome \in Outcomes, DecodeVaapi(outcome)
        PROVE  dCtx' \in BOOLEAN /\ (dCtx' => dParams') /\ dSurf' \in [Pool -> Pictures]
    <3> DEFINE unit == Head(vWire)
               shown == Decoded(unit, ReferencePicture(unit))
    <3>1. shown \in Pictures
      BY <1>3, VideoAssumption DEF Decoded, Pictures
    <3>2. dParams => dParams'
      BY <2>2 DEF DecodeVaapi, ParamsAfter
    <3>3. UNCHANGED dCtx \/ (dCtx' = TRUE /\ dParams')
      BY <2>2 DEF DecodeVaapi
    <3>4. \/ UNCHANGED dSurf \/ dSurf' = [dSurf EXCEPT ![OutputSurface] = 0]
          \/ dSurf' = [dSurf EXCEPT ![OutputSurface] = shown]
      BY <2>2 DEF DecodeVaapi
    <3>5. 0 \in Pictures /\ OutputSurface \in Pool
      BY VideoAssumption, SurfaceWithin DEF Pictures
    <3> HIDE DEF unit, shown
    <3>6. dSurf' \in [Pool -> Pictures]
      BY <2>1, <3>1, <3>4, <3>5
    <3>7. dCtx' \in BOOLEAN /\ (dCtx' => dParams')
      <4>1. dCtx \in BOOLEAN /\ (dCtx => dParams)
        BY <2>1
      <4>2. CASE UNCHANGED dCtx
        BY <3>2, <4>1, <4>2, Zenon
      <4>3. CASE dCtx' = TRUE /\ dParams'
        BY <4>3
      <4> QED
        BY <3>3, <4>2, <4>3
    <3> QED
      BY <3>6, <3>7
  <2>3. CASE DecodeHevcVaapi \/ \E hold \in {0, 1} : DecodeLibrary(hold)
    BY <2>1, <2>3 DEF DecodeHevcVaapi, DecodeLibrary, worker
  <2> QED
    BY <2>2, <2>3 DEF Decode
<1> QED
  BY <1>1, <1>4, <1>5 DEF VideoWithin, EncoderWithin, LookWithin, DecoderWithin, encoder, frameState

LEMMA WithinInitially == VideoInit => VideoWithin
<1> SUFFICES ASSUME VideoInit PROVE VideoWithin
  OBVIOUS
<1>1. 0 \in Pictures /\ 0 <= MaxPictures /\ 0 <= MaxTransit
  BY VideoAssumption DEF Pictures
<1>2. vRecon \in [Recon -> Pictures] /\ dSurf \in [Pool -> Pictures]
  BY <1>1 DEF VideoInit
<1>3. EncoderWithin /\ DecoderWithin
  <2>1. vPrevNum \in 0 .. 255 /\ vIdx <= MaxPictures
    BY <1>1 DEF VideoInit
  <2>2. vVpp \in BOOLEAN
    BY DEF VideoInit
  <2>3. dCtx \in BOOLEAN /\ (dCtx => dParams) /\ dKind = "pending"
    BY DEF VideoInit
  <2> QED
    BY <1>2, <2>1, <2>2, <2>3 DEF EncoderWithin, DecoderWithin
<1>4. LookWithin /\ WireWithin
  BY <1>1 DEF VideoInit, LookWithin, WireWithin
<1> QED
  BY <1>3, <1>4 DEF VideoWithin

LEMMA VideoTypes == VideoInit /\ [][VideoNext]_videoVars => []VideoTypeOK
<1>1. VideoInv /\ VideoWithin /\ [VideoNext]_videoVars => VideoWithin'
  <2> SUFFICES ASSUME VideoInv, VideoWithin, [VideoNext]_videoVars PROVE VideoWithin'
    OBVIOUS
  <2>1. VideoShape
    BY DEF VideoInv
  <2> QED
    BY <2>1, EncodeWithin, AsideWithin, SkipWithin, DecodeWithin DEF VideoNext
<1>2. VideoInv /\ VideoWithin => VideoTypeOK
  BY VideoAssumption DEF VideoInv, VideoWithin, VideoTypeOK, VideoShape, EncoderWithin, LookWithin, WireWithin, DecoderWithin, Pictures
<1> QED
  BY <1>1, <1>2, VideoInitially, VideoStep, WithinInitially, PTL
=============================================================================
