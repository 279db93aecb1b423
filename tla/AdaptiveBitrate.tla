-------------------------- MODULE AdaptiveBitrate --------------------------
(***************************************************************************)
(* The bitrate of a stream.  HTTP handlers, one task per connection of the *)
(* receiver, measure every segment they deliver and move an atomic target; *)
(* the reconnect supervisor drops it to the floor; the streaming loop      *)
(* compares it with what it last applied and tells the encoder, whenever   *)
(* it gets a frame to encode.                                              *)
(***************************************************************************)
EXTENDS Integers, FiniteSets

CONSTANTS Handlers,      \* HTTP connections delivering segments at the same time
          Initial,       \* effective_bitrate_kbps
          Samples,       \* budget_used_pct of a delivery
          Capacities,    \* measured kbps of the probe
          MaxGets        \* bound: segments delivered

ASSUME BitrateAssumption == Initial \in Nat \ {0} /\ Samples \subseteq Nat /\ Capacities \subseteq Nat
                            /\ MaxGets \in Nat

ProbeSamples == 3
Ceiling == Initial
Floor == 500
PressureDown == 70
PressureUp == 35

VARIABLES aTarget, aPressure, aCooling, \* AdaptiveBitrateState
          aGets, aSamples,              \* bound; SessionStats, as far as the probe needs it
          aTask,                        \* each handler: [pc, new]
          aFrames,                      \* the loop gets frames to encode
          aBackend, aApplied, aRate,    \* the encoder behind the facade, last_applied_kbps, its own rate
          aFailed                       \* history: the last set_bitrate_kbps failed

encoderVars == <<aFrames, aBackend, aApplied, aRate, aFailed>>
bitrateVars == <<aTarget, aPressure, aCooling, aGets, aSamples, aTask, encoderVars>>

Smaller(a, b) == IF a < b THEN a ELSE b
Larger(a, b) == IF a > b THEN a ELSE b

\* Type correctness of the controller and of the loop's copy.
BitrateTypeOK ==
  /\ aTarget \in Nat /\ aPressure \in Nat /\ aPressure <= 20000
  /\ aCooling \in {"never", "cooling", "over"}
  /\ aGets \in 0 .. MaxGets /\ aSamples \in 0 .. ProbeSamples
  /\ \A h \in Handlers : aTask[h].pc \in {"idle", "probe", "seed", "pressure", "store"}
  /\ aFrames \in BOOLEAN /\ aFailed \in BOOLEAN
  /\ aBackend \in {"h264_nvenc", "h265_nvenc", "other"} /\ aApplied \in Nat /\ aRate \in Nat

BitrateInit ==
  /\ aTarget = Initial /\ aPressure = 0 /\ aCooling = "never"
  /\ aGets = 0 /\ aSamples = 0
  /\ aTask = [h \in Handlers |-> [pc |-> "idle", new |-> 0]]
  /\ aBackend \in {"h264_nvenc", "h265_nvenc", "other"} /\ aApplied = Initial /\ aRate = Initial
  /\ aFrames = TRUE /\ aFailed = FALSE

\* record_segment_get: the third sample completes the probe, once.
SegmentDelivered(h) ==
  /\ aTask[h].pc = "idle" /\ aGets < MaxGets
  /\ aGets' = aGets + 1
  /\ aSamples' = Smaller(aSamples + 1, ProbeSamples)
  /\ aTask' = [aTask EXCEPT ![h].pc = IF aSamples' = ProbeSamples /\ aSamples < ProbeSamples THEN "probe" ELSE "pressure"]
  /\ UNCHANGED <<aTarget, aPressure, aCooling, encoderVars>>

\* observe_link_capacity_kbps, which knows no cool-down: what it makes of the target it loads ...
CapacityTarget(current, measured) ==
  IF measured >= 2 * current THEN current
  ELSE LET wish == IF measured >= current THEN (measured * 7) \div 10 ELSE measured
       IN  Smaller(Ceiling, Larger(Floor, wish))

\* ... unless clamp panics, which ends the connection's task: the ceiling is whatever bitrate the
\* stream was asked for, and nothing compares it with the floor.
ClampPanics(current, measured) == Floor > Ceiling /\ measured < 2 * current

ObserveCapacity(h, measured) ==
  /\ aTask[h].pc = "probe"
  /\ LET new == CapacityTarget(aTarget, measured)
     IN  aTask' = [aTask EXCEPT ![h] = IF ClampPanics(aTarget, measured) THEN [pc |-> "idle", new |-> 0]
                                       ELSE IF new = aTarget THEN [pc |-> "pressure", new |-> 0]
                                       ELSE [pc |-> "seed", new |-> new]]
  /\ UNCHANGED <<aTarget, aCooling, aPressure, aGets, aSamples, encoderVars>>

\* record_pressure: the average, the cool-down, and the target the step starts from ...
PressureTarget(current, average) ==
  IF average \div 100 >= PressureDown THEN Larger(Floor, (current * 3) \div 4)
  ELSE IF average \div 100 <= PressureUp /\ current < Ceiling THEN Smaller(Ceiling, current + 200)
  ELSE current

RecordPressure(h, sample) ==
  /\ aTask[h].pc = "pressure"
  /\ LET average == (aPressure * 7 + Smaller(sample, 200) * 100) \div 8
         new == PressureTarget(aTarget, average)
     IN  /\ aPressure' = average
         /\ aTask' = [aTask EXCEPT ![h] = IF aCooling = "cooling" \/ new = aTarget
                                          THEN [pc |-> "idle", new |-> 0] ELSE [pc |-> "store", new |-> new]]
  /\ UNCHANGED <<aTarget, aCooling, aGets, aSamples, encoderVars>>

\* ... and the store of either, by when another handler or the supervisor may have stored.  What
\* the probe stored is followed by the pressure of the same delivery.
StoreTarget(h) ==
  /\ aTask[h].pc \in {"seed", "store"}
  /\ aTarget' = aTask[h].new /\ aCooling' = "cooling"
  /\ aTask' = [aTask EXCEPT ![h] = [pc |-> IF aTask[h].pc = "seed" THEN "pressure" ELSE "idle", new |-> 0]]
  /\ UNCHANGED <<aPressure, aGets, aSamples, encoderVars>>

\* MIN_ADJUST_INTERVAL_MS go by.
CoolDown ==
  /\ aCooling = "cooling" /\ aCooling' = "over"
  /\ UNCHANGED <<aTarget, aPressure, aGets, aSamples, aTask, encoderVars>>

\* set_bitrate_kbps: the H.265 facade hands it to NVENC; the H.264 facade does not define it
\* and answers the trait's Ok, as every other backend does.
RateKept(kbps) == aRate
RateAfter(kbps) == IF aBackend = "h265_nvenc" THEN Larger(kbps, 500) ELSE aRate

\* NVENC's reconfigure may fail: the loop warns and takes the rate for applied all the same.
SetBitrate(kbps) ==
  /\ aApplied' = kbps
  /\ \/ aRate' = RateAfter(kbps) /\ aFailed' = FALSE
     \/ aBackend = "h265_nvenc" /\ aRate' = aRate /\ aFailed' = TRUE

\* The streaming loop, once per frame.
ApplyTarget ==
  /\ aFrames /\ aTarget # aApplied
  /\ SetBitrate(aTarget)
  /\ UNCHANGED <<aTarget, aPressure, aCooling, aGets, aSamples, aTask, aFrames, aBackend>>

\* The screen stands still or moves again: while it stands still, sound that keeps restarting the
\* wait for a frame keeps the stored frame from being encoded too (FramePacing).
FramesChange ==
  /\ aFrames' = ~aFrames
  /\ UNCHANGED <<aTarget, aPressure, aCooling, aGets, aSamples, aTask, aBackend, aApplied, aRate, aFailed>>

\* The supervisor's drop_to_floor.  The next sink has a SessionStats of its own.
DropToFloor ==
  /\ aTarget' = Floor /\ aCooling' = "cooling"
  /\ SetBitrate(Floor)
  /\ aGets < MaxGets /\ aGets' = aGets + 1 /\ aSamples' = 0
  /\ UNCHANGED <<aPressure, aTask, aFrames, aBackend>>

BitrateNext ==
  \/ \E h \in Handlers :
       \/ SegmentDelivered(h) \/ StoreTarget(h)
       \/ \E measured \in Capacities : ObserveCapacity(h, measured)
       \/ \E sample \in Samples : RecordPressure(h, sample)
  \/ CoolDown \/ ApplyTarget \/ FramesChange \/ DropToFloor

\* A frame of the capture waits until the loop takes it, and its audio arm takes no turn when no
\* sound is ready: a loop that gets frames again and again encodes one.
BitrateFairness == SF_bitrateVars(ApplyTarget)

BitrateSpec == BitrateInit /\ [][BitrateNext]_bitrateVars /\ BitrateFairness

\* Whatever the handlers and the supervisor store over one another, the target stays between the
\* floor and the ceiling, whichever of the two is the lower.
TargetWithinBounds == aTarget \in Smaller(Floor, Ceiling) .. Larger(Floor, Ceiling)

\* Once the link is quiet, and as long as frames go on coming, the loop's copy is the target; and
\* an H.265 NVENC runs at it unless it refused the last rate, which is not tried again.
RateSettles ==
  []<>aFrames =>
    <>[](aApplied = aTarget /\ (aBackend = "h265_nvenc" /\ ~aFailed => aRate = aTarget))

\* "NVENC reconfigures live": what the loop believes it applied is what NVENC runs at.  The H.264
\* facade does not forward the rate.
NvencRunsAtTarget == aBackend \in {"h264_nvenc", "h265_nvenc"} => aRate = aApplied

\* The comment on last_applied_kbps, "we've actually pushed into the encoder": where set_bitrate_kbps
\* reaches an encoder that reconfigures, the copy is the encoder's rate.  A rate that was refused is
\* recorded too.
AppliedWasPushed == aBackend = "h265_nvenc" => aRate = aApplied

\* The comment on ceiling_kbps, "Hard upper bound - never raise the target above this": of a stream
\* asked for with less than the floor, the drop to the floor raises it.
NeverAboveCeiling == aTarget <= Ceiling
=============================================================================
