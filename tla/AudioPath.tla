------------------------------ MODULE AudioPath ------------------------------
(***************************************************************************)
(* Sound on its way to a receiver.  PipeWire's real-time callback numbers  *)
(* and stamps chunks by counting samples and drops a chunk when the        *)
(* channel is full; the audio task encodes what it takes, in frames of     *)
(* another length whose stamps it counts for itself; the streaming loop    *)
(* passes frames on to the session, and to nobody while it reconnects.     *)
(* Time is counted in samples since the first chunk: a sample is the time  *)
(* it was captured at, a stamp the number of samples before it.  A source  *)
(* that stands idle lets time pass and nothing be counted.                 *)
(***************************************************************************)
EXTENDS Integers, Sequences, FiniteSets

CONSTANTS Chunk,         \* samples in a chunk PipeWire delivers
          AacFrame,      \* AAC_LC_FRAME_SAMPLES
          OpusFrame,     \* FRAME_SAMPLES
          CaptureRoom,   \* the capture's channel (the code's is 32)
          EncodedRoom,   \* the channel to the streaming loop (64)
          QueueRoom,     \* AUDIO_QUEUE_DEPTH (256)
          MaxChunks      \* bound: chunks captured, or idle times as long

ASSUME AudioAssumption ==
  /\ Chunk \in Nat \ {0} /\ AacFrame \in Nat \ {0} /\ OpusFrame \in Nat \ {0}
  /\ CaptureRoom \in Nat \ {0} /\ EncodedRoom \in Nat \ {0} /\ QueueRoom \in Nat \ {0}
  /\ MaxChunks \in Nat

VARIABLES uLoop, uShape, uCounted,   \* the PipeWire thread, what it negotiated, samples_since_anchor
          uClock,                    \* the time of day, since the first chunk
          uFrames, uErrors,          \* its two channels
          uTask, uCodec, uOut,       \* the audio task, its codec, take_output
          uEnc, uAnchor, uPcm, uEmitted, \* the encoder
          uTx,                       \* encoded frames on their way to the streaming loop
          uStage, uQueue,            \* the session, and the queue of its segmenter
          uGaps, uSwallowed          \* history: when a chunk was dropped or the source stood idle,
                                     \* the samples an encoder took in and let nothing out for

callback == <<uLoop, uShape, uCounted, uClock, uErrors>>
coder == <<uEnc, uAnchor, uPcm, uEmitted, uSwallowed>>
session == <<uStage, uQueue>>
audioVars == <<callback, uFrames, uTask, uCodec, uOut, coder, uTx, session, uGaps>>

Positions == 0 .. Chunk * MaxChunks
Chunks == [at : Positions, stamp : Positions, shape : 1 .. 2]
Coded == [label : Nat, at : Positions, swallowed : Int]
FrameLength == IF uCodec = "aac" THEN AacFrame ELSE OpusFrame

\* Type correctness of the three queues and the encoder's counters.
AudioTypeOK ==
  /\ uLoop \in {"off", "running", "ended"} /\ uShape \in 0 .. 2 /\ uErrors \in BOOLEAN
  /\ uCounted \in Positions /\ uClock \in Positions /\ uAnchor \in Positions \union {-1}
  /\ uEmitted \in Positions /\ uSwallowed \in Positions
  /\ Len(uFrames) <= CaptureRoom /\ Len(uTx) <= EncodedRoom /\ Len(uQueue) <= QueueRoom
  /\ \A i \in DOMAIN uFrames : uFrames[i] \in Chunks
  /\ \A i \in DOMAIN uTx : uTx[i] \in Coded
  /\ \A i \in DOMAIN uQueue : uQueue[i] \in Coded
  /\ uTask \in {"off", "running", "ended"} /\ uCodec \in {"aac", "opus"} /\ uEnc \in 0 .. 2
  /\ Len(uPcm) < FrameLength
  /\ uStage \in {"connected", "live", "away", "over"}

AudioInit ==
  /\ uLoop = "off" /\ uShape = 0 /\ uCounted = 0 /\ uClock = 0 /\ uFrames = <<>> /\ uErrors = FALSE
  /\ uTask = "off" /\ uCodec \in {"aac", "opus"} /\ uOut = <<>>
  /\ uEnc = 0 /\ uAnchor = -1 /\ uPcm = <<>> /\ uEmitted = 0
  /\ uTx = <<>> /\ uStage = "connected" /\ uQueue = <<>> /\ uGaps = {} /\ uSwallowed = 0

-----------------------------------------------------------------------------
\* The PipeWire thread.

\* start, once the session is connected: the channels and the thread.
AudioStart ==
  /\ uTask = "off" /\ uStage # "over"
  /\ uTask' = "running" /\ uLoop' = "running"
  /\ UNCHANGED <<uShape, uCounted, uClock, uErrors, uFrames, uCodec, uOut, coder, uTx, session, uGaps>>

\* param_changed: the asked shape (1) or another (2), with a warning.
AudioShape(shape) ==
  /\ uLoop = "running" /\ shape # uShape
  /\ uShape' = shape
  /\ UNCHANGED <<uLoop, uCounted, uClock, uErrors, uFrames, uTask, uCodec, uOut, coder, uTx, session, uGaps>>

\* The stream fails: the error, and the end of the thread.
AudioLoopFails ==
  /\ uLoop = "running"
  /\ uLoop' = "ended" /\ uErrors' = TRUE
  /\ UNCHANGED <<uShape, uCounted, uClock, uFrames, uTask, uCodec, uOut, coder, uTx, session, uGaps>>

\* process: the samples are counted, and stamped with the count, whether or not the channel has
\* room for their chunk.
AudioProcess ==
  /\ uLoop = "running" /\ uClock < Chunk * MaxChunks
  /\ uCounted' = uCounted + Chunk /\ uClock' = uClock + Chunk
  /\ IF Len(uFrames) < CaptureRoom
     THEN uFrames' = Append(uFrames, [at |-> uClock, stamp |-> uCounted, shape |-> IF uShape = 0 THEN 1 ELSE uShape])
          /\ UNCHANGED uGaps
     ELSE uGaps' = uGaps \union {uClock} /\ UNCHANGED uFrames
  /\ UNCHANGED <<uLoop, uShape, uErrors, uTask, uCodec, uOut, coder, uTx, session>>

\* The source stands idle after the first chunk, which anchored the count to the time of day.
SourceIdle ==
  /\ uLoop = "running" /\ uCounted > 0 /\ uClock < Chunk * MaxChunks
  /\ uClock' = uClock + Chunk /\ uGaps' = uGaps \union {uClock}
  /\ UNCHANGED <<uLoop, uShape, uCounted, uErrors, uFrames, uTask, uCodec, uOut, coder, uTx, session>>

-----------------------------------------------------------------------------
\* The audio task.

\* The samples of a chunk.
SamplesOf(chunk) == [i \in 1 .. Chunk |-> chunk.at + i - 1]

\* The stamp of the i-th frame let out of a chunk.
StampFromAnchor(anchor, i) == anchor + (i - 1) * FrameLength
Stamp(anchor, i) == anchor + uEmitted + (i - 1) * FrameLength

\* The full frames an encoder lets something out for; it may take one in and let nothing out.
KeptFrames(n) ==
  {kept \in UNION {[1 .. m -> 1 .. n] : m \in 0 .. n} :
     \A i, j \in DOMAIN kept : i < j => kept[i] < kept[j]}

\* What leaves the encoder is stamped from the first chunk it ever saw and the samples it has put
\* out since: the stamp of a later chunk is not looked at.
Coding(anchor, pcm, kept) ==
  LET n == Len(pcm) \div FrameLength
  IN  [out |-> [i \in DOMAIN kept |-> [label |-> Stamp(anchor, i),
                                      at |-> pcm[(kept[i] - 1) * FrameLength + 1],
                                      swallowed |-> uSwallowed + (kept[i] - i) * FrameLength]],
       rest |-> SubSeq(pcm, n * FrameLength + 1, Len(pcm)),
       emitted |-> Len(kept) * FrameLength,
       swallowed |-> (n - Len(kept)) * FrameLength]

EncodeChunk(chunk) ==
  LET anchor == IF uAnchor = -1 THEN chunk.stamp ELSE uAnchor
      pcm == uPcm \o SamplesOf(chunk)
  IN  \E kept \in KeptFrames(Len(pcm) \div FrameLength) :
        LET coded == Coding(anchor, pcm, kept)
        IN  /\ uAnchor' = anchor
            /\ uOut' = coded.out /\ uPcm' = coded.rest
            /\ uEmitted' = uEmitted + coded.emitted /\ uSwallowed' = uSwallowed + coded.swallowed

\* The AAC encoder refuses a shape it was not configured for and the Opus one does not look.
Refused(chunk) == uCodec = "aac" /\ uEnc \notin {0, chunk.shape}

\* next_frame, an error before a chunk; the first chunk configures the encoder, a chunk that
\* is refused is dropped and the task goes on.
TakeChunk ==
  /\ uTask = "running" /\ uOut = <<>> /\ uFrames # <<>> /\ ~uErrors
  /\ uFrames' = Tail(uFrames)
  /\ uEnc' = IF uEnc = 0 THEN Head(uFrames).shape ELSE uEnc
  /\ IF Refused(Head(uFrames))
     THEN uGaps' = uGaps \union {Head(uFrames).at} /\ UNCHANGED <<uAnchor, uPcm, uEmitted, uSwallowed, uOut>>
     ELSE EncodeChunk(Head(uFrames)) /\ UNCHANGED uGaps
  /\ UNCHANGED <<callback, uTask, uCodec, uTx, session>>

\* The task ends when the capture failed or the encoder cannot be configured.  Its capture is
\* stopped and the sender of its channel dropped; what is in the channel is still heard.
TaskEnds ==
  /\ uTask = "running" /\ uOut = <<>>
  /\ uErrors \/ (uEnc = 0 /\ uFrames # <<>>)
  /\ uTask' = "ended" /\ uLoop' = "ended" /\ uFrames' = <<>>
  /\ UNCHANGED <<uShape, uCounted, uClock, uErrors, uCodec, uOut, coder, uTx, session, uGaps>>

\* tx.send waits for room.
SendCoded ==
  /\ uTask = "running" /\ uOut # <<>> /\ Len(uTx) < EncodedRoom
  /\ uTx' = Append(uTx, Head(uOut)) /\ uOut' = Tail(uOut)
  /\ UNCHANGED <<callback, uFrames, uTask, uCodec, coder, session, uGaps>>

-----------------------------------------------------------------------------
\* The streaming loop and its session.

\* send_audio_frame: nothing before the first keyframe of a session or of another codec, else
\* into the segmenter's queue if it has room.
PassOn ==
  /\ uStage \in {"connected", "live"} /\ uTx # <<>>
  /\ uTx' = Tail(uTx)
  /\ uQueue' = IF uStage = "live" /\ uCodec = "aac" /\ Len(uQueue) < QueueRoom
               THEN Append(uQueue, Head(uTx)) ELSE uQueue
  /\ UNCHANGED <<callback, uFrames, uTask, uCodec, uOut, coder, uStage, uGaps>>

Bootstrapped ==
  /\ uStage = "connected" /\ uStage' = "live"
  /\ UNCHANGED <<callback, uFrames, uTask, uCodec, uOut, coder, uTx, uQueue, uGaps>>

\* The segmenter takes a frame.
SegmenterTakes ==
  /\ uQueue # <<>> /\ uQueue' = Tail(uQueue)
  /\ UNCHANGED <<callback, uFrames, uTask, uCodec, uOut, coder, uTx, uStage, uGaps>>

\* The session dies with its queue, and nobody takes audio until the next one.
AudioSessionLost ==
  /\ uStage = "live" /\ uStage' = "away" /\ uQueue' = <<>>
  /\ UNCHANGED <<callback, uFrames, uTask, uCodec, uOut, coder, uTx, uGaps>>
AudioReconnected ==
  /\ uStage = "away" /\ uStage' = "connected"
  /\ UNCHANGED <<callback, uFrames, uTask, uCodec, uOut, coder, uTx, uQueue, uGaps>>

\* The stream ends: the task is aborted wherever it is, and the drop of its capture joins.
AudioStreamEnds ==
  /\ uTask # "off" /\ uStage # "over"
  /\ uStage' = "over" /\ uQueue' = <<>>
  /\ uTask' = "ended" /\ uLoop' = "ended"
  /\ uFrames' = <<>> /\ uOut' = <<>> /\ uTx' = <<>>
  /\ UNCHANGED <<uShape, uCounted, uClock, uErrors, uCodec, coder, uGaps>>

AudioNext ==
  \/ AudioStart \/ AudioLoopFails \/ AudioProcess \/ SourceIdle
  \/ \E shape \in 1 .. 2 : AudioShape(shape)
  \/ TakeChunk \/ TaskEnds \/ SendCoded
  \/ PassOn \/ Bootstrapped \/ SegmenterTakes
  \/ AudioSessionLost \/ AudioReconnected \/ AudioStreamEnds

AudioSpec == AudioInit /\ [][AudioNext]_audioVars

-----------------------------------------------------------------------------
\* The chunks lost and the idle times between the encoder's first sample and a sample.
GapsBefore(at) == {g \in uGaps : uAnchor < g /\ g < at}

\* A frame is stamped before the capture of its first sample by exactly the chunks lost on the way
\* to the encoder, the time the source stood idle and what the encoder swallowed: the stamps count
\* samples and nothing makes up for those that were not counted, so the sound is ahead of the
\* picture by all of it from then on (fdk_impl.rs: "keeps audio frame deltas exact").
LagIsAccountedFor ==
  \A queue \in {uOut, uTx, uQueue} : \A i \in DOMAIN queue :
    queue[i].at - queue[i].label = Chunk * Cardinality(GapsBefore(queue[i].at)) + queue[i].swallowed
=============================================================================
