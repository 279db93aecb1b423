--------------------------- MODULE PipeWireCapture ---------------------------
(***************************************************************************)
(* PipeWireCapture: the portal handshake, the PipeWire loop on its own     *)
(* thread, a channel of one frame, and the Vulkan importer the encoder's   *)
(* task uses to read a GPU frame back.  A GPU frame only borrows its       *)
(* buffer: it carries the number of a file descriptor, and the buffer goes *)
(* back to the compositor when the callback that captured it returns.      *)
(* Frames are numbered as the compositor draws them.                       *)
(***************************************************************************)
EXTENDS Naturals, Sequences

CONSTANTS Buffers,      \* the buffers of the compositor's pool
          Sizes,        \* picture sizes, as 1 .. n from small to large
          MaxDrawn,     \* bound: frames the compositor draws
          MaxPools      \* bound: negotiations

ASSUME PipeWireAssumption ==
  Sizes \in Nat \ {0} /\ MaxDrawn \in Nat /\ MaxPools \in Nat /\ Buffers # {}

VARIABLES pApp,       \* the capture: off, portal, running, stopping, stopped, failed
          pLoop,      \* the PipeWire thread: none, running, ended
          pErrors,    \* an error waits for next_frame
          pSize,      \* the negotiated size, 0 before
          pPool,      \* which pool of buffers is in use
          pPixels,    \* the frame each buffer holds
          pDrawn,     \* frames drawn
          pChannel,   \* the captured frame waiting, at most one
          pJob,       \* the frame the encoder's task reads back, or <<>>
          pStep,      \* that task: idle, importing, copying
          pShown,     \* the pixels of the last frame read
          pRing,      \* the importer's next slot
          pStaging,   \* the size each slot's staging buffer holds, 0 for none
          pSignalled, \* the fences that are signalled
          pLock       \* the importer's state is locked

capture == <<pApp, pLoop, pErrors>>
screen == <<pSize, pPool, pPixels, pDrawn>>
importer == <<pRing, pStaging, pSignalled, pLock>>
reader == <<pJob, pStep, pShown>>
pipeVars == <<capture, screen, pChannel, reader, importer>>

RingDepth == 2
Frame == [n : 1 .. MaxDrawn, buf : Buffers, pool : 0 .. MaxPools, size : 1 .. Sizes, gpu : BOOLEAN]

\* Type correctness of the capture, the channel and the importer.
PipeTypeOK ==
  /\ pApp \in {"off", "portal", "running", "stopping", "stopped", "failed"}
  /\ pLoop \in {"none", "running", "ended"} /\ pErrors \in BOOLEAN
  /\ pSize \in 0 .. Sizes /\ pPool \in 0 .. MaxPools /\ pDrawn \in 0 .. MaxDrawn
  /\ pPixels \in [Buffers -> 0 .. MaxDrawn] /\ pShown \in 0 .. MaxDrawn
  /\ Len(pChannel) <= 1 /\ \A i \in DOMAIN pChannel : pChannel[i] \in Frame
  /\ Len(pJob) <= 1 /\ \A i \in DOMAIN pJob : pJob[i] \in Frame
  /\ pStep \in {"idle", "importing", "copying"}
  /\ pRing \in 1 .. RingDepth /\ pStaging \in [1 .. RingDepth -> 0 .. Sizes]
  /\ pSignalled \subseteq 1 .. RingDepth /\ pLock \in BOOLEAN

PipeInit ==
  /\ pApp = "off" /\ pLoop = "none" /\ pErrors = FALSE
  /\ pSize = 0 /\ pPool = 0 /\ pPixels = [b \in Buffers |-> 0] /\ pDrawn = 0
  /\ pChannel = <<>> /\ pJob = <<>> /\ pStep = "idle" /\ pShown = 0
  /\ pRing = 1 /\ pStaging = [s \in 1 .. RingDepth |-> 0] /\ pSignalled = {} /\ pLock = FALSE

-----------------------------------------------------------------------------
\* start: refused while a worker exists; the format of an earlier run is forgotten first.
PipeStart ==
  /\ pApp = "off"
  /\ pApp' = "portal" /\ pSize' = 0
  /\ UNCHANGED <<pLoop, pErrors, pPool, pPixels, pDrawn, pChannel, reader, importer>>

\* The portal's dialog is refused, or its stream is authorised and the thread is spawned.
PortalAnswers ==
  /\ pApp = "portal"
  /\ \/ pApp' = "failed" /\ UNCHANGED pLoop
     \/ pApp' = "running" /\ pLoop' = "running"
  /\ UNCHANGED <<pErrors, screen, pChannel, reader, importer>>

\* The loop ends with an error: the connection or the stream failed.
LoopFails ==
  /\ pLoop = "running"
  /\ pLoop' = "ended" /\ pErrors' = TRUE
  /\ UNCHANGED <<pApp, screen, pChannel, reader, importer>>

\* param_changed: another size drops the importer's images, which needs its lock, and the
\* compositor replaces the pool.
ImagesFree == ~pLock
FormatChanges(size) ==
  /\ pLoop = "running" /\ size # pSize /\ ImagesFree /\ pPool < MaxPools
  /\ pSize' = size /\ pPool' = pPool + 1
  /\ pPixels' = [b \in Buffers |-> 0]
  /\ UNCHANGED <<capture, pDrawn, pChannel, reader, importer>>

\* What a plane becomes: memory and a linear dmabuf are copied now, a tiled dmabuf is passed on
\* by its descriptor for the importer to read.
Planes == {"memory", "linear", "tiled"}
FrameOf(plane, b) ==
  [n |-> pDrawn + 1, buf |-> b, pool |-> pPool, size |-> pSize, gpu |-> plane = "tiled"]

\* A copy of a plane fails when its bytes are not all there or cannot be mapped.
MemoryUnread(plane) == plane = "memory"
LinearUnread(plane) == plane = "linear"

\* A full channel, or none, drops the new frame.
Offered(frame) == IF pChannel = <<>> /\ pApp = "running" THEN <<frame>> ELSE pChannel

\* process: the compositor drew into a buffer it owns.  Nothing is taken too soon after the last
\* frame or from an empty buffer.  Then the buffer is the compositor's again.
Process(b) ==
  /\ pLoop = "running" /\ pSize # 0 /\ pDrawn < MaxDrawn
  /\ pDrawn' = pDrawn + 1
  /\ pPixels' = [pPixels EXCEPT ![b] = pDrawn + 1]
  /\ \/ UNCHANGED pChannel
     \/ \E plane \in Planes :
          \/ (MemoryUnread(plane) \/ LinearUnread(plane)) /\ UNCHANGED pChannel
          \/ pChannel' = Offered(FrameOf(plane, b))
  /\ UNCHANGED <<capture, pSize, pPool, reader, importer>>

\* next_frame: an error, or the end of the thread, before a frame.
NextFrame ==
  /\ pApp = "running" /\ pStep = "idle" /\ pJob = <<>>
  /\ \/ /\ pErrors \/ pLoop = "ended"
        /\ pErrors' = FALSE /\ pApp' = "failed"
        /\ UNCHANGED <<pChannel, reader>>
     \/ /\ ~pErrors /\ pLoop = "running" /\ pChannel # <<>>
        /\ pChannel' = <<>>
        /\ IF pChannel[1].gpu THEN pJob' = pChannel /\ UNCHANGED pShown
                              ELSE pShown' = pChannel[1].n /\ UNCHANGED pJob
        /\ UNCHANGED <<pErrors, pApp, pStep>>
  /\ UNCHANGED <<pLoop, screen, importer>>

\* run_sync takes the lock and imports the buffer behind the descriptor.  After the pool was
\* replaced the descriptor is closed, and the stream ends with the error, or its number is
\* that of another buffer.
Closed(job) == job.pool # pPool
ImportFrame ==
  /\ pJob # <<>> /\ pStep = "idle" /\ ~pLock
  /\ \/ pStep' = "importing" /\ pLock' = TRUE /\ UNCHANGED <<pJob, pApp>>
     \/ /\ Closed(pJob[1])
        /\ pJob' = <<>> /\ pApp' = "stopping" /\ UNCHANGED <<pStep, pLock>>
  /\ UNCHANGED <<pLoop, pErrors, screen, pChannel, pShown, pRing, pStaging, pSignalled>>

\* The staging buffer of the next slot, and the copy on the GPU.  A buffer that is too small
\* is replaced once the slot's fence is signalled, and the fence is reset.
Bigger(slot) == pStaging[slot] # 0 /\ pStaging[slot] < pJob[1].size
FenceSignalled(slot) == slot \in pSignalled
SubmitCopy ==
  /\ pStep = "importing"
  /\ Bigger(pRing) => FenceSignalled(pRing)
  /\ pStaging' = [pStaging EXCEPT ![pRing] = IF @ >= pJob[1].size THEN @ ELSE pJob[1].size]
  /\ pSignalled' = pSignalled \ {pRing}
  /\ pStep' = "copying"
  /\ UNCHANGED <<capture, screen, pChannel, pJob, pShown, pRing, pLock>>

\* The image the importer has for the descriptor: its cache knows a buffer by device and inode,
\* so that it is the buffer behind the descriptor's number, not the number.
BehindFd(job) == job.buf
ImageFor(job) == pPixels[BehindFd(job)]

\* The slot is left behind and the lock let go.
LeftLocked == pRing' = (pRing % RingDepth) + 1 /\ pStep' = "idle" /\ pJob' = <<>> /\ UNCHANGED pLock
SlotLeft == pRing' = (pRing % RingDepth) + 1 /\ pStep' = "idle" /\ pJob' = <<>> /\ pLock' = FALSE

\* The GPU signals the fence of the copy; the task waits for it, resets it, reads the bytes
\* and lets the lock go.
CopyDone ==
  /\ pStep = "copying"
  /\ pShown' = ImageFor(pJob[1])
  /\ SlotLeft
  /\ UNCHANGED <<capture, screen, pChannel, pStaging, pSignalled>>

\* The import or an allocation fails; the error ends the stream.
ImportFails ==
  /\ pStep = "importing" /\ (Bigger(pRing) => FenceSignalled(pRing))
  /\ pStaging' = [pStaging EXCEPT ![pRing] = IF Bigger(pRing) THEN 0 ELSE @]
  /\ SlotLeft /\ pApp' = "stopping"
  /\ UNCHANGED <<pLoop, pErrors, screen, pChannel, pShown, pSignalled>>

\* stop, or the drop of the handle: the terminate message, and the join.
PipeStop ==
  /\ pApp = "running" /\ pStep = "idle" /\ pJob = <<>>
  /\ pApp' = "stopping"
  /\ UNCHANGED <<pLoop, pErrors, screen, pChannel, reader, importer>>
PipeJoined ==
  /\ pApp = "stopping"
  /\ pApp' = "stopped" /\ pLoop' = "ended"
  /\ pSize' = 0 /\ pChannel' = <<>> /\ pErrors' = FALSE /\ pJob' = <<>>
  /\ UNCHANGED <<pPool, pPixels, pDrawn, pStep, pShown, importer>>

PipeNext ==
  \/ PipeStart \/ PortalAnswers \/ LoopFails
  \/ \E size \in 1 .. Sizes : FormatChanges(size)
  \/ \E b \in Buffers : Process(b)
  \/ NextFrame \/ ImportFrame \/ ImportFails \/ SubmitCopy \/ CopyDone
  \/ PipeStop \/ PipeJoined

\* The encoder's task and the GPU keep going.
PipeFairness == WF_pipeVars(NextFrame \/ ImportFrame \/ SubmitCopy \/ CopyDone) /\ WF_pipeVars(PipeJoined)
PipeSpec == PipeInit /\ [][PipeNext]_pipeVars /\ PipeFairness

-----------------------------------------------------------------------------
\* A readback ends: the importer recreates a staging buffer that is too small
\* (vulkan/import.rs, step 3 of its hot path).
ReadbackEnds == pJob # <<>> ~> pJob = <<>>

\* The one endless wait is for the fence of a slot whose staging buffer is to grow: run_sync
\* leaves every fence reset, and ensure_staging waits for one to be signalled.
ReadbackEndsUnlessItGrows == pJob # <<>> ~> pJob = <<>> \/ Bigger(pRing)

\* The comment on the channel, that it "ensures the encoder always sees the freshest available
\* frame" (pipewire/stream.rs:124): the frame handed out is the newest one drawn.
FreshestFrame ==
  [][pChannel # <<>> /\ pChannel' = <<>> /\ pApp' = "running" => pChannel[1].n = pDrawn]_pipeVars

=============================================================================
