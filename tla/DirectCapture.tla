---------------------------- MODULE DirectCapture ----------------------------
(***************************************************************************)
(* WaylandDirectCapture: a worker thread asks the compositor for one frame *)
(* at a time over zwlr_screencopy, in a dmabuf it allocated or, when the   *)
(* compositor keeps refusing those, in shared memory, and hands the result *)
(* to the stream through a channel of two.  The state the worker keeps     *)
(* about "the" frame (what was offered, whether it is ready) is one per    *)
(* worker, not one per request, and a request is never destroyed: what the *)
(* compositor says late about one frame is heard as said of the next.      *)
(***************************************************************************)
EXTENDS Naturals, Sequences

CONSTANTS MaxFrames,        \* bound: requests the worker makes
          RenderNodes       \* the render nodes of the host, as 1 .. n in the order probed

ASSUME DirectAssumption == MaxFrames \in Nat \ {0} /\ RenderNodes \in Nat

VARIABLES dApp,       \* the caller: off, starting, running, stopping, stopped, failed
          dPc,        \* the worker thread: none, setup, top, params, copy, ended
          dGpu,       \* the node the buffers are allocated on, 0 without an allocator
          dStop,      \* a stop message is in the channel
          dSized,     \* the size was sent to start()
          dFrame,     \* the request in flight
          dWire,      \* events the compositor sent and the worker did not dispatch
          dAsked,     \* what the compositor has yet to answer
          dFilled,    \* the requests the compositor wrote the pixels of
          dOffer,     \* frame_info: which buffers were offered
          dStatus,    \* FrameStatus
          dVia,       \* the transport of the request in flight
          dFails,     \* dmabuf_consecutive_failures
          dOff,       \* dmabuf_disabled
          dLate,      \* history: a copy wait was given up
          dQueue      \* the frames in the channel, with whether they were written

directVars == <<dApp, dPc, dGpu, dStop, dSized, dFrame, dWire, dAsked, dFilled,
                dOffer, dStatus, dVia, dFails, dOff, dLate, dQueue>>
dCaller == <<dApp, dStop>>
dRequest == <<dOffer, dStatus, dVia>>
dCounters == <<dFails, dOff>>
dLink == <<dFrame, dWire, dAsked, dFilled>>

ChannelCap == 2
FailureThreshold == 3

\* Type correctness of the worker, its channels and the wire.
DirectTypeOK ==
  /\ dApp \in {"off", "starting", "running", "stopping", "stopped", "failed"}
  /\ dPc \in {"none", "setup", "top", "params", "copy", "ended"}
  /\ dGpu \in 0 .. RenderNodes
  /\ dStop \in BOOLEAN /\ dSized \in BOOLEAN /\ dLate \in BOOLEAN /\ dOff \in BOOLEAN
  /\ dFrame \in 0 .. MaxFrames
  /\ \A i \in DOMAIN dWire : dWire[i] \in (1 .. MaxFrames) \X {"shm", "dmabuf", "ready", "failed", "other"}
  /\ dAsked \subseteq (1 .. MaxFrames) \X {"params", "copy"}
  /\ dFilled \subseteq 1 .. MaxFrames
  /\ dOffer \subseteq {"shm", "dmabuf"}
  /\ dStatus \in {"pending", "ready", "failed"}
  /\ dVia \in {"none", "shm", "dmabuf"}
  /\ dFails \in 0 .. MaxFrames
  /\ Len(dQueue) <= ChannelCap
  /\ \A i \in DOMAIN dQueue : dQueue[i] \in BOOLEAN

DirectInit ==
  /\ dApp = "off" /\ dPc = "none"
  /\ dGpu = 0
  /\ dStop = FALSE /\ dSized = FALSE /\ dLate = FALSE /\ dOff = FALSE
  /\ dFrame = 0 /\ dWire = <<>> /\ dAsked = {} /\ dFilled = {}
  /\ dOffer = {} /\ dStatus = "pending" /\ dVia = "none"
  /\ dFails = 0 /\ dQueue = <<>>

-----------------------------------------------------------------------------
\* The caller.

\* start with a monitor: the channels, the thread, and the wait for its size.
DirectStart ==
  /\ dApp = "off"
  /\ dApp' = "starting" /\ dPc' = "setup"
  /\ UNCHANGED <<dGpu, dStop, dSized, dLink, dRequest, dCounters, dLate, dQueue>>

\* The size came in time.
DirectStarted ==
  /\ dApp = "starting" /\ dSized
  /\ dApp' = "running"
  /\ UNCHANGED <<dPc, dGpu, dStop, dSized, dLink, dRequest, dCounters, dLate, dQueue>>

\* Five seconds without a size, or the worker hung up: start drops both its ends of the
\* channels.  A dropped stop sender is not a stop message.
DirectStartFails ==
  /\ dApp = "starting" /\ ~dSized
  /\ dApp' = "failed"
  /\ UNCHANGED <<dPc, dGpu, dStop, dSized, dLink, dRequest, dCounters, dLate, dQueue>>

\* next_frame.
DirectNextFrame ==
  /\ dApp = "running" /\ dQueue # <<>>
  /\ dQueue' = Tail(dQueue)
  /\ UNCHANGED <<dCaller, dPc, dGpu, dSized, dLink, dRequest, dCounters, dLate>>

\* stop, or the drop of the handle: the message, then the join.
DirectStop ==
  /\ dApp = "running"
  /\ dApp' = "stopping" /\ dStop' = TRUE
  /\ UNCHANGED <<dPc, dGpu, dSized, dLink, dRequest, dCounters, dLate, dQueue>>

DirectJoined ==
  /\ dApp = "stopping" /\ dPc = "ended"
  /\ dApp' = "stopped"
  /\ UNCHANGED <<dPc, dGpu, dStop, dSized, dLink, dRequest, dCounters, dLate, dQueue>>

-----------------------------------------------------------------------------
\* The worker.

\* The node the allocator opens: the compositor's device when the feedback named one that
\* can be opened, the first that can be opened otherwise, none when none can.
OpenedNode(main, openable) ==
  IF main \in openable THEN main
  ELSE IF openable = {} THEN 0
       ELSE CHOOSE n \in openable : \A m \in openable : n <= m

\* The device the compositor's dmabuf feedback names, 0 when it names none.
FeedbackDevice == 0 .. RenderNodes

\* Globals, outputs, feedback, allocator.  Anything missing ends the thread.
DirectSetup ==
  /\ dPc = "setup"
  /\ \/ \E main \in FeedbackDevice, openable \in SUBSET (1 .. RenderNodes) :
          /\ dGpu' = OpenedNode(main, openable)
          /\ dPc' = "top"
     \/ dPc' = "ended" /\ UNCHANGED dGpu
  /\ UNCHANGED <<dCaller, dSized, dLink, dRequest, dCounters, dLate, dQueue>>

\* try_recv, between two frames only.
StopSeenAtFirst == dStop /\ dFrame = 0
StopSeen == dStop

\* What is known of "the" frame is forgotten before the next one is asked for.
StatusKept == dOffer' = {} /\ dVia' = "none" /\ UNCHANGED dStatus
Forget == dOffer' = {} /\ dVia' = "none" /\ dStatus' = "pending"

\* Between frames: leave on a stop message, else reset what is known of a frame and ask for
\* the next one.
DirectTop ==
  /\ dPc = "top"
  /\ \/ /\ StopSeen
        /\ dPc' = "ended" /\ dStop' = FALSE
        /\ UNCHANGED <<dApp, dLink, dRequest>>
     \/ /\ ~StopSeen /\ dFrame < MaxFrames
        /\ dFrame' = dFrame + 1
        /\ dAsked' = dAsked \union {<<dFrame + 1, "params">>}
        /\ Forget
        /\ dPc' = "params"
        /\ UNCHANGED <<dCaller, dWire, dFilled>>
  /\ UNCHANGED <<dGpu, dSized, dCounters, dLate, dQueue>>

\* What the events of a batch leave in frame_info and status, whatever request they are of.
OfferAfter(batch) ==
  dOffer \union {batch[i][2] : i \in {j \in DOMAIN batch : batch[j][2] \in {"shm", "dmabuf"}}}
StatusAfter(batch) ==
  LET said == {i \in DOMAIN batch : batch[i][2] \in {"ready", "failed"}}
  IN  IF said = {} THEN dStatus ELSE batch[CHOOSE i \in said : \A j \in said : j <= i][2]

\* blocking_dispatch: at least one event, and whatever else has arrived.
Dispatch(k) ==
  /\ k \in 1 .. Len(dWire)
  /\ dWire' = SubSeq(dWire, k + 1, Len(dWire))
  /\ dOffer' = OfferAfter(SubSeq(dWire, 1, k))
  /\ dStatus' = StatusAfter(SubSeq(dWire, 1, k))

\* dmabuf is tried when it was offered, there is an allocator and it was not given up.
DmabufTried(offer) == "dmabuf" \in offer /\ dGpu # 0 /\ ~dOff

TakeDmabuf(offer) ==
  /\ DmabufTried(offer)
  /\ dVia' = "dmabuf" /\ dPc' = "copy"
  /\ UNCHANGED dCounters

\* Shared memory; without an offer of it there is nothing to fall back to and the worker ends.
TakeShm(offer) == dVia' = "shm" /\ dPc' = IF "shm" \in offer THEN "copy" ELSE "ended"

\* An allocation that is refused, by every format and modifier tried, counts as a failure and
\* takes shared memory for this frame.
DmabufRefused(offer) ==
  /\ DmabufTried(offer)
  /\ dFails' = dFails + 1 /\ dOff' = (dFails' >= FailureThreshold)
  /\ TakeShm(offer)

Prepare(offer) ==
  \/ TakeDmabuf(offer)
  \/ DmabufRefused(offer)
  \/ ~DmabufTried(offer) /\ TakeShm(offer) /\ UNCHANGED dCounters

\* Wait for the buffer parameters.  The wait ends with the first offer heard, not with
\* buffer_done, and not with a failed; its deadline is looked at only after a dispatch and ends
\* the worker.
DirectHearParams(k) ==
  /\ dPc = "params"
  /\ Dispatch(k)
  /\ \/ /\ dOffer' # {}
        /\ dSized' = TRUE
        /\ Prepare(dOffer')
        /\ dAsked' = IF dPc' = "copy" THEN dAsked \union {<<dFrame, "copy">>} ELSE dAsked
     \/ /\ dOffer' = {}
        /\ dPc' \in {"params", "ended"}
        /\ UNCHANGED <<dSized, dVia, dCounters, dAsked>>
  /\ UNCHANGED <<dCaller, dGpu, dFrame, dFilled, dLate, dQueue>>

\* Deliver the frame, or drop it when the consumer is two behind or gone.
DeliverAnyway ==
  dQueue' = IF dApp # "failed" THEN Append(dQueue, dFrame \in dFilled) ELSE dQueue
Deliver ==
  dQueue' = IF dApp # "failed" /\ Len(dQueue) < ChannelCap
            THEN Append(dQueue, dFrame \in dFilled) ELSE dQueue

\* A refusal or the deadline drops the frame and counts against dmabuf when that was the
\* transport.
CopyRefused ==
  /\ dStatus' # "ready"
  /\ dPc' = "top"
  /\ dLate' = (dLate \/ dStatus' = "pending")
  /\ IF dVia = "dmabuf"
     THEN dFails' = dFails + 1 /\ dOff' = (dOff \/ dFails' >= FailureThreshold)
     ELSE UNCHANGED dCounters
  /\ UNCHANGED dQueue

\* A copy done by dmabuf clears the count; it is then read back, which may fail.
ReadbackFails == dVia = "dmabuf" /\ UNCHANGED dQueue

CopyReady ==
  /\ dStatus' = "ready"
  /\ dPc' = "top"
  /\ dFails' = IF dVia = "dmabuf" THEN 0 ELSE dFails
  /\ Deliver \/ ReadbackFails
  /\ UNCHANGED <<dOff, dLate>>

\* Wait for the copy.
DirectHearCopy(k) ==
  /\ dPc = "copy"
  /\ Dispatch(k)
  /\ \/ dStatus' = "pending" /\ UNCHANGED <<dPc, dCounters, dQueue, dLate>>
     \/ CopyRefused
     \/ CopyReady
  /\ UNCHANGED <<dCaller, dGpu, dSized, dFrame, dAsked, dFilled, dVia>>

\* The connection is lost under a wait: the worker ends.
DirectLost ==
  /\ dPc \in {"params", "copy"}
  /\ dPc' = "ended"
  /\ UNCHANGED <<dCaller, dGpu, dSized, dLink, dRequest, dCounters, dLate, dQueue>>

-----------------------------------------------------------------------------
\* The compositor.

\* It offers shared memory, and a dmabuf where it has them; or it fails the frame before it has
\* described any buffer, as when the output is gone.
CompositorOffers(f) ==
  /\ <<f, "params">> \in dAsked
  /\ dAsked' = dAsked \ {<<f, "params">>}
  /\ \E said \in {<<"shm">>, <<"shm", "dmabuf">>, <<"failed">>} :
       dWire' = dWire \o [i \in DOMAIN said |-> <<f, said[i]>>]
  /\ UNCHANGED <<dCaller, dPc, dGpu, dSized, dFrame, dFilled, dRequest, dCounters, dLate, dQueue>>

\* It writes the buffer and says so, or refuses the buffer.
CompositorCopies(f) ==
  /\ <<f, "copy">> \in dAsked
  /\ dAsked' = dAsked \ {<<f, "copy">>}
  /\ \/ dFilled' = dFilled \union {f} /\ dWire' = Append(dWire, <<f, "ready">>)
     \/ dFilled' = dFilled /\ dWire' = Append(dWire, <<f, "failed">>)
  /\ UNCHANGED <<dCaller, dPc, dGpu, dSized, dFrame, dRequest, dCounters, dLate, dQueue>>

\* Something else happens to an output or to the registry while a request is in flight.
CompositorOther ==
  /\ dPc \in {"params", "copy"} /\ dWire = <<>>
  /\ dWire' = <<<<dFrame, "other">>>>
  /\ UNCHANGED <<dCaller, dPc, dGpu, dSized, dFrame, dAsked, dFilled, dRequest, dCounters, dLate, dQueue>>

DirectWorker == DirectSetup \/ DirectTop \/ \E k \in 1 .. 4 : DirectHearParams(k) \/ DirectHearCopy(k)
CompositorAnswers == \E f \in 1 .. MaxFrames : CompositorOffers(f) \/ CompositorCopies(f)

DirectNext ==
  \/ DirectStart \/ DirectStarted \/ DirectStartFails \/ DirectNextFrame \/ DirectStop \/ DirectJoined
  \/ DirectSetup \/ DirectTop \/ DirectLost
  \/ \E k \in 1 .. 4 : DirectHearParams(k) \/ DirectHearCopy(k)
  \/ \E f \in 1 .. MaxFrames : CompositorOffers(f) \/ CompositorCopies(f)
  \/ CompositorOther

\* The worker thread is scheduled, the compositor answers what it is asked, the caller joins.
DirectFairness ==
  WF_directVars(DirectWorker) /\ WF_directVars(CompositorAnswers) /\ WF_directVars(DirectJoined)

DirectSpec == DirectInit /\ [][DirectNext]_directVars /\ DirectFairness

-----------------------------------------------------------------------------
\* A frame reaches the stream unwritten only when an earlier copy had been given up: as long
\* as no wait timed out, every ready the worker believes is the one of its own request
\* (run_worker resets the status for each frame and never destroys a request).
OnlyLateCopiesLie ==
  \A i \in DOMAIN dQueue : ~dQueue[i] => dLate

\* The worker waits for the description of a frame the compositor has failed: everything it
\* asked for was answered and dispatched, and the wait does not look at the status.
WaitsInVain ==
  dPc = "params" /\ dWire = <<>> /\ <<dFrame, "params">> \notin dAsked

\* stop returns, unless the worker waits in vain: the message is seen between two frames, and
\* a compositor that answers lets the worker get there (the join blocks the caller for as long
\* as it does not).
DirectStopReturns == dApp = "stopping" ~> (dApp = "stopped" \/ WaitsInVain)

\* "compositor didn't announce buffer params within 2s" is the error the wait for them is to end
\* with: with a compositor that answers every request, the wait ends.  The code does not keep
\* it: a failed answer leaves frame_info empty and the deadline is not looked at until the next
\* event, which need not come.
ParamsWaitEnds == dPc = "params" ~> dPc # "params"
=============================================================================
