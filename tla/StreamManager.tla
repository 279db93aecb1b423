---------------------------- MODULE StreamManager ----------------------------
(***************************************************************************)
(* The sender half of ferricast's StreamManager (src/src/manager.rs): the  *)
(* start_stream, stop_stream and shutdown calls, the streaming task each   *)
(* start_stream spawns, the active_streams map the calls and the tasks     *)
(* share, the discovery forwarder, and the bounded event channel.          *)
(*                                                                         *)
(* Every start_stream call has an identity of its own, a member of         *)
(* Streams, and so has the task it spawns; the code only knows the device. *)
(* That is what lets the module say which of two streams of one device     *)
(* a removal from the map, or a dropped cancel channel, really hits.       *)
(***************************************************************************)
EXTENDS Naturals, Sequences, FiniteSets

CONSTANTS
  Devices,       (* devices discovery may report                            *)
  Streams,       (* identities of start_stream calls, each used once        *)
  Stoppers,      (* identities of stop_stream calls, each used once         *)
  Closer,        (* the caller of shutdown(), which stops stream by stream  *)
  NoDevice,      (* the device of a call that was not made                  *)
  NoStream,      (* "no entry" in active_streams                            *)
  EventCap,      (* capacity of the event channel (256 in the code)         *)
  AllowOverlap,  (* may a client start a device whose last stream is alive? *)
  WithAudio,     (* streams whose configuration has audio                   *)
  WithServing    (* streams whose session serves HLS over HTTP              *)

ASSUME StreamManagerAssumption ==
  /\ NoDevice \notin Devices
  /\ NoStream \notin Streams
  /\ Closer \notin Stoppers
  /\ EventCap \in Nat \ {0}
  /\ AllowOverlap \in BOOLEAN

ASSUME BesideAssumption == WithAudio \subseteq Streams /\ WithServing \subseteq Streams

VARIABLES
  known,      (* self.devices                                               *)
  forward,    (* events the discovery forwarder has applied but not sent    *)
  call,       (* progress of each start_stream call                         *)
  device,     (* the device each call was made for                          *)
  task,       (* progress of each spawned streaming task                    *)
  cancelled,  (* cancel_rx.recv() would return: a message or no sender left *)
  holds,      (* resources of the stream that are open                      *)
  failed,     (* the task's fatal_error is Some                             *)
  active,     (* self.active_streams: device -> stream                      *)
  stop,       (* progress and target of each stop_stream call               *)
  shut,       (* progress of shutdown()                                     *)
  todo,       (* shutdown's snapshot of the map's keys, not yet visited     *)
  events,     (* the event channel                                          *)
  stopped,    (* history: streams some stop_stream call removed             *)
  abandoned   (* history: streams whose stop_stream hit its 5 s ceiling     *)

callVars == <<call, device>>
taskVars == <<task, failed>>
stopVars == <<stop, shut, todo, stopped, abandoned>>
vars == <<known, forward, callVars, taskVars, cancelled, holds, active,
          stopVars, events>>

Callers == Stoppers \cup {Closer}

(* What is open on behalf of a stream. Its capture and its session belong  *)
(* to the streaming task, which awaits their stop. The audio pipeline, a   *)
(* task that owns a PipeWire thread (it runs when config.audio is Some),   *)
(* and the tasks of the session's HLS server, accept loop and connection   *)
(* handlers (a Chromecast session of the HLS kind), run beside it: they    *)
(* are only aborted, or detached, and nobody waits for them.               *)
Waited == {"capture", "session"}
Resource == Waited \cup {"audio", "serving"}
EventKind == {"DeviceFound", "DeviceLost", "PairingRequired", "StreamStarted",
              "StreamReconnecting", "StreamError", "StreamStopped"}
Event == [kind : EventKind, device : Devices]

(* The awaits at which a start_stream call can be suspended.               *)
Starting == {"capturing", "connecting", "pairing", "setup"}
CallState == {"idle", "spawned", "returned", "failed"} \cup Starting

Polls == {"streaming", "backoff"}

(* A task that still serves its stream, and one that is tearing it down.   *)
Serving == {"new", "streaming", "lost", "backoff", "reconnecting"}
Ending == {"closing", "unlisting", "reporting", "leaving"}
TaskState == {"none", "done"} \cup Serving \cup Ending

StopState == {"idle", "signal", "join", "joined", "abandoned"}

Live(s) == task[s] \in Serving \cup Ending
Ended(s) == task[s] \in Ending \cup {"done"}
CallBusy(s) == call[s] \in Starting \cup {"spawned"}
StopUnsent(k) == stop[k].pc = "signal"
StopBusy(k) == stop[k].pc \in {"signal", "join"}

(* A stream is over once its call failed, or has returned and its task has *)
(* ended: the task may end before the call has inserted the map entry.     *)
Over(s) == call[s] = "failed" \/ (call[s] = "returned" /\ task[s] = "done")

RoomForOneMore == Len(events) <= EventCap
Room == Len(events) < EventCap
Send(kind, d) ==
  /\ Room
  /\ events' = Append(events, [kind |-> kind, device |-> d])

Init ==
  /\ known = {}
  /\ forward = <<>>
  /\ call = [s \in Streams |-> "idle"]
  /\ device = [s \in Streams |-> NoDevice]
  /\ task = [s \in Streams |-> "none"]
  /\ cancelled = [s \in Streams |-> FALSE]
  /\ holds = [s \in Streams |-> {}]
  /\ failed = [s \in Streams |-> FALSE]
  /\ active = [d \in Devices |-> NoStream]
  /\ stop = [k \in Callers |-> [pc |-> "idle", target |-> NoStream]]
  /\ shut = "open"
  /\ todo = {}
  /\ events = <<>>
  /\ stopped = {}
  /\ abandoned = {}

-----------------------------------------------------------------------------
(* Discovery forwarder, spawned by start_discovery: applies one protocol   *)
(* event to `devices`, then sends it on before taking the next.            *)

DeviceFound(d) ==
  /\ forward = <<>>
  /\ known' = known \cup {d}
  /\ forward' = <<[kind |-> "DeviceFound", device |-> d]>>
  /\ UNCHANGED <<callVars, taskVars, cancelled, holds, active, stopVars, events>>

DeviceLostEndsStream(d) ==
  /\ forward = <<>> /\ d \in known
  /\ known' = known \ {d}
  /\ forward' = <<[kind |-> "DeviceLost", device |-> d]>>
  /\ cancelled' = [s \in Streams |-> cancelled[s] \/ s = active[d]]
  /\ active' = [active EXCEPT ![d] = NoStream]
  /\ UNCHANGED <<callVars, taskVars, holds, stopVars, events>>

DeviceLost(d) ==
  /\ forward = <<>>
  /\ d \in known
  /\ known' = known \ {d}
  /\ forward' = <<[kind |-> "DeviceLost", device |-> d]>>
  /\ UNCHANGED <<callVars, taskVars, cancelled, holds, active, stopVars, events>>

ForwardEvent ==
  /\ forward # <<>>
  /\ Send(Head(forward).kind, Head(forward).device)
  /\ forward' = <<>>
  /\ UNCHANGED <<known, callVars, taskVars, cancelled, holds, active, stopVars>>

(* The application's receiver of the event channel.                        *)
Receive ==
  /\ events # <<>>
  /\ events' = Tail(events)
  /\ UNCHANGED <<known, forward, callVars, taskVars, cancelled, holds, active,
                 stopVars>>

-----------------------------------------------------------------------------
(* start_stream. The device is looked up once, at the start; the call then *)
(* opens the capture, waits for its first frame, connects the session      *)
(* (perhaps asking the user to pair), sets the stream up, spawns the task, *)
(* and only then inserts the map entry that owns cancel_tx.                *)

StartStream(s, d) ==
  /\ shut = "open"
  /\ call[s] = "idle"
  /\ d \in known
  /\ AllowOverlap \/ \A r \in Streams : device[r] = d => Over(r)
  /\ call' = [call EXCEPT ![s] = "capturing"]
  /\ device' = [device EXCEPT ![s] = d]
  /\ holds' = [holds EXCEPT ![s] = {"capture"}]
  /\ UNCHANGED <<known, forward, taskVars, cancelled, active, stopVars, events>>

FirstFrame(s) ==
  /\ call[s] = "capturing"
  /\ call' = [call EXCEPT ![s] = "connecting"]
  /\ holds' = [holds EXCEPT ![s] = @ \cup {"session"}]
  /\ UNCHANGED <<known, forward, device, taskVars, cancelled, active, stopVars,
                 events>>

Connected(s) ==
  /\ call[s] = "connecting"
  /\ call' = [call EXCEPT ![s] = "setup"]
  /\ UNCHANGED <<known, forward, device, taskVars, cancelled, holds, active,
                 stopVars, events>>

AskPairing(s) ==
  /\ call[s] = "connecting"
  /\ Send("PairingRequired", device[s])
  /\ call' = [call EXCEPT ![s] = "pairing"]
  /\ UNCHANGED <<known, forward, device, taskVars, cancelled, holds, active,
                 stopVars>>

Paired(s) ==
  /\ call[s] = "pairing"
  /\ call' = [call EXCEPT ![s] = "setup"]
  /\ UNCHANGED <<known, forward, device, taskVars, cancelled, holds, active,
                 stopVars, events>>

(* The audio pipeline is spawned between setup_stream and the task.        *)
SetUpAndSpawn(s) ==
  /\ call[s] = "setup"
  /\ call' = [call EXCEPT ![s] = "spawned"]
  /\ task' = [task EXCEPT ![s] = "new"]
  /\ holds' = [holds EXCEPT ![s] = @ \cup {b \in {"audio"} : s \in WithAudio}]
  /\ UNCHANGED <<known, forward, device, failed, cancelled, active, stopVars,
                 events>>

(* Any `?` before the spawn: the capture and the session are dropped.      *)
StartFails(s) ==
  /\ call[s] \in Starting
  /\ call' = [call EXCEPT ![s] = "failed"]
  /\ holds' = [holds EXCEPT ![s] = {}]
  /\ UNCHANGED <<known, forward, device, taskVars, cancelled, active, stopVars,
                 events>>

KeepSender(d) == UNCHANGED cancelled

(* Removing or overwriting an entry drops its cancel_tx, the only sender,  *)
(* so the task that entry was for sees its cancel channel closed.          *)
DropEntry(d) ==
  cancelled' = [s \in Streams |-> cancelled[s] \/ s = active[d]]

InsertEntry(s) ==
  /\ call[s] = "spawned"
  /\ call' = [call EXCEPT ![s] = "returned"]
  /\ DropEntry(device[s])
  /\ active' = [active EXCEPT ![device[s]] = s]
  /\ UNCHANGED <<known, forward, device, taskVars, holds, stopVars, events>>

-----------------------------------------------------------------------------
(* The streaming task.                                                     *)

Step(s, from, to) ==
  /\ task[s] = from
  /\ task' = [task EXCEPT ![s] = to]

AnnounceStarted(s) ==
  /\ Step(s, "new", "streaming")
  /\ Send("StreamStarted", device[s])
  /\ UNCHANGED <<known, forward, callVars, failed, cancelled, holds, active,
                 stopVars>>

(* The session reports it is not alive: it is stopped, the loop left.      *)
SessionDies(s) ==
  /\ Step(s, "streaming", "lost")
  /\ holds' = [holds EXCEPT ![s] = @ \ {"session"}]
  /\ UNCHANGED <<known, forward, callVars, failed, cancelled, active, stopVars,
                 events>>

AnnounceReconnecting(s) ==
  /\ Step(s, "lost", "backoff")
  /\ Send("StreamReconnecting", device[s])
  /\ UNCHANGED <<known, forward, callVars, failed, cancelled, holds, active,
                 stopVars>>

(* The backoff sleep ends and a session is created and being connected;    *)
(* nothing polls cancel_rx until that connect has returned.                *)
BackoffOver(s) ==
  /\ Step(s, "backoff", "reconnecting")
  /\ holds' = [holds EXCEPT ![s] = @ \cup {"session"}]
  /\ UNCHANGED <<known, forward, callVars, failed, cancelled, active, stopVars,
                 events>>

ReconnectDone(s) ==
  /\ Step(s, "reconnecting", "streaming")
  /\ UNCHANGED <<known, forward, callVars, failed, cancelled, holds, active,
                 stopVars, events>>

ReconnectFails(s) ==
  /\ Step(s, "reconnecting", "lost")
  /\ holds' = [holds EXCEPT ![s] = @ \ {"session"}]
  /\ UNCHANGED <<known, forward, callVars, failed, cancelled, active, stopVars,
                 events>>

(* break 'supervisor: on cancellation, on a capture, encoder or send error,*)
(* on giving up, on a second pairing request. The session is stopped, or   *)
(* dropped with its scope.                                                 *)
Leave(s, from, error) ==
  /\ task[s] \in from
  /\ task' = [task EXCEPT ![s] = "closing"]
  /\ failed' = [failed EXCEPT ![s] = error]
  /\ holds' = [holds EXCEPT ![s] = @ \ {"session"}]
  /\ UNCHANGED <<known, forward, callVars, cancelled, active, stopVars, events>>

SeeCancel(s) == cancelled[s] /\ Leave(s, Polls, FALSE)
Fatal(s) == Leave(s, {"streaming", "lost", "reconnecting"}, TRUE)

(* capture.stop() is awaited; the audio task is aborted, which only makes  *)
(* it end at its next await, in a step of its own.                         *)
CloseCapture(s) ==
  /\ Step(s, "closing", "unlisting")
  /\ holds' = [holds EXCEPT ![s] = @ \ Waited]
  /\ UNCHANGED <<known, forward, callVars, failed, cancelled, active, stopVars,
                 events>>

(* active_streams.remove(&did): whatever stream the device maps to by now. *)
Unlist(s) ==
  /\ Step(s, "unlisting", IF failed[s] THEN "reporting" ELSE "leaving")
  /\ DropEntry(device[s])
  /\ active' = [active EXCEPT ![device[s]] = NoStream]
  /\ UNCHANGED <<known, forward, callVars, failed, holds, stopVars, events>>

AnnounceError(s) ==
  /\ Step(s, "reporting", "leaving")
  /\ Send("StreamError", device[s])
  /\ UNCHANGED <<known, forward, callVars, failed, cancelled, holds, active,
                 stopVars>>

AnnounceStopped(s) ==
  /\ Step(s, "leaving", "done")
  /\ Send("StreamStopped", device[s])
  /\ UNCHANGED <<known, forward, callVars, failed, cancelled, holds, active,
                 stopVars>>

-----------------------------------------------------------------------------
(* The tasks nobody waits for. The first keyframe a session is sent starts *)
(* its HLS server. The accept loop ends by an error or when the abort from *)
(* the session's drop reaches it, a handler when its connection does,      *)
(* perhaps after a blocking playlist reload. The audio pipeline ends when  *)
(* it fails, or when the abort has reached it and its capture's Drop has   *)
(* joined the PipeWire thread.                                             *)

ServingStarts(s) ==
  /\ task[s] = "streaming"
  /\ s \in WithServing /\ "serving" \notin holds[s]
  /\ holds' = [holds EXCEPT ![s] = @ \cup {"serving"}]
  /\ UNCHANGED <<known, forward, callVars, taskVars, cancelled, active, stopVars,
                 events>>

AudioEnds(s) ==
  /\ "audio" \in holds[s]
  /\ holds' = [holds EXCEPT ![s] = @ \ {"audio"}]
  /\ UNCHANGED <<known, forward, callVars, taskVars, cancelled, active, stopVars,
                 events>>

ServingEnds(s) ==
  /\ "serving" \in holds[s]
  /\ holds' = [holds EXCEPT ![s] = @ \ {"serving"}]
  /\ UNCHANGED <<known, forward, callVars, taskVars, cancelled, active, stopVars,
                 events>>

-----------------------------------------------------------------------------
(* stop_stream: take the entry out, signal, wait for the task at most 5 s. *)
(* A device without an entry returns NoActiveSession and changes nothing.  *)

TakeEntry(k, d) ==
  /\ active[d] # NoStream
  /\ active' = [active EXCEPT ![d] = NoStream]
  /\ stop' = [stop EXCEPT ![k] = [pc |-> "signal", target |-> active[d]]]
  /\ stopped' = stopped \cup {active[d]}

StopStream(k, d) ==
  /\ shut = "open"
  /\ k # Closer
  /\ stop[k].pc = "idle"
  /\ TakeEntry(k, d)
  /\ UNCHANGED <<known, forward, callVars, taskVars, cancelled, holds, shut, todo,
                 events, abandoned>>

Signal(k) ==
  /\ stop[k].pc = "signal"
  /\ stop' = [stop EXCEPT ![k].pc = "join"]
  /\ cancelled' = [cancelled EXCEPT ![stop[k].target] = TRUE]
  /\ UNCHANGED <<known, forward, callVars, taskVars, holds, active, shut, todo,
                 events, stopped, abandoned>>

JoinWithoutWaiting(k) ==
  /\ stop[k].pc = "join"
  /\ stop' = [stop EXCEPT ![k].pc = "joined"]
  /\ UNCHANGED <<known, forward, callVars, taskVars, cancelled, holds, active,
                 shut, todo, events, stopped, abandoned>>

Join(k) ==
  /\ stop[k].pc = "join"
  /\ task[stop[k].target] = "done"
  /\ stop' = [stop EXCEPT ![k].pc = "joined"]
  /\ UNCHANGED <<known, forward, callVars, taskVars, cancelled, holds, active,
                 shut, todo, events, stopped, abandoned>>

(* "stream task did not finish in 5s, abandoning"                          *)
Abandon(k) ==
  /\ stop[k].pc = "join"
  /\ task[stop[k].target] # "done"
  /\ stop' = [stop EXCEPT ![k].pc = "abandoned"]
  /\ abandoned' = abandoned \cup {stop[k].target}
  /\ UNCHANGED <<known, forward, callVars, taskVars, cancelled, holds, active,
                 shut, todo, events, stopped>>

-----------------------------------------------------------------------------
(* shutdown(&mut self): no other call can be in progress, none comes after *)
(* it. It visits the keys the map had when it began.                       *)

ShutdownBegins ==
  /\ shut = "open"
  /\ \A s \in Streams : ~CallBusy(s)
  /\ \A k \in Callers : ~StopBusy(k)
  /\ shut' = "stopping"
  /\ todo' = {d \in Devices : active[d] # NoStream}
  /\ UNCHANGED <<known, forward, callVars, taskVars, cancelled, holds, active,
                 stop, events, stopped, abandoned>>

ShutdownStops(d) ==
  /\ shut = "stopping"
  /\ ~StopBusy(Closer)
  /\ d \in todo
  /\ todo' = todo \ {d}
  /\ \/ TakeEntry(Closer, d)
     \/ active[d] = NoStream /\ UNCHANGED <<active, stop, stopped>>
  /\ UNCHANGED <<known, forward, callVars, taskVars, cancelled, holds, shut,
                 events, abandoned>>

ShutdownReturns ==
  /\ shut = "stopping"
  /\ todo = {}
  /\ ~StopBusy(Closer)
  /\ shut' = "done"
  /\ UNCHANGED <<known, forward, callVars, taskVars, cancelled, holds, active,
                 stop, todo, events, stopped, abandoned>>

-----------------------------------------------------------------------------
Discovery == ForwardEvent \/ \E d \in Devices : DeviceFound(d) \/ DeviceLost(d)

StartCall(s) ==
  \/ \E d \in Devices : StartStream(s, d)
  \/ FirstFrame(s) \/ Connected(s) \/ AskPairing(s) \/ Paired(s)
  \/ SetUpAndSpawn(s) \/ StartFails(s) \/ InsertEntry(s)

TaskStep(s) ==
  \/ AnnounceStarted(s) \/ SessionDies(s) \/ AnnounceReconnecting(s)
  \/ BackoffOver(s) \/ ReconnectDone(s) \/ ReconnectFails(s)
  \/ SeeCancel(s) \/ Fatal(s) \/ CloseCapture(s) \/ Unlist(s)
  \/ AnnounceError(s) \/ AnnounceStopped(s)

StopCall(k) ==
  \/ \E d \in Devices : StopStream(k, d)
  \/ Signal(k) \/ Join(k) \/ Abandon(k)

Shutdown ==
  ShutdownBegins \/ ShutdownReturns \/ \E d \in Devices : ShutdownStops(d)

Next ==
  \/ Discovery \/ Receive \/ Shutdown
  \/ \E s \in Streams :
       StartCall(s) \/ TaskStep(s)
       \/ ServingStarts(s) \/ AudioEnds(s) \/ ServingEnds(s)
  \/ \E k \in Callers : StopCall(k)

(* tokio polls every ready task, and the connect, setup and stop calls a   *)
(* task awaits carry timeouts (chromecast/src/wire.rs, session.rs), so a   *)
(* task that is not streaming keeps moving; streaming itself may go on for *)
(* ever. The event channel queues waiting senders in order, so sends are   *)
(* strongly fair, and the application drains it. The backoff's sleep lasts *)
(* a second or more, so a cancellation that is pending when its select is  *)
(* entered, or comes while it waits, is not missed for ever: SeeCancel is  *)
(* strongly fair too.                                                      *)
Advances(s) == task[s] # "streaming" /\ TaskStep(s)

TaskSend(s) ==
  \/ AnnounceStarted(s) \/ AnnounceReconnecting(s)
  \/ AnnounceError(s) \/ AnnounceStopped(s)

Fairness ==
  /\ WF_vars(Receive)
  /\ \A s \in Streams :
       WF_vars(Advances(s)) /\ SF_vars(TaskSend(s)) /\ SF_vars(SeeCancel(s))

Spec == Init /\ [][Next]_vars /\ Fairness

-----------------------------------------------------------------------------
(* Types; the event channel never holds more than its capacity.            *)
TypeOK ==
  /\ known \subseteq Devices
  /\ forward \in Seq(Event) /\ Len(forward) <= 1
  /\ call \in [Streams -> CallState]
  /\ device \in [Streams -> Devices \cup {NoDevice}]
  /\ task \in [Streams -> TaskState]
  /\ cancelled \in [Streams -> BOOLEAN]
  /\ holds \in [Streams -> SUBSET Resource]
  /\ failed \in [Streams -> BOOLEAN]
  /\ active \in [Devices -> Streams \cup {NoStream}]
  /\ stop \in [Callers -> [pc : StopState, target : Streams \cup {NoStream}]]
  /\ shut \in {"open", "stopping", "done"}
  /\ todo \subseteq Devices
  /\ events \in Seq(Event) /\ Len(events) <= EventCap
  /\ stopped \subseteq Streams
  /\ abandoned \subseteq Streams

(* A stream that is still being served and was not told to end can be told *)
(* to: its start_stream call is about to insert the entry, or the map has  *)
(* the entry, or a stop_stream call took it and has yet to signal. So no   *)
(* stream runs on with its only cancel sender out of everybody's reach,    *)
(* however start_stream and stop_stream calls and task ends interleave.    *)
Reachable(s) ==
  \/ call[s] = "spawned"
  \/ device[s] \in Devices /\ active[device[s]] = s
  \/ \E k \in Callers : stop[k].pc = "signal" /\ stop[k].target = s

NoOrphan ==
  \A s \in Streams : task[s] \in Serving /\ ~cancelled[s] => Reachable(s)

(* stop_stream that returned without reaching its ceiling has waited for   *)
(* what the task itself stops: the task has ended and left no capture and  *)
(* no session. The tasks beside it may still run: see StopLeavesNothing.   *)
StopJoins ==
  \A k \in Callers : stop[k].pc = "joined" =>
    task[stop[k].target] = "done" /\ holds[stop[k].target] \cap Waited = {}

(* The comment inside stop_stream: the caller can rely on "stop_stream     *)
(* returned" meaning "no more PipeWire worker thread / TLS connection /    *)
(* HLS listener alive". The code does not keep it: the audio pipeline is   *)
(* aborted and not awaited, the HLS server's tasks are aborted or detached.*)
StopLeavesNothing ==
  \A k \in Callers : stop[k].pc = "joined" => holds[stop[k].target] = {}

(* When shutdown has returned, no spawned stream still holds a capture or  *)
(* a session, except one whose stop ran into the five-second ceiling (the  *)
(* comment on ActiveStream.task). Holds for clients that start a device    *)
(* only when its earlier streams are over (AllowOverlap = FALSE).          *)
ShutdownReleases ==
  shut = "done" =>
    \A s \in Streams :
      Live(s) /\ holds[s] \cap Waited # {} => s \in abandoned


-----------------------------------------------------------------------------
(* The abstract view: a stream's phase, and the streams somebody asked to  *)
(* end.                                                                    *)
PhaseOf(s) ==
  CASE task[s] \in Serving -> "serving"
    [] Ended(s) /\ failed[s] -> "failed"
    [] Ended(s) /\ ~failed[s] -> "ended"
    [] task[s] = "none" /\ call[s] \in Starting -> "opening"
    [] task[s] = "none" /\ call[s] = "failed" -> "refused"
    [] OTHER -> "idle"

Service == INSTANCE StreamService
             WITH phase <- [s \in Streams |-> PhaseOf(s)], asked <- stopped

(* start_stream, stop_stream, shutdown and the streaming tasks together    *)
(* implement StreamService, for clients that start a device only when its  *)
(* earlier streams are over (AllowOverlap = FALSE).                        *)
KeepsPromise == Service!Spec
=============================================================================
