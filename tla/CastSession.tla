---------------------------- MODULE CastSession ----------------------------
(***************************************************************************)
(* A streaming task and the Chromecast sessions it goes through: connect,  *)
(* setup_stream with the Cast Streaming OFFER and its fallback to HLS,     *)
(* streaming, the stop and the reconnect (src/src/manager.rs and           *)
(* src/crates/chromecast/src: session.rs, mirroring.rs, lib.rs, wire.rs).  *)
(*                                                                         *)
(* Every TLS connection has a number and the set of background tasks that  *)
(* were spawned for it and neither ended nor aborted (an aborted task runs *)
(* no further than its next await). A connection is the session's only     *)
(* once its connect has succeeded; until then its tasks have no owner. How *)
(* often the task reconnects is StreamSupervisor's matter.                 *)
(***************************************************************************)
EXTENDS Naturals

CONSTANT MaxConns  (* bound of the model: TLS connections that are opened  *)

ASSUME CastSessionAssumption == MaxConns \in Nat \ {0}

VARIABLES
  pc,        (* where the streaming task is suspended                       *)
  next,      (* what the task does when the stop under way is over          *)
  capable,   (* device.capabilities.supports_cast_streaming                 *)
  first,     (* no session was lost yet: this is start_stream's session     *)
  kind,      (* the protocol of the session being set up or streamed to     *)
  opened,    (* connections opened so far                                   *)
  cur,       (* the connection in use, 0 if none                            *)
  tasks,     (* the background tasks of each connection's session           *)
  alive,     (* the session's alive flag                                    *)
  ack,       (* the oneshot that carries the launched app's ids             *)
  slot,      (* answer_slot and the oneshot it arms                         *)
  reply,     (* history: the ANSWER read in time                            *)
  up,        (* the session's stream is Some                                *)
  pli,       (* keyframe_requested                                          *)
  keyframe,  (* the encoder was asked for a keyframe                        *)
  encoder,   (* the codec of the audio task's encoder                       *)
  failed     (* history: the connections whose connect did not succeed      *)

sessionVars == <<pc, next, capable, first, kind, opened, cur>>
waitVars == <<ack, slot, reply>>
mediaVars == <<up, pli, keyframe, encoder>>
vars == <<sessionVars, tasks, alive, waitVars, mediaVars, failed>>

Conns == 1 .. MaxConns
Kind == {"hls", "mirror"}

(* The read loop and the heartbeat; an HLS session's LOAD task, its server *)
(* (accept loop and segmenter) and the connection handlers that server has *)
(* spawned, taken together; a mirror session's RTCP task.                  *)
Task == {"reader", "beat", "load", "server", "handler", "rtcp"}

(* preferred_audio_codec.                                                  *)
AudioCodec(k) == IF k = "mirror" THEN "opus" ELSE "aac"

(* The task forgets its connection.                                        *)
LetGo == cur' = 0 /\ alive' = FALSE /\ ack' = "none" /\ slot' = "empty" /\ up' = FALSE

Init ==
  /\ pc = "create" /\ next = "over" /\ first = TRUE
  /\ capable \in BOOLEAN /\ kind = "hls"
  /\ opened = 0 /\ cur = 0 /\ tasks = [c \in Conns |-> {}]
  /\ alive = FALSE /\ ack = "none" /\ slot = "empty" /\ reply = "none"
  /\ up = FALSE /\ pli = FALSE /\ keyframe = TRUE /\ encoder = "none"
  /\ failed = {}

-----------------------------------------------------------------------------
(* create_session_for_device, or the HLS session of the fallback, and      *)
(* wire::connect; the read loop runs before anything is sent.              *)
Connect ==
  /\ pc \in {"create", "fallback"}
  /\ opened < MaxConns
  /\ opened' = opened + 1 /\ cur' = opened + 1
  /\ kind' = IF capable /\ pc = "create" THEN "mirror" ELSE "hls"
  /\ tasks' = [tasks EXCEPT ![opened + 1] = {"reader"}]
  /\ alive' = TRUE /\ ack' = "waiting"
  /\ keyframe' = IF pc = "create" THEN TRUE ELSE keyframe
  /\ pc' = "greet"
  /\ UNCHANGED <<next, capable, first, slot, reply, up, pli, encoder, failed>>

(* No connection, or the start is given up, cancelled or out of retries.   *)
ConnectFails ==
  /\ pc \in {"create", "fallback"}
  /\ pc' = IF first THEN "over" ELSE "create"
  /\ UNCHANGED <<next, capable, first, kind, opened, cur, tasks, alive,
                 waitVars, mediaVars, failed>>

GiveUp ==
  /\ pc = "create" /\ ~first
  /\ pc' = "over"
  /\ UNCHANGED <<next, capable, first, kind, opened, cur, tasks, alive,
                 waitVars, mediaVars, failed>>

(* CONNECT, PING, LAUNCH and GET_STATUS are sent.                          *)
Launch ==
  /\ pc = "greet"
  /\ pc' = "ack"
  /\ UNCHANGED <<next, capable, first, kind, opened, cur, tasks, alive,
                 waitVars, mediaVars, failed>>

Launched ==
  /\ pc = "ack" /\ ack = "ok"
  /\ pc' = "join"
  /\ UNCHANGED <<next, capable, first, kind, opened, cur, tasks, alive,
                 waitVars, mediaVars, failed>>

(* An early return of connect, with the read loop already running: a send  *)
(* fails or takes five seconds, the launch is refused, the read loop ends  *)
(* before the ack, or fifteen seconds pass.                                *)
HandshakeFails ==
  /\ pc \in {"greet", "join"} \/ (pc = "ack" /\ ack # "ok")
  /\ failed' = failed \cup {cur}
  /\ LetGo
  /\ pc' = IF first THEN "over" ELSE "create"
  /\ UNCHANGED <<next, capable, first, kind, opened, tasks, reply, pli,
                 keyframe, encoder>>

(* start_stream spawns the audio task for the session it set up; sessions  *)
(* made by a reconnect find that task and its encoder.                     *)
EncoderBeforeFallback(k) ==
  IF first THEN AudioCodec(IF capable THEN "mirror" ELSE "hls") ELSE encoder
EncoderFor(k) == IF first THEN AudioCodec(k) ELSE encoder

(* The app's CONNECT is sent and the heartbeat starts; connect returns. An *)
(* HLS session's setup_stream only keeps the configuration.                *)
Join ==
  /\ pc = "join"
  /\ tasks' = [tasks EXCEPT ![cur] = @ \cup {"beat"}]
  /\ \/ kind = "hls" /\ pc' = "stream" /\ encoder' = EncoderFor("hls")
     \/ kind = "mirror" /\ pc' = "setup" /\ UNCHANGED encoder
  /\ UNCHANGED <<next, capable, first, kind, opened, cur, alive, waitVars,
                 up, pli, keyframe, failed>>

-----------------------------------------------------------------------------
(* The mirror session's setup_stream: the slot is armed, then the OFFER is *)
(* sent; the ANSWER may be there before the send returns.                  *)
Offer ==
  /\ pc = "setup"
  /\ slot' = "armed" /\ reply' = "none"
  /\ pc' = "offer"
  /\ UNCHANGED <<next, capable, first, kind, opened, cur, tasks, alive, ack,
                 mediaVars, failed>>

OfferSentThenArmed ==
  /\ pc = "offer"
  /\ pc' = "answer" /\ slot' = "armed"
  /\ UNCHANGED <<next, capable, first, kind, opened, cur, tasks, alive,
                 ack, reply, mediaVars, failed>>
OfferSent ==
  /\ pc = "offer"
  /\ pc' = "answer"
  /\ UNCHANGED <<next, capable, first, kind, opened, cur, tasks, alive,
                 waitVars, mediaVars, failed>>

(* The UDP socket is bound and the RTCP task started.                      *)
Answered ==
  /\ pc = "answer" /\ slot = "ok"
  /\ tasks' = [tasks EXCEPT ![cur] = @ \cup {"rtcp"}]
  /\ up' = TRUE /\ pli' = FALSE
  /\ encoder' = EncoderFor("mirror")
  /\ pc' = "stream"
  /\ UNCHANGED <<next, capable, first, kind, opened, cur, alive, waitVars,
                 keyframe, failed>>

(* stop(): the stream's tasks are aborted, STOP and CLOSE are sent. The    *)
(* sink's Drop knows its accept loop and its segmenter, and no handler.    *)
Stopping(then) ==
  /\ tasks' = [tasks EXCEPT ![cur] = @ \ {"load", "server", "rtcp"}]
  /\ pc' = "stop" /\ next' = then
  /\ up' = FALSE

(* The ANSWER is a refusal, does not come in ten seconds, or the OFFER     *)
(* took five to send: to the fallback, these are all the same.             *)
FallBack ==
  /\ \/ pc = "offer"
     \/ pc = "answer" /\ slot \in {"armed", "refused"}
  /\ Stopping("fallback")
  /\ UNCHANGED <<capable, first, kind, opened, cur, alive, waitVars, pli,
                 keyframe, encoder, failed>>

(* Any other error of setup_stream: start_stream drops the session, and    *)
(* with it the tasks; a reconnect stops it.                                *)
SetupFails ==
  /\ pc = "offer" \/ (pc = "answer" /\ slot = "ok")
  /\ \/ /\ first
        /\ tasks' = [tasks EXCEPT ![cur] = {}]
        /\ LetGo
        /\ pc' = "over"
        /\ UNCHANGED next
     \/ /\ ~first
        /\ Stopping("create")
        /\ UNCHANGED <<cur, alive, ack, slot>>
  /\ UNCHANGED <<capable, first, kind, opened, reply, pli, keyframe, encoder,
                 failed>>

(* The read loop and the heartbeat are aborted and awaited.                *)
ReaderRemains(c) == tasks[c] \cap {"reader", "handler"}
Remaining(c) == tasks[c] \cap {"handler"}
StopEnds ==
  /\ pc = "stop"
  /\ tasks' = [tasks EXCEPT ![cur] = Remaining(cur)]
  /\ LetGo
  /\ pc' = next
  /\ first' = (first /\ next # "create")
  /\ UNCHANGED <<next, capable, kind, opened, reply, pli, keyframe, encoder,
                 failed>>

-----------------------------------------------------------------------------
Asked == pli
Survives == alive

StreamTask == IF kind = "hls" /\ keyframe /\ ~up THEN {"load", "server"} ELSE {}

SendFrame ==
  /\ pc = "stream"
  /\ keyframe' = Asked /\ pli' = FALSE
  /\ \/ /\ Survives
        /\ up' = (up \/ keyframe)
        /\ tasks' = [tasks EXCEPT ![cur] = @ \cup StreamTask]
        /\ UNCHANGED <<pc, next>>
     \/ /\ ~Survives
        /\ Stopping("create")
  /\ UNCHANGED <<capable, first, kind, opened, cur, alive, waitVars, encoder,
                 failed>>

(* Cancelled, or a frame cannot be captured, encoded or sent.              *)
LeaveStream ==
  /\ pc = "stream"
  /\ Stopping("over")
  /\ UNCHANGED <<capable, first, kind, opened, cur, alive, waitVars, pli,
                 keyframe, encoder, failed>>

(* Every two seconds.                                                      *)
KeyframeDue ==
  /\ pc = "stream" /\ ~keyframe
  /\ keyframe' = TRUE
  /\ UNCHANGED <<sessionVars, tasks, alive, waitVars, up, pli, encoder, failed>>

-----------------------------------------------------------------------------
(* The read loop of connection c ends. alive and the oneshot matter to the *)
(* session only while c is its connection; the slot is left as it is.      *)
ReaderEnds(c) ==
  /\ "reader" \in tasks[c]
  /\ tasks' = [tasks EXCEPT ![c] = @ \ {"reader"}]
  /\ \/ /\ c = cur
        /\ alive' = FALSE
        /\ ack' = IF ack = "waiting" THEN "failed" ELSE ack
     \/ /\ c # cur
        /\ UNCHANGED <<alive, ack>>
  /\ UNCHANGED <<sessionVars, slot, reply, mediaVars, failed>>

(* CLOSE, the end of the stream, a read error, or a PONG that fails; for   *)
(* an HLS session also a media error: with each the loop is over.          *)
PeerCloses(c) == ReaderEnds(c)

(* A RECEIVER_STATUS lists the app with its ids; one that does not makes   *)
(* the loop ask again.                                                     *)
AppReady ==
  /\ cur # 0 /\ "reader" \in tasks[cur]
  /\ ack = "waiting"
  /\ ack' = "ok"
  /\ UNCHANGED <<sessionVars, tasks, alive, slot, reply, mediaVars, failed>>

(* An ANSWER is read: it takes the oneshot out of the slot, if one is there*)
Answer(a) ==
  /\ pc \in {"offer", "answer"} /\ reply = "none"
  /\ "reader" \in tasks[cur]
  /\ reply' = a
  /\ slot' = IF slot = "armed" THEN a ELSE slot
  /\ UNCHANGED <<sessionVars, tasks, alive, ack, mediaVars, failed>>

(* The heartbeat ends: the session is dead, or a ping fails.               *)
HeartStops ==
  /\ cur # 0 /\ "beat" \in tasks[cur]
  /\ tasks' = [tasks EXCEPT ![cur] = @ \ {"beat"}]
  /\ UNCHANGED <<sessionVars, alive, waitVars, mediaVars, failed>>

(* The first segment is there and LOAD was sent, or it never came.         *)
LoadEnds ==
  /\ cur # 0 /\ "load" \in tasks[cur]
  /\ tasks' = [tasks EXCEPT ![cur] = @ \ {"load"}]
  /\ UNCHANGED <<sessionVars, alive, waitVars, mediaVars, failed>>

(* The accept loop takes a connection and spawns its handler, detached.    *)
HandlerStarts ==
  /\ cur # 0 /\ "server" \in tasks[cur] /\ "handler" \notin tasks[cur]
  /\ tasks' = [tasks EXCEPT ![cur] = @ \cup {"handler"}]
  /\ UNCHANGED <<sessionVars, alive, waitVars, mediaVars, failed>>

(* The last of connection c's handlers ends with its HTTP connection:      *)
(* closed, idle for thirty seconds, or after a blocking playlist reload.   *)
HandlersEnd(c) ==
  /\ "handler" \in tasks[c]
  /\ tasks' = [tasks EXCEPT ![c] = @ \ {"handler"}]
  /\ UNCHANGED <<sessionVars, alive, waitVars, mediaVars, failed>>

(* The RTCP task reads a PLI.                                              *)
PictureLost ==
  /\ cur # 0 /\ "rtcp" \in tasks[cur]
  /\ ~pli
  /\ pli' = TRUE
  /\ UNCHANGED <<sessionVars, tasks, alive, waitVars, up, keyframe, encoder,
                 failed>>

Handshake == Connect \/ ConnectFails \/ GiveUp \/ Launch \/ Launched
             \/ HandshakeFails \/ Join
Setup == Offer \/ OfferSent \/ Answered \/ FallBack \/ SetupFails
Frames == SendFrame \/ LeaveStream \/ KeyframeDue
Background ==
  \/ AppReady \/ HeartStops \/ LoadEnds \/ HandlerStarts \/ PictureLost
  \/ \E a \in {"ok", "refused"} : Answer(a)
  \/ \E c \in Conns : PeerCloses(c) \/ HandlersEnd(c)

Next == Handshake \/ Setup \/ Frames \/ StopEnds \/ Background

(* Every await of the task is bounded by a timeout, and frames are paced.  *)
Fairness ==
  /\ WF_vars(Handshake) /\ WF_vars(Setup) /\ WF_vars(StopEnds)
  /\ WF_vars(SendFrame)

Spec == Init /\ [][Next]_vars /\ Fairness

-----------------------------------------------------------------------------
(* Types of the state; the task holds a connection exactly from wire's     *)
(* connect to the end of the stop or to the failure of the handshake.      *)
TypeOK ==
  /\ pc \in {"create", "fallback", "greet", "ack", "join", "setup", "offer",
             "answer", "stream", "stop", "over"}
  /\ next \in {"create", "fallback", "over"}
  /\ capable \in BOOLEAN /\ first \in BOOLEAN /\ kind \in Kind
  /\ opened \in 0 .. MaxConns /\ cur \in 0 .. opened
  /\ tasks \in [Conns -> SUBSET Task]
  /\ alive \in BOOLEAN
  /\ ack \in {"none", "waiting", "ok", "failed"}
  /\ slot \in {"empty", "armed", "ok", "refused"}
  /\ reply \in {"none", "ok", "refused"}
  /\ up \in BOOLEAN /\ pli \in BOOLEAN /\ keyframe \in BOOLEAN
  /\ encoder \in {"none", "aac", "opus"}
  /\ failed \subseteq Conns
  /\ cur = 0 <=> pc \in {"create", "fallback", "over"}

(* Whatever path a session ends by, fallback and reconnects included, none *)
(* of its tasks is left running, except the handlers of HTTP connections   *)
(* its server had accepted, which are detached; and a connect that failed  *)
(* leaves its read loop, which nobody can abort, and nothing else.         *)
OnlyReadersAndHandlersLeak ==
  \A c \in Conns : c = cur \/ tasks[c] \subseteq {"handler"}
                   \/ (c \in failed /\ tasks[c] = {"reader"})

(* "Arm the slot BEFORE sending so we can't miss a fast ANSWER": a session *)
(* that has sent its OFFER does not fall back to HLS when the receiver has *)
(* accepted it in time, however early.                                     *)
AcceptedIsNotRefused ==
  [][pc = "answer" /\ pc' = "stop" /\ next' = "fallback" => reply # "ok"]_vars

(* Before the first reconnect the audio encoder produces what the session  *)
(* accepts, whether or not setup_stream fell back.                         *)
FirstSessionIsHeard == (pc = "stream" /\ first) => encoder = AudioCodec(kind)


(* "Codec this session expects for audio frames. The manager reads this    *)
(* after setup_stream completes (the variant may have changed due to       *)
(* fallback) and configures the audio pipeline accordingly" (core's        *)
(* session.rs): every session that streams is sent audio it accepts.       *)
EverySessionIsHeard == pc = "stream" => encoder = AudioCodec(kind)
=============================================================================
