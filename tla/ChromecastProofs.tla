------------------------- MODULE ChromecastProofs -------------------------
(***************************************************************************)
(* Both ends of the Chromecast protocol: the session this program opens to *)
(* a receiver, for every number of connections, and the control channel    *)
(* of the receiver it is itself, for every set of messages, size of the    *)
(* command channel and number of commands.                                 *)
(***************************************************************************)
EXTENDS CastSession, ReceiverControl, TLAPS

(* Until connect succeeds the read loop is the only task of a connection.  *)
OnlyReader ==
  pc \in {"greet", "ack", "join"} => tasks[cur] \subseteq {"reader"}

(* Only a mirror session makes an offer.                                   *)
Offering == pc \in {"setup", "offer", "answer"} => kind = "mirror"

(* While the offer is out, the slot is armed until the ANSWER is read and  *)
(* holds that ANSWER afterwards.                                           *)
Slot ==
  pc \in {"offer", "answer"} =>
    \/ slot = "armed" /\ reply = "none"
    \/ slot = reply /\ reply # "none"

Inv ==
  /\ TypeOK /\ OnlyReader /\ Offering /\ Slot
  /\ OnlyReadersAndHandlersLeak /\ FirstSessionIsHeard

-----------------------------------------------------------------------------
(* The shape of the state, in two parts: the Boolean flags, and the rest.  *)
Flags ==
  /\ capable \in BOOLEAN /\ first \in BOOLEAN /\ alive \in BOOLEAN
  /\ up \in BOOLEAN /\ pli \in BOOLEAN /\ keyframe \in BOOLEAN

Shape ==
  /\ pc \in {"create", "fallback", "greet", "ack", "join", "setup", "offer",
             "answer", "stream", "stop", "over"}
  /\ next \in {"create", "fallback", "over"} /\ kind \in Kind
  /\ opened \in 0 .. MaxConns /\ cur \in 0 .. opened
  /\ cur = 0 <=> pc \in {"create", "fallback", "over"}
  /\ tasks \in [Conns -> SUBSET Task] /\ failed \subseteq Conns
  /\ ack \in {"none", "waiting", "ok", "failed"}
  /\ slot \in {"empty", "armed", "ok", "refused"}
  /\ reply \in {"none", "ok", "refused"}
  /\ encoder \in {"none", "aac", "opus"}

LEMMA TypeParts == TypeOK <=> Flags /\ Shape
BY DEF TypeOK, Flags, Shape

LEMMA InvInit == Init => Inv
<1> SUFFICES ASSUME Init PROVE Inv
  OBVIOUS
<1>1. Flags
  BY DEF Init, Flags
<1>2. Shape
  BY CastSessionAssumption DEF Init, Shape, Conns, Kind, Task
<1>3. OnlyReader /\ Offering /\ Slot /\ OnlyReadersAndHandlersLeak /\ FirstSessionIsHeard
  BY DEF Init, OnlyReader, Offering, Slot, OnlyReadersAndHandlersLeak,
         FirstSessionIsHeard, Conns
<1> QED
  BY <1>1, <1>2, <1>3, TypeParts DEF Inv

LEMMA FlagsStep == Flags /\ [Next]_vars => Flags'
<1> SUFFICES ASSUME Flags, [Next]_vars PROVE Flags'
  OBVIOUS
<1> USE DEF Flags, sessionVars, waitVars, mediaVars
<1>1. CASE UNCHANGED vars
  BY <1>1 DEF vars
<1>2. CASE Handshake
  BY <1>2 DEF Handshake, Connect, ConnectFails, GiveUp, Launch, Launched,
              HandshakeFails, Join, LetGo
<1>3. CASE Setup
  BY <1>3 DEF Setup, Offer, OfferSent, Answered, FallBack, SetupFails, Stopping,
              LetGo
<1>4. CASE Frames
  BY <1>4 DEF Frames, SendFrame, LeaveStream, KeyframeDue, Asked, Survives,
              Stopping
<1>5. CASE StopEnds
  BY <1>5 DEF StopEnds, LetGo
<1>6. CASE Background
  BY <1>6 DEF Background, AppReady, HeartStops, LoadEnds, HandlerStarts,
              PictureLost, Answer, PeerCloses, ReaderEnds, HandlersEnd
<1> QED
  BY <1>1, <1>2, <1>3, <1>4, <1>5, <1>6 DEF Next

LEMMA ShapeStep == Shape /\ [Next]_vars => Shape'
<1> SUFFICES ASSUME Shape, [Next]_vars PROVE Shape'
  OBVIOUS
<1> USE CastSessionAssumption DEF Shape, Conns, Kind, Task
<1>1. CASE UNCHANGED vars
  BY <1>1 DEF vars, sessionVars, waitVars, mediaVars
<1>2. CASE Connect
  BY <1>2 DEF Connect
<1>3. CASE ConnectFails \/ GiveUp \/ Launch \/ Launched
  <2>1. UNCHANGED <<next, kind, opened, cur, tasks, failed, ack, slot, reply, encoder>>
    BY <1>3 DEF ConnectFails, GiveUp, Launch, Launched, waitVars, mediaVars
  <2>2. /\ pc' \in {"create", "over", "ack", "join"}
        /\ cur = 0 <=> pc' \in {"create", "over"}
    BY <1>3 DEF ConnectFails, GiveUp, Launch, Launched
  <2> QED
    BY <2>1, <2>2
<1>4. CASE HandshakeFails
  BY <1>4 DEF HandshakeFails, LetGo
<1>5. CASE Join
  BY <1>5 DEF Join, EncoderFor, AudioCodec, waitVars
<1>6. CASE Offer \/ OfferSent
  BY <1>6, ZenonT(60) DEF Offer, OfferSent, waitVars, mediaVars
<1>7. CASE Answered
  BY <1>7 DEF Answered, EncoderFor, AudioCodec, waitVars
<1>8. CASE FallBack
  BY <1>8 DEF FallBack, Stopping, waitVars
<1>9. CASE SetupFails
  BY <1>9 DEF SetupFails, Stopping, LetGo
<1>10. CASE StopEnds
  BY <1>10 DEF StopEnds, LetGo, Remaining
<1>11. CASE SendFrame
  BY <1>11 DEF SendFrame, Asked, Survives, StreamTask, Stopping, waitVars
<1>12. CASE LeaveStream
  BY <1>12 DEF LeaveStream, Stopping, waitVars
<1>13. CASE KeyframeDue
  <2>1. UNCHANGED <<pc, next, kind, opened, cur, tasks, failed, ack, slot, reply, encoder>>
    BY <1>13 DEF KeyframeDue, sessionVars, waitVars
  <2> QED
    BY <2>1
<1>14. CASE AppReady \/ HeartStops \/ LoadEnds \/ PictureLost
  <2>1. UNCHANGED <<pc, next, kind, opened, cur, failed, slot, reply, encoder>>
    BY <1>14 DEF AppReady, HeartStops, LoadEnds, PictureLost, sessionVars,
                 waitVars, mediaVars
  <2>2. ack' \in {ack, "ok"}
    BY <1>14 DEF AppReady, HeartStops, LoadEnds, PictureLost, waitVars
  <2>3. tasks' \in [Conns -> SUBSET Task]
    BY <1>14 DEF AppReady, HeartStops, LoadEnds, PictureLost
  <2> QED
    BY <2>1, <2>2, <2>3
<1>15. ASSUME NEW a \in {"ok", "refused"}, Answer(a) PROVE Shape'
  BY <1>15 DEF Answer, sessionVars, mediaVars
<1>16. ASSUME NEW c \in Conns, PeerCloses(c) PROVE Shape'
  BY <1>16 DEF PeerCloses, ReaderEnds, sessionVars, mediaVars
<1>17. CASE HandlerStarts \/ \E c \in Conns : HandlersEnd(c)
  <2>1. tasks' \in [Conns -> SUBSET Task]
    BY <1>17 DEF HandlerStarts, HandlersEnd
  <2>2. UNCHANGED <<pc, next, kind, opened, cur, failed, ack, slot, reply, encoder>>
    BY <1>17 DEF HandlerStarts, HandlersEnd, sessionVars, waitVars, mediaVars
  <2> QED
    BY <2>1, <2>2
<1> QED
  BY <1>1, <1>2, <1>3, <1>4, <1>5, <1>6, <1>7, <1>8, <1>9, <1>10, <1>11,
     <1>12, <1>13, <1>14, <1>15, <1>16, <1>17
  DEF Next, Handshake, Setup, Frames, Background

LEMMA TypeStep == TypeOK /\ [Next]_vars => TypeOK'
BY FlagsStep, ShapeStep, TypeParts, PTL

(* What lives on which connection.                                         *)
LEMMA TasksStep ==
  TypeOK /\ OnlyReader /\ OnlyReadersAndHandlersLeak /\ [Next]_vars
    => (OnlyReader /\ OnlyReadersAndHandlersLeak)'
<1> SUFFICES ASSUME TypeOK, OnlyReader, OnlyReadersAndHandlersLeak, [Next]_vars
             PROVE  (OnlyReader /\ OnlyReadersAndHandlersLeak)'
  OBVIOUS
<1> USE CastSessionAssumption DEF TypeOK, Conns, OnlyReader, OnlyReadersAndHandlersLeak
<1>1. CASE UNCHANGED vars
  BY <1>1 DEF vars, sessionVars
<1>2. CASE Connect
  BY <1>2 DEF Connect
<1>3. CASE ConnectFails \/ GiveUp \/ Launch \/ Launched
  BY <1>3 DEF ConnectFails, GiveUp, Launch, Launched
<1>4. CASE HandshakeFails
  <2>1. cur \in Conns /\ (tasks[cur] = {} \/ tasks[cur] = {"reader"})
    BY <1>4 DEF HandshakeFails
  <2> QED
    BY <1>4, <2>1 DEF HandshakeFails, LetGo
<1>5. CASE Join
  BY <1>5 DEF Join
<1>6. CASE Offer \/ OfferSent
  BY <1>6 DEF Offer, OfferSent
<1>7. CASE Answered
  BY <1>7 DEF Answered
<1>8. CASE FallBack \/ LeaveStream
  BY <1>8 DEF FallBack, LeaveStream, Stopping
<1>9. CASE SetupFails
  BY <1>9 DEF SetupFails, Stopping, LetGo
<1>10. CASE StopEnds
  BY <1>10 DEF StopEnds, LetGo, Remaining
<1>11. CASE SendFrame
  BY <1>11 DEF SendFrame, Stopping
<1>12. CASE KeyframeDue \/ AppReady
  BY <1>12 DEF KeyframeDue, AppReady, sessionVars
<1>13. CASE HeartStops \/ LoadEnds \/ PictureLost
  BY <1>13 DEF HeartStops, LoadEnds, PictureLost, sessionVars
<1>16. CASE HandlerStarts
  BY <1>16 DEF HandlerStarts, sessionVars
<1>17. ASSUME NEW c \in Conns, HandlersEnd(c)
       PROVE  (OnlyReader /\ OnlyReadersAndHandlersLeak)'
  BY <1>17 DEF HandlersEnd, sessionVars
<1>14. ASSUME NEW a \in {"ok", "refused"}, Answer(a)
       PROVE  (OnlyReader /\ OnlyReadersAndHandlersLeak)'
  BY <1>14 DEF Answer, sessionVars
<1>15. ASSUME NEW c \in Conns, PeerCloses(c)
       PROVE  (OnlyReader /\ OnlyReadersAndHandlersLeak)'
  BY <1>15 DEF PeerCloses, ReaderEnds, sessionVars
<1> QED
  BY <1>1, <1>2, <1>3, <1>4, <1>5, <1>6, <1>7, <1>8, <1>9, <1>10, <1>11,
     <1>12, <1>13, <1>14, <1>15, <1>16, <1>17
  DEF Next, Handshake, Setup, Frames, Background

(* What the session is and what it is sent.                                *)
LEMMA MediaStep ==
  TypeOK /\ Offering /\ Slot /\ FirstSessionIsHeard /\ [Next]_vars
    => (Offering /\ Slot /\ FirstSessionIsHeard)'
<1> SUFFICES ASSUME TypeOK, Offering, Slot, FirstSessionIsHeard, [Next]_vars
             PROVE  (Offering /\ Slot /\ FirstSessionIsHeard)'
  OBVIOUS
<1> USE DEF Offering, Slot, FirstSessionIsHeard
<1>1. CASE UNCHANGED vars
  BY <1>1 DEF vars, sessionVars, waitVars, mediaVars
<1>2. CASE Connect \/ ConnectFails \/ GiveUp \/ Launch \/ Launched \/ HandshakeFails
  BY <1>2 DEF Connect, ConnectFails, GiveUp, Launch, Launched, HandshakeFails
<1>3. CASE Join
  BY <1>3 DEF Join, EncoderFor
<1>4. CASE Offer \/ OfferSent
  BY <1>4 DEF Offer, OfferSent, waitVars
<1>5. CASE Answered
  BY <1>5 DEF Answered, EncoderFor
<1>6. CASE FallBack \/ LeaveStream
  BY <1>6 DEF FallBack, LeaveStream, Stopping
<1>7. CASE SetupFails
  BY <1>7 DEF SetupFails, Stopping
<1>8. CASE StopEnds
  BY <1>8 DEF StopEnds, TypeOK
<1>9. CASE SendFrame
  BY <1>9 DEF SendFrame, Stopping
<1>10. CASE KeyframeDue \/ AppReady \/ HeartStops \/ LoadEnds \/ PictureLost
  BY <1>10 DEF KeyframeDue, AppReady, HeartStops, LoadEnds, PictureLost,
               sessionVars, waitVars, mediaVars
<1>11. ASSUME NEW a \in {"ok", "refused"}, Answer(a)
       PROVE  (Offering /\ Slot /\ FirstSessionIsHeard)'
  BY <1>11 DEF Answer, sessionVars, mediaVars
<1>12. ASSUME NEW c \in Conns, PeerCloses(c)
       PROVE  (Offering /\ Slot /\ FirstSessionIsHeard)'
  BY <1>12 DEF PeerCloses, ReaderEnds, sessionVars, mediaVars
<1>13. CASE HandlerStarts \/ \E c \in Conns : HandlersEnd(c)
  BY <1>13 DEF HandlerStarts, HandlersEnd, sessionVars, waitVars, mediaVars
<1> QED
  BY <1>1, <1>2, <1>3, <1>4, <1>5, <1>6, <1>7, <1>8, <1>9, <1>10, <1>11, <1>12,
     <1>13
  DEF Next, Handshake, Setup, Frames, Background

LEMMA InvStep == Inv /\ [Next]_vars => Inv'
BY TypeStep, TasksStep, MediaStep DEF Inv

-----------------------------------------------------------------------------
(* The state keeps its shape, and the task holds a connection exactly from *)
(* wire::connect to the end of stop or the failure of the handshake.       *)
THEOREM TypeCorrect == Spec => []TypeOK
<1>1. Spec => []Inv
  BY InvInit, InvStep, PTL DEF Spec
<1>2. Inv => TypeOK
  BY DEF Inv
<1> QED
  BY <1>1, <1>2, PTL

(* Through any number of fallbacks and reconnects, the only tasks that are *)
(* left running are the read loops of connects that failed and the         *)
(* handlers of HTTP connections the session's server had accepted.         *)
THEOREM LeavesOnlyReadersAndHandlers == Spec => []OnlyReadersAndHandlersLeak
<1>1. Spec => []Inv
  BY InvInit, InvStep, PTL DEF Spec
<1>2. Inv => OnlyReadersAndHandlersLeak
  BY DEF Inv
<1> QED
  BY <1>1, <1>2, PTL

(* The audio of the first session is what that session accepts.            *)
THEOREM FirstIsHeard == Spec => []FirstSessionIsHeard
<1>1. Spec => []Inv
  BY InvInit, InvStep, PTL DEF Spec
<1>2. Inv => FirstSessionIsHeard
  BY DEF Inv
<1> QED
  BY <1>1, <1>2, PTL

\* No step of the session refuses an OFFER that the receiver has accepted.
LEMMA AcceptedStep ==
  Inv /\ [Next]_vars => [pc = "answer" /\ pc' = "stop" /\ next' = "fallback" => reply # "ok"]_vars
<1> SUFFICES ASSUME Inv, Next, pc = "answer", pc' = "stop", next' = "fallback"
             PROVE  reply # "ok"
  OBVIOUS
<1> USE DEF Inv, Slot
<1>1. CASE Handshake
  BY <1>1 DEF Handshake, Connect, ConnectFails, GiveUp, Launch, Launched,
              HandshakeFails, Join
<1>2. CASE Setup
  BY <1>2 DEF Setup, Offer, OfferSent, Answered, FallBack, SetupFails, Stopping
<1>3. CASE Frames \/ StopEnds
  BY <1>3 DEF Frames, SendFrame, LeaveStream, KeyframeDue, StopEnds
<1>4. CASE Background
  BY <1>4 DEF Background, AppReady, HeartStops, LoadEnds, HandlerStarts,
              PictureLost, Answer, PeerCloses, ReaderEnds, HandlersEnd, sessionVars
<1> QED
  BY <1>1, <1>2, <1>3, <1>4 DEF Next

(* An offer the receiver accepted in time, at whatever moment, is not      *)
(* given up for HLS.                                                       *)
THEOREM AnswersAreNotMissed == Spec => AcceptedIsNotRefused
<1>1. Spec => []Inv
  BY InvInit, InvStep, PTL DEF Spec
<1> QED
  BY <1>1, AcceptedStep, PTL DEF Spec, AcceptedIsNotRefused

-----------------------------------------------------------------------------
\* What the reader may have left to do: the ends of the scripts.
Queueing == <<"queue", "status", "send">>
Building == <<"status", "send">>
Sending == <<"send">>
Failing == <<"error", "end">>
Ending == <<"end">>
Opening == <<"open", "answer">>
Locking == <<"lock", "queue", "unlock", "answer">>
Holding == <<"queue", "unlock", "answer">>
Unlocking == <<"unlock", "answer">>
Ends ==
  {LoadScript, Queueing, Building, Sending, Failing, Ending, Opening, Locking, Holding, Unlocking,
   <<"open">>, <<"answer">>, <<"pong">>, <<"queue", "queue">>, <<"queue">>, <<>>}

LEMMA Scripts == \A m \in Messages : Script[m] \in Ends
BY DEF Messages, Script, Ends, LoadScript, Queueing, Building, Sending, Failing, Ending, Opening,
       Locking

LEMMA NoMessageIsNone == None \notin Messages \cup {"badLoad"}
BY DEF Messages, Script, None

LEMMA ShapeOfAnEnd ==
  ASSUME NEW t \in Ends, t # <<>>
  PROVE  /\ Tail(t) \in Ends
         /\ Head(t) = "load" => Tail(t) = Queueing
         /\ Head(t) = "status" => Tail(t) = Sending
         /\ Head(t) = "send" => t = Sending /\ Tail(t) = <<>>
         /\ Head(t) = "error" => Tail(t) = Ending
         /\ Head(t) = "end" => Tail(t) = <<>>
         /\ Head(t) = "lock" => Tail(t) = Holding
         /\ t = Queueing => Tail(t) = Building /\ Head(t) = "queue"
         /\ t = Building => Head(t) = "status"
         /\ t = Sending => Head(t) = "send"
         /\ t = Failing => Head(t) = "error"
         /\ t = Ending => Head(t) = "end"
         /\ t = Holding => Head(t) = "queue" /\ Tail(t) = Unlocking
         /\ t = Unlocking => Head(t) = "unlock"
<1> USE DEF LoadScript, Queueing, Building, Sending, Failing, Ending, Opening, Locking, Holding,
            Unlocking
<1>1. CASE t = LoadScript
  BY <1>1 DEF Ends
<1>2. CASE t = Queueing
  BY <1>2 DEF Ends
<1>3. CASE t = Building
  BY <1>3 DEF Ends
<1>4. CASE t = Sending
  BY <1>4 DEF Ends
<1>5. CASE t = Failing
  BY <1>5 DEF Ends
<1>6. CASE t = Ending
  BY <1>6 DEF Ends
<1>7. CASE t = Opening
  BY <1>7 DEF Ends
<1>8. CASE t = Locking
  BY <1>8 DEF Ends
<1>9. CASE t = Holding
  BY <1>9 DEF Ends
<1>10. CASE t = Unlocking
  BY <1>10 DEF Ends
<1>11. CASE t = <<"open">>
  BY <1>11 DEF Ends
<1>12. CASE t = <<"answer">>
  BY <1>12 DEF Ends
<1>13. CASE t = <<"pong">>
  BY <1>13 DEF Ends
<1>14. CASE t = <<"queue", "queue">>
  BY <1>14 DEF Ends
<1>15. CASE t = <<"queue">>
  BY <1>15 DEF Ends
<1>16. QED
  BY <1>1, <1>2, <1>3, <1>4, <1>5, <1>6, <1>7, <1>8, <1>9, <1>10, <1>11, <1>12, <1>13, <1>14,
     <1>15 DEF Ends
-----------------------------------------------------------------------------
\* The state's mutex is kept only between its lock and its unlock.
LockInv ==
  /\ rWire \in Seq(Talk) /\ rTodo \in Ends
  /\ rLock \in BOOLEAN /\ (rLock => rOpen /\ rTodo \in {Holding, Unlocking})
  /\ rSession = "work" => rDoing \in DOMAIN Reported

ControlShape == ControlTypeOK /\ LockInv

LEMMA StepOfAnEnd ==
  ASSUME LockInv, NEW what, Step(what)
  PROVE  /\ rOpen /\ rTodo # <<>> /\ Head(rTodo) = what
         /\ rTodo' = Tail(rTodo) /\ rTodo' \in Ends
  BY ShapeOfAnEnd DEF LockInv, Step

LEMMA ShapeInductive ==
  ASSUME ControlShape, [ControlNext]_controlVars
  PROVE  ControlShape'
<1> USE ControlConstants
<1> USE DEF ControlShape, ControlTypeOK, LockInv, senderVars, readVars, takerVars, heardVars, Players, None
<1>1. ASSUME NEW m \in Talk, SendMessage(m) PROVE ControlShape'
  BY <1>1 DEF SendMessage
<1>2. CASE ReadMessage
  <2>1. /\ Head(rWire) \in Talk /\ Tail(rWire) \in Seq(Talk) /\ Len(Tail(rWire)) <= MaxTransit
        /\ Script[Head(rWire)] \in Ends
    BY <1>2, Scripts DEF ReadMessage
  <2>2. ~rLock
    BY <1>2 DEF ReadMessage, Holding, Unlocking
  <2>3. Head(rWire) # None
    BY <2>1, NoMessageIsNone
  <2>4. QED
    BY <1>2, <2>1, <2>2, <2>3 DEF ReadMessage
<1>3. CASE MakeState
  <2>1. rTodo' \in Ends /\ rTodo # <<>> /\ (rTodo' # <<>> => rMsg # None)
    BY <1>3, StepOfAnEnd DEF MakeState
  <2>2. QED
    BY <1>3, <2>1 DEF MakeState, Made
<1>4. CASE KeepState
  <2>1. rTodo' \in Ends /\ rTodo # <<>> /\ rTodo' = Holding /\ rOpen
    BY <1>4, StepOfAnEnd, ShapeOfAnEnd DEF KeepState
  <2>2. Holding # <<>>
    BY DEF Holding
  <2>3. QED
    BY <1>4, <2>1, <2>2 DEF KeepState, Made
<1>5. CASE Unlock
  <2>1. rTodo' \in Ends /\ rTodo # <<>>
    BY <1>5, StepOfAnEnd DEF Unlock
  <2>2. QED
    BY <1>5, <2>1 DEF Unlock
<1>6. CASE QueueCommand
  <2>1. /\ rTodo' \in Ends /\ rTodo # <<>> /\ Head(rTodo) = "queue" /\ rTodo' = Tail(rTodo)
    BY <1>6, StepOfAnEnd DEF QueueCommand
  <2>2. rLock => rTodo' = Unlocking
    BY <2>1, ShapeOfAnEnd
  <2>3. Unlocking # <<>>
    BY DEF Unlocking
  <2>4. rMsg \in Talk \cup {"badLoad"}
    BY <2>1
  <2>5. rChan' \in Seq(Talk \cup {"badLoad"}) /\ Len(rChan') <= CmdRoom
    BY <1>6, <2>4 DEF QueueCommand
  <2>6. UNCHANGED <<senderVars, rMsg, rOpen, rReply, rLock, rPlayer, takerVars, heardVars>>
    BY <1>6 DEF QueueCommand
  <2>7. QED
    BY <2>1, <2>2, <2>3, <2>4, <2>5, <2>6
<1>7. CASE RecordLoad
  <2>1. rTodo' \in Ends /\ rTodo # <<>>
    BY <1>7, StepOfAnEnd DEF RecordLoad
  <2>2. QED
    BY <1>7, <2>1 DEF RecordLoad
<1>8. CASE BuildReply
  <2>1. rTodo' \in Ends /\ rTodo # <<>>
    BY <1>8, StepOfAnEnd DEF BuildReply
  <2>2. QED
    BY <1>8, <2>1 DEF BuildReply, ReportUnderWay
<1>9. ASSUME WriteReply \/ WriteAnswer \/ WritePong PROVE ControlShape'
  <2>1. PICK what \in {"send", "answer", "pong"} : Step(what)
    BY <1>9 DEF WriteReply, WriteAnswer, WritePong
  <2>2. rTodo' \in Ends /\ rTodo # <<>> /\ ~rLock
    BY <2>1, StepOfAnEnd, ShapeOfAnEnd
  <2>3. CASE WriteReply
    BY <2>2, <2>3 DEF WriteReply
  <2>4. CASE WriteAnswer
    BY <2>2, <2>4 DEF WriteAnswer
  <2>5. CASE WritePong
    BY <2>2, <2>5 DEF WritePong
  <2>6. QED
    BY <1>9, <2>3, <2>4, <2>5
<1>10. CASE WriteFails
  <2>1. ~rLock
    BY <1>10, ShapeOfAnEnd DEF WriteFails
  <2>2. Script["badLoad"] \in Ends
    BY Scripts DEF Messages, Script
  <2>3. QED
    BY <1>10, <2>1, <2>2 DEF WriteFails
<1>11. CASE QueueError
  <2>1. rTodo' \in Ends /\ rTodo # <<>> /\ ~rLock
    BY <1>11, StepOfAnEnd, ShapeOfAnEnd, SMTT(60) DEF QueueError
  <2>2. QED
    BY <1>11, <2>1 DEF QueueError
<1>12. CASE ReaderStops
  <2>1. rTodo' \in Ends /\ rTodo # <<>> /\ ~rLock
    BY <1>12, StepOfAnEnd, ShapeOfAnEnd DEF ReaderStops
  <2>2. QED
    BY <1>12, <2>1 DEF ReaderStops
<1>13. CASE TakeCommand
  <2>1. /\ Head(rChan) \in Talk \cup {"badLoad"} /\ Tail(rChan) \in Seq(Talk \cup {"badLoad"})
        /\ Len(Tail(rChan)) <= CmdRoom
    BY <1>13 DEF TakeCommand
  <2>2. /\ rChan' = Tail(rChan) /\ rSession' \in {"close", "work", "next"}
        /\ rDoing' \in {Head(rChan), None}
    BY <1>13 DEF TakeCommand
  <2>3. rSession' = "work" => rDoing' \in DOMAIN Reported
    BY <1>13 DEF TakeCommand
  <2>4. QED
    BY <1>13, <2>1, <2>2, <2>3 DEF TakeCommand
<1>14. CASE ReportState
  <2>1. UNCHANGED <<senderVars, readVars, rLock, rChan, rHeard>> /\ rDoing' = None /\ rPump' \in BOOLEAN
    BY <1>14 DEF ReportState
  <2>2. Reported[rDoing] \in Players
    BY <1>14 DEF ReportState, Reported
  <2>3. CASE rPlayer = None
    BY <1>14, <2>1, <2>3 DEF ReportState
  <2>4. CASE rPlayer # None
    BY <1>14, <2>1, <2>2, <2>4 DEF ReportState, Recorded, ReplyUnderWay
  <2>5. QED
    BY <2>3, <2>4
<1>15. CASE WriteReport
  BY <1>15 DEF WriteReport
<1>16. CASE Close
  <2>1. <<>> \in Ends /\ <<>> \in Seq(Talk) /\ <<>> \in Seq(Talk \cup {"badLoad"})
        /\ Len(<<>>) = 0
    BY DEF Ends
  <2>2. /\ rWire' = <<>> /\ rTodo' = <<>> /\ rChan' = <<>> /\ UNCHANGED rSent
        /\ rMsg' = None /\ rReply' = None /\ rLock' = FALSE /\ rPlayer' = None
        /\ rDoing' = None /\ rSaid' = None /\ rHeard' = "IDLE" /\ rRaced' = FALSE
        /\ rPinging' = FALSE /\ rOpen' = FALSE /\ rSession' = "accept" /\ rPump' = FALSE
    BY <1>16 DEF Close
  <2>3. LockInv'
    BY <2>1, <2>2
  <2>4. /\ rWire' \in Seq(Talk) /\ Len(rWire') <= MaxTransit
        /\ rChan' \in Seq(Talk \cup {"badLoad"}) /\ Len(rChan') <= CmdRoom
    BY <2>1, <2>2
  <2>5. QED
    BY <2>2, <2>3, <2>4
<1>17. CASE Accept
  BY <1>17 DEF Accept
<1>18. ASSUME ReaderGone \/ LoadFails \/ Cancelled \/ SticksInPump PROVE ControlShape'
  BY <1>18 DEF ReaderGone, LoadFails, Cancelled, SticksInPump
<1>19. CASE UNCHANGED controlVars
  BY <1>19 DEF controlVars
<1>20. QED
  BY <1>1, <1>2, <1>3, <1>4, <1>5, <1>6, <1>7, <1>8, <1>9, <1>10, <1>11, <1>12, <1>13, <1>14, <1>15,
     <1>16, <1>17, <1>18, <1>19 DEF ControlNext, ReaderSteps, SessionSteps

-----------------------------------------------------------------------------
\* The same walk through the scripts, told by what a MEDIA_STATUS still has to come out of it.
Coming(t) == t \in {Queueing, Building}
Broken(t) == t \in {Failing, Ending}

LEMMA StagesOfAnEnd ==
  ASSUME NEW t \in Ends, t # <<>>
  PROVE  /\ Head(t) \in {"open", "lock", "unlock", "answer", "pong", "queue"} =>
              /\ t # Sending /\ Tail(t) # Sending
              /\ (Coming(t) <=> Coming(Tail(t))) /\ (Broken(t) <=> Broken(Tail(t)))
         /\ Head(t) = "load" => t # Sending /\ Coming(Tail(t)) /\ Tail(t) # Sending
         /\ Head(t) = "status" =>
              t # Sending /\ Tail(t) = Sending /\ ~Coming(Tail(t)) /\ ~Broken(Tail(t))
         /\ Head(t) = "send" =>
              /\ t = Sending /\ ~Coming(t) /\ ~Broken(t)
              /\ ~Coming(Tail(t)) /\ ~Broken(Tail(t)) /\ Tail(t) # Sending
         /\ Head(t) = "error" => t # Sending /\ Tail(t) # Sending /\ Broken(t) /\ Broken(Tail(t))
         /\ Head(t) = "end" => t # Sending /\ Tail(t) # Sending
<1> USE DEF LoadScript, Queueing, Building, Sending, Failing, Ending, Opening, Locking, Holding,
            Unlocking, Coming, Broken
<1>1. CASE t = LoadScript
  BY <1>1 DEF Ends
<1>2. CASE t = Queueing
  BY <1>2 DEF Ends
<1>3. CASE t = Building
  BY <1>3 DEF Ends
<1>4. CASE t = Sending
  BY <1>4 DEF Ends
<1>5. CASE t = Failing
  BY <1>5 DEF Ends
<1>6. CASE t = Ending
  BY <1>6 DEF Ends
<1>7. CASE t = Opening
  BY <1>7 DEF Ends
<1>8. CASE t = Locking
  BY <1>8 DEF Ends
<1>9. CASE t = Holding
  BY <1>9 DEF Ends
<1>10. CASE t = Unlocking
  BY <1>10 DEF Ends
<1>11. CASE t = <<"open">>
  BY <1>11 DEF Ends
<1>12. CASE t = <<"answer">>
  BY <1>12 DEF Ends
<1>13. CASE t = <<"pong">>
  BY <1>13 DEF Ends
<1>14. CASE t = <<"queue", "queue">>
  BY <1>14 DEF Ends
<1>15. CASE t = <<"queue">>
  BY <1>15 DEF Ends
<1>16. QED
  BY <1>1, <1>2, <1>3, <1>4, <1>5, <1>6, <1>7, <1>8, <1>9, <1>10, <1>11, <1>12, <1>13, <1>14,
     <1>15 DEF Ends

LEMMA NothingBegun ==
  ~Coming(<<>>) /\ ~Broken(<<>>) /\ <<>> # Sending /\ Broken(Script["badLoad"])
  /\ Script["badLoad"] # Sending
BY DEF Coming, Broken, Queueing, Building, Sending, Failing, Ending, Script

\* Before there is a connection there is no reader, and before there is a state nothing is told.
StateInv ==
  /\ rPlayer = None => rHeard = "IDLE" /\ rReply = None /\ rSession # "tell"
  /\ rSession = "accept" => rPlayer = None /\ ~rOpen

\* A reply that is built waits to be sent, and tells the state there is unless a report crossed it.
ReplyInv ==
  /\ rReply # None => rTodo = Sending
  /\ rReply # None /\ rSession = "tell" => rRaced
  /\ rReply # None /\ ~rRaced => rReply = rPlayer

\* So does a report, unless a LOAD has changed the state since, and its reply is still to come;
\* and with neither of the two under way the last one written tells the state there is.
HeardInv ==
  /\ rSession = "tell" /\ ~rRaced =>
       rSaid = rPlayer \/ Coming(rTodo) \/ Broken(rTodo) \/ ~rOpen
  /\ ~rRaced /\ rReply = None /\ rSession # "tell" /\ ~Coming(rTodo) /\ ~Broken(rTodo) /\ rOpen =>
       rPlayer \in {rHeard, None}

TellInv == StateInv /\ ReplyInv /\ HeardInv

LEMMA TellInductive ==
  ASSUME ControlShape, TellInv, [ControlNext]_controlVars
  PROVE  TellInv'
<1> USE DEF TellInv, StateInv, ReplyInv, HeardInv, senderVars, readVars, takerVars, heardVars
<1>0. /\ rTodo \in Ends /\ rOpen \in BOOLEAN /\ rRaced \in BOOLEAN
      /\ None \notin Players /\ "IDLE" \in Players
  BY DEF ControlShape, LockInv, ControlTypeOK, None, Players
<1>1. ASSUME NEW m \in Talk, SendMessage(m) PROVE TellInv'
  BY <1>1 DEF SendMessage
<1>2. CASE ReadMessage
  BY <1>2, NothingBegun DEF ReadMessage
<1>3. CASE MakeState
  <2>1. /\ rTodo # Sending /\ rTodo' # Sending /\ rOpen
        /\ (Coming(rTodo) <=> Coming(rTodo')) /\ (Broken(rTodo) <=> Broken(rTodo'))
    BY <1>0, <1>3, StagesOfAnEnd DEF MakeState, Step
  <2>2. QED
    BY <1>0, <1>3, <2>1 DEF MakeState, Made
<1>4. CASE KeepState
  <2>1. /\ rTodo # Sending /\ rTodo' # Sending /\ rOpen
        /\ (Coming(rTodo) <=> Coming(rTodo')) /\ (Broken(rTodo) <=> Broken(rTodo'))
    BY <1>0, <1>4, StagesOfAnEnd DEF KeepState, Step
  <2>2. QED
    BY <1>0, <1>4, <2>1 DEF KeepState, Made
<1>5. ASSUME Unlock \/ QueueCommand \/ WriteAnswer \/ WritePong PROVE TellInv'
  <2>1. PICK what \in {"unlock", "queue", "answer", "pong"} : Step(what)
    BY <1>5 DEF Unlock, QueueCommand, WriteAnswer, WritePong
  <2>2. /\ rTodo # Sending /\ rTodo' # Sending /\ rOpen
        /\ (Coming(rTodo) <=> Coming(rTodo')) /\ (Broken(rTodo) <=> Broken(rTodo'))
    BY <1>0, <2>1, StagesOfAnEnd DEF Step
  <2>3. UNCHANGED <<rOpen, rReply, rPlayer, rSession, rSaid, rHeard, rRaced>>
    BY <1>5 DEF Unlock, QueueCommand, WriteAnswer, WritePong
  <2>4. QED
    BY <2>2, <2>3
<1>6. CASE RecordLoad
  <2>1. rTodo # Sending /\ rTodo' # Sending /\ Coming(rTodo')
    BY <1>0, <1>6, StagesOfAnEnd DEF RecordLoad, Step
  <2>2. rPlayer' # None /\ rReply = None /\ rSession # "accept"
    BY <1>6, <2>1 DEF RecordLoad, None, Step
  <2>3. QED
    BY <1>6, <2>1, <2>2 DEF RecordLoad
<1>7. CASE BuildReply
  <2>1. rTodo # Sending /\ rTodo' = Sending /\ ~Coming(rTodo') /\ ~Broken(rTodo') /\ rOpen
    BY <1>0, <1>7, StagesOfAnEnd DEF BuildReply, Step
  <2>2. QED
    BY <1>0, <1>7, <2>1 DEF BuildReply, ReportUnderWay
<1>8. CASE WriteReply
  <2>1. /\ rTodo = Sending /\ ~Coming(rTodo) /\ ~Broken(rTodo) /\ rOpen
        /\ ~Coming(rTodo') /\ ~Broken(rTodo') /\ rTodo' # Sending
    BY <1>0, <1>8, StagesOfAnEnd DEF WriteReply, Step
  <2>2. QED
    BY <1>0, <1>8, <2>1 DEF WriteReply
<1>9. CASE WriteFails
  BY <1>9, NothingBegun DEF WriteFails
<1>10. CASE QueueError
  <2>1. rTodo # Sending /\ rTodo' # Sending /\ Broken(rTodo) /\ Broken(rTodo')
    BY <1>0, <1>10, StagesOfAnEnd DEF QueueError, Step
  <2>2. QED
    BY <1>10, <2>1 DEF QueueError
<1>11. CASE ReaderStops
  <2>1. rTodo # Sending /\ rTodo' # Sending
    BY <1>0, <1>11, StagesOfAnEnd DEF ReaderStops, Step
  <2>2. QED
    BY <1>11, <2>1 DEF ReaderStops
<1>12. CASE TakeCommand
  BY <1>12 DEF TakeCommand
<1>13. CASE ReportState
  <2>1. CASE rPlayer = None
    BY <1>13, <2>1 DEF ReportState
  <2>2. CASE rPlayer # None
    <3>1. /\ rPlayer' = Reported[rDoing] /\ rSaid' = Reported[rDoing]
          /\ rRaced' = ReplyUnderWay /\ rSession' = "tell"
          /\ UNCHANGED <<readVars, rHeard>>
      BY <1>13, <2>2 DEF ReportState, Recorded
    <3>2. Reported[rDoing] # None
      BY <1>13 DEF ControlShape, LockInv, ReportState, Reported, None
    <3>3. QED
      BY <3>1, <3>2 DEF ReplyUnderWay
  <2>3. QED
    BY <2>1, <2>2
<1>14. CASE WriteReport
  BY <1>0, <1>14 DEF WriteReport
<1>15. CASE Close
  BY <1>15, NothingBegun DEF Close
<1>16. CASE Accept
  BY <1>16 DEF Accept
<1>17. ASSUME ReaderGone \/ LoadFails \/ Cancelled \/ SticksInPump PROVE TellInv'
  BY <1>17 DEF ReaderGone, LoadFails, Cancelled, SticksInPump
<1>18. CASE UNCHANGED controlVars
  BY <1>18 DEF controlVars
<1>19. QED
  BY <1>1, <1>2, <1>3, <1>4, <1>5, <1>6, <1>7, <1>8, <1>9, <1>10, <1>11, <1>12, <1>13, <1>14, <1>15,
     <1>16, <1>17, <1>18 DEF ControlNext, ReaderSteps, SessionSteps

-----------------------------------------------------------------------------
LEMMA ControlStarts ==
  ControlInit => ControlShape /\ TellInv
<1> SUFFICES ASSUME ControlInit PROVE ControlShape /\ TellInv
  OBVIOUS
<1>1. ControlShape
  <2>1. <<>> \in Ends /\ <<>> \in Seq(Talk) /\ <<>> \in Seq(Talk \cup {"badLoad"})
        /\ Len(<<>>) = 0
    BY DEF Ends
  <2>2. /\ rWire \in Seq(Talk) /\ Len(rWire) <= MaxTransit /\ rTodo \in Ends
        /\ rChan \in Seq(Talk \cup {"badLoad"}) /\ Len(rChan) <= CmdRoom /\ rSent \in 0 .. MaxMessages
    BY <2>1, ControlConstants DEF ControlInit
  <2>3. QED
    BY <2>2 DEF ControlInit, ControlShape, ControlTypeOK, LockInv, Players, None
<1>2. TellInv
  BY NothingBegun DEF ControlInit, TellInv, StateInv, ReplyInv, HeardInv, None
<1>3. QED
  BY <1>1, <1>2

\* Type correctness of the control channel: the queue keeps its bound and the mutex is kept only by
\* a reader that has something left to do (control.rs:163-260).
THEOREM ControlTypes == ControlSpec => []ControlTypeOK
<1>1. ControlInit => ControlShape
  BY ControlStarts
<1>2. ControlShape /\ [ControlNext]_controlVars => ControlShape'
  BY ShapeInductive
<1>3. ControlShape => ControlTypeOK
  BY DEF ControlShape
<1>4. QED
  BY <1>1, <1>2, <1>3, PTL DEF ControlSpec

\* A receiver at rest has told the sender the state of its player, unless the last two statuses
\* were built and written in opposite orders (control.rs:252-256, 581-583).
THEOREM ToldUnlessRaced == ControlSpec => []OnlyRacesMislead
<1>1. ControlInit => ControlShape /\ TellInv
  BY ControlStarts
<1>2. ControlShape /\ TellInv /\ [ControlNext]_controlVars => (ControlShape /\ TellInv)'
  BY ShapeInductive, TellInductive
<1>3. ControlShape /\ TellInv => OnlyRacesMislead
  BY NothingBegun
     DEF TellInv, ReplyInv, HeardInv, OnlyRacesMislead, AtRest, ControlShape, ControlTypeOK
<1>4. QED
  BY <1>1, <1>2, <1>3, PTL DEF ControlSpec
=============================================================================
