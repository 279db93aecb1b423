--------------------------- MODULE ReceiverControl ---------------------------
(***************************************************************************)
(* The CASTV2 control channel of the receiver                              *)
(* (chromecast/src/receiver/control.rs): a reader task takes the sender's  *)
(* messages one at a time, answers what it can from the shared             *)
(* SessionState and queues the rest for the manager's session, which is    *)
(* the only one to empty the queue and which reports the player's state    *)
(* back over the same connection.  Reader and session share the state's    *)
(* mutex, the queue and the writer.                                        *)
(***************************************************************************)
EXTENDS Naturals, Sequences

CONSTANTS
  Talk,          \* the messages the sender uses, of those the reader knows
  CmdRoom,       \* places in the command channel (32 in the code)
  MaxTransit,    \* messages under way at once
  MaxMessages    \* messages of a behaviour

\* Mutant: a LOAD that keeps the mutex while it queues the command and builds the reply.
LoadLocked == <<"lock", "queue", "status", "send">>

\* What the reader does for each message, cut where it awaits.  "open" makes the state where there
\* is none; "lock" takes the mutex and keeps it until "unlock"; "load" and "status" take it, write
\* or read the state and let it go; "queue" awaits room; "error" queues what ends the session.
LoadScript == <<"load", "queue", "status", "send">>
Script ==
  [connect |-> <<"open">>, ping |-> <<"pong">>, getStatus |-> <<"open", "answer">>,
   launch |-> <<"lock", "queue", "unlock", "answer">>,
   appStop |-> <<"lock", "queue", "unlock", "answer">>,
   volume |-> <<"queue", "queue">>,
   load |-> LoadScript, loadPaused |-> LoadScript, badLoad |-> <<"error", "end">>,
   play |-> <<"queue", "status", "send">>, pause |-> <<"queue", "status", "send">>,
   stop |-> <<"queue", "status", "send">>, seek |-> <<"queue", "status", "send">>,
   mediaStatus |-> <<"status", "send">>, setRate |-> <<"queue">>, editTracks |-> <<"queue">>,
   eof |-> <<"end">>]

Messages == DOMAIN Script

ASSUME ControlConstants ==
  /\ Talk \subseteq Messages
  /\ CmdRoom \in Nat \ {0} /\ MaxTransit \in Nat \ {0} /\ MaxMessages \in Nat

\* The state the session reports after a command, for those it reports at all.
Reported ==
  [load |-> "PLAYING", loadPaused |-> "PAUSED", play |-> "PLAYING", pause |-> "PAUSED",
   stop |-> "IDLE"]

\* Mutant: the state is told and not recorded.
NotRecorded(cmd, before) == before
Recorded(cmd, before) == Reported[cmd]

Players == {"IDLE", "BUFFERING", "PLAYING", "PAUSED"}
None == "none"

VARIABLES
  rWire,      \* what the sender has sent and the reader has not read
  rSent,      \* messages sent so far
  rMsg,       \* the message the reader handles
  rTodo,      \* what it has left to do for it
  rOpen,      \* the reader runs
  rReply,     \* the player state in the MEDIA_STATUS it has built
  rLock,      \* the reader keeps the state's mutex
  rPlayer,    \* player_state, None before there is a SessionState
  rChan,      \* the command channel
  rSession,   \* where the session is: accept, next, work, tell, close, or stuck in its pump
  rDoing,     \* the command it works on
  rSaid,      \* the player state in the report it has built
  rPump,      \* it has a pump, of a LOAD it was done with
  rHeard,     \* the player state of the last MEDIA_STATUS written
  rRaced,     \* the last MEDIA_STATUS was built while another was built and not written
  rPinging    \* a PING of the sender's is unanswered

readVars == <<rMsg, rTodo, rOpen, rReply>>
takerVars == <<rSession, rDoing, rSaid, rPump>>
senderVars == <<rWire, rSent, rPinging>>
heardVars == <<rHeard, rRaced>>
controlVars == <<senderVars, readVars, rLock, rPlayer, rChan, takerVars, heardVars>>

ControlInit ==
  /\ rWire = <<>> /\ rSent = 0 /\ rPinging = FALSE
  /\ rMsg = None /\ rTodo = <<>> /\ rOpen = FALSE /\ rReply = None
  /\ rLock = FALSE /\ rPlayer = None /\ rChan = <<>>
  /\ rSession = "accept" /\ rDoing = None /\ rSaid = None /\ rPump = FALSE
  /\ rHeard = "IDLE" /\ rRaced = FALSE

ControlTypeOK ==
  /\ rWire \in Seq(Talk) /\ Len(rWire) <= MaxTransit /\ rSent \in 0 .. MaxMessages
  /\ rMsg \in Talk \cup {"badLoad", None} /\ (rTodo # <<>> => rMsg # None) /\ rOpen \in BOOLEAN
  /\ {rReply, rPlayer, rSaid, rHeard} \subseteq Players \cup {None}
  /\ rChan \in Seq(Talk \cup {"badLoad"}) /\ Len(rChan) <= CmdRoom
  /\ rSession \in {"accept", "next", "work", "tell", "close", "stuck"}
  /\ rDoing \in Talk \cup {"badLoad", None}
  /\ rLock => rOpen /\ rTodo # <<>>
  /\ {rRaced, rPinging, rLock, rPump} \subseteq BOOLEAN
-----------------------------------------------------------------------------
\* The sender. It pings again when the last PING is answered.
SendMessage(m) ==
  /\ rSession # "accept" /\ rSent < MaxMessages /\ Len(rWire) < MaxTransit
  /\ \A i \in DOMAIN rWire : rWire[i] # "eof"
  /\ m = "ping" => ~rPinging
  /\ rWire' = Append(rWire, m) /\ rSent' = rSent + 1 /\ rPinging' = (rPinging \/ m = "ping")
  /\ UNCHANGED <<readVars, rLock, rPlayer, rChan, takerVars, heardVars>>

-----------------------------------------------------------------------------
\* The reader.

ReadMessage ==
  /\ rOpen /\ rTodo = <<>> /\ rWire # <<>>
  /\ rMsg' = Head(rWire) /\ rTodo' = Script[Head(rWire)] /\ rWire' = Tail(rWire)
  /\ UNCHANGED <<rSent, rPinging, rOpen, rReply, rLock, rPlayer, rChan, takerVars, heardVars>>

\* The next thing to do, and whoever does it goes on.
Step(what) == rOpen /\ rTodo # <<>> /\ Head(rTodo) = what /\ rTodo' = Tail(rTodo)

Made == IF rPlayer = None THEN "IDLE" ELSE rPlayer

\* CONNECT and the receiver's GET_STATUS; Step and the mutex in one, nothing awaited between.
MakeState ==
  /\ Step("open") /\ ~rLock
  /\ rPlayer' = Made
  /\ UNCHANGED <<senderVars, rMsg, rOpen, rReply, rLock, rChan, takerVars, heardVars>>

\* LAUNCH makes the state, STOP leaves it as it is; a STOP with no state has none to guard.
KeepState ==
  /\ Step("lock") /\ ~rLock
  /\ rPlayer' = IF rMsg = "launch" THEN Made ELSE rPlayer
  /\ rLock' = TRUE
  /\ UNCHANGED <<senderVars, rMsg, rOpen, rReply, rChan, takerVars, heardVars>>

Unlock ==
  /\ Step("unlock") /\ rLock' = FALSE
  /\ UNCHANGED <<senderVars, rMsg, rOpen, rReply, rPlayer, rChan, takerVars, heardVars>>

QueueCommand ==
  /\ Step("queue") /\ Len(rChan) < CmdRoom
  /\ rChan' = Append(rChan, rMsg)
  /\ UNCHANGED <<senderVars, rMsg, rOpen, rReply, rLock, rPlayer, takerVars, heardVars>>

RecordLoad ==
  /\ Step("load") /\ ~rLock
  /\ rPlayer' = IF rMsg = "load" THEN "BUFFERING" ELSE "PAUSED"
  /\ UNCHANGED <<senderVars, rMsg, rOpen, rReply, rLock, rChan, takerVars, heardVars>>

\* Another MEDIA_STATUS is built and not yet written.
ReplyUnderWay == rReply # None
ReportUnderWay == rSession = "tell"

\* build_media_status under the mutex; without a state there is no reply.
BuildReply ==
  /\ Step("status") /\ ~rLock
  /\ rReply' = rPlayer
  /\ rRaced' = IF rPlayer = None THEN rRaced ELSE ReportUnderWay
  /\ UNCHANGED <<senderVars, rMsg, rOpen, rLock, rPlayer, rChan, takerVars, rHeard>>

\* The mutex is free by now: the session may have reported in between.
WriteReply ==
  /\ Step("send")
  /\ rHeard' = IF rReply = None THEN rHeard ELSE rReply
  /\ rReply' = None
  /\ UNCHANGED <<senderVars, rMsg, rOpen, rLock, rPlayer, rChan, takerVars, rRaced>>

\* A RECEIVER_STATUS, which tells of the application and the volume.
WriteAnswer ==
  /\ Step("answer")
  /\ UNCHANGED <<senderVars, rMsg, rOpen, rReply, rLock, rPlayer, rChan, takerVars, heardVars>>

WritePong ==
  /\ Step("pong") /\ rPinging' = FALSE
  /\ UNCHANGED <<rWire, rSent, rMsg, rOpen, rReply, rLock, rPlayer, rChan, takerVars, heardVars>>

\* A write to a connection that has gone is dispatch's error.
WriteFails ==
  /\ rOpen /\ rTodo # <<>> /\ Head(rTodo) \in {"send", "answer", "pong"}
  /\ rTodo' = Script["badLoad"] /\ rMsg' = "badLoad" /\ rReply' = None
  /\ UNCHANGED <<senderVars, rOpen, rLock, rPlayer, rChan, takerVars, heardVars>>

QueueError ==
  /\ Step("error") /\ Len(rChan) < CmdRoom
  /\ rChan' = Append(rChan, "badLoad")
  /\ UNCHANGED <<senderVars, rMsg, rOpen, rReply, rLock, rPlayer, takerVars, heardVars>>

ReaderStops ==
  /\ Step("end") /\ rOpen' = FALSE
  /\ UNCHANGED <<senderVars, rMsg, rReply, rLock, rPlayer, rChan, takerVars, heardVars>>

ReaderSteps ==
  \/ ReadMessage \/ MakeState \/ KeepState \/ Unlock \/ QueueCommand \/ RecordLoad \/ BuildReply
  \/ WriteReply \/ WriteAnswer \/ WritePong \/ QueueError \/ ReaderStops

-----------------------------------------------------------------------------
\* The manager's session, as far as it uses the channel (src/manager.rs:606-663, 1440-1610).

Accept ==
  /\ rSession = "accept" /\ rSession' = "next" /\ rOpen' = TRUE
  /\ UNCHANGED <<senderVars, rMsg, rTodo, rReply, rLock, rPlayer, rChan, rDoing, rSaid, rPump, heardVars>>

\* A LOAD, PLAY, PAUSE or STOP is worked on and reported; the others are done with.
TakeCommand ==
  /\ rSession = "next" /\ rChan # <<>>
  /\ rChan' = Tail(rChan)
  /\ LET cmd == Head(rChan)
     IN  /\ rSession' = IF cmd = "badLoad" THEN "close"
                        ELSE IF cmd \in DOMAIN Reported THEN "work" ELSE "next"
         /\ rDoing' = IF cmd \in DOMAIN Reported THEN cmd ELSE None
  /\ UNCHANGED <<senderVars, readVars, rLock, rPlayer, rSaid, rPump, heardVars>>

\* recv of a queue that is empty and whose reader has gone.
ReaderGone ==
  /\ rSession = "next" /\ rChan = <<>> /\ ~rOpen
  /\ rSession' = "close"
  /\ UNCHANGED <<senderVars, readVars, rLock, rPlayer, rChan, rDoing, rSaid, rPump, heardVars>>

\* stop_receivers, between two commands.
Cancelled ==
  /\ rSession = "next" /\ rSession' = "close"
  /\ UNCHANGED <<senderVars, readVars, rLock, rPlayer, rChan, rDoing, rSaid, rPump, heardVars>>

Loading == {"load", "loadPaused"}

LoadFails ==
  /\ rSession = "work" /\ rDoing \in Loading
  /\ rSession' = "close" /\ rDoing' = None
  /\ UNCHANGED <<senderVars, readVars, rLock, rPlayer, rChan, rSaid, rPump, heardVars>>

\* A LOAD, a STOP or the cancellation joins the pump there is, and a PLAY, a PAUSE or a SEEK waits
\* for room in its orders; neither has a timeout, and a pump whose puller does not close (CloseEnds
\* of MediaReceiver) ends neither.  The cancellation is not looked at meanwhile.
SticksInPump ==
  /\ rSession \in {"next", "work"} /\ rPump
  /\ rSession' = "stuck"
  /\ UNCHANGED <<senderVars, readVars, rLock, rPlayer, rChan, rDoing, rSaid, rPump, heardVars>>

\* report_state: records and builds under the mutex ...
ReportState ==
  /\ rSession = "work" /\ ~rLock
  /\ IF rPlayer = None
     THEN rSession' = "next" /\ UNCHANGED <<rPlayer, rSaid, rRaced>>
     ELSE /\ rPlayer' = Recorded(rDoing, rPlayer) /\ rSaid' = Reported[rDoing]
          /\ rRaced' = ReplyUnderWay
          /\ rSession' = "tell"
  /\ rDoing' = None
  /\ rPump' = (rDoing \in Loading \/ (rPump /\ rDoing # "stop"))
  /\ UNCHANGED <<senderVars, readVars, rLock, rChan, rHeard>>

\* ... and writes after it has let it go; that a write fails is no matter to the session.
WriteReport ==
  /\ rSession = "tell" /\ rSession' = "next"
  /\ rHeard' = rSaid /\ rSaid' = None
  /\ UNCHANGED <<senderVars, readVars, rLock, rPlayer, rChan, rDoing, rPump, rRaced>>

\* close: the reader is aborted and lets go of what it holds; the supervisor makes a new control.
Close ==
  /\ rSession = "close" /\ rSession' = "accept" /\ rOpen' = FALSE
  /\ rWire' = <<>> /\ rMsg' = None /\ rTodo' = <<>> /\ rReply' = None
  /\ rLock' = FALSE /\ rPlayer' = None /\ rChan' = <<>> /\ rDoing' = None /\ rSaid' = None
  /\ rPump' = FALSE /\ rHeard' = "IDLE" /\ rRaced' = FALSE /\ rPinging' = FALSE
  /\ UNCHANGED rSent

SessionSteps == TakeCommand \/ ReaderGone \/ ReportState \/ WriteReport \/ Close

ControlNext ==
  \/ \E m \in Talk : SendMessage(m)
  \/ ReaderSteps \/ WriteFails \/ SessionSteps \/ Accept \/ LoadFails \/ Cancelled
  \/ SticksInPump

\* Both tasks are run whenever they can go on.  A command is worked on for a bounded time, its
\* requests having timeouts, unless the session sticks in its pump, which no step of its ends.
ControlFairness == WF_controlVars(ReaderSteps) /\ WF_controlVars(SessionSteps)

ControlSpec == ControlInit /\ [][ControlNext]_controlVars /\ ControlFairness
-----------------------------------------------------------------------------
\* PROPERTIES

\* A receiver at rest has told the sender the state its player is in, unless the last status was
\* built while another was on its way to the writer: the mutex is let go before the writer is
\* taken, and the older of the two may be the one written last (control.rs:252-256, 581-583).
AtRest == rSession = "next" /\ rChan = <<>> /\ rOpen /\ rTodo = <<>>
OnlyRacesMislead == AtRest => rPlayer \in {rHeard, None} \/ rRaced

\* The reader awaits room in the queue with the mutex its only consumer waits for.
Embraced ==
  rLock /\ Head(rTodo) = "queue" /\ Len(rChan) = CmdRoom /\ rSession = "work"

\* "every PING gets an immediate PONG" (control.rs:15): in the end it does, or the connection is
\* closed.
PingAnswered == rPinging ~> ~rPinging

\* The session sticks in its pump, and the reader awaits room in the queue it no longer empties, or
\* has stopped at an error and the session does not get to closing the connection.
Starved ==
  /\ rSession = "stuck"
  /\ \/ ~rOpen
     \/ rTodo # <<>> /\ Head(rTodo) \in {"queue", "error"} /\ Len(rChan) = CmdRoom

\* Nothing but these two keeps a PING from its PONG: not a slow LOAD, not a full queue that is
\* emptied again, and not a stuck session as long as its queue has room.
PingAnsweredUnlessBlocked == rPinging ~> (~rPinging \/ Embraced \/ Starved)
=============================================================================
