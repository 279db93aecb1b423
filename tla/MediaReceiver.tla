---------------------------- MODULE MediaReceiver ----------------------------
(***************************************************************************)
(* The receiver half of ferricast: one accept supervisor of start_receivers*)
(* with its control sessions (run_receiver_session), the pump a LOAD starts*)
(* (run_pump, all in src/src/manager.rs), and the HLS puller with its      *)
(* worker task (src/crates/hls/src/puller/mod.rs) that feeds the pump.     *)
(*                                                                         *)
(* Every LOAD has an identity, shared by its pump, its puller and the      *)
(* puller's worker. The three are joined by bounded channels: PumpCmd from *)
(* session to pump, Cmd from puller to worker, packets the other way.      *)
(***************************************************************************)
EXTENDS Naturals, Sequences

CONSTANTS
  Loads,      (* identities of LOAD commands, each used once                *)
  Hasty,      (* may a LOAD come while a dropped session's pump still runs? *)
  NoLoad,     (* no pump                                                    *)
  PumpCap,    (* capacity of the PumpCmd channel (8 in the code)            *)
  CmdCap,     (* capacity of the puller's Cmd channel (4 in the code)       *)
  PacketCap   (* capacity of the packet channel (256 in the code)           *)

ASSUME MediaReceiverAssumption ==
  /\ NoLoad \notin Loads /\ Hasty \in BOOLEAN
  /\ PumpCap \in Nat \ {0} /\ CmdCap \in Nat \ {0} /\ PacketCap \in Nat \ {0}

VARIABLES
  session,   (* where the supervisor or its control session is suspended    *)
  job,       (* the command the session is serving                          *)
  loading,   (* the LOAD being served                                       *)
  current,   (* the load whose pump handle and pump_tx the session holds    *)
  said,      (* the last state report_state sent in this session            *)
  signal,    (* the supervisor's cancel channel                             *)
  mine,      (* history: the loads of the present, or last, session         *)
  pump,      (* progress of each load's pump                                *)
  playing,   (* the pump's `playing`; FALSE when its loop is over           *)
  orders,    (* the PumpCmd channel of each pump                            *)
  worker,    (* progress of each load's HLS worker                          *)
  info,      (* the worker's answer to open(), until open() has taken it    *)
  rx,        (* the packet receiver exists, in a puller or its pump         *)
  packets,   (* the packet channel                                          *)
  cmds,      (* the Cmd channel                                             *)
  owed       (* history: a seek taken in the refresh pause was not yet made *)

(* The load's worker has returned, and its pump has if it ever had one.    *)
Silent(l) == worker[l] = "done" /\ pump[l] \in {"none", "done"}

sessionVars == <<session, job, loading, current, said, signal, mine>>
pumpVars == <<pump, playing, orders>>
workerVars == <<worker, info, owed>>
vars == <<sessionVars, pumpVars, workerVars, rx, packets, cmds>>

Command == {"none", "load", "play", "pause", "stop", "seek", "cancel"}
PumpCmd == {"play", "pause", "stop", "seek"}
Said == {"nothing", "playing", "paused", "idle"}
SessionState == {"accept", "ready", "send", "join", "open", "quit"}
PumpState == {"none", "running", "seeking", "closing", "joining", "done"}
WorkerState == {"none", "probing", "tick", "pausing", "polling", "fetching",
                "sending", "eos", "error", "done"}

Init ==
  /\ session = "accept" /\ job = "none" /\ loading = NoLoad
  /\ current = NoLoad /\ said = "nothing"
  /\ signal = "open" /\ mine = {}
  /\ pump = [l \in Loads |-> "none"]
  /\ playing = [l \in Loads |-> FALSE]
  /\ orders = [l \in Loads |-> <<>>]
  /\ worker = [l \in Loads |-> "none"]
  /\ info = [l \in Loads |-> "none"]
  /\ rx = [l \in Loads |-> FALSE]
  /\ packets = [l \in Loads |-> <<>>]
  /\ cmds = [l \in Loads |-> <<>>]
  /\ owed = [l \in Loads |-> FALSE]

-----------------------------------------------------------------------------
(* stop_receivers: one cancel message; when its five seconds are over the  *)
(* sender is dropped with the ActiveReceiver, which closes the channel.    *)
StopReceivers ==
  /\ signal = "open"
  /\ signal' = "sent"
  /\ UNCHANGED <<session, job, loading, current, said, mine, pumpVars,
                 workerVars, rx, packets, cmds>>

StopReceiversReturns ==
  /\ signal \in {"sent", "taken"}
  /\ signal' = "closed"
  /\ UNCHANGED <<session, job, loading, current, said, mine, pumpVars,
                 workerVars, rx, packets, cmds>>

(* cancel_rx.recv() returns: a message, or the channel is closed.          *)
TakeSignal ==
  /\ signal \in {"sent", "closed"}
  /\ signal' = IF signal = "sent" THEN "taken" ELSE "closed"

-----------------------------------------------------------------------------
(* The accept supervisor.                                                  *)

Accept ==
  /\ session = "accept"
  /\ session' = "ready"
  /\ job' = "none"
  /\ mine' = {}
  /\ UNCHANGED <<loading, current, said, signal, pumpVars, workerVars, rx,
                 packets, cmds>>

(* create_control fails, or the cancel arm of the accept select.           *)
CreateControlFails ==
  /\ session = "accept"
  /\ session' = "quit"
  /\ UNCHANGED <<job, loading, current, said, signal, mine, pumpVars,
                 workerVars, rx, packets, cmds>>

CancelAccept ==
  /\ session = "accept"
  /\ TakeSignal
  /\ session' = "quit"
  /\ UNCHANGED <<job, loading, current, said, mine, pumpVars, workerVars, rx,
                 packets, cmds>>

(* The session returns Err: the pump's handle and pump_tx are dropped, and *)
(* the supervisor goes back to accept.                                     *)
ReturnErr ==
  /\ session' = "accept"
  /\ job' = "none" /\ loading' = NoLoad
  /\ current' = NoLoad
  /\ said' = "nothing" /\ mine' = {}

-----------------------------------------------------------------------------
(* run_receiver_session.                                                   *)

(* One arm of the select: a command, or the cancellation.                  *)
TakeCommand(c) ==
  /\ session = "ready"
  /\ c \in Command \ {"none", "load"}
  /\ IF c = "cancel" THEN TakeSignal ELSE UNCHANGED signal
  /\ session' = "send"
  /\ job' = c
  /\ UNCHANGED <<loading, current, said, mine, pumpVars, workerVars, rx,
                 packets, cmds>>

TakeLoad(l) ==
  /\ session = "ready"
  /\ worker[l] = "none"
  /\ Hasty \/ \A k \in Loads \ mine : worker[k] = "none" \/ Silent(k)
  /\ session' = "send"
  /\ job' = "load"
  /\ loading' = l
  /\ UNCHANGED <<current, said, signal, mine, pumpVars, workerVars, rx, packets,
                 cmds>>

ControlFails ==
  /\ session = "ready"
  /\ ReturnErr
  /\ UNCHANGED <<signal, pumpVars, workerVars, rx, packets, cmds>>

Report(c) ==
  said' = CASE c = "play" -> "playing" [] c = "pause" -> "paused"
            [] c = "stop" -> "idle" [] c = "cancel" -> "nothing"
            [] OTHER -> said

Order(c) == IF c \in {"load", "cancel"} THEN "stop" ELSE c

PumpReturned == current # NoLoad => pump[current] = "done"
PumpToldOnly == TRUE
PumpJoined == PumpReturned

(* pump_tx.send(..).await: waits for room; nothing is sent when there is   *)
(* no pump, or when the pump is past its loop's end and dropped cmd_rx.    *)
SendOrder ==
  /\ session = "send"
  /\ IF PumpReturned
       THEN UNCHANGED orders
       ELSE /\ Len(orders[current]) < PumpCap
            /\ orders' = [orders EXCEPT ![current] = Append(@, Order(job))]
  /\ IF Order(job) = "stop"
       THEN session' = "join" /\ UNCHANGED <<job, said>>
       ELSE session' = "ready" /\ job' = "none" /\ Report(job)
  /\ UNCHANGED <<loading, current, signal, mine, pump, playing, workerVars,
                 rx, packets, cmds>>

(* h.await, then what LOAD, STOP or the cancellation does next.            *)
JoinPump ==
  /\ session = "join"
  /\ PumpJoined
  /\ current' = NoLoad
  /\ Report(job)
  /\ session' = CASE job = "load" -> "open" [] job = "stop" -> "ready"
                  [] OTHER -> "accept"
  /\ job' = IF job = "stop" THEN "none" ELSE job
  /\ IF job = "load"
       THEN /\ worker' = [worker EXCEPT ![loading] = "probing"]
            /\ rx' = [rx EXCEPT ![loading] = TRUE]
            /\ mine' = mine \cup {loading}
       ELSE UNCHANGED <<worker, rx, mine>>
  /\ UNCHANGED <<loading, signal, pumpVars, info, owed, packets, cmds>>

(* open() fails, or the sink or a decoder does after it: the puller is     *)
(* dropped, the session returns Err.                                       *)
LoadFails ==
  /\ session = "open"
  /\ info[loading] # "none"
  /\ ReturnErr
  /\ rx' = [rx EXCEPT ![loading] = FALSE]
  /\ packets' = [packets EXCEPT ![loading] = <<>>]
  /\ info' = [info EXCEPT ![loading] = "none"]
  /\ UNCHANGED <<signal, pumpVars, worker, owed, cmds>>

StartPump(autoplay) ==
  /\ session = "open"
  /\ info[loading] = "ok"
  /\ session' = "ready"
  /\ job' = "none" /\ loading' = NoLoad
  /\ current' = loading
  /\ pump' = [pump EXCEPT ![loading] = "running"]
  /\ playing' = [playing EXCEPT ![loading] = autoplay]
  /\ Report(IF autoplay THEN "play" ELSE "pause")
  /\ info' = [info EXCEPT ![loading] = "none"]
  /\ UNCHANGED <<signal, mine, orders, worker, owed, rx, packets, cmds>>

-----------------------------------------------------------------------------
(* run_pump.                                                               *)

PumpGoes(l, from, to) ==
  /\ pump[l] = from
  /\ pump' = [pump EXCEPT ![l] = to]

LeaveLoop(l) ==
  /\ PumpGoes(l, "running", "closing")
  /\ playing' = [playing EXCEPT ![l] = FALSE]

AfterOrder(c) ==
  CASE c = "stop" -> "closing" [] c = "seek" -> "seeking" [] OTHER -> "running"

TakeOrder(l) ==
  /\ pump[l] = "running"
  /\ orders[l] # <<>>
  /\ orders' = [orders EXCEPT ![l] = Tail(@)]
  /\ pump' = [pump EXCEPT ![l] = AfterOrder(Head(orders[l]))]
  /\ playing' = [playing EXCEPT ![l] = CASE Head(orders[l]) = "play" -> TRUE
                    [] Head(orders[l]) = "seek" -> @ [] OTHER -> FALSE]
  /\ UNCHANGED <<sessionVars, workerVars, rx, packets, cmds>>

(* cmd_rx.recv() is None: the session dropped pump_tx.                     *)
SessionGone(l) ==
  /\ orders[l] = <<>>
  /\ current # l
  /\ LeaveLoop(l)
  /\ UNCHANGED <<sessionVars, orders, workerVars, rx, packets, cmds>>

(* puller.next(): a frame is decoded and shown; Eos or an error is told to *)
(* the application and ends the loop. (next() also says Eos for a closed   *)
(* and empty channel; LastWordHeard shows that no pump gets that far.)     *)
ErrorSkipped(p) == p # "eos"
PlaysOn(p) == p = "frame"

NextPacket(l) ==
  /\ playing[l]
  /\ packets[l] # <<>>
  /\ packets' = [packets EXCEPT ![l] = Tail(@)]
  /\ IF PlaysOn(Head(packets[l]))
       THEN PumpGoes(l, "running", "running") /\ UNCHANGED playing
       ELSE LeaveLoop(l)
  /\ UNCHANGED <<sessionVars, orders, workerVars, rx, cmds>>

(* The puller sends a Cmd: waits for room, fails if the worker is gone.    *)
Forward(l, c) ==
  IF worker[l] = "done"
    THEN UNCHANGED cmds
    ELSE /\ Len(cmds[l]) < CmdCap
         /\ cmds' = [cmds EXCEPT ![l] = Append(@, c)]

ForwardSeek(l) ==
  /\ PumpGoes(l, "seeking", "running")
  /\ Forward(l, "seek")
  /\ UNCHANGED <<sessionVars, playing, orders, workerVars, rx, packets>>

(* HlsPuller::close: Close, then the worker's task, then rx = None; the    *)
(* pump returns, and the channels are dropped with what they hold.         *)
ForwardClose(l) ==
  /\ PumpGoes(l, "closing", "joining")
  /\ Forward(l, "close")
  /\ UNCHANGED <<sessionVars, playing, orders, workerVars, rx, packets>>

WorkerJoined(l) ==
  /\ worker[l] = "done"
  /\ PumpGoes(l, "joining", "done")
  /\ rx' = [rx EXCEPT ![l] = FALSE]
  /\ orders' = [orders EXCEPT ![l] = <<>>]
  /\ packets' = [packets EXCEPT ![l] = <<>>]
  /\ cmds' = [cmds EXCEPT ![l] = <<>>]
  /\ owed' = [owed EXCEPT ![l] = FALSE]
  /\ UNCHANGED <<sessionVars, playing, worker, info>>

-----------------------------------------------------------------------------
(* run_worker, one step per await.                                         *)

WorkerGoes(l, from, to) ==
  /\ worker[l] = from
  /\ worker' = [worker EXCEPT ![l] = to]

(* Playlist, first segment and its probe: MediaInfo or an error.           *)
Probe(l, ok) ==
  /\ WorkerGoes(l, "probing", IF ok THEN "sending" ELSE "done")
  /\ info' = [info EXCEPT ![l] = IF ok THEN "ok" ELSE "err"]
  /\ UNCHANGED <<sessionVars, pumpVars, owed, rx, packets, cmds>>

(* packet_tx.send(..).await: waits for room, fails when rx is dropped.     *)
PushOneMore(l, p) ==
  /\ Len(packets[l]) <= PacketCap
  /\ packets' = [packets EXCEPT ![l] = Append(@, p)]

Push(l, p) ==
  /\ Len(packets[l]) < PacketCap
  /\ packets' = [packets EXCEPT ![l] = Append(@, p)]

(* One demuxed packet; the segment has more of them or is done.            *)
SendFrame(l, more) ==
  /\ rx[l]
  /\ Push(l, "frame")
  /\ WorkerGoes(l, "sending", IF more THEN "sending" ELSE "tick")
  /\ UNCHANGED <<sessionVars, pumpVars, info, owed, rx, cmds>>

(* A last word, Eos or the error that ended the pull, then return.         *)
SendLast(l, word) ==
  /\ rx[l]
  /\ Push(l, word)
  /\ WorkerGoes(l, word, "done")
  /\ UNCHANGED <<sessionVars, pumpVars, info, owed, rx, cmds>>

Dropped(l) ==
  /\ ~rx[l]
  /\ worker[l] \in {"sending", "eos", "error"}
  /\ worker' = [worker EXCEPT ![l] = "done"]
  /\ UNCHANGED <<sessionVars, pumpVars, info, owed, rx, packets, cmds>>

(* Where a worker that took Close in state `from` goes: it returns.        *)
CloseIgnored(from) == IF from = "pausing" THEN "polling" ELSE from
AfterClose(from) == "done"

(* cmd_rx.try_recv(): Close returns, Seek moves the cursor.                *)
DrainCmd(l) ==
  /\ worker[l] = "tick"
  /\ cmds[l] # <<>>
  /\ cmds' = [cmds EXCEPT ![l] = Tail(@)]
  /\ IF Head(cmds[l]) = "close"
       THEN worker' = [worker EXCEPT ![l] = AfterClose("tick")] /\ UNCHANGED owed
       ELSE owed' = [owed EXCEPT ![l] = FALSE] /\ UNCHANGED worker
  /\ UNCHANGED <<sessionVars, pumpVars, info, rx, packets>>

(* No command: the cursor is past a VOD's end, past a live snapshot's end, *)
(* or on a segment.                                                        *)
Continue(l, to) ==
  /\ cmds[l] = <<>>
  /\ to \in {"eos", "pausing", "fetching"}
  /\ WorkerGoes(l, "tick", to)
  /\ UNCHANGED <<sessionVars, pumpVars, info, owed, rx, packets, cmds>>

(* The live-refresh select: the pause, or one command.                     *)
PauseOver(l) ==
  /\ WorkerGoes(l, "pausing", "polling")
  /\ UNCHANGED <<sessionVars, pumpVars, info, owed, rx, packets, cmds>>

PauseCut(l) ==
  /\ worker[l] = "pausing"
  /\ cmds[l] # <<>>
  /\ cmds' = [cmds EXCEPT ![l] = Tail(@)]
  /\ IF Head(cmds[l]) = "close"
       THEN worker' = [worker EXCEPT ![l] = AfterClose("pausing")] /\ UNCHANGED owed
       ELSE /\ worker' = [worker EXCEPT ![l] = "polling"]
            /\ owed' = [owed EXCEPT ![l] = TRUE]
  /\ UNCHANGED <<sessionVars, pumpVars, info, rx, packets>>

Poll(l, ok) ==
  /\ WorkerGoes(l, "polling", IF ok THEN "tick" ELSE "error")
  /\ UNCHANGED <<sessionVars, pumpVars, info, owed, rx, packets, cmds>>

(* A segment with packets; an empty one, or a 404 whose refresh succeeded; *)
(* or an error.                                                            *)
Fetch(l, to) ==
  /\ to \in {"sending", "tick", "error"}
  /\ WorkerGoes(l, "fetching", to)
  /\ UNCHANGED <<sessionVars, pumpVars, info, owed, rx, packets, cmds>>

-----------------------------------------------------------------------------
Stopping == StopReceivers \/ StopReceiversReturns

Supervisor == Accept \/ CreateControlFails \/ CancelAccept

Session ==
  \/ \E c \in Command \ {"none", "load"} : TakeCommand(c)
  \/ \E l \in Loads : TakeLoad(l)
  \/ ControlFails \/ SendOrder \/ JoinPump \/ LoadFails
  \/ \E autoplay \in BOOLEAN : StartPump(autoplay)

Closing(l) == ForwardSeek(l) \/ ForwardClose(l) \/ WorkerJoined(l)

Pump(l) == TakeOrder(l) \/ SessionGone(l) \/ NextPacket(l) \/ Closing(l)

Sending(l) ==
  \/ \E more \in BOOLEAN : SendFrame(l, more)
  \/ \E word \in {"eos", "error"} : SendLast(l, word)
  \/ Dropped(l)

Worker(l) ==
  \/ \E ok \in BOOLEAN : Probe(l, ok) \/ Poll(l, ok)
  \/ Sending(l) \/ DrainCmd(l) \/ PauseOver(l) \/ PauseCut(l)
  \/ \E to \in {"eos", "pausing", "fetching"} : Continue(l, to)
  \/ \E to \in {"sending", "tick", "error"} : Fetch(l, to)

Next == Stopping \/ Supervisor \/ Session \/ \E l \in Loads : Pump(l) \/ Worker(l)

(* tokio polls every ready task; the worker's HTTP requests end by their   *)
(* timeouts (build_client). The pump's select picks an arm at random when  *)
(* both are ready, so a packet is taken however many orders come.          *)
Fairness ==
  /\ WF_vars(SendOrder) /\ WF_vars(JoinPump)
  /\ \A l \in Loads :
       /\ WF_vars(Worker(l)) /\ WF_vars(Pump(l))
       /\ WF_vars(Closing(l)) /\ SF_vars(NextPacket(l))

Spec == Init /\ [][Next]_vars /\ Fairness

-----------------------------------------------------------------------------
(* Types; no channel holds more than its capacity.                         *)
TypeOK ==
  /\ session \in SessionState /\ job \in Command
  /\ loading \in Loads \cup {NoLoad} /\ current \in Loads \cup {NoLoad}
  /\ said \in Said /\ mine \subseteq Loads
  /\ signal \in {"open", "sent", "taken", "closed"}
  /\ pump \in [Loads -> PumpState]
  /\ playing \in [Loads -> BOOLEAN]
  /\ orders \in [Loads -> Seq(PumpCmd)]
  /\ worker \in [Loads -> WorkerState]
  /\ info \in [Loads -> {"none", "ok", "err"}]
  /\ rx \in [Loads -> BOOLEAN]
  /\ packets \in [Loads -> Seq({"frame", "eos", "error"})]
  /\ cmds \in [Loads -> Seq({"seek", "close"})]
  /\ owed \in [Loads -> BOOLEAN]
  /\ \A l \in Loads : /\ Len(orders[l]) <= PumpCap
                      /\ Len(packets[l]) <= PacketCap
                      /\ Len(cmds[l]) <= CmdCap

(* Once a session has told its sender it is idle, is opening the puller of *)
(* a new LOAD, or has been left because of a cancellation, nothing else it *)
(* loaded is still being fetched or played: no pump and no worker of an    *)
(* earlier LOAD outlives the STOP, the next LOAD or the cancellation.      *)
Replaced ==
  CASE session = "ready" /\ said = "idle" -> mine
    [] session = "open" -> mine \ {loading}
    [] session \in {"accept", "quit"} /\ job = "cancel" -> mine
    [] OTHER -> {}

Quiet == \A l \in Replaced : Silent(l)

(* The end of the pull reaches the application: a pump whose worker is     *)
(* gone leaves its loop, with the Eos or the error it finds in the channel,*)
(* unless playback is paused.                                              *)
LastWordHeard ==
  \A l \in Loads :
    (worker[l] = "done" /\ pump[l] = "running") ~>
      (pump[l] \in {"closing", "joining", "done"} \/ ~playing[l])

(* Closing a puller ends its worker, unless the worker waits for room in   *)
(* the packet channel, which nobody drains any more.                       *)
Stuck(l) ==
  /\ worker[l] \in {"sending", "eos", "error"}
  /\ Len(packets[l]) = PacketCap

CloseEndsOrSticks ==
  \A l \in Loads :
    pump[l] \in {"closing", "joining"} ~> (pump[l] = "done" \/ Stuck(l))

(* "close cancels the worker task" (puller/mod.rs:42-43): a pump that      *)
(* closes its puller gets to its end.                                      *)
CloseEnds ==
  \A l \in Loads : pump[l] \in {"closing", "joining"} ~> pump[l] = "done"

(* A seek taken in the live-refresh pause is "handled on next loop tick"   *)
(* (puller/mod.rs:299): when the loop has left its tick the seek is made.  *)
SeekMade ==
  \A l \in Loads : worker[l] \in {"pausing", "fetching", "eos"} => ~owed[l]
=============================================================================
