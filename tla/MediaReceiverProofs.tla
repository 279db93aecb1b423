------------------------- MODULE MediaReceiverProofs -------------------------
(* Machine-checked proofs about MediaReceiver, for any number of LOADs,    *)
(* any channel capacities, and senders that reconnect hastily or not.      *)
EXTENDS MediaReceiver, TLAPS

(* The disjuncts of Next, for proofs that go through them one by one.      *)
LEMMA NextCases ==
  ASSUME Next
  PROVE  \/ StopReceivers \/ StopReceiversReturns
         \/ Accept \/ CreateControlFails \/ CancelAccept
         \/ \E c \in Command \ {"none", "load"} : TakeCommand(c)
         \/ \E l \in Loads : TakeLoad(l)
         \/ ControlFails \/ SendOrder \/ JoinPump \/ LoadFails
         \/ \E autoplay \in BOOLEAN : StartPump(autoplay)
         \/ \E l \in Loads : Pump(l)
         \/ \E l \in Loads : Worker(l)
BY DEF Next, Stopping, Supervisor, Session

-----------------------------------------------------------------------------
(* Types and capacities. A pump's handle is of a load, and so is the load  *)
(* being opened.                                                           *)
Loading ==
  /\ session \in {"send", "join"} => job # "none"
  /\ session \in {"send", "join"} /\ job = "load" => loading \in Loads
  /\ session = "open" => loading \in Loads

TypeInv == TypeOK /\ Loading

LEMMA TypeInit == Init => TypeInv
BY MediaReceiverAssumption
DEF Init, TypeInv, TypeOK, Loading, SessionState, Command, Said, PumpState, WorkerState

(* Appending to a channel that has room, and taking from one, keep it      *)
(* within its type and capacity.                                           *)
LEMMA Appended ==
  ASSUME NEW S, NEW q \in Seq(S), NEW x \in S, NEW cap \in Nat, Len(q) < cap
  PROVE  Append(q, x) \in Seq(S) /\ Len(Append(q, x)) <= cap
OBVIOUS

LEMMA Taken ==
  ASSUME NEW S, NEW q \in Seq(S), q # <<>>, NEW cap \in Nat, Len(q) <= cap
  PROVE  Head(q) \in S /\ Tail(q) \in Seq(S) /\ Len(Tail(q)) <= cap
OBVIOUS

LEMMA SessionType ==
  ASSUME TypeInv,
         \/ StopReceivers \/ StopReceiversReturns
         \/ Accept \/ CreateControlFails \/ CancelAccept
         \/ \E c \in Command \ {"none", "load"} : TakeCommand(c)
         \/ \E l \in Loads : TakeLoad(l)
         \/ ControlFails
  PROVE  TypeInv'
BY DEF TypeInv, TypeOK, Loading, StopReceivers, StopReceiversReturns, Accept,
       CreateControlFails, CancelAccept, TakeCommand, TakeSignal, TakeLoad,
       ControlFails, ReturnErr, pumpVars, workerVars, SessionState, Command, Said

LEMMA OrderType ==
  ASSUME TypeInv, SendOrder \/ JoinPump \/ LoadFails
  PROVE  TypeInv'
<1> USE MediaReceiverAssumption
<1> TypeOK /\ Loading
  BY DEF TypeInv
<1>1. CASE SendOrder
  <2>1. orders' \in [Loads -> Seq(PumpCmd)]
        /\ \A l \in Loads : Len(orders'[l]) <= PumpCap
    <3>1. CASE UNCHANGED orders
      BY <3>1 DEF TypeOK
    <3>2. CASE ~UNCHANGED orders
      <4>1. current \in Loads /\ Len(orders[current]) < PumpCap
            /\ orders' = [orders EXCEPT ![current] = Append(@, Order(job))]
        BY <1>1, <3>2 DEF SendOrder, PumpReturned, TypeOK
      <4>2. Order(job) \in PumpCmd
        BY <1>1 DEF SendOrder, Order, PumpCmd, TypeOK, Command, Loading
      <4>3. Append(orders[current], Order(job)) \in Seq(PumpCmd)
            /\ Len(Append(orders[current], Order(job))) <= PumpCap
        BY <4>1, <4>2, Appended DEF TypeOK
      <4> QED
        BY <4>1, <4>3 DEF TypeOK
    <3> QED
      BY <3>1, <3>2
  <2>2. said' \in Said
    BY <1>1 DEF SendOrder, Report, Said, TypeOK
  <2>3. session' \in SessionState /\ job' \in Command /\ Loading'
    BY <1>1 DEF SendOrder, Loading, TypeOK, SessionState, Command
  <2> QED
    BY <1>1, <2>1, <2>2, <2>3 DEF SendOrder, TypeInv, TypeOK, workerVars
<1>2. CASE JoinPump
  <2>1. said' \in Said
    BY <1>2 DEF JoinPump, Report, Said, TypeOK
  <2>2. session' \in SessionState /\ job' \in Command /\ Loading'
    BY <1>2 DEF JoinPump, Loading, TypeOK, SessionState, Command
  <2>3. /\ worker' \in [Loads -> WorkerState] /\ rx' \in [Loads -> BOOLEAN]
        /\ mine' \subseteq Loads
    BY <1>2, ZenonT(60) DEF JoinPump, Loading, TypeOK, WorkerState
  <2> QED
    BY <1>2, <2>1, <2>2, <2>3 DEF JoinPump, TypeInv, TypeOK, pumpVars
<1>3. CASE LoadFails
  <2>1. /\ packets' \in [Loads -> Seq({"frame", "eos", "error"})]
        /\ \A l \in Loads : Len(packets'[l]) <= PacketCap
    <3>1. <<>> \in Seq({"frame", "eos", "error"}) /\ Len(<<>>) <= PacketCap
      OBVIOUS
    <3>2. packets' = [packets EXCEPT ![loading] = <<>>]
      BY <1>3 DEF LoadFails
    <3> HIDE MediaReceiverAssumption
    <3> QED
      BY <3>1, <3>2 DEF TypeOK
  <2> QED
    BY <1>3, <2>1
    DEF LoadFails, ReturnErr, TypeInv, TypeOK, Loading, pumpVars, SessionState, Command, Said
<1> QED
  BY <1>1, <1>2, <1>3

LEMMA StartPumpType ==
  ASSUME TypeInv, NEW autoplay \in BOOLEAN, StartPump(autoplay)
  PROVE  TypeInv'
<1>1. loading \in Loads
  BY DEF TypeInv, Loading, StartPump
<1>2. said' \in Said
  BY DEF StartPump, Report, Said, TypeInv, TypeOK
<1> QED
  BY <1>1, <1>2
  DEF StartPump, TypeInv, TypeOK, Loading, SessionState, Command, PumpState

LEMMA PumpType ==
  ASSUME TypeInv, NEW l \in Loads, Pump(l)
  PROVE  TypeInv'
<1> USE MediaReceiverAssumption DEF PumpGoes, LeaveLoop
<1> TypeOK /\ Loading
  BY DEF TypeInv
<1>1. CASE TakeOrder(l)
  <2>1. Tail(orders[l]) \in Seq(PumpCmd) /\ Len(Tail(orders[l])) <= PumpCap
    BY <1>1, Taken DEF TakeOrder, TypeOK
  <2>2. orders' \in [Loads -> Seq(PumpCmd)]
        /\ \A k \in Loads : Len(orders'[k]) <= PumpCap
    BY <1>1, <2>1 DEF TakeOrder, TypeOK
  <2>3. pump' \in [Loads -> PumpState] /\ playing' \in [Loads -> BOOLEAN]
    BY <1>1 DEF TakeOrder, AfterOrder, TypeOK, PumpState
  <2> QED
    BY <1>1, <2>2, <2>3 DEF TakeOrder, TypeInv, TypeOK, Loading, sessionVars, workerVars
<1>2. CASE SessionGone(l)
  BY <1>2
  DEF SessionGone, TypeInv, TypeOK, Loading, sessionVars, workerVars, PumpState
<1>3. CASE NextPacket(l)
  <2>1. Tail(packets[l]) \in Seq({"frame", "eos", "error"})
        /\ Len(Tail(packets[l])) <= PacketCap
    BY <1>3, Taken DEF NextPacket, TypeOK
  <2>2. packets' \in [Loads -> Seq({"frame", "eos", "error"})]
        /\ \A k \in Loads : Len(packets'[k]) <= PacketCap
    BY <1>3, <2>1 DEF NextPacket, TypeOK
  <2> QED
    BY <1>3, <2>2
    DEF NextPacket, TypeInv, TypeOK, Loading, sessionVars, workerVars, PumpState
<1>4. ASSUME NEW c \in {"seek", "close"}, Forward(l, c)
      PROVE  /\ cmds' \in [Loads -> Seq({"seek", "close"})]
             /\ \A k \in Loads : Len(cmds'[k]) <= CmdCap
  <2>1. CASE worker[l] = "done"
    BY <1>4, <2>1 DEF Forward, TypeOK
  <2>2. CASE worker[l] # "done"
    <3>1. Append(cmds[l], c) \in Seq({"seek", "close"}) /\ Len(Append(cmds[l], c)) <= CmdCap
      BY <1>4, <2>2, Appended DEF Forward, TypeOK
    <3>2. cmds' = [cmds EXCEPT ![l] = Append(cmds[l], c)]
      BY <1>4, <2>2 DEF Forward
    <3> HIDE MediaReceiverAssumption DEF PumpGoes, LeaveLoop
    <3> QED
      BY <3>1, <3>2 DEF TypeOK
  <2> QED
    BY <2>1, <2>2
<1>5. CASE ForwardSeek(l)
  BY <1>4, <1>5
  DEF ForwardSeek, TypeInv, TypeOK, Loading, sessionVars, workerVars, PumpState
<1>6. CASE ForwardClose(l)
  BY <1>4, <1>6
  DEF ForwardClose, TypeInv, TypeOK, Loading, sessionVars, workerVars, PumpState
<1>7. CASE WorkerJoined(l)
  <2>1. /\ orders' \in [Loads -> Seq(PumpCmd)]
        /\ \A k \in Loads : Len(orders'[k]) <= PumpCap
    <3>1. <<>> \in Seq(PumpCmd) /\ Len(<<>>) <= PumpCap
      OBVIOUS
    <3> QED
      BY <1>7, <3>1 DEF WorkerJoined, TypeOK
  <2>2. /\ packets' \in [Loads -> Seq({"frame", "eos", "error"})]
        /\ \A k \in Loads : Len(packets'[k]) <= PacketCap
    <3>1. <<>> \in Seq({"frame", "eos", "error"}) /\ Len(<<>>) <= PacketCap
      OBVIOUS
    <3> QED
      BY <1>7, <3>1 DEF WorkerJoined, TypeOK
  <2>3. /\ cmds' \in [Loads -> Seq({"seek", "close"})]
        /\ \A k \in Loads : Len(cmds'[k]) <= CmdCap
    <3>1. <<>> \in Seq({"seek", "close"}) /\ Len(<<>>) <= CmdCap
      OBVIOUS
    <3> QED
      BY <1>7, <3>1 DEF WorkerJoined, TypeOK
  <2> QED
    BY <1>7, <2>1, <2>2, <2>3
    DEF WorkerJoined, TypeInv, TypeOK, Loading, sessionVars, PumpState
<1> QED
  BY <1>1, <1>2, <1>3, <1>5, <1>6, <1>7 DEF Pump, Closing

LEMMA WorkerType ==
  ASSUME TypeInv, NEW l \in Loads, Worker(l)
  PROVE  TypeInv'
<1> USE MediaReceiverAssumption DEF WorkerGoes, WorkerState
<1> TypeOK /\ Loading
  BY DEF TypeInv
<1>1. ASSUME NEW ok \in BOOLEAN, Probe(l, ok) \/ Poll(l, ok)
      PROVE  TypeInv'
  BY <1>1 DEF Probe, Poll, TypeInv, TypeOK, Loading, sessionVars, pumpVars
<1>2. ASSUME NEW p \in {"frame", "eos", "error"}, Push(l, p)
      PROVE  /\ packets' \in [Loads -> Seq({"frame", "eos", "error"})]
             /\ \A k \in Loads : Len(packets'[k]) <= PacketCap
  <2>1. Append(packets[l], p) \in Seq({"frame", "eos", "error"})
        /\ Len(Append(packets[l], p)) <= PacketCap
    BY <1>2, Appended DEF Push, TypeOK
  <2>2. packets' = [packets EXCEPT ![l] = Append(packets[l], p)]
    BY <1>2 DEF Push
  <2> HIDE DEF WorkerState
  <2> QED
    BY <2>1, <2>2 DEF TypeOK
<1>3. ASSUME NEW more \in BOOLEAN, SendFrame(l, more) PROVE TypeInv'
  BY <1>2, <1>3 DEF SendFrame, TypeInv, TypeOK, Loading, sessionVars, pumpVars
<1>4. ASSUME NEW word \in {"eos", "error"}, SendLast(l, word) PROVE TypeInv'
  BY <1>2, <1>4 DEF SendLast, TypeInv, TypeOK, Loading, sessionVars, pumpVars
<1>5. CASE Dropped(l)
  BY <1>5 DEF Dropped, TypeInv, TypeOK, Loading, sessionVars, pumpVars
<1>6. CASE DrainCmd(l) \/ PauseCut(l)
  <2>1. Tail(cmds[l]) \in Seq({"seek", "close"}) /\ Len(Tail(cmds[l])) <= CmdCap
    BY <1>6, Taken DEF DrainCmd, PauseCut, TypeOK
  <2>2. cmds' \in [Loads -> Seq({"seek", "close"})]
        /\ \A k \in Loads : Len(cmds'[k]) <= CmdCap
    <3>1. cmds' = [cmds EXCEPT ![l] = Tail(cmds[l])]
      BY <1>6 DEF DrainCmd, PauseCut
    <3> HIDE MediaReceiverAssumption DEF WorkerGoes, WorkerState
    <3> QED
      BY <2>1, <3>1 DEF TypeOK
  <2>3. worker' \in [Loads -> WorkerState] /\ owed' \in [Loads -> BOOLEAN]
    BY <1>6, ZenonT(60) DEF DrainCmd, PauseCut, AfterClose, TypeOK
  <2>4. UNCHANGED <<sessionVars, pumpVars, info, rx, packets>>
    BY <1>6 DEF DrainCmd, PauseCut
  <2> QED
    BY <2>2, <2>3, <2>4 DEF TypeInv, TypeOK, Loading, sessionVars, pumpVars
<1>7. CASE PauseOver(l)
  BY <1>7 DEF PauseOver, TypeInv, TypeOK, Loading, sessionVars, pumpVars
<1>8. ASSUME NEW to \in {"eos", "pausing", "fetching"}, Continue(l, to) PROVE TypeInv'
  BY <1>8 DEF Continue, TypeInv, TypeOK, Loading, sessionVars, pumpVars
<1>9. ASSUME NEW to \in {"sending", "tick", "error"}, Fetch(l, to) PROVE TypeInv'
  BY <1>9 DEF Fetch, TypeInv, TypeOK, Loading, sessionVars, pumpVars
<1> QED
  BY <1>1, <1>3, <1>4, <1>5, <1>6, <1>7, <1>8, <1>9 DEF Worker, Sending

LEMMA TypeStep == TypeInv /\ [Next]_vars => TypeInv'
<1> SUFFICES ASSUME TypeInv, [Next]_vars PROVE TypeInv'
  OBVIOUS
<1>1. CASE UNCHANGED vars
  BY <1>1 DEF TypeInv, TypeOK, Loading, vars, sessionVars, pumpVars, workerVars
<1>2. CASE Next
  BY <1>2, NextCases, SessionType, OrderType, StartPumpType, PumpType, WorkerType
<1> QED
  BY <1>1, <1>2

(* No channel of the receiver ever holds more than its capacity, and the   *)
(* state keeps its shape.                                                  *)
THEOREM TypeCorrect == Spec => []TypeOK
<1>1. Spec => []TypeInv
  BY TypeInit, TypeStep, PTL DEF Spec
<1>2. TypeInv => TypeOK
  BY DEF TypeInv
<1> QED
  BY <1>1, <1>2, PTL

-----------------------------------------------------------------------------
(* Why a replaced load is silent: a pump that has returned joined its      *)
(* worker, a load has a pump only after its worker was spawned, the session*)
(* holds the handle of every pump of its own that may still run, and it    *)
(* says "idle" only when it holds none.                                    *)
Joined ==
  \A l \in Loads :
    /\ pump[l] = "done" => worker[l] = "done"
    /\ worker[l] = "none" => pump[l] = "none"

Opening ==
  /\ session \in {"send", "join"} /\ job = "load" => worker[loading] = "none"
  /\ session = "open" => worker[loading] # "none" /\ pump[loading] = "none"

Held ==
  \A l \in mine :
    Silent(l) \/ l = current \/ (session = "open" /\ l = loading)

Unheld ==
  said = "idle" \/ session \in {"accept", "open", "quit"} => current = NoLoad

QuietInv == Joined /\ Opening /\ Held /\ Unheld

LEMMA QuietInit == Init => QuietInv
BY MediaReceiverAssumption DEF Init, QuietInv, Joined, Opening, Held, Unheld

LEMMA QuietImplied == TypeInv /\ QuietInv => Quiet
BY MediaReceiverAssumption
DEF TypeInv, TypeOK, QuietInv, Held, Unheld, Quiet, Replaced

(* Steps of the supervisor and of a session that leave pumps and workers   *)
(* alone.                                                                  *)
LEMMA SessionQuiet ==
  ASSUME TypeInv, QuietInv,
         \/ StopReceivers \/ StopReceiversReturns
         \/ Accept \/ CreateControlFails \/ CancelAccept
         \/ \E c \in Command \ {"none", "load"} : TakeCommand(c)
         \/ \E l \in Loads : TakeLoad(l)
         \/ ControlFails \/ SendOrder \/ LoadFails
  PROVE  QuietInv'
<1> USE DEF Joined, Silent
<1>1. CASE \/ StopReceivers \/ StopReceiversReturns
          \/ Accept \/ CreateControlFails \/ CancelAccept
  BY <1>1
  DEF StopReceivers, StopReceiversReturns, Accept, CreateControlFails, CancelAccept,
      pumpVars, workerVars, QuietInv, Opening, Held, Unheld
<1>2. ASSUME NEW c \in Command \ {"none", "load"}, TakeCommand(c) PROVE QuietInv'
  BY <1>2 DEF TakeCommand, pumpVars, workerVars, QuietInv, Opening, Held, Unheld
<1>3. ASSUME NEW l \in Loads, TakeLoad(l) PROVE QuietInv'
  BY <1>3 DEF TakeLoad, pumpVars, workerVars, QuietInv, Opening, Held, Unheld
<1>4. CASE ControlFails \/ LoadFails
  BY <1>4
  DEF ControlFails, LoadFails, ReturnErr, pumpVars, workerVars, QuietInv, Opening,
      Held, Unheld
<1>5. CASE SendOrder
  <2>1. said' = "idle" => said = "idle"
    BY <1>5 DEF SendOrder, Order, Report
  <2> QED
    BY <1>5, <2>1 DEF SendOrder, Order, workerVars, QuietInv, Opening, Held, Unheld
<1> QED
  BY <1>1, <1>2, <1>3, <1>4, <1>5

(* A session that has joined its pump holds none; a LOAD's worker is       *)
(* spawned, and its pump when open() has returned.                         *)
LEMMA JoinQuiet ==
  ASSUME TypeInv, QuietInv, JoinPump
  PROVE  QuietInv'
<1> USE DEF Joined, Silent
<1>1. \A l \in mine : Silent(l)
  BY MediaReceiverAssumption
  DEF JoinPump, PumpJoined, PumpReturned, QuietInv, Held, TypeInv, TypeOK
<1>2. current' = NoLoad
  BY DEF JoinPump
<1>3. CASE job = "load"
  <2>1. loading \in Loads /\ worker[loading] = "none"
    BY <1>3 DEF JoinPump, QuietInv, Opening, TypeInv, Loading
  <2>2. /\ session' = "open" /\ UNCHANGED <<loading, pump>>
        /\ worker' = [worker EXCEPT ![loading] = "probing"]
        /\ mine' = mine \cup {loading}
    BY <1>3 DEF JoinPump, pumpVars
  <2> QED
    BY <1>1, <1>2, <2>1, <2>2 DEF TypeInv, TypeOK, QuietInv, Opening, Held, Unheld
<1>4. CASE job # "load"
  <2>1. session' \in {"ready", "accept"} /\ UNCHANGED <<pump, worker, mine>>
    BY <1>4 DEF JoinPump, pumpVars
  <2> QED
    BY <1>1, <1>2, <2>1 DEF QuietInv, Opening, Held, Unheld
<1> QED
  BY <1>3, <1>4

LEMMA StartQuiet ==
  ASSUME TypeInv, QuietInv, NEW autoplay \in BOOLEAN, StartPump(autoplay)
  PROVE  QuietInv'
<1> USE DEF Joined, Silent
<1>1. loading \in Loads /\ worker[loading] # "none" /\ pump[loading] = "none"
  BY DEF StartPump, TypeInv, Loading, QuietInv, Opening
<1>2. /\ session' = "ready" /\ current' = loading
      /\ pump' = [pump EXCEPT ![loading] = "running"] /\ UNCHANGED <<worker, mine>>
  BY DEF StartPump
<1>3. said' # "idle"
  BY DEF StartPump, Report
<1>4. current = NoLoad
  BY DEF StartPump, QuietInv, Unheld
<1>5. ASSUME NEW l \in mine, l # loading PROVE Silent(l)'
  BY MediaReceiverAssumption, <1>1, <1>2, <1>4, <1>5
  DEF QuietInv, Held, TypeInv, TypeOK
<1> QED
  BY <1>1, <1>2, <1>3, <1>5 DEF TypeInv, TypeOK, QuietInv, Opening, Held, Unheld

(* Pumps and workers move on their own; what has returned stays so.        *)
LEMMA TasksQuiet ==
  ASSUME TypeInv, QuietInv, NEW l \in Loads, Pump(l) \/ Worker(l)
  PROVE  QuietInv'
<1> USE DEF PumpGoes, LeaveLoop, WorkerGoes
<1>1. UNCHANGED sessionVars
  BY DEF Pump, Closing, TakeOrder, SessionGone, NextPacket, ForwardSeek, ForwardClose,
         WorkerJoined, Worker, Sending, Probe, Poll, SendFrame, SendLast, Dropped, DrainCmd,
         PauseOver, PauseCut, Continue, Fetch
<1>2. \A k \in Loads \ {l} : pump'[k] = pump[k] /\ worker'[k] = worker[k]
  BY DEF Pump, Closing, TakeOrder, SessionGone, NextPacket, ForwardSeek, ForwardClose,
         WorkerJoined, Worker, Sending, Probe, Poll, SendFrame, SendLast, Dropped, DrainCmd,
         PauseOver, PauseCut, Continue, Fetch, TypeInv, TypeOK, pumpVars, workerVars
<1>3. CASE Pump(l)
  <2>1. UNCHANGED worker /\ pump[l] \notin {"none", "done"}
    BY <1>3
    DEF Pump, Closing, TakeOrder, SessionGone, NextPacket, ForwardSeek, ForwardClose,
        WorkerJoined, workerVars
  <2>2. pump'[l] # "none" /\ (pump'[l] = "done" => worker[l] = "done")
    BY <1>3
    DEF Pump, Closing, TakeOrder, AfterOrder, SessionGone, NextPacket, ForwardSeek,
        ForwardClose, WorkerJoined, TypeInv, TypeOK
  <2>3. Joined'
    BY <1>2, <2>1, <2>2 DEF QuietInv, Joined
  <2>4. Opening'
    BY <1>1, <1>2, <2>1 DEF sessionVars, QuietInv, Opening, TypeInv, Loading
  <2>5. Held'
    BY <1>1, <1>2, <2>1 DEF sessionVars, QuietInv, Held, Silent, TypeInv, TypeOK
  <2>6. Unheld'
    BY <1>1 DEF sessionVars, QuietInv, Unheld
  <2> QED
    BY <2>3, <2>4, <2>5, <2>6 DEF QuietInv
<1>4. CASE Worker(l)
  <2>1. UNCHANGED pump /\ worker[l] \notin {"none", "done"}
    BY <1>4
    DEF Worker, Sending, Probe, Poll, SendFrame, SendLast, Dropped, DrainCmd, PauseOver,
        PauseCut, Continue, Fetch, pumpVars
  <2>2. worker'[l] # "none"
    BY <1>4
    DEF Worker, Sending, Probe, Poll, SendFrame, SendLast, Dropped, DrainCmd, PauseOver,
        PauseCut, Continue, Fetch, AfterClose, TypeInv, TypeOK
  <2>3. Joined'
    BY <1>2, <2>1, <2>2 DEF QuietInv, Joined
  <2>4. Opening'
    BY <1>1, <1>2, <2>1, <2>2 DEF sessionVars, QuietInv, Opening, TypeInv, Loading
  <2>5. Held'
    BY <1>1, <1>2, <2>1 DEF sessionVars, QuietInv, Held, Silent, TypeInv, TypeOK
  <2>6. Unheld'
    BY <1>1 DEF sessionVars, QuietInv, Unheld
  <2> QED
    BY <2>3, <2>4, <2>5, <2>6 DEF QuietInv
<1> QED
  BY <1>3, <1>4

LEMMA QuietStep == TypeInv /\ QuietInv /\ [Next]_vars => QuietInv'
<1> SUFFICES ASSUME TypeInv, QuietInv, [Next]_vars PROVE QuietInv'
  OBVIOUS
<1>1. CASE UNCHANGED vars
  BY <1>1
  DEF vars, sessionVars, pumpVars, workerVars, QuietInv, Joined, Opening, Held, Unheld, Silent
<1>2. CASE Next
  BY <1>2, NextCases, SessionQuiet, JoinQuiet, StartQuiet, TasksQuiet
<1> QED
  BY <1>1, <1>2

(* What a session has replaced, stopped or been cancelled out of is silent,*)
(* however many LOADs come and however their pumps and workers interleave. *)
THEOREM ReplacedIsSilent == Spec => []Quiet
<1>1. Spec => []TypeInv
  BY TypeInit, TypeStep, PTL DEF Spec
<1>2. Spec => []QuietInv
  BY <1>1, QuietInit, QuietStep, PTL DEF Spec
<1> QED
  BY <1>1, <1>2, QuietImplied, PTL
=============================================================================
