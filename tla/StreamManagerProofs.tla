------------------------- MODULE StreamManagerProofs -------------------------
(* Machine-checked proofs about StreamManager, for every set of devices,   *)
(* streams and stop calls and every capacity of the event channel.         *)
EXTENDS StreamManager, TLAPS

(* A task beside the streaming task starts or ends: nothing but its being  *)
(* open changes, and nothing that is waited for.                           *)
Lapses(s) == ServingStarts(s) \/ AudioEnds(s) \/ ServingEnds(s)

LEMMA LapseKeeps ==
  ASSUME NEW s \in Streams, Lapses(s)
  PROVE  /\ UNCHANGED <<known, forward, call, device, task, failed, cancelled>>
         /\ UNCHANGED <<active, stop, shut, todo, events, stopped, abandoned>>
BY DEF Lapses, ServingStarts, AudioEnds, ServingEnds, callVars, taskVars, stopVars

(* The disjuncts of Next, for proofs that go through them one by one.      *)
LEMMA NextCases ==
  ASSUME Next
  PROVE  \/ ForwardEvent \/ Receive \/ ShutdownBegins \/ ShutdownReturns
         \/ \E d \in Devices : DeviceFound(d) \/ DeviceLost(d) \/ ShutdownStops(d)
         \/ \E s \in Streams : StartCall(s)
         \/ \E s \in Streams : TaskStep(s)
         \/ \E s \in Streams : Lapses(s)
         \/ \E k \in Callers : StopCall(k)
BY DEF Next, Discovery, Shutdown, Lapses

-----------------------------------------------------------------------------
(* The state has its declared shape, and the event channel never holds     *)
(* more than its capacity. Events carry the device of a call that was      *)
(* made, so the induction needs to know that the calls and tasks that send *)
(* them have one.                                                          *)
Started ==
  \A s \in Streams :
    /\ call[s] # "idle" => device[s] \in Devices
    /\ task[s] # "none" <=> call[s] \in {"spawned", "returned"}

Aimed == \A k \in Callers : stop[k].pc # "idle" => stop[k].target \in Streams

TypeInv == TypeOK /\ Started /\ Aimed

LEMMA TypeInit == Init => TypeInv
BY StreamManagerAssumption
DEF Init, TypeInv, Started, Aimed, TypeOK, CallState, TaskState, StopState, Event, Callers

LEMMA SendType ==
  ASSUME TypeOK, NEW kind \in EventKind, NEW d \in Devices, Send(kind, d)
  PROVE  events' \in Seq(Event) /\ Len(events') <= EventCap
<1>1. [kind |-> kind, device |-> d] \in Event
  BY DEF Event
<1>2. events \in Seq(Event) /\ Len(events) < EventCap
  BY DEF TypeOK, Send, Room
<1> QED
  BY <1>1, <1>2, StreamManagerAssumption DEF Send

LEMMA TypeStep == TypeInv /\ [Next]_vars => TypeInv'
<1> SUFFICES ASSUME TypeInv, [Next]_vars PROVE TypeInv'
  OBVIOUS
<1> USE StreamManagerAssumption
<1> TypeOK /\ Started /\ Aimed
  BY DEF TypeInv
<1>1. CASE UNCHANGED vars
  BY <1>1 DEF TypeInv, Started, Aimed, TypeOK, vars, callVars, taskVars, stopVars
<1>2. CASE ForwardEvent
  <2>1. Head(forward) \in Event
    <3>1. forward \in Seq(Event) /\ forward # <<>>
      BY <1>2 DEF ForwardEvent, TypeOK
    <3> QED
      BY <3>1
  <2>2. Head(forward).kind \in EventKind /\ Head(forward).device \in Devices
    BY <2>1 DEF Event
  <2>3. events' \in Seq(Event) /\ Len(events') <= EventCap
    BY <1>2, <2>2, SendType DEF ForwardEvent
  <2> QED
    BY <1>2, <2>3 DEF ForwardEvent, TypeInv, Started, Aimed, TypeOK, callVars, taskVars, stopVars
<1>3. CASE Receive
  <2>1. events' \in Seq(Event) /\ Len(events') <= EventCap
    BY <1>3 DEF Receive, TypeOK
  <2> QED
    BY <1>3, <2>1 DEF Receive, TypeInv, Started, Aimed, TypeOK, callVars, taskVars, stopVars
<1>4. CASE ShutdownBegins
  BY <1>4 DEF ShutdownBegins, TypeInv, Started, Aimed, TypeOK, callVars, taskVars
<1>5. CASE ShutdownReturns
  BY <1>5 DEF ShutdownReturns, TypeInv, Started, Aimed, TypeOK, callVars, taskVars
<1>6. ASSUME NEW d \in Devices, DeviceFound(d) \/ DeviceLost(d) \/ ShutdownStops(d)
      PROVE  TypeInv'
  <2>1. ASSUME DeviceFound(d) \/ DeviceLost(d) PROVE TypeInv'
    <3>1. forward' \in Seq(Event) /\ Len(forward') <= 1
      <4>1. [kind |-> "DeviceFound", device |-> d] \in Event
            /\ [kind |-> "DeviceLost", device |-> d] \in Event
        BY DEF Event, EventKind
      <4> QED
        BY <2>1, <4>1 DEF DeviceFound, DeviceLost
    <3> QED
      BY <2>1, <3>1
      DEF DeviceFound, DeviceLost, TypeInv, Started, Aimed, TypeOK, callVars, taskVars, stopVars
  <2>2. CASE ShutdownStops(d)
    <3>1. stop' \in [Callers -> [pc : StopState, target : Streams \cup {NoStream}]]
          /\ active' \in [Devices -> Streams \cup {NoStream}]
          /\ stopped' \subseteq Streams
          /\ Aimed'
      BY <2>2 DEF Aimed, ShutdownStops, TakeEntry, TypeOK, StopState, Callers
    <3> QED
      BY <2>2, <3>1 DEF ShutdownStops, TypeInv, Started, TypeOK, callVars, taskVars
  <2> QED
    BY <1>6, <2>1, <2>2
<1>7. ASSUME NEW s \in Streams, StartCall(s) PROVE TypeInv'
  <2>1. ASSUME NEW d \in Devices, StartStream(s, d) PROVE TypeInv'
    BY <2>1
    DEF StartStream, TypeInv, Started, Aimed, TypeOK, taskVars, stopVars, CallState, Starting, Resource,
        Waited
  <2>2. CASE FirstFrame(s)
    BY <2>2
    DEF FirstFrame, TypeInv, Started, Aimed, TypeOK, taskVars, stopVars, CallState, Starting, Resource,
        Waited
  <2>3. CASE Connected(s)
    BY <2>3 DEF Connected, TypeInv, Started, Aimed, TypeOK, taskVars, stopVars, CallState, Starting
  <2>4. CASE AskPairing(s)
    <3>1. device[s] \in Devices
      BY <2>4 DEF AskPairing, Started
    <3>2. events' \in Seq(Event) /\ Len(events') <= EventCap
      BY <2>4, <3>1, SendType DEF AskPairing, EventKind
    <3> QED
      BY <2>4, <3>2
      DEF AskPairing, TypeInv, Started, Aimed, TypeOK, taskVars, stopVars, CallState, Starting
  <2>5. CASE Paired(s)
    BY <2>5 DEF Paired, TypeInv, Started, Aimed, TypeOK, taskVars, stopVars, CallState, Starting
  <2>6. CASE SetUpAndSpawn(s)
    <3>1. holds' \in [Streams -> SUBSET Resource]
      BY <2>6, BesideAssumption DEF SetUpAndSpawn, TypeOK, Resource
    <3> QED
      BY <2>6, <3>1
      DEF SetUpAndSpawn, TypeInv, Started, Aimed, TypeOK, stopVars, CallState, TaskState,
          Serving
  <2>7. CASE StartFails(s)
    <3>1. holds' \in [Streams -> SUBSET Resource]
      BY <2>7 DEF StartFails, TypeOK, Resource
    <3> QED
      BY <2>7, <3>1
      DEF StartFails, TypeInv, Started, Aimed, TypeOK, taskVars, stopVars, CallState, Starting
  <2>8. CASE InsertEntry(s)
    BY <2>8
    DEF InsertEntry, DropEntry, TypeInv, Started, Aimed, TypeOK, taskVars, stopVars, CallState
  <2> QED
    BY <1>7, <2>1, <2>2, <2>3, <2>4, <2>5, <2>6, <2>7, <2>8 DEF StartCall
<1>8. ASSUME NEW s \in Streams, TaskStep(s) PROVE TypeInv'
  <2> USE DEF Step, Serving, Ending, TaskState, Resource, Waited
  <2>1. ASSUME NEW kind \in EventKind, Send(kind, device[s]), task[s] # "none",
               NEW t \in TaskState \ {"none"}, task' = [task EXCEPT ![s] = t],
               UNCHANGED <<known, forward, callVars, failed, cancelled, holds, active,
                           stopVars>>
        PROVE  TypeInv'
    <3>1. device[s] \in Devices
      BY <2>1 DEF Started
    <3>2. events' \in Seq(Event) /\ Len(events') <= EventCap
      BY <2>1, <3>1, SendType
    <3> QED
      BY <2>1, <3>2 DEF TypeInv, Started, Aimed, TypeOK, callVars, stopVars
  <2>2. CASE AnnounceStarted(s)
    BY <2>1, <2>2 DEF AnnounceStarted, EventKind
  <2>3. CASE AnnounceReconnecting(s)
    BY <2>1, <2>3 DEF AnnounceReconnecting, EventKind
  <2>4. CASE AnnounceError(s)
    BY <2>1, <2>4 DEF AnnounceError, EventKind
  <2>5. CASE AnnounceStopped(s)
    BY <2>1, <2>5 DEF AnnounceStopped, EventKind
  <2>6. ASSUME NEW t \in TaskState \ {"none"}, task[s] # "none",
               task' = [task EXCEPT ![s] = t],
               holds' \in [Streams -> SUBSET Resource],
               failed' \in [Streams -> BOOLEAN],
               cancelled' \in [Streams -> BOOLEAN],
               active' \in [Devices -> Streams \cup {NoStream}],
               UNCHANGED <<known, forward, callVars, stopVars, events>>
        PROVE  TypeInv'
    BY <2>6 DEF TypeInv, Started, Aimed, TypeOK, callVars, stopVars
  <2>7. CASE SessionDies(s) \/ BackoffOver(s) \/ ReconnectDone(s) \/ ReconnectFails(s)
             \/ CloseCapture(s) \/ SeeCancel(s) \/ Fatal(s)
    <3>1. \E t \in TaskState \ {"none"} : task' = [task EXCEPT ![s] = t]
      BY <2>7
      DEF SessionDies, BackoffOver, ReconnectDone, ReconnectFails, CloseCapture,
          SeeCancel, Fatal, Leave, Polls
    <3>2. task[s] # "none"
      BY <2>7
      DEF SessionDies, BackoffOver, ReconnectDone, ReconnectFails, CloseCapture,
          SeeCancel, Fatal, Leave, Polls
    <3>3. holds' \in [Streams -> SUBSET Resource]
      BY <2>7, BesideAssumption
      DEF SessionDies, BackoffOver, ReconnectDone, ReconnectFails, CloseCapture,
          SeeCancel, Fatal, Leave, TypeOK
    <3>4. failed' \in [Streams -> BOOLEAN] /\ cancelled' \in [Streams -> BOOLEAN]
          /\ active' \in [Devices -> Streams \cup {NoStream}]
          /\ UNCHANGED <<known, forward, callVars, stopVars, events>>
      BY <2>7
      DEF SessionDies, BackoffOver, ReconnectDone, ReconnectFails, CloseCapture,
          SeeCancel, Fatal, Leave, TypeOK
    <3> QED
      BY <2>6, <3>1, <3>2, <3>3, <3>4
  <2>8. CASE Unlist(s)
    BY <2>6, <2>8 DEF Unlist, DropEntry, TypeOK
  <2> QED
    BY <1>8, <2>2, <2>3, <2>4, <2>5, <2>6, <2>7, <2>8 DEF TaskStep
<1>9. ASSUME NEW k \in Callers, StopCall(k) PROVE TypeInv'
  <2>1. ASSUME NEW d \in Devices, StopStream(k, d) PROVE TypeInv'
    <3>1. stop' \in [Callers -> [pc : StopState, target : Streams \cup {NoStream}]]
          /\ active' \in [Devices -> Streams \cup {NoStream}]
          /\ stopped' \subseteq Streams
          /\ Aimed'
      BY <2>1 DEF Aimed, StopStream, TakeEntry, TypeOK, StopState
    <3> QED
      BY <2>1, <3>1 DEF StopStream, TypeInv, Started, TypeOK, callVars, taskVars
  <2>2. CASE Signal(k)
    BY <2>2 DEF Signal, TypeInv, Started, Aimed, TypeOK, callVars, taskVars, StopState
  <2>3. CASE Join(k)
    BY <2>3 DEF Join, TypeInv, Started, Aimed, TypeOK, callVars, taskVars, StopState
  <2>4. CASE Abandon(k)
    <3>1. stop[k].target \in Streams
      BY <2>4 DEF Abandon, Aimed
    <3> QED
      BY <2>4, <3>1 DEF Abandon, TypeInv, Started, Aimed, TypeOK, callVars, taskVars, StopState
  <2> QED
    BY <1>9, <2>1, <2>2, <2>3, <2>4 DEF StopCall
<1>10. ASSUME NEW r \in Streams, Lapses(r) PROVE TypeInv'
  <2>1. holds' \in [Streams -> SUBSET Resource]
    BY <1>10 DEF Lapses, ServingStarts, AudioEnds, ServingEnds, TypeOK, Resource
  <2> QED
    BY <1>10, <2>1, LapseKeeps DEF TypeInv, Started, Aimed, TypeOK
<1> QED
  BY <1>1, <1>2, <1>3, <1>4, <1>5, <1>6, <1>7, <1>8, <1>9, <1>10, NextCases

THEOREM TypeCorrect == Spec => []TypeOK
<1>1. Spec => []TypeInv
  BY TypeInit, TypeStep, PTL DEF Spec
<1>2. TypeInv => TypeOK
  BY DEF TypeInv
<1> QED
  BY <1>1, <1>2, PTL

-----------------------------------------------------------------------------
(* No stream is being served, not told to end and out of everyone's reach: *)
(* whoever takes or overwrites a map entry drops or uses its cancel_tx.    *)
LEMMA NoOrphanStep == TypeInv /\ NoOrphan /\ [Next]_vars => NoOrphan'
<1> SUFFICES ASSUME TypeInv, NoOrphan, [Next]_vars,
                    NEW s \in Streams, task'[s] \in Serving, ~cancelled'[s]
             PROVE  Reachable(s)'
  BY DEF NoOrphan
<1> TypeOK /\ Started /\ Aimed
  BY DEF TypeInv
<1>1. ASSUME task[s] \in Serving, ~cancelled[s], call'[s] = call[s],
             UNCHANGED <<device, active, stop>>
      PROVE  Reachable(s)'
  BY <1>1 DEF NoOrphan, Reachable
<1>2. CASE UNCHANGED vars
  BY <1>1, <1>2 DEF vars, callVars, taskVars, stopVars
<1>3. CASE ForwardEvent \/ Receive \/ ShutdownBegins \/ ShutdownReturns
  BY <1>1, <1>3
  DEF ForwardEvent, Receive, ShutdownBegins, ShutdownReturns, callVars, taskVars, stopVars
<1>4. ASSUME NEW k \in Callers, NEW d \in Devices, TakeEntry(k, d), ~StopBusy(k),
             UNCHANGED <<callVars, task, cancelled>>
      PROVE  Reachable(s)'
  <2>1. task[s] \in Serving /\ ~cancelled[s]
    BY <1>4
  <2>2. CASE call[s] = "spawned"
    BY <1>4, <2>2 DEF callVars, Reachable
  <2>3. CASE active[device[s]] = s /\ device[s] = d
    <3>1. stop'[k].pc = "signal" /\ stop'[k].target = s
      BY <1>4, <2>3 DEF TakeEntry, TypeOK
    <3> QED
      BY <3>1 DEF Reachable
  <2>4. CASE active[device[s]] = s /\ device[s] \in Devices /\ device[s] # d
    BY <1>4, <2>4 DEF TakeEntry, TypeOK, callVars, Reachable
  <2>5. ASSUME NEW j \in Callers, stop[j].pc = "signal", stop[j].target = s
        PROVE  Reachable(s)'
    <3>1. j # k
      BY <1>4, <2>5 DEF StopBusy
    <3>2. stop'[j] = stop[j]
      BY <1>4, <3>1 DEF TakeEntry, TypeOK
    <3> QED
      BY <2>5, <3>2 DEF Reachable
  <2> QED
    BY <2>1, <2>2, <2>3, <2>4, <2>5 DEF NoOrphan, Reachable
<1>5. ASSUME NEW d \in Devices, DeviceFound(d) \/ DeviceLost(d) \/ ShutdownStops(d)
      PROVE  Reachable(s)'
  <2>1. CASE DeviceFound(d) \/ DeviceLost(d)
    BY <1>1, <2>1 DEF DeviceFound, DeviceLost, callVars, taskVars, stopVars
  <2>2. CASE ShutdownStops(d) /\ TakeEntry(Closer, d)
    BY <1>4, <2>2 DEF ShutdownStops, callVars, taskVars, Callers
  <2>3. CASE ShutdownStops(d) /\ UNCHANGED <<active, stop, stopped>>
    BY <1>1, <2>3 DEF ShutdownStops, callVars, taskVars
  <2> QED
    BY <1>5, <2>1, <2>2, <2>3 DEF ShutdownStops
<1>6. ASSUME NEW r \in Streams, StartCall(r) PROVE Reachable(s)'
  <2>1. ASSUME NEW d \in Devices, StartStream(r, d) PROVE Reachable(s)'
    <3>1. r # s
      BY <2>1 DEF StartStream, Started, taskVars, Serving
    <3>2. call'[s] = call[s] /\ device'[s] = device[s]
      BY <2>1, <3>1 DEF StartStream, TypeOK
    <3> QED
      BY <2>1, <3>2 DEF StartStream, taskVars, stopVars, NoOrphan, Reachable
  <2>2. CASE FirstFrame(r) \/ Connected(r) \/ AskPairing(r) \/ Paired(r) \/ StartFails(r)
    <3>1. r # s
      BY <2>2
      DEF FirstFrame, Connected, AskPairing, Paired, StartFails, Starting, Started,
          taskVars, Serving
    <3>2. call'[s] = call[s]
      BY <2>2, <3>1 DEF FirstFrame, Connected, AskPairing, Paired, StartFails, TypeOK
    <3> QED
      BY <1>1, <2>2, <3>2
      DEF FirstFrame, Connected, AskPairing, Paired, StartFails, taskVars, stopVars
  <2>3. CASE SetUpAndSpawn(r) /\ r = s
    BY <2>3 DEF SetUpAndSpawn, TypeOK, Reachable
  <2>4. CASE SetUpAndSpawn(r) /\ r # s
    BY <1>1, <2>4 DEF SetUpAndSpawn, TypeOK, stopVars
  <2>5. CASE InsertEntry(r) /\ r = s
    BY <2>5 DEF InsertEntry, TypeOK, Started, Reachable
  <2>6. CASE InsertEntry(r) /\ r # s
    <3>1. call'[s] = call[s] /\ device' = device /\ stop' = stop /\ task' = task
      BY <2>6 DEF InsertEntry, TypeOK, taskVars, stopVars
    <3>2. ~cancelled[s] /\ s # active[device[r]]
      BY <2>6 DEF InsertEntry, DropEntry
    <3>3. device[s] \in Devices /\ active[device[s]] = s => active'[device[s]] = s
      BY <2>6, <3>2 DEF InsertEntry, TypeOK
    <3> QED
      BY <3>1, <3>2, <3>3 DEF NoOrphan, Reachable
  <2> QED
    BY <1>6, <2>1, <2>2, <2>3, <2>4, <2>5, <2>6 DEF StartCall
<1>7. ASSUME NEW r \in Streams, TaskStep(r) PROVE Reachable(s)'
  <2> USE DEF Step, Serving, Ending
  <2>1. CASE \/ AnnounceStarted(r) \/ SessionDies(r) \/ AnnounceReconnecting(r)
             \/ BackoffOver(r) \/ ReconnectDone(r) \/ ReconnectFails(r)
             \/ SeeCancel(r) \/ Fatal(r) \/ CloseCapture(r)
             \/ AnnounceError(r) \/ AnnounceStopped(r)
    <3>1. UNCHANGED <<call, device, cancelled, active, stop>>
      BY <2>1
      DEF AnnounceStarted, SessionDies, AnnounceReconnecting, BackoffOver, ReconnectDone,
          ReconnectFails, SeeCancel, Fatal, Leave, CloseCapture, AnnounceError,
          AnnounceStopped, callVars, stopVars
    <3>2. task[s] \in Serving
      BY <2>1
      DEF AnnounceStarted, SessionDies, AnnounceReconnecting, BackoffOver, ReconnectDone,
          ReconnectFails, SeeCancel, Fatal, Leave, CloseCapture, AnnounceError,
          AnnounceStopped, Polls, TypeOK
    <3> QED
      BY <1>1, <3>1, <3>2
  <2>2. CASE Unlist(r)
    <3>1. task[s] \in Serving
      BY <2>2 DEF Unlist, TypeOK
    <3>2. ~cancelled[s] /\ s # active[device[r]]
      BY <2>2 DEF Unlist, DropEntry
    <3>3. device[s] \in Devices /\ active[device[s]] = s => active'[device[s]] = s
      BY <2>2, <3>2 DEF Unlist, TypeOK
    <3> QED
      BY <2>2, <3>1, <3>2, <3>3 DEF Unlist, callVars, stopVars, NoOrphan, Reachable
  <2> QED
    BY <1>7, <2>1, <2>2 DEF TaskStep
<1>8. ASSUME NEW k \in Callers, StopCall(k) PROVE Reachable(s)'
  <2>1. ASSUME NEW d \in Devices, StopStream(k, d) PROVE Reachable(s)'
    BY <1>4, <2>1 DEF StopStream, StopBusy, callVars, taskVars
  <2>2. CASE Signal(k)
    <3>1. task[s] \in Serving /\ ~cancelled[s] /\ stop[k].target # s
      BY <2>2 DEF Signal, TypeOK, taskVars
    <3>2. \A j \in Callers : stop[j].target = s => stop'[j] = stop[j]
      BY <2>2, <3>1 DEF Signal, TypeOK
    <3> QED
      BY <2>2, <3>1, <3>2 DEF Signal, callVars, NoOrphan, Reachable
  <2>3. CASE Join(k) \/ Abandon(k)
    <3>1. \A j \in Callers : stop[j].pc = "signal" => stop'[j] = stop[j]
      BY <2>3 DEF Join, Abandon, TypeOK
    <3> QED
      BY <2>3, <3>1 DEF Join, Abandon, callVars, taskVars, NoOrphan, Reachable
  <2> QED
    BY <1>8, <2>1, <2>2, <2>3 DEF StopCall
<1>9. ASSUME NEW r \in Streams, Lapses(r) PROVE Reachable(s)'
  BY <1>1, <1>9, LapseKeeps
<1> QED
  BY <1>2, <1>3, <1>5, <1>6, <1>7, <1>8, <1>9, NextCases

THEOREM NeverOrphaned == Spec => []NoOrphan
<1>1. Init => TypeInv /\ NoOrphan
  BY TypeInit DEF Init, NoOrphan, Serving
<1>2. TypeInv /\ NoOrphan /\ [Next]_vars => TypeInv' /\ NoOrphan'
  BY TypeStep, NoOrphanStep
<1> QED
  BY <1>1, <1>2, PTL DEF Spec

-----------------------------------------------------------------------------
(* A stop_stream call that returned without giving up has waited for a     *)
(* task that closed its session and its capture before it left the map,    *)
(* and that cannot start again.                                            *)
Torn ==
  \A s \in Streams :
    task[s] \in {"unlisting", "reporting", "leaving", "done"} =>
      holds[s] \cap Waited = {}

LEMMA TornStep ==
  ASSUME TypeInv, Torn, [Next]_vars
  PROVE  /\ Torn'
         /\ \A s \in Streams : task[s] = "done" => task'[s] = "done"
<1> TypeOK /\ Started /\ Aimed
  BY DEF TypeInv
<1> USE DEF Torn
<1>1. CASE UNCHANGED <<task, holds>>
  BY <1>1
<1>2. CASE UNCHANGED vars \/ ForwardEvent \/ Receive \/ ShutdownBegins \/ ShutdownReturns
  BY <1>1, <1>2
  DEF vars, ForwardEvent, Receive, ShutdownBegins, ShutdownReturns, taskVars
<1>3. ASSUME NEW d \in Devices, DeviceFound(d) \/ DeviceLost(d) \/ ShutdownStops(d)
      PROVE  UNCHANGED <<task, holds>>
  BY <1>3 DEF DeviceFound, DeviceLost, ShutdownStops, taskVars
<1>4. ASSUME NEW k \in Callers, StopCall(k)
      PROVE  UNCHANGED <<task, holds>>
  BY <1>4 DEF StopCall, StopStream, Signal, Join, Abandon, taskVars
<1>5. ASSUME NEW r \in Streams, StartCall(r)
      PROVE  Torn' /\ \A s \in Streams : task[s] = "done" => task'[s] = "done"
  <2>1. CASE Connected(r) \/ AskPairing(r) \/ Paired(r) \/ InsertEntry(r)
    BY <1>1, <2>1 DEF Connected, AskPairing, Paired, InsertEntry, taskVars
  <2>2. CASE FirstFrame(r) \/ StartFails(r) \/ \E d \in Devices : StartStream(r, d)
    <3>1. task[r] = "none" /\ task' = task
      BY <2>2 DEF FirstFrame, StartFails, StartStream, Starting, Started, taskVars
    <3>2. \A s \in Streams : s # r => holds'[s] = holds[s]
      BY <2>2 DEF FirstFrame, StartFails, StartStream, TypeOK
    <3> QED
      BY <3>1, <3>2
  <2>3. CASE SetUpAndSpawn(r)
    BY <2>3 DEF SetUpAndSpawn, Started, TypeOK
  <2> QED
    BY <1>5, <2>1, <2>2, <2>3 DEF StartCall
<1>6. ASSUME NEW r \in Streams, TaskStep(r)
      PROVE  Torn' /\ \A s \in Streams : task[s] = "done" => task'[s] = "done"
  <2> USE DEF Step
  <2>1. \A s \in Streams : s # r => task'[s] = task[s] /\ holds'[s] = holds[s]
    BY <1>6
    DEF TaskStep, AnnounceStarted, SessionDies, AnnounceReconnecting, BackoffOver,
        ReconnectDone, ReconnectFails, SeeCancel, Fatal, Leave, CloseCapture, Unlist,
        AnnounceError, AnnounceStopped, TypeOK
  <2>2. CASE \/ AnnounceStarted(r) \/ SessionDies(r) \/ AnnounceReconnecting(r)
             \/ BackoffOver(r) \/ ReconnectDone(r) \/ ReconnectFails(r)
             \/ SeeCancel(r) \/ Fatal(r)
    <3>1. /\ task[r] # "done"
          /\ task'[r] \in Serving \cup {"closing"}
      BY <2>2
      DEF AnnounceStarted, SessionDies, AnnounceReconnecting, BackoffOver, ReconnectDone,
          ReconnectFails, SeeCancel, Fatal, Leave, Polls, Serving, TypeOK
    <3> QED
      BY <2>1, <3>1 DEF Serving
  <2>3. CASE CloseCapture(r)
    BY <2>1, <2>3 DEF CloseCapture, TypeOK
  <2>4. CASE Unlist(r) \/ AnnounceError(r) \/ AnnounceStopped(r)
    BY <2>1, <2>4 DEF Unlist, AnnounceError, AnnounceStopped, TypeOK
  <2> QED
    BY <1>6, <2>2, <2>3, <2>4 DEF TaskStep
<1>7. ASSUME NEW r \in Streams, Lapses(r)
      PROVE  Torn' /\ \A s \in Streams : task[s] = "done" => task'[s] = "done"
  <2>1. \A s \in Streams : holds'[s] \cap Waited \subseteq holds[s] \cap Waited
    BY <1>7 DEF Lapses, ServingStarts, AudioEnds, ServingEnds, TypeOK, Waited
  <2> QED
    BY <1>7, <2>1, LapseKeeps
<1> QED
  BY <1>1, <1>2, <1>3, <1>4, <1>5, <1>6, <1>7, NextCases

LEMMA StopJoinsStep ==
  ASSUME TypeInv, Torn, StopJoins, [Next]_vars
  PROVE  StopJoins'
<1> TypeOK /\ Aimed
  BY DEF TypeInv
<1> SUFFICES ASSUME NEW k \in Callers, stop'[k].pc = "joined"
             PROVE  /\ task'[stop'[k].target] = "done"
                    /\ holds'[stop'[k].target] \cap Waited = {}
  BY DEF StopJoins
<1>1. CASE stop'[k] = stop[k]
  BY <1>1, TornStep DEF StopJoins, Aimed, Torn
<1>2. CASE Join(k)
  <2>1. stop'[k].target = stop[k].target /\ stop[k].target \in Streams
    BY <1>2 DEF Join, TypeOK, Aimed
  <2> QED
    BY <1>2, <2>1, TornStep DEF Join, Torn
<1>3. CASE UNCHANGED stop
  BY <1>1, <1>3
<1>4. ASSUME NEW d \in Devices, DeviceFound(d) \/ DeviceLost(d) \/ ShutdownStops(d)
      PROVE  stop'[k] = stop[k]
  BY <1>4 DEF DeviceFound, DeviceLost, ShutdownStops, TakeEntry, TypeOK, stopVars
<1>5. ASSUME NEW j \in Callers, StopCall(j)
      PROVE  stop'[k] = stop[k] \/ Join(k)
  BY <1>5 DEF StopCall, StopStream, TakeEntry, Signal, Join, Abandon, TypeOK
<1>6. ASSUME NEW r \in Streams, StartCall(r) \/ TaskStep(r)
      PROVE  UNCHANGED stop
  BY <1>6
  DEF StartCall, StartStream, FirstFrame, Connected, AskPairing, Paired, SetUpAndSpawn,
      StartFails, InsertEntry, TaskStep, AnnounceStarted, SessionDies,
      AnnounceReconnecting, BackoffOver, ReconnectDone, ReconnectFails, SeeCancel, Fatal,
      Leave, CloseCapture, Unlist, AnnounceError, AnnounceStopped, stopVars
<1>7. UNCHANGED vars \/ ForwardEvent \/ Receive \/ ShutdownBegins \/ ShutdownReturns
      => UNCHANGED stop
  BY DEF vars, ForwardEvent, Receive, ShutdownBegins, ShutdownReturns, stopVars
<1>8. ASSUME NEW r \in Streams, Lapses(r) PROVE UNCHANGED stop
  BY <1>8, LapseKeeps
<1> QED
  BY <1>1, <1>2, <1>3, <1>4, <1>5, <1>6, <1>7, <1>8, NextCases

THEOREM StopWaits == Spec => []StopJoins
<1>1. Init => TypeInv /\ Torn /\ StopJoins
  BY TypeInit DEF Init, Torn, StopJoins
<1>2. TypeInv /\ Torn /\ StopJoins /\ [Next]_vars => TypeInv' /\ Torn' /\ StopJoins'
  BY TypeStep, TornStep, StopJoinsStep
<1> QED
  BY <1>1, <1>2, PTL DEF Spec

-----------------------------------------------------------------------------
(* What follows is for clients that start a device only when its earlier   *)
(* streams are over. Then no two streams of a device are ever alive at     *)
(* once, so a map entry that is overwritten or removed by another stream's *)
(* task belonged to a stream that is over.                                 *)
OneAtATime ==
  \A r, s \in Streams :
    r # s /\ device[r] = device[s] /\ device[r] \in Devices => Over(r) \/ Over(s)

(* Where cancellations come from: entries and stop calls name streams whose*)
(* start_stream returned, and nobody else is told to end.                  *)
Entered ==
  /\ \A d \in Devices : active[d] # NoStream =>
       call[active[d]] = "returned" /\ device[active[d]] = d
  /\ \A k \in Callers : stop[k].pc # "idle" =>
       call[stop[k].target] = "returned" /\ stop[k].target \in stopped
  /\ \A s \in Streams : cancelled[s] => call[s] = "returned"

LEMMA OverStays ==
  ASSUME TypeInv, Torn, [Next]_vars, NEW s \in Streams
  PROVE  /\ Over(s) => Over(s)'
         /\ call[s] # "idle" => device'[s] = device[s]
         /\ call[s] = "returned" => call'[s] = "returned"
<1> TypeOK /\ Started
  BY DEF TypeInv
<1>1. /\ call[s] = "returned" => call'[s] = "returned"
      /\ call[s] = "failed" => call'[s] = "failed"
      /\ call[s] # "idle" => device'[s] = device[s]
  <2>1. CASE UNCHANGED <<call, device>>
    BY <2>1
  <2>2. CASE UNCHANGED vars \/ ForwardEvent \/ Receive \/ ShutdownBegins \/ ShutdownReturns
    BY <2>1, <2>2
    DEF vars, ForwardEvent, Receive, ShutdownBegins, ShutdownReturns, callVars
  <2>3. ASSUME NEW d \in Devices, DeviceFound(d) \/ DeviceLost(d) \/ ShutdownStops(d)
        PROVE  UNCHANGED <<call, device>>
    BY <2>3 DEF DeviceFound, DeviceLost, ShutdownStops, callVars
  <2>4. ASSUME NEW k \in Callers, StopCall(k) PROVE UNCHANGED <<call, device>>
    BY <2>4 DEF StopCall, StopStream, Signal, Join, Abandon, callVars
  <2>5. ASSUME NEW r \in Streams, TaskStep(r) PROVE UNCHANGED <<call, device>>
    BY <2>5
    DEF TaskStep, AnnounceStarted, SessionDies, AnnounceReconnecting, BackoffOver,
        ReconnectDone, ReconnectFails, SeeCancel, Fatal, Leave, CloseCapture, Unlist,
        AnnounceError, AnnounceStopped, callVars
  <2>6. ASSUME NEW r \in Streams, StartCall(r) PROVE <1>1!:
    BY <2>6
    DEF StartCall, StartStream, FirstFrame, Connected, AskPairing, Paired, SetUpAndSpawn,
        StartFails, InsertEntry, Starting, TypeOK
  <2>7. ASSUME NEW r \in Streams, Lapses(r) PROVE UNCHANGED <<call, device>>
    BY <2>7, LapseKeeps
  <2> QED
    BY <2>1, <2>2, <2>3, <2>4, <2>5, <2>6, <2>7, NextCases
<1> QED
  BY <1>1, TornStep DEF Over

LEMMA OneAtATimeStep ==
  ASSUME AllowOverlap = FALSE, TypeInv, Torn, OneAtATime, [Next]_vars
  PROVE  OneAtATime'
<1> TypeOK /\ Started
  BY DEF TypeInv
<1> SUFFICES ASSUME NEW r \in Streams, NEW s \in Streams, r # s,
                    device'[r] = device'[s], device'[r] \in Devices
             PROVE  Over(r)' \/ Over(s)'
  BY DEF OneAtATime
<1>1. CASE device'[r] = device[r] /\ device'[s] = device[s]
  BY <1>1, OverStays DEF OneAtATime
<1>2. ASSUME NEW q \in Streams, NEW d \in Devices, StartStream(q, d)
      PROVE  Over(r)' \/ Over(s)'
  <2>1. device' = [device EXCEPT ![q] = d] /\ \A p \in Streams : device[p] = d => Over(p)
    BY <1>2 DEF StartStream
  <2>2. CASE q = r
    BY <2>1, <2>2, OverStays DEF TypeOK
  <2>3. CASE q = s
    BY <2>1, <2>3, OverStays DEF TypeOK
  <2>4. CASE q # r /\ q # s
    BY <1>1, <2>1, <2>4 DEF TypeOK
  <2> QED
    BY <2>2, <2>3, <2>4
<1>3. (\A q \in Streams, d \in Devices : ~StartStream(q, d)) => UNCHANGED device
  <2> SUFFICES ASSUME \A q \in Streams, d \in Devices : ~StartStream(q, d)
               PROVE  UNCHANGED device
    OBVIOUS
  <2>1. UNCHANGED vars \/ ForwardEvent \/ Receive \/ ShutdownBegins \/ ShutdownReturns
        => UNCHANGED device
    BY DEF vars, ForwardEvent, Receive, ShutdownBegins, ShutdownReturns, callVars
  <2>2. ASSUME NEW d \in Devices, DeviceFound(d) \/ DeviceLost(d) \/ ShutdownStops(d)
        PROVE  UNCHANGED device
    BY <2>2 DEF DeviceFound, DeviceLost, ShutdownStops, callVars
  <2>3. ASSUME NEW k \in Callers, StopCall(k) PROVE UNCHANGED device
    BY <2>3 DEF StopCall, StopStream, Signal, Join, Abandon, callVars
  <2>4. ASSUME NEW q \in Streams, TaskStep(q) PROVE UNCHANGED device
    BY <2>4
    DEF TaskStep, AnnounceStarted, SessionDies, AnnounceReconnecting, BackoffOver,
        ReconnectDone, ReconnectFails, SeeCancel, Fatal, Leave, CloseCapture, Unlist,
        AnnounceError, AnnounceStopped, callVars
  <2>5. ASSUME NEW q \in Streams, StartCall(q) PROVE UNCHANGED device
    BY <2>5
    DEF StartCall, FirstFrame, Connected, AskPairing, Paired, SetUpAndSpawn, StartFails,
        InsertEntry
  <2>6. ASSUME NEW q \in Streams, Lapses(q) PROVE UNCHANGED device
    BY <2>6, LapseKeeps
  <2> QED
    BY <2>1, <2>2, <2>3, <2>4, <2>5, <2>6, NextCases
<1> QED
  BY <1>1, <1>2, <1>3

LEMMA EnteredStep ==
  ASSUME TypeInv, Torn, Entered, [Next]_vars
  PROVE  Entered'
<1> TypeOK /\ Started /\ Aimed
  BY DEF TypeInv
<1>1. ASSUME UNCHANGED <<active, stop, stopped, cancelled>> PROVE Entered'
  BY <1>1, OverStays DEF Entered, Aimed, TypeOK, TypeInv
<1>2. CASE UNCHANGED vars \/ ForwardEvent \/ Receive \/ ShutdownBegins \/ ShutdownReturns
  BY <1>1, <1>2
  DEF vars, ForwardEvent, Receive, ShutdownBegins, ShutdownReturns, stopVars
<1>3. ASSUME NEW k \in Callers, NEW d \in Devices, TakeEntry(k, d),
             UNCHANGED <<callVars, cancelled>>
      PROVE  Entered'
  BY <1>3 DEF TakeEntry, Entered, TypeOK, callVars
<1>4. ASSUME NEW d \in Devices, DeviceFound(d) \/ DeviceLost(d) \/ ShutdownStops(d)
      PROVE  Entered'
  BY <1>1, <1>3, <1>4
  DEF DeviceFound, DeviceLost, ShutdownStops, callVars, stopVars, Callers
<1>5. ASSUME NEW r \in Streams, StartCall(r) PROVE Entered'
  <2>1. CASE InsertEntry(r)
    <3>1. call'[r] = "returned" /\ device' = device /\ stop' = stop /\ stopped' = stopped
          /\ (\A q \in Streams : q # r => call'[q] = call[q])
      BY <2>1 DEF InsertEntry, TypeOK, stopVars
    <3>2. device[r] \in Devices /\ active' = [active EXCEPT ![device[r]] = r]
      BY <2>1 DEF InsertEntry, Started
    <3>3. \A q \in Streams : cancelled'[q] => cancelled[q] \/ active[device[r]] = q
      BY <2>1 DEF InsertEntry, DropEntry
    <3>4. \A d \in Devices : active'[d] # NoStream =>
            call'[active'[d]] = "returned" /\ device'[active'[d]] = d
      BY <3>1, <3>2 DEF Entered, TypeOK
    <3>5. \A k \in Callers : stop'[k].pc # "idle" =>
            call'[stop'[k].target] = "returned" /\ stop'[k].target \in stopped'
      BY <3>1 DEF Entered, Aimed
    <3>6. \A q \in Streams : cancelled'[q] => call'[q] = "returned"
      BY <3>1, <3>2, <3>3, StreamManagerAssumption DEF Entered
    <3> QED
      BY <3>4, <3>5, <3>6 DEF Entered
  <2>2. CASE ~InsertEntry(r)
    BY <1>1, <1>5, <2>2
    DEF StartCall, StartStream, FirstFrame, Connected, AskPairing, Paired, SetUpAndSpawn,
        StartFails, stopVars
  <2> QED
    BY <2>1, <2>2
<1>6. ASSUME NEW r \in Streams, TaskStep(r) PROVE Entered'
  <2>1. CASE Unlist(r)
    <3>1. device[r] \in Devices
      BY <2>1 DEF Unlist, Step, Started
    <3>2. UNCHANGED <<call, device, stop, stopped>>
          /\ active' = [active EXCEPT ![device[r]] = NoStream]
      BY <2>1 DEF Unlist, callVars, stopVars
    <3>3. \A q \in Streams : cancelled'[q] => cancelled[q] \/ active[device[r]] = q
      BY <2>1 DEF Unlist, DropEntry
    <3> QED
      BY <3>1, <3>2, <3>3, StreamManagerAssumption DEF Entered, TypeOK
  <2>2. CASE ~Unlist(r)
    BY <1>1, <1>6, <2>2
    DEF TaskStep, AnnounceStarted, SessionDies, AnnounceReconnecting, BackoffOver,
        ReconnectDone, ReconnectFails, SeeCancel, Fatal, Leave, CloseCapture,
        AnnounceError, AnnounceStopped, stopVars
  <2> QED
    BY <2>1, <2>2
<1>7. ASSUME NEW k \in Callers, StopCall(k) PROVE Entered'
  <2>1. ASSUME NEW d \in Devices, StopStream(k, d) PROVE Entered'
    BY <1>3, <2>1 DEF StopStream
  <2>2. CASE Signal(k)
    BY <2>2 DEF Signal, Entered, Aimed, TypeOK, callVars
  <2>3. CASE Join(k) \/ Abandon(k)
    BY <2>3 DEF Join, Abandon, Entered, Aimed, TypeOK, callVars
  <2> QED
    BY <1>7, <2>1, <2>2, <2>3 DEF StopCall
<1>8. ASSUME NEW r \in Streams, Lapses(r) PROVE Entered'
  BY <1>1, <1>8, LapseKeeps
<1> QED
  BY <1>2, <1>4, <1>5, <1>6, <1>7, <1>8, NextCases

(* A stream being served is told to end only because some stop_stream took *)
(* its map entry: no other call, task or discovery event takes it down.    *)
EndsForCause ==
  \A s \in Streams : task[s] \in Serving /\ cancelled[s] => s \in stopped

LEMMA EndsForCauseStep ==
  ASSUME TypeInv, OneAtATime, Entered, EndsForCause, [Next]_vars
  PROVE  EndsForCause'
<1> TypeOK /\ Started /\ Aimed
  BY DEF TypeInv
<1> SUFFICES ASSUME NEW s \in Streams, task'[s] \in Serving, cancelled'[s]
             PROVE  s \in stopped'
  BY DEF EndsForCause
<1>1. ASSUME UNCHANGED cancelled, stopped \subseteq stopped', task[s] \in Serving
      PROVE  s \in stopped'
  BY <1>1 DEF EndsForCause
<1>2. CASE UNCHANGED vars \/ ForwardEvent \/ Receive \/ ShutdownBegins \/ ShutdownReturns
  BY <1>1, <1>2
  DEF vars, ForwardEvent, Receive, ShutdownBegins, ShutdownReturns, taskVars, stopVars
<1>3. ASSUME NEW d \in Devices, DeviceFound(d) \/ DeviceLost(d) \/ ShutdownStops(d)
      PROVE  s \in stopped'
  BY <1>1, <1>3 DEF DeviceFound, DeviceLost, ShutdownStops, TakeEntry, taskVars, stopVars
<1>4. ASSUME NEW r \in Streams, device[r] \in Devices, DropEntry(device[r]), ~Over(r),
             task[s] \in Serving, r # s \/ active[device[r]] # s, UNCHANGED stopped
      PROVE  s \in stopped'
  <2>1. CASE cancelled[s]
    BY <1>4, <2>1 DEF EndsForCause
  <2>2. CASE ~cancelled[s]
    <3>1. active[device[r]] = s
      BY <1>4, <2>2 DEF DropEntry
    <3>2. device[s] = device[r] /\ s # r
      BY <1>4, <3>1, StreamManagerAssumption DEF Entered
    <3>3. Over(s)
      BY <1>4, <3>2 DEF OneAtATime
    <3> QED
      BY <1>4, <3>3 DEF Over, Serving, Started
  <2> QED
    BY <2>1, <2>2
<1>5. ASSUME NEW r \in Streams, StartCall(r) PROVE s \in stopped'
  <2>1. CASE InsertEntry(r)
    <3>1. device[r] \in Devices /\ ~Over(r) /\ task[s] \in Serving /\ UNCHANGED stopped
      BY <2>1 DEF InsertEntry, Started, Over, taskVars, stopVars
    <3>2. active[device[r]] # r
      BY <2>1, <3>1, StreamManagerAssumption DEF InsertEntry, Entered
    <3> QED
      BY <1>4, <2>1, <3>1, <3>2 DEF InsertEntry
  <2>2. CASE SetUpAndSpawn(r)
    <3>1. UNCHANGED <<cancelled, stopped>> /\ r # s
      BY <2>2 DEF SetUpAndSpawn, Entered, stopVars
    <3> QED
      BY <1>1, <2>2, <3>1 DEF SetUpAndSpawn, TypeOK
  <2>3. CASE ~InsertEntry(r) /\ ~SetUpAndSpawn(r)
    BY <1>1, <1>5, <2>3
    DEF StartCall, StartStream, FirstFrame, Connected, AskPairing, Paired, StartFails,
        taskVars, stopVars
  <2> QED
    BY <2>1, <2>2, <2>3
<1>6. ASSUME NEW r \in Streams, TaskStep(r) PROVE s \in stopped'
  <2> USE DEF Step
  <2>1. task[s] \in Serving
    BY <1>6
    DEF TaskStep, AnnounceStarted, SessionDies, AnnounceReconnecting, BackoffOver,
        ReconnectDone, ReconnectFails, SeeCancel, Fatal, Leave, CloseCapture, Unlist,
        AnnounceError, AnnounceStopped, Polls, Serving, TypeOK
  <2>2. CASE Unlist(r)
    <3>1. r # s
      BY <2>1, <2>2 DEF Unlist, Serving
    <3>2. device[r] \in Devices /\ ~Over(r)
      BY <2>2 DEF Unlist, Started, Over
    <3> QED
      BY <1>4, <2>1, <2>2, <3>1, <3>2 DEF Unlist, stopVars
  <2>3. CASE ~Unlist(r)
    BY <1>1, <1>6, <2>1, <2>3
    DEF TaskStep, AnnounceStarted, SessionDies, AnnounceReconnecting, BackoffOver,
        ReconnectDone, ReconnectFails, SeeCancel, Fatal, Leave, CloseCapture,
        AnnounceError, AnnounceStopped, stopVars
  <2> QED
    BY <2>2, <2>3
<1>7. ASSUME NEW k \in Callers, StopCall(k) PROVE s \in stopped'
  <2>1. CASE Signal(k)
    <3>1. stopped' = stopped /\ task' = task
          /\ (cancelled'[s] => cancelled[s] \/ s = stop[k].target)
      BY <2>1 DEF Signal, taskVars, TypeOK
    <3> QED
      BY <2>1, <3>1 DEF Signal, EndsForCause, Entered
  <2>2. CASE ~Signal(k)
    BY <1>1, <1>7, <2>2 DEF StopCall, StopStream, TakeEntry, Join, Abandon, taskVars
  <2> QED
    BY <2>1, <2>2
<1>8. ASSUME NEW r \in Streams, Lapses(r) PROVE s \in stopped'
  BY <1>1, <1>8, LapseKeeps
<1> QED
  BY <1>2, <1>3, <1>5, <1>6, <1>7, <1>8, NextCases

CauseInv == TypeInv /\ Torn /\ OneAtATime /\ Entered /\ EndsForCause

LEMMA CauseInit == Init => CauseInv
BY TypeInit, StreamManagerAssumption
DEF Init, CauseInv, Torn, OneAtATime, Entered, EndsForCause

LEMMA CauseStep ==
  ASSUME AllowOverlap = FALSE
  PROVE  CauseInv /\ [Next]_vars => CauseInv'
BY TypeStep, TornStep, OneAtATimeStep, EnteredStep, EndsForCauseStep DEF CauseInv

(* The abstract service: every step of the calls and tasks is a step of    *)
(* StreamService, or changes nothing it can see.                           *)
LEMMA ServiceStep ==
  ASSUME CauseInv, [Next]_vars
  PROVE  [Service!Next]_<<[s \in Streams |-> PhaseOf(s)], stopped>>
<1> TypeOK /\ Started /\ Aimed /\ Entered /\ EndsForCause
  BY DEF CauseInv, TypeInv
<1> DEFINE Phase == [s \in Streams |-> PhaseOf(s)]
<1>1. ASSUME UNCHANGED <<task, call, failed, stopped>>
      PROVE  UNCHANGED <<Phase, stopped>>
  BY <1>1 DEF PhaseOf, Ended
<1>2. ASSUME NEW s \in Streams,
             \A r \in Streams : r # s =>
               task'[r] = task[r] /\ call'[r] = call[r] /\ failed'[r] = failed[r],
             PhaseOf(s)' = PhaseOf(s), UNCHANGED stopped
      PROVE  UNCHANGED <<Phase, stopped>>
  BY <1>2 DEF PhaseOf, Ended
<1>3. ASSUME NEW s \in Streams,
             \A r \in Streams : r # s =>
               task'[r] = task[r] /\ call'[r] = call[r] /\ failed'[r] = failed[r],
             UNCHANGED stopped
      PROVE  Phase' = [Phase EXCEPT ![s] = PhaseOf(s)'] /\ UNCHANGED stopped
  <2>1. \A r \in Streams : r # s => PhaseOf(r)' = PhaseOf(r)
    BY <1>3 DEF PhaseOf, Ended
  <2> QED
    BY <1>3, <2>1
<1>4. CASE UNCHANGED vars \/ ForwardEvent \/ Receive \/ ShutdownBegins \/ ShutdownReturns
  BY <1>1, <1>4
  DEF vars, ForwardEvent, Receive, ShutdownBegins, ShutdownReturns, callVars, taskVars,
      stopVars
<1>5. ASSUME NEW k \in Callers, NEW d \in Devices, TakeEntry(k, d),
             UNCHANGED <<callVars, taskVars>>
      PROVE  Service!Next
  <2>1. active[d] \in Streams /\ call[active[d]] = "returned"
    BY <1>5 DEF TakeEntry, TypeOK, Entered
  <2>2. PhaseOf(active[d]) \in {"serving", "failed", "ended"}
    BY <2>1 DEF PhaseOf, Ended, TypeOK, TaskState, Started
  <2>3. Service!Ask(active[d])
    BY <1>1, <1>5, <2>1, <2>2
    DEF TakeEntry, Service!Ask, callVars, taskVars, PhaseOf, Ended
  <2> QED
    BY <2>1, <2>3 DEF Service!Next
<1>6. ASSUME NEW d \in Devices, DeviceFound(d) \/ DeviceLost(d) \/ ShutdownStops(d)
      PROVE  Service!Next \/ UNCHANGED <<Phase, stopped>>
  <2>1. CASE ShutdownStops(d) /\ TakeEntry(Closer, d)
    BY <1>5, <2>1 DEF ShutdownStops, Callers
  <2>2. CASE DeviceFound(d) \/ DeviceLost(d)
             \/ (ShutdownStops(d) /\ UNCHANGED <<active, stop, stopped>>)
    BY <1>1, <2>2 DEF DeviceFound, DeviceLost, ShutdownStops, callVars, taskVars, stopVars
  <2> QED
    BY <1>6, <2>1, <2>2 DEF ShutdownStops
<1>7. ASSUME NEW k \in Callers, StopCall(k)
      PROVE  Service!Next \/ UNCHANGED <<Phase, stopped>>
  <2>1. ASSUME NEW d \in Devices, StopStream(k, d) PROVE Service!Next
    BY <1>5, <2>1 DEF StopStream
  <2>2. CASE Signal(k) \/ Join(k) \/ Abandon(k)
    BY <1>1, <2>2 DEF Signal, Join, Abandon, callVars, taskVars
  <2> QED
    BY <1>7, <2>1, <2>2 DEF StopCall
<1>8. ASSUME NEW s \in Streams, StartCall(s)
      PROVE  Service!Next \/ UNCHANGED <<Phase, stopped>>
  <2>1. /\ \A r \in Streams : r # s =>
             task'[r] = task[r] /\ call'[r] = call[r] /\ failed'[r] = failed[r]
        /\ UNCHANGED stopped
    BY <1>8
    DEF StartCall, StartStream, FirstFrame, Connected, AskPairing, Paired, SetUpAndSpawn,
        StartFails, InsertEntry, taskVars, stopVars, TypeOK
  <2>2. CASE FirstFrame(s) \/ Connected(s) \/ AskPairing(s) \/ Paired(s) \/ InsertEntry(s)
    <3>1. PhaseOf(s)' = PhaseOf(s)
      BY <2>2
      DEF FirstFrame, Connected, AskPairing, Paired, InsertEntry, PhaseOf, Ended, Starting,
          Started, taskVars, TypeOK
    <3> QED
      BY <1>2, <2>1, <3>1
  <2>3. ASSUME NEW d \in Devices, StartStream(s, d) PROVE Service!Open(s)
    <3>1. PhaseOf(s) = "idle" /\ PhaseOf(s)' = "opening"
      BY <2>3 DEF StartStream, PhaseOf, Ended, Serving, Ending, Starting, Started,
                  taskVars, TypeOK
    <3> QED
      BY <1>3, <2>1, <3>1 DEF Service!Open, Service!Goes
  <2>4. CASE SetUpAndSpawn(s)
    <3>1. PhaseOf(s) = "opening" /\ PhaseOf(s)' = "serving"
      BY <2>4 DEF SetUpAndSpawn, PhaseOf, Ended, Serving, Ending, Starting, Started, TypeOK
    <3>2. Service!Serve(s)
      BY <1>3, <2>1, <3>1 DEF Service!Serve, Service!Goes
    <3> QED
      BY <3>2 DEF Service!Next
  <2>5. CASE StartFails(s)
    <3>1. PhaseOf(s) = "opening" /\ PhaseOf(s)' = "refused"
      BY <2>5 DEF StartFails, PhaseOf, Ended, Serving, Ending, Starting, Started,
                  taskVars, TypeOK
    <3>2. Service!Refuse(s)
      BY <1>3, <2>1, <3>1 DEF Service!Refuse, Service!Goes
    <3> QED
      BY <3>2 DEF Service!Next
  <2> QED
    BY <1>8, <2>2, <2>3, <2>4, <2>5 DEF StartCall, Service!Next
<1>9. ASSUME NEW s \in Streams, TaskStep(s)
      PROVE  Service!Next \/ UNCHANGED <<Phase, stopped>>
  <2> USE DEF Step
  <2>1. /\ \A r \in Streams : r # s =>
             task'[r] = task[r] /\ call'[r] = call[r] /\ failed'[r] = failed[r]
        /\ UNCHANGED stopped
    BY <1>9
    DEF TaskStep, AnnounceStarted, SessionDies, AnnounceReconnecting, BackoffOver,
        ReconnectDone, ReconnectFails, SeeCancel, Fatal, Leave, CloseCapture, Unlist,
        AnnounceError, AnnounceStopped, callVars, stopVars, TypeOK
  <2>2. CASE \/ AnnounceStarted(s) \/ SessionDies(s) \/ AnnounceReconnecting(s)
             \/ BackoffOver(s) \/ ReconnectDone(s) \/ ReconnectFails(s)
    <3>1. task[s] \in Serving /\ task'[s] \in Serving
      BY <2>2
      DEF AnnounceStarted, SessionDies, AnnounceReconnecting, BackoffOver, ReconnectDone,
          ReconnectFails, Serving, TypeOK
    <3>2. PhaseOf(s)' = PhaseOf(s)
      BY <3>1 DEF PhaseOf, Ended, Ending, Serving
    <3> QED
      BY <1>2, <2>1, <3>2
  <2>3. CASE CloseCapture(s) \/ Unlist(s) \/ AnnounceError(s) \/ AnnounceStopped(s)
    <3>1. Ended(s) /\ Ended(s)' /\ failed'[s] = failed[s]
      BY <2>3
      DEF CloseCapture, Unlist, AnnounceError, AnnounceStopped, Ended, Ending, TypeOK
    <3>2. PhaseOf(s)' = PhaseOf(s)
      BY <3>1 DEF PhaseOf, Ended, Ending, Serving
    <3> QED
      BY <1>2, <2>1, <3>2
  <2>4. CASE SeeCancel(s)
    <3>1. PhaseOf(s) = "serving" /\ PhaseOf(s)' = "ended" /\ s \in stopped
      BY <2>4
      DEF SeeCancel, Leave, Polls, PhaseOf, Ended, Ending, Serving, EndsForCause, TypeOK
    <3>2. Service!End(s)
      BY <1>3, <2>1, <3>1 DEF Service!End, Service!Goes
    <3> QED
      BY <3>2 DEF Service!Next
  <2>5. CASE Fatal(s)
    <3>1. PhaseOf(s) = "serving" /\ PhaseOf(s)' = "failed"
      BY <2>5 DEF Fatal, Leave, PhaseOf, Ended, Ending, Serving, TypeOK
    <3>2. Service!Fail(s)
      BY <1>3, <2>1, <3>1 DEF Service!Fail, Service!Goes
    <3> QED
      BY <3>2 DEF Service!Next
  <2> QED
    BY <1>9, <2>2, <2>3, <2>4, <2>5 DEF TaskStep
<1>10. ASSUME NEW s \in Streams, Lapses(s) PROVE UNCHANGED <<Phase, stopped>>
  BY <1>1, <1>10, LapseKeeps
<1> QED
  BY <1>4, <1>6, <1>7, <1>8, <1>9, <1>10, NextCases

THEOREM PromiseKept ==
  ASSUME AllowOverlap = FALSE
  PROVE  Spec => KeepsPromise
<1>1. Init => Service!Init
  BY DEF Init, Service!Init, PhaseOf, Ended, Serving, Ending, Starting
<1> QED
  BY CauseInit, CauseStep, ServiceStep, <1>1, PTL DEF Spec, KeepsPromise, Service!Spec

-----------------------------------------------------------------------------
(* shutdown leaves no capture and no session open: every stream that still *)
(* has one is in the map, so in shutdown's snapshot, or with a stop_stream *)
(* call that is waiting for it.                                            *)
Tracked ==
  \A s \in Streams : task[s] \in Serving \cup {"closing"} =>
    \/ call[s] = "spawned"
    \/ active[device[s]] = s
    \/ \E k \in Callers : StopBusy(k) /\ stop[k].target = s
    \/ s \in abandoned

Visited ==
  shut # "open" =>
    /\ \A s \in Streams : ~CallBusy(s)
    /\ \A k \in Callers : StopBusy(k) => k = Closer /\ shut = "stopping"
    /\ \A d \in Devices : active[d] # NoStream => d \in todo
    /\ shut = "done" => todo = {}

LEMMA TrackedStep ==
  ASSUME TypeInv, OneAtATime, Entered, Tracked, [Next]_vars
  PROVE  Tracked'
<1> TypeOK /\ Started /\ Aimed
  BY DEF TypeInv
<1> SUFFICES ASSUME NEW s \in Streams, task'[s] \in Serving \cup {"closing"}
             PROVE  \/ call'[s] = "spawned"
                    \/ active'[device'[s]] = s
                    \/ \E k \in Callers : StopBusy(k)' /\ stop'[k].target = s
                    \/ s \in abandoned'
  BY DEF Tracked
<1> DEFINE Goal == \/ call'[s] = "spawned"
                   \/ active'[device'[s]] = s
                   \/ \E k \in Callers : StopBusy(k)' /\ stop'[k].target = s
                   \/ s \in abandoned'
<1>1. ASSUME task[s] \in Serving \cup {"closing"}, call'[s] = call[s],
             device'[s] = device[s], active[device[s]] = s => active'[device[s]] = s,
             UNCHANGED <<stop, abandoned>>
      PROVE  Goal
  BY <1>1 DEF Tracked, StopBusy
<1>2. CASE UNCHANGED vars \/ ForwardEvent \/ Receive \/ ShutdownBegins \/ ShutdownReturns
  BY <1>1, <1>2
  DEF vars, ForwardEvent, Receive, ShutdownBegins, ShutdownReturns, callVars, taskVars,
      stopVars
<1>3. ASSUME NEW k \in Callers, NEW d \in Devices, TakeEntry(k, d), ~StopBusy(k),
             UNCHANGED <<callVars, task, abandoned>>
      PROVE  Goal
  <2>1. CASE active[device[s]] = s /\ device[s] = d
    <3>1. stop'[k].pc = "signal" /\ stop'[k].target = s
      BY <1>3, <2>1 DEF TakeEntry, TypeOK
    <3> QED
      BY <3>1 DEF StopBusy
  <2>2. CASE active[device[s]] = s /\ device[s] # d
    BY <1>3, <2>2 DEF TakeEntry, TypeOK, callVars
  <2>3. ASSUME NEW j \in Callers, StopBusy(j), stop[j].target = s PROVE Goal
    <3>1. stop'[j] = stop[j]
      BY <1>3, <2>3 DEF TakeEntry, TypeOK
    <3> QED
      BY <2>3, <3>1 DEF StopBusy
  <2> QED
    BY <1>3, <2>1, <2>2, <2>3 DEF Tracked, callVars
<1>4. ASSUME NEW d \in Devices, DeviceFound(d) \/ DeviceLost(d) \/ ShutdownStops(d)
      PROVE  Goal
  <2>1. CASE DeviceFound(d) \/ DeviceLost(d)
    BY <1>1, <2>1 DEF DeviceFound, DeviceLost, callVars, taskVars, stopVars
  <2>2. CASE ShutdownStops(d) /\ TakeEntry(Closer, d)
    BY <1>3, <2>2 DEF ShutdownStops, callVars, taskVars, Callers
  <2>3. CASE ShutdownStops(d) /\ UNCHANGED <<active, stop, stopped>>
    BY <1>1, <2>3 DEF ShutdownStops, callVars, taskVars
  <2> QED
    BY <1>4, <2>1, <2>2, <2>3 DEF ShutdownStops
<1>5. ASSUME NEW r \in Streams, StartCall(r) PROVE Goal
  <2>1. CASE InsertEntry(r) /\ r = s
    BY <2>1 DEF InsertEntry, TypeOK, Started
  <2>2. CASE InsertEntry(r) /\ r # s
    <3>1. /\ call'[s] = call[s] /\ UNCHANGED <<device, task, stop, abandoned>>
          /\ device[r] \in Devices /\ active' = [active EXCEPT ![device[r]] = r]
          /\ ~Over(r)
      BY <2>2 DEF InsertEntry, TypeOK, Started, Over, taskVars, stopVars
    <3>2. device[s] \in Devices /\ ~Over(s)
      BY <2>2, <3>1 DEF Started, Over, Serving
    <3>3. device[s] # device[r]
      BY <2>2, <3>1, <3>2 DEF OneAtATime
    <3> QED
      BY <1>1, <3>1, <3>2, <3>3 DEF TypeOK
  <2>3. CASE SetUpAndSpawn(r) /\ r = s
    BY <2>3 DEF SetUpAndSpawn, TypeOK
  <2>4. CASE SetUpAndSpawn(r) /\ r # s
    BY <1>1, <2>4 DEF SetUpAndSpawn, TypeOK, stopVars
  <2>5. CASE ~InsertEntry(r) /\ ~SetUpAndSpawn(r)
    <3>1. UNCHANGED <<task, active, stop, abandoned>> /\ call[r] \in Starting \cup {"idle"}
      BY <1>5, <2>5
      DEF StartCall, StartStream, FirstFrame, Connected, AskPairing, Paired, StartFails,
          Starting, taskVars, stopVars
    <3>2. r # s
      BY <3>1 DEF Started, Starting, Serving
    <3>3. call'[s] = call[s] /\ device'[s] = device[s]
      BY <1>5, <2>5, <3>2
      DEF StartCall, StartStream, FirstFrame, Connected, AskPairing, Paired, StartFails,
          TypeOK
    <3> QED
      BY <1>1, <3>1, <3>3
  <2> QED
    BY <2>1, <2>2, <2>3, <2>4, <2>5
<1>6. ASSUME NEW r \in Streams, TaskStep(r) PROVE Goal
  <2> USE DEF Step
  <2>1. task[s] \in Serving \cup {"closing"} /\ UNCHANGED <<call, device, stop, abandoned>>
    BY <1>6
    DEF TaskStep, AnnounceStarted, SessionDies, AnnounceReconnecting, BackoffOver,
        ReconnectDone, ReconnectFails, SeeCancel, Fatal, Leave, CloseCapture, Unlist,
        AnnounceError, AnnounceStopped, Polls, Serving, TypeOK, callVars, stopVars
  <2>2. CASE Unlist(r)
    <3>1. r # s /\ device[r] \in Devices /\ device[s] \in Devices
      BY <2>1, <2>2 DEF Unlist, Serving, Started
    <3>2. ~Over(r) /\ ~Over(s)
      BY <2>1, <2>2 DEF Unlist, Started, Over, Serving
    <3>3. device[s] # device[r]
      BY <3>1, <3>2 DEF OneAtATime
    <3> QED
      BY <1>1, <2>1, <2>2, <3>1, <3>3 DEF Unlist, TypeOK
  <2>3. CASE ~Unlist(r)
    <3>1. UNCHANGED active
      BY <1>6, <2>3
      DEF TaskStep, AnnounceStarted, SessionDies, AnnounceReconnecting, BackoffOver,
          ReconnectDone, ReconnectFails, SeeCancel, Fatal, Leave, CloseCapture,
          AnnounceError, AnnounceStopped
    <3> QED
      BY <1>1, <2>1, <3>1
  <2> QED
    BY <2>2, <2>3
<1>7. ASSUME NEW k \in Callers, StopCall(k) PROVE Goal
  <2>1. ASSUME NEW d \in Devices, StopStream(k, d) PROVE Goal
    BY <1>3, <2>1 DEF StopStream, StopBusy, callVars, taskVars
  <2>2. CASE Signal(k)
    <3>1. \A j \in Callers : stop'[j].target = stop[j].target /\ (StopBusy(j) => StopBusy(j)')
      BY <2>2 DEF Signal, StopBusy, TypeOK
    <3> QED
      BY <2>2, <3>1 DEF Signal, Tracked, callVars, taskVars
  <2>3. CASE Join(k) \/ Abandon(k)
    <3>1. \A j \in Callers : j # k => stop'[j] = stop[j]
      BY <2>3 DEF Join, Abandon, TypeOK
    <3>2. stop[k].target = s => s \in abandoned'
      BY <2>3 DEF Join, Abandon, Serving, taskVars
    <3>3. UNCHANGED <<call, device, task, active>> /\ abandoned \subseteq abandoned'
      BY <2>3 DEF Join, Abandon, callVars, taskVars
    <3> QED
      BY <3>1, <3>2, <3>3 DEF Tracked, StopBusy
  <2> QED
    BY <1>7, <2>1, <2>2, <2>3 DEF StopCall
<1>8. ASSUME NEW r \in Streams, Lapses(r) PROVE Goal
  BY <1>1, <1>8, LapseKeeps DEF Tracked, StopBusy
<1> QED
  BY <1>2, <1>4, <1>5, <1>6, <1>7, <1>8, NextCases

LEMMA VisitedStep ==
  ASSUME TypeInv, Visited, [Next]_vars
  PROVE  Visited'
<1> TypeOK /\ Started /\ Aimed
  BY DEF TypeInv
<1>1. ASSUME shut' = shut, todo' = todo, UNCHANGED stop,
             shut # "open" => UNCHANGED call,
             \A d \in Devices : active'[d] # NoStream => shut = "open" \/ active'[d] = active[d]
      PROVE  Visited'
  BY <1>1 DEF Visited, StopBusy, CallBusy
<1>2. CASE UNCHANGED vars \/ ForwardEvent \/ Receive
  BY <1>1, <1>2 DEF vars, ForwardEvent, Receive, callVars, stopVars
<1>3. CASE ShutdownBegins
  BY <1>3 DEF ShutdownBegins, Visited, StopBusy, CallBusy, callVars
<1>4. CASE ShutdownReturns
  BY <1>4 DEF ShutdownReturns, Visited, StopBusy, CallBusy, callVars
<1>5. ASSUME NEW d \in Devices, DeviceFound(d) \/ DeviceLost(d) \/ ShutdownStops(d)
      PROVE  Visited'
  <2>1. CASE DeviceFound(d) \/ DeviceLost(d)
    BY <1>1, <2>1 DEF DeviceFound, DeviceLost, callVars, stopVars
  <2>2. CASE ShutdownStops(d)
    <3>1. /\ UNCHANGED <<call, shut>> /\ shut = "stopping" /\ todo' = todo \ {d}
          /\ \A k \in Callers : k # Closer => stop'[k] = stop[k]
          /\ \A e \in Devices : e # d => active'[e] = active[e]
          /\ active'[d] = NoStream
      BY <2>2 DEF ShutdownStops, TakeEntry, TypeOK, callVars, Callers
    <3> QED
      BY <3>1 DEF Visited, StopBusy, CallBusy
  <2> QED
    BY <1>5, <2>1, <2>2
<1>6. ASSUME NEW r \in Streams, StartCall(r) PROVE Visited'
  <2>1. UNCHANGED <<shut, todo, stop>> /\ shut = "open"
    BY <1>6
    DEF StartCall, StartStream, FirstFrame, Connected, AskPairing, Paired, SetUpAndSpawn,
        StartFails, InsertEntry, stopVars, Visited, CallBusy, Starting
  <2> QED
    BY <2>1 DEF Visited
<1>7. ASSUME NEW r \in Streams, TaskStep(r) PROVE Visited'
  <2>1. UNCHANGED <<shut, todo, stop, call>>
    BY <1>7
    DEF TaskStep, AnnounceStarted, SessionDies, AnnounceReconnecting, BackoffOver,
        ReconnectDone, ReconnectFails, SeeCancel, Fatal, Leave, CloseCapture, Unlist,
        AnnounceError, AnnounceStopped, callVars, stopVars
  <2>2. \A d \in Devices : active'[d] # NoStream => active'[d] = active[d]
    BY <1>7
    DEF TaskStep, AnnounceStarted, SessionDies, AnnounceReconnecting, BackoffOver,
        ReconnectDone, ReconnectFails, SeeCancel, Fatal, Leave, CloseCapture, Unlist,
        AnnounceError, AnnounceStopped, TypeOK
  <2> QED
    BY <1>1, <2>1, <2>2
<1>8. ASSUME NEW k \in Callers, StopCall(k) PROVE Visited'
  <2>1. ASSUME NEW d \in Devices, StopStream(k, d) PROVE Visited'
    BY <2>1 DEF StopStream, Visited
  <2>2. CASE Signal(k) \/ Join(k) \/ Abandon(k)
    <3>1. UNCHANGED <<shut, todo, call, active>> /\ StopBusy(k)
      BY <2>2 DEF Signal, Join, Abandon, StopBusy, callVars
    <3>2. \A j \in Callers : j # k => stop'[j] = stop[j]
      BY <2>2 DEF Signal, Join, Abandon, TypeOK
    <3> QED
      BY <3>1, <3>2 DEF Visited, StopBusy, CallBusy
  <2> QED
    BY <1>8, <2>1, <2>2 DEF StopCall
<1>9. ASSUME NEW r \in Streams, Lapses(r) PROVE Visited'
  BY <1>1, <1>9, LapseKeeps
<1> QED
  BY <1>2, <1>3, <1>4, <1>5, <1>6, <1>7, <1>8, <1>9, NextCases

THEOREM ShutdownWaits ==
  ASSUME AllowOverlap = FALSE
  PROVE  Spec => []ShutdownReleases
<1>1. Init => CauseInv /\ Tracked /\ Visited
  BY CauseInit DEF Init, Tracked, Visited, Serving
<1>2. CauseInv /\ Tracked /\ Visited /\ [Next]_vars => CauseInv' /\ Tracked' /\ Visited'
  BY CauseStep, TrackedStep, VisitedStep DEF CauseInv
<1>3. CauseInv /\ Tracked /\ Visited => ShutdownReleases
  <2> SUFFICES ASSUME CauseInv, Tracked, Visited, shut = "done",
                      NEW s \in Streams, Live(s), holds[s] \cap Waited # {}
               PROVE  s \in abandoned
    BY DEF ShutdownReleases
  <2>1. task[s] \in Serving \cup {"closing"} /\ device[s] \in Devices
    BY DEF CauseInv, TypeInv, Torn, Started, Live, Serving, Ending
  <2>2. call[s] # "spawned" /\ (\A k \in Callers : ~StopBusy(k)) /\ active[device[s]] = NoStream
    BY <2>1 DEF Visited, CallBusy
  <2> QED
    BY <2>1, <2>2, StreamManagerAssumption DEF Tracked
<1> QED
  BY <1>1, <1>2, <1>3, PTL DEF Spec
=============================================================================
