-------------------------- MODULE SourceEnumerator --------------------------
(***************************************************************************)
(* The picker's view of the desktop.  A thread of the daemon follows the   *)
(* compositor's outputs and toplevels, keeps a snapshot and broadcasts     *)
(* that something changed; the daemon turns that into D-Bus signals; a     *)
(* client lists again on each signal.  A thumbnail is a thread and a       *)
(* connection of its own, told nothing by the enumerator but an id.        *)
(***************************************************************************)
EXTENDS Naturals, Sequences, FiniteSets

CONSTANTS Outputs, Windows,  \* what may be plugged in, what may be opened
          MaxTurns,          \* bound: what happens on the desktop
          ChangeCap,         \* room in the broadcast channel (the code's is 16)
          Wlr                \* the compositor has the wlr toplevel manager, not the ext list

ASSUME SourcesAssumption == MaxTurns \in Nat /\ ChangeCap \in Nat \ {0} /\ Wlr \in BOOLEAN

VARIABLES cPlugged, cOpen, cTurns,        \* the compositor's truth; a window has a title, a number
          ePc, eWire, eOut, eTop, eDirty, \* the enumerator's thread and its State
          eSnap,                          \* the shared Snapshot
          sQueue, sLagged,                \* the daemon's receiver of SourceChange
          kSignals, kList,                \* signals under way to the client, and what it shows
          tPc, tTarget, tHeard, tAnswer   \* a thumbnail

desktop == <<cPlugged, cOpen, cTurns>>
tables == <<eOut, eTop, eDirty>>
changes == <<sQueue, sLagged>>
client == <<kSignals, kList>>
thumb == <<tPc, tTarget, tHeard, tAnswer>>
sourceVars == <<desktop, ePc, eWire, tables, eSnap, changes, client, thumb>>

Listing == [monitors : SUBSET Outputs, windows : SUBSET (Windows \X (1 .. MaxTurns + 1))]
Empty == [monitors |-> {}, windows |-> {}]
Change == {"monitors", "windows"}

\* Type correctness of the tables, the snapshot and the thumbnail.
SourcesTypeOK ==
  /\ cPlugged \subseteq Outputs /\ cOpen \in [Windows -> 0 .. MaxTurns + 1] /\ cTurns \in 0 .. MaxTurns
  /\ ePc \in {"none", "dispatch", "store", "send", "dead"}
  /\ eOut \in [Outputs -> {"none", "bound", "ready"}]
  /\ \A w \in Windows : eTop[w].seen \in {"none", "known", "ready"} /\ eTop[w].title \in 0 .. MaxTurns + 1
  /\ eDirty \subseteq Change
  /\ eSnap \in Listing /\ kList \in Listing
  /\ Len(sQueue) <= ChangeCap /\ sLagged \in BOOLEAN /\ kSignals \subseteq Change
  /\ tPc \in {"idle", "offer", "copy", "search", "session", "frame", "answered"}
  /\ tHeard \subseteq {"offer", "found", "formats", "ready", "failed", "event"}
  /\ tAnswer \in {"none", "png", "error", "not_found"}

SourcesInit ==
  /\ cPlugged \in SUBSET Outputs /\ cTurns = 0
  /\ cOpen \in [Windows -> {0, 1}]
  /\ ePc = "none" /\ eWire = <<>>
  /\ eOut = [o \in Outputs |-> "none"]
  /\ eTop = [w \in Windows |-> [seen |-> "none", title |-> 0]] /\ eDirty = {}
  /\ eSnap = Empty
  /\ sQueue = <<>> /\ sLagged = FALSE /\ kSignals = {} /\ kList = Empty
  /\ tPc = "idle" /\ tTarget = "none" /\ tHeard = {} /\ tAnswer = "none"

-----------------------------------------------------------------------------
\* What an event does to the tables, for each Dispatch of the State.

\* Registry, wl_output, xdg_output: a global is bound, an output is ready at its done.  The
\* registry's handler knows no other event: an output that goes away is not heard of.
OutAfter(out, e) ==
  CASE e[1] = "global"      -> [out EXCEPT ![e[2]] = "bound"]
    [] e[1] = "output_done" -> [out EXCEPT ![e[2]] = "ready"]
    [] OTHER                -> out

\* Toplevels: announced, named, done, closed.  A wlr window counts as ready at its title, an
\* ext one only at done; an event of a handle that is not in the table is ignored.
TopAfter(top, e) ==
  IF e[1] = "toplevel" THEN [top EXCEPT ![e[2]] = [seen |-> "known", title |-> 0]]
  ELSE IF e[1] \notin {"title", "done", "closed"} \/ top[e[2]].seen = "none" THEN top
  ELSE [top EXCEPT ![e[2]] =
    CASE e[1] = "title"  -> [seen |-> IF Wlr THEN "ready" ELSE @.seen, title |-> e[3]]
      [] e[1] = "done"   -> [@ EXCEPT !.seen = "ready"]
      [] e[1] = "closed" -> [seen |-> "none", title |-> 0]]

\* The dirty flags: an event of a window the table does not have leaves them.
DirtyAfter(top, e) ==
  CASE e[1] \in {"global", "output_done"} -> {"monitors"}
    [] e[1] = "toplevel"                  -> {"windows"}
    [] e[1] \in {"title", "done", "closed"} /\ top[e[2]].seen # "none" -> {"windows"}
    [] OTHER                              -> {}

\* A batch of events, from left to right.
AfterBatch(batch) ==
  LET step[i \in 0 .. Len(batch)] ==
        IF i = 0 THEN [out |-> eOut, top |-> eTop, dirty |-> eDirty]
        ELSE LET s == step[i - 1]
             IN  [out |-> OutAfter(s.out, batch[i]), top |-> TopAfter(s.top, batch[i]),
                  dirty |-> s.dirty \union DirtyAfter(s.top, batch[i])]
  IN  step[Len(batch)]

\* The snapshot: ready outputs, ready windows.
Recompute(out, top) ==
  [monitors |-> {o \in Outputs : out[o] = "ready"},
   windows  |-> {<<w, top[w].title>> : w \in {v \in Windows : top[v].seen = "ready"}}]

-----------------------------------------------------------------------------
\* The enumerator.

Announce(w, title) == <<<<"toplevel", w>>, <<"title", w, title>>, <<"done", w>>>>

\* try_new: bind everything, one roundtrip for what exists, the first snapshot, the thread.
\* The daemon subscribes next and the client lists.
TryNew ==
  /\ ePc = "none"
  /\ eOut' = [o \in Outputs |-> IF o \in cPlugged THEN "ready" ELSE "none"]
  /\ eTop' = [w \in Windows |-> IF cOpen[w] # 0 THEN [seen |-> "ready", title |-> cOpen[w]]
                                                ELSE [seen |-> "none", title |-> 0]]
  /\ eSnap' = Recompute(eOut', eTop') /\ kList' = eSnap'
  /\ ePc' = "dispatch"
  /\ UNCHANGED <<desktop, eWire, eDirty, changes, kSignals, thumb>>

\* blocking_dispatch: at least one event, and those that arrived with it.
Dispatched(k) ==
  /\ ePc = "dispatch" /\ k \in 1 .. Len(eWire)
  /\ LET after == AfterBatch(SubSeq(eWire, 1, k))
     IN  /\ eOut' = after.out /\ eTop' = after.top /\ eDirty' = after.dirty
         /\ ePc' = IF after.dirty = {} THEN "dispatch" ELSE "store"
  /\ eWire' = SubSeq(eWire, k + 1, Len(eWire))
  /\ UNCHANGED <<desktop, eSnap, changes, client, thumb>>

\* recompute: the snapshot first ...
StoreSnapshot ==
  /\ ePc = "store"
  /\ eSnap' = Recompute(eOut, eTop)
  /\ ePc' = "send"
  /\ UNCHANGED <<desktop, eWire, tables, changes, client, thumb>>

\* ... then who wants to know.  A full broadcast channel loses its oldest entry.
Broadcast ==
  /\ ePc = "send"
  /\ \E order \in [1 .. Cardinality(eDirty) -> eDirty] :
       /\ {order[i] : i \in DOMAIN order} = eDirty
       /\ \A i \in DOMAIN order : order[i] = "monitors" => i = 1
       /\ LET all == sQueue \o order
              lost == IF Len(all) > ChangeCap THEN Len(all) - ChangeCap ELSE 0
          IN  /\ sQueue' = SubSeq(all, lost + 1, Len(all))
              /\ sLagged' = (sLagged \/ lost > 0)
  /\ eDirty' = {}
  /\ ePc' = "dispatch"
  /\ UNCHANGED <<desktop, eWire, eOut, eTop, eSnap, client, thumb>>

\* The connection fails, or a handler panics: the thread ends and the snapshot stays.
EnumeratorDies ==
  /\ ePc = "dispatch"
  /\ ePc' = "dead"
  /\ UNCHANGED <<desktop, eWire, tables, eSnap, changes, client, thumb>>

-----------------------------------------------------------------------------
\* What a receiver that lagged tells the client.
LagIgnored == {}
AfterLag == Change

\* The daemon's source_signal_loop: one signal for each change, both after a lag.
EmitSignal ==
  /\ \/ /\ sLagged
        /\ kSignals' = kSignals \union AfterLag /\ sLagged' = FALSE
        /\ UNCHANGED sQueue
     \/ /\ ~sLagged /\ sQueue # <<>>
        /\ kSignals' = kSignals \union {sQueue[1]} /\ sQueue' = Tail(sQueue)
        /\ UNCHANGED sLagged
  /\ UNCHANGED <<desktop, ePc, eWire, tables, eSnap, kList, thumb>>

\* The client lists what a signal names.
ListAgain(change) ==
  /\ change \in kSignals
  /\ kSignals' = kSignals \ {change}
  /\ kList' = [kList EXCEPT ![change] = eSnap[change]]
  /\ UNCHANGED <<desktop, ePc, eWire, tables, eSnap, changes, thumb>>

-----------------------------------------------------------------------------
\* Thumbnails.

\* The name of an output is matched after a roundtrip.
AskMonitor(o) ==
  /\ tTarget' = o
  /\ IF o \in cPlugged THEN tPc' = "offer" /\ UNCHANGED tAnswer
                       ELSE tPc' = "answered" /\ tAnswer' = "not_found"
  /\ UNCHANGED tHeard

\* The identifier of a window is waited for, and a wlr window's id is no identifier.
Identified(w) == IF cOpen[w] # 0 /\ ~Wlr THEN {"found"} ELSE {}
AskWindow(w) ==
  /\ tTarget' = w /\ tPc' = "search"
  /\ tHeard' = (IF \E v \in Windows : cOpen[v] # 0 THEN {"event"} ELSE {}) \union Identified(w)
  /\ UNCHANGED tAnswer

\* GetMonitorThumbnail / GetWindowThumbnail of something the client shows.
AskThumbnail ==
  /\ tPc = "idle" /\ ePc # "none"
  /\ \/ \E o \in kList.monitors : AskMonitor(o)
     \/ \E w \in {l[1] : l \in kList.windows} : AskWindow(w)
  /\ UNCHANGED <<desktop, ePc, eWire, tables, eSnap, changes, client>>

\* The search ends with the window, or at the first event after half a second without it.
ThumbFound ==
  /\ tPc = "search" /\ tHeard # {}
  /\ \/ "found" \in tHeard /\ tPc' = "session" /\ UNCHANGED tAnswer
     \/ "found" \notin tHeard /\ tPc' = "answered" /\ tAnswer' = "not_found"
     \/ "found" \notin tHeard /\ UNCHANGED <<tPc, tAnswer>>
  /\ tHeard' = {}
  /\ UNCHANGED <<desktop, ePc, eWire, tables, eSnap, changes, client, tTarget>>

\* The buffer is known and allocated, the copy is asked for; or something of it fails.
\* A session that stopped counts as done, and its frame as failed.
NoBuffer == tPc' = "answered" /\ tAnswer' = "error" /\ tHeard' = {}
ThumbCopies ==
  /\ tPc \in {"offer", "session"}
  /\ (IF tPc = "offer" THEN "offer" ELSE "formats") \in tHeard
  /\ \/ tPc' = (IF tPc = "offer" THEN "copy" ELSE "frame") /\ tHeard' = tHeard \intersect {"failed"} /\ UNCHANGED tAnswer
     \/ NoBuffer
  /\ UNCHANGED <<desktop, ePc, eWire, tables, eSnap, changes, client, tTarget>>

\* FrameStatus has left Pending.
CopyOver == tHeard \intersect {"ready", "failed"} # {}

\* The pixels, turned upright, scaled and encoded; or the refusal.
ThumbDone ==
  /\ tPc \in {"copy", "frame"} /\ CopyOver
  /\ tPc' = "answered" /\ tHeard' = {}
  /\ tAnswer' = IF "failed" \in tHeard THEN "error" ELSE "png"
  /\ UNCHANGED <<desktop, ePc, eWire, tables, eSnap, changes, client, tTarget>>

\* What the compositor says of an output's frame, and of a window's session and frame: what is
\* gone fails, and a session that stopped counts as one whose formats are known.
MonitorHears(there) ==
  IF ~there THEN {"failed"} ELSE IF tPc = "offer" THEN {"offer"} ELSE {"ready"}
WindowHears(there) ==
  (IF tPc = "session" THEN {"formats"} ELSE IF there THEN {"ready"} ELSE {})
    \union (IF there THEN {} ELSE {"failed"})

ThumbHears ==
  /\ tPc \in {"offer", "session", "copy", "frame"} /\ tHeard = {}
  /\ tHeard' = IF tPc \in {"offer", "copy"} THEN MonitorHears(tTarget \in cPlugged)
                                             ELSE WindowHears(cOpen[tTarget] # 0)
  /\ UNCHANGED <<desktop, ePc, eWire, tables, eSnap, changes, client, tPc, tTarget, tAnswer>>

-----------------------------------------------------------------------------
\* The desktop.
Turn(events) ==
  /\ ePc # "none" /\ cTurns < MaxTurns
  /\ cTurns' = cTurns + 1
  /\ eWire' = eWire \o events
  /\ UNCHANGED <<ePc, tables, eSnap, changes, client, tPc, tTarget, tAnswer>>

PlugOutput(o) ==
  /\ o \notin cPlugged /\ cPlugged' = cPlugged \union {o}
  /\ Turn(<<<<"global", o>>, <<"output_done", o>>>>) /\ UNCHANGED <<cOpen, tHeard>>
UnplugOutput(o) ==
  /\ o \in cPlugged /\ cPlugged' = cPlugged \ {o}
  /\ Turn(<<<<"global_remove", o>>>>) /\ UNCHANGED <<cOpen, tHeard>>
OpenWindow(w) ==
  /\ cOpen[w] = 0 /\ cOpen' = [cOpen EXCEPT ![w] = 1]
  /\ Turn(Announce(w, 1)) /\ UNCHANGED cPlugged
  /\ tHeard' = IF tPc = "search"
               THEN tHeard \union {"event"} \union (IF w = tTarget /\ ~Wlr THEN {"found"} ELSE {}) ELSE tHeard
Retitle(w) ==
  /\ cOpen[w] # 0 /\ cOpen' = [cOpen EXCEPT ![w] = @ + 1]
  /\ Turn(<<<<"title", w, cOpen[w] + 1>>, <<"done", w>>>>) /\ UNCHANGED cPlugged
  /\ tHeard' = IF tPc = "search" THEN tHeard \union {"event"} ELSE tHeard
CloseWindow(w) ==
  /\ cOpen[w] # 0 /\ cOpen' = [cOpen EXCEPT ![w] = 0]
  /\ Turn(<<<<"closed", w>>>>) /\ UNCHANGED cPlugged
  /\ tHeard' = IF tPc = "search" THEN tHeard \union {"event"} ELSE tHeard

SourcesNext ==
  \/ TryNew \/ StoreSnapshot \/ Broadcast \/ EnumeratorDies
  \/ \E k \in 1 .. 3 * MaxTurns : Dispatched(k)
  \/ EmitSignal
  \/ \E change \in Change : ListAgain(change)
  \/ AskThumbnail \/ ThumbFound \/ ThumbCopies \/ ThumbDone \/ ThumbHears
  \/ \E o \in Outputs : PlugOutput(o) \/ UnplugOutput(o)
  \/ \E w \in Windows : OpenWindow(w) \/ Retitle(w) \/ CloseWindow(w)

\* The thumbnail's thread runs and the compositor answers it.
SourcesFairness == WF_sourceVars(ThumbFound \/ ThumbCopies \/ ThumbDone \/ ThumbHears)
SourcesSpec == SourcesInit /\ [][SourcesNext]_sourceVars /\ SourcesFairness

-----------------------------------------------------------------------------
\* Nothing is under way between the compositor and the client, and the thread is alive.
Quiet == ePc = "dispatch" /\ eWire = <<>> /\ sQueue = <<>> /\ ~sLagged /\ kSignals = {}

\* A client that lists again on each signal ends up with the windows that are open, by their
\* titles, and with every output that is plugged in, however the events were batched and
\* whatever the channel lost (core/source.rs: subscribe, and re-list on each change).
QuietClientSeesTheDesktop ==
  Quiet => /\ kList.windows = {<<w, cOpen[w]>> : w \in {v \in Windows : cOpen[v] # 0}}
           /\ cPlugged \subseteq kList.monitors

\* A client at rest shows no output that was unplugged.
NoGhostMonitor == Quiet => kList.monitors \subseteq cPlugged
=============================================================================
