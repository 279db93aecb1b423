--------------------------- MODULE DeviceDirectory ---------------------------
(***************************************************************************)
(* The list of devices, from the network to the window.  A browse task per *)
(* protocol turns mDNS into DiscoveryEvents; the manager's forwarder keeps *)
(* the map of devices and passes an event on; the daemon relays it to the  *)
(* window, which keeps a copy of its own.  The receiver of this process    *)
(* advertises itself on the same network and is filtered out by its id.    *)
(* Streams come in for what they say to the window: how they run is        *)
(* StreamManager's.  A second start_discovery is left out.                 *)
(***************************************************************************)
EXTENDS Naturals, Sequences

CONSTANTS
  CastServices,     \* Chromecasts that may appear
  AirPlayServices,  \* AirPlay receivers that may appear
  Nameless,         \* Chromecasts whose TXT record has no usable id
  Us,               \* the Chromecast receiver of this process
  Casts,            \* streams, each started once
  ChannelRoom,      \* places in each channel (256 in the code)
  MaxTidings        \* bound: announcements the network makes

ASSUME DirectoryAssumption ==
  /\ Us \in CastServices \ Nameless /\ CastServices \cap AirPlayServices = {}
  /\ ChannelRoom \in Nat \ {0} /\ MaxTidings \in Nat

Services == CastServices \cup AirPlayServices
Protocols == {"chromecast", "airplay"}
ProtocolOf(s) == IF s \in CastServices THEN "chromecast" ELSE "airplay"

\* A device's id: the TXT record's, as 0, or a random one, as the number of its making.
Ids == [of : Services, nr : 0 .. MaxTidings]
Named(s) == s \in CastServices \ Nameless

VARIABLES
  gNet, gTidings,   \* the services announced; bound
  gAdvert,          \* our advertiser: off, announced, on, withdrawn
  gFilter,          \* self_filter's registry has our id
  gBrowse, gWire,   \* each protocol's browse task, and what its mDNS daemon has for it
  gKnown,           \* the tasks' known, as ids
  gFound,           \* the DiscoveryEvent channel
  gDevices,         \* self.devices
  gForward,         \* the forwarder's event, applied and not sent
  gEvents, gQueue,  \* the manager's channel of events, and the daemon's to the window
  gShown, gStreaming, \* AppState
  gCast,            \* each stream: [id, at]
  gEarly,           \* history: our own service was resolved when the registry had no id of ours
  gHidden           \* history: ids lost, or started again, while they had a stream

network == <<gNet, gTidings>>
ours == <<gAdvert, gFilter>>
browsers == <<gBrowse, gWire, gKnown>>
manager == <<gDevices, gForward, gEvents>>
window == <<gQueue, gShown, gStreaming, gHidden>>
passedOn == <<gFound, manager, window>>
directoryVars == <<network, ours, browsers, passedOn, gCast, gEarly>>

Nobody == [of |-> Us, nr |-> MaxTidings + 1]
Said(kind, i) == [kind |-> kind, id |-> i]
Fits(channel) == Len(channel) < ChannelRoom

DirectoryTypeOK ==
  /\ gNet \subseteq Services /\ gTidings \in 0 .. MaxTidings
  /\ gAdvert \in {"off", "announced", "on", "withdrawn"} /\ gFilter \in BOOLEAN
  /\ gBrowse \in [Protocols -> {"off", "on", "failed", "stopped"}]
  /\ gWire \in [Protocols -> Seq([kind : {"resolved", "removed"}, of : Services, nr : 0 .. MaxTidings])]
  /\ gKnown \subseteq Ids /\ gDevices \subseteq Ids
  /\ \A channel \in {gFound, gForward, gEvents, gQueue} : Len(channel) <= ChannelRoom
  /\ gShown \subseteq Ids /\ gStreaming \subseteq Ids /\ gHidden \subseteq Ids
  /\ gCast \in [Casts -> [id : Ids \cup {Nobody}, at : {"idle", "asked", "new", "live", "gone", "done"}]]
  /\ gEarly \in BOOLEAN

DirectoryInit ==
  /\ gNet = {} /\ gTidings = 0 /\ gAdvert = "off" /\ gFilter = FALSE
  /\ gBrowse = [p \in Protocols |-> "off"] /\ gWire = [p \in Protocols |-> <<>>] /\ gKnown = {}
  /\ gFound = <<>> /\ gDevices = {} /\ gForward = <<>> /\ gEvents = <<>> /\ gQueue = <<>>
  /\ gShown = {} /\ gStreaming = {}
  /\ gCast = [c \in Casts |-> [id |-> Nobody, at |-> "idle"]]
  /\ gEarly = FALSE /\ gHidden = {}
-----------------------------------------------------------------------------
\* The network. mdns-sd says resolved again when a record of a service changes; nr is the number
\* of the announcement, from which a random id takes its name.
Heard(kind, s) == [kind |-> kind, of |-> s, nr |-> gTidings]
Tell(kind, s) ==
  /\ gTidings < MaxTidings /\ gTidings' = gTidings + 1
  /\ gWire' = IF gBrowse[ProtocolOf(s)] = "on"
              THEN [gWire EXCEPT ![ProtocolOf(s)] = Append(@, [Heard(kind, s) EXCEPT !.nr = gTidings'])]
              ELSE gWire

Appear(s) ==
  /\ s # Us /\ gBrowse[ProtocolOf(s)] = "on" /\ Tell("resolved", s) /\ gNet' = gNet \cup {s}
  /\ UNCHANGED <<ours, gBrowse, gKnown, passedOn, gCast, gEarly>>

Withdraw(s) ==
  /\ s # Us /\ s \in gNet /\ Tell("removed", s) /\ gNet' = gNet \ {s}
  /\ UNCHANGED <<ours, gBrowse, gKnown, passedOn, gCast, gEarly>>

-----------------------------------------------------------------------------
\* ChromecastReceiverAdvertiser: the id enters the registry after the service is registered, and
\* leaves it after the service is.

AdvertiseStart ==
  /\ gAdvert = "off" /\ gAdvert' = "announced"
  /\ gNet' = gNet \cup {Us} /\ Tell("resolved", Us)
  /\ UNCHANGED <<gFilter, gBrowse, gKnown, passedOn, gCast, gEarly>>

RegisterOurId ==
  /\ gAdvert = "announced" /\ gAdvert' = "on" /\ gFilter' = TRUE
  /\ UNCHANGED <<network, browsers, passedOn, gCast, gEarly>>

AdvertiseStop ==
  /\ gAdvert = "on" /\ gAdvert' = "withdrawn"
  /\ gNet' = gNet \ {Us} /\ Tell("removed", Us)
  /\ UNCHANGED <<gFilter, gBrowse, gKnown, passedOn, gCast, gEarly>>

UnregisterOurId ==
  /\ gAdvert = "withdrawn" /\ gFilter /\ gFilter' = FALSE
  /\ UNCHANGED <<network, gAdvert, browsers, passedOn, gCast, gEarly>>

-----------------------------------------------------------------------------
\* The browse tasks.

\* start_discovery, one protocol after the other; one that fails is skipped.
StartBrowse(p) ==
  /\ gBrowse[p] = "off" /\ (p = "airplay" => gBrowse["chromecast"] # "off")
  /\ \/ /\ gBrowse' = [gBrowse EXCEPT ![p] = "on"]
        /\ gWire' = IF p = ProtocolOf(Us) /\ Us \in gNet
                    THEN [gWire EXCEPT ![p] = <<Heard("resolved", Us)>>] ELSE gWire
     \/ gBrowse' = [gBrowse EXCEPT ![p] = "failed"] /\ UNCHANGED gWire
  /\ UNCHANGED <<network, ours, gKnown, passedOn, gCast, gEarly>>

\* known, a map from full names to ids.
IdOf(heard) == [of |-> heard.of, nr |-> IF Named(heard.of) THEN 0 ELSE heard.nr]
\* (Mutant: a service that was removed stays known.)
KeepKnown(s) == gKnown
Unknown(s) == {i \in gKnown : i.of # s}
Known(i) == Unknown(i.of) \cup {i}

Takes(p, kind) ==
  /\ gBrowse[p] = "on" /\ gWire[p] # <<>> /\ Head(gWire[p]).kind = kind
  /\ gWire' = [gWire EXCEPT ![p] = Tail(@)]

\* Ours and filtered; or without an address, or an AirPlay receiver that does not answer the probe
\* or lacks what it takes: skipped.
Resolved(p) ==
  /\ Takes(p, "resolved")
  /\ LET i == IdOf(Head(gWire[p]))
     IN  \/ /\ ~(i.of = Us /\ gFilter) /\ Fits(gFound)
            /\ gKnown' = Known(i) /\ gFound' = Append(gFound, Said("found", i))
            /\ gEarly' = (gEarly \/ (i.of = Us /\ ~gFilter))
         \/ UNCHANGED <<gKnown, gFound, gEarly>>
  /\ UNCHANGED <<network, ours, gBrowse, manager, window, gCast>>

Removed(p) ==
  /\ Takes(p, "removed")
  /\ LET s == Head(gWire[p]).of
         lost == {i \in gKnown : i.of = s}
     IN  /\ gKnown' = Unknown(s)
         /\ \/ lost = {} /\ UNCHANGED gFound
            \/ Fits(gFound) /\ \E i \in lost : gFound' = Append(gFound, Said("lost", i))
  /\ UNCHANGED <<network, ours, gBrowse, manager, window, gCast, gEarly>>

\* stop_discovery ends the Chromecast browse; AirPlay's stop does nothing.
StopDiscovery ==
  /\ gBrowse["chromecast"] = "on" /\ gBrowse["airplay"] # "off"
  /\ gBrowse' = [gBrowse EXCEPT !["chromecast"] = "stopped"]
  /\ gWire' = [gWire EXCEPT !["chromecast"] = <<>>]
  /\ gKnown' = {i \in gKnown : ProtocolOf(i.of) # "chromecast"}
  /\ UNCHANGED <<network, ours, passedOn, gCast, gEarly>>

-----------------------------------------------------------------------------
\* The manager's forwarder, and the daemon's signal_loop, which feeds the window.
Forward ==
  \/ /\ gForward = <<>> /\ gFound # <<>> /\ gForward' = <<Head(gFound)>> /\ gFound' = Tail(gFound)
     /\ gDevices' = IF Head(gFound).kind = "found" THEN gDevices \cup {Head(gFound).id}
                    ELSE gDevices \ {Head(gFound).id}
     /\ UNCHANGED <<gEvents>>
  \/ /\ gForward # <<>> /\ Fits(gEvents)
     /\ gEvents' = Append(gEvents, gForward[1]) /\ gForward' = <<>>
     /\ UNCHANGED <<gFound, gDevices>>

DirectoryForwards ==
  Forward /\ UNCHANGED <<network, ours, browsers, window, gCast, gEarly>>

Relay ==
  /\ gEvents # <<>> /\ Fits(gQueue)
  /\ gQueue' = Append(gQueue, Head(gEvents)) /\ gEvents' = Tail(gEvents)
  /\ UNCHANGED <<network, ours, browsers, gFound, gDevices, gForward, gShown, gStreaming, gHidden,
                 gCast, gEarly>>

\* The streams of a device that say they run.
Runs(i) == \E c \in Casts : gCast[c].id = i /\ gCast[c].at \in {"new", "live"}

WindowLearns ==
  /\ gQueue # <<>> /\ gQueue' = Tail(gQueue)
  /\ LET i == Head(gQueue).id
         kind == Head(gQueue).kind
     IN  /\ gShown' = CASE kind = "found" -> gShown \cup {i}
                        [] kind = "lost" -> gShown \ {i}
                        [] OTHER -> gShown
         /\ gStreaming' = CASE kind = "started" -> gStreaming \cup {i}
                            [] kind \in {"lost", "stopped"} -> gStreaming \ {i}
                            [] OTHER -> gStreaming
         /\ gHidden' = IF kind \in {"lost", "stopped"} /\ Runs(i) THEN gHidden \cup {i} ELSE gHidden
  /\ UNCHANGED <<network, ours, browsers, gFound, manager, gCast, gEarly>>

-----------------------------------------------------------------------------
\* A stream, as far as the window is told: start_stream looks the device up long before the task
\* says it has started, and the task has the last word.
CastStep(c, from, to) == gCast[c].at = from /\ gCast' = [gCast EXCEPT ![c].at = to]

CastAsked(c, i) ==
  /\ gCast[c].at = "idle" /\ i \in gDevices
  /\ gCast' = [gCast EXCEPT ![c] = [id |-> i, at |-> "asked"]]
  /\ UNCHANGED <<network, ours, browsers, passedOn, gEarly>>

CastSpawned(c) ==
  /\ CastStep(c, "asked", "new") \/ CastStep(c, "asked", "done") \/ CastStep(c, "live", "gone")
  /\ UNCHANGED <<network, ours, browsers, passedOn, gEarly>>

CastSays(c, from, to, kind) ==
  /\ CastStep(c, from, to) /\ Fits(gEvents) /\ gEvents' = Append(gEvents, Said(kind, gCast[c].id))
  /\ UNCHANGED <<network, ours, browsers, gFound, gDevices, gForward, window, gEarly>>

DirectoryNext ==
  \/ \E s \in Services : Appear(s) \/ Withdraw(s)
  \/ AdvertiseStart \/ RegisterOurId \/ AdvertiseStop \/ UnregisterOurId
  \/ \E p \in Protocols : StartBrowse(p) \/ Resolved(p) \/ Removed(p)
  \/ StopDiscovery \/ DirectoryForwards \/ Relay \/ WindowLearns
  \/ \E c \in Casts :
       \/ \E i \in gDevices : CastAsked(c, i)
       \/ CastSpawned(c)
       \/ CastSays(c, "new", "live", "started") \/ CastSays(c, "gone", "done", "stopped")

DirectorySpec == DirectoryInit /\ [][DirectoryNext]_directoryVars
-----------------------------------------------------------------------------
\* PROPERTIES

Settled ==
  /\ \A p \in Protocols : gWire[p] = <<>>
  /\ gFound = <<>> /\ gForward = <<>> /\ gEvents = <<>> /\ gQueue = <<>>
  /\ \A c \in Casts : gCast[c].at \notin {"new", "gone"}

\* When nothing is under way the window, three channels from the network, lists what the browse
\* tasks know, and of what they do not know only random ids that a later resolve has replaced;
\* it lists this very process only if that was resolved while self_filter had no id of ours; and
\* it shows a stream where one runs, but where the device was lost or cast to a second time.
SettledWindowIsRight ==
  Settled =>
    /\ gShown = gDevices
    /\ \A i \in gDevices \cup gKnown : gBrowse[ProtocolOf(i.of)] = "on" =>
         /\ i \in gKnown => i \in gDevices
         /\ i \notin gKnown => i.nr # 0
         /\ i.nr = 0 => i.of \in gNet
    /\ (\E i \in gDevices : i.of = Us) => gEarly
    /\ \A i \in gStreaming : Runs(i)
    /\ \A i \in Ids : Runs(i) => i \in gStreaming \cup gHidden

\* A device that is gone is not listed; a random id is, once a resolve has replaced it.
NoGhostDevice == Settled => \A i \in gDevices : gBrowse[ProtocolOf(i.of)] = "on" => i \in gKnown
=============================================================================
