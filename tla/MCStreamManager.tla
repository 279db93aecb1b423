--------------------------- MODULE MCStreamManager ---------------------------
(* StreamManager on small instances: see the cfg files of the two runs.    *)
EXTENDS StreamManager, TLC

(* Devices are interchangeable, and so are events in flight: guards and    *)
(* properties read how many are queued, never which. For safety runs only. *)
(* (Streams are not interchangeable: their configurations differ.)         *)
Symmetry == Permutations(Devices)
InFlightCounted ==
  <<known, Len(forward), callVars, taskVars, cancelled, holds, active, stopVars,
    Len(events)>>
=============================================================================
