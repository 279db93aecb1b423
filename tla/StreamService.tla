---------------------------- MODULE StreamService ----------------------------
(* What the sender half of StreamManager promises about each start_stream  *)
(* call, without tasks, channels or the map: the call opens the stream or  *)
(* is refused; an open stream is served until somebody asked for its end,  *)
(* or until it fails; it never ends otherwise, and never comes back.       *)
CONSTANT Streams
VARIABLES
  phase,   (* where each stream is in its life                              *)
  asked    (* streams whose end a stop_stream or shutdown call asked for    *)

Init ==
  /\ phase = [s \in Streams |-> "idle"]
  /\ asked = {}

Goes(s, from, to) ==
  /\ phase[s] = from
  /\ phase' = [phase EXCEPT ![s] = to]
  /\ UNCHANGED asked

Open(s) == Goes(s, "idle", "opening")
Refuse(s) == Goes(s, "opening", "refused")
Serve(s) == Goes(s, "opening", "serving")
Fail(s) == Goes(s, "serving", "failed")
End(s) == s \in asked /\ Goes(s, "serving", "ended")

Ask(s) ==
  /\ phase[s] \in {"serving", "failed", "ended"}
  /\ asked' = asked \cup {s}
  /\ UNCHANGED phase

Next ==
  \E s \in Streams :
    Open(s) \/ Refuse(s) \/ Serve(s) \/ Fail(s) \/ End(s) \/ Ask(s)

Spec == Init /\ [][Next]_<<phase, asked>>
=============================================================================
