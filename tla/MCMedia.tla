------------------------------- MODULE MCMedia -------------------------------
(***************************************************************************)
(* The parts of a stream that run at different speeds and meet only in a   *)
(* number or a queue: pictures through the codecs, the bitrate, the loop's *)
(* clock, the sound, the reconnects, the muxer's timeline, the transport   *)
(* stream.  part says which one a behaviour runs; the others stay in their *)
(* initial states, where no fairness of theirs has a step to ask for.      *)
(***************************************************************************)
EXTENDS
  VideoCoding, AdaptiveBitrate, FramePacing, AudioPath, StreamSupervisor, AudioTimeline,
  TransportStream

VARIABLE part

mediaVars ==
  <<part, videoVars, bitrateVars, pacingVars, audioVars, vars, timelineVars, transportVars>>

MediaInit ==
  /\ part \in {"video", "bitrate", "pacing", "audio", "supervisor", "timeline", "transport"}
  /\ VideoInit /\ BitrateInit /\ PacingInit /\ AudioInit /\ Init /\ TimelineInit /\ TransportInit
  /\ part # "video" => vHost = [codec |-> "h264", want |-> "", works |-> {}, pixels |-> "bgra"]
  /\ part # "bitrate" => aBackend = "other"
  /\ part # "audio" => uCodec = "aac"
  /\ part # "timeline" => yExternal
  /\ part # "transport" => wAudio

MediaNext ==
  \/ /\ part = "video" /\ VideoNext
     /\ UNCHANGED <<part, bitrateVars, pacingVars, audioVars, vars, timelineVars, transportVars>>
  \/ /\ part = "bitrate" /\ BitrateNext
     /\ UNCHANGED <<part, videoVars, pacingVars, audioVars, vars, timelineVars, transportVars>>
  \/ /\ part = "pacing" /\ PacingNext
     /\ UNCHANGED <<part, videoVars, bitrateVars, audioVars, vars, timelineVars, transportVars>>
  \/ /\ part = "audio" /\ AudioNext
     /\ UNCHANGED <<part, videoVars, bitrateVars, pacingVars, vars, timelineVars, transportVars>>
  \/ /\ part = "supervisor" /\ Next
     /\ UNCHANGED <<part, videoVars, bitrateVars, pacingVars, audioVars, timelineVars, transportVars>>
  \/ /\ part = "timeline" /\ TimelineNext
     /\ UNCHANGED <<part, videoVars, bitrateVars, pacingVars, audioVars, vars, transportVars>>
  \/ /\ part = "transport" /\ TransportNext
     /\ UNCHANGED <<part, videoVars, bitrateVars, pacingVars, audioVars, vars, timelineVars>>

MediaSpec == MediaInit /\ [][MediaNext]_mediaVars /\ BitrateFairness /\ Fairness

\* Type correctness of the seven parts.
MediaTypeOK ==
  /\ VideoTypeOK /\ BitrateTypeOK /\ PacingTypeOK /\ AudioTypeOK /\ TypeOK
  /\ TimelineTypeOK /\ TransportTypeOK
=============================================================================
