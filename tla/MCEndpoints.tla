----------------------------- MODULE MCEndpoints -----------------------------
(***************************************************************************)
(* Where ferricast meets another program: the two captures and the picker, *)
(* which look at the desktop, the list of devices on the network, a        *)
(* Chromecast session, and the control channel of a sender that has found  *)
(* this receiver.  They share nothing and are checked one beside another:  *)
(* part says which one a behaviour runs, and the others stay in their      *)
(* initial states.                                                         *)
(***************************************************************************)
EXTENDS DirectCapture, PipeWireCapture, SourceEnumerator, CastSession, ReceiverControl,
        DeviceDirectory

VARIABLE part

endpointVars == <<part, directVars, pipeVars, sourceVars, vars, controlVars, directoryVars>>

EndpointsInit ==
  /\ part \in {"direct", "pipe", "sources", "cast", "control", "directory"}
  /\ DirectInit /\ PipeInit /\ SourcesInit /\ Init /\ ControlInit /\ DirectoryInit
  /\ part # "sources" => cPlugged = {} /\ \A w \in Windows : cOpen[w] = 0
  /\ part # "cast" => ~capable

EndpointsNext ==
  \/ /\ part = "direct" /\ DirectNext
     /\ UNCHANGED <<part, pipeVars, sourceVars, vars, controlVars, directoryVars>>
  \/ /\ part = "pipe" /\ PipeNext
     /\ UNCHANGED <<part, directVars, sourceVars, vars, controlVars, directoryVars>>
  \/ /\ part = "sources" /\ SourcesNext
     /\ UNCHANGED <<part, directVars, pipeVars, vars, controlVars, directoryVars>>
  \/ /\ part = "cast" /\ Next
     /\ UNCHANGED <<part, directVars, pipeVars, sourceVars, controlVars, directoryVars>>
  \/ /\ part = "control" /\ ControlNext
     /\ UNCHANGED <<part, directVars, pipeVars, sourceVars, vars, directoryVars>>
  \/ /\ part = "directory" /\ DirectoryNext
     /\ UNCHANGED <<part, directVars, pipeVars, sourceVars, vars, controlVars>>

\* Of the six only the cast session has a step to make in its initial state: its fairness is
\* asked for where it runs.
EndpointsSpec ==
  /\ EndpointsInit /\ [][EndpointsNext]_endpointVars
  /\ DirectFairness /\ PipeFairness /\ SourcesFairness /\ ControlFairness
  /\ WF_vars(part = "cast" /\ Handshake) /\ WF_vars(part = "cast" /\ Setup)
  /\ WF_vars(part = "cast" /\ StopEnds) /\ WF_vars(part = "cast" /\ SendFrame)

\* Type correctness of the six.
EndpointsTypeOK ==
  DirectTypeOK /\ PipeTypeOK /\ SourcesTypeOK /\ TypeOK /\ ControlTypeOK /\ DirectoryTypeOK
=============================================================================
