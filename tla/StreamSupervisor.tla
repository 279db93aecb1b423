-------------------------- MODULE StreamSupervisor --------------------------
(***************************************************************************)
(* The auto-reconnect bookkeeping of one streaming task (the 'supervisor   *)
(* loop of start_stream, src/src/manager.rs): the count of consecutive     *)
(* failures, the instant the counter's reset is measured from, the backoff *)
(* and the decision to give up. Time is counted in whole seconds, as far   *)
(* as the comparisons of the code can tell instants apart.                 *)
(***************************************************************************)
EXTENDS Integers

CONSTANTS
  MaxFailures,  (* MAX_CONSECUTIVE_FAILURES (5 in the code)                 *)
  Healthy,      (* HEALTHY_RESET_AFTER (60 s in the code)                   *)
  Connects      (* the seconds a connect and setup_stream may take          *)

ASSUME StreamSupervisorAssumption ==
  /\ MaxFailures \in Nat \ {0}
  /\ Healthy \in Nat
  /\ Connects \subseteq Nat

VARIABLES
  pc,        (* where the task is                                           *)
  failures,  (* consecutive_failures                                        *)
  age,       (* last_failure_at.elapsed(), or Never for None                *)
  row,       (* history: attempts of this outage that failed                *)
  down       (* history: seconds this outage has lasted                     *)

vars == <<pc, failures, age, row, down>>

Never == -1
Old == Healthy + 1
LongDown == 31
RowCap == MaxFailures + 1
AtMost(n, cap) == IF n < cap THEN n ELSE cap

(* 1 << min(n - 1, 4) seconds before the n-th attempt.                     *)
Backoff(n) == <<1, 2, 4, 8, 16>>[AtMost(n, 5)]

(* Instants never go back; beyond the healthy age they are all alike.      *)
Passes(t) ==
  /\ age' = IF age = Never THEN Never ELSE AtMost(age + t, Old)
  /\ down' = IF pc = "streaming" THEN 0 ELSE AtMost(down + t, LongDown)

Init ==
  /\ pc = "streaming"
  /\ failures = 0 /\ age = Never
  /\ row = 0 /\ down = 0

(* The session is alive: time passes.                                      *)
Stream(t) ==
  /\ pc = "streaming"
  /\ age # Never
  /\ Passes(t)
  /\ UNCHANGED <<pc, failures, row>>

SessionDies ==
  /\ pc = "streaming"
  /\ pc' = "deciding"
  /\ UNCHANGED <<failures, age, row, down>>

(* The head of the reconnect path.                                         *)
ResetEveryTime == 0
KeptFailures == IF age > Healthy THEN 0 ELSE failures
Attempt == KeptFailures + 1

RetriesOnceMore == Attempt <= MaxFailures + 1
Retries == Attempt <= MaxFailures

(* The backoff, which a cancellation may cut short (Leave), and the connect*)
(* that follows it.                                                        *)
TryAgain ==
  /\ pc = "deciding"
  /\ Retries
  /\ pc' = "connecting"
  /\ failures' = Attempt
  /\ Passes(Backoff(Attempt))
  /\ UNCHANGED row

GiveUp ==
  /\ pc = "deciding"
  /\ ~Retries
  /\ pc' = "gaveup"
  /\ failures' = Attempt
  /\ UNCHANGED <<age, row, down>>

(* create_session, connect or setup_stream fails, after t seconds.         *)
ConnectFails(t) ==
  /\ pc = "connecting"
  /\ pc' = "deciding"
  /\ row' = AtMost(row + 1, RowCap)
  /\ Passes(t)
  /\ UNCHANGED failures

(* The session is re-established; only here is last_failure_at set.        *)
Reconnected ==
  /\ pc = "connecting"
  /\ pc' = "streaming"
  /\ age' = 0
  /\ row' = 0 /\ down' = 0
  /\ UNCHANGED failures

(* The device asks for pairing again, the user cancels, or a frame fails.  *)
Leave ==
  /\ pc \in {"streaming", "connecting"}
  /\ pc' = "left"
  /\ UNCHANGED <<failures, age, row, down>>

Next ==
  \/ SessionDies \/ TryAgain \/ GiveUp \/ Reconnected \/ Leave
  \/ Stream(Old)
  \/ \E t \in Connects : Stream(t) \/ ConnectFails(t)

(* Every await of the reconnect path carries a timeout; whether a connect  *)
(* ever succeeds is up to the receiver.                                    *)
Fairness ==
  /\ WF_vars(TryAgain) /\ WF_vars(GiveUp)
  /\ WF_vars(pc = "connecting" /\ (Reconnected \/ Leave \/ \E t \in Connects : ConnectFails(t)))

Spec == Init /\ [][Next]_vars /\ Fairness

-----------------------------------------------------------------------------
(* Types and ranges.                                                       *)
TypeOK ==
  /\ pc \in {"streaming", "deciding", "connecting", "gaveup", "left"}
  /\ failures \in 0 .. MaxFailures + 1
  /\ age \in {Never} \cup 0 .. Old
  /\ row \in 0 .. RowCap
  /\ down \in 0 .. LongDown

(* While the stream has never been re-established, an outage costs at most *)
(* MaxFailures attempts (the reconnect budget of ManagerEvent::StreamError)*)
FirstOutageBounded == age = Never => row <= MaxFailures

(* ... and the receiver was given the whole backoff, 31 seconds, to come   *)
(* back before the task gave up on it.                                     *)
FirstOutagePatient ==
  pc = "gaveup" /\ age = Never /\ MaxFailures >= 5 => down = LongDown

(* Both: neither cut short nor drawn out.                                  *)
FirstOutageAsPromised == FirstOutageBounded /\ FirstOutagePatient

(* ... and that outage ends: with a session, a cancellation, or giving up. *)
FirstOutageEnds ==
  (pc = "deciding" /\ age = Never) ~> pc \in {"streaming", "gaveup", "left"}

(* "After MAX_CONSECUTIVE_FAILURES quick deaths in a row we surface a fatal*)
(* StreamError" (manager.rs:1043-1045), for every outage: no more attempts *)
(* than that fail in a row.                                                *)
EveryOutageBounded == row <= MaxFailures
=============================================================================
