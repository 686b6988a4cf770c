--------------------------- MODULE MCSessionLiveness ---------------------------
(***************************************************************************)
(* What must eventually happen in SessionLifecycle, in two scenarios of    *)
(* one run.  In "worker", two sessions follow each other, and only the     *)
(* worker is sure to make progress.  In "tasks", one session changes its   *)
(* refresh rate, breaks down or is left, the tasks are scheduled too, and  *)
(* it is recorded whether an event of the worker's was lost.               *)
(***************************************************************************)
EXTENDS SessionLifecycle

VARIABLES scenario,
          lost         \* history: a Failed found the event channel full

livenessVars == <<scenario, lost, vars>>

LivenessInit == Init /\ scenario \in {"worker", "tasks"} /\ lost = FALSE

\* The bounds of a scenario.
Rate    == CHOOSE f \in Fps : TRUE
OneRate ==
  \A i \in DOMAIN queue : queue[i].op \in {"Connect", "Mode"} => queue[i].fps = Rate
Bounded == IF scenario = "tasks" THEN sid <= 1 ELSE OneRate

WorkerBreaks ==
  \/ WorkerConnectFails \/ WorkerDisconnectFails \/ WorkerInputFails \/ WorkerModeFails
  \/ WorkerFails

LivenessNext ==
  /\ UNCHANGED scenario /\ Next /\ Bounded'
  /\ lost' = (lost \/ (scenario = "tasks" /\ Len(events) = EventCap /\ WorkerBreaks))

\* An open session takes what is ready and notices that its connection is closed.
Scheduled == scenario = "tasks"
TaskFairness ==
  /\ WF_vars(Scheduled /\ HostStep)
  /\ WF_vars(Scheduled /\ SessionClosed) /\ WF_vars(Scheduled /\ SessionEvent)
  /\ \A s \in Session : WF_vars(Scheduled /\ InputStep(s))

LivenessSpec ==
  LivenessInit /\ [][LivenessNext]_livenessVars /\ WorkerFairness /\ TaskFairness
-----------------------------------------------------------------------------
(* Properties of the second scenario; those of the first are               *)
(* SessionLifecycle's.                                                     *)

\* Exit ends the process, also with a full queue and input tasks still sending,
\* and it leaves no monitor behind.
ExitCompletes ==
  []<>(scenario = "tasks" /\ exit => host = "exited" /\ monitor = NoDevice)

ConnectQueued == \E i \in DOMAIN queue : queue[i].op = "Connect"

\* A session whose Connect was refused, or whose pipeline broke down, is ended and
\* does not wait for frames for ever, unless the Failed that says so was lost on a full
\* channel.  (It holds of a first session; MCSessionReconnect shows what can befall a
\* second.)
BrokenSessionEnds ==
  []<>(scenario = "tasks" /\ host = "session" /\ serving # sid /\ ~ConnectQueued => lost)
=============================================================================
