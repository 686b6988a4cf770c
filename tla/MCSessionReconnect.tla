--------------------------- MODULE MCSessionReconnect ---------------------------
(***************************************************************************)
(* SessionLifecycle with a history variable: whether the stream the worker *)
(* serves resumed a reservation, that is, whether its iPad reconnected     *)
(* within the grace interval.                                              *)
(***************************************************************************)
EXTENDS SessionLifecycle

VARIABLE resumed

HistoryInit == Init /\ resumed = FALSE

HistoryNext ==
  /\ Next
  /\ resumed' = IF WorkerConnect THEN state.kind = "Grace" ELSE resumed

HistorySpec == HistoryInit /\ [][HistoryNext]_<<vars, resumed>>

\* "An authenticated reconnect within that interval retains the virtual display
\* identity and layout": once the worker serves the reconnected iPad, and while
\* that session runs with its connection open, the grace deadline does not
\* remove the display.
ReconnectRetainsDisplay ==
  [][(WorkerExpire /\ resumed) => ~(host = "session" /\ conn /\ serving = sid)]_<<vars, resumed>>
=============================================================================
