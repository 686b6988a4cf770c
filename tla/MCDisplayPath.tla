----------------------------- MODULE MCDisplayPath -----------------------------
(***************************************************************************)
(* Three parts of the path from the desktop to the network that share no   *)
(* state, each checked by itself in one run: the driver's monitor, the     *)
(* placement of the display and the sending end of the video.  A behaviour *)
(* is one of a part, the others keep one initial state, in which none of   *)
(* their fair actions is enabled.                                          *)
(***************************************************************************)
EXTENDS DriverLifecycle, TopologyReconcile, VideoSender

VARIABLE part

pathVars == <<part, driverVars, topologyVars, senderVars>>

PathInit ==
  /\ part \in {"driver", "topology", "sender"}
  /\ DriverInit /\ TopologyInit /\ SenderInit
  /\ part # "topology" => position = "left" /\ primary
  /\ part # "sender" => behind = 0

PathNext ==
  /\ UNCHANGED part
  /\ \/ part = "driver"   /\ DriverNext   /\ UNCHANGED <<topologyVars, senderVars>>
     \/ part = "topology" /\ TopologyNext /\ UNCHANGED <<driverVars, senderVars>>
     \/ part = "sender"   /\ SenderNext   /\ UNCHANGED <<driverVars, topologyVars>>

PathSpec ==
  /\ PathInit /\ [][PathNext]_pathVars
  /\ DriverFairness /\ TopologyFairness /\ SenderFairness
=============================================================================
