-------------------------------- MODULE MCVideo --------------------------------
(***************************************************************************)
(* The two hand-overs of images at the ends of the host's encoder, which   *)
(* share no state, each checked by itself in one run: the surfaces between *)
(* driver and host, and the datagrams the iPad puts together and decodes.  *)
(* A behaviour is one of a part, the other keeps its initial state, in     *)
(* which none of its fair actions is enabled.                              *)
(***************************************************************************)
EXTENDS SharedSurfaces, VideoReceiver

VARIABLE part

videoVars == <<part, surfacesVars, vars>>

VideoInit == part \in {"surfaces", "receiver"} /\ SurfacesInit /\ Init

VideoNext ==
  /\ UNCHANGED part
  /\ \/ part = "surfaces" /\ SurfacesNext /\ UNCHANGED vars
     \/ part = "receiver" /\ Next /\ UNCHANGED surfacesVars

\* The loop of the capture thread has nothing to do as long as there is no monitor, and
\* the receiver's as long as there is no VideoConfig.
VideoSpec ==
  /\ VideoInit /\ [][VideoNext]_videoVars
  /\ WF_surfacesVars(HostLoop) /\ Fairness
=============================================================================
