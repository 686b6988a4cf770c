---------------------------- MODULE MCTopologyLoop ----------------------------
(***************************************************************************)
(* TopologyReconcile to the clock: a tick is a 60th of a second, the       *)
(* worker looks once a tick, messages arrive at once, and nobody touches   *)
(* the desktop.  Windows alters every placement in the same way, and a     *)
(* call to SetDisplayConfig takes Lasting ticks.                           *)
(***************************************************************************)
EXTENDS TopologyReconcile

CONSTANT Lasting

VARIABLES looked,    \* the worker has looked in this tick
          calling    \* what is left of its call, in ticks

loopVars == <<topologyVars, looked, calling>>

LoopInit == TopologyInit /\ ~primary /\ looked = FALSE /\ calling = 0

\* The iPad connects and its display becomes part of the desktop.
Begin ==
  /\ StartStream \/ (Enumerate /\ display' = "active")
  /\ UNCHANGED <<looked, calling>>

Hear == Announce /\ UNCHANGED <<looked, calling>>

LookOnce ==
  /\ calling = 0 /\ ~looked /\ display = "active" /\ ~announcing
  /\ looked' = TRUE
  /\ \/ (Rest \/ Verify) /\ UNCHANGED calling
     \/ Altered /\ calling' = Lasting

\* The attempt counts from the end of the call; the probe's clock goes on.
Called ==
  /\ calling > 0 /\ calling' = calling - 1
  /\ probe' = IF probe <= Probe THEN probe + 1 ELSE probe
  /\ UNCHANGED <<deskVars, settingVars, display_changed, lastBounds, rec, injectorBounds,
                 disturbed, looked>>

TickOn ==
  /\ calling = 0 /\ looked /\ ~announcing /\ TopologyTick
  /\ looked' = FALSE /\ UNCHANGED calling

LoopNext == Begin \/ Hear \/ LookOnce \/ Called \/ TickOn

LoopSpec == LoopInit /\ [][LoopNext]_loopVars /\ WF_loopVars(LoopNext)
=============================================================================
