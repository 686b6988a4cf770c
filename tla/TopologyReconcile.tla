--------------------------- MODULE TopologyReconcile ---------------------------
(***************************************************************************)
(* Where the virtual display stands on the Windows desktop: topology/ and  *)
(* the part of the worker's iteration in runtime.rs that drives it.        *)
(*                                                                         *)
(* The host places the display beside a physical one (the anchor), Windows *)
(* may refuse, place it elsewhere, or move things itself.  Every change is *)
(* announced by a message, the host's own changes too, so announcements    *)
(* are ignored for a while after an attempt, and attempts are counted.     *)
(* Streams begin, end, and are taken up again within the grace.            *)
(***************************************************************************)
EXTENDS Integers

CONSTANTS Debounce,     \* the 200 ms, in ticks
          Stabilize,    \* the 750 ms, in ticks
          Probe,        \* the second between looks at the display, in ticks
          Sizes,        \* edge lengths the display can have
          Positions,    \* sides of the anchor the user may choose
          Disturbances  \* bound: what users and Windows do of their own accord; how
                        \* often Windows refuses or alters a placement has no bound

ASSUME TopologyAssumption ==
  /\ Debounce \in Nat \ {0} /\ Stabilize \in Nat \ {0} /\ Probe \in Nat
  /\ Debounce < Stabilize /\ Probe < 2 * Stabilize
  /\ Sizes # {} /\ Sizes \subseteq Nat \ {0}
  /\ Positions # {} /\ Positions \subseteq {"left", "right", "above", "below"}
  /\ Disturbances \in Nat

VARIABLES
  \* Windows: the virtual display, its place, the anchor, a change not yet announced
  display, place, anchor, announcing,
  \* the worker
  state,             \* "Idle", "Streaming", "Grace"
  position, primary, requested,
  display_changed,   \* set by the tray's window procedure
  probe, lastBounds, \* the probe's clock and what it saw
  rec,               \* the Reconciler
  injectorBounds,
  disturbed          \* disturbances so far

deskVars     == <<display, place, anchor, announcing>>
settingVars  == <<state, position, primary, requested>>
topologyVars == <<deskVars, settingVars, display_changed, probe, lastBounds, rec,
                  injectorBounds, disturbed>>

Bounds(x, y, width, height) == [x |-> x, y |-> y, width |-> width, height |-> height]
NoBounds == Bounds(0, 0, 0, 0)
Square(s) == Bounds(0, 0, s, s)
Move(b, x, y) == Bounds(b.x + x, b.y + y, b.width, b.height)

Beside(a, b) == [left  |-> <<-b.width, 0>>,  right |-> <<a.width, 0>>,
                 above |-> <<0, -b.height>>, below |-> <<0, a.height>>]

\* Bounds of b's size on the given side of a.
Adjacent(a, b, p) ==
  LET offset == Beside(a, b)[p] IN
  Bounds(a.x + offset[1], a.y + offset[2], b.width, b.height)

Reconciler == [due : 0..Stabilize, retries : 0..3, dirty : BOOLEAN,
               recent : 0..Stabilize]   \* since last_applied; Stabilize: longer, or never

Rectangle == [x : Int, y : Int, width : Nat, height : Nat]

TopologyTypeOK ==
  /\ display \in {"absent", "available", "active"}
  /\ {place, anchor, lastBounds, injectorBounds} \subseteq Rectangle
  /\ announcing \in BOOLEAN /\ display_changed \in BOOLEAN
  /\ state \in {"Idle", "Streaming", "Grace"}
  /\ position \in Positions /\ primary \in BOOLEAN /\ requested \in Sizes \cup {0}
  /\ probe \in 0..(Probe + 1) /\ rec \in Reconciler
  /\ disturbed \in 0..Disturbances

Default == [due |-> 0, retries |-> 0, dirty |-> TRUE, recent |-> Stabilize]

TopologyInit ==
  /\ display = "absent" /\ place = NoBounds /\ anchor = Square(2) /\ announcing = FALSE
  /\ state = "Idle" /\ position \in Positions /\ primary \in BOOLEAN /\ requested = 0
  /\ display_changed = FALSE /\ probe = 0 /\ lastBounds = NoBounds /\ rec = Default
  /\ injectorBounds = NoBounds /\ disturbed = 0
-----------------------------------------------------------------------------
(* The Reconciler.                                                         *)

\* Mutant: a change counts however recent the last attempt.
ChangedAlways(r) == [r EXCEPT !.due = Debounce, !.retries = 0, !.dirty = TRUE]
Changed(r) ==
  IF r.recent < Stabilize THEN r
  ELSE [r EXCEPT !.due = Debounce, !.retries = 0, !.dirty = TRUE]

Ready(r) == r.dirty /\ r.retries < 3 /\ r.due = 0

Matched(r) == [r EXCEPT !.dirty = FALSE]
Attempted(r) ==
  [due |-> Stabilize, retries |-> r.retries + 1, dirty |-> TRUE, recent |-> 0]
-----------------------------------------------------------------------------
(* reconcile(): what the display should be.  A display that is not active  *)
(* has no bounds; without a request it gets a default size.                *)

CurrentBounds == IF display = "active" THEN place ELSE NoBounds
DefaultSize   == CHOOSE s \in Sizes : TRUE
Size ==
  IF requested # 0 THEN Square(requested)
  ELSE IF display = "active" THEN place ELSE Square(DefaultSize)

Desired == Adjacent(anchor, Size, position)
\* As primary display it is the origin, and everything else moves with it.
Target  == IF primary THEN Bounds(0, 0, Desired.width, Desired.height) ELSE Desired
Shifted(b) == IF primary THEN Move(b, -Desired.x, -Desired.y) ELSE b
IsThere == display = "active" /\ place = Target /\ requested = 0
-----------------------------------------------------------------------------
(* The worker.                                                             *)

streaming == state = "Streaming"

Disturb == disturbed < Disturbances /\ disturbed' = disturbed + 1

\* The driver departs the monitor; Windows takes it out of the desktop.
MonitorDeparts ==
  /\ display' = "absent" /\ place' = NoBounds
  /\ announcing' \in IF display = "active" THEN {announcing, TRUE} ELSE {announcing}

\* Connect: a new Reconciler, and no injector.  Only another list of modes, or none
\* before, replaces the monitor and asks for the first size of the list; an iPad that
\* comes back within the grace finds its display as it is.
StartStream ==
  /\ ~streaming /\ state' = "Streaming" /\ rec' = Default /\ injectorBounds' = NoBounds
  /\ \/ requested' \in Sizes /\ MonitorDeparts
     \/ state = "Grace" /\ requested' = 0 /\ UNCHANGED <<display, place, announcing>>
  /\ probe' \in probe..(Probe + 1)
  /\ UNCHANGED <<anchor, position, primary, display_changed, lastBounds, disturbed>>

\* Disconnect, and the error branch, which is like an immediate one.
EndStream ==
  /\ streaming /\ Disturb /\ injectorBounds' = NoBounds
  /\ \/ state' = "Grace" /\ UNCHANGED <<display, place, announcing>>
     \/ state' = "Idle" /\ MonitorDeparts
  /\ UNCHANGED <<anchor, position, primary, requested, display_changed, probe, lastBounds,
                 rec>>

\* The grace is over.
GraceEnds ==
  /\ state = "Grace" /\ state' = "Idle" /\ MonitorDeparts
  /\ UNCHANGED <<anchor, position, primary, requested, display_changed, probe, lastBounds,
                 rec, injectorBounds, disturbed>>

\* The iteration first looks at the flag and, once a second, at the display itself:
\* "This also catches topology changes when a shell suppresses WM_DISPLAYCHANGE."
Probed  == probe > Probe
Noticed == IF display_changed THEN Changed(rec) ELSE rec
\* Mutant: it waits for the message.
NowUnprobed == Noticed
Now == IF Probed /\ CurrentBounds # lastBounds THEN Changed(Noticed) ELSE Noticed

Look ==
  /\ streaming /\ display_changed' = FALSE
  /\ probe' = IF Probed THEN 0 ELSE probe
Observed == IF Probed THEN CurrentBounds ELSE lastBounds

\* No attempt is due.
Rest ==
  /\ Look /\ ~Ready(Now)
  /\ rec' = Now /\ lastBounds' = Observed
  /\ UNCHANGED <<deskVars, settingVars, injectorBounds, disturbed>>

\* The display is where it should be; the injector gets its bounds.
Verify ==
  /\ Look /\ Ready(Now) /\ display # "absent" /\ IsThere
  /\ rec' = Matched(Now) /\ lastBounds' = Target /\ injectorBounds' = Target
  /\ UNCHANGED <<deskVars, settingVars, disturbed>>

\* SetDisplayConfig succeeds and puts the display at b; that it is where it was meant
\* to be will be seen when it is verified.
PlacedAt(b) ==
  /\ Look /\ Ready(Now) /\ display # "absent" /\ ~IsThere
  /\ rec' = Attempted(Now) /\ lastBounds' = Target /\ injectorBounds' = Target
  /\ requested' = 0 /\ display' = "active" /\ place' = b /\ anchor' = Shifted(anchor)
  /\ announcing' \in {announcing, TRUE}
  /\ UNCHANGED <<state, position, primary, disturbed>>

\* Windows takes the placement as it is, or alters it (SDC_ALLOW_CHANGES), now and
\* then or every time.
Apply   == PlacedAt(Target)
Altered == PlacedAt(Move(Target, 1, 0))

\* There is no monitor yet, or Windows refuses.
Refused ==
  /\ Look /\ Ready(Now) /\ ~IsThere
  /\ rec' = Attempted(Now) /\ lastBounds' = Observed
  /\ UNCHANGED <<deskVars, settingVars, injectorBounds, disturbed>>

\* Commands from the tray, with or without a session, and from the iPad.  A mode of
\* another refresh rate replaces the monitor.
Placement(p) ==
  /\ Disturb /\ position' = p /\ rec' = Changed(rec)
  /\ UNCHANGED <<deskVars, state, primary, requested, display_changed, probe,
                 lastBounds, injectorBounds>>

Mode(s) ==
  /\ streaming /\ Disturb /\ requested' = s /\ rec' = Changed(rec)
  /\ \/ UNCHANGED <<display, place, announcing, injectorBounds>>
     \/ MonitorDeparts /\ injectorBounds' = NoBounds
  /\ UNCHANGED <<anchor, state, position, primary, display_changed, probe, lastBounds>>
-----------------------------------------------------------------------------
(* Windows and time.                                                       *)

\* The monitor the driver announced appears, perhaps as part of the desktop.
Enumerate ==
  /\ state # "Idle" /\ display = "absent" /\ display' \in {"available", "active"}
  /\ place' = IF display' = "active" THEN Adjacent(anchor, Square(DefaultSize), "right")
              ELSE NoBounds
  /\ announcing' \in {announcing, TRUE}
  /\ UNCHANGED <<anchor, settingVars, display_changed, probe, lastBounds, rec,
                 injectorBounds, disturbed>>

\* The user or Windows moves, resizes or switches off the display; a shell may
\* suppress the message.
DisplayChanges ==
  /\ display = "active" /\ Disturb
  /\ \/ place' = Move(place, 0, 1) /\ UNCHANGED display
     \/ \E s \in Sizes : place' = Bounds(place.x, place.y, s, s)
        /\ UNCHANGED display
     \/ place' = NoBounds /\ display' = "available"
  /\ announcing' \in {announcing, TRUE}
  /\ UNCHANGED <<anchor, settingVars, display_changed, probe, lastBounds, rec,
                 injectorBounds>>

\* The physical display changes.  The probe does not look at it: without its message
\* the host would not know.
AnchorChanges ==
  /\ state # "Idle" /\ Disturb /\ announcing' = TRUE
  /\ anchor' \in {Move(anchor, 0, 1), Bounds(anchor.x, anchor.y, anchor.width + 1, anchor.height)}
  /\ UNCHANGED <<display, place, settingVars, display_changed, probe, lastBounds, rec,
                 injectorBounds>>

\* WM_DISPLAYCHANGE reaches the tray's window procedure.
Announce ==
  /\ announcing /\ announcing' = FALSE /\ display_changed' = TRUE
  /\ UNCHANGED <<display, place, anchor, settingVars, probe, lastBounds, rec,
                 injectorBounds, disturbed>>

TopologyTick ==
  /\ state # "Idle"
  /\ rec' = [rec EXCEPT !.due = IF @ > 0 THEN @ - 1 ELSE 0,
                        !.recent = IF @ < Stabilize THEN @ + 1 ELSE @]
  /\ probe' = IF probe <= Probe THEN probe + 1 ELSE probe
  /\ UNCHANGED <<deskVars, settingVars, display_changed, lastBounds, injectorBounds,
                 disturbed>>
-----------------------------------------------------------------------------
Iteration == Rest \/ Verify \/ Apply \/ Altered \/ Refused

TopologyNext ==
  \/ StartStream \/ EndStream \/ GraceEnds \/ Iteration
  \/ Enumerate \/ DisplayChanges \/ AnchorChanges \/ Announce \/ TopologyTick
  \/ \E p \in Positions : Placement(p)
  \/ \E s \in Sizes : Mode(s)

\* The worker iterates every 2 ms and never blocks here, messages that were sent
\* arrive, and time passes.
TopologyFairness ==
  /\ WF_topologyVars(Iteration) /\ WF_topologyVars(Announce)
  /\ WF_topologyVars(TopologyTick)
TopologySpec == TopologyInit /\ [][TopologyNext]_topologyVars /\ TopologyFairness
-----------------------------------------------------------------------------
(* Properties.                                                             *)

\* "at most three retries and a 750 ms stabilization period before verification":
\* when the worker looks and finds an attempt due, the last one is the whole period
\* ago, although that one announced itself as a change.
AttemptsSpaced == Ready(Now) => rec.recent = Stabilize

\* The reconciler keeps to its range, and two attempts to their distance.
TopologyInv == TopologyTypeOK /\ AttemptsSpaced

\* "Three bounded attempts prevent self-triggered display-change loops": when users and
\* Windows leave the desktop alone, the host does so too, placed or not.  A Windows that
\* alters every placement refutes it: the display is not where the host has put it, so the
\* next look of the probe is a change, and the three attempts start anew.
AttemptsEnd == <>[](streaming => ~rec.dirty \/ rec.retries = 3)

\* The edge of the display meets the anchor's on the side the user has chosen.
OnChosenSide ==
  CASE position = "left"  -> place.x + place.width = anchor.x
    [] position = "right" -> anchor.x + anchor.width = place.x
    [] position = "above" -> place.y + place.height = anchor.y
    [] position = "below" -> anchor.y + anchor.height = place.y

\* The display is where the host wants it, and the injector knows: as primary display at
\* the origin, whatever side was chosen, otherwise on the chosen side.
Placed ==
  /\ display = "active" /\ injectorBounds = place
  /\ IF primary THEN place.x = 0 /\ place.y = 0 ELSE OnChosenSide

\* Unless all attempts come to nothing, the display ends up where the host wants it, in
\* whatever order its changes, their messages, the probe and the attempts come, and over
\* streams that end and are taken up again.
Converges == <>[](streaming => Placed) \/ []<>(streaming /\ rec.retries = 3)

\* The host comes to rest, and short of three failures with the display in place; or
\* Windows alters its placements again and again.
DesktopSettles == (AttemptsEnd /\ Converges) \/ []<><<Altered>>_topologyVars
=============================================================================
