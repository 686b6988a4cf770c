-------------------------------- MODULE MCHost --------------------------------
(***************************************************************************)
(* Five parts of the host that share no state, each checked by itself in   *)
(* one run: the injector, the settings, the control stream, the datagrams  *)
(* and the display's modes.  A behaviour is one of a part, the others keep *)
(* their initial states.                                                   *)
(***************************************************************************)
EXTENDS InputInjector, HostSettings, ControlStream, Datagrams, DisplayModes, TLC

VARIABLE part

Symmetry        == Permutations(Contact)
MCFixed         == {<<20, 24, FALSE>>, <<21, 24, TRUE>>}
MCDefaultFixed  == <<20, 24, FALSE>>
MCRateOf        == [auto |-> 22, low |-> 20, high |-> 24]

\* Screens: iPads there are, and others around the limits.
Screen(id, long, short, hertz) == [id |-> id, long |-> long, short |-> short, fps |-> hertz]
MCIpads ==
  {Screen(<<0, 0, 0, 0>>, 1024, 768, 60),           \* no larger than the smallest edge
   Screen(<<1, 2, 3, 4>>, 2360, 1640, 60),
   Screen(<<255, 255, 255, 255>>, 2732, 2048, 120),
   Screen(<<9, 0, 0, 7>>, 1281, 961, 60),           \* two sizes that are the same when even
   Screen(<<7, 7, 0, 0>>, 1921, 1081, 60),          \* full HD just fits
   Screen(<<0, 0, 1, 1>>, 4094, 3072, 120),         \* too much at 60 frames per second
   Screen(<<0, 1, 1, 0>>, 2410, 1607, 59)}          \* 1920 / 2410 falls short as a double

\* Doubles fall short for all exact results of the long sides or none, and of the short
\* sides or none.
MCFallSets ==
  LET missed(sides) == {<<p[side], edge, p.long>> :
                          side \in sides, edge \in {1280, 1920}, p \in MCIpads}
  IN {missed(sides) : sides \in SUBSET {"long", "short"}}

\* What still varies in the initial states does so for its own part only.
Settled ==
  /\ part = "settings" \/ disk = NoFile
  /\ part = "modes" \/ (fps = 60 /\ falls = {})

HostInit ==
  /\ part \in {"injector", "settings", "control", "datagrams", "modes"}
  /\ Init /\ SettingsInit /\ ControlInit /\ DatagramInit /\ ModesInit /\ Settled

HostNext ==
  /\ UNCHANGED part
  /\ \/ part = "injector"  /\ Next
        /\ UNCHANGED <<settingsVars, controlVars, datagramVars, modesVars>>
     \/ part = "settings"  /\ SettingsNext
        /\ UNCHANGED <<vars, controlVars, datagramVars, modesVars>>
     \/ part = "control"   /\ ControlNext
        /\ UNCHANGED <<vars, settingsVars, datagramVars, modesVars>>
     \/ part = "datagrams" /\ DatagramNext
        /\ UNCHANGED <<vars, settingsVars, controlVars, modesVars>>
     \/ part = "modes"     /\ ModesNext
        /\ UNCHANGED <<vars, settingsVars, controlVars, datagramVars>>

HostSpec ==
  HostInit /\ [][HostNext]_<<part, vars, settingsVars, controlVars, datagramVars, modesVars>>

\* Settings, control stream and modes, whichever is on, keep to their types and bounds,
\* and the monitor has the modes of the worker's list.
HostInv ==
  /\ part = "settings" => SettingsTypeOK
  /\ part = "control"  => ControlTypeOK
  /\ part = "modes"    => ModesInv
=============================================================================
