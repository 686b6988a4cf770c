------------------------------ MODULE DisplayLease ------------------------------
(***************************************************************************)
(* What SidecarDOS promises about its one virtual monitor, without the     *)
(* tasks, threads and queues that keep the promise.                        *)
(*                                                                         *)
(* The monitor is leased to one iPad at a time.  A lease is Held while     *)
(* that iPad streams and Reserved while the host waits for it to come      *)
(* back; another iPad gets the monitor only after the lease has become     *)
(* Free, and a Free lease shows no monitor.  A reservation does not last   *)
(* for ever.  (docs/lifecycle.md, "Session and cleanup".)                  *)
(***************************************************************************)
CONSTANTS Device,      \* the paired iPads
          NoDevice

VARIABLES phase,       \* "Free", "Held" or "Reserved"
          holder,      \* the device of a Held or Reserved lease
          shown        \* the device whose monitor Windows has, if it has one

leaseVars == <<phase, holder, shown>>

LeaseInit == phase = "Free" /\ holder = NoDevice /\ shown = NoDevice

\* A device takes the free monitor: it arrives under that device's identity.
Grant(d) ==
  /\ phase = "Free"
  /\ phase' = "Held" /\ holder' = d /\ shown' = d

\* The device of a reservation resumes; its monitor is kept or replaced by its own.
Resume(d) ==
  /\ phase = "Reserved" /\ holder = d
  /\ phase' = "Held" /\ holder' = d /\ shown' \in {shown, d}

\* The streaming device has its monitor replaced (another refresh rate).
Restart ==
  /\ phase = "Held"
  /\ shown' = holder /\ UNCHANGED <<phase, holder>>

Suspend ==
  /\ phase = "Held"
  /\ phase' = "Reserved" /\ UNCHANGED <<holder, shown>>

Depart ==
  /\ phase # "Free"
  /\ phase' = "Free" /\ holder' = NoDevice /\ shown' = NoDevice

\* Windows or the driver host takes the monitor away by itself.
Lose ==
  /\ shown # NoDevice
  /\ shown' = NoDevice /\ UNCHANGED <<phase, holder>>

LeaseNext ==
  \/ \E d \in Device : Grant(d) \/ Resume(d)
  \/ Restart \/ Suspend \/ Depart \/ Lose

LeaseSafety == LeaseInit /\ [][LeaseNext]_leaseVars

\* A reservation that is not resumed departs.
LeaseSpec == LeaseSafety /\ WF_leaseVars(phase = "Reserved" /\ Depart)

\* The monitor Windows shows is the lease holder's: never a second iPad's, and
\* none at all when the lease is free.
ShownIsHolders == shown # NoDevice => (phase # "Free" /\ shown = holder)
=============================================================================
