-------------------------- MODULE MCSessionLifecycle --------------------------
(* Small instances of SessionLifecycle for TLC. *)
EXTENDS SessionLifecycle, TLC

\* Only identity of devices matters to the safety properties.
Symmetry == Permutations(Device)
=============================================================================
