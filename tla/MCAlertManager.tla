---------------------------- MODULE MCAlertManager ----------------------------
(***************************************************************************)
(* Small instances of AlertManager.  Two goroutines do the same things     *)
(* with the same inputs and no property names one of them, so they may be  *)
(* permuted where only safety is checked; so may the channels.             *)
(***************************************************************************)
EXTENDS AlertManager, TLC

Symmetry == Permutations(Procs) \cup Permutations(Channels)
=============================================================================
