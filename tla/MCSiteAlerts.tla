----------------------------- MODULE MCSiteAlerts -----------------------------
(***************************************************************************)
(* Small instances of SiteAlerts.  The goroutines and the channels are     *)
(* interchangeable.                                                        *)
(***************************************************************************)
EXTENDS SiteAlerts, TLC

Symmetry == Permutations(Procs) \cup Permutations(Channels)
=============================================================================
