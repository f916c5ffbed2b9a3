----------------------------- MODULE MCAlertRules -----------------------------
(***************************************************************************)
(* Small instances of AlertManager handling one check at a time, with the  *)
(* policy that it implements and what is reported of its incidents.        *)
(***************************************************************************)
EXTENDS AlertRefinement, IncidentReport
=============================================================================
