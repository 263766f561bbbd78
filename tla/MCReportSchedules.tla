------------------------- MODULE MCReportSchedules -------------------------
(***************************************************************************)
(* Small instances of ReportSchedules.                                     *)
(***************************************************************************)
EXTENDS ReportSchedules, TLC

CONSTANTS s1, s2, w, here, there, web, node

\* Requests reach the process of the worker, and one that only serves them.
TwoProcesses == w :> node @@ here :> node @@ there :> web

OneProcess == w :> node @@ here :> node

Switch(enabled) == [enabled |-> enabled, cadence |-> Keep]

OnOff == {Switch(TRUE), Switch(FALSE)}
OnOffSlower == OnOff \cup {[enabled |-> Keep, cadence |-> 3]}
=============================================================================
