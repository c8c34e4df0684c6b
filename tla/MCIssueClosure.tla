--------------------------- MODULE MCIssueClosure ---------------------------
(***************************************************************************)
(* Two people; one issue on one control and one risk.                     *)
(***************************************************************************)
EXTENDS IssueClosure

CONSTANTS maker, other

MCDueDates == {1, 2}
MCTestDays == {1, 2}
MCOutcomes == {"failed", "passed_with_exceptions", "passed"}
\* The control, its tests and the issue on it alone.
MCTests == {{"tests"}}
\* One part at a time: what a property relates moves together within one of them.
MCScopes == {{"acceptances"}, {"tests"}, {"remediation"}, {"deadlines"}}
=============================================================================
