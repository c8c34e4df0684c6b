------------------------- MODULE MCControlMonitoring -------------------------
(* Instances of ControlMonitoring for TLC. *)
EXTENDS ControlMonitoring, TLC

CONSTANTS t1, t2, w1, w2

\* A daily test beside one that runs every other day, or every third.
DailyAndSlower == t1 :> 1 @@ t2 :> 2
DailyAndRare == t1 :> 1 @@ t2 :> 3
OneDaily == t1 :> 1

\* Typed over: nothing, a pass of the first day, a failure of a day still to come.
Cleared == [day |-> 0, result |-> "not_run"]
OldPass == [day |-> 1, result |-> "passed"]
FutureFailure == [day |-> 3, result |-> "failed"]
TypedOver == {Cleared, OldPass, FutureFailure}
OldPassOnly == {OldPass}
=============================================================================
