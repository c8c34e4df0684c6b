---------------------------- MODULE MCAssessments ----------------------------
(* Instances of Assessments for TLC.                                       *)
EXTENDS Assessments, TLC

CONSTANTS yes, no, name, ann, ben

\* "Do you outsource?", and when the answer is yes "Who to?", which must be answered.
FollowUp == [q \in 1..2 |-> IF q = 2 THEN {[of |-> 1, values |-> {yes}, has |-> TRUE]} ELSE {}]
FirstYes == {<<1, yes>>}
YesNoOrName == [q \in 1..2 |-> IF q = 1 THEN {yes, no} ELSE {name}]
\* A yes to the first question makes the band high.
Band(r) == IF r[1] = yes THEN "high" ELSE "low"

\* The two users have the same permissions.
StaffSymmetry == Permutations(Staff)
==============================================================================
