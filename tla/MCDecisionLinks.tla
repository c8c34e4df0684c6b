--------------------------- MODULE MCDecisionLinks ---------------------------
(* Instances of DecisionLinks for TLC.                                     *)
EXTENDS DecisionLinks

CONSTANTS ann, ben, mo, q1

OneRequest   == {q1}
MoMakes      == [q \in OneRequest |-> mo]
AnnIsAsked   == [q \in OneRequest |-> {ann}]
==============================================================================
