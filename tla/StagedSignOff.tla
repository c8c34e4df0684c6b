---------------------------- MODULE StagedSignOff ----------------------------
(***************************************************************************)
(* What an approval route promises, without requests, votes or handlers:   *)
(* each route is signed stage by stage, it is approved by the signature of *)
(* its last stage and by nothing else, and once it has ended - approved,   *)
(* refused or withdrawn - it never moves again.                            *)
(***************************************************************************)
EXTENDS Naturals

CONSTANTS Routes, NumStages

VARIABLES outcome, signed   \* per route: how it stands, and the stages signed

Outcomes == {"unused", "in_progress", "approved", "rejected", "cancelled"}

Init ==
    /\ outcome = [i \in Routes |-> "unused"]
    /\ signed = [i \in Routes |-> 0]

Open(i) ==
    /\ outcome[i] = "unused"
    /\ outcome' = [outcome EXCEPT ![i] = "in_progress"]
    /\ UNCHANGED signed

Sign(i) ==
    /\ outcome[i] = "in_progress"
    /\ signed' = [signed EXCEPT ![i] = @ + 1]
    /\ outcome' = [outcome EXCEPT ![i] = IF signed[i] + 1 = NumStages THEN "approved" ELSE @]

Refuse(i) ==
    /\ outcome[i] = "in_progress"
    /\ outcome' = [outcome EXCEPT ![i] = "rejected"]
    /\ UNCHANGED signed

Withdraw(i) ==
    /\ outcome[i] = "in_progress"
    /\ outcome' = [outcome EXCEPT ![i] = "cancelled"]
    /\ UNCHANGED signed

Next == \E i \in Routes : Open(i) \/ Sign(i) \/ Refuse(i) \/ Withdraw(i)

Spec == Init /\ [][Next]_<<outcome, signed>>
=============================================================================
