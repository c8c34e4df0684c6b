-------------------------- MODULE MCApprovalRouting --------------------------
(* Instances of ApprovalRouting for TLC. *)
EXTENDS ApprovalRouting, TLC

CONSTANTS maker, alice, bob, r1

MCEveryone  == {maker, alice, bob}
MCMandated  == {maker, alice}
MCRecords   == {r1}
MCEnteredBy == r1 :> maker

\* A six-eyes stage, then one named after a role only the maker holds.
SixEyesFirst == <<2, 1>>
MakerLast    == <<{}, {maker}>>
\* Four eyes, then six.
TwoStages  == <<1, 2>>
\* Stages anyone may decide.
NoRoles    == <<{}, {}>>

SlotSymmetry == Permutations(Slots)
=============================================================================
