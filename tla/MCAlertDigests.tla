---------------------------- MODULE MCAlertDigests ----------------------------
(* Instances of AlertDigests for TLC. *)
EXTENDS AlertDigests, TLC

CONSTANTS ann, bob, team, everyone, overdue, lapse

\* Ann may read the register, Bob may not.
AnnReads == ann :> {ann} @@ bob :> {bob} @@ team :> {ann, bob} @@ everyone :> {ann}
LapseTo == lapse :> bob
=============================================================================
