--------------------------- MODULE RiskAcceptance ---------------------------
(***************************************************************************)
(* One risk of the register and the acceptances asked for it: the request, *)
(* the decision of a second person, the expiry date, the nightly sweep that *)
(* lapses what has expired, and the edits, assessments, archiving and       *)
(* restoring of the risk that go on meanwhile.                              *)
(*                                                                          *)
(* Each handler, and the sweep of the tenant, is one transaction and one    *)
(* action; they do not overlap here.  Approval authority over the exposure  *)
(* (authority_limits) only refuses approvers and is left out.               *)
(***************************************************************************)
EXTENDS Naturals

CONSTANTS
    People,      \* the users who may ask for and decide an acceptance
    Acceptances, \* rows of risk_acceptances
    LastDay      \* the days a behaviour lasts: a bound

ASSUME RiskAssumption == LastDay \in Nat /\ People # {}

VARIABLES
    day,        \* date.today()
    risk,       \* the row of risks
    acceptance, \* risk_acceptances of that risk
    told        \* the acceptances whose lapse has an event notification

riskVars == <<day, risk, acceptance, told>>

Days == 0..LastDay
\* An expiry date; the last one stands for none: it never comes.
Expiries == 0..(LastDay + 1)

\* "elsewhere": treatment planned or in progress, or closed.
RiskStatus == {"draft", "assessed", "accepted", "elsewhere"}

RiskRow == [status : RiskStatus,
            stamped : BOOLEAN,   \* last_assessed_at is set
            rationale : BOOLEAN, \* an assessment rationale is on record
            archived : BOOLEAN]

AcceptanceRow == [status : {"none", "pending", "approved", "rejected", "expired"},
                  requestedBy : People,
                  expires : Expiries]

RiskTypeOK ==
    /\ day \in Days
    /\ risk \in RiskRow
    /\ acceptance \in [Acceptances -> AcceptanceRow]
    /\ told \subseteq Acceptances

RiskInit ==
    /\ day = 0
    /\ risk = [status |-> "draft", stamped |-> FALSE, rationale |-> FALSE, archived |-> FALSE]
    /\ acceptance = [a \in Acceptances |-> [status |-> "none", expires |-> 0,
                                            requestedBy |-> CHOOSE p \in People : TRUE]]
    /\ told = {}

-----------------------------------------------------------------------------
(***************************************************************************)
(* The register                                                            *)
(***************************************************************************)
\* The rationale a request sends: none, the one on record, or another.
Texts == {"none", "stored", "new"}

\* assessment_decision: whether scores that changed, or the inherent ones being sent,
\* may be stored without more, and what becomes of the trail.
Complete(status, changed, sent, text) ==
    /\ risk.status = "draft" /\ status # "draft" =>
          /\ sent \/ risk.stamped
          /\ text # "none" \/ (risk.rationale /\ ~ changed)
    /\ changed /\ status # "draft" => text = "new"

Assessed(status, changed, sent, text) ==
    [risk EXCEPT
        !.status = status,
        !.stamped = @ \/ changed
                      \/ /\ sent
                         /\ text = "new" \/ (text = "stored" /\ risk.status = "draft" /\ status # "draft"),
        !.rationale = text # "none" \/ (@ /\ ~ changed)]

\* Mutant: the form's status is taken as it comes.
EditRiskAnyStatus(status, changed, sent, text) ==
    /\ ~ risk.archived
    /\ text = "stored" => risk.rationale
    /\ Complete(status, changed, sent, text)
    /\ risk' = Assessed(status, changed, sent, text)
    /\ UNCHANGED <<day, acceptance, told>>

\* A risk may not be moved to accepted by an edit.
EditRisk(status, changed, sent, text) ==
    /\ ~ risk.archived
    /\ text = "stored" => risk.rationale
    /\ status # "accepted" \/ risk.status = "accepted"
    /\ Complete(status, changed, sent, text)
    /\ risk' = Assessed(status, changed, sent, text)
    /\ UNCHANGED <<day, acceptance, told>>

\* A residual assessment takes a draft out of draft when nothing else is missing.
AssessRisk(owned, changed, text) ==
    /\ ~ risk.archived
    /\ text = "stored" => risk.rationale
    /\ LET status == IF risk.status = "draft" /\ owned /\ Complete("assessed", changed, FALSE, text)
                     THEN "assessed"
                     ELSE risk.status
       IN  /\ Complete(status, changed, FALSE, text)
           /\ risk' = Assessed(status, changed, FALSE, text)
    /\ UNCHANGED <<day, acceptance, told>>

ArchiveRisk ==
    /\ ~ risk.archived
    /\ risk' = [risk EXCEPT !.archived = TRUE]
    /\ UNCHANGED <<day, acceptance, told>>

RestoreRisk ==
    /\ risk.archived
    /\ risk' = [risk EXCEPT !.archived = FALSE]
    /\ UNCHANGED <<day, acceptance, told>>

-----------------------------------------------------------------------------
(***************************************************************************)
(* Acceptances                                                             *)
(***************************************************************************)
\* Mutant: only the request is held to it, not its approval.
MayBeAcceptedOnceAsked ==
    (\A a \in Acceptances : acceptance[a].status # "pending") =>
        (risk.status = "draft" => risk.stamped /\ risk.rationale)

MayBeAccepted == risk.status = "draft" => risk.stamped /\ risk.rationale

Approved(a) == acceptance[a].status = "approved"

InForce(a) == Approved(a) /\ acceptance[a].expires >= day

Lapsed(a) == Approved(a) /\ acceptance[a].expires < day

RequestAcceptance(a, p, expires) ==
    /\ ~ risk.archived
    /\ MayBeAccepted
    /\ expires >= day
    /\ \A b \in Acceptances : acceptance[b].status # "pending"
    /\ acceptance[a].status = "none"
    /\ acceptance' = [acceptance EXCEPT ![a] =
                        [status |-> "pending", requestedBy |-> p, expires |-> expires]]
    /\ UNCHANGED <<day, risk, told>>

MayDecide(a, p) ==
    /\ ~ risk.archived
    /\ acceptance[a].status = "pending"
    /\ acceptance[a].requestedBy # p

Approve(a, p) ==
    /\ MayDecide(a, p)
    /\ MayBeAccepted
    /\ acceptance[a].expires >= day
    /\ acceptance' = [acceptance EXCEPT ![a].status = "approved"]
    /\ risk' = [risk EXCEPT !.status = "accepted"]
    /\ UNCHANGED <<day, told>>

Reject(a, p) ==
    /\ MayDecide(a, p)
    /\ acceptance' = [acceptance EXCEPT ![a].status = "rejected"]
    /\ UNCHANGED <<day, risk, told>>

\* What the lapse of an acceptance puts back; the treatment strategy, cleared with it,
\* is left out: nothing here reads it.
Reopened(r) == [r EXCEPT !.status = IF @ = "accepted" THEN "assessed" ELSE @]

\* expire_lapsed: an archived risk is passed over, and nobody is told.
Sweep ==
    /\ \E a \in Acceptances : Lapsed(a)
    /\ acceptance' = [a \in Acceptances |->
                        IF Lapsed(a) THEN [acceptance[a] EXCEPT !.status = "expired"]
                        ELSE acceptance[a]]
    /\ IF risk.archived THEN UNCHANGED <<risk, told>>
       ELSE /\ risk' = Reopened(risk)
            /\ told' = told \cup {a \in Acceptances : Lapsed(a)}
    /\ UNCHANGED day

NextDay ==
    /\ day < LastDay
    /\ day' = day + 1
    /\ UNCHANGED <<risk, acceptance, told>>

RiskNext ==
    \/ \E status \in RiskStatus, changed, sent \in BOOLEAN, text \in Texts :
            EditRisk(status, changed, sent, text)
    \/ \E owned, changed \in BOOLEAN, text \in Texts : AssessRisk(owned, changed, text)
    \/ ArchiveRisk
    \/ RestoreRisk
    \/ \E a \in Acceptances, p \in People, expires \in Expiries : RequestAcceptance(a, p, expires)
    \/ \E a \in Acceptances, p \in People : Approve(a, p) \/ Reject(a, p)
    \/ Sweep
    \/ NextDay

RiskSpec == RiskInit /\ [][RiskNext]_riskVars

-----------------------------------------------------------------------------
(***************************************************************************)
(* Properties                                                              *)
(***************************************************************************)
\* A risk that reads accepted has an approved acceptance behind it.  The one way round
\* is the archive: the sweep passes over an archived risk whose acceptance lapses, tells
\* nobody, and the risk comes back as it left (risk_acceptance.py:101).
AcceptedIsBacked ==
    risk.status = "accepted" =>
        \E a \in Acceptances :
            Approved(a) \/ (acceptance[a].status = "expired" /\ a \notin told)

\* However a draft is scored again, loses its rationale or is moved back between the
\* request and the decision, an accepted risk has the reason for its scores on record
\* (risk_integrity.acceptance_refusal).
AcceptedIsAssessed == risk.status = "accepted" => risk.rationale

\* A lapse puts the risk back in the register only when nobody renewed the acceptance:
\* the alert a month ahead says "renew it or the risk returns to the register"
\* (notifications.py:1338).  The sweep does not look for the renewal.
RenewedStaysAccepted ==
    [][ (\E a \in Acceptances : Lapsed(a) /\ acceptance'[a].status = "expired")
        /\ (\E a \in Acceptances : InForce(a))
        /\ risk.status = "accepted"
            => risk'.status = "accepted" ]_riskVars
=============================================================================
