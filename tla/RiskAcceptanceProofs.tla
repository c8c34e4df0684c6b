------------------------ MODULE RiskAcceptanceProofs ------------------------
(***************************************************************************)
(* Theorems about RiskAcceptance, for any people and acceptances and for   *)
(* any number of days.  The invariants are proved of RiskNext first, one   *)
(* operation at a time: IssueClosure takes the same steps.                  *)
(***************************************************************************)
EXTENDS RiskAcceptance, TLAPS

-----------------------------------------------------------------------------
(***************************************************************************)
(* Types                                                                   *)
(***************************************************************************)
LEMMA RiskInitTyped == RiskInit => RiskTypeOK
  <1> SUFFICES ASSUME RiskInit PROVE RiskTypeOK
    OBVIOUS
  <1> DEFINE someone == CHOOSE p \in People : TRUE
  <1>1. \E p \in People : TRUE
    BY RiskAssumption
  <1>2. someone \in People
    BY <1>1
  <1>3. acceptance = [a \in Acceptances |-> [status |-> "none", expires |-> 0, requestedBy |-> someone]]
    BY DEF RiskInit
  <1> HIDE DEF someone
  <1>4. acceptance \in [Acceptances -> AcceptanceRow]
    BY <1>2, <1>3, RiskAssumption DEF AcceptanceRow, Expiries
  <1>5. risk \in RiskRow
    BY DEF RiskInit, RiskRow, RiskStatus
  <1>6. day \in Days /\ told \subseteq Acceptances
    BY RiskAssumption DEF RiskInit, Days
  <1> QED BY <1>4, <1>5, <1>6 DEF RiskTypeOK

\* Scores, rationale and status of a request leave a risk row.
LEMMA AssessedRow ==
    ASSUME risk \in RiskRow, NEW status \in RiskStatus, NEW changed \in BOOLEAN,
           NEW sent \in BOOLEAN, NEW text \in Texts
    PROVE  /\ Assessed(status, changed, sent, text) \in RiskRow
           /\ Assessed(status, changed, sent, text).status = status
           /\ Assessed(status, changed, sent, text).rationale
                <=> (text # "none" \/ (risk.rationale /\ ~ changed))
           /\ Assessed(status, changed, sent, text).archived = risk.archived
  BY DEF Assessed, RiskRow, Texts

\* The status an edit or an assessment gives the risk, and what it then asks of the rationale.
RowAfter(status, changed, text) ==
    /\ risk' \in RiskRow
    /\ risk'.status = status
    /\ risk'.rationale <=> (text # "none" \/ (risk.rationale /\ ~ changed))
    /\ risk'.archived = risk.archived
    /\ UNCHANGED <<day, acceptance, told>>

LEMMA EditedRisk ==
    ASSUME RiskTypeOK, NEW status \in RiskStatus, NEW changed \in BOOLEAN,
           NEW sent \in BOOLEAN, NEW text \in Texts, EditRisk(status, changed, sent, text)
    PROVE  /\ RowAfter(status, changed, text)
           /\ Complete(status, changed, sent, text)
           /\ status = "accepted" => risk.status = "accepted"
  <1>1. risk \in RiskRow
    BY DEF RiskTypeOK
  <1>2. risk' = Assessed(status, changed, sent, text)
    BY DEF EditRisk
  <1>3. RowAfter(status, changed, text)
    BY <1>1, <1>2, AssessedRow DEF EditRisk, RowAfter
  <1> QED BY <1>3 DEF EditRisk

LEMMA AssessedRisk ==
    ASSUME RiskTypeOK, NEW owned \in BOOLEAN, NEW changed \in BOOLEAN, NEW text \in Texts,
           AssessRisk(owned, changed, text)
    PROVE  \E status \in {"assessed", risk.status} :
              /\ RowAfter(status, changed, text)
              /\ Complete(status, changed, FALSE, text)
  <1> DEFINE status == IF risk.status = "draft" /\ owned /\ Complete("assessed", changed, FALSE, text)
                       THEN "assessed" ELSE risk.status
  <1>1. risk \in RiskRow
    BY DEF RiskTypeOK
  <1>2. status \in RiskStatus /\ status \in {"assessed", risk.status}
    BY <1>1 DEF RiskRow, RiskStatus
  <1>3. /\ risk' = Assessed(status, changed, FALSE, text)
        /\ Complete(status, changed, FALSE, text)
        /\ UNCHANGED <<day, acceptance, told>>
    BY DEF AssessRisk
  <1> HIDE DEF status
  <1>4. /\ Assessed(status, changed, FALSE, text) \in RiskRow
        /\ Assessed(status, changed, FALSE, text).status = status
        /\ Assessed(status, changed, FALSE, text).rationale
             <=> (text # "none" \/ (risk.rationale /\ ~ changed))
        /\ Assessed(status, changed, FALSE, text).archived = risk.archived
    BY <1>1, <1>2 DEF Assessed, RiskRow, Texts
  <1>5. RowAfter(status, changed, text)
    BY <1>3, <1>4 DEF RowAfter
  <1> QED BY <1>2, <1>3, <1>5

\* The operations of RiskNext, by name.
LEMMA RiskSteps ==
    ASSUME RiskNext
    PROVE  \/ \E status \in RiskStatus, changed, sent \in BOOLEAN, text \in Texts :
                  EditRisk(status, changed, sent, text)
           \/ \E owned, changed \in BOOLEAN, text \in Texts : AssessRisk(owned, changed, text)
           \/ ArchiveRisk \/ RestoreRisk
           \/ \E a \in Acceptances, p \in People, expires \in Expiries : RequestAcceptance(a, p, expires)
           \/ \E a \in Acceptances, p \in People : Approve(a, p)
           \/ \E a \in Acceptances, p \in People : Reject(a, p)
           \/ Sweep
           \/ NextDay
  BY DEF RiskNext

LEMMA RiskStepTyped ==
    ASSUME RiskTypeOK, RiskNext
    PROVE  RiskTypeOK'
  <1> USE RiskTypeOK DEF RiskTypeOK
  <1>1. ASSUME NEW status \in RiskStatus, NEW changed \in BOOLEAN, NEW sent \in BOOLEAN,
               NEW text \in Texts, EditRisk(status, changed, sent, text)
        PROVE  RiskTypeOK'
    BY <1>1, EditedRisk DEF RowAfter
  <1>2. ASSUME NEW owned \in BOOLEAN, NEW changed \in BOOLEAN, NEW text \in Texts,
               AssessRisk(owned, changed, text)
        PROVE  RiskTypeOK'
    BY <1>2, AssessedRisk DEF RowAfter
  <1>3. CASE ArchiveRisk
    BY <1>3 DEF ArchiveRisk, RiskRow
  <1>4. CASE RestoreRisk
    BY <1>4 DEF RestoreRisk, RiskRow
  <1>5. ASSUME NEW a \in Acceptances, NEW p \in People, NEW expires \in Expiries,
               RequestAcceptance(a, p, expires)
        PROVE  RiskTypeOK'
    BY <1>5 DEF RequestAcceptance, AcceptanceRow
  <1>6. ASSUME NEW a \in Acceptances, NEW p \in People, Approve(a, p)
        PROVE  RiskTypeOK'
    BY <1>6 DEF Approve, AcceptanceRow, RiskRow, RiskStatus
  <1>7. ASSUME NEW a \in Acceptances, NEW p \in People, Reject(a, p)
        PROVE  RiskTypeOK'
    BY <1>7 DEF Reject, AcceptanceRow
  <1>8. CASE Sweep
    <2>1. acceptance' \in [Acceptances -> AcceptanceRow]
      BY <1>8 DEF Sweep, AcceptanceRow
    <2>2. Reopened(risk) \in RiskRow
      BY DEF Reopened, RiskRow, RiskStatus
    <2> QED BY <1>8, <2>1, <2>2 DEF Sweep
  <1>9. CASE NextDay
    BY <1>9, RiskAssumption DEF NextDay, Days
  <1> QED BY <1>1, <1>2, <1>3, <1>4, <1>5, <1>6, <1>7, <1>8, <1>9, RiskSteps

-----------------------------------------------------------------------------
(***************************************************************************)
(* What stands behind an accepted risk                                     *)
(***************************************************************************)
\* Once out of draft, the reason for the scores is on record, and only what has lapsed is
\* told to have lapsed.
Reasoned == risk.status # "draft" => risk.rationale

ToldLapsed == \A a \in told : acceptance[a].status = "expired"

RiskInv == RiskTypeOK /\ Reasoned /\ ToldLapsed /\ AcceptedIsBacked

LEMMA RiskInitInv == RiskInit => RiskInv
  BY RiskInitTyped DEF RiskInit, RiskInv, Reasoned, ToldLapsed, AcceptedIsBacked

LEMMA StepReasoned ==
    ASSUME RiskInv, RiskNext
    PROVE  Reasoned'
  <1> USE RiskInv DEF RiskInv, Reasoned, RiskTypeOK, RiskRow
  <1>1. ASSUME NEW status \in RiskStatus, NEW changed \in BOOLEAN, NEW sent \in BOOLEAN,
               NEW text \in Texts, EditRisk(status, changed, sent, text)
        PROVE  Reasoned'
    BY <1>1, EditedRisk DEF RowAfter, Complete
  <1>2. ASSUME NEW owned \in BOOLEAN, NEW changed \in BOOLEAN, NEW text \in Texts,
               AssessRisk(owned, changed, text)
        PROVE  Reasoned'
    BY <1>2, AssessedRisk DEF RowAfter, Complete
  <1>3. CASE ArchiveRisk \/ RestoreRisk
    BY <1>3 DEF ArchiveRisk, RestoreRisk
  <1>4. ASSUME NEW a \in Acceptances, NEW p \in People, Approve(a, p)
        PROVE  Reasoned'
    BY <1>4 DEF Approve, MayBeAccepted
  <1>5. CASE Sweep
    BY <1>5 DEF Sweep, Reopened
  <1>6. ASSUME UNCHANGED risk
        PROVE  Reasoned'
    BY <1>6
  <1> QED BY <1>1, <1>2, <1>3, <1>4, <1>5, <1>6, RiskSteps
          DEF RequestAcceptance, Reject, NextDay

LEMMA StepTold ==
    ASSUME RiskInv, RiskNext
    PROVE  ToldLapsed'
  <1> USE RiskInv DEF RiskInv, ToldLapsed, RiskTypeOK
  <1>1. ASSUME NEW a \in Acceptances, NEW p \in People, NEW expires \in Expiries,
               RequestAcceptance(a, p, expires)
        PROVE  ToldLapsed'
    BY <1>1 DEF RequestAcceptance
  <1>2. ASSUME NEW a \in Acceptances, NEW p \in People, Approve(a, p) \/ Reject(a, p)
        PROVE  ToldLapsed'
    BY <1>2 DEF Approve, Reject, MayDecide
  <1>3. CASE Sweep
    BY <1>3 DEF Sweep, Lapsed, Approved, AcceptanceRow
  <1>4. ASSUME UNCHANGED <<acceptance, told>>
        PROVE  ToldLapsed'
    BY <1>4
  <1> QED BY <1>1, <1>2, <1>3, <1>4, RiskSteps
          DEF EditRisk, AssessRisk, ArchiveRisk, RestoreRisk, NextDay

LEMMA StepBacked ==
    ASSUME RiskInv, RiskNext
    PROVE  AcceptedIsBacked'
  <1> USE RiskInv DEF RiskInv, RiskTypeOK, RiskRow
  <1>1. ASSUME UNCHANGED <<acceptance, told>>, risk'.status = "accepted" => risk.status = "accepted"
        PROVE  AcceptedIsBacked'
    BY <1>1 DEF AcceptedIsBacked, Approved
  <1>2. ASSUME NEW status \in RiskStatus, NEW changed \in BOOLEAN, NEW sent \in BOOLEAN,
               NEW text \in Texts, EditRisk(status, changed, sent, text)
        PROVE  AcceptedIsBacked'
    BY <1>1, <1>2, EditedRisk DEF RowAfter
  <1>3. ASSUME NEW owned \in BOOLEAN, NEW changed \in BOOLEAN, NEW text \in Texts,
               AssessRisk(owned, changed, text)
        PROVE  AcceptedIsBacked'
    BY <1>1, <1>3, AssessedRisk DEF RowAfter
  <1>4. CASE ArchiveRisk \/ RestoreRisk \/ NextDay
    BY <1>1, <1>4 DEF ArchiveRisk, RestoreRisk, NextDay
  \* An acceptance that starts or is turned down backs nothing.
  <1>5. ASSUME NEW a \in Acceptances, acceptance[a].status \in {"none", "pending"}, UNCHANGED <<risk, told>>,
               \A b \in Acceptances : b # a => acceptance'[b] = acceptance[b]
        PROVE  AcceptedIsBacked'
    BY <1>5 DEF AcceptedIsBacked, Approved
  <1>6. ASSUME NEW a \in Acceptances, NEW p \in People, NEW expires \in Expiries,
               RequestAcceptance(a, p, expires)
        PROVE  AcceptedIsBacked'
    BY <1>5, <1>6 DEF RequestAcceptance
  <1>7. ASSUME NEW a \in Acceptances, NEW p \in People, Reject(a, p)
        PROVE  AcceptedIsBacked'
    BY <1>5, <1>7 DEF Reject, MayDecide
  <1>8. ASSUME NEW a \in Acceptances, NEW p \in People, Approve(a, p)
        PROVE  AcceptedIsBacked'
    <2>1. acceptance'[a].status = "approved"
      BY <1>8 DEF Approve, AcceptanceRow
    <2> QED BY <2>1 DEF AcceptedIsBacked, Approved
  <1>9. CASE Sweep
    <2>1. CASE risk.archived
      <3>1. SUFFICES ASSUME risk.status = "accepted"
                     PROVE  \E a \in Acceptances :
                               \/ acceptance'[a].status = "approved"
                               \/ acceptance'[a].status = "expired" /\ a \notin told
        BY <1>9, <2>1 DEF Sweep, AcceptedIsBacked, Approved
      <3>2. PICK a \in Acceptances : Approved(a) \/ (acceptance[a].status = "expired" /\ a \notin told)
        BY <3>1 DEF AcceptedIsBacked
      <3>3. a \in told => acceptance[a].status = "expired"
        BY DEF ToldLapsed
      <3>4. acceptance'[a] = IF Lapsed(a) THEN [acceptance[a] EXCEPT !.status = "expired"] ELSE acceptance[a]
        BY <1>9 DEF Sweep
      <3>5. CASE Lapsed(a)
        BY <3>3, <3>4, <3>5 DEF Lapsed, Approved, AcceptanceRow
      <3>6. CASE ~ Lapsed(a)
        BY <3>2, <3>4, <3>6 DEF Approved
      <3> QED BY <3>5, <3>6
    <2>2. CASE ~ risk.archived
      BY <1>9, <2>2 DEF Sweep, Reopened, AcceptedIsBacked
    <2> QED BY <2>1, <2>2
  <1> QED BY <1>2, <1>3, <1>4, <1>6, <1>7, <1>8, <1>9, RiskSteps

LEMMA RiskStepInv ==
    ASSUME RiskInv, RiskNext
    PROVE  RiskInv'
  BY RiskStepTyped, StepReasoned, StepTold, StepBacked DEF RiskInv

LEMMA RiskStutterInv ==
    ASSUME RiskInv, UNCHANGED riskVars
    PROVE  RiskInv'
  BY DEF RiskInv, riskVars, RiskTypeOK, Days, Reasoned, ToldLapsed, AcceptedIsBacked, Approved

LEMMA RiskInvGives == RiskInv => RiskTypeOK /\ AcceptedIsBacked /\ AcceptedIsAssessed
  BY DEF RiskInv, Reasoned, AcceptedIsAssessed

-----------------------------------------------------------------------------
(***************************************************************************)
(* Theorems                                                                *)
(***************************************************************************)
LEMMA RiskInvariant == RiskSpec => []RiskInv
  <1>1. RiskInv /\ [RiskNext]_riskVars => RiskInv'
    BY RiskStepInv, RiskStutterInv
  <1> QED BY <1>1, RiskInitInv, PTL DEF RiskSpec

\* The risk, its acceptances and the lapses told of keep their shape (RiskTypeOK).
THEOREM RiskTypeCorrect == RiskSpec => []RiskTypeOK
  BY RiskInvariant, RiskInvGives, PTL

\* However edits, requests, decisions, archiving and the nightly sweep follow one another, a
\* risk that reads accepted has an approved acceptance, or one that lapsed while the risk was
\* archived and of which nobody was told (risk_acceptance.expire_lapsed).
THEOREM AcceptedBacked == RiskSpec => []AcceptedIsBacked
  BY RiskInvariant, RiskInvGives, PTL

\* However a draft is scored again between the request and the decision, an accepted risk has
\* the reason for its scores on record (risk_integrity.acceptance_refusal).
THEOREM AcceptedAssessed == RiskSpec => []AcceptedIsAssessed
  BY RiskInvariant, RiskInvGives, PTL
=============================================================================
