-------------------------- MODULE AssessmentsProofs --------------------------
(***************************************************************************)
(* Theorems about Assessments, for any questionnaire, ratings and staff.   *)
(***************************************************************************)
EXTENDS Assessments, WellFoundedInduction, TLAPS

-----------------------------------------------------------------------------
(***************************************************************************)
(* Rows                                                                    *)
(***************************************************************************)
\* A rewritten answer is an answer row.
LEMMA RewrittenRow ==
    ASSUME NEW a \in AnswerRow, NEW value \in Values, decided \in BOOLEAN
    PROVE  /\ Rewritten(a, value) \in AnswerRow
           /\ Rewritten(a, value).value = value
           /\ Rewritten(a, value).review = "pending"
           /\ Rewritten(a, value).fresh = decided
           /\ Rewritten(a, value).files = a.files
  BY DEF Rewritten, AnswerRow

\* What a save stores.
LEMMA UpsertedRows ==
    ASSUME TypeOK, NEW qs \in SUBSET Questions, NEW new \in [qs -> Values]
    PROVE  /\ Upserted(new) \in [Questions -> AnswerRow]
           /\ \A q \in Questions :
                 IF q \in qs THEN Upserted(new)[q] = Rewritten(answer[q], new[q])
                             ELSE Upserted(new)[q] = answer[q]
  BY RewrittenRow DEF Upserted, TypeOK

\* What an upload stores.
LEMMA UploadRows ==
    ASSUME TypeOK, NEW by, NEW q \in Questions, Upload(by, q)
    PROVE  /\ answer' \in [Questions -> AnswerRow]
           /\ \A p \in Questions : p # q => answer'[p] = answer[p]
           /\ answer'[q].value = answer[q].value
           /\ answer'[q].review = "pending"
           /\ answer[q].review # "pending" => answer'[q].fresh = decided
           /\ answer[q].review = "pending" => answer'[q].fresh = answer[q].fresh
  <1> DEFINE a == IF answer[q].review = "pending" THEN answer[q]
                  ELSE Rewritten(answer[q], answer[q].value)
             row == [a EXCEPT !.files = answer[q].files + 1]
  <1>1. answer[q] \in AnswerRow /\ answer[q].value \in Values /\ answer[q].files \in Nat
    BY DEF TypeOK, AnswerRow
  <1>2. /\ a \in AnswerRow
        /\ a.value = answer[q].value
        /\ a.review = "pending"
        /\ answer[q].review # "pending" => a.fresh = decided
        /\ answer[q].review = "pending" => a.fresh = answer[q].fresh
        /\ a.files = answer[q].files
    BY <1>1, RewrittenRow DEF TypeOK
  <1>3. answer' = [answer EXCEPT ![q] = row]
    BY DEF Upload, WithFile
  <1>4. answer[q].files + 1 \in 0..MaxFiles
    BY <1>1, AssessmentAssumption DEF Upload, AnswerRow
  <1> HIDE DEF a
  <1>5. /\ row \in AnswerRow /\ row.value = a.value
        /\ row.review = a.review /\ row.fresh = a.fresh
    BY <1>2, <1>4 DEF AnswerRow
  <1> HIDE DEF row
  <1>6. QED
    BY <1>2, <1>3, <1>5 DEF TypeOK

\* What the removal of a file stores.
LEMMA DeleteRows ==
    ASSUME TypeOK, NEW q \in Questions, DeleteFile(q)
    PROVE  /\ answer' \in [Questions -> AnswerRow]
           /\ \A p \in Questions : p # q => answer'[p] = answer[p]
           /\ answer'[q].value = answer[q].value
           /\ answer[q].review = "returned" =>
                 answer'[q].review = "pending" /\ answer'[q].fresh = decided
           /\ answer[q].review # "returned" =>
                 answer'[q].review = answer[q].review /\ answer'[q].fresh = answer[q].fresh
  <1> DEFINE a == IF answer[q].review = "returned" THEN Rewritten(answer[q], answer[q].value)
                  ELSE answer[q]
             row == [a EXCEPT !.files = answer[q].files - 1]
  <1>1. answer[q] \in AnswerRow /\ answer[q].value \in Values /\ answer[q].files \in Nat
    BY DEF TypeOK, AnswerRow
  <1>2. /\ a \in AnswerRow
        /\ a.value = answer[q].value
        /\ answer[q].review = "returned" => a.review = "pending" /\ a.fresh = decided
        /\ answer[q].review # "returned" => a = answer[q]
        /\ a.files = answer[q].files
    BY <1>1, RewrittenRow DEF TypeOK
  <1>3. answer' = [answer EXCEPT ![q] = row]
    BY DEF DeleteFile, WithoutFile
  <1>4. answer[q].files - 1 \in 0..MaxFiles
    BY <1>1, AssessmentAssumption DEF DeleteFile, AnswerRow
  <1> HIDE DEF a
  <1>5. /\ row \in AnswerRow /\ row.value = a.value
        /\ row.review = a.review /\ row.fresh = a.fresh
    BY <1>2, <1>4 DEF AnswerRow
  <1> HIDE DEF row
  <1>6. QED
    BY <1>2, <1>3, <1>5 DEF TypeOK

\* What the panel's upload and deletion of a stored file store: the files and nothing else.
LEMMA StoredFileRows ==
    ASSUME TypeOK, NEW q \in Questions, UploadStoredFile(q) \/ DeleteStoredFile(q)
    PROVE  /\ answer' \in [Questions -> AnswerRow]
           /\ \A p \in Questions : /\ answer'[p].value = answer[p].value
                                   /\ answer'[p].review = answer[p].review
                                   /\ answer'[p].fresh = answer[p].fresh
                                   /\ p # q => answer'[p].files = answer[p].files
           /\ UploadStoredFile(q) => answer'[q].files > 0
           /\ UNCHANGED <<status, submitted, decided, result, finding, vendor>>
  <1> DEFINE n == answer'[q].files
             row == [answer[q] EXCEPT !.files = n]
  <1>1. answer[q] \in AnswerRow /\ answer[q].files \in Nat /\ answer[q].files <= MaxFiles
    BY AssessmentAssumption DEF TypeOK, AnswerRow
  <1>2. /\ answer' = [answer EXCEPT ![q] = row]
        /\ n \in 0..MaxFiles
        /\ UploadStoredFile(q) => n > 0
    BY <1>1, AssessmentAssumption DEF UploadStoredFile, DeleteStoredFile, TypeOK, AnswerRow
  <1> HIDE DEF n
  <1>3. /\ row \in AnswerRow /\ row.value = answer[q].value
        /\ row.review = answer[q].review /\ row.fresh = answer[q].fresh
    BY <1>1, <1>2 DEF AnswerRow
  <1> HIDE DEF row
  <1>4. /\ answer' \in [Questions -> AnswerRow]
        /\ \A p \in Questions : p # q => answer'[p] = answer[p]
        /\ answer'[q] = row
    BY <1>2, <1>3 DEF TypeOK
  <1>5. UNCHANGED <<status, submitted, decided, result, finding, vendor>>
    BY DEF UploadStoredFile, DeleteStoredFile
  <1>6. QED
    BY <1>2, <1>3, <1>4, <1>5 DEF n

\* What a decision about one answer stores.
LEMMA DecisionRows ==
    ASSUME TypeOK, NEW q \in Questions, NEW d \in {"accepted", "returned"}, ReviewAnswer(q, d)
    PROVE  /\ answer' \in [Questions -> AnswerRow]
           /\ \A p \in Questions : /\ answer'[p].value = answer[p].value
                                   /\ answer'[p].files = answer[p].files
  BY DEF TypeOK, ReviewAnswer, AnswerRow

\* What the final review stores.
LEMMA ReviewRows ==
    ASSUME TypeOK, NEW u \in Staff, Review(u)
    PROVE  /\ answer' \in [Questions -> AnswerRow]
           /\ \A p \in Questions : /\ answer'[p].value = answer[p].value
                                   /\ answer'[p].files = answer[p].files
           /\ InReview(answer', {"returned"}) = {}
  <1>1. answer' \in [Questions -> AnswerRow]
    BY DEF TypeOK, Review, AnswerRow
  <1>2. \A p \in Questions : /\ answer'[p].value = answer[p].value
                             /\ answer'[p].files = answer[p].files
    BY DEF TypeOK, Review, AnswerRow
  <1>3. \A p \in Questions : answer'[p].review # "returned"
    BY DEF TypeOK, Review, AnswerRow, InReview
  <1>4. QED
    BY <1>1, <1>2, <1>3 DEF InReview

\* A score is of the questions, and the rating of its band is a rating.
LEMMA ScoredType ==
    ASSUME NEW ans \in [Questions -> AnswerRow]
    PROVE  Scored(ans) \in Results /\ Rating(Scored(ans)) \in Ratings
  <1>1. Scored(ans) \in Results
    BY DEF Scored, Results, AnswerRow
  <1>2. QED
    BY <1>1, AssessmentAssumption

-----------------------------------------------------------------------------
(***************************************************************************)
(* Types are kept                                                          *)
(***************************************************************************)
\* The rows of the findings keep their shape.
LEMMA SyncedType ==
    ASSUME TypeOK, NEW flags
    PROVE  Synced(flags) \in [Flagged -> FindingRow]
  BY DEF Synced, TypeOK, FindingRow

LEMMA RatedType ==
    ASSUME TypeOK, NEW proposed \in Ratings
    PROVE  Rated(proposed) \in VendorRow
  BY DEF Rated, TypeOK, VendorRow

LEMMA SubmitType ==
    ASSUME TypeOK, NEW ans \in [Questions -> AnswerRow], SubmitAnswers(ans)
    PROVE  TypeOK'
  <1>1. result' \in Results /\ finding' \in [Flagged -> FindingRow]
    BY ScoredType, SyncedType DEF SubmitAnswers
  <1>2. QED
    BY <1>1 DEF SubmitAnswers, TypeOK, Status

LEMMA FindingsType ==
    ASSUME TypeOK, NEW f \in Flagged, CloseFinding(f) \/ ReopenFinding(f) \/ RaiseIssue(f)
    PROVE  TypeOK'
  <1>1. finding' \in [Flagged -> FindingRow]
    BY DEF CloseFinding, ReopenFinding, RaiseIssue, TypeOK, FindingRow
  <1>2. QED
    BY <1>1 DEF CloseFinding, ReopenFinding, RaiseIssue, TypeOK

LEMMA StepType == TypeOK /\ [Next]_vars => TypeOK'
  <1> SUFFICES ASSUME TypeOK, [Next]_vars PROVE TypeOK'
    OBVIOUS
  <1>1. ASSUME NEW qs \in SUBSET Questions, NEW new \in [qs -> Values], NEW by,
               Save(by, new) \/ SaveAndSubmit(new)
        PROVE  TypeOK'
    BY <1>1, UpsertedRows, SubmitType DEF Save, SaveAndSubmit, TypeOK, Status
  <1>2. ASSUME NEW by, Submit(by) \/ \E q \in Questions : Upload(by, q)
        PROVE  TypeOK'
    <2>1. CASE Submit(by)
      BY <2>1, SubmitType DEF Submit, TypeOK
    <2>2. ASSUME NEW q \in Questions, Upload(by, q) PROVE TypeOK'
      <3>1. answer' \in [Questions -> AnswerRow]
        BY <2>2, UploadRows
      <3>2. QED
        BY <2>2, <3>1 DEF Upload, TypeOK, Status
    <2>3. QED
      BY <1>2, <2>1, <2>2
  <1>3. ASSUME NEW q \in Questions, DeleteFile(q) PROVE TypeOK'
    <2>1. answer' \in [Questions -> AnswerRow]
      BY <1>3, DeleteRows
    <2>2. QED
      BY <1>3, <2>1 DEF DeleteFile, TypeOK
  <1>12. ASSUME NEW q \in Questions, UploadStoredFile(q) \/ DeleteStoredFile(q) PROVE TypeOK'
    <2>1. /\ answer' \in [Questions -> AnswerRow]
          /\ UNCHANGED <<status, submitted, decided, result, finding, vendor>>
      BY <1>12, StoredFileRows
    <2>2. UNCHANGED maker /\ pulled' \subseteq Questions
      BY <1>12 DEF UploadStoredFile, DeleteStoredFile, TypeOK
    <2>3. QED
      BY <2>1, <2>2 DEF TypeOK
  <1>4. ASSUME NEW q \in Questions, NEW d \in {"accepted", "returned"}, ReviewAnswer(q, d)
        PROVE  TypeOK'
    <2>1. answer' \in [Questions -> AnswerRow]
      BY <1>4, DecisionRows
    <2>2. QED
      BY <1>4, <2>1 DEF ReviewAnswer, TypeOK
  <1>5. CASE Return
    BY <1>5 DEF Return, TypeOK, Status
  <1>6. ASSUME NEW u \in Staff, Send(u) PROVE TypeOK'
    BY <1>6 DEF Send, TypeOK, Status
  <1>7. ASSUME NEW u \in Staff, Review(u) PROVE TypeOK'
    <2>1. answer' \in [Questions -> AnswerRow]
      BY <1>7, ReviewRows
    <2>2. result' \in Results /\ vendor' \in VendorRow
      BY <1>7, ScoredType, RatedType DEF Review, TypeOK
    <2>3. QED
      BY <1>7, <2>1, <2>2 DEF Review, TypeOK, Status
  <1>8. ASSUME NEW s \in StatusEdits, EditStatus(s) PROVE TypeOK'
    BY <1>8, AssessmentAssumption DEF EditStatus, TypeOK, Status
  <1>9. ASSUME NEW r \in Ratings, NEW reason \in BOOLEAN, EditVendor(r, reason) PROVE TypeOK'
    BY <1>9 DEF EditVendor, TypeOK, VendorRow
  <1>10. CASE UNCHANGED vars
    BY <1>10 DEF vars, TypeOK
  <1>11. QED
    BY <1>1, <1>2, <1>3, <1>4, <1>5, <1>6, <1>7, <1>8, <1>9, <1>10, <1>12, FindingsType DEF Next

LEMMA InitType == Init => TypeOK
  <1> SUFFICES ASSUME Init PROVE TypeOK
    OBVIOUS
  <1> DEFINE blank == [value |-> Blank, files |-> 0, fresh |-> FALSE, review |-> "none"]
  <1>7. Blank \in Values
    BY DEF Values
  <1>8. 0 \in 0..MaxFiles
    BY AssessmentAssumption
  <1>0. blank \in AnswerRow
    BY ONLY <1>7, <1>8 DEF AnswerRow
  <1>1. answer \in [Questions -> AnswerRow]
    BY <1>0 DEF Init
  <1>2. result \in Results
    BY DEF Init, Results
  <1>3. finding \in [Flagged -> FindingRow]
    BY DEF Init, FindingRow
  <1>4. vendor \in VendorRow
    BY DEF Init, VendorRow
  <1>5. QED
    BY <1>1, <1>2, <1>3, <1>4 DEF Init, TypeOK, Status

\* Every row keeps its shape: whatever is answered, returned, reviewed and edited.
THEOREM TypeCorrect == Spec => []TypeOK
  BY InitType, StepType, PTL DEF Spec

-----------------------------------------------------------------------------
(***************************************************************************)
(* The stored score                                                        *)
(***************************************************************************)
\* Reviewing leaves what the answers say and carry: score and completeness stay.
LEMMA SameAnswers ==
    ASSUME NEW a, NEW b, \A q \in Questions : a[q].value = b[q].value /\ a[q].files = b[q].files
    PROVE  Scored(a) = Scored(b) /\ Missing(a) = Missing(b)
  <1>1. Given(a) = Given(b)
    BY DEF Given
  <1>2. Showing(a) = Showing(b)
    BY <1>1 DEF Showing
  <1>3. Scored(a) = Scored(b)
    BY <1>2 DEF Scored
  <1>4. \A q \in Questions : Answered(a[q]) = Answered(b[q])
    BY DEF Answered
  <1>5. Mandatory \subseteq Questions
    BY AssessmentAssumption
  <1>6. Missing(a) = Missing(b)
    BY <1>2, <1>4, <1>5 DEF Missing
  <1>7. QED
    BY <1>3, <1>6

\* A file that goes leaves at most its own question unanswered; one that comes, none.
LEMMA FilesMoved ==
    ASSUME NEW a, NEW b, NEW q \in Questions,
           \A p \in Questions : a[p].value = b[p].value /\ (p # q => a[p].files = b[p].files)
    PROVE  /\ Scored(a) = Scored(b)
           /\ Missing(a) \subseteq Missing(b) \cup ({q} \cap Mandatory)
           /\ Answered(a[q]) => Missing(a) \subseteq Missing(b)
  <1>1. Given(a) = Given(b)
    BY DEF Given
  <1>2. Showing(a) = Showing(b)
    BY <1>1 DEF Showing
  <1>3. Scored(a) = Scored(b)
    BY <1>2 DEF Scored
  <1>4. \A p \in Questions : p # q => Answered(a[p]) = Answered(b[p])
    BY DEF Answered
  <1>6. Mandatory \subseteq Questions
    BY AssessmentAssumption
  <1>7. QED
    BY <1>2, <1>3, <1>4, <1>6 DEF Missing

LEMMA StepScore == TypeOK /\ ScoreIsOfAnswers /\ [Next]_vars => ScoreIsOfAnswers'
  <1> SUFFICES ASSUME TypeOK, ScoreIsOfAnswers, [Next]_vars,
                      status' \in {"submitted", "reviewed"}
               PROVE  result' = Scored(answer') /\ Missing(answer') \subseteq pulled'
    BY DEF ScoreIsOfAnswers
  <1>1. ASSUME NEW ans, SubmitAnswers(ans)
        PROVE  result' = Scored(answer') /\ Missing(answer') \subseteq pulled'
    BY <1>1 DEF SubmitAnswers
  <1>2. ASSUME NEW q \in Questions, NEW d \in {"accepted", "returned"}, ReviewAnswer(q, d)
        PROVE  result' = Scored(answer') /\ Missing(answer') \subseteq pulled'
    <2>1. Scored(answer') = Scored(answer) /\ Missing(answer') = Missing(answer)
      BY <1>2, DecisionRows, SameAnswers
    <2>2. QED
      BY <1>2, <2>1 DEF ReviewAnswer, ScoreIsOfAnswers
  <1>3. ASSUME NEW u \in Staff, Review(u)
        PROVE  result' = Scored(answer') /\ Missing(answer') \subseteq pulled'
    <2>1. Scored(answer') = Scored(answer) /\ Missing(answer') = Missing(answer)
      BY <1>3, ReviewRows, SameAnswers
    <2>2. QED
      BY <1>3, <2>1 DEF Review, ScoreIsOfAnswers
  <1>4. ASSUME NEW r, NEW reason, EditVendor(r, reason)
        PROVE  result' = Scored(answer') /\ Missing(answer') \subseteq pulled'
    BY <1>4 DEF EditVendor, ScoreIsOfAnswers
  <1>5. ASSUME NEW f, CloseFinding(f) \/ ReopenFinding(f) \/ RaiseIssue(f)
        PROVE  result' = Scored(answer') /\ Missing(answer') \subseteq pulled'
    BY <1>5 DEF CloseFinding, ReopenFinding, RaiseIssue, ScoreIsOfAnswers
  <1>6. ASSUME NEW by, NEW new, Save(by, new) PROVE FALSE
    BY <1>6 DEF Save
  <1>7. ASSUME NEW by, NEW q, Upload(by, q) PROVE FALSE
    BY <1>7 DEF Upload, Open, AnsweredInApp, AnsweredByLink
  <1>8. ASSUME NEW q, DeleteFile(q) PROVE FALSE
    BY <1>8 DEF DeleteFile, AnsweredByLink
  <1>9. ASSUME NEW u, Send(u) PROVE FALSE
    BY <1>9 DEF Send, AnsweredInApp
  <1>10. ASSUME NEW s \in StatusEdits, EditStatus(s) PROVE FALSE
    BY <1>10, AssessmentAssumption DEF EditStatus
  <1>11. CASE Return
    BY <1>11 DEF Return
  <1>12. CASE UNCHANGED vars
    BY <1>12 DEF vars, ScoreIsOfAnswers
  <1>14. ASSUME NEW q \in Questions, UploadStoredFile(q) \/ DeleteStoredFile(q)
         PROVE  result' = Scored(answer') /\ Missing(answer') \subseteq pulled'
    <2>1. UNCHANGED <<status, result>>
      BY <1>14, StoredFileRows
    <2>2. result = Scored(answer) /\ Missing(answer) \subseteq pulled
      BY <2>1 DEF ScoreIsOfAnswers
    <2>3. /\ Scored(answer') = Scored(answer)
          /\ Missing(answer') \subseteq Missing(answer) \cup ({q} \cap Mandatory)
          /\ Answered(answer'[q]) => Missing(answer') \subseteq Missing(answer)
      <3>1. PICK a, b : a = answer' /\ b = answer
        OBVIOUS
      <3>2. \A p \in Questions : a[p].value = b[p].value /\ (p # q => a[p].files = b[p].files)
        BY <1>14, <3>1, StoredFileRows
      <3>3. /\ Scored(a) = Scored(b)
            /\ Missing(a) \subseteq Missing(b) \cup ({q} \cap Mandatory)
            /\ Answered(a[q]) => Missing(a) \subseteq Missing(b)
        BY <1>14, <3>2, FilesMoved
      <3>4. QED
        BY <3>1, <3>3
    <2>4. CASE UploadStoredFile(q)
      <3>1. Answered(answer'[q]) /\ pulled' = pulled
        BY <2>4, StoredFileRows DEF UploadStoredFile, Answered
      <3>2. QED
        BY <2>1, <2>2, <2>3, <3>1
    <2>5. CASE DeleteStoredFile(q)
      <3>1. pulled' = pulled \cup ({q} \cap Mandatory)
        BY <2>5 DEF DeleteStoredFile
      <3>2. QED
        BY <2>1, <2>2, <2>3, <3>1
    <2>6. QED
      BY <1>14, <2>4, <2>5
  <1>13. QED
    BY <1>1, <1>2, <1>3, <1>4, <1>5, <1>6, <1>7, <1>8, <1>9, <1>10, <1>11, <1>12, <1>14
       DEF Next, Submit, SaveAndSubmit

\* The score kept with what is under review, or reviewed, is the score of the answers kept: no
\* path changes an answer behind the score.  And a required answer is missing there only when
\* its stored file was deleted past the questionnaire since the submission.
THEOREM ScoresAgree == Spec => []ScoreIsOfAnswers
  <1>1. Init => ScoreIsOfAnswers
    BY DEF Init, ScoreIsOfAnswers
  <1>2. QED
    BY <1>1, InitType, StepType, StepScore, PTL DEF Spec

-----------------------------------------------------------------------------
(***************************************************************************)
(* The vendor's rating                                                     *)
(***************************************************************************)
LEMMA StepRating == TypeOK /\ RatingExplained /\ [Next]_vars => RatingExplained'
  <1> SUFFICES ASSUME TypeOK, RatingExplained, [Next]_vars, status' = "reviewed"
               PROVE  vendor'.rating = Rating(result') \/ vendor'.reason
    BY DEF RatingExplained
  <1>1. ASSUME NEW u \in Staff, Review(u)
        PROVE  vendor'.rating = Rating(result') \/ vendor'.reason
    <2>1. Rating(Scored(answer)) \in Ratings
      BY ScoredType DEF TypeOK
    <2>2. vendor' = Rated(Rating(Scored(answer))) /\ result' = Scored(answer)
      BY <1>1 DEF Review
    <2>3. QED
      BY <2>1, <2>2 DEF Rated, TypeOK, VendorRow
  <1>2. ASSUME NEW r \in Ratings, NEW reason \in BOOLEAN, EditVendor(r, reason)
        PROVE  vendor'.rating = Rating(result') \/ vendor'.reason
    BY <1>2 DEF EditVendor, RatingExplained
  <1>3. ASSUME status = "reviewed", UNCHANGED <<vendor, result>>
        PROVE  vendor'.rating = Rating(result') \/ vendor'.reason
    BY <1>3 DEF RatingExplained
  <1>4. CASE UNCHANGED vars
    BY <1>3, <1>4 DEF vars
  <1>5. ASSUME NEW f, CloseFinding(f) \/ ReopenFinding(f) \/ RaiseIssue(f)
        PROVE  vendor'.rating = Rating(result') \/ vendor'.reason
    BY <1>3, <1>5 DEF CloseFinding, ReopenFinding, RaiseIssue
  <1>6. ASSUME NEW ans, SubmitAnswers(ans) PROVE FALSE
    BY <1>6 DEF SubmitAnswers
  <1>7. ASSUME NEW by, NEW new, Save(by, new) PROVE FALSE
    BY <1>7 DEF Save
  <1>8. ASSUME NEW by, NEW q, Upload(by, q) PROVE FALSE
    BY <1>8 DEF Upload, Open, AnsweredInApp, AnsweredByLink
  <1>9. ASSUME NEW q, DeleteFile(q) PROVE FALSE
    BY <1>9 DEF DeleteFile, AnsweredByLink
  <1>10. ASSUME NEW u, Send(u) PROVE FALSE
    BY <1>10 DEF Send, AnsweredInApp
  <1>11. ASSUME NEW s \in StatusEdits, EditStatus(s) PROVE FALSE
    BY <1>11, AssessmentAssumption DEF EditStatus
  <1>12. CASE Return
    BY <1>12 DEF Return
  <1>13. ASSUME NEW q, NEW d, ReviewAnswer(q, d) PROVE FALSE
    BY <1>13 DEF ReviewAnswer
  <1>15. ASSUME NEW q \in Questions, UploadStoredFile(q) \/ DeleteStoredFile(q)
         PROVE  vendor'.rating = Rating(result') \/ vendor'.reason
    <2>1. UNCHANGED <<status, result, vendor>>
      BY <1>15, StoredFileRows
    <2>2. QED
      BY <1>3, <2>1
  <1>14. QED
    BY <1>1, <1>2, <1>4, <1>5, <1>6, <1>7, <1>8, <1>9, <1>10, <1>11, <1>12, <1>13, <1>15
       DEF Next, Submit, SaveAndSubmit

\* After a final review the vendor's rating is the one proposed, or a reason is on record:
\* no edit or later review leaves an unexplained override.
THEOREM RatingsExplained == Spec => []RatingExplained
  <1>1. Init => RatingExplained
    BY DEF Init, RatingExplained
  <1>2. QED
    BY <1>1, InitType, StepType, StepRating, PTL DEF Spec

-----------------------------------------------------------------------------
(***************************************************************************)
(* Rounds                                                                  *)
(***************************************************************************)
\* An answer is returned by a decision, and only decisions are compared with.
ReturnedIsDecided == InReview(answer, {"returned"}) # {} => decided

LEMMA StepReturned == TypeOK /\ ReturnedIsDecided /\ [Next]_vars => ReturnedIsDecided'
  <1> SUFFICES ASSUME TypeOK, ReturnedIsDecided, [Next]_vars,
                      NEW q \in Questions, answer'[q].review = "returned"
               PROVE  decided'
    BY DEF ReturnedIsDecided, InReview
  <1>1. ASSUME UNCHANGED <<answer, decided>> PROVE decided'
    BY <1>1 DEF ReturnedIsDecided, InReview
  <1>2. ASSUME answer[q].review = "returned", UNCHANGED decided PROVE decided'
    BY <1>2 DEF ReturnedIsDecided, InReview
  <1>3. ASSUME NEW qs \in SUBSET Questions, NEW new \in [qs -> Values], NEW by,
               Save(by, new) \/ SaveAndSubmit(new)
        PROVE  decided'
    <2>1. answer' = Upserted(new) /\ UNCHANGED decided
      BY <1>3 DEF Save, SaveAndSubmit, SubmitAnswers
    <2>2. ASSUME q \in qs PROVE Upserted(new)[q].review = "pending"
      <3>1. Upserted(new)[q] = Rewritten(answer[q], new[q])
        BY <2>2, UpsertedRows
      <3>2. answer[q] \in AnswerRow /\ new[q] \in Values /\ decided \in BOOLEAN
        BY <2>2 DEF TypeOK
      <3>3. QED
        BY <3>1, <3>2, RewrittenRow
    <2>3. q \notin qs => Upserted(new)[q] = answer[q]
      BY UpsertedRows
    <2>4. QED
      BY <1>2, <2>1, <2>2, <2>3
  <1>4. ASSUME NEW by, NEW p \in Questions, Upload(by, p) PROVE decided'
    <2>1. p # q
      BY <1>4, UploadRows
    <2>2. QED
      BY <1>2, <1>4, <2>1, UploadRows DEF Upload
  <1>5. ASSUME NEW p \in Questions, DeleteFile(p) PROVE decided'
    <2>1. answer[q].review = "returned"
      BY <1>5, DeleteRows
    <2>2. QED
      BY <1>2, <1>5, <2>1 DEF DeleteFile
  <1>6. ASSUME NEW p, NEW d, ReviewAnswer(p, d) PROVE decided'
    BY <1>6 DEF ReviewAnswer
  <1>7. ASSUME NEW u \in Staff, Review(u) PROVE decided'
    BY <1>7, ReviewRows DEF InReview
  <1>8. ASSUME NEW by, Submit(by) PROVE decided'
    BY <1>1, <1>8 DEF Submit, SubmitAnswers
  <1>9. ASSUME NEW u, Send(u) PROVE decided'
    BY <1>1, <1>9 DEF Send
  <1>10. ASSUME NEW s, EditStatus(s) PROVE decided'
    BY <1>1, <1>10 DEF EditStatus
  <1>11. CASE Return
    BY <1>1, <1>11 DEF Return
  <1>12. ASSUME NEW r, NEW reason, EditVendor(r, reason) PROVE decided'
    BY <1>1, <1>12 DEF EditVendor
  <1>13. ASSUME NEW f, CloseFinding(f) \/ ReopenFinding(f) \/ RaiseIssue(f) PROVE decided'
    BY <1>1, <1>13 DEF CloseFinding, ReopenFinding, RaiseIssue
  <1>14. CASE UNCHANGED vars
    BY <1>1, <1>14 DEF vars
  <1>16. ASSUME NEW p \in Questions, UploadStoredFile(p) \/ DeleteStoredFile(p) PROVE decided'
    BY <1>2, <1>16, StoredFileRows
  <1>15. QED
    BY <1>3, <1>4, <1>5, <1>6, <1>7, <1>8, <1>9, <1>10, <1>11, <1>12, <1>13, <1>14, <1>16 DEF Next

\* More questions have more follow-ups.
LEMMA DependentsGrow ==
    ASSUME NEW qs, NEW more, qs \subseteq more
    PROVE  Dependents(qs) \subseteq Dependents(more)
  BY DEF Dependents, FollowsFrom

\* While nothing is decided, a changed answer only adds to what the round opened.
LEMMA RoundStep ==
    ASSUME TypeOK, ReturnedIsDecided, Core # {},
           UNCHANGED <<submitted, decided>>,
           \A q \in Questions :
              \/ answer'[q].review = answer[q].review /\ answer'[q].fresh = answer[q].fresh
              \/ answer'[q].review = "pending" /\ answer'[q].fresh = decided
    PROVE  Reopened \subseteq Reopened'
  <1>1. submitted /\ decided
    BY DEF Core, ReturnedIsDecided, InReview
  <1>2. ASSUME NEW q \in Core PROVE q \in Core'
    BY <1>1, <1>2 DEF Core, InReview
  <1>3. ASSUME NEW q \in Questions, answer'[q].review = "accepted" PROVE answer[q].review = "accepted"
    BY <1>3
  <1>4. Dependents(Core) \subseteq Dependents(Core')
    BY <1>2, DependentsGrow
  <1>5. Core' # {}
    BY <1>2
  <1>6. (Reopened)' = Core' \cup (Dependents(Core') \ InReview(answer', {"accepted"}))
    BY <1>5 DEF Reopened, Dependents, FollowsFrom, InReview
  <1>7. Reopened = Core \cup (Dependents(Core) \ InReview(answer, {"accepted"}))
    BY DEF Reopened
  <1>8. InReview(answer', {"accepted"}) \subseteq InReview(answer, {"accepted"})
    BY <1>3 DEF InReview
  <1>9. QED
    BY <1>2, <1>4, <1>6, <1>7, <1>8

\* A save within the round, as RoundStep and AcceptedKept need it.
LEMMA SavedRows ==
    ASSUME TypeOK, NEW qs \in SUBSET Questions, NEW new \in [qs -> Values], NEW q \in Questions
    PROVE  \/ q \notin qs /\ Upserted(new)[q] = answer[q]
           \/ q \in qs /\ Upserted(new)[q].review = "pending" /\ Upserted(new)[q].fresh = decided
  <1>1. CASE q \in qs
    <2>1. Upserted(new)[q] = Rewritten(answer[q], new[q])
      BY <1>1, UpsertedRows
    <2>2. answer[q] \in AnswerRow /\ new[q] \in Values /\ decided \in BOOLEAN
      BY <1>1 DEF TypeOK
    <2>3. QED
      BY <1>1, <2>1, <2>2, RewrittenRow
  <1>2. CASE q \notin qs
    BY <1>2, UpsertedRows
  <1>3. QED
    BY <1>1, <1>2

LEMMA StepWidens ==
    ASSUME TypeOK, ReturnedIsDecided, [Next]_vars, InRound, status' \in AnsweredInApp
    PROVE  Reopened \subseteq Reopened'
  <1>1. Core # {} /\ status \in AnsweredInApp
    BY DEF InRound
  <1>2. ASSUME UNCHANGED <<answer, submitted, decided>> PROVE Reopened \subseteq Reopened'
    BY <1>2 DEF Reopened, Core, InReview, Dependents, FollowsFrom
  <1>3. ASSUME NEW qs \in SUBSET Questions, NEW new \in [qs -> Values], NEW by, Save(by, new)
        PROVE  Reopened \subseteq Reopened'
    BY <1>1, <1>3, SavedRows, RoundStep DEF Save
  <1>4. ASSUME NEW ans, SubmitAnswers(ans) PROVE FALSE
    BY <1>4 DEF SubmitAnswers, AnsweredInApp
  <1>5. ASSUME NEW by, NEW p \in Questions, Upload(by, p) PROVE Reopened \subseteq Reopened'
    <2>1. \A q \in Questions :
              \/ answer'[q].review = answer[q].review /\ answer'[q].fresh = answer[q].fresh
              \/ answer'[q].review = "pending" /\ answer'[q].fresh = decided
      BY <1>5, UploadRows
    <2>2. QED
      BY <1>1, <1>5, <2>1, RoundStep DEF Upload
  <1>6. ASSUME NEW p \in Questions, DeleteFile(p) PROVE Reopened \subseteq Reopened'
    <2>1. \A q \in Questions :
              \/ answer'[q].review = answer[q].review /\ answer'[q].fresh = answer[q].fresh
              \/ answer'[q].review = "pending" /\ answer'[q].fresh = decided
      BY <1>6, DeleteRows
    <2>2. QED
      BY <1>1, <1>6, <2>1, RoundStep DEF DeleteFile
  <1>7. ASSUME NEW p, NEW d, ReviewAnswer(p, d) PROVE FALSE
    BY <1>1, <1>7 DEF ReviewAnswer, AnsweredInApp
  <1>8. ASSUME NEW u, Review(u) PROVE FALSE
    BY <1>1, <1>8 DEF Review, AnsweredInApp
  <1>9. CASE Return
    BY <1>2, <1>9 DEF Return
  <1>10. ASSUME NEW u, Send(u) PROVE Reopened \subseteq Reopened'
    BY <1>2, <1>10 DEF Send
  <1>11. ASSUME NEW s, EditStatus(s) PROVE Reopened \subseteq Reopened'
    BY <1>2, <1>11 DEF EditStatus
  <1>12. ASSUME NEW r, NEW reason, EditVendor(r, reason) PROVE Reopened \subseteq Reopened'
    BY <1>2, <1>12 DEF EditVendor
  <1>13. ASSUME NEW f, CloseFinding(f) \/ ReopenFinding(f) \/ RaiseIssue(f)
         PROVE  Reopened \subseteq Reopened'
    BY <1>2, <1>13 DEF CloseFinding, ReopenFinding, RaiseIssue
  <1>14. CASE UNCHANGED vars
    BY <1>2, <1>14 DEF vars
  <1>16. ASSUME NEW p \in Questions, UploadStoredFile(p) \/ DeleteStoredFile(p)
         PROVE  Reopened \subseteq Reopened'
    BY <1>1, <1>16, StoredFileRows, RoundStep
  <1>15. QED
    BY <1>3, <1>4, <1>5, <1>6, <1>7, <1>8, <1>9, <1>10, <1>11, <1>12, <1>13, <1>14, <1>16
       DEF Next, Submit, SaveAndSubmit

\* Within a returned round nothing the respondent, or the bank, does locks a question again:
\* whatever could be corrected stays correctable until the resubmission.
THEOREM RoundsOnlyWiden == Spec => RoundOnlyWidens
  <1>1. Init => ReturnedIsDecided
    BY DEF Init, ReturnedIsDecided, InReview
  <1>2. TypeOK /\ ReturnedIsDecided /\ [Next]_vars =>
            [InRound /\ status' \in AnsweredInApp => Reopened \subseteq Reopened']_vars
    BY StepWidens
  <1>3. QED
    BY <1>1, <1>2, InitType, StepType, StepReturned, PTL DEF Spec, RoundOnlyWidens

LEMMA StepKeeps ==
    ASSUME TypeOK, [Next]_vars, InRound, NEW q \in Questions, answer[q].review = "accepted"
    PROVE  answer'[q].value = answer[q].value
  <1>1. Core # {} /\ status \in AnsweredInApp
    BY DEF InRound
  <1>2. q \notin Reopened
    BY <1>1 DEF Reopened, Core, InReview
  <1>3. ASSUME NEW qs \in SUBSET Questions, NEW new \in [qs -> Values], NEW by,
               Save(by, new) \/ SaveAndSubmit(new)
        PROVE  answer'[q].value = answer[q].value
    <2>1. answer' = Upserted(new) /\ DOMAIN new \subseteq Reopened
      BY <1>3 DEF Save, SaveAndSubmit, SubmitAnswers
    <2>2. q \notin qs
      BY <1>2, <2>1
    <2>3. QED
      BY <2>1, <2>2, UpsertedRows
  <1>4. ASSUME NEW by, NEW p \in Questions, Upload(by, p) PROVE answer'[q].value = answer[q].value
    BY <1>4, UploadRows
  <1>5. ASSUME NEW p \in Questions, DeleteFile(p) PROVE answer'[q].value = answer[q].value
    BY <1>5, DeleteRows
  <1>6. ASSUME NEW p, NEW d, ReviewAnswer(p, d) PROVE FALSE
    BY <1>1, <1>6 DEF ReviewAnswer, AnsweredInApp
  <1>7. ASSUME NEW u, Review(u) PROVE FALSE
    BY <1>1, <1>7 DEF Review, AnsweredInApp
  <1>8. ASSUME UNCHANGED answer PROVE answer'[q].value = answer[q].value
    BY <1>8
  <1>9. ASSUME NEW by, Submit(by) PROVE answer'[q].value = answer[q].value
    BY <1>9 DEF Submit, SubmitAnswers
  <1>11. ASSUME NEW p \in Questions, UploadStoredFile(p) \/ DeleteStoredFile(p)
         PROVE  answer'[q].value = answer[q].value
    BY <1>11, StoredFileRows
  <1>10. QED
    BY <1>3, <1>4, <1>5, <1>6, <1>7, <1>8, <1>9, <1>11
       DEF Next, vars, Return, Send, EditStatus, EditVendor, CloseFinding, ReopenFinding, RaiseIssue

\* While a round is open an answer the reviewer accepted keeps its value, whoever saves.
THEOREM AcceptedAnswersKept == Spec => AcceptedKept
  <1>1. TypeOK /\ [Next]_vars =>
            [\A q \in Questions :
                InRound /\ answer[q].review = "accepted" => answer'[q].value = answer[q].value]_vars
    BY StepKeeps
  <1>2. QED
    BY <1>1, InitType, StepType, PTL DEF Spec, AcceptedKept

-----------------------------------------------------------------------------
(***************************************************************************)
(* Findings                                                                *)
(***************************************************************************)
LEMMA SyncedFlags ==
    ASSUME TypeOK, NEW flags, NEW f \in Flagged, ~Synced(flags)[f].issue
    PROVE  Synced(flags)[f].status = "open" <=> f \in flags
  BY DEF Synced, TypeOK, FindingRow

LEMMA StepFindings ==
    ASSUME TypeOK, [Next]_vars, status # "submitted", status' = "submitted",
           NEW f \in Flagged, ~finding'[f].issue
    PROVE  finding'[f].status = "open" <=> f \in Flags(answer')
  <1>1. ASSUME NEW ans, SubmitAnswers(ans)
        PROVE  finding'[f].status = "open" <=> f \in Flags(answer')
    <2>1. finding' = Synced(Flags(ans)) /\ answer' = ans
      BY <1>1 DEF SubmitAnswers
    <2>2. QED
      BY <2>1, SyncedFlags
  <1>2. ASSUME UNCHANGED status PROVE FALSE
    BY <1>2
  <1>3. ASSUME NEW by, NEW new, Save(by, new) PROVE FALSE
    BY <1>3 DEF Save
  <1>4. ASSUME NEW by, NEW q, Upload(by, q) PROVE FALSE
    BY <1>4 DEF Upload
  <1>5. ASSUME NEW s \in StatusEdits, EditStatus(s) PROVE FALSE
    BY <1>5, AssessmentAssumption DEF EditStatus
  <1>6. ASSUME NEW u, Send(u) \/ Review(u) PROVE FALSE
    BY <1>6 DEF Send, Review
  <1>7. CASE Return
    BY <1>7 DEF Return
  <1>8. QED
    BY <1>1, <1>2, <1>3, <1>4, <1>5, <1>6, <1>7
       DEF Next, vars, Submit, SaveAndSubmit, DeleteFile, UploadStoredFile, DeleteStoredFile,
           ReviewAnswer, EditVendor,
           CloseFinding, ReopenFinding, RaiseIssue

\* Each submission leaves open exactly the findings of the answers flagged now, except those
\* tracked as issues, whatever earlier rounds raised and staff closed or reopened.
THEOREM FindingsFollow == Spec => FindingsFollowAnswers
  <1>1. TypeOK /\ [Next]_vars =>
            [status # "submitted" /\ status' = "submitted" =>
                \A f \in Flagged : ~finding'[f].issue =>
                    (finding'[f].status = "open" <=> f \in Flags(answer'))]_vars
    BY StepFindings
  <1>2. QED
    BY <1>1, InitType, StepType, PTL DEF Spec, FindingsFollowAnswers

-----------------------------------------------------------------------------
(***************************************************************************)
(* Which questions show                                                    *)
(***************************************************************************)
\* A set of numbers that is not empty has a least one.
LEMMA LeastNumber ==
    ASSUME NEW S \in SUBSET Nat, S # {}
    PROVE  \E n \in S : \A m \in S : n <= m
  <1> DEFINE Less == OpToRel(<, Nat)
  <1>1. IsWellFoundedOn(Less, Nat)
    BY NatLessThanWellFounded
  <1>2. PICK n \in S : \A m \in S : ~ (<<m, n>> \in Less)
    <2> HIDE DEF Less
    <2>1. QED
      BY <1>1, WFMin
  <1>3. \A m \in S : ~ (m < n)
    BY <1>2 DEF OpToRel
  <1>4. QED
    BY <1>3

\* The questions shown so far, question by question.
ShownUpTo(f, given, n) ==
    IF n = 0 THEN {} ELSE f[n-1] \cup {q \in {n} : Shows(q, f[n-1], given)}

\* The walk through the questionnaire exists: each question looks back only.
LEMMA WalkExists ==
    ASSUME NEW given
    PROVE  \E f : f = [n \in 0..N |-> ShownUpTo(f, given, n)]
  <1> DEFINE Walk(m) == \E f : f = [n \in 0..m |-> ShownUpTo(f, given, n)]
             Bad == {m \in 0..N : ~Walk(m)}
  <1>1. N \in Nat /\ Bad \in SUBSET Nat
    BY AssessmentAssumption
  <1>2. Walk(0)
    <2>1. [n \in 0..0 |-> {}] = [n \in 0..0 |-> ShownUpTo([m \in 0..0 |-> {}], given, n)]
      BY DEF ShownUpTo
    <2>2. QED
      BY <2>1
  <1>3. ASSUME NEW m \in Nat, m # 0, Walk(m - 1)
        PROVE  Walk(m)
    <2>1. PICK f : f = [n \in 0..(m-1) |-> ShownUpTo(f, given, n)]
      BY <1>3
    <2> DEFINE g == [n \in 0..m |-> IF n = m THEN ShownUpTo(f, given, m) ELSE f[n]]
    <2>2. ASSUME NEW n \in 0..m
          PROVE  g[n] = ShownUpTo(g, given, n)
      <3>1. n # 0 => g[n-1] = f[n-1]
        BY <1>3
      <3>2. ShownUpTo(g, given, n) = ShownUpTo(f, given, n)
        BY <3>1 DEF ShownUpTo
      <3>3. CASE n = m
        BY <3>2, <3>3
      <3>4. CASE n # m
        BY <1>3, <2>1, <3>2, <3>4
      <3>5. QED
        BY <3>3, <3>4
    <2>3. g = [n \in 0..m |-> ShownUpTo(g, given, n)]
      BY <2>2
    <2>4. QED
      BY <2>3
  <1>4. Bad = {}
    <2> SUFFICES ASSUME Bad # {} PROVE FALSE
      OBVIOUS
    <2>1. PICK m \in Bad : \A n \in Bad : m <= n
      BY <1>1, LeastNumber
    <2> HIDE DEF Walk
    <2>2. m \in 0..N /\ ~Walk(m)
      OBVIOUS
    <2>3. m # 0
      BY <1>2, <2>2
    <2>4. Walk(m - 1)
      BY <1>1, <2>1, <2>2, <2>3
    <2>5. QED
      BY <1>1, <1>3, <2>2, <2>3, <2>4
  <1>5. QED
    BY <1>1, <1>4

\* Visible: a question shows exactly when its rules hold of the questions that show.
LEMMA VisibleByRules ==
    ASSUME NEW given
    PROVE  /\ Visible(given) \subseteq Questions
           /\ \A q \in Questions : q \in Visible(given) <=> Shows(q, Visible(given), given)
  <1> DEFINE upTo == CHOOSE f : f = [n \in 0..N |-> IF n = 0 THEN {} ELSE f[n-1] \cup {q \in {n} : Shows(q, f[n-1], given)}]
  <1>0. N \in Nat
    BY AssessmentAssumption
  <1>1. upTo = [n \in 0..N |-> ShownUpTo(upTo, given, n)]
    BY WalkExists DEF ShownUpTo
  <1>2. Visible(given) = upTo[N]
    BY DEF Visible
  <1> HIDE DEF upTo
  <1>3. \A n \in 0..N : upTo[n] = IF n = 0 THEN {} ELSE upTo[n-1] \cup {q \in {n} : Shows(q, upTo[n-1], given)}
    BY <1>1 DEF ShownUpTo
  <1>4. \A n \in 0..N : upTo[n] \subseteq 1..n
    <2> DEFINE Bad == {n \in 0..N : ~(upTo[n] \subseteq 1..n)}
    <2> SUFFICES ASSUME Bad # {} PROVE FALSE
      OBVIOUS
    <2>0. Bad \in SUBSET Nat
      BY <1>0
    <2>1. PICK n \in Bad : \A m \in Bad : n <= m
      <3> HIDE DEF Bad
      <3>1. QED
        BY <2>0, LeastNumber
    <2>2. n # 0
      BY <1>0, <1>3, <2>1
    <2>3. upTo[n-1] \subseteq 1..(n-1)
      BY <1>0, <2>1, <2>2
    <2>4. upTo[n] \subseteq upTo[n-1] \cup {n}
      BY <1>3, <2>1, <2>2
    <2>5. QED
      BY <1>0, <2>1, <2>2, <2>3, <2>4
  <1>5. \A n \in 0..N : \A q \in 1..n : q \in upTo[n] <=> q \in upTo[q]
    <2> DEFINE Bad == {n \in 0..N : \E q \in 1..n : ~(q \in upTo[n] <=> q \in upTo[q])}
    <2> SUFFICES ASSUME Bad # {} PROVE FALSE
      OBVIOUS
    <2>0. Bad \in SUBSET Nat
      BY <1>0
    <2>1. PICK n \in Bad : \A m \in Bad : n <= m
      <3> HIDE DEF Bad
      <3>1. QED
        BY <2>0, LeastNumber
    <2>2. n # 0
      BY <1>0, <2>1
    <2>3. \A q \in 1..(n-1) : q \in upTo[n-1] <=> q \in upTo[q]
      BY <1>0, <2>1, <2>2
    <2>4. \A q \in 1..(n-1) : q \in upTo[n] <=> q \in upTo[n-1]
      <3>1. upTo[n] = upTo[n-1] \cup {q \in {n} : Shows(q, upTo[n-1], given)}
        BY <1>3, <2>1, <2>2
      <3>2. QED
        BY <1>0, <2>1, <3>1
    <2>5. QED
      BY <1>0, <2>1, <2>2, <2>3, <2>4
  <1>6. Visible(given) \subseteq Questions
    BY <1>0, <1>2, <1>4 DEF Questions
  <1>7. ASSUME NEW q \in Questions
        PROVE  q \in Visible(given) <=> Shows(q, Visible(given), given)
    <2>1. q \in 0..N /\ q \in 1..N /\ q - 1 \in 0..N /\ q \in 1..q /\ q # 0
      BY <1>0, <1>7 DEF Questions
    <2>2. q \in Visible(given) <=> q \in upTo[q]
      BY <1>0, <1>2, <1>5, <2>1
    <2>3. q \notin upTo[q-1]
      BY <1>4, <2>1
    <2>4. q \in upTo[q] <=> Shows(q, upTo[q-1], given)
      BY <1>3, <2>1, <2>3
    <2>5. ASSUME NEW r \in Rules[q]
          PROVE  r.of \in upTo[q-1] <=> r.of \in Visible(given)
      <3>1. r.of \in 1..N /\ r.of < q /\ r.of \in 1..(q-1)
        BY <1>0, <1>7, <2>1, AssessmentAssumption DEF Rule, Questions
      <3>2. r.of \in upTo[q-1] <=> r.of \in upTo[r.of]
        BY <1>5, <2>1, <3>1
      <3>3. r.of \in upTo[N] <=> r.of \in upTo[r.of]
        BY <1>0, <1>5, <3>1
      <3>4. QED
        BY <1>2, <3>2, <3>3
    <2>6. \A r \in Rules[q] : RuleHolds(r, upTo[q-1], given) <=> RuleHolds(r, Visible(given), given)
      BY <2>5 DEF RuleHolds
    <2>7. Shows(q, upTo[q-1], given) <=> Shows(q, Visible(given), given)
      BY <2>6 DEF Shows
    <2>8. QED
      BY <2>2, <2>4, <2>7
  <1>8. QED
    BY <1>6, <1>7

-----------------------------------------------------------------------------
(***************************************************************************)
(* What a changed answer reveals                                           *)
(***************************************************************************)
\* The questions a score counts.
ShownIn(res) == {q \in Questions : res[q] # Hidden}

\* They show by the rules, on the answers scored.
ByRules(res) == \A q \in Questions : q \in ShownIn(res) <=> Shows(q, ShownIn(res), res)

\* Once submitted, the stored score is of questions that showed; and once the reviewer has
\* decided, an answer that is no longer the one scored is open.
RevealInv ==
    /\ submitted => ByRules(result)
    /\ submitted /\ decided =>
          \A q \in ShownIn(result) : answer[q].value # result[q] =>
              answer[q].review = "pending" /\ answer[q].fresh

\* A score holds the answers to the questions that show.
LEMMA ScoredShows ==
    ASSUME NEW ans \in [Questions -> AnswerRow]
    PROVE  /\ ShownIn(Scored(ans)) = Showing(ans)
           /\ \A q \in Showing(ans) : Scored(ans)[q] = ans[q].value
           /\ ByRules(Scored(ans))
  <1>1. Hidden \notin Values /\ \A q \in Questions : ans[q].value \in Values
    BY AssessmentAssumption DEF AnswerRow
  <1>2. Showing(ans) \subseteq Questions
        /\ \A q \in Questions : q \in Showing(ans) <=> Shows(q, Showing(ans), Given(ans))
    BY VisibleByRules DEF Showing
  <1>3. \A q \in Questions : Scored(ans)[q] = IF q \in Showing(ans) THEN ans[q].value ELSE Hidden
    BY DEF Scored
  <1>4. ShownIn(Scored(ans)) = Showing(ans)
        /\ \A q \in Showing(ans) : Scored(ans)[q] = ans[q].value
    BY <1>1, <1>2, <1>3 DEF ShownIn
  <1>5. \A q \in Showing(ans) : Scored(ans)[q] = Given(ans)[q]
    BY <1>2, <1>4 DEF Given
  <1>6. \A q \in Questions :
            Shows(q, Showing(ans), Scored(ans)) <=> Shows(q, Showing(ans), Given(ans))
    BY <1>5 DEF Shows, RuleHolds
  <1>7. QED
    BY <1>2, <1>4, <1>6 DEF ByRules

\* A question that shows now and did not then follows from an answer changed since.
LEMMA RevealedFollows ==
    ASSUME NEW given, NEW then, NEW result0, then \subseteq Questions,
           \A p \in Questions : p \in then <=> Shows(p, then, result0),
           NEW changed, \A p \in then : given[p] # result0[p] => p \in changed,
           NEW q \in Visible(given), q \notin then
    PROVE  q \in Dependents(changed)
  <1> DEFINE now == Visible(given)
  <1>1. now \subseteq Questions /\ \A p \in Questions : p \in now <=> Shows(p, now, given)
    BY VisibleByRules
  <1> HIDE DEF now
  <1>2. SUFFICES ASSUME NEW deps \in SUBSET Questions, FollowsFrom(changed, deps), q \notin deps
                 PROVE  FALSE
    BY <1>1 DEF Dependents, now
  <1> DEFINE Bad == {p \in Questions \ deps : ~(p \in now <=> p \in then)}
  <1>3. Bad \in SUBSET Nat /\ q \in Bad
    BY <1>1, <1>2, AssessmentAssumption DEF Questions, now
  <1>4. PICK p \in Bad : \A m \in Bad : p <= m
    <2> HIDE DEF Bad
    <2>1. QED
      BY <1>3, LeastNumber
  <1>5. p \in Questions /\ p \notin deps /\ ~(p \in now <=> p \in then)
    BY <1>4
  <1>6. ASSUME NEW r \in Rules[p]
        PROVE  RuleHolds(r, now, given) <=> RuleHolds(r, then, result0)
    <2>1. r.of \in Questions /\ r.of < p
      BY <1>5, AssessmentAssumption DEF Rule
    <2>2. r.of \notin changed \cup deps
      BY <1>2, <1>5 DEF FollowsFrom
    <2>3. r.of \notin Bad
      <3>1. r.of \in Nat /\ p \in Nat
        BY <1>5, <2>1, AssessmentAssumption DEF Questions
      <3>2. r.of \in Bad => p <= r.of
        BY <1>4
      <3>3. QED
        BY <2>1, <3>1, <3>2
    <2>4. r.of \in now <=> r.of \in then
      BY <2>1, <2>2, <2>3
    <2>5. r.of \in then => given[r.of] = result0[r.of]
      BY <2>2
    <2>6. QED
      BY <2>4, <2>5 DEF RuleHolds
  <1>7. Shows(p, now, given) <=> Shows(p, then, result0)
    BY <1>6 DEF Shows
  <1>8. QED
    BY <1>1, <1>5, <1>7

\* A step after which the stored score is that of the stored answers.
LEMMA ScoredReveals ==
    ASSUME TypeOK', result' = Scored(answer')
    PROVE  RevealInv'
  <1>1. answer' \in [Questions -> AnswerRow]
    BY DEF TypeOK
  <1>2. ShownIn(result') = Showing(answer') /\ ByRules(result')
        /\ \A q \in Showing(answer') : result'[q] = answer'[q].value
    BY <1>1, ScoredShows
  <1>3. QED
    BY <1>2 DEF RevealInv, ShownIn, ByRules

\* A step of a round: an answer changed is open.
LEMMA RoundReveals ==
    ASSUME TypeOK, RevealInv, UNCHANGED <<submitted, decided, result>>,
           \A q \in Questions :
              \/ /\ answer'[q].value = answer[q].value
                 /\ answer'[q].review = answer[q].review /\ answer'[q].fresh = answer[q].fresh
              \/ answer'[q].review = "pending" /\ answer'[q].fresh = decided
    PROVE  RevealInv'
  <1>1. submitted => ByRules(result')
    BY DEF RevealInv
  <1>2. ASSUME submitted, decided, NEW q \in ShownIn(result), answer'[q].value # result[q]
        PROVE  answer'[q].review = "pending" /\ answer'[q].fresh
    <2>1. q \in Questions
      BY DEF ShownIn
    <2>2. answer[q].value # result[q] => answer[q].review = "pending" /\ answer[q].fresh
      BY <1>2 DEF RevealInv
    <2>3. QED
      BY <1>2, <2>1, <2>2
  <1>3. QED
    BY <1>1, <1>2 DEF RevealInv, ShownIn, ByRules

\* Every step keeps what the round has revealed open.
LEMMA StepReveals ==
    ASSUME TypeOK, TypeOK', ScoreIsOfAnswers, ScoreIsOfAnswers', RevealInv, [Next]_vars
    PROVE  RevealInv'
  <1>1. ASSUME UNCHANGED <<submitted, decided, result, answer>> PROVE RevealInv'
    BY <1>1 DEF RevealInv, ShownIn, ByRules
  <1>2. ASSUME status' \in {"submitted", "reviewed"} PROVE RevealInv'
    BY <1>2, ScoredReveals DEF ScoreIsOfAnswers
  <1>3. ASSUME NEW qs \in SUBSET Questions, NEW new \in [qs -> Values], NEW by, Save(by, new)
        PROVE  RevealInv'
    BY <1>3, SavedRows, RoundReveals DEF Save
  <1>4. ASSUME NEW ans, SubmitAnswers(ans) PROVE RevealInv'
    BY <1>2, <1>4 DEF SubmitAnswers
  <1>5. ASSUME NEW by, NEW p \in Questions, Upload(by, p) PROVE RevealInv'
    BY <1>5, UploadRows, RoundReveals DEF Upload
  <1>6. ASSUME NEW p \in Questions, DeleteFile(p) PROVE RevealInv'
    BY <1>6, DeleteRows, RoundReveals DEF DeleteFile
  <1>7. ASSUME NEW p, NEW d, ReviewAnswer(p, d) PROVE RevealInv'
    BY <1>2, <1>7 DEF ReviewAnswer
  <1>8. ASSUME NEW u, Review(u) PROVE RevealInv'
    BY <1>2, <1>8 DEF Review
  <1>9. CASE Return
    BY <1>1, <1>9 DEF Return
  <1>10. ASSUME NEW u, Send(u) PROVE RevealInv'
    BY <1>1, <1>10 DEF Send
  <1>11. ASSUME NEW s, EditStatus(s) PROVE RevealInv'
    BY <1>1, <1>11 DEF EditStatus
  <1>12. ASSUME NEW r, NEW reason, EditVendor(r, reason) PROVE RevealInv'
    BY <1>1, <1>12 DEF EditVendor
  <1>13. ASSUME NEW f, CloseFinding(f) \/ ReopenFinding(f) \/ RaiseIssue(f) PROVE RevealInv'
    BY <1>1, <1>13 DEF CloseFinding, ReopenFinding, RaiseIssue
  <1>14. CASE UNCHANGED vars
    BY <1>1, <1>14 DEF vars
  <1>16. ASSUME NEW p \in Questions, UploadStoredFile(p) \/ DeleteStoredFile(p)
         PROVE  RevealInv'
    BY <1>1, <1>16, StoredFileRows, RoundReveals
  <1>15. QED
    BY <1>3, <1>4, <1>5, <1>6, <1>7, <1>8, <1>9, <1>10, <1>11, <1>12, <1>13, <1>14, <1>16
       DEF Next, Submit, SaveAndSubmit

\* reopened_questions: a question that a changed answer reveals can be answered in the same
\* round, however long the chain of follow-ups, unless the reviewer accepted it while hidden.
THEOREM RevealedAnswerable == Spec => []RevealedCanBeAnswered
  <1>1. Init => RevealInv /\ ScoreIsOfAnswers
    BY DEF Init, RevealInv, ScoreIsOfAnswers
  <1>2. ASSUME TypeOK, RevealInv, ReturnedIsDecided, InRound,
               NEW q \in Missing(answer), result[q] = Hidden, answer[q].review # "accepted"
        PROVE  q \in Reopened
    <2>1. submitted /\ decided /\ Core # {}
      BY <1>2 DEF InRound, Core, ReturnedIsDecided, InReview
    <2>2. q \in Questions /\ q \in Visible(Given(answer)) /\ q \notin ShownIn(result)
      BY <1>2, AssessmentAssumption DEF Missing, Showing, ShownIn
    <2>3. ASSUME NEW p \in ShownIn(result), Given(answer)[p] # result[p]
          PROVE  p \in Core
      BY <1>2, <2>1, <2>3 DEF RevealInv, ShownIn, Given, Core, InReview
    <2>4. q \in Dependents(Core)
      BY <1>2, <2>1, <2>2, <2>3, RevealedFollows DEF RevealInv, ByRules, ShownIn
    <2>5. QED
      BY <1>2, <2>1, <2>2, <2>4 DEF Reopened, InReview
  <1>3. TypeOK /\ RevealInv /\ ReturnedIsDecided => RevealedCanBeAnswered
    BY <1>2 DEF RevealedCanBeAnswered
  <1>4. Init => ReturnedIsDecided
    BY DEF Init, ReturnedIsDecided, InReview
  <1>5. TypeOK /\ TypeOK' /\ ScoreIsOfAnswers /\ ScoreIsOfAnswers' /\ RevealInv /\ [Next]_vars
            => RevealInv'
    BY StepReveals
  <1>6. QED
    BY <1>1, <1>3, <1>4, <1>5, InitType, StepType, StepScore, StepReturned, PTL DEF Spec
=============================================================================
