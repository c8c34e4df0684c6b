----------------------------- MODULE Assessments -----------------------------
(***************************************************************************)
(* One questionnaire sent to a third party: saving answers and evidence in *)
(* the app or through the respondent's link, submission, the review of     *)
(* each answer, the rounds in which answers are returned and submitted     *)
(* again, the findings flagged answers raise, and the vendor's risk rating *)
(* that the final review proposes.                                         *)
(*                                                                         *)
(* Every handler is one transaction and one action; handlers of the same   *)
(* assessment do not overlap here.  A respondent's link is open: its life, *)
(* its limits and the mails about it are left out.                         *)
(***************************************************************************)
EXTENDS Naturals, FiniteSets

CONSTANTS
    N,           \* questions, in the order of the questionnaire
    Options,     \* Options[q]: what question q can be answered with
    Rules,       \* Rules[q]: the conditions under which question q shows
    AnyRule,     \* the questions that show when any of their rules holds, not all
    Mandatory,   \* the questions that must be answered while they show
    Flagged,     \* <<question, option>>: the answers that raise a finding
    Ratings,
    Rating(_),   \* Rating(r): the rating of the band in which result r falls
    Staff,       \* the bank's users who send and review
    DualControl, \* whether the rule (assessment, review) applies
    StatusEdits, \* the statuses that edits of the header may set
    MaxFiles,    \* MAX_FILES_PER_ANSWER
    Blank, Hidden

Questions == 1..N
Values == {Blank} \cup UNION {Options[q] : q \in Questions}
Results == [Questions -> Values \cup {Hidden}]
\* Shown when question "of" has (in), or has not (not_in), one of the values.
Rule == [of : Questions, values : SUBSET Values, has : BOOLEAN]

ASSUME AssessmentAssumption ==
    /\ N \in Nat
    /\ \A q \in Questions : Blank \notin Options[q]
    /\ Hidden \notin Values
    /\ Rules \in [Questions -> SUBSET Rule]
    /\ \A q \in Questions : \A r \in Rules[q] : r.of < q /\ r.values \subseteq Options[r.of]
    /\ AnyRule \subseteq Questions
    /\ Mandatory \subseteq Questions
    /\ Flagged \subseteq Questions \X Values
    /\ \A r \in Results : Rating(r) \in Ratings
    /\ StatusEdits \subseteq {"draft", "sent", "in_progress"}
    /\ DualControl \in BOOLEAN
    /\ MaxFiles \in Nat

VARIABLES
    status,    \* assessments.status
    maker,     \* who sent it last, or created it
    submitted, \* submitted_at is set: it was submitted at least once
    decided,   \* some answer has a reviewed_at
    answer,    \* assessment_answers, by question
    result,    \* the visible answers the stored score and band were computed from
    finding,   \* the automatic assessment_findings, by question and option
    vendor,    \* the vendor's risk rating, and whether an override reason is on record
    pulled     \* history: required questions a stored file was deleted from since the last submission

vars == <<status, maker, submitted, decided, answer, result, finding, vendor, pulled>>

-----------------------------------------------------------------------------
(***************************************************************************)
(* Rows                                                                    *)
(***************************************************************************)
Status == {"draft", "sent", "in_progress", "submitted", "reviewed"}

\* "none": no row yet.  fresh: answered_at is later than the last reviewed_at of any answer.
AnswerRow == [value : Values, files : 0..MaxFiles, fresh : BOOLEAN,
              review : {"none", "pending", "accepted", "returned"}]

FindingRow == [status : {"none", "open", "closed"}, issue : BOOLEAN]

VendorRow == [rating : Ratings, reason : BOOLEAN]

Init ==
    /\ status = "draft"
    /\ maker \in Staff
    /\ submitted = FALSE
    /\ decided = FALSE
    /\ answer = [q \in Questions |->
                    [value |-> Blank, files |-> 0, fresh |-> FALSE, review |-> "none"]]
    /\ result = [q \in Questions |-> Hidden]
    /\ finding = [f \in Flagged |-> [status |-> "none", issue |-> FALSE]]
    /\ vendor \in [rating : Ratings, reason : {FALSE}]
    /\ pulled = {}

-----------------------------------------------------------------------------
(***************************************************************************)
(* The questionnaire's rules (questionnaire_logic)                         *)
(***************************************************************************)
RuleHolds(r, seen, given) == r.has = (r.of \in seen /\ given[r.of] \in r.values)

\* A section's condition counts as a rule of each of its questions.
Shows(q, seen, given) ==
    IF q \in AnyRule /\ Rules[q] # {}
    THEN \E r \in Rules[q] : RuleHolds(r, seen, given)
    ELSE \A r \in Rules[q] : RuleHolds(r, seen, given)

\* A hidden question counts as unanswered for the questions after it.
Visible(given) ==
    LET upTo[n \in 0..N] ==
            IF n = 0 THEN {}
            ELSE upTo[n-1] \cup {q \in {n} : Shows(q, upTo[n-1], given)}
    IN upTo[N]

Given(ans) == [q \in Questions |-> ans[q].value]
Showing(ans) == Visible(Given(ans))

Answered(a) == a.value # Blank \/ a.files > 0
Missing(ans) == {q \in Mandatory \cap Showing(ans) : ~Answered(ans[q])}

Scored(ans) == [q \in Questions |-> IF q \in Showing(ans) THEN ans[q].value ELSE Hidden]

Flags(ans) == {f \in Flagged : f[1] \in Showing(ans) /\ ans[f[1]].value = f[2]}

-----------------------------------------------------------------------------
(***************************************************************************)
(* What may change in a returned round                                     *)
(***************************************************************************)
InReview(ans, states) == {q \in Questions : ans[q].review \in states}

\* dependent_questions: the least set that holds every question with a rule about qs or
\* about a question of the set.
FollowsFrom(qs, deps) ==
    \A q \in Questions : (\E r \in Rules[q] : r.of \in qs \cup deps) => q \in deps
Dependents(qs) == {q \in Questions : \A deps \in SUBSET Questions : FollowsFrom(qs, deps) => q \in deps}

\* Still returned, or changed since the reviewer's last decision.
Core ==
    IF submitted
    THEN InReview(answer, {"returned"})
           \cup {q \in InReview(answer, {"pending"}) : decided /\ answer[q].fresh}
    ELSE {}

\* reopened_questions: every question outside a returned round.
ReopenedUnlocked ==                                  \* mutant: follow-ups the reviewer accepted too
    IF Core = {} THEN Questions ELSE Core \cup Dependents(Core)
ReopenedAlone ==                                     \* mutant: without the follow-ups
    IF Core = {} THEN Questions ELSE Core
Reopened ==
    IF Core = {} THEN Questions
    ELSE Core \cup (Dependents(Core) \ InReview(answer, {"accepted"}))

AnsweredInApp == {"draft", "sent", "in_progress"}
AnsweredByLink == {"sent", "in_progress"}
Open(by) == IF by = "app" THEN AnsweredInApp ELSE AnsweredByLink

-----------------------------------------------------------------------------
(***************************************************************************)
(* Answering                                                               *)
(***************************************************************************)
Offered(q, value) == value \in Options[q] \cup {Blank}

\* The row after its value or comment was changed.
Rewritten(a, value) == [a EXCEPT !.value = value, !.review = "pending", !.fresh = decided]

\* upsert_answers, where new holds the answers sent whose value or comment is not the
\* stored one, or that have no row yet; the others are skipped.
Upserted(new) ==
    [q \in Questions |-> IF q \in DOMAIN new THEN Rewritten(answer[q], new[q]) ELSE answer[q]]

Save(by, new) ==
    /\ status \in Open(by)
    /\ DOMAIN new \subseteq Reopened
    /\ answer' = Upserted(new)
    /\ status' = "in_progress"
    /\ UNCHANGED <<maker, submitted, decided, result, finding, vendor, pulled>>

\* New evidence.  Only an answer the reviewer has dealt with is stamped.
WithFile(a) ==
    [(IF a.review = "pending" THEN a ELSE Rewritten(a, a.value)) EXCEPT !.files = a.files + 1]

Upload(by, q) ==
    /\ status \in Open(by)
    /\ by = "link" => q \in Reopened
    /\ answer[q].files < MaxFiles
    /\ answer' = [answer EXCEPT ![q] = WithFile(@)]
    /\ status' = IF by = "link" THEN "in_progress" ELSE status
    /\ UNCHANGED <<maker, submitted, decided, result, finding, vendor, pulled>>

WithoutFileUnstamped(a) ==                           \* mutant: answered_at is left alone
    [a EXCEPT !.files = @ - 1, !.review = IF @ = "returned" THEN "pending" ELSE @]
WithoutFile(a) ==
    [(IF a.review = "returned" THEN Rewritten(a, a.value) ELSE a) EXCEPT !.files = a.files - 1]

DeleteFile(q) ==
    /\ status \in AnsweredByLink
    /\ q \in Reopened
    /\ answer[q].files > 0
    /\ answer' = [answer EXCEPT ![q] = WithoutFile(@)]
    /\ UNCHANGED <<status, maker, submitted, decided, result, finding, vendor, pulled>>

\* The files of any record, by its collaboration panel: whatever the assessment's status and
\* round, and past the answer's review.  Who uploaded a file, or an administrator, deletes it;
\* MaxFiles is here a bound of the model only.
UploadStoredFile(q) ==
    /\ answer[q].review # "none"
    /\ answer[q].files < MaxFiles
    /\ answer' = [answer EXCEPT ![q].files = @ + 1]
    /\ UNCHANGED <<status, maker, submitted, decided, result, finding, vendor, pulled>>

DeleteStoredFile(q) ==
    /\ answer[q].files > 0
    /\ answer' = [answer EXCEPT ![q].files = @ - 1]
    /\ pulled' = pulled \cup ({q} \cap Mandatory)
    /\ UNCHANGED <<status, maker, submitted, decided, result, finding, vendor>>

\* sync_flag_findings
SyncedOnce(flags) ==                                 \* mutant: nothing is closed
    [f \in Flagged |->
        IF finding[f].issue THEN finding[f]
        ELSE IF f \in flags THEN [finding[f] EXCEPT !.status = "open"]
        ELSE finding[f]]
Synced(flags) ==
    [f \in Flagged |->
        IF finding[f].issue THEN finding[f]
        ELSE IF f \in flags THEN [finding[f] EXCEPT !.status = "open"]
        ELSE [finding[f] EXCEPT !.status = IF @ = "open" THEN "closed" ELSE @]]

\* _submit, with the answers in the database
SubmitUnsaved(ans) ==                                \* mutant: scored before the answers sent are in
    /\ InReview(ans, {"returned"}) = {}
    /\ Missing(ans) = {}
    /\ status' = "submitted"
    /\ submitted' = TRUE
    /\ answer' = ans
    /\ result' = Scored(answer)
    /\ finding' = Synced(Flags(ans))
    /\ pulled' = {}
    /\ UNCHANGED <<maker, decided, vendor>>
SubmitAnswers(ans) ==
    /\ InReview(ans, {"returned"}) = {}
    /\ Missing(ans) = {}
    /\ status' = "submitted"
    /\ submitted' = TRUE
    /\ answer' = ans
    /\ result' = Scored(ans)
    /\ finding' = Synced(Flags(ans))
    /\ pulled' = {}
    /\ UNCHANGED <<maker, decided, vendor>>

Submit(by) == status \in Open(by) /\ SubmitAnswers(answer)

SaveAndSubmit(new) ==
    /\ status \in AnsweredInApp
    /\ DOMAIN new \subseteq Reopened
    /\ SubmitAnswers(Upserted(new))

-----------------------------------------------------------------------------
(***************************************************************************)
(* The bank's side                                                         *)
(***************************************************************************)
Send(u) ==
    /\ status \in AnsweredInApp
    /\ status' = IF status = "draft" THEN "sent" ELSE status
    /\ maker' = u
    /\ UNCHANGED <<submitted, decided, answer, result, finding, vendor, pulled>>

\* A header edit may also set an earlier status.
EditStatus(new) ==
    /\ status' = new
    /\ UNCHANGED <<maker, submitted, decided, answer, result, finding, vendor, pulled>>

\* Every answer given so far is older than the decision.
ReviewAnswer(q, decision) ==
    /\ status = "submitted"
    /\ answer[q].review # "none"
    /\ answer' = [p \in Questions |->
                     [answer[p] EXCEPT !.fresh = FALSE, !.review = IF p = q THEN decision ELSE @]]
    /\ decided' = TRUE
    /\ UNCHANGED <<status, maker, submitted, result, finding, vendor, pulled>>

ReturnAsReturned ==                                  \* mutant: a status of its own
    /\ status = "submitted"
    /\ InReview(answer, {"returned"}) # {}
    /\ status' = "returned"
    /\ UNCHANGED <<maker, submitted, decided, answer, result, finding, vendor, pulled>>
Return ==
    /\ status = "submitted"
    /\ InReview(answer, {"returned"}) # {}
    /\ status' = "in_progress"
    /\ UNCHANGED <<maker, submitted, decided, answer, result, finding, vendor, pulled>>

\* apply_rating: the proposal, unless a reason keeps another rating.
RatedReset(proposed) ==                              \* mutant: the reason goes, the rating stays
    IF vendor.reason THEN [vendor EXCEPT !.reason = FALSE]
    ELSE [vendor EXCEPT !.rating = proposed]
Rated(proposed) ==
    IF vendor.rating = proposed THEN [vendor EXCEPT !.reason = FALSE]
    ELSE IF vendor.reason THEN vendor
    ELSE [vendor EXCEPT !.rating = proposed]

Review(u) ==
    /\ status = "submitted"
    /\ InReview(answer, {"returned"}) = {}
    /\ DualControl => u # maker
    /\ status' = "reviewed"
    /\ answer' = [q \in Questions |->
                     [answer[q] EXCEPT !.fresh = FALSE,
                                       !.review = IF @ = "pending" THEN "accepted" ELSE @]]
    /\ decided' = (decided \/ InReview(answer, {"pending"}) # {})
    /\ result' = Scored(answer)
    /\ vendor' = Rated(Rating(Scored(answer)))
    /\ UNCHANGED <<maker, submitted, finding, pulled>>

\* A vendor edit (resolve_rating): away from the proposal only with a reason, sent or stored.
EditVendor(rating, reason) ==
    LET proposed == Rating(result) IN
    /\ status = "reviewed" => rating = proposed \/ reason
    /\ vendor' = [rating |-> rating,
                  reason |-> reason /\ ~(status = "reviewed" /\ rating = proposed)]
    /\ UNCHANGED <<status, maker, submitted, decided, answer, result, finding, pulled>>

CloseFinding(f) ==
    /\ finding[f].status = "open"
    /\ finding' = [finding EXCEPT ![f].status = "closed"]
    /\ UNCHANGED <<status, maker, submitted, decided, answer, result, vendor, pulled>>

ReopenFinding(f) ==
    /\ finding[f].status = "closed"
    /\ finding' = [finding EXCEPT ![f].status = "open"]
    /\ UNCHANGED <<status, maker, submitted, decided, answer, result, vendor, pulled>>

RaiseIssue(f) ==
    /\ finding[f].status # "none"
    /\ ~finding[f].issue
    /\ finding' = [finding EXCEPT ![f].issue = TRUE]
    /\ UNCHANGED <<status, maker, submitted, decided, answer, result, vendor, pulled>>

-----------------------------------------------------------------------------
Next ==
    \/ \E qs \in SUBSET Questions : \E new \in {v \in [qs -> Values] : \A q \in qs : Offered(q, v[q])} :
           (\E by \in {"app", "link"} : Save(by, new)) \/ SaveAndSubmit(new)
    \/ \E by \in {"app", "link"} : Submit(by) \/ \E q \in Questions : Upload(by, q)
    \/ \E q \in Questions : DeleteFile(q) \/ \E d \in {"accepted", "returned"} : ReviewAnswer(q, d)
    \/ \E q \in Questions : UploadStoredFile(q) \/ DeleteStoredFile(q)
    \/ Return
    \/ \E u \in Staff : Send(u) \/ Review(u)
    \/ \E s \in StatusEdits : EditStatus(s)
    \/ \E r \in Ratings, reason \in BOOLEAN : EditVendor(r, reason)
    \/ \E f \in Flagged : CloseFinding(f) \/ ReopenFinding(f) \/ RaiseIssue(f)

Spec == Init /\ [][Next]_vars

-----------------------------------------------------------------------------
(***************************************************************************)
(* Properties                                                              *)
(***************************************************************************)
\* Every row keeps its shape.
TypeOK ==
    /\ status \in Status
    /\ maker \in Staff
    /\ submitted \in BOOLEAN /\ decided \in BOOLEAN
    /\ answer \in [Questions -> AnswerRow]
    /\ result \in Results
    /\ finding \in [Flagged -> FindingRow]
    /\ vendor \in VendorRow
    /\ pulled \subseteq Questions

\* _submit, review_assessment: through every round of returns and corrections, the stored
\* score of what is under review or reviewed is the score of the answers that are stored; and
\* a required answer that is missing there has lost its evidence by a deletion of the stored
\* file, past the questionnaire, since the submission: nothing else leaves one out.
ScoreIsOfAnswers ==
    status \in {"submitted", "reviewed"} =>
        result = Scored(answer) /\ Missing(answer) \subseteq pulled

\* apply_rating, resolve_rating: whoever edits the vendor, and whichever rating a later
\* review proposes, a rating that differs from the proposal has a reason on record.
RatingExplained ==
    status = "reviewed" => vendor.rating = Rating(result) \/ vendor.reason

InRound == status \in AnsweredInApp /\ Core # {}

\* reopened_questions: "the ones already revised this round may be corrected again before
\* submitting".  Nothing the respondent does takes back what the round opened.
RoundOnlyWidens ==
    [][InRound /\ status' \in AnsweredInApp => Reopened \subseteq Reopened']_vars

\* reopened_questions: an answer the reviewer accepted keeps its value while a round is open.
AcceptedKept ==
    [][\A q \in Questions :
          InRound /\ answer[q].review = "accepted" => answer'[q].value = answer[q].value]_vars

\* reopened_questions: a question that a changed answer reveals can be answered in the same
\* round, unless the reviewer accepted it while it was hidden.
RevealedCanBeAnswered ==
    InRound => \A q \in Missing(answer) :
                  result[q] = Hidden /\ answer[q].review # "accepted" => q \in Reopened

\* reopened_questions: a returned answer "must be answerable with the question it reveals":
\* nothing that keeps a round from being submitted is locked.
RoundCanFinish ==
    InRound => Missing(answer) \cap {q \in Questions : result[q] = Hidden} \subseteq Reopened

\* sync_flag_findings: after each submission the open automatic findings that are not
\* tracked as issues are those of the answers flagged now, whatever was raised, closed or
\* reopened in earlier rounds.
FindingsFollowAnswers ==
    [][status # "submitted" /\ status' = "submitted" =>
          \A f \in Flagged : ~finding'[f].issue =>
              (finding'[f].status = "open" <=> f \in Flags(answer'))]_vars
==============================================================================
