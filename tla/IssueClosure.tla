---------------------------- MODULE IssueClosure ----------------------------
(***************************************************************************)
(* Issues raised against a control and a risk, from the day they are raised *)
(* to their closing, reopening and archiving: remediation actions, closure  *)
(* evidence, independent validation, the due date and the log of its moves; *)
(* the control's tests, their review, and the effectiveness they and the    *)
(* open issues leave the control with.  Closing an issue as risk accepted   *)
(* leans on the acceptances of the risk (RiskAcceptance).                   *)
(*                                                                          *)
(* Each handler is one transaction and one action; they do not overlap.     *)
(***************************************************************************)
EXTENDS RiskAcceptance, ControlRating

CONSTANTS
    Issues,       \* rows of issues
    ControlMaker, \* who entered the control
    KeyControl,   \* controls.is_key
    TestDays,     \* the days on which tests are dated: a bound
    Outcomes,     \* the results tests are recorded with: a bound
    DueDates,     \* the due dates an issue may be given
    NoDueDate,    \* later than all of them: to drop the date is the longest extension
    MaxTests,     \* tests of the control: a bound
    MaxMoves,     \* logged changes of one issue's due date: a bound
    Scopes,       \* of a behaviour, which parts move besides the issues' status: a bound
    Nobody

ASSUME IssueAssumption ==
    /\ ControlMaker \in People
    /\ KeyControl \in BOOLEAN
    /\ TestDays \subseteq Nat
    /\ Outcomes \subseteq TestResults
    /\ DueDates \subseteq Nat /\ NoDueDate \in Nat
    /\ \A d \in DueDates : d < NoDueDate
    /\ MaxTests \in Nat /\ MaxMoves \in Nat
    /\ Scopes \subseteq SUBSET {"acceptances", "tests", "remediation", "deadlines"}
    /\ Nobody \notin People

VARIABLES
    issue,   \* the row of issues, by issue
    log,     \* the last step of its life in issue_updates
    moves,   \* issue_due_date_changes, by issue
    control, \* the row of controls
    tests,   \* its control_audits
    scope    \* the parts that move in this behaviour

vars == <<day, risk, acceptance, told, issue, log, moves, control, tests, scope>>

-----------------------------------------------------------------------------
(***************************************************************************)
(* Rows                                                                    *)
(***************************************************************************)
OpenStates == {"open", "in_progress"}
FixedStates == {"remediated", "closed"}
ClosedStates == FixedStates \cup {"risk_accepted"}

Dues == DueDates \cup {NoDueDate}

IssueRow == [status : {"absent"} \cup OpenStates \cup ClosedStates,
             archived : BOOLEAN,
             raisedBy : People,
             owner : People,
             sensitive : BOOLEAN, \* high, critical or a regulator's
             due : Dues,
             validation : {"none", "effective", "not_effective"},
             evidence : BOOLEAN,  \* something is attached
             actions : {"none", "settled", "pending"}, \* pending: one is open or in progress
             onControl : BOOLEAN, \* a row of issue_controls
             onRisk : BOOLEAN]    \* a row of issue_risks

LogLine == {"none", "effective", "not_effective", "closed", "reopened"}

MoveRow == [old : Dues, new : Dues, status : {"pending", "approved", "rejected"},
            by : People, decidedBy : People \cup {Nobody}]

TestRow == [kind : TestKinds, result : TestResults, on : TestDays,
            review : {"pending", "returned", "reviewed"},
            makers : SUBSET People, \* its tester and all who recorded or edited it
            raised : BOOLEAN]       \* raised_issue_id is set

ControlRow == [archived : BOOLEAN,
               override : BOOLEAN, \* effectiveness_override_reason is not blank
               design : Ratings, operating : Ratings, combined : Ratings]

TypeOK ==
    /\ RiskTypeOK
    /\ issue \in [Issues -> IssueRow]
    /\ log \in [Issues -> LogLine]
    /\ moves \in [Issues -> Seq(MoveRow)]
    /\ control \in ControlRow
    /\ tests \in Seq(TestRow)
    /\ scope \in Scopes

NewIssue(p, owner, sensitive, due, onControl, onRisk) ==
    [status |-> "open", archived |-> FALSE, raisedBy |-> p, owner |-> owner,
     sensitive |-> sensitive, due |-> due, validation |-> "none", evidence |-> FALSE,
     actions |-> "none", onControl |-> onControl, onRisk |-> onRisk]

Init ==
    /\ RiskInit
    /\ issue = [i \in Issues |->
                  [NewIssue(ControlMaker, ControlMaker, FALSE, NoDueDate, FALSE, FALSE)
                     EXCEPT !.status = "absent"]]
    /\ log = [i \in Issues |-> "none"]
    /\ moves = [i \in Issues |-> <<>>]
    /\ control = [archived |-> FALSE, override |-> FALSE, design |-> "not_assessed",
                  operating |-> "not_assessed", combined |-> "not_assessed"]
    /\ tests = <<>>
    /\ scope \in Scopes

-----------------------------------------------------------------------------
(***************************************************************************)
(* The control's ratings follow                                            *)
(***************************************************************************)
Live(i) == issue[i].status # "absent" /\ ~ issue[i].archived

IsOpen(row) == row.status \in OpenStates /\ ~ row.archived

\* has_open_issue
HeldDown(rows) == \E i \in Issues : rows[i].onControl /\ IsOpen(rows[i])

\* recompute_controls and recompute, given the rows as they are now: archived controls
\* are passed over.
Recomputed(c, ts, rows) == IF c.archived THEN c ELSE Derived(c, ts, HeldDown(rows))

\* Of a handler that tells which controls it touched.
Follows(touched) ==
    control' = IF touched THEN Recomputed(control, tests, issue') ELSE control

-----------------------------------------------------------------------------
(***************************************************************************)
(* Raising, editing and archiving an issue                                 *)
(***************************************************************************)
\* Links are made to live records only, and those to archived ones left alone.
Linkable(archived, linked) == IF archived THEN {linked} ELSE BOOLEAN

RaiseIssue(i, p, owner, sensitive, due, onControl, onRisk) ==
    /\ issue[i].status = "absent"
    /\ onControl \in Linkable(control.archived, FALSE)
    /\ onRisk \in Linkable(risk.archived, FALSE)
    /\ issue' = [issue EXCEPT ![i] = NewIssue(p, owner, sensitive, due, onControl, onRisk)]
    /\ Follows(onControl)
    /\ UNCHANGED <<log, moves, tests>>

\* import_issue: raised open, then set to the closed state it arrives with.
ImportClosed(i, p, owner, status, sensitive, due, onControl, onRisk) ==
    /\ issue[i].status = "absent"
    /\ onControl \in Linkable(control.archived, FALSE)
    /\ onRisk \in Linkable(risk.archived, FALSE)
    /\ issue' = [issue EXCEPT ![i] =
                   [NewIssue(p, owner, sensitive, due, onControl, onRisk) EXCEPT !.status = status]]
    /\ Follows(onControl)
    /\ UNCHANGED <<log, moves, tests>>

\* _due_date_change: the row an edit logs.  A later date waits when the issue is, or is
\* being made, sensitive.
\* Mutant: only how sensitive the issue was counts.
WaitsAsItWas(row, sensitive, due) == due > row.due /\ row.sensitive

Waits(row, sensitive, due) == due > row.due /\ (row.sensitive \/ sensitive)

MovesDueDate(row, due) == row.due # NoDueDate /\ due # row.due

MayMove(i) == \A n \in DOMAIN moves[i] : moves[i][n].status # "pending"

Move(row, p, sensitive, due) ==
    [old |-> row.due, new |-> due, by |-> p, decidedBy |-> Nobody,
     status |-> IF Waits(row, sensitive, due) THEN "pending" ELSE "approved"]

\* Mutant: a date that waits is written all the same.
EditedAtOnce(row, status, owner, sensitive, due, onControl, onRisk) ==
    [row EXCEPT
        !.status = status, !.owner = owner, !.sensitive = sensitive, !.due = due,
        !.validation = IF row.status \in ClosedStates /\ status \in OpenStates THEN "none" ELSE @,
        !.onControl = onControl, !.onRisk = onRisk]

\* Mutant: the validation of the earlier fix survives the reopening.
EditedStillValid(row, status, owner, sensitive, due, onControl, onRisk) ==
    [row EXCEPT
        !.status = status, !.owner = owner, !.sensitive = sensitive,
        !.due = IF MovesDueDate(row, due) /\ Waits(row, sensitive, due) THEN @ ELSE due,
        !.onControl = onControl, !.onRisk = onRisk]

Edited(row, status, owner, sensitive, due, onControl, onRisk) ==
    [row EXCEPT
        !.status = status,
        !.owner = owner,
        !.sensitive = sensitive,
        !.due = IF MovesDueDate(row, due) /\ Waits(row, sensitive, due) THEN @ ELSE due,
        !.validation = IF row.status \in ClosedStates /\ status \in OpenStates THEN "none" ELSE @,
        !.onControl = onControl,
        !.onRisk = onRisk]

\* Mutant: the ratings follow the links alone.
EditIssueLinksOnly(i, p, status, owner, sensitive, due, onControl, onRisk) ==
    /\ Live(i)
    /\ status \in OpenStates \cup {issue[i].status}
    /\ ~ MovesDueDate(issue[i], due)
    /\ issue' = [issue EXCEPT ![i] = Edited(@, status, owner, sensitive, due, onControl, onRisk)]
    /\ Follows(onControl # issue[i].onControl)
    /\ UNCHANGED <<log, moves, tests>>

EditIssue(i, p, status, owner, sensitive, due, onControl, onRisk) ==
    /\ Live(i)
    /\ status \in OpenStates \cup {issue[i].status}
    /\ onControl \in Linkable(control.archived, issue[i].onControl)
    /\ onRisk \in Linkable(risk.archived, issue[i].onRisk)
    /\ IF MovesDueDate(issue[i], due)
       THEN /\ MayMove(i)
            /\ moves' = [moves EXCEPT ![i] = Append(@, Move(issue[i], p, sensitive, due))]
       ELSE UNCHANGED moves
    /\ issue' = [issue EXCEPT ![i] = Edited(@, status, owner, sensitive, due, onControl, onRisk)]
    /\ LET reopened == issue[i].status \in ClosedStates /\ status \in OpenStates
       IN  /\ log' = IF reopened THEN [log EXCEPT ![i] = "reopened"] ELSE log
           /\ Follows(onControl # issue[i].onControl \/ (reopened /\ onControl))
    /\ UNCHANGED tests

ArchiveIssue(i, p) ==
    /\ Live(i)
    /\ p # issue[i].raisedBy
    /\ issue' = [issue EXCEPT ![i].archived = TRUE]
    /\ Follows(issue[i].onControl)
    /\ UNCHANGED <<log, moves, tests>>

\* The shared restore of all registers: nothing follows.
RestoreIssue(i) ==
    /\ issue[i].archived
    /\ issue' = [issue EXCEPT ![i].archived = FALSE]
    /\ UNCHANGED <<log, moves, control, tests>>

-----------------------------------------------------------------------------
(***************************************************************************)
(* Remediation, validation and closing                                     *)
(***************************************************************************)
\* Nothing asks whether the issue is still open.
AddAction(i, settled) ==
    /\ Live(i)
    /\ issue' = [issue EXCEPT ![i].actions =
                   IF settled /\ @ # "pending" THEN "settled" ELSE "pending"]
    /\ UNCHANGED <<log, moves, control, tests>>

\* Actions are done, cancelled, taken up again or deleted.
UpdateActions(i, actions) ==
    /\ issue[i].actions # "none"
    /\ issue' = [issue EXCEPT ![i].actions = actions]
    /\ UNCHANGED <<log, moves, control, tests>>

\* Attachments and files of the issue (api/v1/collab.py) come and go.
ChangeEvidence(i, evidence) ==
    /\ Live(i)
    /\ issue' = [issue EXCEPT ![i].evidence = evidence]
    /\ UNCHANGED <<log, moves, control, tests>>

ValidateIssue(i, p, result) ==
    /\ Live(i)
    /\ issue[i].status \in OpenStates
    /\ result = "effective" => issue[i].evidence
    /\ p \notin {issue[i].owner, issue[i].raisedBy}
    /\ issue' = [issue EXCEPT ![i].validation = result,
                              ![i].status = IF result = "not_effective" THEN "in_progress" ELSE @]
    /\ log' = [log EXCEPT ![i] = result]
    /\ UNCHANGED <<moves, control, tests>>

\* has_approved_acceptance, over the live risks of the issue
AcceptanceBehind(i) ==
    /\ issue[i].onRisk
    /\ ~ risk.archived
    /\ \E a \in Acceptances : InForce(a)

MayClose(i, target, approver) ==
    /\ Live(i)
    /\ issue[i].status \in OpenStates
    /\ issue[i].actions # "pending"
    /\ IF target = "risk_accepted" THEN AcceptanceBehind(i) \/ approver
       ELSE issue[i].validation = "effective"

\* approver: who closes may approve issues, and wrote a note.
CloseIssue(i, p, target, approver) ==
    /\ MayClose(i, target, approver)
    /\ p # issue[i].raisedBy
    /\ issue' = [issue EXCEPT ![i].status = target]
    /\ log' = [log EXCEPT ![i] = "closed"]
    /\ Follows(issue[i].onControl)
    /\ UNCHANGED <<moves, tests>>

Decided(move, p, approve) ==
    [move EXCEPT !.status = IF approve THEN "approved" ELSE "rejected", !.decidedBy = p]

DecideDueDate(i, n, p, approve) ==
    /\ Live(i)
    /\ moves[i][n].status = "pending"
    /\ moves[i][n].by # p
    /\ moves' = [moves EXCEPT ![i][n] = Decided(moves[i][n], p, approve)]
    /\ issue' = IF approve THEN [issue EXCEPT ![i].due = moves[i][n].new] ELSE issue
    /\ UNCHANGED <<log, control, tests>>

-----------------------------------------------------------------------------
(***************************************************************************)
(* The control: its tests, their review, and a rating set by hand          *)
(***************************************************************************)
RecordTest(p, kind, result, on) ==
    /\ ~ control.archived
    /\ p # ControlMaker
    /\ Len(tests) < MaxTests
    /\ tests' = Append(tests, [kind |-> kind, result |-> result, on |-> on, review |-> "pending",
                               makers |-> {p}, raised |-> FALSE])
    /\ UNCHANGED <<issue, log, moves, control>>

TestEdited(test, p, kind, result, on) ==
    [test EXCEPT !.kind = kind, !.result = result, !.on = on, !.review = "pending",
                 !.makers = test.makers \cup {p}]

EditTest(n, p, kind, result, on) ==
    /\ ~ control.archived
    /\ p # ControlMaker
    /\ tests[n].review \in {"pending", "returned"}
    /\ tests' = [tests EXCEPT ![n] = TestEdited(tests[n], p, kind, result, on)]
    /\ UNCHANGED <<issue, log, moves, control>>

MayReview(n, p) ==
    /\ ~ control.archived
    /\ tests[n].review = "pending"
    /\ p \notin tests[n].makers

\* Mutant: the word for a test sent back is another register's.
ReturnTestRejected(n, p) ==
    /\ MayReview(n, p)
    /\ tests' = [tests EXCEPT ![n].review = "rejected"]
    /\ UNCHANGED <<issue, log, moves, control>>

ReturnTest(n, p) ==
    /\ MayReview(n, p)
    /\ tests' = [tests EXCEPT ![n].review = "returned"]
    /\ UNCHANGED <<issue, log, moves, control>>

\* _raise_issue: of a failed test or one with exceptions, once.
Raises(test) == test.result \in {"failed", "passed_with_exceptions"} /\ ~ test.raised

RaisedBy(test, p, owner) ==
    NewIssue(p, owner, test.result = "failed" /\ KeyControl, NoDueDate, TRUE, FALSE)

Reviewed(test) == [test EXCEPT !.review = "reviewed", !.raised = test.raised \/ Raises(test)]

\* Approving a test drops a rating set by hand.
ApproveTest(n, p) ==
    /\ MayReview(n, p)
    /\ tests[n].result # "not_assessed"
    /\ IF Raises(tests[n])
       THEN \E i \in Issues, owner \in People :
              /\ issue[i].status = "absent"
              /\ issue' = [issue EXCEPT ![i] = RaisedBy(tests[n], p, owner)]
       ELSE UNCHANGED issue
    /\ tests' = [tests EXCEPT ![n] = Reviewed(tests[n])]
    /\ control' = Recomputed([control EXCEPT !.override = FALSE], tests', issue')
    /\ UNCHANGED <<log, moves>>

SetOverride(rating) ==
    /\ ~ control.archived
    /\ control' = Recomputed([control EXCEPT !.override = TRUE, !.combined = rating], tests, issue)
    /\ UNCHANGED <<issue, log, moves, tests>>

DropOverride ==
    /\ ~ control.archived
    /\ control.override
    /\ control' = Recomputed([control EXCEPT !.override = FALSE, !.combined = "not_assessed"],
                             tests, issue)
    /\ UNCHANGED <<issue, log, moves, tests>>

ArchiveControl(p) ==
    /\ ~ control.archived
    /\ p # ControlMaker
    /\ control' = [control EXCEPT !.archived = TRUE]
    /\ UNCHANGED <<issue, log, moves, tests>>

RestoreControl ==
    /\ control.archived
    /\ control' = [control EXCEPT !.archived = FALSE]
    /\ UNCHANGED <<issue, log, moves, tests>>

-----------------------------------------------------------------------------
(***************************************************************************)
(* Together                                                                *)
(***************************************************************************)
Choices(part, all, kept) == IF part \in scope THEN all ELSE {kept}

\* Raised in the app, or imported closed.
Raising(i) ==
    \E raiser, owner \in Choices("remediation", People, ControlMaker),
       sensitive \in Choices("deadlines", BOOLEAN, FALSE),
       due \in Choices("deadlines", Dues, NoDueDate),
       onControl \in Choices("tests", BOOLEAN, FALSE),
       onRisk \in Choices("acceptances", BOOLEAN, FALSE) :
         \/ RaiseIssue(i, raiser, owner, sensitive, due, onControl, onRisk)
         \/ \E status \in Choices("remediation", ClosedStates, "closed") :
              ImportClosed(i, raiser, owner, status, sensitive, due, onControl, onRisk)

Editing(i, p) ==
    \E status \in Choices("remediation", OpenStates, "open") \cup {issue[i].status},
       owner \in Choices("remediation", People, issue[i].owner),
       sensitive \in Choices("deadlines", BOOLEAN, issue[i].sensitive),
       due \in Choices("deadlines", Dues, issue[i].due),
       onControl \in Choices("tests", BOOLEAN, issue[i].onControl),
       onRisk \in Choices("acceptances", BOOLEAN, issue[i].onRisk) :
         /\ Len(moves[i]) < MaxMoves \/ ~ MovesDueDate(issue[i], due)
         /\ EditIssue(i, p, status, owner, sensitive, due, onControl, onRisk)

Remedying(i, p) ==
    /\ "remediation" \in scope
    /\ \/ \E settled \in BOOLEAN : AddAction(i, settled)
       \/ \E actions \in {"none", "settled", "pending"} : UpdateActions(i, actions)
       \/ \E evidence \in BOOLEAN : ChangeEvidence(i, evidence)
       \/ \E result \in {"effective", "not_effective"} : ValidateIssue(i, p, result)

IssueNext ==
    \E i \in Issues, p \in People :
        \/ Raising(i)
        \/ Editing(i, p)
        \/ "acceptances" \notin scope /\ (ArchiveIssue(i, p) \/ RestoreIssue(i))
        \/ Remedying(i, p)
        \/ \E target \in ClosedStates, approver \in BOOLEAN : CloseIssue(i, p, target, approver)
        \/ \E n \in DOMAIN moves[i], approve \in BOOLEAN : DecideDueDate(i, n, p, approve)

ControlNext ==
    \/ \E p \in People :
         \/ \E kind \in TestKinds, result \in Outcomes, on \in TestDays :
              \/ RecordTest(p, kind, result, on)
              \/ \E n \in DOMAIN tests : EditTest(n, p, kind, result, on)
         \/ \E n \in DOMAIN tests : ReturnTest(n, p) \/ ApproveTest(n, p)
         \/ ArchiveControl(p)
    \/ \E rating \in Ratings : SetOverride(rating)
    \/ DropOverride
    \/ RestoreControl

Next ==
    /\ \/ "acceptances" \in scope /\ RiskNext /\ UNCHANGED <<issue, log, moves, control, tests>>
       \/ IssueNext /\ UNCHANGED riskVars
       \/ "tests" \in scope /\ ControlNext /\ UNCHANGED riskVars
    /\ UNCHANGED scope

Spec == Init /\ [][Next]_vars

-----------------------------------------------------------------------------
(***************************************************************************)
(* Properties                                                              *)
(***************************************************************************)
\* Deriving the ratings again would change nothing.
RatingsAgree == control = Recomputed(control, tests, issue)

\* A record of the shared archive is brought back.
ComesBack ==
    \/ control.archived /\ ~ control'.archived
    \/ \E i \in Issues : issue[i].archived /\ ~ issue'[i].archived

\* No step of a test, its review, an override or the life of an issue on the control
\* leaves the stored ratings other than what the approved tests and the open issues make
\* them: every handler that moves either derives them again (control_assurance.py:460).
\* Bringing a record back from the archive does not.
RatingsStayDerived == [][RatingsAgree /\ ~ ComesBack => RatingsAgree']_vars

\* "An open issue against the control caps the operating rating at partially effective
\* until it is closed" (control_assurance.py:154).
OpenIssueHoldsControl ==
    ~ control.archived /\ control.operating = "effective" => ~ HeldDown(issue)

\* An issue becomes closed or remediated only straight after an effective validation:
\* since it was last reopened, and with no other result in between (issues.py:508).
ClosedOnThisFix ==
    [][\A i \in Issues :
         issue[i].status \in OpenStates /\ issue'[i].status \in FixedStates
           => log[i] = "effective"]_vars

\* A logged move of a due date, unless it was turned down.
Counts(ms, n) == ms[n].status # "rejected"

NextCounted(ms, j, k) ==
    j < k /\ \A n \in DOMAIN ms : j < n /\ n < k => ~ Counts(ms, n)

Explained(ms, due) ==
    \A j \in DOMAIN ms :
        Counts(ms, j) =>
            /\ \A k \in DOMAIN ms :
                 Counts(ms, k) /\ NextCounted(ms, j, k) => ms[j].new \in {ms[k].old, NoDueDate}
            /\ ms[j].status = "pending" => ms[j].old = due
            /\ (ms[j].status = "approved"
                 /\ \A k \in DOMAIN ms : j < k => ms[k].status # "approved")
                    => ms[j].new \in {due, NoDueDate}

\* The log of an issue's due date accounts for it, whatever was moved, turned down and
\* moved again (issues.py:426): each move starts where the one before it ended, the last
\* one approved ends at the present date, and a move that waits starts from it.  A date
\* that was dropped may be set anew without a line.
DueDateExplained == \A i \in Issues : Explained(moves[i], issue[i].due)

\* The date of an issue that is sensitive, or made so by the same edit, gets later only by
\* a change somebody asked for and another approved.
ExtensionsTakeTwo ==
    [][\A i \in Issues :
         (/\ issue[i].status # "absent"
          /\ issue[i].sensitive \/ issue'[i].sensitive
          /\ issue'[i].due > issue[i].due)
            => \E n \in DOMAIN moves[i] :
                 /\ moves[i][n].status = "pending" /\ moves'[i][n].status = "approved"
                 /\ moves'[i][n].decidedBy \notin {moves'[i][n].by, Nobody}]_vars
=============================================================================
