------------------------- MODULE IssueClosureProofs -------------------------
(***************************************************************************)
(* Theorems about IssueClosure, for any number of issues, people, tests,   *)
(* moves of a due date, acceptances and days.                               *)
(***************************************************************************)
EXTENDS IssueClosure, RiskAcceptanceProofs

-----------------------------------------------------------------------------
(***************************************************************************)
(* Rows and ratings                                                        *)
(***************************************************************************)
IssueStatus == {"absent"} \cup OpenStates \cup ClosedStates

States == OpenStates \cup ClosedStates

LEMMA DuesAreNumbers == Dues \subseteq Nat /\ NoDueDate \in Dues /\ \A d \in Dues : d <= NoDueDate
  BY IssueAssumption DEF Dues

LEMMA NewIssueRow ==
    ASSUME NEW p \in People, NEW owner \in People, NEW sensitive \in BOOLEAN, NEW due \in Dues,
           NEW onControl \in BOOLEAN, NEW onRisk \in BOOLEAN
    PROVE  NewIssue(p, owner, sensitive, due, onControl, onRisk) \in IssueRow
  BY DEF NewIssue, IssueRow, OpenStates

LEMMA EditedRow ==
    ASSUME NEW row \in IssueRow, NEW status \in IssueStatus, NEW owner \in People,
           NEW sensitive \in BOOLEAN, NEW due \in Dues, NEW onControl \in BOOLEAN, NEW onRisk \in BOOLEAN
    PROVE  LET new == Edited(row, status, owner, sensitive, due, onControl, onRisk)
           IN  /\ new \in IssueRow
               /\ new.status = status
               /\ new.archived = row.archived
               /\ new.sensitive = sensitive
               /\ new.onControl = onControl
               /\ new.due = IF MovesDueDate(row, due) /\ Waits(row, sensitive, due) THEN row.due ELSE due
               /\ new.validation = IF row.status \in ClosedStates /\ status \in OpenStates
                                   THEN "none" ELSE row.validation
  <1> DEFINE new == Edited(row, status, owner, sensitive, due, onControl, onRisk)
             until == IF MovesDueDate(row, due) /\ Waits(row, sensitive, due) THEN row.due ELSE due
             valid == IF row.status \in ClosedStates /\ status \in OpenStates
                      THEN "none" ELSE row.validation
  <1>1. new = [row EXCEPT !.status = status, !.owner = owner, !.sensitive = sensitive, !.due = until,
                          !.validation = valid, !.onControl = onControl, !.onRisk = onRisk]
    BY DEF Edited
  <1>2. until \in Dues /\ valid \in {"none", "effective", "not_effective"}
    BY DEF IssueRow
  <1> HIDE DEF new, until, valid
  <1>3. /\ new \in IssueRow
        /\ new.status = status /\ new.archived = row.archived /\ new.sensitive = sensitive
        /\ new.onControl = onControl /\ new.due = until /\ new.validation = valid
    BY <1>1, <1>2 DEF IssueRow, IssueStatus
  <1> USE DEF new, until, valid
  <1> QED BY <1>3

\* Any two ratings combine to a rating, and every kind of test gives one.
LEMMA RatingsTyped ==
    /\ \A r, s \in Ratings : Worse(r, s) \in Ratings
    /\ \A r \in Ratings, open \in BOOLEAN : CapForOpenIssue(r, open) \in Ratings
    /\ \A result : RatingFor(result) \in Ratings
  BY DEF Worse, CapForOpenIssue, RatingFor, Ratings

LEMMA KindRatingTyped ==
    ASSUME NEW ts, NEW kind
    PROVE  KindRating(ts, kind) \in Ratings
  BY RatingsTyped DEF KindRating, Ratings

LEMMA HeldDownBoolean == \A rows : HeldDown(rows) \in BOOLEAN
  BY DEF HeldDown

LEMMA DerivedRow ==
    ASSUME NEW c \in ControlRow, NEW ts, NEW open \in BOOLEAN
    PROVE  /\ Derived(c, ts, open) \in ControlRow
           /\ Derived(c, ts, open).archived = c.archived
           /\ Derived(Derived(c, ts, open), ts, open) = Derived(c, ts, open)
  <1> DEFINE design == KindRating(ts, "design")
             operating == CapForOpenIssue(KindRating(ts, "operating"), open)
             rated == Counting(ts, "design") \cup Counting(ts, "operating") # {}
             combined(x) == IF x.override \/ ~ rated THEN x.combined ELSE Worse(design, operating)
             once == Derived(c, ts, open)
  <1>1. /\ design \in Ratings /\ operating \in Ratings
        /\ Worse(design, operating) \in Ratings
    BY KindRatingTyped, RatingsTyped
  <1>2. \A x : Derived(x, ts, open) =
                 [x EXCEPT !.design = design, !.operating = operating, !.combined = combined(x)]
    BY DEF Derived
  <1>3. \A x \in ControlRow : combined(x) \in Ratings
    BY <1>1 DEF ControlRow
  <1> HIDE DEF design, operating
  <1>4. once = [c EXCEPT !.design = design, !.operating = operating, !.combined = combined(c)]
    BY <1>2
  <1>5. /\ once \in ControlRow
        /\ once.archived = c.archived /\ once.override = c.override
        /\ once.design = design /\ once.operating = operating /\ once.combined = combined(c)
    BY <1>1, <1>3, <1>4 DEF ControlRow
  <1>6. combined(once) = combined(c)
    BY <1>5
  <1>7. Derived(once, ts, open) =
          [once EXCEPT !.design = design, !.operating = operating, !.combined = combined(once)]
    BY <1>2
  <1>8. Derived(once, ts, open) = once
    BY <1>5, <1>6, <1>7 DEF ControlRow
  <1> QED BY <1>5, <1>8

\* Derived a second time, the ratings stay.
LEMMA RecomputedRow ==
    ASSUME NEW c \in ControlRow, NEW ts, NEW rows
    PROVE  /\ Recomputed(c, ts, rows) \in ControlRow
           /\ Recomputed(Recomputed(c, ts, rows), ts, rows) = Recomputed(c, ts, rows)
  BY DerivedRow, HeldDownBoolean DEF Recomputed

-----------------------------------------------------------------------------
(***************************************************************************)
(* The steps, whatever a bound leaves out of them                          *)
(***************************************************************************)
\* What a person does to an issue, its parts moving together or not.
IssueStep(i, p) ==
    \/ \E raiser, owner \in People, sensitive \in BOOLEAN, due \in Dues, onControl, onRisk \in BOOLEAN :
          RaiseIssue(i, raiser, owner, sensitive, due, onControl, onRisk)
    \/ \E raiser, owner \in People, status \in ClosedStates, sensitive \in BOOLEAN, due \in Dues,
          onControl, onRisk \in BOOLEAN :
          ImportClosed(i, raiser, owner, status, sensitive, due, onControl, onRisk)
    \/ \E status \in IssueStatus, owner \in People, sensitive \in BOOLEAN, due \in Dues,
          onControl, onRisk \in BOOLEAN :
          EditIssue(i, p, status, owner, sensitive, due, onControl, onRisk)
    \/ ArchiveIssue(i, p)
    \/ RestoreIssue(i)
    \/ \E settled \in BOOLEAN : AddAction(i, settled)
    \/ \E actions \in {"none", "settled", "pending"} : UpdateActions(i, actions)
    \/ \E evidence \in BOOLEAN : ChangeEvidence(i, evidence)
    \/ \E result \in {"effective", "not_effective"} : ValidateIssue(i, p, result)
    \/ \E target \in ClosedStates, approver \in BOOLEAN : CloseIssue(i, p, target, approver)
    \/ \E n \in DOMAIN moves[i], approve \in BOOLEAN : DecideDueDate(i, n, p, approve)

LEMMA RaisingStep ==
    ASSUME NEW i \in Issues, NEW p \in People, Raising(i)
    PROVE  IssueStep(i, p)
  <1>1. ControlMaker \in People /\ NoDueDate \in Dues /\ FALSE \in BOOLEAN /\ "closed" \in ClosedStates
    BY IssueAssumption DEF Dues, ClosedStates, FixedStates
  <1>2. PICK raiser \in Choices("remediation", People, ControlMaker),
             owner \in Choices("remediation", People, ControlMaker),
             sensitive \in Choices("deadlines", BOOLEAN, FALSE),
             due \in Choices("deadlines", Dues, NoDueDate),
             onControl \in Choices("tests", BOOLEAN, FALSE),
             onRisk \in Choices("acceptances", BOOLEAN, FALSE) :
               \/ RaiseIssue(i, raiser, owner, sensitive, due, onControl, onRisk)
               \/ \E status \in Choices("remediation", ClosedStates, "closed") :
                    ImportClosed(i, raiser, owner, status, sensitive, due, onControl, onRisk)
    BY DEF Raising
  <1>3. /\ raiser \in People /\ owner \in People /\ sensitive \in BOOLEAN /\ due \in Dues
        /\ onControl \in BOOLEAN /\ onRisk \in BOOLEAN
    BY <1>1 DEF Choices
  <1>4. CASE RaiseIssue(i, raiser, owner, sensitive, due, onControl, onRisk)
    BY <1>3, <1>4 DEF IssueStep
  <1>5. ASSUME NEW status \in Choices("remediation", ClosedStates, "closed"),
               ImportClosed(i, raiser, owner, status, sensitive, due, onControl, onRisk)
        PROVE  IssueStep(i, p)
    <2>1. status \in ClosedStates
      BY <1>1 DEF Choices
    <2> QED BY <1>3, <1>5, <2>1 DEF IssueStep
  <1> QED BY <1>2, <1>4, <1>5

LEMMA EditingStep ==
    ASSUME TypeOK, NEW i \in Issues, NEW p \in People, Editing(i, p)
    PROVE  IssueStep(i, p)
  <1>1. issue[i] \in IssueRow
    BY DEF TypeOK
  <1>2. /\ issue[i].status \in IssueStatus /\ issue[i].owner \in People
        /\ issue[i].sensitive \in BOOLEAN /\ issue[i].due \in Dues
        /\ issue[i].onControl \in BOOLEAN /\ issue[i].onRisk \in BOOLEAN
    BY <1>1 DEF IssueRow, IssueStatus
  <1>3. PICK status \in Choices("remediation", OpenStates, "open") \cup {issue[i].status},
             owner \in Choices("remediation", People, issue[i].owner),
             sensitive \in Choices("deadlines", BOOLEAN, issue[i].sensitive),
             due \in Choices("deadlines", Dues, issue[i].due),
             onControl \in Choices("tests", BOOLEAN, issue[i].onControl),
             onRisk \in Choices("acceptances", BOOLEAN, issue[i].onRisk) :
               EditIssue(i, p, status, owner, sensitive, due, onControl, onRisk)
    BY DEF Editing
  <1>4. /\ owner \in People /\ sensitive \in BOOLEAN /\ due \in Dues
        /\ onControl \in BOOLEAN /\ onRisk \in BOOLEAN
    BY <1>2 DEF Choices
  <1>5. status \in IssueStatus
    BY <1>2 DEF Choices, IssueStatus, OpenStates
  <1> QED BY <1>3, <1>4, <1>5 DEF IssueStep

LEMMA IssueSteps ==
    ASSUME TypeOK, IssueNext
    PROVE  \E i \in Issues, p \in People : IssueStep(i, p)
  <1>1. PICK i \in Issues, p \in People :
        \/ Raising(i)
        \/ Editing(i, p)
        \/ ArchiveIssue(i, p) \/ RestoreIssue(i)
        \/ Remedying(i, p)
        \/ \E target \in ClosedStates, approver \in BOOLEAN : CloseIssue(i, p, target, approver)
        \/ \E n \in DOMAIN moves[i], approve \in BOOLEAN : DecideDueDate(i, n, p, approve)
    BY DEF IssueNext
  <1>2. CASE Raising(i) \/ Editing(i, p)
    BY <1>2, RaisingStep, EditingStep
  <1>3. CASE ArchiveIssue(i, p) \/ RestoreIssue(i)
    BY <1>3 DEF IssueStep
  <1>4. CASE Remedying(i, p)
    BY <1>4 DEF Remedying, IssueStep
  <1>5. CASE \E target \in ClosedStates, approver \in BOOLEAN : CloseIssue(i, p, target, approver)
    BY <1>5 DEF IssueStep
  <1>6. CASE \E n \in DOMAIN moves[i], approve \in BOOLEAN : DecideDueDate(i, n, p, approve)
    BY <1>6 DEF IssueStep
  <1> QED BY <1>1, <1>2, <1>3, <1>4, <1>5, <1>6

\* What is done to the control and its tests.
ControlStep ==
    \/ \E p \in People, kind \in TestKinds, result \in TestResults, on \in TestDays :
          \/ RecordTest(p, kind, result, on)
          \/ \E n \in DOMAIN tests : EditTest(n, p, kind, result, on)
    \/ \E p \in People, n \in DOMAIN tests : ReturnTest(n, p) \/ ApproveTest(n, p)
    \/ \E p \in People : ArchiveControl(p)
    \/ \E rating \in Ratings : SetOverride(rating)
    \/ DropOverride
    \/ RestoreControl

LEMMA ControlSteps == ControlNext => ControlStep
  BY IssueAssumption DEF ControlNext, ControlStep

\* A step of the whole leaves the risk or the issues and the control alone.
LEMMA Steps ==
    ASSUME TypeOK, Next
    PROVE  \/ RiskNext /\ UNCHANGED <<issue, log, moves, control, tests, scope>>
           \/ /\ \E i \in Issues, p \in People : IssueStep(i, p)
              /\ UNCHANGED <<riskVars, scope>>
           \/ ControlStep /\ UNCHANGED <<riskVars, scope>>
  BY IssueSteps, ControlSteps DEF Next

-----------------------------------------------------------------------------
(***************************************************************************)
(* Types                                                                   *)
(***************************************************************************)
LEMMA InitTyped == Init => TypeOK
  <1> SUFFICES ASSUME Init PROVE TypeOK
    OBVIOUS
  <1> DEFINE blank == [NewIssue(ControlMaker, ControlMaker, FALSE, NoDueDate, FALSE, FALSE)
                         EXCEPT !.status = "absent"]
  <1>1. RiskTypeOK
    BY RiskInitTyped DEF Init
  <1>2. blank \in IssueRow
    <2>1. NewIssue(ControlMaker, ControlMaker, FALSE, NoDueDate, FALSE, FALSE) \in IssueRow
      BY NewIssueRow, IssueAssumption DEF Dues
    <2> QED BY <2>1 DEF IssueRow
  <1>3. issue = [i \in Issues |-> blank]
    BY DEF Init
  <1> HIDE DEF blank
  <1>4. issue \in [Issues -> IssueRow]
    BY <1>2, <1>3
  <1>5. log \in [Issues -> LogLine]
    BY DEF Init, LogLine
  <1>6. moves \in [Issues -> Seq(MoveRow)]
    BY DEF Init
  <1>7. control \in ControlRow
    BY DEF Init, ControlRow, Ratings
  <1>8. tests \in Seq(TestRow) /\ scope \in Scopes
    BY DEF Init
  <1> QED BY <1>1, <1>4, <1>5, <1>6, <1>7, <1>8 DEF TypeOK

LEMMA FollowsTyped ==
    ASSUME TypeOK, NEW touched \in BOOLEAN, Follows(touched)
    PROVE  control' \in ControlRow
  BY RecomputedRow DEF Follows, TypeOK

LEMMA MoveTyped ==
    ASSUME NEW row \in IssueRow, NEW p \in People, NEW sensitive \in BOOLEAN, NEW due \in Dues
    PROVE  Move(row, p, sensitive, due) \in MoveRow
  BY DEF Move, MoveRow, IssueRow

LEMMA DecidedTyped ==
    ASSUME NEW move \in MoveRow, NEW p \in People, NEW approve \in BOOLEAN
    PROVE  /\ Decided(move, p, approve) \in MoveRow
           /\ Decided(move, p, approve).status = IF approve THEN "approved" ELSE "rejected"
           /\ Decided(move, p, approve).old = move.old
           /\ Decided(move, p, approve).new = move.new
           /\ Decided(move, p, approve).by = move.by
           /\ Decided(move, p, approve).decidedBy = p
  BY DEF Decided, MoveRow

\* The moves of an issue after one of them is replaced.
LEMMA MoveReplaced ==
    ASSUME moves \in [Issues -> Seq(MoveRow)], NEW i \in Issues, NEW n \in DOMAIN moves[i],
           NEW move \in MoveRow, moves' = [moves EXCEPT ![i][n] = move]
    PROVE  /\ moves' \in [Issues -> Seq(MoveRow)]
           /\ \A j \in Issues \ {i} : moves'[j] = moves[j]
           /\ DOMAIN moves'[i] = DOMAIN moves[i]
           /\ moves'[i][n] = move
           /\ \A m \in DOMAIN moves[i] : m # n => moves'[i][m] = moves[i][m]
  <1> DEFINE ms == [moves[i] EXCEPT ![n] = move]
  <1>1. moves[i] \in Seq(MoveRow)
    OBVIOUS
  <1>2. ms \in Seq(MoveRow)
    BY <1>1
  <1>3. /\ DOMAIN ms = DOMAIN moves[i]
        /\ ms[n] = move
        /\ \A m \in DOMAIN moves[i] : m # n => ms[m] = moves[i][m]
    BY <1>1
  <1>4. moves' = [moves EXCEPT ![i] = ms]
    OBVIOUS
  <1> HIDE DEF ms
  <1> QED BY <1>2, <1>3, <1>4

LEMMA TestTyped ==
    ASSUME NEW test \in TestRow, NEW p \in People, NEW kind \in TestKinds, NEW result \in TestResults,
           NEW on \in TestDays
    PROVE  /\ TestEdited(test, p, kind, result, on) \in TestRow
           /\ TestEdited(test, p, kind, result, on).review = "pending"
  BY DEF TestEdited, TestRow

LEMMA ReviewedTyped ==
    ASSUME NEW test \in TestRow
    PROVE  Reviewed(test) \in TestRow
  <1>1. Raises(test) \in BOOLEAN
    BY DEF Raises
  <1> QED BY <1>1 DEF Reviewed, TestRow

\* What a step leaves of the issues, the log and the moves: all rows but i are as they were.
LEMMA IssueStepTyped ==
    ASSUME TypeOK, NEW i \in Issues, NEW p \in People, IssueStep(i, p)
    PROVE  /\ issue' \in [Issues -> IssueRow]
           /\ log' \in [Issues -> LogLine]
           /\ moves' \in [Issues -> Seq(MoveRow)]
           /\ control' \in ControlRow
           /\ tests' = tests
           /\ \A j \in Issues \ {i} : issue'[j] = issue[j] /\ log'[j] = log[j] /\ moves'[j] = moves[j]
  <1> DEFINE Typed == /\ issue' \in [Issues -> IssueRow]
                      /\ log' \in [Issues -> LogLine]
                      /\ moves' \in [Issues -> Seq(MoveRow)]
                      /\ control' \in ControlRow
                      /\ tests' = tests
                      /\ \A j \in Issues \ {i} : issue'[j] = issue[j] /\ log'[j] = log[j] /\ moves'[j] = moves[j]
  <1>0. /\ issue \in [Issues -> IssueRow] /\ log \in [Issues -> LogLine]
        /\ moves \in [Issues -> Seq(MoveRow)] /\ control \in ControlRow
        /\ issue[i] \in IssueRow
    BY DEF TypeOK
  <1>1. ASSUME NEW raiser \in People, NEW owner \in People, NEW sensitive \in BOOLEAN, NEW due \in Dues,
               NEW onControl \in BOOLEAN, NEW onRisk \in BOOLEAN,
               RaiseIssue(i, raiser, owner, sensitive, due, onControl, onRisk)
        PROVE  Typed
    <2>1. NewIssue(raiser, owner, sensitive, due, onControl, onRisk) \in IssueRow
      BY NewIssueRow
    <2>2. control' \in ControlRow
      BY <1>1, FollowsTyped DEF RaiseIssue
    <2> QED BY <1>0, <1>1, <2>1, <2>2 DEF RaiseIssue
  <1>2. ASSUME NEW raiser \in People, NEW owner \in People, NEW status \in ClosedStates,
               NEW sensitive \in BOOLEAN, NEW due \in Dues, NEW onControl \in BOOLEAN, NEW onRisk \in BOOLEAN,
               ImportClosed(i, raiser, owner, status, sensitive, due, onControl, onRisk)
        PROVE  Typed
    <2> DEFINE new == NewIssue(raiser, owner, sensitive, due, onControl, onRisk)
    <2>1. new \in IssueRow
      BY NewIssueRow, DuesAreNumbers
    <2>2. control' \in ControlRow
      BY <1>2, FollowsTyped DEF ImportClosed
    <2>3. issue' = [issue EXCEPT ![i] = [new EXCEPT !.status = status]]
      BY <1>2 DEF ImportClosed
    <2> HIDE DEF new
    <2>4. [new EXCEPT !.status = status] \in IssueRow
      BY <2>1 DEF IssueRow
    <2> QED BY <1>0, <1>2, <2>2, <2>3, <2>4 DEF ImportClosed
  <1>3. ASSUME NEW status \in IssueStatus, NEW owner \in People, NEW sensitive \in BOOLEAN,
               NEW due \in Dues, NEW onControl \in BOOLEAN, NEW onRisk \in BOOLEAN,
               EditIssue(i, p, status, owner, sensitive, due, onControl, onRisk)
        PROVE  Typed
    <2>1. Edited(issue[i], status, owner, sensitive, due, onControl, onRisk) \in IssueRow
      BY <1>0, EditedRow
    <2>2. issue' = [issue EXCEPT ![i] = Edited(issue[i], status, owner, sensitive, due, onControl, onRisk)]
      BY <1>0, <1>3 DEF EditIssue
    <2>3. control' \in ControlRow
      BY <1>3, FollowsTyped DEF EditIssue
    <2>4. Move(issue[i], p, sensitive, due) \in MoveRow
      BY <1>0, MoveTyped
    <2>5. \/ moves' = [moves EXCEPT ![i] = Append(moves[i], Move(issue[i], p, sensitive, due))]
          \/ moves' = moves
      BY <1>0, <1>3 DEF EditIssue
    <2>6. /\ moves' \in [Issues -> Seq(MoveRow)]
          /\ \A j \in Issues \ {i} : moves'[j] = moves[j]
      <3> DEFINE longer == Append(moves[i], Move(issue[i], p, sensitive, due))
      <3>1. longer \in Seq(MoveRow)
        BY <1>0, <2>4
      <3> HIDE DEF longer
      <3>2. moves' = [moves EXCEPT ![i] = longer] \/ moves' = moves
        BY <2>5 DEF longer
      <3> QED BY <1>0, <3>1, <3>2
    <2>7. /\ log' \in [Issues -> LogLine]
          /\ \A j \in Issues \ {i} : log'[j] = log[j]
      BY <1>0, <1>3 DEF EditIssue, LogLine
    <2>8. /\ issue' \in [Issues -> IssueRow]
          /\ \A j \in Issues \ {i} : issue'[j] = issue[j]
      BY <1>0, <2>1, <2>2
    <2> QED BY <1>3, <2>3, <2>6, <2>7, <2>8 DEF EditIssue
  <1>4. CASE ArchiveIssue(i, p)
    <2>1. control' \in ControlRow
      BY <1>0, <1>4, FollowsTyped DEF ArchiveIssue, IssueRow
    <2> QED BY <1>0, <1>4, <2>1 DEF ArchiveIssue, IssueRow
  <1>5. CASE RestoreIssue(i)
    BY <1>0, <1>5 DEF RestoreIssue, IssueRow
  <1>6. ASSUME NEW settled \in BOOLEAN, AddAction(i, settled)
        PROVE  Typed
    BY <1>0, <1>6 DEF AddAction, IssueRow
  <1>7. ASSUME NEW actions \in {"none", "settled", "pending"}, UpdateActions(i, actions)
        PROVE  Typed
    BY <1>0, <1>7 DEF UpdateActions, IssueRow
  <1>8. ASSUME NEW evidence \in BOOLEAN, ChangeEvidence(i, evidence)
        PROVE  Typed
    BY <1>0, <1>8 DEF ChangeEvidence, IssueRow
  <1>9. ASSUME NEW result \in {"effective", "not_effective"}, ValidateIssue(i, p, result)
        PROVE  Typed
    <2>1. issue' \in [Issues -> IssueRow] /\ \A j \in Issues \ {i} : issue'[j] = issue[j]
      BY <1>0, <1>9 DEF ValidateIssue, IssueRow, OpenStates
    <2> QED BY <1>0, <1>9, <2>1 DEF ValidateIssue, LogLine
  <1>10. ASSUME NEW target \in ClosedStates, NEW approver \in BOOLEAN, CloseIssue(i, p, target, approver)
         PROVE  Typed
    <2>1. control' \in ControlRow
      BY <1>0, <1>10, FollowsTyped DEF CloseIssue, IssueRow
    <2> QED BY <1>0, <1>10, <2>1 DEF CloseIssue, IssueRow, LogLine
  <1>11. ASSUME NEW n \in DOMAIN moves[i], NEW approve \in BOOLEAN, DecideDueDate(i, n, p, approve)
         PROVE  Typed
    <2> DEFINE move == Decided(moves[i][n], p, approve)
    <2>1. moves[i] \in Seq(MoveRow) /\ moves[i][n] \in MoveRow
      BY <1>0
    <2>2. move \in MoveRow
      BY <2>1, DecidedTyped
    <2>3. moves' = [moves EXCEPT ![i][n] = move]
      BY <1>11 DEF DecideDueDate
    <2> HIDE DEF move
    <2>4. moves' \in [Issues -> Seq(MoveRow)] /\ \A j \in Issues \ {i} : moves'[j] = moves[j]
      BY <1>0, <2>2, <2>3, MoveReplaced
    <2>5. moves[i][n].new \in Dues
      BY <2>1 DEF MoveRow
    <2>6. issue' \in [Issues -> IssueRow] /\ \A j \in Issues \ {i} : issue'[j] = issue[j]
      BY <1>0, <1>11, <2>5 DEF DecideDueDate, IssueRow
    <2> QED BY <1>0, <1>11, <2>4, <2>6 DEF DecideDueDate
  <1> QED BY <1>1, <1>2, <1>3, <1>4, <1>5, <1>6, <1>7, <1>8, <1>9, <1>10, <1>11 DEF IssueStep

\* What a step leaves of the control, its tests and the issues a review raises.
LEMMA ControlStepTyped ==
    ASSUME TypeOK, ControlStep
    PROVE  /\ issue' \in [Issues -> IssueRow]
           /\ \A j \in Issues : \/ issue'[j] = issue[j]
                               \/ /\ issue[j].status = "absent"
                                  /\ issue'[j].validation = "none"
           /\ UNCHANGED <<log, moves>>
           /\ control' \in ControlRow
           /\ tests' \in Seq(TestRow)
  <1> DEFINE Typed == /\ issue' \in [Issues -> IssueRow]
                      /\ \A j \in Issues : \/ issue'[j] = issue[j]
                                          \/ /\ issue[j].status = "absent"
                                             /\ issue'[j].validation = "none"
                      /\ UNCHANGED <<log, moves>>
                      /\ control' \in ControlRow
                      /\ tests' \in Seq(TestRow)
  <1>0. issue \in [Issues -> IssueRow] /\ control \in ControlRow /\ tests \in Seq(TestRow)
    BY DEF TypeOK
  <1>1. ASSUME NEW p \in People, NEW kind \in TestKinds, NEW result \in TestResults, NEW on \in TestDays,
               RecordTest(p, kind, result, on)
        PROVE  Typed
    <2> DEFINE test == [kind |-> kind, result |-> result, on |-> on, review |-> "pending",
                        makers |-> {p}, raised |-> FALSE]
    <2>1. test \in TestRow
      BY DEF TestRow
    <2>2. tests' = Append(tests, test)
      BY <1>1 DEF RecordTest
    <2> HIDE DEF test
    <2>3. tests' \in Seq(TestRow)
      BY <1>0, <2>1, <2>2
    <2> QED BY <1>0, <1>1, <2>3 DEF RecordTest
  <1>2. ASSUME NEW p \in People, NEW kind \in TestKinds, NEW result \in TestResults, NEW on \in TestDays,
               NEW n \in DOMAIN tests, EditTest(n, p, kind, result, on)
        PROVE  Typed
    <2>0. tests[n] \in TestRow
      BY <1>0
    <2>1. TestEdited(tests[n], p, kind, result, on) \in TestRow
      BY <2>0, TestTyped
    <2>2. tests' \in Seq(TestRow)
      BY <1>0, <1>2, <2>1 DEF EditTest
    <2> QED BY <1>0, <1>2, <2>2 DEF EditTest
  <1>3. ASSUME NEW p \in People, NEW n \in DOMAIN tests, ReturnTest(n, p)
        PROVE  Typed
    <2>0. tests[n] \in TestRow
      BY <1>0
    <2>1. [tests[n] EXCEPT !.review = "returned"] \in TestRow
      BY <2>0 DEF TestRow
    <2>2. tests' = [tests EXCEPT ![n] = [tests[n] EXCEPT !.review = "returned"]]
      BY <1>3 DEF ReturnTest
    <2>3. tests' \in Seq(TestRow)
      BY <1>0, <2>1, <2>2
    <2> QED BY <1>0, <1>3, <2>3 DEF ReturnTest
  <1>4. ASSUME NEW p \in People, NEW n \in DOMAIN tests, ApproveTest(n, p)
        PROVE  Typed
    <2>0. tests[n] \in TestRow
      BY <1>0
    <2>1. Reviewed(tests[n]) \in TestRow
      BY <2>0, ReviewedTyped
    <2>2. tests' \in Seq(TestRow)
      BY <1>0, <1>4, <2>1 DEF ApproveTest
    <2>3. [control EXCEPT !.override = FALSE] \in ControlRow
      BY <1>0 DEF ControlRow
    <2>4. control' \in ControlRow
      BY <1>4, <2>3, RecomputedRow DEF ApproveTest
    <2>5. /\ issue' \in [Issues -> IssueRow]
          /\ \A j \in Issues : \/ issue'[j] = issue[j]
                              \/ /\ issue[j].status = "absent"
                                 /\ issue'[j].validation = "none"
      <3>1. CASE issue' = issue
        BY <1>0, <3>1
      <3>2. ASSUME NEW i \in Issues, NEW owner \in People, issue[i].status = "absent",
                   issue' = [issue EXCEPT ![i] = RaisedBy(tests[n], p, owner)]
            PROVE  <2>5!1 /\ <2>5!2
        <4>1. RaisedBy(tests[n], p, owner) \in IssueRow
          BY NewIssueRow, DuesAreNumbers, IssueAssumption DEF RaisedBy
        <4>2. RaisedBy(tests[n], p, owner).validation = "none"
          BY DEF RaisedBy, NewIssue
        <4> QED BY <1>0, <3>2, <4>1, <4>2
      <3> QED BY <1>4, <3>1, <3>2 DEF ApproveTest
    <2> QED BY <1>4, <2>2, <2>4, <2>5 DEF ApproveTest
  <1>5. ASSUME NEW p \in People, ArchiveControl(p)
        PROVE  Typed
    BY <1>0, <1>5 DEF ArchiveControl, ControlRow
  <1>6. ASSUME NEW rating \in Ratings, SetOverride(rating)
        PROVE  Typed
    <2>1. [control EXCEPT !.override = TRUE, !.combined = rating] \in ControlRow
      BY <1>0 DEF ControlRow
    <2> QED BY <1>0, <1>6, <2>1, RecomputedRow DEF SetOverride
  <1>7. CASE DropOverride
    <2>1. [control EXCEPT !.override = FALSE, !.combined = "not_assessed"] \in ControlRow
      BY <1>0 DEF ControlRow, Ratings
    <2> QED BY <1>0, <1>7, <2>1, RecomputedRow DEF DropOverride
  <1>8. CASE RestoreControl
    BY <1>0, <1>8 DEF RestoreControl, ControlRow
  <1> QED BY <1>1, <1>2, <1>3, <1>4, <1>5, <1>6, <1>7, <1>8 DEF ControlStep

LEMMA StepTyped ==
    ASSUME TypeOK, Next
    PROVE  TypeOK'
  <1>1. ASSUME RiskNext, UNCHANGED <<issue, log, moves, control, tests, scope>>
        PROVE  TypeOK'
    BY <1>1, RiskStepTyped DEF TypeOK
  <1>2. RiskTypeOK
    BY DEF TypeOK
  <1>3. UNCHANGED riskVars => RiskTypeOK'
    BY <1>2 DEF riskVars, RiskTypeOK, Days
  <1>4. ASSUME NEW i \in Issues, NEW p \in People, IssueStep(i, p), UNCHANGED <<riskVars, scope>>
        PROVE  TypeOK'
    BY <1>3, <1>4, IssueStepTyped DEF TypeOK
  <1>5. ASSUME ControlStep, UNCHANGED <<riskVars, scope>>
        PROVE  TypeOK'
    BY <1>3, <1>5, ControlStepTyped DEF TypeOK
  <1> QED BY <1>1, <1>4, <1>5, Steps

LEMMA StutterTyped ==
    ASSUME TypeOK, UNCHANGED vars
    PROVE  TypeOK'
  BY DEF TypeOK, RiskTypeOK, Days, vars

LEMMA TypeInvariant == Spec => []TypeOK
  <1>1. TypeOK /\ [Next]_vars => TypeOK'
    BY StepTyped, StutterTyped
  <1> QED BY <1>1, InitTyped, PTL DEF Spec

-----------------------------------------------------------------------------
(***************************************************************************)
(* Closing on the fix that was validated                                   *)
(***************************************************************************)
\* While an issue is open, a validation on its row is the last thing that happened to it.
FixLogged ==
    \A i \in Issues :
        issue[i].status \in OpenStates /\ issue[i].validation = "effective" => log[i] = "effective"

LEMMA StatesDiffer == /\ OpenStates \cap ClosedStates = {}
                      /\ "absent" \notin OpenStates \cup ClosedStates
                      /\ FixedStates \subseteq ClosedStates
  BY DEF OpenStates, ClosedStates, FixedStates

\* The step of one issue: its log follows its validation, and it is closed as fixed only
\* after an effective one.
LEMMA IssueStepFix ==
    ASSUME TypeOK, FixLogged, NEW i \in Issues, NEW p \in People, IssueStep(i, p)
    PROVE  /\ issue'[i].status \in OpenStates /\ issue'[i].validation = "effective"
                => log'[i] = "effective"
           /\ issue[i].status \in OpenStates /\ issue'[i].status \in FixedStates
                => log[i] = "effective"
  <1> DEFINE Goal == /\ issue'[i].status \in OpenStates /\ issue'[i].validation = "effective"
                          => log'[i] = "effective"
                     /\ issue[i].status \in OpenStates /\ issue'[i].status \in FixedStates
                          => log[i] = "effective"
  <1>0. /\ issue \in [Issues -> IssueRow] /\ log \in [Issues -> LogLine]
        /\ issue[i] \in IssueRow
    BY DEF TypeOK
  <1>1. ASSUME NEW raiser \in People, NEW owner \in People, NEW sensitive \in BOOLEAN, NEW due \in Dues,
               NEW onControl \in BOOLEAN, NEW onRisk \in BOOLEAN,
               RaiseIssue(i, raiser, owner, sensitive, due, onControl, onRisk)
        PROVE  Goal
    BY <1>0, <1>1, StatesDiffer DEF RaiseIssue, NewIssue
  <1>2. ASSUME NEW raiser \in People, NEW owner \in People, NEW status \in ClosedStates,
               NEW sensitive \in BOOLEAN, NEW due \in Dues, NEW onControl \in BOOLEAN, NEW onRisk \in BOOLEAN,
               ImportClosed(i, raiser, owner, status, sensitive, due, onControl, onRisk)
        PROVE  Goal
    <2> DEFINE new == NewIssue(raiser, owner, sensitive, due, onControl, onRisk)
    <2>1. new \in IssueRow
      BY NewIssueRow, DuesAreNumbers
    <2>2. issue' = [issue EXCEPT ![i] = [new EXCEPT !.status = status]] /\ issue[i].status = "absent"
      BY <1>2 DEF ImportClosed
    <2> HIDE DEF new
    <2>3. issue'[i].status = status
      BY <1>0, <2>1, <2>2 DEF IssueRow
    <2> QED BY <2>2, <2>3, StatesDiffer
  <1>3. ASSUME NEW status \in IssueStatus, NEW owner \in People, NEW sensitive \in BOOLEAN,
               NEW due \in Dues, NEW onControl \in BOOLEAN, NEW onRisk \in BOOLEAN,
               EditIssue(i, p, status, owner, sensitive, due, onControl, onRisk)
        PROVE  Goal
    <2> DEFINE new == Edited(issue[i], status, owner, sensitive, due, onControl, onRisk)
               reopened == issue[i].status \in ClosedStates /\ status \in OpenStates
    <2>1. /\ issue'[i] = new
          /\ log'[i] = IF reopened THEN "reopened" ELSE log[i]
          /\ status \in OpenStates \cup {issue[i].status}
          /\ issue[i].status # "absent"
      BY <1>0, <1>3 DEF EditIssue, Live
    <2>2. new.status = status /\ new.validation = IF reopened THEN "none" ELSE issue[i].validation
      BY <1>0, EditedRow
    <2>3. issue[i].status \in OpenStates \cup ClosedStates
      BY <1>0, <2>1 DEF IssueRow
    <2> HIDE DEF new
    <2> QED BY <2>1, <2>2, <2>3, StatesDiffer DEF FixLogged
  <1>4. CASE ArchiveIssue(i, p) \/ RestoreIssue(i)
    BY <1>0, <1>4, StatesDiffer DEF ArchiveIssue, RestoreIssue, IssueRow, FixLogged
  <1>5. ASSUME NEW settled \in BOOLEAN, AddAction(i, settled)
        PROVE  Goal
    BY <1>0, <1>5, StatesDiffer DEF AddAction, IssueRow, FixLogged
  <1>6. ASSUME NEW actions \in {"none", "settled", "pending"}, UpdateActions(i, actions)
        PROVE  Goal
    BY <1>0, <1>6, StatesDiffer DEF UpdateActions, IssueRow, FixLogged
  <1>7. ASSUME NEW evidence \in BOOLEAN, ChangeEvidence(i, evidence)
        PROVE  Goal
    BY <1>0, <1>7, StatesDiffer DEF ChangeEvidence, IssueRow, FixLogged
  <1>8. ASSUME NEW result \in {"effective", "not_effective"}, ValidateIssue(i, p, result)
        PROVE  Goal
    <2>1. /\ issue'[i].status \in {issue[i].status, "in_progress"}
          /\ issue'[i].validation = result
          /\ log'[i] = result
          /\ issue[i].status \in OpenStates
      BY <1>0, <1>8 DEF ValidateIssue, IssueRow
    <2>2. issue'[i].status \in OpenStates
      BY <2>1 DEF OpenStates
    <2> QED BY <2>1, <2>2, StatesDiffer
  <1>9. ASSUME NEW target \in ClosedStates, NEW approver \in BOOLEAN, CloseIssue(i, p, target, approver)
        PROVE  Goal
    <2>1. /\ issue'[i].status = target
          /\ issue[i].status \in OpenStates
          /\ target # "risk_accepted" => issue[i].validation = "effective"
      BY <1>0, <1>9 DEF CloseIssue, MayClose, IssueRow
    <2>2. target \in FixedStates => target # "risk_accepted"
      BY DEF FixedStates
    <2> QED BY <2>1, <2>2, StatesDiffer DEF FixLogged
  <1>10. ASSUME NEW n \in DOMAIN moves[i], NEW approve \in BOOLEAN, DecideDueDate(i, n, p, approve)
         PROVE  Goal
    <2>1. /\ issue'[i].status = issue[i].status
          /\ issue'[i].validation = issue[i].validation
          /\ log'[i] = log[i]
      BY <1>0, <1>10 DEF DecideDueDate, IssueRow
    <2> QED BY <2>1, StatesDiffer DEF FixLogged
  <1> QED BY <1>1, <1>2, <1>3, <1>4, <1>5, <1>6, <1>7, <1>8, <1>9, <1>10 DEF IssueStep

LEMMA StepFix ==
    ASSUME TypeOK, FixLogged, Next
    PROVE  /\ FixLogged'
           /\ \A i \in Issues :
                 issue[i].status \in OpenStates /\ issue'[i].status \in FixedStates
                   => log[i] = "effective"
  <1> DEFINE Goal(j) == /\ issue'[j].status \in OpenStates /\ issue'[j].validation = "effective"
                             => log'[j] = "effective"
                        /\ issue[j].status \in OpenStates /\ issue'[j].status \in FixedStates
                             => log[j] = "effective"
  <1>1. ASSUME NEW j \in Issues, issue'[j] = issue[j], log'[j] = log[j]
        PROVE  Goal(j)
    BY <1>1, StatesDiffer DEF FixLogged
  <1>2. ASSUME NEW i \in Issues, NEW p \in People, IssueStep(i, p), NEW j \in Issues
        PROVE  Goal(j)
    <2>1. CASE j = i
      BY <1>2, <2>1, IssueStepFix
    <2>2. CASE j # i
      <3>1. issue'[j] = issue[j] /\ log'[j] = log[j]
        BY <1>2, <2>2, IssueStepTyped
      <3> QED BY <1>1, <3>1
    <2> QED BY <2>1, <2>2
  <1>3. ASSUME ControlStep, NEW j \in Issues
        PROVE  Goal(j)
    <2>1. log' = log
      BY <1>3, ControlStepTyped
    <2>2. issue'[j] = issue[j] \/ (issue[j].status = "absent" /\ issue'[j].validation = "none")
      BY <1>3, ControlStepTyped
    <2> QED BY <1>1, <2>1, <2>2, StatesDiffer
  <1>4. ASSUME UNCHANGED <<issue, log>>, NEW j \in Issues
        PROVE  Goal(j)
    BY <1>1, <1>4
  <1>5. \A j \in Issues : Goal(j)
    BY <1>2, <1>3, <1>4, Steps
  <1> QED BY <1>5 DEF FixLogged

-----------------------------------------------------------------------------
(***************************************************************************)
(* The log of a due date                                                   *)
(***************************************************************************)
\* Nothing is logged after a move that waits, and no move starts from no date at all.
Ordered(ms) ==
    \A n \in DOMAIN ms : /\ ms[n].old # NoDueDate
                         /\ ms[n].status = "pending" => \A m \in DOMAIN ms : m <= n

\* A row that is not there yet has no moves.
MovesOrdered ==
    \A i \in Issues : /\ Ordered(moves[i])
                      /\ issue[i].status = "absent" => moves[i] = <<>>

LEMMA AppendExplained ==
    ASSUME NEW ms \in Seq(MoveRow), NEW due, NEW later, NEW move \in MoveRow,
           Ordered(ms), Explained(ms, due), \A n \in DOMAIN ms : ms[n].status # "pending",
           move.old = due, due # NoDueDate,
           \/ move.status = "pending" /\ later = due
           \/ move.status = "approved" /\ later = move.new
    PROVE  Ordered(Append(ms, move)) /\ Explained(Append(ms, move), later)
  <1> DEFINE longer == Append(ms, move)
             last == Len(ms) + 1
  <1>1. /\ longer \in Seq(MoveRow)
        /\ Len(ms) \in Nat /\ last \in Nat
        /\ DOMAIN ms = 1..Len(ms)
        /\ DOMAIN longer = 1..last
        /\ longer[last] = move
        /\ \A n \in 1..Len(ms) : longer[n] = ms[n]
    OBVIOUS
  <1>2. \A n \in 1..Len(ms) : ms[n].status \in {"approved", "rejected"}
    <2> SUFFICES ASSUME NEW n \in 1..Len(ms) PROVE ms[n].status \in {"approved", "rejected"}
      OBVIOUS
    <2>1. ms[n] \in MoveRow
      BY <1>1
    <2> QED BY <1>1, <2>1 DEF MoveRow
  <1>3. \A n \in DOMAIN longer : n = last \/ n \in 1..Len(ms)
    BY <1>1
  <1>4. \A m \in DOMAIN longer : m <= last
    BY <1>1
  <1> HIDE DEF longer, last
  <1>5. Ordered(longer)
    BY <1>1, <1>2, <1>3, <1>4 DEF Ordered
  <1>6. ASSUME NEW j \in DOMAIN longer, Counts(longer, j)
        PROVE  /\ \A k \in DOMAIN longer :
                     Counts(longer, k) /\ NextCounted(longer, j, k) => longer[j].new \in {longer[k].old, NoDueDate}
               /\ longer[j].status = "pending" => longer[j].old = later
               /\ (longer[j].status = "approved"
                    /\ \A k \in DOMAIN longer : j < k => longer[k].status # "approved")
                       => longer[j].new \in {later, NoDueDate}
    <2>1. CASE j = last
      <3>1. \A k \in DOMAIN longer : ~ (j < k)
        BY <1>1, <2>1
      <3> QED BY <1>1, <2>1, <3>1 DEF NextCounted
    <2>2. CASE j \in 1..Len(ms)
      <3>1. longer[j] = ms[j] /\ ms[j].status = "approved" /\ Counts(ms, j) /\ j < last /\ j \in DOMAIN ms
        BY <1>1, <1>2, <1>6, <2>2 DEF Counts, last
      <3>2. ASSUME \A k \in DOMAIN ms : j < k => ms[k].status # "approved"
            PROVE  ms[j].new \in {due, NoDueDate}
        BY <3>1, <3>2 DEF Explained
      <3>3. ASSUME NEW k \in DOMAIN longer, Counts(longer, k), NextCounted(longer, j, k)
            PROVE  longer[j].new \in {longer[k].old, NoDueDate}
        <4>1. CASE k = last
          <5>1. \A m \in DOMAIN ms : j < m => ms[m].status # "approved"
            <6> SUFFICES ASSUME NEW m \in DOMAIN ms, j < m PROVE ms[m].status # "approved"
              OBVIOUS
            <6>1. m \in 1..Len(ms) /\ m < last /\ m \in DOMAIN longer /\ longer[m] = ms[m]
              BY <1>1 DEF last
            <6>2. ~ Counts(longer, m)
              BY <3>3, <4>1, <6>1 DEF NextCounted
            <6> QED BY <6>1, <6>2 DEF Counts
          <5> QED BY <1>1, <3>1, <3>2, <4>1, <5>1
        <4>2. CASE k \in 1..Len(ms)
          <5>1. longer[k] = ms[k] /\ k \in DOMAIN ms /\ Counts(ms, k)
            BY <1>1, <3>3, <4>2 DEF Counts
          <5>2. NextCounted(ms, j, k)
            <6>1. \A n \in DOMAIN ms : n \in DOMAIN longer /\ longer[n] = ms[n]
              BY <1>1 DEF last
            <6> QED BY <3>3, <6>1 DEF NextCounted, Counts
          <5> QED BY <3>1, <5>1, <5>2 DEF Explained
        <4> QED BY <1>3, <4>1, <4>2
      <3>4. ASSUME \A k \in DOMAIN longer : j < k => longer[k].status # "approved"
            PROVE  longer[j].new \in {later, NoDueDate}
        <4>1. last \in DOMAIN longer
          BY <1>1
        <4>2. move.status # "approved"
          BY <1>1, <3>1, <3>4, <4>1
        <4>3. \A k \in DOMAIN ms : k \in DOMAIN longer /\ longer[k] = ms[k]
          BY <1>1 DEF last
        <4> QED BY <3>1, <3>2, <3>4, <4>2, <4>3
      <3> QED BY <3>1, <3>3, <3>4
    <2> QED BY <1>3, <2>1, <2>2
  <1>7. Explained(longer, later)
    BY <1>6 DEF Explained
  <1> QED BY <1>5, <1>7 DEF longer

LEMMA DecideExplained ==
    ASSUME NEW ms \in Seq(MoveRow), NEW due, NEW later, NEW after \in Seq(MoveRow), NEW n \in DOMAIN ms,
           Ordered(ms), Explained(ms, due), ms[n].status = "pending",
           DOMAIN after = DOMAIN ms, \A m \in DOMAIN ms : m # n => after[m] = ms[m],
           after[n].old = ms[n].old, after[n].new = ms[n].new,
           \/ after[n].status = "approved" /\ later = ms[n].new
           \/ after[n].status = "rejected" /\ later = due
    PROVE  Ordered(after) /\ Explained(after, later)
  <1>1. \A m \in DOMAIN ms : m <= n
    BY DEF Ordered
  <1>2. DOMAIN ms \subseteq Nat
    OBVIOUS
  <1>3. Ordered(after)
    BY DEF Ordered
  <1>4. ASSUME NEW j \in DOMAIN after, Counts(after, j)
        PROVE  /\ \A k \in DOMAIN after :
                     Counts(after, k) /\ NextCounted(after, j, k) => after[j].new \in {after[k].old, NoDueDate}
               /\ after[j].status = "pending" => after[j].old = later
               /\ (after[j].status = "approved"
                    /\ \A k \in DOMAIN after : j < k => after[k].status # "approved")
                       => after[j].new \in {later, NoDueDate}
    <2>1. CASE j = n
      <3>1. \A k \in DOMAIN after : ~ (j < k)
        BY <1>1, <1>2, <2>1
      <3> QED BY <1>4, <2>1, <3>1 DEF NextCounted, Counts
    <2>2. CASE j # n
      <3>1. /\ j \in DOMAIN ms /\ after[j] = ms[j] /\ Counts(ms, j)
            /\ j < n
        BY <1>1, <1>2, <1>4, <2>2 DEF Counts
      <3>2. ms[j].status # "pending"
        BY <1>1, <1>2, <3>1 DEF Ordered
      <3>3. ASSUME NEW k \in DOMAIN after, Counts(after, k), NextCounted(after, j, k)
            PROVE  after[j].new \in {after[k].old, NoDueDate}
        <4>1. after[k].old = ms[k].old /\ Counts(ms, k)
          BY <3>3 DEF Counts
        <4>2. NextCounted(ms, j, k)
          <5> SUFFICES ASSUME NEW m \in DOMAIN ms, j < m, m < k PROVE ~ Counts(ms, m)
            BY <3>3 DEF NextCounted
          <5>1. m # n
            BY <1>1, <1>2, <3>3
          <5> QED BY <3>3, <5>1 DEF NextCounted, Counts
        <4> QED BY <3>1, <4>1, <4>2 DEF Explained
      <3>4. ASSUME after[j].status = "approved",
                   \A k \in DOMAIN after : j < k => after[k].status # "approved"
            PROVE  after[j].new \in {later, NoDueDate}
        <4>1. after[n].status = "rejected" /\ later = due
          BY <3>1, <3>4
        <4>2. \A k \in DOMAIN ms : j < k => ms[k].status # "approved"
          BY <3>4
        <4> QED BY <3>1, <3>4, <4>1, <4>2 DEF Explained
      <3> QED BY <3>1, <3>2, <3>3, <3>4
    <2> QED BY <2>1, <2>2
  <1>5. Explained(after, later)
    BY <1>4 DEF Explained
  <1> QED BY <1>3, <1>5

\* A date that got later although the issue is sensitive, or being made so: by a change one
\* asked for and another approved.
Extended(i) ==
    /\ issue[i].status # "absent"
    /\ issue[i].sensitive \/ issue'[i].sensitive
    /\ issue'[i].due > issue[i].due

TakenByTwo(i) ==
    \E n \in DOMAIN moves[i] :
        /\ moves[i][n].status = "pending" /\ moves'[i][n].status = "approved"
        /\ moves'[i][n].decidedBy \notin {moves'[i][n].by, Nobody}

MovesKept(i) ==
    /\ Ordered(moves'[i])
    /\ issue'[i].status = "absent" => moves'[i] = <<>>
    /\ Explained(moves'[i], issue'[i].due)
    /\ Extended(i) => TakenByTwo(i)

LEMMA SameDate ==
    ASSUME TypeOK, MovesOrdered, DueDateExplained, NEW i \in Issues,
           moves'[i] = moves[i], issue'[i].due = issue[i].due,
           issue'[i].status = "absent" => issue[i].status = "absent"
    PROVE  MovesKept(i)
  <1>1. issue[i].due \in Nat
    BY DuesAreNumbers DEF TypeOK, IssueRow
  <1>2. ~ (issue[i].due > issue[i].due)
    BY <1>1
  <1> QED BY <1>2 DEF MovesKept, Extended, MovesOrdered, DueDateExplained

\* A row raised where there was none: nothing is logged of it.
LEMMA FirstDate ==
    ASSUME MovesOrdered, NEW i \in Issues, moves' = moves, issue[i].status = "absent"
    PROVE  MovesKept(i)
  <1>1. moves'[i] = <<>>
    BY DEF MovesOrdered
  <1>2. Ordered(<<>>) /\ \A due : Explained(<<>>, due)
    BY DEF Ordered, Explained
  <1> QED BY <1>1, <1>2 DEF MovesKept, Extended

LEMMA EditMoves ==
    ASSUME TypeOK, MovesOrdered, DueDateExplained, NEW i \in Issues, NEW p \in People,
           NEW status \in IssueStatus, NEW owner \in People, NEW sensitive \in BOOLEAN,
           NEW due \in Dues, NEW onControl \in BOOLEAN, NEW onRisk \in BOOLEAN,
           EditIssue(i, p, status, owner, sensitive, due, onControl, onRisk)
    PROVE  MovesKept(i)
  <1> DEFINE new == Edited(issue[i], status, owner, sensitive, due, onControl, onRisk)
  <1>1. /\ issue[i] \in IssueRow /\ moves[i] \in Seq(MoveRow)
        /\ issue \in [Issues -> IssueRow] /\ moves \in [Issues -> Seq(MoveRow)]
    BY DEF TypeOK
  <1>2. issue'[i] = new
    BY <1>1 DEF EditIssue
  <1>3. /\ new.sensitive = sensitive
        /\ new.status = status
        /\ new.due = IF MovesDueDate(issue[i], due) /\ Waits(issue[i], sensitive, due)
                     THEN issue[i].due ELSE due
    BY <1>1, EditedRow
  <1>4. /\ issue[i].status # "absent"
        /\ status \in OpenStates \cup {issue[i].status}
    BY DEF EditIssue, Live
  <1>5. status # "absent"
    BY <1>4 DEF OpenStates
  <1>6. /\ issue[i].due \in Nat /\ due \in Nat /\ NoDueDate \in Nat
        /\ issue[i].due <= NoDueDate /\ due <= NoDueDate
    BY <1>1, DuesAreNumbers DEF IssueRow
  <1>7. Ordered(moves[i]) /\ Explained(moves[i], issue[i].due)
    BY DEF MovesOrdered, DueDateExplained
  <1> HIDE DEF new
  <1>8. CASE ~ MovesDueDate(issue[i], due)
    <2>1. moves'[i] = moves[i]
      BY <1>8 DEF EditIssue
    <2>2. issue'[i].due = due
      BY <1>2, <1>3, <1>8
    <2>3. CASE due = issue[i].due
      BY <1>2, <1>3, <1>5, <2>1, <2>2, <2>3, SameDate
    <2>4. CASE issue[i].due = NoDueDate
      <3>1. \A n \in DOMAIN moves[i] : moves[i][n].status # "pending"
        BY <1>7, <2>4 DEF Ordered, Explained, Counts
      <3>2. Explained(moves[i], due)
        BY <1>7, <2>4, <3>1 DEF Explained
      <3>3. ~ (due > issue[i].due)
        BY <1>6, <2>4
      <3> QED BY <1>2, <1>3, <1>5, <1>7, <2>1, <2>2, <3>2, <3>3 DEF MovesKept, Extended
    <2> QED BY <1>8, <2>3, <2>4 DEF MovesDueDate
  <1>9. CASE MovesDueDate(issue[i], due)
    <2> DEFINE move == Move(issue[i], p, sensitive, due)
    <2>1. /\ moves' = [moves EXCEPT ![i] = Append(moves[i], move)]
          /\ \A n \in DOMAIN moves[i] : moves[i][n].status # "pending"
      BY <1>1, <1>9 DEF EditIssue, MayMove
    <2>2. moves'[i] = Append(moves[i], move)
      BY <1>1, <2>1
    <2>3. /\ move \in MoveRow
          /\ move.old = issue[i].due /\ move.new = due
          /\ move.status = IF Waits(issue[i], sensitive, due) THEN "pending" ELSE "approved"
      BY <1>1, MoveTyped DEF Move
    <2>4. issue[i].due # NoDueDate
      BY <1>9 DEF MovesDueDate
    <2> HIDE DEF move
    <2>5. \/ move.status = "pending" /\ new.due = issue[i].due
          \/ move.status = "approved" /\ new.due = move.new
      BY <1>3, <1>9, <2>3
    <2>6. Ordered(Append(moves[i], move)) /\ Explained(Append(moves[i], move), new.due)
      BY <1>1, <1>7, <2>1, <2>3, <2>4, <2>5, AppendExplained
    <2>7. ~ Extended(i)
      BY <1>2, <1>3, <1>6, <1>9 DEF Extended, Waits
    <2> QED BY <1>2, <1>3, <1>5, <2>2, <2>6, <2>7 DEF MovesKept
  <1> QED BY <1>8, <1>9

LEMMA DecideMoves ==
    ASSUME TypeOK, MovesOrdered, DueDateExplained, NEW i \in Issues, NEW p \in People,
           NEW n \in DOMAIN moves[i], NEW approve \in BOOLEAN, DecideDueDate(i, n, p, approve)
    PROVE  MovesKept(i)
  <1> DEFINE move == Decided(moves[i][n], p, approve)
  <1>1. /\ issue[i] \in IssueRow /\ moves[i] \in Seq(MoveRow)
        /\ issue \in [Issues -> IssueRow] /\ moves \in [Issues -> Seq(MoveRow)]
        /\ moves[i][n] \in MoveRow
    BY DEF TypeOK
  <1>2. /\ move \in MoveRow
        /\ move.status = IF approve THEN "approved" ELSE "rejected"
        /\ move.old = moves[i][n].old /\ move.new = moves[i][n].new
        /\ move.by = moves[i][n].by /\ move.decidedBy = p
    BY <1>1, DecidedTyped
  <1>3. /\ moves' = [moves EXCEPT ![i][n] = move]
        /\ moves[i][n].status = "pending" /\ moves[i][n].by # p
        /\ issue[i].status # "absent"
    BY DEF DecideDueDate, Live
  <1> HIDE DEF move
  <1>4. /\ moves' \in [Issues -> Seq(MoveRow)]
        /\ DOMAIN moves'[i] = DOMAIN moves[i]
        /\ moves'[i][n] = move
        /\ \A m \in DOMAIN moves[i] : m # n => moves'[i][m] = moves[i][m]
    BY <1>1, <1>2, <1>3, MoveReplaced
  <1>5. /\ issue'[i].due = IF approve THEN moves[i][n].new ELSE issue[i].due
        /\ issue'[i].status = issue[i].status
    BY <1>1 DEF DecideDueDate, IssueRow
  <1>6. Ordered(moves[i]) /\ Explained(moves[i], issue[i].due)
    BY DEF MovesOrdered, DueDateExplained
  <1>7. \/ move.status = "approved" /\ issue'[i].due = moves[i][n].new
        \/ move.status = "rejected" /\ issue'[i].due = issue[i].due
    BY <1>2, <1>5
  <1>8. Ordered(moves'[i]) /\ Explained(moves'[i], issue'[i].due)
    <2> DEFINE ms == moves[i]
               after == moves'[i]
               due == issue[i].due
               later == issue'[i].due
    <2>1. /\ ms \in Seq(MoveRow) /\ after \in Seq(MoveRow) /\ n \in DOMAIN ms
          /\ Ordered(ms) /\ Explained(ms, due) /\ ms[n].status = "pending"
          /\ DOMAIN after = DOMAIN ms /\ \A m \in DOMAIN ms : m # n => after[m] = ms[m]
          /\ after[n].old = ms[n].old /\ after[n].new = ms[n].new
          /\ \/ after[n].status = "approved" /\ later = ms[n].new
             \/ after[n].status = "rejected" /\ later = due
      BY <1>1, <1>2, <1>3, <1>4, <1>6, <1>7
    <2> HIDE DEF ms, after, due, later
    <2>2. Ordered(after) /\ Explained(after, later)
      BY <2>1, DecideExplained
    <2> QED BY <2>2 DEF after, later
  <1>9. Extended(i) => TakenByTwo(i)
    <2> SUFFICES ASSUME Extended(i) PROVE TakenByTwo(i)
      OBVIOUS
    <2>1. issue[i].due \in Nat
      BY <1>1, DuesAreNumbers DEF IssueRow
    <2>2. approve
      BY <1>5, <2>1 DEF Extended
    <2>3. p # Nobody
      BY IssueAssumption
    <2> QED BY <1>2, <1>3, <1>4, <2>2, <2>3 DEF TakenByTwo
  <1> QED BY <1>3, <1>5, <1>8, <1>9 DEF MovesKept

LEMMA IssueStepMoves ==
    ASSUME TypeOK, MovesOrdered, DueDateExplained, NEW i \in Issues, NEW p \in People, IssueStep(i, p)
    PROVE  MovesKept(i)
  <1>0. /\ issue \in [Issues -> IssueRow] /\ issue[i] \in IssueRow
        /\ moves \in [Issues -> Seq(MoveRow)]
    BY DEF TypeOK
  <1>1. ASSUME NEW raiser \in People, NEW owner \in People, NEW sensitive \in BOOLEAN, NEW due \in Dues,
               NEW onControl \in BOOLEAN, NEW onRisk \in BOOLEAN,
               RaiseIssue(i, raiser, owner, sensitive, due, onControl, onRisk)
        PROVE  MovesKept(i)
    BY <1>1, FirstDate DEF RaiseIssue
  <1>2. ASSUME NEW raiser \in People, NEW owner \in People, NEW status \in ClosedStates,
               NEW sensitive \in BOOLEAN, NEW due \in Dues, NEW onControl \in BOOLEAN, NEW onRisk \in BOOLEAN,
               ImportClosed(i, raiser, owner, status, sensitive, due, onControl, onRisk)
        PROVE  MovesKept(i)
    BY <1>2, FirstDate DEF ImportClosed
  <1>3. ASSUME NEW status \in IssueStatus, NEW owner \in People, NEW sensitive \in BOOLEAN,
               NEW due \in Dues, NEW onControl \in BOOLEAN, NEW onRisk \in BOOLEAN,
               EditIssue(i, p, status, owner, sensitive, due, onControl, onRisk)
        PROVE  MovesKept(i)
    BY <1>3, EditMoves
  \* The other steps leave the date and its log alone.
  <1>4. ASSUME moves' = moves, issue'[i].due = issue[i].due,
               issue'[i].status = "absent" => issue[i].status = "absent"
        PROVE  MovesKept(i)
    BY <1>4, SameDate
  <1>5. CASE ArchiveIssue(i, p) \/ RestoreIssue(i)
    BY <1>0, <1>4, <1>5 DEF ArchiveIssue, RestoreIssue, IssueRow
  <1>6. ASSUME NEW settled \in BOOLEAN, AddAction(i, settled)
        PROVE  MovesKept(i)
    BY <1>0, <1>4, <1>6 DEF AddAction, IssueRow
  <1>7. ASSUME NEW actions \in {"none", "settled", "pending"}, UpdateActions(i, actions)
        PROVE  MovesKept(i)
    BY <1>0, <1>4, <1>7 DEF UpdateActions, IssueRow
  <1>8. ASSUME NEW evidence \in BOOLEAN, ChangeEvidence(i, evidence)
        PROVE  MovesKept(i)
    BY <1>0, <1>4, <1>8 DEF ChangeEvidence, IssueRow
  <1>9. ASSUME NEW result \in {"effective", "not_effective"}, ValidateIssue(i, p, result)
        PROVE  MovesKept(i)
    BY <1>0, <1>4, <1>9 DEF ValidateIssue, IssueRow
  <1>10. ASSUME NEW target \in ClosedStates, NEW approver \in BOOLEAN, CloseIssue(i, p, target, approver)
         PROVE  MovesKept(i)
    <2>1. target # "absent"
      BY StatesDiffer
    <2> QED BY <1>0, <1>4, <1>10, <2>1 DEF CloseIssue, IssueRow
  <1>11. ASSUME NEW n \in DOMAIN moves[i], NEW approve \in BOOLEAN, DecideDueDate(i, n, p, approve)
         PROVE  MovesKept(i)
    BY <1>11, DecideMoves
  <1> QED BY <1>1, <1>2, <1>3, <1>5, <1>6, <1>7, <1>8, <1>9, <1>10, <1>11 DEF IssueStep

LEMMA StepMoves ==
    ASSUME TypeOK, MovesOrdered, DueDateExplained, Next
    PROVE  \A j \in Issues : MovesKept(j)
  <1>1. ASSUME NEW i \in Issues, NEW p \in People, IssueStep(i, p), NEW j \in Issues
        PROVE  MovesKept(j)
    <2>1. CASE j = i
      BY <1>1, <2>1, IssueStepMoves
    <2>2. CASE j # i
      <3>1. issue'[j] = issue[j] /\ moves'[j] = moves[j]
        BY <1>1, <2>2, IssueStepTyped
      <3> QED BY <3>1, SameDate
    <2> QED BY <2>1, <2>2
  <1>2. ASSUME ControlStep, NEW j \in Issues
        PROVE  MovesKept(j)
    <2>1. /\ moves' = moves
          /\ issue'[j] = issue[j] \/ issue[j].status = "absent"
      BY <1>2, ControlStepTyped
    <2> QED BY <2>1, SameDate, FirstDate
  <1>3. ASSUME UNCHANGED <<issue, moves>>, NEW j \in Issues
        PROVE  MovesKept(j)
    BY <1>3, SameDate
  <1> QED BY <1>1, <1>2, <1>3, Steps

-----------------------------------------------------------------------------
(***************************************************************************)
(* The ratings follow                                                      *)
(***************************************************************************)
\* The ratings are a matter of the tests that count and of whether an issue is open.
LEMMA SameTests ==
    ASSUME NEW c, NEW ts, NEW us, NEW open, \A kind \in TestKinds : Counting(us, kind) = Counting(ts, kind)
    PROVE  Derived(c, us, open) = Derived(c, ts, open)
  <1>1. Counting(us, "design") = Counting(ts, "design") /\ Counting(us, "operating") = Counting(ts, "operating")
    BY DEF TestKinds
  <1>2. KindRating(us, "design") = KindRating(ts, "design")
        /\ KindRating(us, "operating") = KindRating(ts, "operating")
    BY <1>1 DEF KindRating
  <1> QED BY <1>1, <1>2 DEF Derived

HoldsDown(row) == row.onControl /\ IsOpen(row)

LEMMA SameHeld ==
    ASSUME NEW rows, NEW later, \A i \in Issues : HoldsDown(later[i]) <=> HoldsDown(rows[i])
    PROVE  HeldDown(later) = HeldDown(rows)
  BY DEF HeldDown, HoldsDown

LEMMA UntouchedAgree ==
    ASSUME RatingsAgree, control' = control, HeldDown(issue') = HeldDown(issue),
           \A kind \in TestKinds : Counting(tests', kind) = Counting(tests, kind)
    PROVE  RatingsAgree'
  <1>1. Derived(control, tests', HeldDown(issue')) = Derived(control, tests, HeldDown(issue))
    BY SameTests
  <1>2. Recomputed(control, tests', issue') = Recomputed(control, tests, issue)
    BY <1>1 DEF Recomputed
  <1> QED BY <1>2 DEF RatingsAgree

LEMMA RecomputedAgree ==
    ASSUME NEW c \in ControlRow, control' = Recomputed(c, tests', issue')
    PROVE  RatingsAgree'
  BY RecomputedRow DEF RatingsAgree

LEMMA FollowsAgree ==
    ASSUME TypeOK, RatingsAgree, NEW touched \in BOOLEAN, Follows(touched), tests' = tests,
           ~ touched => HeldDown(issue') = HeldDown(issue)
    PROVE  RatingsAgree'
  <1>1. CASE touched
    <2>1. control \in ControlRow /\ control' = Recomputed(control, tests', issue')
      BY <1>1 DEF Follows, TypeOK
    <2> QED BY <2>1, RecomputedAgree
  <1>2. CASE ~ touched
    BY <1>2, UntouchedAgree DEF Follows
  <1> QED BY <1>1, <1>2

LEMMA IssueStepAgree ==
    ASSUME TypeOK, RatingsAgree, ~ ComesBack, NEW i \in Issues, NEW p \in People, IssueStep(i, p)
    PROVE  RatingsAgree'
  <1>0. /\ issue \in [Issues -> IssueRow] /\ issue[i] \in IssueRow
        /\ tests' = tests
        /\ \A j \in Issues \ {i} : issue'[j] = issue[j]
    BY IssueStepTyped DEF TypeOK
  <1>1. ASSUME HoldsDown(issue'[i]) <=> HoldsDown(issue[i])
        PROVE  HeldDown(issue') = HeldDown(issue)
    <2>1. \A j \in Issues : HoldsDown(issue'[j]) <=> HoldsDown(issue[j])
      BY <1>0, <1>1
    <2> QED BY <2>1, SameHeld
  \* Of the steps that derive nothing.
  <1>2. ASSUME control' = control, HoldsDown(issue'[i]) <=> HoldsDown(issue[i])
        PROVE  RatingsAgree'
    BY <1>0, <1>1, <1>2, UntouchedAgree
  <1>3. ASSUME NEW touched \in BOOLEAN, Follows(touched),
               ~ touched => (HoldsDown(issue'[i]) <=> HoldsDown(issue[i]))
        PROVE  RatingsAgree'
    BY <1>0, <1>1, <1>3, FollowsAgree
  <1>4. issue[i].onControl \in BOOLEAN
    BY <1>0 DEF IssueRow
  <1>5. ASSUME NEW raiser \in People, NEW owner \in People, NEW sensitive \in BOOLEAN, NEW due \in Dues,
               NEW onControl \in BOOLEAN, NEW onRisk \in BOOLEAN,
               RaiseIssue(i, raiser, owner, sensitive, due, onControl, onRisk)
        PROVE  RatingsAgree'
    <2>1. /\ Follows(onControl) /\ issue[i].status = "absent"
          /\ issue'[i] = NewIssue(raiser, owner, sensitive, due, onControl, onRisk)
      BY <1>0, <1>5 DEF RaiseIssue
    <2>2. ~ onControl => (HoldsDown(issue'[i]) <=> HoldsDown(issue[i]))
      BY <2>1, StatesDiffer DEF HoldsDown, IsOpen, NewIssue
    <2> QED BY <1>3, <2>1, <2>2
  <1>6. ASSUME NEW raiser \in People, NEW owner \in People, NEW status \in ClosedStates,
               NEW sensitive \in BOOLEAN, NEW due \in Dues, NEW onControl \in BOOLEAN, NEW onRisk \in BOOLEAN,
               ImportClosed(i, raiser, owner, status, sensitive, due, onControl, onRisk)
        PROVE  RatingsAgree'
    <2> DEFINE new == NewIssue(raiser, owner, sensitive, due, onControl, onRisk)
    <2>1. /\ Follows(onControl) /\ issue[i].status = "absent"
          /\ issue'[i] = [new EXCEPT !.status = status]
      BY <1>0, <1>6 DEF ImportClosed
    <2>2. new \in IssueRow
      BY NewIssueRow, DuesAreNumbers
    <2> HIDE DEF new
    <2>3. issue'[i].status = status
      BY <2>1, <2>2 DEF IssueRow
    <2>4. ~ HoldsDown(issue'[i]) /\ ~ HoldsDown(issue[i])
      BY <2>1, <2>3, StatesDiffer DEF HoldsDown, IsOpen
    <2> QED BY <1>3, <2>1, <2>4
  <1>7. ASSUME NEW status \in IssueStatus, NEW owner \in People, NEW sensitive \in BOOLEAN,
               NEW due \in Dues, NEW onControl \in BOOLEAN, NEW onRisk \in BOOLEAN,
               EditIssue(i, p, status, owner, sensitive, due, onControl, onRisk)
        PROVE  RatingsAgree'
    <2> DEFINE new == Edited(issue[i], status, owner, sensitive, due, onControl, onRisk)
               reopened == issue[i].status \in ClosedStates /\ status \in OpenStates
               touched == onControl # issue[i].onControl \/ (reopened /\ onControl)
    <2>1. /\ Follows(touched) /\ issue'[i] = new
          /\ status \in OpenStates \cup {issue[i].status}
          /\ issue[i].status # "absent"
      BY <1>0, <1>7 DEF EditIssue, Live
    <2>2. /\ new.status = status /\ new.onControl = onControl /\ new.archived = issue[i].archived
      BY <1>0, EditedRow
    <2>3. issue[i].status \in OpenStates \cup ClosedStates
      BY <1>0, <2>1 DEF IssueRow
    <2> HIDE DEF new
    <2>4. ~ touched => (HoldsDown(issue'[i]) <=> HoldsDown(issue[i]))
      BY <1>4, <2>1, <2>2, <2>3, StatesDiffer DEF HoldsDown, IsOpen
    <2>5. touched \in BOOLEAN
      OBVIOUS
    <2> HIDE DEF touched
    <2> QED BY <1>3, <2>1, <2>4, <2>5
  <1>8. CASE ArchiveIssue(i, p)
    <2>1. /\ Follows(issue[i].onControl)
          /\ issue'[i].onControl = issue[i].onControl
      BY <1>0, <1>8 DEF ArchiveIssue, IssueRow
    <2> QED BY <1>3, <1>4, <2>1 DEF HoldsDown
  <1>9. CASE RestoreIssue(i)
    BY <1>0, <1>9 DEF RestoreIssue, IssueRow, ComesBack
  <1>10. ASSUME NEW settled \in BOOLEAN, AddAction(i, settled)
         PROVE  RatingsAgree'
    BY <1>0, <1>2, <1>10 DEF AddAction, IssueRow, HoldsDown, IsOpen
  <1>11. ASSUME NEW actions \in {"none", "settled", "pending"}, UpdateActions(i, actions)
         PROVE  RatingsAgree'
    BY <1>0, <1>2, <1>11 DEF UpdateActions, IssueRow, HoldsDown, IsOpen
  <1>12. ASSUME NEW evidence \in BOOLEAN, ChangeEvidence(i, evidence)
         PROVE  RatingsAgree'
    BY <1>0, <1>2, <1>12 DEF ChangeEvidence, IssueRow, HoldsDown, IsOpen
  <1>13. ASSUME NEW result \in {"effective", "not_effective"}, ValidateIssue(i, p, result)
         PROVE  RatingsAgree'
    <2>1. /\ issue'[i].status \in {issue[i].status, "in_progress"}
          /\ issue'[i].onControl = issue[i].onControl
          /\ issue'[i].archived = issue[i].archived
          /\ issue[i].status \in OpenStates /\ control' = control
      BY <1>0, <1>13 DEF ValidateIssue, IssueRow
    <2>2. issue'[i].status \in OpenStates
      BY <2>1 DEF OpenStates
    <2> QED BY <1>2, <2>1, <2>2 DEF HoldsDown, IsOpen
  <1>14. ASSUME NEW target \in ClosedStates, NEW approver \in BOOLEAN, CloseIssue(i, p, target, approver)
         PROVE  RatingsAgree'
    <2>1. /\ Follows(issue[i].onControl)
          /\ issue'[i].onControl = issue[i].onControl
      BY <1>0, <1>14 DEF CloseIssue, IssueRow
    <2> QED BY <1>3, <1>4, <2>1 DEF HoldsDown
  <1>15. ASSUME NEW n \in DOMAIN moves[i], NEW approve \in BOOLEAN, DecideDueDate(i, n, p, approve)
         PROVE  RatingsAgree'
    <2>1. /\ issue'[i].status = issue[i].status
          /\ issue'[i].onControl = issue[i].onControl
          /\ issue'[i].archived = issue[i].archived
          /\ control' = control
      BY <1>0, <1>15 DEF DecideDueDate, IssueRow
    <2> QED BY <1>2, <2>1 DEF HoldsDown, IsOpen
  <1> QED BY <1>5, <1>6, <1>7, <1>8, <1>9, <1>10, <1>11, <1>12, <1>13, <1>14, <1>15 DEF IssueStep

\* A test that does not count, put in or changed, changes nothing of what counts.
LEMMA AppendCounting ==
    ASSUME NEW ts \in Seq(TestRow), NEW test \in TestRow, test.review # "reviewed", NEW kind
    PROVE  Counting(Append(ts, test), kind) = Counting(ts, kind)
  <1> DEFINE longer == Append(ts, test)
             last == Len(ts) + 1
  <1>1. /\ Len(ts) \in Nat
        /\ DOMAIN ts = 1..Len(ts)
        /\ DOMAIN longer = 1..last
        /\ longer[last] = test
        /\ \A n \in DOMAIN ts : n \in DOMAIN longer /\ longer[n] = ts[n]
    OBVIOUS
  <1>2. \A n \in DOMAIN longer : n = last \/ n \in DOMAIN ts
    BY <1>1
  <1> DEFINE counts(us) == {m \in DOMAIN us : /\ us[m].kind = kind
                                            /\ us[m].review = "reviewed"
                                            /\ us[m].result # "not_assessed"}
  <1> HIDE DEF longer, last
  <1>3. counts(longer) = counts(ts)
    BY <1>1, <1>2
  <1>4. \A n \in counts(ts) : longer[n] = ts[n]
    BY <1>1
  <1>5. Counting(longer, kind) = Counting(ts, kind)
    BY <1>3, <1>4 DEF Counting
  <1> QED BY <1>5 DEF longer

LEMMA ReplaceCounting ==
    ASSUME NEW ts \in Seq(TestRow), NEW n \in DOMAIN ts, NEW test \in TestRow,
           test.review # "reviewed", ts[n].review # "reviewed", NEW kind
    PROVE  Counting([ts EXCEPT ![n] = test], kind) = Counting(ts, kind)
  <1> DEFINE changed == [ts EXCEPT ![n] = test]
  <1>1. /\ DOMAIN changed = DOMAIN ts
        /\ changed[n] = test
        /\ \A m \in DOMAIN ts : m # n => changed[m] = ts[m]
    OBVIOUS
  <1> DEFINE counts(us) == {m \in DOMAIN us : /\ us[m].kind = kind
                                            /\ us[m].review = "reviewed"
                                            /\ us[m].result # "not_assessed"}
  <1> HIDE DEF changed
  <1>2. counts(changed) = counts(ts)
    BY <1>1
  <1>3. \A m \in counts(ts) : changed[m] = ts[m]
    BY <1>1
  <1>4. Counting(changed, kind) = Counting(ts, kind)
    BY <1>2, <1>3 DEF Counting
  <1> QED BY <1>4 DEF changed

LEMMA ControlStepAgree ==
    ASSUME TypeOK, RatingsAgree, ~ ComesBack, ControlStep
    PROVE  RatingsAgree'
  <1>0. control \in ControlRow /\ tests \in Seq(TestRow)
    BY DEF TypeOK
  <1>1. ASSUME control' = control, issue' = issue,
               \A kind \in TestKinds : Counting(tests', kind) = Counting(tests, kind)
        PROVE  RatingsAgree'
    BY <1>1, UntouchedAgree
  <1>2. ASSUME NEW p \in People, NEW kind \in TestKinds, NEW result \in TestResults, NEW on \in TestDays,
               RecordTest(p, kind, result, on)
        PROVE  RatingsAgree'
    <2> DEFINE test == [kind |-> kind, result |-> result, on |-> on, review |-> "pending",
                        makers |-> {p}, raised |-> FALSE]
    <2>1. test \in TestRow /\ test.review # "reviewed"
      BY DEF TestRow
    <2>2. tests' = Append(tests, test) /\ control' = control /\ issue' = issue
      BY <1>2 DEF RecordTest
    <2> HIDE DEF test
    <2>3. \A k \in TestKinds : Counting(tests', k) = Counting(tests, k)
      BY <1>0, <2>1, <2>2, AppendCounting
    <2> QED BY <1>1, <2>2, <2>3
  <1>3. ASSUME NEW p \in People, NEW kind \in TestKinds, NEW result \in TestResults, NEW on \in TestDays,
               NEW n \in DOMAIN tests, EditTest(n, p, kind, result, on)
        PROVE  RatingsAgree'
    <2> DEFINE test == TestEdited(tests[n], p, kind, result, on)
    <2>1. test \in TestRow /\ test.review # "reviewed"
      <3>1. tests[n] \in TestRow
        BY <1>0
      <3> QED BY <3>1, TestTyped
    <2>2. /\ tests' = [tests EXCEPT ![n] = test] /\ control' = control /\ issue' = issue
          /\ tests[n].review # "reviewed"
      BY <1>3 DEF EditTest
    <2> HIDE DEF test
    <2>3. \A k \in TestKinds : Counting(tests', k) = Counting(tests, k)
      BY <1>0, <2>1, <2>2, ReplaceCounting
    <2> QED BY <1>1, <2>2, <2>3
  <1>4. ASSUME NEW p \in People, NEW n \in DOMAIN tests, ReturnTest(n, p)
        PROVE  RatingsAgree'
    <2> DEFINE test == [tests[n] EXCEPT !.review = "returned"]
    <2>1. test \in TestRow /\ test.review # "reviewed"
      <3>1. tests[n] \in TestRow
        BY <1>0
      <3> QED BY <3>1 DEF TestRow
    <2>2. /\ tests' = [tests EXCEPT ![n] = test] /\ control' = control /\ issue' = issue
          /\ tests[n].review # "reviewed"
      BY <1>4 DEF ReturnTest, MayReview
    <2> HIDE DEF test
    <2>3. \A k \in TestKinds : Counting(tests', k) = Counting(tests, k)
      BY <1>0, <2>1, <2>2, ReplaceCounting
    <2> QED BY <1>1, <2>2, <2>3
  <1>5. ASSUME NEW c \in ControlRow, control' = Recomputed(c, tests', issue')
        PROVE  RatingsAgree'
    BY <1>5, RecomputedAgree
  <1>6. ASSUME NEW p \in People, NEW n \in DOMAIN tests, ApproveTest(n, p)
        PROVE  RatingsAgree'
    <2>1. [control EXCEPT !.override = FALSE] \in ControlRow
      BY <1>0 DEF ControlRow
    <2> QED BY <1>5, <1>6, <2>1 DEF ApproveTest
  <1>7. ASSUME NEW p \in People, ArchiveControl(p)
        PROVE  RatingsAgree'
    <2>1. control'.archived
      BY <1>0, <1>7 DEF ArchiveControl, ControlRow
    <2> QED BY <2>1 DEF RatingsAgree, Recomputed
  <1>8. ASSUME NEW rating \in Ratings, SetOverride(rating)
        PROVE  RatingsAgree'
    <2>1. [control EXCEPT !.override = TRUE, !.combined = rating] \in ControlRow
      BY <1>0 DEF ControlRow
    <2>2. control' = Recomputed([control EXCEPT !.override = TRUE, !.combined = rating], tests', issue')
      BY <1>8 DEF SetOverride
    <2> QED BY <1>5, <2>1, <2>2
  <1>9. CASE DropOverride
    <2>1. [control EXCEPT !.override = FALSE, !.combined = "not_assessed"] \in ControlRow
      BY <1>0 DEF ControlRow, Ratings
    <2>2. control' = Recomputed([control EXCEPT !.override = FALSE, !.combined = "not_assessed"], tests', issue')
      BY <1>9 DEF DropOverride
    <2> QED BY <1>5, <2>1, <2>2
  <1>10. CASE RestoreControl
    BY <1>0, <1>10 DEF RestoreControl, ComesBack, ControlRow
  <1> QED BY <1>2, <1>3, <1>4, <1>6, <1>7, <1>8, <1>9, <1>10 DEF ControlStep

LEMMA StepAgree ==
    ASSUME TypeOK, RatingsAgree, ~ ComesBack, Next
    PROVE  RatingsAgree'
  <1>1. ASSUME UNCHANGED <<issue, control, tests>>
        PROVE  RatingsAgree'
    BY <1>1 DEF RatingsAgree, Recomputed
  <1> QED BY <1>1, IssueStepAgree, ControlStepAgree, Steps

-----------------------------------------------------------------------------
(***************************************************************************)
(* Theorems                                                                *)
(***************************************************************************)
IInv == TypeOK /\ RiskInv /\ FixLogged /\ MovesOrdered /\ DueDateExplained

LEMMA InitInv == Init => IInv
  <1> SUFFICES ASSUME Init PROVE IInv
    OBVIOUS
  <1>1. TypeOK /\ RiskInv
    BY InitTyped, RiskInitInv DEF Init
  <1>2. \A i \in Issues : issue[i].status = "absent" /\ moves[i] = <<>>
    BY DEF Init, NewIssue
  <1>3. FixLogged
    BY <1>2, StatesDiffer DEF FixLogged
  <1>4. MovesOrdered /\ DueDateExplained
    BY <1>2 DEF MovesOrdered, Ordered, DueDateExplained, Explained
  <1> QED BY <1>1, <1>3, <1>4 DEF IInv

LEMMA StepInv ==
    ASSUME IInv, Next
    PROVE  IInv'
  <1>1. TypeOK'
    BY StepTyped DEF IInv
  <1>2. RiskInv'
    BY RiskStepInv, RiskStutterInv DEF IInv, Next
  <1>3. FixLogged'
    BY StepFix DEF IInv
  <1>4. \A i \in Issues : MovesKept(i)
    BY StepMoves DEF IInv
  <1>5. MovesOrdered' /\ DueDateExplained'
    BY <1>4 DEF MovesKept, MovesOrdered, DueDateExplained
  <1> QED BY <1>1, <1>2, <1>3, <1>5 DEF IInv

LEMMA StutterInv ==
    ASSUME IInv, UNCHANGED vars
    PROVE  IInv'
  <1>1. TypeOK'
    BY StutterTyped DEF IInv
  <1>2. RiskInv'
    BY RiskStutterInv DEF IInv, vars, riskVars
  <1> QED BY <1>1, <1>2 DEF IInv, vars, FixLogged, MovesOrdered, DueDateExplained

LEMMA Invariant == Spec => []IInv
  <1>1. IInv /\ [Next]_vars => IInv'
    BY StepInv, StutterInv
  <1> QED BY <1>1, InitInv, PTL DEF Spec

\* Issues, their log and moves, the control, its tests and the risk keep their shape, for any
\* number of each (TypeOK).
THEOREM TypeCorrect == Spec => []TypeOK
  BY Invariant, PTL DEF IInv

\* However an issue is edited, validated, closed, imported and reopened, it becomes closed or
\* remediated only straight after an effective validation (issue_closure.close_refusal and
\* _clear_validation).
THEOREM ClosedOnFix == Spec => ClosedOnThisFix
  <1>1. IInv /\ [Next]_vars =>
           [\A i \in Issues : issue[i].status \in OpenStates /\ issue'[i].status \in FixedStates
                               => log[i] = "effective"]_vars
    BY StepFix DEF IInv
  <1> QED BY <1>1, Invariant, PTL DEF Spec, ClosedOnThisFix

\* Whatever moves of a due date are logged, turned down and logged again, the log accounts for
\* the present date (_due_date_change, decide_due_date_change).
THEOREM DatesExplained == Spec => []DueDateExplained
  BY Invariant, PTL DEF IInv

\* The date of a sensitive issue, or of one made so by the same edit, gets later only by a
\* change one person asked for and another approved.
THEOREM ExtensionsByTwo == Spec => ExtensionsTakeTwo
  <1>1. ASSUME IInv, Next, NEW i \in Issues, issue[i].status # "absent",
               issue[i].sensitive \/ issue'[i].sensitive, issue'[i].due > issue[i].due
        PROVE  \E n \in DOMAIN moves[i] :
                  /\ moves[i][n].status = "pending" /\ moves'[i][n].status = "approved"
                  /\ moves'[i][n].decidedBy \notin {moves'[i][n].by, Nobody}
    BY <1>1, StepMoves DEF IInv, MovesKept, Extended, TakenByTwo
  <1>2. IInv /\ [Next]_vars =>
           [\A i \in Issues :
              (/\ issue[i].status # "absent"
               /\ issue[i].sensitive \/ issue'[i].sensitive
               /\ issue'[i].due > issue[i].due)
                 => \E n \in DOMAIN moves[i] :
                      /\ moves[i][n].status = "pending" /\ moves'[i][n].status = "approved"
                      /\ moves'[i][n].decidedBy \notin {moves'[i][n].by, Nobody}]_vars
    BY <1>1
  <1> QED BY <1>2, Invariant, PTL DEF Spec, ExtensionsTakeTwo

\* Every handler that moves a test, a review, an override or an issue of the control leaves the
\* stored ratings as deriving them again would; bringing a record back from the archive is the
\* exception (control_assurance.recompute_effectiveness and its callers).
THEOREM RatingsFollow == Spec => RatingsStayDerived
  <1>1. IInv /\ [Next]_vars => [RatingsAgree /\ ~ ComesBack => RatingsAgree']_vars
    BY StepAgree DEF IInv
  <1> QED BY <1>1, Invariant, PTL DEF Spec, RatingsStayDerived

\* The acceptances behave here as they do alone: an accepted risk is backed and assessed, with
\* issues closed and reopened around it.
THEOREM AcceptancesHold == Spec => [](AcceptedIsBacked /\ AcceptedIsAssessed)
  <1>1. IInv => AcceptedIsBacked /\ AcceptedIsAssessed
    BY RiskInvGives DEF IInv
  <1> QED BY <1>1, Invariant, PTL
=============================================================================
