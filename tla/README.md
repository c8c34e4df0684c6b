# A TLA+ model of Nexusline

Nexusline is a multi-tenant governance, risk and compliance application: a FastAPI backend over
PostgreSQL (`src/backend/app`), a Next.js frontend, and a background scheduler that runs in the
API's worker processes. This directory models its protocols - approvals and routes, monitoring of
controls, decisions taken from an e-mail, and so on - in TLA+, checks them with TLC and proves the
ones that matter most with TLAPS.

`PROJECT.json` names, for every definition, the source lines it stands for, lists the runs, the
mutants that show each property can fail, the hazards and the theorems.

## 1. The system

### How a request runs

* `core/database.py`: one SQLAlchemy session and one PostgreSQL transaction per API request (and per
  tenant and step of the scheduler), at READ COMMITTED, `autoflush=False`,
  `expire_on_commit=False`. The handler's end commits; any exception rolls everything back.
* A row read once is not read again in the same session unless the code asks for it
  (`populate_existing`, `refresh`), and an UPDATE writes only the columns whose value in the session
  changed. Almost no handler takes a row lock. The exceptions use advisory locks (reference
  numbering, the scheduler's leader, a control test, a meeting's pack) or a conditional
  UPDATE (the claim of an e-mailed link).
* Several uvicorn workers run at the same time, and so do several people.

So the model of a handler is two steps: `Load...` reads the rows the decision rests on and makes the
checks, the step named after the handler writes and commits; other handlers may commit between. The
number of handlers in flight is the constant `Slots`. With one slot the model is the serial system, with two it has the
overlaps that PostgreSQL allows.

### Components

| component | state | operations | what must hold | status |
|---|---|---|---|---|
| Approval requests (`api/v1/approvals.py`, `models/approval.py`) | `approval_requests`, `approval_actions` | raise, decide, cancel, delete | a granted request has as many different checkers as it asks for, never its maker; a settled request stays settled; one rejection ends it | `ApprovalRouting` |
| Approval routes (`services/workflow_engine.py`, `api/v1/workflows.py`) | `workflow_definitions`, stages, `workflow_instances` and their stages | start, advance, reject, cancel, switch on/off | stages in order, one live route per record, a closed route leaves nothing open, a live one always waits on something that can be decided | `ApprovalRouting`, `StagedSignOff` |
| Record lifecycle (`services/record_workflow.py`) | `workflow_state` of a record, its audit entries | submit, approve, reject, revise, retire, `write_back` | four eyes, a route takes the decision away from the record's page, `retired` is final | `ApprovalRouting` |
| E-mailed decision links (`services/action_tokens.py`) | `action_tokens` | issue after commit and with a digest, open, confirm, expire, purge | a link decides at most once, a refusal does not use it up, two links of one person are not two people | `DecisionLinks` |
| Control monitoring (`services/ccm_runner.py`, `api/v1/integrations.py`) | connectors, tests, runs, the control's signal, issues, alerts | run now, scheduled run, push, by hand, pause, delete | the roll-up matches the runs, a failure is tracked by one open issue, the signal follows the active failing tests, a due test is run | `ControlMonitoring` |
| Scheduler, alerts and digests (`services/scheduler.py`, `services/notifications.py`, `services/sla.py`) | leader lock, `notifications`, digest markers in the audit trail | sweep, look at the feed, record an event, mail a digest | alerts follow the rows they are about; a digest passes nothing over and repeats nothing | `AlertDigests`, with the sweep's other steps in `ControlMonitoring`, `RiskAcceptance`, `DecisionLinks` |
| Risk acceptance (`services/risk_acceptance.py`, `services/risk_integrity.py`, `api/v1/risks.py`) | acceptances, the risk's status and the trail of its assessment | request, decide, lapse, edit, assess, archive, restore | an accepted risk has an acceptance in force and a reason for its scores | `RiskAcceptance` |
| Issues (`services/issue_closure.py`, `api/v1/issues.py`) | status, due date and its moves, validation, actions, evidence | raise, import, edit, validate, close, reopen, archive, decide a move | closed only on the validation of this fix; the due date is accounted for | `IssueClosure` |
| Control effectiveness (`services/control_assurance.py`, `api/v1/controls.py`) | tests and their review, derived and overridden ratings | record, edit, return, approve, override, archive | the ratings are what approved tests and open issues make them | `ControlRating`, `IssueClosure` |
| Questionnaires (`services/questionnaire_workflow.py`, `_logic.py`, `_portal.py`, `_versions.py`, `api/v1/assessments.py`) | assessments, answers, files, findings, portal links, the vendor's rating | send, save, upload, submit, return, review, recur | a score is that of the stored answers, findings follow answers, a round opens what it must and nothing accepted | `Assessments` |
| Dual control, authority limits (`services/dual_control.py`, `authority_limits.py`, `default_governance.py`) | settings, rules | who may decide | - | constants of `ApprovalRouting` (`Holders`, `Mandated`, `SoD`) and guards of the handlers that ask |
| Licence and seats (`services/licence_state.py`, `services/license.py`) | expiry, grace, read-only, seats | daily check, guard of every write | no write in read-only | not modelled (section 9) |
| Risk scoring and hierarchy (`services/risk_scoring.py`, `residual_engine.py`, `risk_hierarchy.py`) | - | pure functions | bounds, no cycle | not modelled (section 9) |
| References, webhooks, rate limits (`services/refs.py`, `webhooks.py`, `rate_limit.py`) | highest number per prefix; queued events; buckets | mint; deliver after commit; refuse | no number twice | not modelled (section 9) |
| Board packs, snapshots; incident clock | packs per meeting and their sign-off; reports owed | generate, review, release; recompute | once per meeting, four eyes; deadlines follow the dates | not modelled (section 9) |
| Identity, tenant plumbing | tokens, sessions | sign-in, MFA, SSO | - | not modelled; one transaction per request is assumed |
| Crosswalks and libraries; import and export; registers' CRUD; reports and search; operator tools; frontend | content, files | - | - | not modelled (section 9) |

Components interact by direct calls inside one transaction (a decision calls the route engine, which
calls the lifecycle, which writes the audit trail the four-eyes rule reads), by rows both sides read
(an issue opened by monitoring and closed by a person), and by the scheduler, which reads everything
and writes alerts. What runs outside the transaction is queued on it and runs after its commit (webhooks, decision e-mails), so it
is lost if the process stops in between.

## 2. Modules

The approvals core came first (it gates every record of every register), then monitoring, decisions from e-mail, the questionnaire
rounds, issues with the acceptances and ratings they lean on, and the sweep's digests.

| module | composes | runs | theorems |
|---|---|---|---|
| `ApprovalRouting`, `StagedSignOff` (abstract: a route as a counter of signed stages) | requests x routes x lifecycle | `routes`, `overlap` | every property of both runs, the refinement of `StagedSignOff` included |
| `ControlMonitoring` | tests x connector x issues x control signal x sweeps | `monitoring`, `sweeps`, one violation | typing, and every safety property of its passing runs |
| `DecisionLinks` | links x requests x mail jobs x decisions | `links` | typing, a link decides once, grants need people, mail after commit |
| `Assessments` | assessment x answers x findings x vendor | `assessments`, one violation | typing and every other property of `assessments` |
| `RiskAcceptance` | risk x acceptances x sweep | one violation | backed, assessed |
| `IssueClosure` (extends `RiskAcceptance` and the pure `ControlRating`) | issues x due dates x tests x ratings x acceptances | `closure`, one violation | typing and every other property of `closure` |
| `AlertDigests` | conditions x rows x feed x sweep x digests | `digests` | typing, nothing skipped, nothing told again |

A run answers a question, and its properties are grouped by the instance that makes them interesting. Four of the twelve runs expect
a violation: each shows where the code does something else than it says. Further disagreements found while modelling are told in the
section of their module.

Every invariant and every action property of the eight passing runs is also a theorem, for every value of the constants that satisfies the
named assumptions, but for the hypotheses told in each section (one handler in flight, for what overlap breaks; enough people for the routes; no late feeds; no requests by
hand). What stays with TLC is liveness (`DueIsRun`, `OverdueIsAlerted`, `ConfirmAnswered`: the prover has no rule for fairness or ENABLED), and the four
violations, which are facts about one behaviour.

What would come next: editing route definitions while routes run, the board pack's sign-off, the incident clock and the portal link's life.

## 3. Approvals: `ApprovalRouting`

### State and code

| variable | code |
|---|---|
| `record[r]` | the row's `workflow_state`, and the latest `workflow_submit`/`workflow_approve` audit entries, which is where `last_submitter` looks; `by` is a history variable naming the request an approval came from |
| `request[q]` | `ApprovalRequest` with its `ApprovalAction`s: the sets of users who approved and rejected (a user votes once, `approvals.py:340`) |
| `route[i]` | `WorkflowInstance` and its `WorkflowInstanceStage`s; `request = 0` is a NULL `approval_request_id` |
| `enabled` | `WorkflowDefinition.is_active`, which an administrator may flip at any time |
| `inflight[s]` | what the handler in slot `s` has loaded and not yet committed |

| action | handler |
|---|---|
| `LoadDecision`, then `PartialVote`, `DecideAlone`, `RejectStage`, `ApproveStage` or `FinishRoute` | `decide_approval`, with `on_approval_decided` and `write_back` |
| `RaiseRequest` | `submit_approval` |
| `LoadCancel` / `LoadCancelRoute`, then `Cancel` | `cancel_approval`, `cancel_instance`, with `workflow_engine.cancel` |
| `DeleteRequest` | `delete_approval` |
| `LoadTransition`, then `Transition` | `record_workflow.apply`, and for a submission `workflow_engine.start` |
| `LoadStart`, then `Start` | `start_workflow` on a record that is not a draft |
| `SwitchDefinition` | `update_definition` |
| `Rollback` | any refusal after the load, an error, a crash |

Which of the five outcomes a decision has is read from what the handler *loaded* (the votes it saw,
`saw`) and what it reads afresh (the stage that waits on the request). A vote that does
not settle the request leaves the status column alone, because the session writes only changed
columns. The mandate (`authority_limits`) is asked only when the decision would really move the
record. `EnteredBy`, `Holders`, `Mandated`, `SoD` are constants: who entered a record never changes,
and editing roles, limits or settings while a request is open is left out.

Bounds: `MaxRequests` requests and `MaxRoutes` routes are ever raised (actions that need one more are
disabled), one record, three users - its maker, and two checkers, alice (an administrator in `routes`, with a mandate for the record) and bob (without one). Two
routes are needed for "start again after the first ended"; a six-eyes stage and then one of a role only the maker holds (which anyone else may then decide, but
not without a mandate) are the two interesting kinds of stage; three users are the fewest that let two checkers race and leave the maker out.

### Runs

| run | instance | shows |
|---|---|---|
| `routes` | 1 handler in flight, 2 routes, 2 stages, 4 requests | consistency of routes, requests and record, approval by the end of the route alone, a pending request can still be granted, refinement of `StagedSignOff` |
| `overlap` | 2 handlers in flight, 1 route, a request by hand, 2 requests | what survives every overlap: quorum, backing of approvals, order of the stages, the request a live route waits on. Two requests are too few for the second opening of the next stage (below): that `StagesInOrder` survives it only the proof shows |

Deadlock is checked in both: the definition can always be switched, so it can only mean a mistake
in the model. There is no fairness and no liveness here: nothing in the code makes people decide.
`PendingCanBeGranted` is the safety form of "not stuck": those who may still vote on a pending request and those who approved it make up its quorum, and one
of those left may cast the next vote - with a mandate, if that vote would finish the review (`FinishesReview`), because the code asks for it then.
It says what the handlers do to a request that has the people it needs; whether it has them is up to who holds which role and mandate, and the
code does not see to that: the two dead ends below.

The properties of `routes` that two handlers in flight can break are checked with one on purpose,
so that they say what the handlers do when they do not overlap. What overlap breaks:

* two overlapping approvals of a six-eyes request are both stored, and the request stays pending until a third (`approvals.py:361`,
  against `user-guide.md:1016`); one person's own two are both stored too (`approvals.py:332`, against `user-guide.md:541`);
* one four-eyes stage approved twice at once opens the next stage twice, and the request it forgets, being no stage's, approves the
  record while its route is live (`workflow_engine.py:254`, against `user-guide.md:171`: "Submit starts the route and the record waits
  for it");
* a rejection committed while an approval is in flight is overwritten by it (`approvals.py:363`,
  against `models/approval.py:71-72`);
* two overlapping submissions start two live routes (`workflow_engine.py:111`, no unique constraint,
  against lines 103-105);
* a revise in flight puts a record retired meanwhile back to draft (`record_workflow.py:543`, against
  line 18).

And without any overlap:

* the person who entered a record may approve it as a stage, once a colleague has submitted it (`approvals.py:326`, against
  `user-guide.md:171`);
* a request raised by hand on a routed record approves it under the route (`approvals.py:384`);
* deleting the request a stage waits on strands the route (`approvals.py:493`, against 474-475);
  `LiveRouteWaits` excuses it;
* `cancel_instance` asks for `workflow:write` only (`workflows.py:377`), `cancel_approval` for the
  maker or an administrator (`approvals.py:102-103`);
* a stage that asks for more votes than its role has holders can never be granted
  (`default_governance.py:346`; the guard looks for one holder);
* a request whose grant finishes the review - the last stage's, or one raised by hand - can never be granted once those who have a mandate have voted and a vote is still
  missing: with two votes asked for, alice with a mandate and bob without, alice may vote first, and then bob is refused with a 403
  (`record_workflow.py:651-656`) and nobody else is left: it can only be rejected or cancelled. An earlier stage asks for no mandate, and where as many
  people with a mandate as votes are asked for remain beside the maker the order does not matter. `PendingCanBeGranted` is checked on
  stages without these two mistakes;
* the user guide (line 1086) calls "Decided by" a label; the code enforces it.

### The abstract specification

`StagedSignOff` says what a route promises, with no requests, votes or handlers: an outcome and a
number of signed stages per route; signing the last stage approves it, and a route that has ended
never moves. `ImplementsSignOff` maps a route's approved steps to the stages signed and is checked as
a temporal property of `routes`.

### Proofs: `ApprovalRoutingProofs`, `ApprovalRoutesProofs`

For every set of users, records and routes, every number of handlers in flight, any bounds and any stages:

* `TypeCorrect`: `Spec => []TypeOK`.
* `QuorumInvariant`: `Spec => []QuorumInv`.
* `GrantedRequestsHaveTheirQuorum`, `InboxApprovalsAreBacked`: the two properties of `overlap` that
  matter most.

They assume the named assumptions of `ApprovalRouting` (finite `Users`; votes, stages and bounds
are positive naturals; `Nobody` is not a user).

`GrantedHasQuorum` alone is not inductive: a handler that counted votes two minutes ago is about to
write "approved". `QuorumInv` adds what makes it so:

* `DecisionsSound`: the votes a decision in flight has *seen* are still among the votes *cast* - votes
  are never withdrawn, so a count can be stale but never too high - and its user is not the maker;
* `VotesSound`: the maker is never among the approvers, granted requests have enough;
* `StepsSound`: a stage points at a request about its route's own record, so that the outcome of a
  route is written to the record its votes were about;
* `ApprovalsSound`: an approved record points at a request about it that has its quorum.

The proof has a lemma per action. What most of them need is `Kept`: a step that does not
delete a request keeps its record, its maker, its quorum and its votes. `LeastUndecided` (a non-empty
set of stages has a least element, by well-foundedness of the naturals) is what makes `CurrentStep` defined.

`ApprovalRoutesProofs` builds on it, with a lemma per handler for what it does to the routes. Two theorems hold for any handlers in flight:

* `StagesAreTakenInOrder`: `Spec => []StagesInOrder`, by `OrderInv`: a live route stands at a stage, approved before it and unopened after it, and an
  unopened stage has no request. A stale approval of an earlier stage opens the next one a second time, as told above, but never a later one, and a
  cancel that closes stages ends the route as well.

* `LiveRoutesWait`: `Spec => []LiveRouteWaits`, by `WaitsInv`: the stage a live route stands at has a pending request or none, and what a cancel in flight is about to close
  no other live route waits on (`CancelsOwn`). It survives stale reads because a route only ever comes to wait on a request raised in the same step (`OnlyNewWaits`): a
  late approval of an earlier stage replaces the request the route waits on by a new one, and a late cancel ends the route whose requests it closes.

Four need `OneHandler`: every two slots are the same one, so that a handler's two steps have no other *commit* between them. Requests are still raised and
deleted and definitions switched in between. It is what `routes` checks, and each of the four is false without it.

* `EndedRoutesAreSettled`: `SettledInv` says that the only stage with a pending request is the one a live route stands at,
  and that a route that has ended decided or skipped every stage. It is kept by a commit because what the handler loaded is still so (`HandlersFresh`): a request
  about to be decided is still pending, or deleted; the steps a cancel is about to skip are the undecided ones, and the requests it is about to close are those they wait on.
  With two handlers a cancel loaded before an approval overwrites its route.
* `NoRequestIsStranded`: `Staffed` besides implies `Spec => []PendingCanBeGranted`. `AskedInv` says that a request is asked for by one stage at most, for that
  stage's quorum, or by hand for one of `ByHand`, and that a pending request has a maker; `VotesInv` that a pending request has fewer approvals than it asks for and no rejection, and
  that a decision in flight has seen all votes cast - so of as many people as it asks for one has not voted (`SomebodyLeft`). With two handlers two approvals at once may use up the voters and
  leave the request pending. `Staffed` says that whoever makes a request, as many checkers who hold the stage's role as votes are asked for remain, and for the last
  stage and requests by hand as many with a mandate. The code does not see to it (the two dead ends above), so it is a hypothesis and no assumption of the model; the instance of
  `routes` satisfies it.
* `RoutesDecideTheirRecord`: with `ByHand = {}` besides, since a request by hand does approve the record under its route. Then every pending request is a
  stage's (`PendingIsStage`), and its approval goes through the route.
* `RoutesAreStagedSignOffs`: `Spec => ImplementsSignOff`, action by action: starting a route opens a counter, `ApproveStage` and `FinishRoute` sign the stage the
  route stands at (the approved steps are exactly those before it, so their number grows by one), `RejectStage` and `Cancel` end it, and everything
  else is a stutter of every counter.

### Left out

Editing the stages of a definition while routes run (a running instance keeps its own list of stages,
but `_open_stage` reads `required_approvals` from the definition's stage when the stage opens, so an
edit reaches the stages not yet open; here `Required` is a constant), the before-flush guard on direct writes of
`workflow_state`, `carry_state`, the business status that follows the lifecycle, the audit trail beyond
the two entries the four-eyes rule reads, the gate some registers ask before an approval (`enforce_approval_precondition`: it only
refuses). Deciding from an e-mail is in `DecisionLinks`.

## 4. Control monitoring: `ControlMonitoring`

One control, its automated tests, all on one connector, and everybody who may touch them.

### State and code

| variable | code |
|---|---|
| `test[t]` | `AutomatedControlTest`: status, archived, last run and result, `failing_since`, `last_run_at`, the issue its failures are tracked on |
| `runs[t]` | `ControlTestRun`s in the order they were recorded, each with its day, result and source; among them, with the source `typed`, what an edit typed over the row (no row of that table: history, for the properties) |
| `issues` | issues opened by monitoring, open or closed |
| `signal` | the control's `monitoring_failing_since` |
| `alerts` | the dedup keys of the notifications raised |
| `connector` | the connector's status |
| `sweep[w]` | a `run_due_for_tenant` in progress: its `now` and the tests it listed and has still to come to |
| `inflight[w]` | what the handler in worker `w` has loaded: all rows for a feed, its own test for a run, and the signal and connector it will compare with |

| action | code |
|---|---|
| `RunNow`, then `FinishRun` | `run_test_now`: `execute_test`, `record_result`, `follow_up` |
| `Push`, then `FinishRun` | `ingest_result`: `match_test`, `record_result`, `follow_up` |
| `SweepList`; `SweepRun` or `SweepSkip` per test, `FinishRun`; `SweepEnd` | `run_due_for_tenant`: one transaction to list and to alert, one per test under its advisory lock |
| `RecordByHand` | `add_run` |
| `UpdateTest`, `Archive`, `SetConnector`, `CloseIssue` | `update_test`, `delete_test`, `update_connector`, `close_issue` |
| `Probe`, `ProbeDone` | `test_connector_connection` |
| `Rollback`, `Crash` | an exception in a run (logged, the sweep goes on), the end of a process |

A check runs in a worker thread for up to the connector's timeout, between the handler's reads and its
writes. So a run is two steps. `FinishRun` computes from the rows loaded
and `Written` applies only the columns that changed, which is how two overlapping runs
combine in the database. `refresh_control_signal` selects the control's tests again, but a row the
session already holds keeps its loaded values (`RowsRead`).

Time is counted in days, the unit of every frequency and of `run_date`. The ten minutes' slack of
`is_due` is below it. A handler ends on the day it began (the longest timeout is minutes), so `Tomorrow` waits
for all of them; a sweep may last over midnight, keeping the `now` it began with.

### Runs

| run | instance | shows |
|---|---|---|
| `monitoring` | one handler in flight; a daily test and one every other day; days 2 and 3; two acts of people, feeds or crashes; results up to a day late; an edit may type over a row: nothing (never run), an old pass, or a failure of a day that may be still to come | the roll-up, the streak, the failure's issue and the signal agree with the history of runs |
| `sweeps` | two workers that may both sweep, a test whose run may die, a daily and a three-day test, checks that end in an error, one crash or act (an edit that types an old pass over a row is one) | no test scheduled twice in its period; every due test run; every silent one alerted for |
| `reliance` (violation) | one daily test | an error after a failure withdraws the signal |

`FirstDay` is 2 so that a test created on day 0 is overdue on day 3 within the horizon, and on day 2 is just not; `MaxEvents` bounds what people, feeds and crashes do (the sweeps are not bounded). Two sweeps at once are
real: the leader's lock is a session lock on a connection of its own (`scheduler.py:416`), so should that connection drop, another process sweeps while the first goes on. One worker gives the serial system: the properties of
`monitoring` are what the handlers guarantee when they do not overlap. The verdict of a check does not change who runs next, so `sweeps` keeps only
`error`, the one that could be mistaken for "not run" and retried.

Fairness: the leader's loop sleeps and sweeps again forever, exceptions
included (`SweepList(Leader)`), a sweep goes on to its next test (`SweepStep`), a check has a timeout
(`Finish`). Nothing is assumed of people, feeds, the other sweeper's start, crashes or midnight; a run that
dies (`Rollback`) is not fair to the run either, which is why `DueIsRun` is about tests that are not `Flaky`.
Clocks stop at `MaxDay`, where a due test is still run: the property does not rest on the horizon.

Properties worth a word: `RollUpIsLatest` compares the row with the *history*, in which results arrive late and of equal days and edits
type another last run and result over the row: it shows the latest run, or what was typed if no run since is as late;
`FailingSinceStartsStreak` reconstructs the streak from the history of observed results, leaving out those that were old when they
arrived; `SignalFollowsRuns` does the same for the control from all its tests; `ScheduledRunsApart` is the promise of the advisory lock together with the
second look at the row (the mutant without the second look runs a test twice, although it holds the lock).

### Proofs: `ControlMonitoringProofs`

For any tests and frequencies, any number of workers and sweepers, any bounds:

* `TypeCorrect`: `Spec => []TypeOK`.
* `SignalIsWitnessed`: `Spec => []SignalWitnessed`. The run checks it with one handler in flight; the theorem holds with
  any number. `WitnessInv` says that every `failing_since` in sight - of a row, of a row somebody has
  loaded, the signal itself - is a day on which a test failed. The set of such days only grows, because runs are only
  added; that is why stale rows do no harm here.
* `ScheduledRunsAPeriodApart`: `Lags \subseteq {0}` implies `Spec => []ScheduledRunsApart`. `ApartInv`
  adds three facts: at most one scheduled run of a test is in flight (the advisory lock), such a run
  is dated a period after every scheduled run recorded and later than the `last_run_at` it loaded (so its commit does write the column), and `last_run_at` is never before a scheduled
  run. The assumption on feeds is needed: with older results the last fact fails, as told below.

Every step is classified once (`StepsOfMonitoring`): it is quiet - no run recorded or begun, no date moved - or begins a run,
ends one, records one by hand, or is midnight; both invariants are then proved for these five.

With one worker (`OneHandler`, as in `monitoring`), for any number of tests and histories of any length:

* `LatestRunIsShown`: `Spec => []RollUpIsLatest`; `FailingSinceFirstFailure`: `Spec => []FailingSinceStartsStreak`. The code never looks at the history: it
  rolls the row up from the row before and the run at hand. `ShowsInv` ties each row to its history (`Shows`), says that an issue a test points at is its own, and that the rows a
  run in flight has loaded are still those of the table. That last part is what `OneHandler` is for: of two runs of one test in flight the second commits a roll-up of a row
  without the first.
  Appending a run, or what was typed, to a history moves its latest run and its streak as the roll-up says (`AppendedRun` and the lemmas after it), late and equal days included.
* `FailuresAreTracked`: `Spec => FailureTracked`, and `SignalFollows`: `Spec => SignalFollowsRuns`. The two parts of `follow_up` are
  computed from the rolled-up row, so the streak of the history decides them once `Shows` holds after the step too.

Only model-checked: the two liveness properties, `DueIsRun` and `OverdueIsAlerted`.

### What the code does otherwise

With one handler at a time: a pass recorded by hand does not clear `failing_since`, and neither it nor a
pause, a resumption, an edited last result or an archived test refreshes the signal until the next run of
a test of the control (`integrations.py:357-375`, `328-354`); an error between two failures clears and restores it (`reliance`);
`is_overdue` looks at `last_run_at` first, so a test recorded by hand after its last
check is alerted for as silent (`ccm_runner.py:124-125`, against "by any means", line 117). `update_test` takes `last_run`, `last_result` and
`pass_rate` from the body (`schemas/integrations.py:99-101`) and records no run: the row then shows a result no run had. Neither the streak nor the signal moves with it.
And what it says of a day still to come holds back every result until that day (`ccm_runner.py:300`): failures among them
neither start a streak nor raise an issue nor reach the signal.

With two: a run-now beside a scheduled run opens two issues for one test (line 362, against "one per test
while it is open", 355; only scheduled runs take the lock); a connector disabled during a check is switched back on
by its result (722-726); runs of two tests of one control each see the other's old row, so the signal can be left wrong; a result
pushed with an older time while a scheduled run is in flight sets `last_run_at` back, and the test is scheduled again in the period (`sweeps` has no late feeds for that reason: `Lags = {}`).

Left out: KRI readings, metric-only tests, the vulnerability register, the connector's settings and
token, the other fields of an edited test (its definition, thresholds, name, frequency, `pass_rate`), reopening an issue, and `delete_run`, which removes the row and
recomputes nothing (`runs` is the history, deleted rows included).

## 5. Decisions from an e-mail: `DecisionLinks`

The people a pending request waits on are mailed a link each, as soon as the request is raised and again
with their digest while the alert is new. Confirming a link runs `decide_approval` as its user.

### State and code

| variable | code |
|---|---|
| `enabled` | `EMAIL_ACTIONS_ENABLED`, read when the service starts; off kills every link (`open_token`) |
| `able` | the users who are active and hold `workflow:approve` |
| `request[q]` | `ApprovalRequest` with its `ApprovalAction`s: how *often* each user's approval and rejection were recorded (no constraint keeps that at one) |
| `link[l]` | an `ActionToken`: user, request, age, used; `unsaved` in an open transaction, `lost` if that rolled back |
| `inbox` | the links whose message was really delivered |
| `trail[l]` | the `decide_by_email` entries naming the link |
| `queue` | the requests of `send_decision_requests` tasks that have not had their turn |
| `inflight[s]` | a raise, a mail round, a sweep's digests or a decision in progress, with what it has loaded |

| action | code |
|---|---|
| `LoadRaise`, `CommitRaise` | `submit_approval` up to the flush (where `_queue_new_approval` notes the request in the session) and the commit (`_send_after_commit`) |
| `LoadRound`, `MailTo` per person, `CommitMail` | `email_decision_request` for one item of `send_decision_requests` |
| `LoadDigests`, `MailTo` per person, `CommitMail` (with the purge) | `send_digests` and `purge_stale`, one transaction of the sweep |
| `LoadConfirm`, `Claim`, `Decide` or `Refuse` | `confirm_email_action`: `open_token` and `token_state`; `claim`; `decide_approval` and the commit |
| `LoadDecision`, `Decide` or `Refuse` | `decide_approval` from the app |
| `Withdraw`, `Delete`, `Retire`, `GrowOld` | `cancel_approval`, `delete_approval`, `_set_active` or a role taken away, the clock |
| `Fail`, `Restart` | an exception before the commit; the process |

A link opens only once its row is committed (`saved`), while its message leaves before: `inbox` and `link`
are separate for that reason. `Claim` is the UPDATE with `used_at IS NULL`. An uncommitted claim holds the row's
lock, so the next one waits, and then sees what became of it: used (410), rolled back (its turn) or purged. A decision still rests on what
`LoadConfirm` read (`saw`), because nothing re-reads it after the wait. A digest's choice of
fresh alerts is left open (any part of what its reader may decide), so the results hold whichever alerts are new.

### Runs

| run | instance | shows |
|---|---|---|
| `links` | a request of two or three approvals; ann is asked by e-mail and may lose her standing, ben decides in the app, mo made it; one link, two handlers or jobs at a time | once per link, people behind a grant, mail after commit, waiting confirmations answered |

One link is enough for `links` because what matters about it - two confirmations at once, a retry after a refusal, a purge beside
them - concerns a single row; the theorems cover any number of links, people and handlers. Two handlers are the fewest that
overlap. A third approval makes "two people, three votes" possible: ann twice (the link and the app) and ben.

Fairness: a confirmation whose claim was granted ends (`Decide` or `Refuse`), and a confirmation that waits for a
row gets it if it comes free again and again (strong fairness of `Claim`: PostgreSQL queues those who wait for a row). Nothing
is assumed of people, mail or sweeps. With the mutant that treats every open confirmation as a lock, two confirmations wait for each other.

### Proofs: `DecisionLinksProofs`

For any finite set of users, any requests, links and slots:

* `TypeCorrect`: `Spec => []TypeOK`.
* `LinksDecideOnce`: `Spec => []LinkDecidesOnce`, by `ClaimInv`: the rows of a transaction are its own (`Owned`, `RowsApart`), an
  open claim is of a stored unused link and of nobody else's (`ClaimsApart`), and the trail agrees with the row (`TrailAgrees`). `Decide`
  keeps it because it uses exactly the row it has claimed; a purge keeps it because it waits for claims.
* `GrantsNeedPeople`: `Spec => []QuorumOfPeople`, by `QuorumInv`: whoever a decision in flight has *seen* approve still has
  (`VotesHeld`), however often they or anyone else decide meanwhile; distinct people are counted, so a double vote adds nobody.
* `MailsAfterCommit`: `Spec => []MailAfterCommit`, from the same invariant: only a raise in flight has a request that is not stored.

Only model-checked: `ConfirmAnswered` (liveness).

### What the code does otherwise

* One person's overlapping decisions are both recorded: the check at `approvals.py:332` reads what was loaded.
  `QuorumOfPeople` is what keeps this harmless for the count; an approval and a rejection by the same person both stand.
* A message may be read before its link is committed, and stays in the inbox when the transaction fails: the link is then "not valid". When
  the sweep's transaction fails after its digests were sent, the next sweep sends them again with other links, because the
  marker was rolled back with them (`scheduler.py:398-406`, 125-128).
* A restart between the commit and the task loses the decision e-mail; the next digest carries a link as long as the alert is new.
* The digest's "new since the last one" compares `created_at`, the *start* of the transaction that raised the alert. An alert whose transaction began
  before a digest's and committed after it has an earlier time than the digest's marker and is in no digest (against `user-guide.md:536`); see `AlertDigests`.

Left out: the secret and its hash (a link is its identity), the wording of each refusal, the role of a route's stage (part of `Asked`; whether the
role allows the decision is in `ApprovalRouting`), giving a user their standing back, deliveries that are slow rather than lost, and which alerts a digest holds (`AlertDigests`).

## 6. Questionnaires: `Assessments`

One assessment of a third party, from its draft to the rating its final review proposes.

### State and code

| variable | code |
|---|---|
| `status` | `Assessment.status`; a returned round is `in_progress` again |
| `maker` | who sent it last, or created it: whom the rule (assessment, review) keeps from reviewing |
| `submitted`, `decided` | `submitted_at` is set; some answer has a `reviewed_at` |
| `answer[q]` | `AssessmentAnswer`: value, number of files, review status, and whether `answered_at` is later than the last `reviewed_at` of the assessment (`fresh`) |
| `result` | the visible answers the stored score and band were computed from, which fix both |
| `finding[f]` | the automatic `AssessmentFinding` of a question and option, and whether it was raised to an issue |
| `vendor` | the vendor's rating, and whether an override reason is on record |
| `pulled` | history: the required questions a stored file was deleted from since the last submission |

| action | code |
|---|---|
| `Save`, `Submit`, `SaveAndSubmit` | `portal_save`, `save_answers`; `portal_submit`; `submit_answers`, with `upsert_answers`, `reopened_questions`, `_submit`, `sync_flag_findings` |
| `Upload`, `DeleteFile` | `_attach` from the link and from the app, `portal_delete_file` |
| `UploadStoredFile`, `DeleteStoredFile` | `upload_file`, `delete_file` of `api/v1/collab.py`: an answer's evidence as the file of any record, in any status |
| `Send`, `EditStatus` | `send_assessment`, the status of `update_assessment` |
| `ReviewAnswer`, `Return`, `Review` | `review_answer`, `return_assessment`, `review_assessment` with `apply_rating` |
| `EditVendor` | `rating_changes` of a vendor edit |
| `CloseFinding`, `ReopenFinding`, `RaiseIssue` | the findings' endpoints |

A question's conditions and its section's count alike, as rules of the question; visibility goes through the questions in order, so
that what depends on a hidden question is decided as the code does. `Dependents` is a least fixed point; the code computes it with a loop.

### Run and proofs

`assessments`: "Do you outsource?" and its mandatory follow-up "Who to?", one file per answer, two members of staff, any number of rounds. Two
questions are the fewest in which one answer reveals another, and that is where rounds go wrong; the proofs are for any
questionnaire. The state space is finite without a bound on rounds. The two members of staff are interchangeable (`SYMMETRY`: every property of the run is one of states and steps).

`AssessmentsProofs` proves, for any number of questions, rules, bands and staff: `TypeCorrect`, `ScoresAgree`, `RatingsExplained`,
`RoundsOnlyWiden`, `AcceptedAnswersKept`, `FindingsFollow`, `RevealedAnswerable`. `RoundOnlyWidens` needs one invariant beside the types, that a returned answer
has been decided about, and one fact of the rules: the dependents of a larger set are more. The score needs that what an action leaves of values
and files decides the score (`SameAnswers`), and that a file that goes leaves at most its own question unanswered (`FilesMoved`): what is under review or reviewed is scored as stored, and a
required answer is missing there only by such a deletion (`pulled`).

`RevealedAnswerable` (`Spec => []RevealedCanBeAnswered`) has to say why a question was hidden when the round was scored and shows now: some answer to a visible question its rules depend on, directly or
through others, has changed since. Visibility is defined by a walk through the questions, so the proof first shows that what the walk finds is what the rules say
(`WalkExists`, `VisibleByRules`; a least counterexample takes the place of induction). Outside the questions that depend on a changed answer, the first whose visibility changed would have rules that all
read as before, which is absurd (`RevealedFollows`). `RevealInv` keeps
the stored result visible by the rules, and an answer that differs from it pending and fresh, so that it is among those the round reopens. The
assumption that `Hidden` is not a value of an answer was added for it; the code marks a hidden question by leaving it out of the scored set.

### What the code does otherwise

* `round_stuck` (violation): the reviewer accepts every answer row, blank rows of hidden questions included. A returned answer that is
  then changed to reveal such a question can neither be submitted without it nor answered (`questionnaire_workflow.py:227`).
* An upload from the app skips the check of a returned round (`api/v1/assessments.py:1003`): evidence added to an accepted answer sends
  it back to pending, and it may be rewritten (`AcceptedKept` is about the step that rewrites).
* The evidence of an answer is a stored file like any other: `DELETE /collab/files/{id}` (`api/v1/collab.py:330-338`) removes it for who uploaded it or an administrator, whatever the
  assessment's status and round and without sending the answer back. A submitted or reviewed assessment may so lack a required answer, which `portal_delete_file` (`assessments.py:1295-1323`)
  and `_submit` (621-640) take care to avoid; `ScoreIsOfAnswers` excuses exactly these questions. In a returned round an accepted answer that was evidence alone becomes missing,
  and the link may not repair it; an upload from the app or the panel may. The panel's upload (276-305) has no limit of files and no round either; in the model it stops at `MaxFiles`, and since it only ever adds it
  makes nothing go missing.
* Only the last sender counts as the maker: whoever sent the round before may review the answers.
* Handlers that overlap are not modelled. Nothing locks the assessment: a save that began before a submission and commits after it leaves
  the status `in_progress` and the score of other answers.

Left out: the link's secret, life, attempts and mails; reminders and the recurring reissue; building and publishing a questionnaire's
versions; the write-back of tiering and RCSA questionnaires; findings added by hand; deletion; pointing an assessment at another vendor (`update_assessment`,
`assessments.py:590-618`), after which the new vendor's rating was never proposed from it: the model has one vendor, and `RatingExplained` is about the one that was reviewed.

## 7. Acceptances, issues and ratings: `RiskAcceptance`, `ControlRating`, `IssueClosure`

A risk accepted for a time; the issues raised against it and against a control; the control's tests, whose approved results and open
issues rate it. `IssueClosure` extends the other two: an issue is closed as risk accepted on an acceptance in force, a failed
test raises an issue, an issue's life re-derives the ratings.

### State and code

| variable | code |
|---|---|
| `day`, `risk`, `acceptance`, `told` | today; `Risk` (status, whether `last_assessed_at` and a rationale are on record, archived); its `RiskAcceptance`s; the acceptances whose lapse has its event notification |
| `issue[i]` | `Issue`: status, who raised and owns it, sensitivity, due date, validation, whether evidence is attached and an action pending, its links |
| `log[i]` | the last line of `issue_updates` about its life: validated, closed, reopened |
| `moves[i]` | `IssueDueDateChange`s in order |
| `control`, `tests` | `Control` with its three ratings and override; its `ControlAudit`s in the order they were recorded |
| `scope` | which parts move in the behaviour: a bound |

| action | code |
|---|---|
| `EditRisk`, `AssessRisk`, `ArchiveRisk`, `RestoreRisk` | `update_risk`, `assess_risk` (with `assessment_decision`), `delete_risk`, `restore_record` |
| `RequestAcceptance`, `Approve`, `Reject`, `Sweep`, `NextDay` | `request_acceptance`, `decide_acceptance`, `expire_lapsed`, midnight |
| `RaiseIssue`, `ImportClosed`, `EditIssue`, `ArchiveIssue`, `RestoreIssue` | `create_issue`, `import_issue`, `update_issue` with `_due_date_change` and `_clear_validation`, `delete_issue`, `restore_record` |
| `AddAction`, `UpdateActions`, `ChangeEvidence` | the issue's actions, attachments and files |
| `ValidateIssue`, `CloseIssue`, `DecideDueDate` | `validate_issue`, `close_issue` with `close_refusal`, `decide_due_date_change` |
| `RecordTest`, `EditTest`, `ReturnTest`, `ApproveTest` | `record_control_audit`, `update_control_audit`, `review_control_audit` with `_raise_issue` |
| `SetOverride`, `DropOverride`, `ArchiveControl`, `RestoreControl` | `override_effectiveness`, `clear_effectiveness_override`, `delete_control`, `restore_record` |

Each handler is one step. The dual-control rules are on, as they are by default.

### Runs

`closure`: one issue, two tests, two acceptances, two people, days 0 and 1, due dates 1, 2 and none, two moves. Two people are the fewest in
which four eyes can hold or fail. `scope` lets one part of the system move beside the issue at a time (acceptances, tests, remediation, deadlines),
because the whole product is out of reach: what each property relates moves together within one of the
scopes. The theorems hold for any scope, all four at once included. `RestoreIssue` and `ArchiveIssue` are off in the scope of the acceptances
only to keep it small.

`renewal` (violation, `RiskAcceptance` alone) and `restored` (violation) are findings:

* `expire_lapsed` reopens an accepted risk when one of its acceptances lapses and does not look for another in force, so a renewal in time does
  not keep the risk accepted (`risk_acceptance.py:107`, against `notifications.py:1338`);
* `restore_record` brings an issue back without deriving its controls' ratings again (`api/v1/records.py:300`, against `control_assurance.py:154`).
  `RatingsStayDerived` excuses restores for that reason.

### Proofs: `RiskAcceptanceProofs`, `IssueClosureProofs`

For any people, acceptances, issues, tests, dates and bounds: `AcceptedBacked`, `AcceptedAssessed`; `TypeCorrect`, `ClosedOnFix`, `DatesExplained`,
`ExtensionsByTwo`, `RatingsFollow`, and the first two again in the composition (`AcceptancesHold`).

`IInv == TypeOK /\ RiskInv /\ FixLogged /\ MovesOrdered /\ DueDateExplained`:

* `RiskInv` adds to `AcceptedIsBacked` that only expired acceptances are told to have lapsed, and that a risk out of draft has its rationale on record;
* `FixLogged`: while an issue is open, an effective validation on its row is the last thing that happened to it;
* `MovesOrdered`: only the last move waits. Without it, approving an older one would not fit the log.

`RatingsFollow` rests on `Derived` being idempotent, and on each handler that touches an input deriving again.

### What the code does otherwise

* A risk archived when its acceptance lapses keeps reading accepted when it is restored, and nobody is told (`risk_acceptance.py:101`): the way round in
  `AcceptedIsBacked`.
* Closing is not looked at again: an acceptance may lapse, an action be added or taken up again, the evidence be removed after the issue closed.
* Lowering the severity in one edit and moving the date later in the next needs no second person; one edit that does both does (`Waits`).
* Handlers that overlap are not modelled: an approval and a rejection of one acceptance at once may leave an accepted risk with a rejected
  acceptance; two requests at once are both stored; a review that overlaps a new issue leaves a stale rating.

Left out: authority over the exposure (it only refuses approvers), the scores themselves, the owner and unit a risk needs to leave draft (a choice,
`owned`), the start-up repairs of older data (`data_repairs.py:246-262` copies a rating, `issue_closure.py:456-479` links issues to controls; neither derives the
ratings again, so `RatingsStayDerived` says nothing of what they touch until the next handler does), the treatment strategy, acceptances of vulnerabilities; the closing date, progress notes and links to other registers; the test clock
and cycle dates, and tests from before reviews existed.

## 8. Alerts and digests: `AlertDigests`

A scan reconciles the stored alerts with the conditions that hold. The sweep scans, and so does every look at the feed. After its scan the sweep mails
each person what is theirs and new since their last digest.

### State and code

| variable | code |
|---|---|
| `clock` | the database's clock, counted in beginnings of transactions and changes |
| `holds[c]` | whom a condition of the registers is addressed to, `{}` while it does not hold (`scan_alerts`, `address_alerts`) |
| `rows` | `notifications` as committed: alert, recipient, `created_at`, and whether the date was carried over (`kept`) |
| `marker[p]` | the date of the last `notification_digest` entry of the audit trail (`last_digests`) |
| `request`, `sweep` | the one request and the one sweep in flight: when their transaction began, what it has added and deleted, for a sweep whom it has still to come to and whose mail was accepted |
| `changed`, `told`, `gap`, `late` | history, for the properties only |

| action | code |
|---|---|
| `Change`, `Wait` | the registers; time |
| `RequestBegin`, `RequestScan` or `RequestRecord`, `RequestCommit` or `RequestFails` | a look at the feed (`list_notifications`: `refresh`), or a request that records an event; one transaction |
| `SweepBegin`, `SweepScan`, `SweepRead`, `Mail`, `SweepCommit` or `SweepFails` | the sweep's transaction of a tenant: `expire_lapsed` and `refresh`, `send_digests` up to its loop, one person's mail (accepted or refused), the commit with the markers, an exception or the loss of the process |

A row is dated when its transaction *begins* (`created_at` is `now()`), and so is the marker; what a statement reads is what was committed by then, and
`digest_since` counts from the sweep's own clock at the read. This is where digests can go wrong, so each transaction and each change has an instant of its
own. A scan is one step: the registers are read in many statements, and a change that falls between them shows at the next scan.

### Run

`digests`: ann may read the register and bob may not; both are in a team. A condition is addressed to nobody, to everyone, to bob or to bob and the team; one event
for bob. Six instants are enough for two sweeps and a request around them, with the first digest's look-back of 2 and the floor of 3 in effect (and with seven,
eighteen million states were searched without a violation). Deadlock is not checked: the clock ends.

* `NothingSkipped`: what is stored for somebody under a date their digests cover has been told to them. The faults: refused mails, requests that fail, sweeps lost
  at any point, after the mails are out too.
* `NotToldAgain`: no digest tells what a recorded one told, unless the condition changed since.

A digest whose sweep is lost after the mail left is sent again: it was never recorded, and `told` counts recorded digests. Delivery is at least once.

### What the properties excuse, and why

Each of these does happen:

* `late`: an alert of a request that began before a sweep and commits after its read is dated before the digest and is in none. (Dated by the request's
  beginning, read by its commit.)
* An alert whose request began after the sweep did and committed before its read is in that digest, and dated after its marker: the next digest repeats it. `told` leaves
  those rows out.
* `gap`: somebody's first digest looks back two sweeps, so two refused mails in a row lose an alert for good, against "a failed send is retried with the
  next sweep's" (`scheduler.py:324`); and no digest looks back beyond seven days.
* A new owner gets the old date of an alert everyone had seen: "Everyone was already shown it, and told by e-mail when it first appeared"
  (`notifications.py:509`). Somebody who may not read the register was not shown it, and is never mailed (the second condition of `NothingSkipped`).
* A row another request adds after the sweep's scan may be the double of one the sweep deleted or keeps; it is deleted by the next scan, and may be mailed once more (`Left`).

### Proofs: `AlertDigestsProofs`

For any people, recipients, conditions, look-backs and number of instants, with one sweep and one request in flight: `TypeCorrect`, `DigestsSkipNothing` and `NewsToldOnce`. `IInv` adds what a transaction in flight has not
committed yet: a new row is dated by its transaction and a carried one by a row everyone saw (`Dates`, `OwnDates`), a sweep began after every marker, and
the batch it mails from holds every row its date covers, but those committed since the read (`Batched`), which are exactly the `late` ones.

`NewsToldOnce` (`Spec => NotToldAgain`) rests on `NewsInv` beside it. Of two rows of one alert to one recipient the later is news only if the condition changed, and what keeps the
earlier one's trace while rows come and go is:

* `Founded`, `Anchored`: a row's condition held when it was written, and until it changes some row as old as any stored one is there;
* `Outlived`, `Apart`, `Again`: a scan deletes a row only if its condition changed or an older double stays; it never deletes what it writes
  anew, and the sweep and the request do not undo each other's rows;
* `EventsOnce`: an event is recorded once and its row stays;
* `LeftIsNews`: what the sweep's scan left in the feed and is dated after something told is of a condition that changed since.

TLC searched `NewsInv` on 5.6 million states before the proof.

Left out: which conditions each register raises (a query each), grouping of low-urgency alerts and rewriting of texts (an updated row keeps its date), what each user has
seen, My Work, turnaround times, two requests that scan at once; the decision links of a digest are in `DecisionLinks`.

## 9. Not modelled

The map covers a small share of the implementation, because most of it is registers, content and reports: create, read, update and archive with
field validation for some thirty record types, libraries of frameworks and questionnaires, import and export, and PDF layout. They have no protocol of their own beyond the
record lifecycle (section 3), which they share. By component:

* Dual control, authority limits, default routes: administration data. What they decide is a constant of `ApprovalRouting` or a guard of the handlers that ask.
* Licence and seats: a function of the date and of the signed file, computed at each use; the read-only guard refuses whole requests before any handler modelled here.
* Risk scoring, residual engine, hierarchy: arithmetic and a walk up the parents, without state between requests. A reference definition would be the same table.
* References, versions, audit trail: references are minted under an advisory lock held to the end of the transaction, versions and entries are only appended.
* Webhooks, rate limits: deliveries leave after the commit and are neither retried nor read back; buckets are counters of a process.
* Board packs: a pack is drafted, reviewed and released by a sign-off of its own (`services/board_pack.py`), one row moved under its row lock. The rest is copies of
  registers and layout. Next in line. Snapshots are copies.
* Incident clock: the reports owed to regulators are recomputed from the incident's dates whenever those change (`plan_sync`).
* Identity: cryptography and directory I/O. Tenant isolation: PostgreSQL's row-level security; one transaction per request is assumed by every module.
* Crosswalks and libraries, import and export, reports, operator tools: text matching, file contents, read-only queries, process I/O. Frontend: a client of the API.
