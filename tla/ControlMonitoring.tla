-------------------------- MODULE ControlMonitoring --------------------------
(***************************************************************************)
(* Continuous monitoring of one control: its automated tests, the source   *)
(* they read through a connector, the runs they record, the issue and the  *)
(* alerts of a failure, and the signal that withholds reliance from the    *)
(* control.  The scheduler's sweep runs the tests that are due; people run *)
(* them, record and edit by hand, and a monitoring tool pushes results.    *)
(*                                                                         *)
(* A check takes seconds, in a worker thread, between the reads of a       *)
(* handler and its writes: a run is two steps, and what it loaded may be   *)
(* stale when it commits.  The session writes only the columns it changed. *)
(***************************************************************************)
EXTENDS Naturals, Sequences, FiniteSetsExt

CONSTANTS
    Tests,       \* the automated tests of the control, all on its connector
    Freq,        \* Freq[t]: days between two runs of t
    Flaky,       \* the tests whose run may die of an unexpected exception
    Verdicts,    \* what a check may end with
    Lags,        \* how many days back a feed or a person may date a result
    Typed,       \* what a person may type over a test's last run and result
    Workers,     \* one handler in flight in each
    Sweepers,    \* the workers that sweep: a leader, and one that follows it too early
    Leader,      \* the worker whose loop holds the leader lock
    FirstDay,    \* the day the scheduler first starts
    MaxDay,      \* bound: days that pass
    MaxEvents    \* bound: what people, feeds and crashes do

Days == 1..MaxDay
NoDay == 0         \* NULL; the tests were created on day 0
Results == {"not_run", "passed", "failed", "error"}
Sources == {"manual", "scheduled", "run_now", "push"}

ASSUME TestsAssumption ==
    /\ IsFiniteSet(Tests)
    /\ Freq \in [Tests -> Nat \ {0}]
    /\ Flaky \subseteq Tests
    /\ Verdicts \subseteq {"passed", "failed", "error"}
    /\ Lags \subseteq Nat
    /\ Typed \subseteq [day : 0..MaxDay, result : Results]

ASSUME WorkersAssumption == Sweepers \subseteq Workers /\ Leader \in Sweepers

ASSUME BoundsAssumption ==
    /\ MaxDay \in Nat \ {0}
    /\ FirstDay \in Days
    /\ MaxEvents \in Nat

VARIABLES
    today,
    test,        \* automated_control_tests
    runs,        \* per test, in order: control_test_runs, and what was typed over the row
    issues,      \* the issues monitoring has opened
    signal,      \* the control's monitoring_failing_since
    alerts,      \* the dedup keys of the alerts raised
    connector,   \* the connector's status
    sweep,       \* per sweeper: the day it began and the tests it still has to run
    inflight,    \* per worker, what the handler running there has loaded
    events       \* what people, feeds and crashes have done so far

vars == <<today, test, runs, issues, signal, alerts, connector, sweep, inflight, events>>

-----------------------------------------------------------------------------
ConnectorStatus == {"configured", "active", "error", "disabled"}

TestRow == [active : BOOLEAN, archived : BOOLEAN,
            lastRun : 0..MaxDay, lastResult : Results, failingSince : 0..MaxDay,
            lastRunAt : 0..MaxDay, issue : Nat]

\* A run; and, in the history only, a result typed over the row, which is no run.
Run == [day : Days, result : Results, source : Sources]
          \cup [day : 0..MaxDay, result : Results, source : {"typed"}]

\* The three families of alerts, as their dedup keys.
FailedAlert(d) == <<"failed", d>>
ErrorAlert(t, d) == <<"error", t, d>>
OverdueAlert(t, last) == <<"overdue", t, last>>

Idle == [op |-> "idle"]
NoSweep == [now |-> NoDay, due |-> {}]

\* A check in flight: what the handler loaded of the tests, the signal and the
\* connector, and the day its result will carry.
Handler == [op : {"idle"}]
             \cup [op : {"run"}, on : Tests, source : Sources, day : Days,
                   rows : [Tests -> TestRow], signal : 0..MaxDay, connector : ConnectorStatus]
             \cup [op : {"probe"}, connector : ConnectorStatus]

Init ==
    /\ today = FirstDay
    /\ test = [t \in Tests |-> [active |-> TRUE, archived |-> FALSE, lastRun |-> NoDay,
                                lastResult |-> "not_run", failingSince |-> NoDay,
                                lastRunAt |-> NoDay, issue |-> 0]]
    /\ runs = [t \in Tests |-> <<>>]
    /\ issues = <<>>
    /\ signal = NoDay
    /\ alerts = {}
    /\ connector = "configured"
    /\ sweep = [w \in Sweepers |-> NoSweep]
    /\ inflight = [w \in Workers |-> Idle]
    /\ events = 0

-----------------------------------------------------------------------------
(***************************************************************************)
(* What is due                                                             *)
(***************************************************************************)
Watched(row) == row.active /\ ~row.archived

IsDue(t, row, now) ==
    Watched(row) /\ (row.lastRunAt = NoDay \/ now >= row.lastRunAt + Freq[t])

\* The last run by any means; a test that never ran counts from its creation.
LastSeen(row) == IF row.lastRunAt # NoDay THEN row.lastRunAt ELSE row.lastRun
IsOverdueRan(t, row, now) ==                         \* mutant: only a test that has run
    LastSeen(row) # NoDay /\ Watched(row) /\ now > LastSeen(row) + 2 * Freq[t]
IsOverdue(t, row, now) == Watched(row) /\ now > LastSeen(row) + 2 * Freq[t]

-----------------------------------------------------------------------------
(***************************************************************************)
(* Recording a result                                                      *)
(***************************************************************************)
\* The roll-up of a result dated d on the test row a handler loaded.
Advances(row, d) == row.lastRun = NoDay \/ d >= row.lastRun

FailingSinceReset(row, d, result) ==                 \* mutant: an error ends the streak
    IF result # "failed" THEN NoDay
    ELSE IF row.failingSince # NoDay THEN row.failingSince ELSE d
FailingSinceError(row, d, result) ==                 \* mutant: an error starts a streak
    IF result = "passed" THEN NoDay
    ELSE IF row.failingSince # NoDay THEN row.failingSince ELSE d
FailingSince(row, d, result) ==
    CASE result = "failed" -> IF row.failingSince # NoDay THEN row.failingSince ELSE d
      [] result = "error" -> row.failingSince
      [] OTHER -> NoDay

RolledUpAlways(row, d, result) ==                    \* mutant: an older run moves it too
    [row EXCEPT !.lastRun = d, !.lastResult = result,
                !.failingSince = FailingSince(row, d, result),
                !.lastRunAt = IF d >= @ THEN d ELSE @]
RolledUp(row, d, result) ==
    LET dated == [row EXCEPT !.lastRunAt = IF d >= @ THEN d ELSE @] IN
    IF ~Advances(row, d) THEN dated
    ELSE [dated EXCEPT !.lastRun = d, !.lastResult = result,
                       !.failingSince = FailingSince(row, d, result)]

\* The issue a failure is tracked on: the test's own while it is open, else the next.
TrackedOnAny(row) ==                                 \* mutant: a closed issue is kept
    IF row.issue # 0 THEN row.issue ELSE Len(issues) + 1
TrackedOn(row) ==
    IF row.issue # 0 /\ issues[row.issue].open THEN row.issue ELSE Len(issues) + 1

\* What the control's signal should read, from the rows of its tests.
SignalPausedToo(rows) ==                             \* mutant: paused tests count
    LET failing == {t \in Tests : rows[t].lastResult = "failed" /\ rows[t].failingSince # NoDay}
    IN IF failing = {} THEN NoDay ELSE Min({rows[t].failingSince : t \in failing})
SignalOf(rows) ==
    LET failing == {t \in Tests : /\ Watched(rows[t])
                                  /\ rows[t].lastResult = "failed"
                                  /\ rows[t].failingSince # NoDay}
    IN IF failing = {} THEN NoDay ELSE Min({rows[t].failingSince : t \in failing})

\* An UPDATE names only the columns the handler changed since it loaded them.
Written(current, loaded, row) ==
    [c \in DOMAIN current |-> IF row[c] # loaded[c] THEN row[c] ELSE current[c]]

-----------------------------------------------------------------------------
(***************************************************************************)
(* A run: loading, the check, recording and following up                   *)
(***************************************************************************)
Free == \E w \in Workers : inflight[w] = Idle

LoadRun(w, t, source, d) ==
    /\ inflight[w] = Idle
    /\ inflight' = [inflight EXCEPT ![w] =
           [op |-> "run", on |-> t, source |-> source, day |-> d,
            rows |-> test, signal |-> signal, connector |-> connector]]
    /\ UNCHANGED <<today, test, runs, issues, signal, alerts, connector>>

Done(w) == inflight' = [inflight EXCEPT ![w] = Idle]

\* The rows refresh_control_signal reads: the handler's own and, for a feed, every
\* test it loaded come from its session, the others afresh; an archived row is not
\* selected whatever the session holds.
RowsRead(h, row) ==
    [t \in Tests |->
        [IF t = h.on THEN row ELSE IF h.source = "push" THEN h.rows[t] ELSE test[t]
            EXCEPT !.archived = test[t].archived]]

\* A check that gave an outcome proves the connector; one that could not reach its
\* source faults it; a feed proves nothing.
ConnectorAfterUnreachable(h, result, unreachable) == \* mutant: a status of its own
    CASE h.source = "push" -> h.connector
      [] unreachable -> "unreachable"
      [] result # "error" /\ h.connector \in {"configured", "error"} -> "active"
      [] OTHER -> h.connector
ConnectorAfter(h, result, unreachable) ==
    CASE h.source = "push" -> h.connector
      [] unreachable /\ h.connector # "disabled" -> "error"
      [] result # "error" /\ h.connector \in {"configured", "error"} -> "active"
      [] OTHER -> h.connector

Outcomes(h) == IF h.source = "push" THEN {"passed", "failed"}
               ELSE IF h.connector = "disabled" THEN {"error"}
               ELSE Verdicts

AlertOf(h, result) ==
    CASE result = "failed" -> {FailedAlert(h.day)}
      [] result = "error" -> {ErrorAlert(h.on, h.day)}
      [] OTHER -> {}

FinishRun(w, result, unreachable) ==
    LET h == inflight[w]
        loaded == h.rows[h.on]
        advanced == Advances(loaded, h.day)
        tracked == advanced /\ result = "failed"
        row == [RolledUp(loaded, h.day, result) EXCEPT
                   !.issue = IF tracked THEN TrackedOn(loaded) ELSE @]
        since == SignalOf(RowsRead(h, row))
        status == ConnectorAfter(h, result, unreachable)
    IN /\ h.op = "run"
       /\ result \in Outcomes(h)
       /\ unreachable => result = "error" /\ h.connector # "disabled"
       /\ test' = [test EXCEPT ![h.on] = Written(@, loaded, row)]
       /\ runs' = [runs EXCEPT ![h.on] =
                      Append(@, [day |-> h.day, result |-> result, source |-> h.source])]
       /\ issues' = IF tracked /\ row.issue = Len(issues) + 1
                    THEN Append(issues, [on |-> h.on, open |-> TRUE]) ELSE issues
       /\ signal' = IF advanced /\ since # h.signal THEN since ELSE signal
       /\ alerts' = alerts \cup AlertOf(h, result)
       /\ connector' = IF status # h.connector THEN status ELSE connector
       /\ Done(w)
       /\ UNCHANGED <<today, sweep, events>>

\* An exception rolls the run's transaction back; a sweep goes on to its next test.
RollbackStopsSweep(w) ==                             \* mutant: it ends the sweep
    /\ inflight[w].op = "run"
    /\ inflight[w].source = "scheduled" => inflight[w].on \in Flaky
    /\ Done(w)
    /\ sweep' = [v \in Sweepers |-> IF v = w THEN NoSweep ELSE sweep[v]]
    /\ UNCHANGED <<today, test, runs, issues, signal, alerts, connector, events>>
Rollback(w) ==
    /\ inflight[w].op = "run"
    /\ inflight[w].source = "scheduled" => inflight[w].on \in Flaky
    /\ Done(w)
    /\ UNCHANGED <<today, test, runs, issues, signal, alerts, connector, sweep, events>>

-----------------------------------------------------------------------------
(***************************************************************************)
(* The sweep                                                               *)
(***************************************************************************)
\* List the tests that are due, and alert for those overdue.
SweepList(w) ==
    /\ inflight[w] = Idle
    /\ sweep[w] = NoSweep
    /\ sweep' = [sweep EXCEPT ![w] =
           [now |-> today,
            due |-> IF connector = "disabled" THEN {}
                    ELSE {t \in Tests : IsDue(t, test[t], today)}]]
    /\ alerts' = alerts \cup {OverdueAlert(t, LastSeen(test[t])) :
                                t \in {t \in Tests : IsOverdue(t, test[t], today)}}
    /\ UNCHANGED <<today, test, runs, issues, signal, connector, inflight, events>>

\* The advisory lock of a test: held by a scheduled run until its transaction ends.
Locked(t) == \E w \in Workers : /\ inflight[w].op = "run"
                                /\ inflight[w].source = "scheduled"
                                /\ inflight[w].on = t

StillDueAsListed(t, now) == TRUE                     \* mutant: not looked at again
StillDue(t, now) == IsDue(t, test[t], now)

SweepRun(w, t) ==
    /\ t \in sweep[w].due
    /\ ~Locked(t) /\ StillDue(t, sweep[w].now)
    /\ LoadRun(w, t, "scheduled", sweep[w].now)
    /\ sweep' = [sweep EXCEPT ![w].due = @ \ {t}]
    /\ UNCHANGED events

SweepSkip(w, t) ==
    /\ inflight[w] = Idle
    /\ t \in sweep[w].due
    /\ Locked(t) \/ ~StillDue(t, sweep[w].now)
    /\ sweep' = [sweep EXCEPT ![w].due = @ \ {t}]
    /\ UNCHANGED <<today, test, runs, issues, signal, alerts, connector, inflight, events>>

SweepEnd(w) ==
    /\ inflight[w] = Idle
    /\ sweep[w] # NoSweep /\ sweep[w].due = {}
    /\ sweep' = [sweep EXCEPT ![w] = NoSweep]
    /\ UNCHANGED <<today, test, runs, issues, signal, alerts, connector, inflight, events>>

-----------------------------------------------------------------------------
(***************************************************************************)
(* People, feeds and failures                                              *)
(***************************************************************************)
Event == events < MaxEvents /\ events' = events + 1

RunNow(w, t) ==
    /\ Event
    /\ ~test[t].archived
    /\ LoadRun(w, t, "run_now", today)
    /\ UNCHANGED sweep

\* A feed names the test; a paused one records no run.  The result may be old.
Push(w, t, lag) ==
    /\ Event
    /\ connector # "disabled"
    /\ Watched(test[t])
    /\ today > lag
    /\ LoadRun(w, t, "push", today - lag)
    /\ UNCHANGED sweep

\* A run recorded by hand moves the last run and result, and nothing else.
RecordByHand(t, lag, result) ==
    LET d == today - lag IN
    /\ Free
    /\ Event
    /\ ~test[t].archived
    /\ today > lag
    /\ runs' = [runs EXCEPT ![t] = Append(@, [day |-> d, result |-> result, source |-> "manual"])]
    /\ test' = IF Advances(test[t], d)
               THEN [test EXCEPT ![t].lastRun = d, ![t].lastResult = result] ELSE test
    /\ UNCHANGED <<today, issues, signal, alerts, connector, sweep, inflight>>

\* An edited test is paused or resumed, or has its last run and result typed over:
\* no run is recorded, and neither the streak nor the signal is looked at.
Shown(t) == [day |-> test[t].lastRun, result |-> test[t].lastResult]

UpdateTest(t, active, typed) ==
    /\ Free
    /\ Event
    /\ ~test[t].archived
    /\ test' = [test EXCEPT ![t].active = active, ![t].lastRun = typed.day,
                            ![t].lastResult = typed.result]
    /\ runs' = IF typed = Shown(t) THEN runs
               ELSE [runs EXCEPT ![t] = Append(@, [day |-> typed.day, result |-> typed.result,
                                                   source |-> "typed"])]
    /\ UNCHANGED <<today, issues, signal, alerts, connector, sweep, inflight>>

Archive(t) ==
    /\ Free
    /\ Event
    /\ ~test[t].archived
    /\ test' = [test EXCEPT ![t].archived = TRUE]
    /\ UNCHANGED <<today, runs, issues, signal, alerts, connector, sweep, inflight>>

SetConnector(status) ==
    /\ Free
    /\ Event
    /\ status # connector
    /\ connector' = status
    /\ UNCHANGED <<today, test, runs, issues, signal, alerts, sweep, inflight>>

\* Test connection: reaches the source, then looks at the status it loaded.
Probe(w) ==
    /\ Event
    /\ inflight[w] = Idle
    /\ inflight' = [inflight EXCEPT ![w] = [op |-> "probe", connector |-> connector]]
    /\ UNCHANGED <<today, test, runs, issues, signal, alerts, connector, sweep>>

ProbeDone(w, ok) ==
    /\ inflight[w].op = "probe"
    /\ connector' = IF ok /\ inflight[w].connector \in {"configured", "error"}
                    THEN "active" ELSE connector
    /\ Done(w)
    /\ UNCHANGED <<today, test, runs, issues, signal, alerts, sweep, events>>

CloseIssue(i) ==
    /\ Free
    /\ Event
    /\ issues[i].open
    /\ issues' = [issues EXCEPT ![i].open = FALSE]
    /\ UNCHANGED <<today, test, runs, signal, alerts, connector, sweep, inflight>>

\* The process stops: what it had in flight and its sweep are gone.
Crash(w) ==
    /\ Event
    /\ Done(w)
    /\ sweep' = [v \in Sweepers |-> IF v = w THEN NoSweep ELSE sweep[v]]
    /\ UNCHANGED <<today, test, runs, issues, signal, alerts, connector>>

\* A handler lasts less than a minute: it ends on the day it began.
Tomorrow ==
    /\ today < MaxDay
    /\ \A w \in Workers : inflight[w] = Idle
    /\ today' = today + 1
    /\ UNCHANGED <<test, runs, issues, signal, alerts, connector, sweep, inflight, events>>

-----------------------------------------------------------------------------
Finish(w) ==
    \/ \E result \in Results, unreachable \in BOOLEAN : FinishRun(w, result, unreachable)
    \/ \E ok \in BOOLEAN : ProbeDone(w, ok)

SweepStep(w) == (\E t \in Tests : SweepRun(w, t) \/ SweepSkip(w, t)) \/ SweepEnd(w)

People ==
    \/ \E t \in Tests, lag \in Lags, result \in {"passed", "failed", "error"} :
           RecordByHand(t, lag, result)
    \/ \E t \in Tests, active \in BOOLEAN :
           \E typed \in Typed \cup {Shown(t)} : UpdateTest(t, active, typed)
    \/ \E t \in Tests : Archive(t)
    \/ \E status \in ConnectorStatus : SetConnector(status)
    \/ \E i \in DOMAIN issues : CloseIssue(i)

Next ==
    \/ \E w \in Workers : Finish(w) \/ Rollback(w) \/ Probe(w) \/ Crash(w)
    \/ \E w \in Workers, t \in Tests :
           RunNow(w, t) \/ \E lag \in Lags : Push(w, t, lag)
    \/ \E w \in Sweepers : SweepList(w) \/ SweepStep(w)
    \/ People
    \/ Tomorrow

\* The leader's loop sweeps for as long as the installation runs, and whatever was
\* begun goes on or is lost with its process.
Fairness ==
    /\ WF_vars(SweepList(Leader))
    /\ \A w \in Sweepers : WF_vars(SweepStep(w))
    /\ \A w \in Workers : WF_vars(Finish(w))

Spec == Init /\ [][Next]_vars /\ Fairness

-----------------------------------------------------------------------------
(***************************************************************************)
(* Properties                                                              *)
(***************************************************************************)
TypeOK ==
    /\ today \in Days
    /\ test \in [Tests -> TestRow]
    /\ runs \in [Tests -> Seq(Run)]
    /\ issues \in Seq([on : Tests, open : BOOLEAN])
    /\ signal \in 0..MaxDay
    /\ connector \in ConnectorStatus
    /\ sweep \in [Sweepers -> {NoSweep} \cup [now : Days, due : SUBSET Tests]]
    /\ inflight \in [Workers -> Handler]
    /\ events \in 0..MaxEvents

\* What the n-th result of a test is measured against: those before it, back to the
\* last that was typed over the row.
Before(t, n) == {m \in DOMAIN runs[t] :
                    /\ m < n
                    /\ \A k \in DOMAIN runs[t] : m < k /\ k <= n => runs[t][k].source # "typed"}

\* Whether it was the latest when it arrived.
LatestThen(t, n) == \A m \in Before(t, n) : runs[t][m].day <= runs[t][n].day

\* The result that counts: what was typed over last or, since, the run of the latest
\* day recorded last.
Latest(t) == CHOOSE n \in DOMAIN runs[t] :
                /\ LatestThen(t, n)
                /\ \A m \in DOMAIN runs[t] :
                      m > n => n \in Before(t, m) /\ runs[t][m].day < runs[t][n].day

\* record_result, add_run, update_test: in whatever order results arrive, by check, by
\* feed or by hand, a test shows the day and the result of its latest run, or of what was
\* typed over it if no run since is as late.
RollUpIsLatest ==
    \A t \in Tests : IF runs[t] = <<>> THEN test[t].lastRun = NoDay
                     ELSE Shown(t) = [day |-> runs[t][Latest(t)].day,
                                      result |-> runs[t][Latest(t)].result]

\* The results monitoring observed itself, each the latest when it arrived.
Observed(t) == {n \in DOMAIN runs[t] :
                   runs[t][n].source \notin {"manual", "typed"} /\ LatestThen(t, n)}

\* The failures since the last pass, and the day of the first.
Streak(t) == {n \in Observed(t) :
                 /\ runs[t][n].result = "failed"
                 /\ \A m \in Observed(t) : m > n => runs[t][m].result # "passed"}
StreakStart(t) == IF Streak(t) = {} THEN NoDay ELSE runs[t][Min(Streak(t))].day

\* record_result: failing_since is the first day of the current run of failures
\* monitoring observed; an error neither starts nor ends one.
FailingSinceStartsStreak == \A t \in Tests : test[t].failingSince = StreakStart(t)

RunRecorded(t) == Len(runs'[t]) > Len(runs[t])
LastRecorded(t) == runs'[t][Len(runs'[t])]

\* open_or_update_issue: when a failure observed by monitoring becomes a test's
\* latest result, the test has an open issue of its own.
FailureTracked ==
    [][\A t \in Tests :
          RunRecorded(t) /\ (Len(runs[t]) \in Streak(t))' =>
              LET i == test'[t].issue IN
              i \in DOMAIN issues' /\ issues'[i] = [on |-> t, open |-> TRUE]]_vars

FailingTests == {t \in Tests : /\ Watched(test[t])
                               /\ Streak(t) # {}
                               /\ runs[t][Latest(t)].result = "failed"}
FailingFrom == IF FailingTests = {} THEN NoDay ELSE Min({StreakStart(t) : t \in FailingTests})

\* refresh_control_signal: once a result observed by monitoring has become a test's
\* latest, the signal is the first day of the longest streak among the watched tests
\* whose latest run failed.
SignalFollowsRuns ==
    [][\A t \in Tests :
          RunRecorded(t) /\ (Len(runs[t]) \in Observed(t))' => signal' = FailingFrom']_vars

\* The signal never names a day on which no run failed, whatever overlaps or is typed over.
SignalWitnessed ==
    signal # NoDay => \E t \in Tests : \E n \in DOMAIN runs[t] :
        /\ runs[t][n].day = signal /\ runs[t][n].result = "failed"
        /\ runs[t][n].source # "typed"

\* run_due_for_tenant: two sweeps, of two processes or of the trigger and the leader,
\* never run a test twice within its period; a failed check is not retried in it either.
ScheduledRunsApart ==
    \A t \in Tests : \A m, n \in DOMAIN runs[t] :
        m < n /\ runs[t][m].source = "scheduled" /\ runs[t][n].source = "scheduled"
            => runs[t][n].day >= runs[t][m].day + Freq[t]

Runnable(t) == connector # "disabled" /\ IsDue(t, test[t], today)

\* run_due_for_tenant: a test that is due is run (or stops being due), though the
\* runs of other tests keep dying and processes crash.
DueIsRun == \A t \in Tests \ Flaky : Runnable(t) ~> ~Runnable(t)

\* No run by any means, nor one typed over the row, for more than twice the period, nor
\* since the test was created.
Silent(t) ==
    /\ Watched(test[t])
    /\ \A d \in {NoDay} \cup {runs[t][n].day : n \in DOMAIN runs[t]} : today > d + 2 * Freq[t]

\* raise_overdue_alerts: a test that stays silent is alerted for.
OverdueIsAlerted ==
    \A t \in Tests : Silent(t) ~> (Silent(t) => \E d \in 0..MaxDay : OverdueAlert(t, d) \in alerts)

\* "The control is not relied on until it passes": monitoring withdraws the signal
\* only with a run that passed.
RelianceRestoredByPass ==
    [][signal # NoDay /\ signal' = NoDay =>
          \E t \in Tests : RunRecorded(t) /\ LastRecorded(t).result = "passed"]_vars
=============================================================================
