----------------------- MODULE ControlMonitoringProofs -----------------------
(***************************************************************************)
(* Theorems about ControlMonitoring, for any tests, frequencies, number of *)
(* handlers in flight at once, and bounds; the last four, of what a test   *)
(* shows of its runs, for handlers that do not overlap (OneHandler).       *)
(***************************************************************************)
EXTENDS ControlMonitoring, SequenceTheorems, WellFoundedInduction, TLAPS

-----------------------------------------------------------------------------
(***************************************************************************)
(* Typing                                                                  *)
(***************************************************************************)
\* Days are naturals, and a day is not NULL.
LEMMA DaysAreNat == /\ Days \subseteq Nat \ {0}
                    /\ \A d \in Days : d <= MaxDay /\ d \in 0..MaxDay
                    /\ NoDay \in 0..MaxDay
  BY BoundsAssumption DEF Days, NoDay

\* A roll-up is a test row; it moves last_run_at to the day of the result or not at all,
\* and failing_since to NULL, to where it was, or to the day of a failed result.
LEMMA RolledUpType ==
    ASSUME NEW row \in TestRow, NEW d \in Days, NEW result \in {"passed", "failed", "error"}
    PROVE  /\ RolledUp(row, d, result) \in TestRow
           /\ RolledUp(row, d, result).lastRunAt = IF d >= row.lastRunAt THEN d ELSE row.lastRunAt
           /\ \/ RolledUp(row, d, result).failingSince \in {NoDay, row.failingSince}
              \/ RolledUp(row, d, result).failingSince = d /\ result = "failed"
           /\ RolledUp(row, d, result).issue = row.issue
  <1>1. FailingSince(row, d, result) \in 0..MaxDay
    BY DaysAreNat DEF FailingSince, TestRow
  <1>2. d \in 0..MaxDay /\ result \in Results /\ d # NoDay
    BY DaysAreNat DEF Results, NoDay
  <1>3. QED
    BY <1>1, <1>2 DEF RolledUp, TestRow, FailingSince

\* An UPDATE of the changed columns leaves a test row, column by column.
LEMMA WrittenType ==
    ASSUME NEW current \in TestRow, NEW loaded \in TestRow, NEW row \in TestRow
    PROVE  /\ Written(current, loaded, row) \in TestRow
           /\ \A c \in {"lastRunAt", "failingSince", "issue"} :
                 Written(current, loaded, row)[c] =
                    IF row[c] # loaded[c] THEN row[c] ELSE current[c]
  <1>1. DOMAIN current = {"active", "archived", "lastRun", "lastResult", "failingSince",
                          "lastRunAt", "issue"}
    BY DEF TestRow
  <1>2. QED
    BY <1>1 DEF Written, TestRow

\* A set of naturals that is not empty has its minimum.
LEMMA MinOfDays ==
    ASSUME NEW S \in SUBSET Nat, S # {}
    PROVE  Min(S) \in S /\ \A j \in S : Min(S) <= j
  <1> DEFINE Less == OpToRel(<, Nat)
  <1>1. PICK k \in S : \A j \in S : ~ (<<j, k>> \in Less)
    <2>1. IsWellFoundedOn(Less, Nat)
      BY NatLessThanWellFounded
    <2> HIDE DEF Less
    <2>2. QED
      BY <2>1, WFMin
  <1>2. \A j \in S : ~ (j < k)
    BY <1>1 DEF OpToRel
  <1>3. \A j \in S : k <= j
    BY <1>2
  <1>4. QED
    BY <1>3 DEF Min

\* The signal is NULL or the failing_since of one of the tests it is computed from.
LEMMA SignalIsOfATest ==
    ASSUME NEW rows \in [Tests -> TestRow]
    PROVE  /\ SignalOf(rows) \in 0..MaxDay
           /\ SignalOf(rows) # NoDay => \E t \in Tests : SignalOf(rows) = rows[t].failingSince
  <1> DEFINE failing == {t \in Tests : /\ Watched(rows[t])
                                       /\ rows[t].lastResult = "failed"
                                       /\ rows[t].failingSince # NoDay}
             starts == {rows[t].failingSince : t \in failing}
  <1>1. CASE failing = {}
    BY <1>1, DaysAreNat DEF SignalOf
  <1>2. CASE failing # {}
    <2>1. \A t \in Tests : rows[t].failingSince \in 0..MaxDay
      BY DEF TestRow
    <2>2. starts \in SUBSET Nat /\ starts # {}
      BY <1>2, <2>1, BoundsAssumption
    <2>3. Min(starts) \in starts
      BY <2>2, MinOfDays
    <2>4. SignalOf(rows) = Min(starts)
      BY <1>2 DEF SignalOf
    <2>5. QED
      BY <2>1, <2>3, <2>4
  <1>3. QED
    BY <1>1, <1>2

\* What a run in flight has loaded.
LEMMA RunInFlight ==
    ASSUME TypeOK, NEW w \in Workers, inflight[w].op = "run"
    PROVE  /\ inflight[w].on \in Tests
           /\ inflight[w].source \in Sources
           /\ inflight[w].day \in Days
           /\ inflight[w].rows \in [Tests -> TestRow]
           /\ inflight[w].rows[inflight[w].on] \in TestRow
           /\ inflight[w].signal \in 0..MaxDay
           /\ inflight[w].connector \in ConnectorStatus
  <1>1. inflight[w] \in Handler
    BY DEF TypeOK
  <1>2. QED
    BY <1>1 DEF Handler

\* The rows the signal is computed from are test rows: the handler's own, those it
\* loaded, or those of the table.
LEMMA RowsReadType ==
    ASSUME TypeOK, NEW w \in Workers, inflight[w].op = "run", NEW row \in TestRow
    PROVE  /\ RowsRead(inflight[w], row) \in [Tests -> TestRow]
           /\ \A t \in Tests : RowsRead(inflight[w], row)[t].failingSince \in
                 {row.failingSince, inflight[w].rows[t].failingSince, test[t].failingSince}
  <1>1. \A t \in Tests : inflight[w].rows[t] \in TestRow /\ test[t] \in TestRow
    BY RunInFlight DEF TypeOK
  <1>2. \A t \in Tests : test[t].archived \in BOOLEAN
    BY <1>1 DEF TestRow
  <1>3. ASSUME NEW loaded \in TestRow, NEW yes \in BOOLEAN
        PROVE  /\ [loaded EXCEPT !.archived = yes] \in TestRow
               /\ [loaded EXCEPT !.archived = yes].failingSince = loaded.failingSince
    BY DEF TestRow
  <1>4. QED
    BY <1>1, <1>2, <1>3 DEF RowsRead

\* Before anything has happened every row has its shape.
LEMMA InitType == Init => TypeOK
  <1> SUFFICES ASSUME Init PROVE TypeOK
    OBVIOUS
  <1>1. test \in [Tests -> TestRow]
    BY DaysAreNat DEF Init, TestRow, Results
  <1>2. inflight \in [Workers -> Handler]
    BY DEF Init, Idle, Handler
  <1>3. runs \in [Tests -> Seq(Run)] /\ issues \in Seq([on : Tests, open : BOOLEAN])
    BY DEF Init
  <1>4. today \in Days /\ signal \in 0..MaxDay /\ connector \in ConnectorStatus
    BY DaysAreNat, BoundsAssumption DEF Init, ConnectorStatus
  <1>5. sweep \in [Sweepers -> {NoSweep} \cup [now : Days, due : SUBSET Tests]]
    BY DEF Init
  <1>6. events \in 0..MaxEvents
    BY BoundsAssumption DEF Init
  <1>7. QED
    BY <1>1, <1>2, <1>3, <1>4, <1>5, <1>6 DEF TypeOK

\* A load puts a handler in its worker and touches no row.
LEMMA LoadRunType ==
    ASSUME TypeOK, NEW w \in Workers, NEW t \in Tests, NEW source \in Sources, NEW d \in Days,
           LoadRun(w, t, source, d)
    PROVE  inflight' \in [Workers -> Handler]
  <1>1. [op |-> "run", on |-> t, source |-> source, day |-> d,
         rows |-> test, signal |-> signal, connector |-> connector] \in Handler
    BY DEF TypeOK, Handler
  <1>2. QED
    BY <1>1 DEF LoadRun, TypeOK

\* A handler that ends leaves its worker idle.
LEMMA DoneType ==
    ASSUME TypeOK, NEW w \in Workers, Done(w)
    PROVE  inflight' \in [Workers -> Handler]
  BY DEF TypeOK, Done, Idle, Handler

\* What people, feeds and crashes do is counted up to the bound.
LEMMA EventType == TypeOK /\ Event => events' \in 0..MaxEvents
  BY BoundsAssumption DEF TypeOK, Event

\* The row a run writes: the roll-up of the one it loaded, with the issue.
Recorded(h, result) ==
    LET loaded == h.rows[h.on] IN
    [RolledUp(loaded, h.day, result) EXCEPT
        !.issue = IF Advances(loaded, h.day) /\ result = "failed" THEN TrackedOn(loaded) ELSE @]

\* It is a test row; the dates are those of the roll-up.
LEMMA RecordedType ==
    ASSUME TypeOK, NEW w \in Workers, inflight[w].op = "run",
           NEW result \in {"passed", "failed", "error"}
    PROVE  LET h == inflight[w]
               rolled == RolledUp(h.rows[h.on], h.day, result)
           IN /\ Recorded(h, result) \in TestRow
              /\ Recorded(h, result).lastRunAt = rolled.lastRunAt
              /\ Recorded(h, result).failingSince = rolled.failingSince
  <1> DEFINE h == inflight[w]
             loaded == h.rows[h.on]
             rolled == RolledUp(loaded, h.day, result)
  <1>1. loaded \in TestRow /\ h.day \in Days
    BY RunInFlight
  <1>2. rolled \in TestRow
    BY <1>1, RolledUpType
  <1>3. TrackedOn(loaded) \in Nat
    BY <1>1 DEF TrackedOn, TestRow, TypeOK
  <1>4. ASSUME NEW n \in Nat
        PROVE  /\ [rolled EXCEPT !.issue = n] \in TestRow
               /\ [rolled EXCEPT !.issue = n].lastRunAt = rolled.lastRunAt
               /\ [rolled EXCEPT !.issue = n].failingSince = rolled.failingSince
    BY <1>2 DEF TestRow
  <1>5. rolled.issue \in Nat
    BY <1>2 DEF TestRow
  <1> HIDE DEF rolled
  <1>6. Recorded(h, result) = [rolled EXCEPT !.issue =
           IF Advances(loaded, h.day) /\ result = "failed" THEN TrackedOn(loaded) ELSE rolled.issue]
    BY <1>2 DEF Recorded, rolled
  <1>7. QED
    BY <1>3, <1>4, <1>5, <1>6 DEF rolled

\* What a run that ends writes, in terms of the rows and of the history.
Writes(w, result) ==
    LET h == inflight[w]
        row == Recorded(h, result)
    IN /\ test' = [test EXCEPT ![h.on] = Written(@, h.rows[h.on], row)]
       /\ runs' = [runs EXCEPT ![h.on] =
                      Append(@, [day |-> h.day, result |-> result, source |-> h.source])]
       /\ signal' \in {SignalOf(RowsRead(h, row)), signal}
       /\ Done(w)
       /\ UNCHANGED <<today, sweep, events>>

\* It writes that, and its result is a verdict.
LEMMA FinishRunWrites ==
    ASSUME TypeOK, NEW w \in Workers, NEW result \in Results, NEW unreachable \in BOOLEAN,
           FinishRun(w, result, unreachable)
    PROVE  /\ inflight[w].op = "run"
           /\ result \in {"passed", "failed", "error"}
           /\ Recorded(inflight[w], result) \in TestRow
           /\ Writes(w, result)
  <1>1. inflight[w].op = "run" /\ result \in Outcomes(inflight[w])
    BY DEF FinishRun
  <1>2. result \in {"passed", "failed", "error"}
    BY <1>1, TestsAssumption DEF Outcomes
  <1>3. Recorded(inflight[w], result) \in TestRow
    BY <1>1, <1>2, RecordedType
  <1>4. Writes(w, result)
    BY DEF FinishRun, Recorded, Writes
  <1>5. QED
    BY <1>1, <1>2, <1>3, <1>4

\* A run that ends keeps every row's shape.
LEMMA FinishRunType ==
    ASSUME TypeOK, NEW w \in Workers, NEW result \in Results, NEW unreachable \in BOOLEAN,
           FinishRun(w, result, unreachable)
    PROVE  TypeOK'
  <1> DEFINE h == inflight[w]
             row == Recorded(h, result)
             loaded == h.rows[h.on]
  <1>1. /\ h.op = "run" /\ h.on \in Tests /\ h.day \in Days /\ h.source \in Sources
        /\ loaded \in TestRow /\ row \in TestRow /\ result \in Results
        /\ Writes(w, result)
    BY FinishRunWrites, RunInFlight
  <1>2. test' \in [Tests -> TestRow]
    <2>1. test[h.on] \in TestRow
      BY <1>1 DEF TypeOK
    <2>2. Written(test[h.on], loaded, row) \in TestRow
      BY <1>1, <2>1, WrittenType
    <2>3. QED
      BY <1>1, <2>2 DEF TypeOK, Writes
  <1>3. runs' \in [Tests -> Seq(Run)]
    <2>1. [day |-> h.day, result |-> result, source |-> h.source] \in Run
      BY <1>1 DEF Run
    <2>2. QED
      BY <1>1, <2>1 DEF TypeOK, Writes
  <1>4. issues' \in Seq([on : Tests, open : BOOLEAN])
    <2>1. issues' = issues \/ issues' = Append(issues, [on |-> h.on, open |-> TRUE])
      BY DEF FinishRun
    <2>2. [on |-> h.on, open |-> TRUE] \in [on : Tests, open : BOOLEAN]
      BY <1>1
    <2>3. issues \in Seq([on : Tests, open : BOOLEAN])
      BY DEF TypeOK
    <2>4. Append(issues, [on |-> h.on, open |-> TRUE]) \in Seq([on : Tests, open : BOOLEAN])
      BY <2>2, <2>3, AppendProperties
    <2>5. QED
      BY <2>1, <2>3, <2>4
  <1>5. signal' \in 0..MaxDay
    BY <1>1, RowsReadType, SignalIsOfATest DEF TypeOK, Writes
  <1>6. connector' \in ConnectorStatus
    <2>1. connector' \in {ConnectorAfter(h, result, unreachable), connector}
      BY DEF FinishRun
    <2>2. h.connector \in ConnectorStatus
      BY <1>1, RunInFlight
    <2>3. QED
      BY <2>1, <2>2 DEF ConnectorAfter, ConnectorStatus, TypeOK
  <1>7. QED
    BY <1>1, <1>2, <1>3, <1>4, <1>5, <1>6, DoneType DEF TypeOK, Writes

\* So does a step of a sweep.
LEMMA SweepType ==
    ASSUME TypeOK, NEW w \in Sweepers, SweepList(w) \/ SweepStep(w)
    PROVE  TypeOK'
  <1>1. w \in Workers
    BY WorkersAssumption
  <1>2. CASE SweepList(w)
    <2>1. [now |-> today, due |-> IF connector = "disabled" THEN {}
                                  ELSE {t \in Tests : IsDue(t, test[t], today)}]
             \in [now : Days, due : SUBSET Tests]
      BY DEF TypeOK
    <2>2. QED
      BY <1>2, <2>1 DEF SweepList, TypeOK
  <1>3. ASSUME NEW t \in Tests, SweepRun(w, t)
        PROVE  TypeOK'
    <2>1. sweep[w] \in [now : Days, due : SUBSET Tests]
      BY <1>3 DEF SweepRun, TypeOK, NoSweep
    <2>2. sweep[w].now \in Days /\ "scheduled" \in Sources
      BY <2>1 DEF Sources
    <2>3. inflight' \in [Workers -> Handler]
      BY <1>1, <1>3, <2>2, LoadRunType DEF SweepRun
    <2>4. [sweep[w] EXCEPT !.due = @ \ {t}] \in [now : Days, due : SUBSET Tests]
      BY <2>1
    <2>5. sweep' \in [Sweepers -> {NoSweep} \cup [now : Days, due : SUBSET Tests]]
      BY <1>3, <2>4 DEF SweepRun, TypeOK
    <2>6. QED
      BY <1>3, <2>3, <2>5 DEF SweepRun, LoadRun, TypeOK
  <1>4. ASSUME NEW t \in Tests, SweepSkip(w, t)
        PROVE  TypeOK'
    <2>1. sweep[w] \in [now : Days, due : SUBSET Tests]
      BY <1>4 DEF SweepSkip, TypeOK, NoSweep
    <2>2. [sweep[w] EXCEPT !.due = @ \ {t}] \in [now : Days, due : SUBSET Tests]
      BY <2>1
    <2>3. QED
      BY <1>4, <2>2 DEF SweepSkip, TypeOK
  <1>5. CASE SweepEnd(w)
    BY <1>5 DEF SweepEnd, TypeOK
  <1>6. QED
    BY <1>2, <1>3, <1>4, <1>5 DEF SweepStep

\* The row an edit leaves, and what enters the history when it is typed over.
Edited(row, active, typed) ==
    [row EXCEPT !.active = active, !.lastRun = typed.day, !.lastResult = typed.result]
TypedRun(typed) == [day |-> typed.day, result |-> typed.result, source |-> "typed"]

\* An edit moves none of the dates that monitoring keeps.
LEMMA UpdateWrites ==
    ASSUME TypeOK, NEW t \in Tests, NEW active \in BOOLEAN, NEW typed \in Typed \cup {Shown(t)},
           UpdateTest(t, active, typed)
    PROVE  /\ Edited(test[t], active, typed) \in TestRow
           /\ test' = [test EXCEPT ![t] = Edited(test[t], active, typed)]
           /\ \A u \in Tests : /\ test'[u].lastRunAt = test[u].lastRunAt
                               /\ test'[u].failingSince = test[u].failingSince
                               /\ test'[u].issue = test[u].issue
           /\ test'[t].lastRun = typed.day /\ test'[t].lastResult = typed.result
           /\ TypedRun(typed) \in Run
           /\ runs' = IF typed = Shown(t) THEN runs
                      ELSE [runs EXCEPT ![t] = Append(@, TypedRun(typed))]
           /\ UNCHANGED <<today, signal, inflight, sweep, issues>>
  <1> DEFINE row == Edited(test[t], active, typed)
  <1>1. test[t] \in TestRow /\ test \in [Tests -> TestRow]
    BY DEF TypeOK
  <1>2. typed \in [day : 0..MaxDay, result : Results]
    BY <1>1, TestsAssumption DEF Shown, TestRow
  <1>3. /\ row \in TestRow
        /\ row.lastRunAt = test[t].lastRunAt /\ row.failingSince = test[t].failingSince
        /\ row.issue = test[t].issue
        /\ row.lastRun = typed.day /\ row.lastResult = typed.result
    BY <1>1, <1>2 DEF TestRow, Edited
  <1>4. test' = [test EXCEPT ![t] = row]
    BY <1>1 DEF UpdateTest, Edited, TestRow
  <1>5. TypedRun(typed) \in Run
    BY <1>2 DEF Run, TypedRun
  <1>6. /\ runs' = IF typed = Shown(t) THEN runs
                   ELSE [runs EXCEPT ![t] = Append(@, TypedRun(typed))]
        /\ UNCHANGED <<today, signal, inflight, sweep, issues>>
    BY DEF UpdateTest, TypedRun
  <1> HIDE DEF row
  <1>7. \A u \in Tests : test'[u] = IF u = t THEN row ELSE test[u]
    BY <1>1, <1>4
  <1>8. QED
    BY <1>3, <1>4, <1>5, <1>6, <1>7 DEF row

\* The history stays one of runs when one is appended.
LEMMA HistoryType ==
    ASSUME TypeOK, NEW t \in Tests, NEW run \in Run,
           runs' = runs \/ runs' = [runs EXCEPT ![t] = Append(@, run)]
    PROVE  runs' \in [Tests -> Seq(Run)]
  <1>1. runs \in [Tests -> Seq(Run)]
    BY DEF TypeOK
  <1>2. Append(runs[t], run) \in Seq(Run)
    BY <1>1, AppendProperties
  <1>3. QED
    BY <1>1, <1>2

\* So does what people do.
LEMMA PeopleType == TypeOK /\ People => TypeOK'
  <1> SUFFICES ASSUME TypeOK, People PROVE TypeOK'
    OBVIOUS
  <1>1. ASSUME NEW t \in Tests, NEW lag \in Lags, NEW result \in {"passed", "failed", "error"},
               RecordByHand(t, lag, result)
        PROVE  TypeOK'
    <2>1. today - lag \in Days
      BY <1>1, TestsAssumption, BoundsAssumption DEF RecordByHand, TypeOK, Days
    <2>2. [day |-> today - lag, result |-> result, source |-> "manual"] \in Run
      BY <2>1 DEF Run, Results, Sources
    <2>3. runs' \in [Tests -> Seq(Run)]
      BY <1>1, <2>2 DEF RecordByHand, TypeOK
    <2>4. test' \in [Tests -> TestRow]
      <3>1. test[t] \in TestRow /\ result \in Results /\ today - lag \in 0..MaxDay
        BY <2>1, DaysAreNat DEF TypeOK, Results
      <3>2. [test[t] EXCEPT !.lastRun = today - lag, !.lastResult = result] \in TestRow
        BY <3>1 DEF TestRow
      <3>3. test' = test \/ test' = [test EXCEPT ![t] =
                     [test[t] EXCEPT !.lastRun = today - lag, !.lastResult = result]]
        BY <1>1, <3>1 DEF RecordByHand, TypeOK, TestRow
      <3>4. QED
        BY <3>2, <3>3 DEF TypeOK
    <2>5. QED
      BY <1>1, <2>3, <2>4, EventType DEF RecordByHand, TypeOK
  <1>2. ASSUME NEW t \in Tests, Archive(t)
        PROVE  TypeOK'
    <2>1. test[t] \in TestRow
      BY DEF TypeOK
    <2>2. [test[t] EXCEPT !.archived = TRUE] \in TestRow
      BY <2>1 DEF TestRow
    <2>3. test' \in [Tests -> TestRow]
      BY <1>2, <2>2 DEF Archive, TypeOK
    <2>4. QED
      BY <1>2, <2>3, EventType DEF Archive, TypeOK
  <1>2a. ASSUME NEW t \in Tests, NEW active \in BOOLEAN, NEW typed \in Typed \cup {Shown(t)},
                UpdateTest(t, active, typed)
         PROVE  TypeOK'
    <2>1. /\ Edited(test[t], active, typed) \in TestRow
          /\ test' = [test EXCEPT ![t] = Edited(test[t], active, typed)]
          /\ TypedRun(typed) \in Run
          /\ runs' = runs \/ runs' = [runs EXCEPT ![t] = Append(@, TypedRun(typed))]
      BY <1>2a, UpdateWrites
    <2>2. test' \in [Tests -> TestRow]
      BY <2>1 DEF TypeOK
    <2>3. runs' \in [Tests -> Seq(Run)]
      BY <2>1, HistoryType
    <2>4. QED
      BY <1>2a, <2>2, <2>3, EventType DEF UpdateTest, TypeOK
  <1>3. ASSUME NEW status \in ConnectorStatus, SetConnector(status)
        PROVE  TypeOK'
    BY <1>3, EventType DEF SetConnector, TypeOK
  <1>4. ASSUME NEW i \in DOMAIN issues, CloseIssue(i)
        PROVE  TypeOK'
    <2>1. issues \in Seq([on : Tests, open : BOOLEAN]) /\ i \in 1..Len(issues)
      BY DEF TypeOK
    <2>2. [issues[i] EXCEPT !.open = FALSE] \in [on : Tests, open : BOOLEAN]
      <3>1. issues[i] \in [on : Tests, open : BOOLEAN]
        BY <2>1, ElementOfSeq
      <3>2. QED
        BY <3>1
    <2>3. issues' \in Seq([on : Tests, open : BOOLEAN])
      BY <1>4, <2>1, <2>2, ExceptSeq DEF CloseIssue
    <2>4. QED
      BY <1>4, <2>3, EventType DEF CloseIssue, TypeOK
  <1>5. QED
    BY <1>1, <1>2, <1>2a, <1>3, <1>4 DEF People

\* Every step keeps every row's shape.
LEMMA NextType == TypeOK /\ [Next]_vars => TypeOK'
  <1> SUFFICES ASSUME TypeOK, [Next]_vars PROVE TypeOK'
    OBVIOUS
  <1>1. ASSUME NEW w \in Workers, Finish(w)
        PROVE  TypeOK'
    <2>1. ASSUME NEW ok \in BOOLEAN, ProbeDone(w, ok)
          PROVE  TypeOK'
      <3>1. connector' \in ConnectorStatus
        BY <2>1 DEF ProbeDone, ConnectorStatus, TypeOK
      <3>2. QED
        BY <2>1, <3>1, DoneType DEF ProbeDone, TypeOK
    <2>2. QED
      BY <1>1, <2>1, FinishRunType DEF Finish
  <1>2. ASSUME NEW w \in Workers, Rollback(w)
        PROVE  TypeOK'
    BY <1>2, DoneType DEF Rollback, TypeOK
  <1>3. ASSUME NEW w \in Workers, Probe(w)
        PROVE  TypeOK'
    <2>1. [op |-> "probe", connector |-> connector] \in Handler
      BY DEF TypeOK, Handler
    <2>2. QED
      BY <1>3, <2>1, EventType DEF Probe, TypeOK
  <1>4. ASSUME NEW w \in Workers, Crash(w)
        PROVE  TypeOK'
    <2>1. sweep' \in [Sweepers -> {NoSweep} \cup [now : Days, due : SUBSET Tests]]
      BY <1>4 DEF Crash, TypeOK
    <2>2. QED
      BY <1>4, <2>1, DoneType, EventType DEF Crash, TypeOK
  <1>5. ASSUME NEW w \in Workers, NEW t \in Tests, RunNow(w, t)
        PROVE  TypeOK'
    <2>1. inflight' \in [Workers -> Handler]
      BY <1>5, LoadRunType DEF RunNow, Sources, TypeOK
    <2>2. QED
      BY <1>5, <2>1, EventType DEF RunNow, LoadRun, TypeOK
  <1>6. ASSUME NEW w \in Workers, NEW t \in Tests, NEW lag \in Lags, Push(w, t, lag)
        PROVE  TypeOK'
    <2>1. today - lag \in Days
      BY <1>6, TestsAssumption, BoundsAssumption DEF Push, TypeOK, Days
    <2>2. inflight' \in [Workers -> Handler]
      BY <1>6, <2>1, LoadRunType DEF Push, Sources
    <2>3. QED
      BY <1>6, <2>2, EventType DEF Push, LoadRun, TypeOK
  <1>7. ASSUME NEW w \in Sweepers, SweepList(w) \/ SweepStep(w)
        PROVE  TypeOK'
    BY <1>7, SweepType
  <1>8. CASE People
    BY <1>8, PeopleType
  <1>9. CASE Tomorrow
    <2>1. today' \in Days
      BY <1>9, BoundsAssumption DEF Tomorrow, TypeOK, Days
    <2>2. QED
      BY <1>9, <2>1 DEF Tomorrow, TypeOK
  <1>10. CASE UNCHANGED vars
    BY <1>10 DEF vars, TypeOK
  <1>11. QED
    BY <1>1, <1>2, <1>3, <1>4, <1>5, <1>6, <1>7, <1>8, <1>9, <1>10 DEF Next

\* Every row, handler and sweep keeps its shape, whatever runs at once.
THEOREM TypeCorrect == Spec => []TypeOK
  <1>1. QED
    BY InitType, NextType, PTL DEF Spec

-----------------------------------------------------------------------------
(***************************************************************************)
(* Steps that leave the history and its dates alone                        *)
(***************************************************************************)
\* No run is recorded or begun, no date moves; a sweep may begin or go on.
QuietStep ==
    /\ UNCHANGED <<today, runs, signal>>
    /\ \A t \in Tests : /\ test'[t].lastRunAt = test[t].lastRunAt
                        /\ test'[t].failingSince = test[t].failingSince
    /\ \A w \in Workers : inflight'[w].op = "run" => inflight'[w] = inflight[w]
    /\ \A w \in Sweepers : sweep'[w] # NoSweep =>
          \/ sweep'[w].now = today
          \/ sweep[w] # NoSweep /\ sweep'[w].now = sweep[w].now

\* A handler that ends without recording anything is quiet.
LEMMA EndQuiet ==
    ASSUME TypeOK, NEW w \in Workers,
           (\E ok \in BOOLEAN : ProbeDone(w, ok)) \/ Rollback(w) \/ Probe(w) \/ Crash(w)
    PROVE  QuietStep
  <1>1. \A v \in Workers : inflight'[v].op = "run" => inflight'[v] = inflight[v]
    BY DEF ProbeDone, Rollback, Probe, Crash, Done, Idle, TypeOK
  <1>2. \A v \in Sweepers : sweep'[v] # NoSweep => sweep' [v] = sweep[v]
    BY DEF ProbeDone, Rollback, Probe, Crash, TypeOK
  <1>3. UNCHANGED <<today, runs, signal, test>>
    BY DEF ProbeDone, Rollback, Probe, Crash
  <1>4. QED
    BY <1>1, <1>2, <1>3 DEF QuietStep

\* So are the steps of a sweep but the one that begins a run.
LEMMA SweepQuiet ==
    ASSUME TypeOK, NEW w \in Sweepers,
           SweepList(w) \/ (\E t \in Tests : SweepSkip(w, t)) \/ SweepEnd(w)
    PROVE  QuietStep
  <1>1. UNCHANGED <<today, runs, signal, test, inflight>>
    BY DEF SweepList, SweepSkip, SweepEnd
  <1>2. \A v \in Sweepers : sweep'[v] # NoSweep =>
          \/ sweep'[v].now = today
          \/ sweep[v] # NoSweep /\ sweep'[v].now = sweep[v].now
    <2>1. CASE SweepList(w)
      BY <2>1 DEF SweepList, TypeOK
    <2>2. ASSUME NEW t \in Tests, SweepSkip(w, t)
          PROVE  \A v \in Sweepers : sweep'[v] # NoSweep =>
                    sweep[v] # NoSweep /\ sweep'[v].now = sweep[v].now
      <3>1. sweep[w] \in [now : Days, due : SUBSET Tests] /\ sweep[w] # NoSweep
        BY <2>2 DEF SweepSkip, TypeOK, NoSweep
      <3>2. QED
        BY <2>2, <3>1 DEF SweepSkip, TypeOK
    <2>3. CASE SweepEnd(w)
      BY <2>3 DEF SweepEnd, TypeOK
    <2>4. QED
      BY <2>1, <2>2, <2>3
  <1>3. QED
    BY <1>1, <1>2 DEF QuietStep

\* So is what people do, but recording a run by hand and editing a test.
LEMMA PeopleQuiet ==
    ASSUME TypeOK,
           \/ \E t \in Tests : Archive(t)
           \/ \E status \in ConnectorStatus : SetConnector(status)
           \/ \E i \in DOMAIN issues : CloseIssue(i)
    PROVE  QuietStep
  <1>1. UNCHANGED <<today, runs, signal, inflight, sweep>>
    BY DEF Archive, SetConnector, CloseIssue
  <1>2. \A u \in Tests : /\ test'[u].lastRunAt = test[u].lastRunAt
                         /\ test'[u].failingSince = test[u].failingSince
    <2>1. ASSUME NEW t \in Tests, Archive(t)
          PROVE  \A u \in Tests : /\ test'[u].lastRunAt = test[u].lastRunAt
                                  /\ test'[u].failingSince = test[u].failingSince
      <3>1. test[t] \in TestRow
        BY DEF TypeOK
      <3>2. test' = [test EXCEPT ![t] = [test[t] EXCEPT !.archived = TRUE]]
        BY <2>1 DEF Archive
      <3>3. /\ [test[t] EXCEPT !.archived = TRUE].lastRunAt = test[t].lastRunAt
            /\ [test[t] EXCEPT !.archived = TRUE].failingSince = test[t].failingSince
        BY <3>1 DEF TestRow
      <3>4. QED
        BY <3>2, <3>3 DEF TypeOK
    <2>2. QED
      BY <2>1 DEF SetConnector, CloseIssue
  <1>3. QED
    BY <1>1, <1>2 DEF QuietStep

\* Recording a run by hand moves none of the dates that monitoring keeps.
LEMMA ByHandWrites ==
    ASSUME TypeOK, NEW t \in Tests, NEW lag \in Lags, NEW result \in {"passed", "failed", "error"},
           RecordByHand(t, lag, result)
    PROVE  /\ \A u \in Tests : /\ test'[u].lastRunAt = test[u].lastRunAt
                               /\ test'[u].failingSince = test[u].failingSince
           /\ runs' = [runs EXCEPT ![t] =
                          Append(@, [day |-> today - lag, result |-> result, source |-> "manual"])]
           /\ [day |-> today - lag, result |-> result, source |-> "manual"] \in Run
           /\ UNCHANGED <<today, signal, inflight, sweep>>
  <1>1. test[t] \in TestRow
    BY DEF TypeOK
  <1>2. today - lag \in Days
    BY TestsAssumption, BoundsAssumption DEF RecordByHand, TypeOK, Days
  <1>3. [day |-> today - lag, result |-> result, source |-> "manual"] \in Run
    BY <1>2 DEF Run, Results, Sources
  <1>4. QED
    BY <1>1, <1>3 DEF RecordByHand, TypeOK, TestRow

\* The history only grows, by one run.
LEMMA HistoryGrows ==
    ASSUME TypeOK, NEW t \in Tests, NEW run \in Run,
           runs' = [runs EXCEPT ![t] = Append(@, run)]
    PROVE  /\ \A u \in Tests : u # t => runs'[u] = runs[u]
           /\ DOMAIN runs[t] = 1..Len(runs[t]) /\ Len(runs[t]) \in Nat
           /\ DOMAIN runs'[t] = 1..(Len(runs[t]) + 1)
           /\ Len(runs[t]) + 1 \in DOMAIN runs'[t]
           /\ \A n \in DOMAIN runs[t] : runs'[t][n] = runs[t][n]
           /\ runs'[t][Len(runs[t]) + 1] = run
  <1>1. runs[t] \in Seq(Run)
    BY DEF TypeOK
  <1>2. runs'[t] = Append(runs[t], run) /\ \A u \in Tests : u # t => runs'[u] = runs[u]
    BY DEF TypeOK
  <1>3. QED
    BY <1>1, <1>2

\* The run a handler records is a run.
LEMMA FinishRunRecords ==
    ASSUME TypeOK, NEW w \in Workers, NEW result \in Results, NEW unreachable \in BOOLEAN,
           FinishRun(w, result, unreachable)
    PROVE  [day |-> inflight[w].day, result |-> result, source |-> inflight[w].source] \in Run
  <1>1. inflight[w].op = "run"
    BY FinishRunWrites
  <1>2. QED
    BY <1>1, RunInFlight DEF Run

-----------------------------------------------------------------------------
(***************************************************************************)
(* The signal is witnessed by a failure                                    *)
(***************************************************************************)
\* NULL and the days on which a run failed.
WitnessedDays ==
    {NoDay} \cup {d \in Days : \E t \in Tests : \E n \in DOMAIN runs[t] :
                     /\ runs[t][n].day = d /\ runs[t][n].result = "failed"
                     /\ runs[t][n].source # "typed"}

\* Stale or fresh, every failing_since in sight was the day of a failure.
WitnessInv ==
    /\ TypeOK
    /\ signal \in WitnessedDays
    /\ \A t \in Tests : test[t].failingSince \in WitnessedDays
    /\ \A w \in Workers : inflight[w].op = "run" =>
          \A t \in Tests : inflight[w].rows[t].failingSince \in WitnessedDays

\* A day once witnessed remains so when a run is recorded.
LEMMA WitnessKept ==
    ASSUME TypeOK, NEW t \in Tests, NEW run \in Run,
           runs' = [runs EXCEPT ![t] = Append(@, run)]
    PROVE  WitnessedDays \subseteq WitnessedDays'
  <1>1. ASSUME NEW u \in Tests, NEW n \in DOMAIN runs[u]
        PROVE  n \in DOMAIN runs'[u] /\ runs'[u][n] = runs[u][n]
    BY HistoryGrows
  <1>2. QED
    BY <1>1 DEF WitnessedDays

\* A quiet step keeps the invariant.
LEMMA QuietWitness ==
    ASSUME WitnessInv, TypeOK', QuietStep
    PROVE  WitnessInv'
  <1>1. WitnessedDays' = WitnessedDays
    BY DEF QuietStep, WitnessedDays
  <1>2. QED
    BY <1>1 DEF QuietStep, WitnessInv

\* A run begun loads only witnessed days.
LEMMA LoadWitness ==
    ASSUME WitnessInv, TypeOK', NEW w \in Workers, NEW t \in Tests, NEW source, NEW d,
           LoadRun(w, t, source, d)
    PROVE  WitnessInv'
  <1>1. WitnessedDays' = WitnessedDays /\ UNCHANGED <<test, signal>>
    BY DEF LoadRun, WitnessedDays
  <1>2. ASSUME NEW v \in Workers, inflight'[v].op = "run", NEW u \in Tests
        PROVE  inflight'[v].rows[u].failingSince \in WitnessedDays
    <2>1. CASE v = w
      <3>1. inflight'[v].rows = test
        BY <2>1 DEF LoadRun, WitnessInv, TypeOK
      <3>2. QED
        BY <3>1 DEF WitnessInv
    <2>2. CASE v # w
      BY <1>2, <2>2 DEF LoadRun, WitnessInv, TypeOK
    <2>3. QED
      BY <2>1, <2>2
  <1>3. QED
    BY <1>1, <1>2 DEF WitnessInv

\* A run that ends starts a streak on its own day only if it failed.
LEMMA FinishRunWitness ==
    ASSUME WitnessInv, TypeOK', NEW w \in Workers, NEW result \in Results,
           NEW unreachable \in BOOLEAN, FinishRun(w, result, unreachable)
    PROVE  WitnessInv'
  <1> DEFINE h == inflight[w]
             row == Recorded(h, result)
             loaded == h.rows[h.on]
  <1>1. /\ TypeOK /\ h.op = "run" /\ h.on \in Tests /\ h.day \in Days
        /\ loaded \in TestRow /\ row \in TestRow
        /\ result \in {"passed", "failed", "error"}
        /\ Writes(w, result)
    BY FinishRunWrites, RunInFlight DEF WitnessInv
  <1>2. WitnessedDays \subseteq WitnessedDays'
    BY <1>1, FinishRunRecords, WitnessKept DEF Writes
  <1>3. loaded.failingSince \in WitnessedDays
    BY <1>1 DEF WitnessInv
  <1>4. row.failingSince \in WitnessedDays'
    <2>1. row.failingSince = RolledUp(loaded, h.day, result).failingSince
      BY <1>1, RecordedType
    <2>2. \/ row.failingSince \in {NoDay, loaded.failingSince}
          \/ row.failingSince = h.day /\ result = "failed"
      <3>1. /\ loaded \in TestRow /\ h.day \in Days
            /\ result \in {"passed", "failed", "error"}
        BY <1>1
      <3> HIDE DEF loaded, h, row
      <3>2. \/ RolledUp(loaded, h.day, result).failingSince \in {NoDay, loaded.failingSince}
            \/ RolledUp(loaded, h.day, result).failingSince = h.day /\ result = "failed"
        BY ONLY <3>1, RolledUpType
      <3>3. QED
        BY ONLY <2>1, <3>2
    <2>3. CASE row.failingSince \in {NoDay, loaded.failingSince}
      BY <1>2, <1>3, <2>3 DEF WitnessedDays
    <2>4. CASE row.failingSince = h.day /\ result = "failed"
      <3> DEFINE run == [day |-> h.day, result |-> result, source |-> h.source]
                 n == Len(runs[h.on]) + 1
      <3>1. run \in Run /\ runs' = [runs EXCEPT ![h.on] = Append(@, run)]
        BY <1>1, FinishRunRecords DEF Writes
      <3>2. n \in DOMAIN runs'[h.on] /\ runs'[h.on][n] = run
        <4> HIDE DEF run
        <4>1. QED
          BY <1>1, <3>1, HistoryGrows
      <3>3. /\ runs'[h.on][n].day = h.day /\ runs'[h.on][n].result = "failed"
            /\ runs'[h.on][n].source # "typed"
        BY <1>1, <2>4, <3>2, RunInFlight DEF Sources
      <3>4. QED
        BY <1>1, <2>4, <3>2, <3>3 DEF WitnessedDays
    <2>5. QED
      BY <2>2, <2>3, <2>4
  <1>5. \A t \in Tests : test'[t].failingSince \in WitnessedDays'
    <2>1. test[h.on] \in TestRow /\ test' = [test EXCEPT ![h.on] = Written(test[h.on], loaded, row)]
      BY <1>1 DEF TypeOK, Writes
    <2>2. Written(test[h.on], loaded, row).failingSince \in
             {row.failingSince, test[h.on].failingSince}
      BY <1>1, <2>1, WrittenType
    <2>3. QED
      BY <1>1, <1>2, <1>4, <2>1, <2>2 DEF WitnessInv, TypeOK
  <1>6. signal' \in WitnessedDays'
    <2>1. CASE signal' = signal
      BY <1>2, <2>1 DEF WitnessInv
    <2>2. CASE signal' = SignalOf(RowsRead(h, row))
      <3>1. RowsRead(h, row) \in [Tests -> TestRow]
        BY <1>1, RowsReadType
      <3>2. \/ signal' = NoDay
            \/ \E t \in Tests : signal' = RowsRead(h, row)[t].failingSince
        BY <2>2, <3>1, SignalIsOfATest
      <3>3. \A t \in Tests : RowsRead(h, row)[t].failingSince \in
                {row.failingSince, h.rows[t].failingSince, test[t].failingSince}
        BY <1>1, RowsReadType
      <3>4. \A t \in Tests : RowsRead(h, row)[t].failingSince \in WitnessedDays'
        BY <1>1, <1>2, <1>4, <3>3 DEF WitnessInv
      <3>5. QED
        BY <3>2, <3>4 DEF WitnessedDays
    <2>3. QED
      BY <1>1, <2>1, <2>2 DEF Writes
  <1>7. ASSUME NEW v \in Workers, inflight'[v].op = "run", NEW t \in Tests
        PROVE  inflight'[v].rows[t].failingSince \in WitnessedDays'
    <2>1. inflight'[v] = inflight[v]
      BY <1>1, <1>7 DEF Writes, Done, Idle, TypeOK
    <2>2. QED
      BY <1>2, <1>7, <2>1 DEF WitnessInv
  <1>8. QED
    BY <1>5, <1>6, <1>7 DEF WitnessInv

\* A run recorded by hand witnesses more, and moves no failing_since.
LEMMA ByHandWitness ==
    ASSUME WitnessInv, TypeOK', NEW t \in Tests, NEW lag \in Lags,
           NEW result \in {"passed", "failed", "error"}, RecordByHand(t, lag, result)
    PROVE  WitnessInv'
  <1>1. TypeOK
    BY DEF WitnessInv
  <1>2. /\ \A u \in Tests : test'[u].failingSince = test[u].failingSince
        /\ UNCHANGED <<signal, inflight>>
    BY <1>1, ByHandWrites
  <1>3. WitnessedDays \subseteq WitnessedDays'
    <2> DEFINE run == [day |-> today - lag, result |-> result, source |-> "manual"]
    <2>1. run \in Run /\ runs' = [runs EXCEPT ![t] = Append(@, run)]
      BY <1>1, ByHandWrites
    <2> HIDE DEF run
    <2>2. QED
      BY <1>1, <2>1, WitnessKept
  <1>4. QED
    BY <1>2, <1>3 DEF WitnessInv

\* What is typed over witnesses nothing, and moves no failing_since either.
LEMMA UpdateWitness ==
    ASSUME WitnessInv, TypeOK', NEW t \in Tests, NEW active \in BOOLEAN,
           NEW typed \in Typed \cup {Shown(t)}, UpdateTest(t, active, typed)
    PROVE  WitnessInv'
  <1>1. TypeOK
    BY DEF WitnessInv
  <1>2. /\ \A u \in Tests : test'[u].failingSince = test[u].failingSince
        /\ UNCHANGED <<signal, inflight>>
    BY <1>1, UpdateWrites
  <1>3. WitnessedDays \subseteq WitnessedDays'
    <2>1. CASE typed = Shown(t)
      <3>1. runs' = runs
        BY <1>1, <2>1, UpdateWrites
      <3>2. QED
        BY <3>1 DEF WitnessedDays
    <2>2. CASE typed # Shown(t)
      <3>1. TypedRun(typed) \in Run /\ runs' = [runs EXCEPT ![t] = Append(@, TypedRun(typed))]
        BY <1>1, <2>2, UpdateWrites
      <3>2. QED
        BY <1>1, <3>1, WitnessKept
    <2>3. QED
      BY <2>1, <2>2
  <1>4. QED
    BY <1>2, <1>3 DEF WitnessInv

\* Time passes over a history that stays.
LEMMA TomorrowWitness == WitnessInv /\ TypeOK' /\ Tomorrow => WitnessInv'
  <1> SUFFICES ASSUME WitnessInv, TypeOK', Tomorrow PROVE WitnessInv'
    OBVIOUS
  <1>1. UNCHANGED <<runs, test, signal, inflight>>
    BY DEF Tomorrow
  <1>2. WitnessedDays' = WitnessedDays
    BY <1>1 DEF WitnessedDays
  <1>3. QED
    BY <1>1, <1>2 DEF WitnessInv

\* Every step is quiet, begins a run, ends one, records one by hand, edits a test, or is
\* midnight.
LEMMA StepsOfMonitoring ==
    ASSUME TypeOK, [Next]_vars
    PROVE  \/ QuietStep
           \/ \E w \in Workers, result \in Results, unreachable \in BOOLEAN :
                 FinishRun(w, result, unreachable)
           \/ \E w \in Workers, t \in Tests :
                 RunNow(w, t) \/ \E lag \in Lags : Push(w, t, lag)
           \/ \E w \in Sweepers, t \in Tests : SweepRun(w, t)
           \/ \E t \in Tests, lag \in Lags, result \in {"passed", "failed", "error"} :
                 RecordByHand(t, lag, result)
           \/ \E t \in Tests, active \in BOOLEAN : \E typed \in Typed \cup {Shown(t)} :
                 UpdateTest(t, active, typed)
           \/ Tomorrow
  <1>1. CASE UNCHANGED vars
    BY <1>1 DEF vars, QuietStep
  <1>2. ASSUME NEW w \in Workers, (\E ok \in BOOLEAN : ProbeDone(w, ok)) \/ Rollback(w) \/ Probe(w) \/ Crash(w)
        PROVE  QuietStep
    BY <1>2, EndQuiet
  <1>3. ASSUME NEW w \in Sweepers, SweepList(w) \/ (\E t \in Tests : SweepSkip(w, t)) \/ SweepEnd(w)
        PROVE  QuietStep
    BY <1>3, SweepQuiet
  <1>4. CASE Next
    BY <1>2, <1>3, <1>4, PeopleQuiet DEF Next, Finish, SweepStep, People
  <1>5. QED
    BY <1>1, <1>4

\* Before anything has happened nothing is failing.
LEMMA InitWitness == Init => WitnessInv
  <1> SUFFICES ASSUME Init PROVE WitnessInv
    OBVIOUS
  <1>1. \A w \in Workers : inflight[w].op # "run"
    BY DEF Init, Idle
  <1>2. QED
    BY <1>1, InitType DEF Init, WitnessInv, WitnessedDays

\* Every step keeps the invariant.
LEMMA NextWitness == WitnessInv /\ [Next]_vars => WitnessInv'
  <1> SUFFICES ASSUME WitnessInv, [Next]_vars PROVE WitnessInv'
    OBVIOUS
  <1>1. TypeOK /\ TypeOK'
    BY NextType DEF WitnessInv
  <1>2. ASSUME NEW w \in Workers, NEW t \in Tests,
               RunNow(w, t) \/ \E lag \in Lags : Push(w, t, lag)
        PROVE  WitnessInv'
    BY <1>1, <1>2, LoadWitness DEF RunNow, Push
  <1>3. ASSUME NEW w \in Sweepers, NEW t \in Tests, SweepRun(w, t)
        PROVE  WitnessInv'
    BY <1>1, <1>3, LoadWitness, WorkersAssumption DEF SweepRun
  <1>4. QED
    BY <1>1, <1>2, <1>3, StepsOfMonitoring, QuietWitness, FinishRunWitness, ByHandWitness,
       UpdateWitness, TomorrowWitness

\* refresh_control_signal: however many runs overlap, and whatever stale rows the
\* signal is computed from, it never names a day on which no test failed.
THEOREM SignalIsWitnessed == Spec => []SignalWitnessed
  <1>1. Init => WitnessInv
    BY InitWitness
  <1>2. WitnessInv /\ [Next]_vars => WitnessInv'
    BY NextWitness
  <1>3. WitnessInv => SignalWitnessed
    BY DEF WitnessInv, WitnessedDays, SignalWitnessed
  <1>4. QED
    BY <1>1, <1>2, <1>3, PTL DEF Spec

-----------------------------------------------------------------------------
(***************************************************************************)
(* Scheduled runs of a test are a period apart                             *)
(***************************************************************************)
\* The days on which a scheduled run of the test was recorded.
ScheduledDays(t) == {runs[t][n].day : n \in {n \in DOMAIN runs[t] : runs[t][n].source = "scheduled"}}

\* A scheduled run in flight was due when its lock was taken, and still is a period
\* after those recorded; any other run is of today.
RunSound(w) ==
    LET h == inflight[w] IN
    /\ h.day <= today
    /\ h.source # "scheduled" => h.day = today
    /\ h.source = "scheduled" =>
          /\ h.rows[h.on].lastRunAt < h.day
          /\ \A d \in ScheduledDays(h.on) : d + Freq[h.on] <= h.day

\* The advisory lock: one scheduled run of a test at a time.
OneScheduled ==
    \A v, w \in Workers :
        /\ inflight[v].op = "run" /\ inflight[v].source = "scheduled"
        /\ inflight[w].op = "run" /\ inflight[w].source = "scheduled"
        /\ inflight[v].on = inflight[w].on
        => v = w

\* last_run_at never falls behind a scheduled run, nor is ahead of the clock.
ApartInv ==
    /\ TypeOK
    /\ ScheduledRunsApart
    /\ OneScheduled
    /\ \A t \in Tests : /\ test[t].lastRunAt <= today
                        /\ \A d \in ScheduledDays(t) : d <= test[t].lastRunAt
    /\ \A w \in Sweepers : sweep[w] # NoSweep => sweep[w].now <= today
    /\ \A w \in Workers : inflight[w].op = "run" => RunSound(w)

\* Before anything has happened no run is recorded.
LEMMA InitApart == Init => ApartInv
  <1> SUFFICES ASSUME Init PROVE ApartInv
    OBVIOUS
  <1>1. \A w \in Workers : inflight[w].op # "run"
    BY DEF Init, Idle
  <1>2. \A t \in Tests : DOMAIN runs[t] = {}
    BY DEF Init
  <1>3. \A t \in Tests : ScheduledDays(t) = {}
    BY <1>2 DEF ScheduledDays
  <1>4. \A t \in Tests : test[t].lastRunAt <= today
    BY BoundsAssumption DEF Init, NoDay, Days
  <1>5. QED
    BY <1>1, <1>2, <1>3, <1>4, InitType
       DEF Init, ApartInv, ScheduledRunsApart, OneScheduled

\* A quiet step keeps the invariant.
LEMMA QuietApart ==
    ASSUME ApartInv, TypeOK', QuietStep
    PROVE  ApartInv'
  <1>1. UNCHANGED <<runs, today>> /\ \A t \in Tests : ScheduledDays(t)' = ScheduledDays(t)
    BY DEF QuietStep, ScheduledDays
  <1>2. \A w \in Workers : inflight'[w].op = "run" => inflight'[w] = inflight[w]
    BY DEF QuietStep
  <1>3. ASSUME NEW w \in Workers, inflight'[w].op = "run"
        PROVE  RunSound(w)'
    <2>1. inflight'[w] = inflight[w] /\ inflight[w].op = "run"
      BY <1>2, <1>3
    <2>2. inflight[w].on \in Tests
      BY <2>1, RunInFlight DEF ApartInv
    <2>3. QED
      BY <1>1, <2>1, <2>2 DEF ApartInv, RunSound
  <1>4. OneScheduled'
    BY <1>2 DEF ApartInv, OneScheduled
  <1>5. ScheduledRunsApart'
    BY <1>1 DEF ApartInv, ScheduledRunsApart
  <1>6. \A t \in Tests : /\ test'[t].lastRunAt <= today'
                         /\ \A d \in ScheduledDays(t)' : d <= test'[t].lastRunAt
    BY <1>1 DEF QuietStep, ApartInv
  <1>7. \A w \in Sweepers : sweep'[w] # NoSweep => sweep'[w].now <= today'
    BY <1>1 DEF QuietStep, ApartInv, TypeOK, Days
  <1>8. QED
    BY <1>3, <1>4, <1>5, <1>6, <1>7 DEF ApartInv

\* A run begun, of whatever source, keeps it when it is sound and the lock was free.
LEMMA LoadApart ==
    ASSUME ApartInv, TypeOK', NEW w \in Workers, NEW t \in Tests, NEW source \in Sources,
           NEW d \in Days, LoadRun(w, t, source, d), d <= today,
           source # "scheduled" => d = today,
           source = "scheduled" =>
              /\ ~Locked(t) /\ test[t].lastRunAt < d
              /\ \A e \in ScheduledDays(t) : e + Freq[t] <= d,
           \A v \in Sweepers : sweep'[v] # NoSweep => sweep'[v].now <= today
    PROVE  ApartInv'
  <1>1. UNCHANGED <<runs, today, test>> /\ \A u \in Tests : ScheduledDays(u)' = ScheduledDays(u)
    BY DEF LoadRun, ScheduledDays
  <1>2. inflight'[w] = [op |-> "run", on |-> t, source |-> source, day |-> d,
                        rows |-> test, signal |-> signal, connector |-> connector]
    BY DEF LoadRun, ApartInv, TypeOK
  <1>3. \A v \in Workers : v # w => inflight'[v] = inflight[v]
    BY DEF LoadRun, ApartInv, TypeOK
  <1>4. RunSound(w)'
    BY <1>1, <1>2 DEF RunSound
  <1>5. ASSUME NEW v \in Workers, v # w, inflight'[v].op = "run"
        PROVE  RunSound(v)'
    <2>1. inflight'[v] = inflight[v] /\ inflight[v].on \in Tests
      BY <1>3, <1>5, RunInFlight DEF ApartInv
    <2>2. QED
      BY <1>1, <1>5, <2>1 DEF ApartInv, RunSound
  <1>6. OneScheduled'
    BY <1>2, <1>3 DEF ApartInv, OneScheduled, Locked
  <1>7. QED
    BY <1>1, <1>4, <1>5, <1>6 DEF ApartInv, ScheduledRunsApart

\* A run recorded adds its day if it was scheduled.
LEMMA ScheduledGrows ==
    ASSUME TypeOK, NEW t \in Tests, NEW run \in Run,
           runs' = [runs EXCEPT ![t] = Append(@, run)]
    PROVE  /\ \A u \in Tests : u # t => ScheduledDays(u)' = ScheduledDays(u)
           /\ \A d \in ScheduledDays(t)' :
                 d \in ScheduledDays(t) \/ (run.source = "scheduled" /\ d = run.day)
  <1>1. /\ \A u \in Tests : u # t => runs'[u] = runs[u]
        /\ \A n \in DOMAIN runs'[t] : n \in DOMAIN runs[t] \/ n = Len(runs[t]) + 1
        /\ \A n \in DOMAIN runs[t] : runs'[t][n] = runs[t][n]
        /\ runs'[t][Len(runs[t]) + 1] = run
    <2>1. /\ DOMAIN runs[t] = 1..Len(runs[t]) /\ Len(runs[t]) \in Nat
          /\ DOMAIN runs'[t] = 1..(Len(runs[t]) + 1)
      BY HistoryGrows
    <2>2. \A n \in DOMAIN runs'[t] : n \in DOMAIN runs[t] \/ n = Len(runs[t]) + 1
      BY <2>1
    <2>3. QED
      BY <2>2, HistoryGrows
  <1>2. QED
    BY <1>1 DEF ScheduledDays

\* The history stays a period apart when the run recorded is.
LEMMA ApartGrows ==
    ASSUME TypeOK, ScheduledRunsApart, NEW t \in Tests, NEW run \in Run,
           runs' = [runs EXCEPT ![t] = Append(@, run)],
           run.source = "scheduled" => \A d \in ScheduledDays(t) : d + Freq[t] <= run.day
    PROVE  ScheduledRunsApart'
  <1> SUFFICES ASSUME NEW u \in Tests, NEW m \in DOMAIN runs'[u], NEW n \in DOMAIN runs'[u],
                      m < n, runs'[u][m].source = "scheduled", runs'[u][n].source = "scheduled"
               PROVE  runs'[u][n].day >= runs'[u][m].day + Freq[u]
    BY DEF ScheduledRunsApart
  <1>1. CASE u # t
    <2>1. runs'[u] = runs[u]
      BY <1>1, HistoryGrows
    <2>2. QED
      BY <2>1 DEF ScheduledRunsApart
  <1>2. CASE u = t
    <2>1. /\ DOMAIN runs[t] = 1..Len(runs[t]) /\ Len(runs[t]) \in Nat
          /\ DOMAIN runs'[t] = 1..(Len(runs[t]) + 1)
          /\ \A k \in DOMAIN runs[t] : runs'[t][k] = runs[t][k]
          /\ runs'[t][Len(runs[t]) + 1] = run
      BY HistoryGrows
    <2>2. m \in DOMAIN runs[t] /\ runs'[t][m] = runs[t][m]
      BY <1>2, <2>1
    <2>3. CASE n \in DOMAIN runs[t]
      BY <1>2, <2>1, <2>2, <2>3 DEF ScheduledRunsApart
    <2>4. CASE n \notin DOMAIN runs[t]
      <3>1. n = Len(runs[t]) + 1
        BY <1>2, <2>1, <2>4
      <3>2. run.source = "scheduled" /\ runs[t][m].day \in ScheduledDays(t)
        BY <1>2, <2>1, <2>2, <3>1 DEF ScheduledDays
      <3>3. runs[t][m].day + Freq[t] <= run.day
        BY <3>2
      <3>4. runs[t][m] \in Run
        BY <2>1, <2>2, ElementOfSeq DEF TypeOK
      <3>5. runs[t][m].day \in Nat /\ run.day \in Nat /\ Freq[t] \in Nat
        BY <3>4, DaysAreNat, TestsAssumption DEF Run
      <3>6. QED
        BY <1>2, <2>1, <2>2, <3>1, <3>3, <3>5
    <2>5. QED
      BY <2>3, <2>4
  <1>3. QED
    BY <1>1, <1>2

\* A run that ends advances last_run_at to its day, or leaves it where it is.
LEMMA FinishRunDates ==
    ASSUME ApartInv, NEW w \in Workers, NEW result \in Results,
           NEW unreachable \in BOOLEAN, FinishRun(w, result, unreachable)
    PROVE  /\ test'[inflight[w].on].lastRunAt \in {inflight[w].day, test[inflight[w].on].lastRunAt}
           /\ inflight[w].source = "scheduled" => test'[inflight[w].on].lastRunAt = inflight[w].day
           /\ \A t \in Tests \ {inflight[w].on} : test'[t] = test[t]
  <1> DEFINE h == inflight[w]
             row == Recorded(h, result)
             loaded == h.rows[h.on]
  <1>1. /\ TypeOK /\ h.op = "run" /\ h.on \in Tests /\ h.day \in Days
        /\ loaded \in TestRow /\ row \in TestRow
        /\ result \in {"passed", "failed", "error"}
        /\ Writes(w, result)
    BY FinishRunWrites, RunInFlight DEF ApartInv
  <1>2. row.lastRunAt = IF h.day >= loaded.lastRunAt THEN h.day ELSE loaded.lastRunAt
    <2>1. row.lastRunAt = RolledUp(loaded, h.day, result).lastRunAt
      BY <1>1, RecordedType
    <2>2. QED
      BY <1>1, <2>1, RolledUpType
  <1>3. test[h.on] \in TestRow /\ test' = [test EXCEPT ![h.on] = Written(test[h.on], loaded, row)]
    BY <1>1 DEF TypeOK, Writes
  <1>4. test'[h.on].lastRunAt = IF row.lastRunAt # loaded.lastRunAt THEN row.lastRunAt
                                ELSE test[h.on].lastRunAt
    <2>1. Written(test[h.on], loaded, row).lastRunAt =
             IF row.lastRunAt # loaded.lastRunAt THEN row.lastRunAt ELSE test[h.on].lastRunAt
      BY <1>1, <1>3, WrittenType
    <2>2. test'[h.on] = Written(test[h.on], loaded, row)
      BY <1>1, <1>3 DEF TypeOK
    <2>3. QED
      BY <2>1, <2>2
  <1>5. h.source = "scheduled" => loaded.lastRunAt < h.day
    BY <1>1 DEF ApartInv, RunSound
  <1>6. loaded.lastRunAt \in Nat /\ h.day \in Nat
    BY <1>1, BoundsAssumption, DaysAreNat DEF TestRow
  <1>7. \A t \in Tests \ {h.on} : test'[t] = test[t]
    BY <1>1, <1>3 DEF TypeOK
  <1>8. QED
    BY <1>2, <1>4, <1>5, <1>6, <1>7

\* A run that ends keeps the invariant: nobody else holds its lock.
LEMMA FinishRunApart ==
    ASSUME ApartInv, TypeOK', NEW w \in Workers, NEW result \in Results,
           NEW unreachable \in BOOLEAN, FinishRun(w, result, unreachable)
    PROVE  ApartInv'
  <1> DEFINE h == inflight[w]
             run == [day |-> h.day, result |-> result, source |-> h.source]
  <1>1. /\ TypeOK /\ h.op = "run" /\ h.on \in Tests /\ h.day \in Days
        /\ Writes(w, result) /\ run \in Run /\ RunSound(w)
    BY FinishRunWrites, FinishRunRecords, RunInFlight DEF ApartInv
  <1>2. /\ runs' = [runs EXCEPT ![h.on] = Append(@, run)]
        /\ UNCHANGED <<today, sweep>>
        /\ \A v \in Workers : inflight'[v].op = "run" => v # w /\ inflight'[v] = inflight[v]
    BY <1>1 DEF Writes, Done, Idle, TypeOK
  <1>3. run.source = h.source /\ run.day = h.day
    OBVIOUS
  <1> HIDE DEF run
  <1>4. ASSUME NEW t \in Tests
        PROVE  /\ t # h.on => ScheduledDays(t)' = ScheduledDays(t)
               /\ t = h.on => \A d \in ScheduledDays(t)' :
                     d \in ScheduledDays(t) \/ (h.source = "scheduled" /\ d = h.day)
    <2>1. CASE t = h.on
      BY <1>1, <1>2, <1>3, <2>1, ScheduledGrows
    <2>2. CASE t # h.on
      <3>1. runs'[t] = runs[t]
        BY <1>1, <1>2, <2>2, HistoryGrows
      <3>2. QED
        BY <2>2, <3>1 DEF ScheduledDays
    <2>3. QED
      BY <2>1, <2>2
  <1>5. ScheduledRunsApart'
    BY <1>1, <1>2, <1>3, ApartGrows DEF ApartInv, RunSound
  <1>6. OneScheduled'
    BY <1>2 DEF ApartInv, OneScheduled
  <1>7. \A v \in Workers : inflight'[v].op = "run" => RunSound(v)'
    <2> SUFFICES ASSUME NEW v \in Workers, inflight'[v].op = "run"
                 PROVE  RunSound(v)'
      OBVIOUS
    <2>1. v # w /\ inflight'[v] = inflight[v] /\ inflight[v].op = "run" /\ inflight[v].on \in Tests
      BY <1>1, <1>2, RunInFlight
    <2>2. RunSound(v)
      BY <2>1 DEF ApartInv
    <2>3. PICK t \in Tests : t = inflight[v].on
      BY <2>1
    <2>4. inflight[v].source = "scheduled" => ScheduledDays(t)' \subseteq ScheduledDays(t)
      <3>1. ~(inflight[v].source = "scheduled" /\ h.source = "scheduled" /\ t = h.on)
        BY <1>1, <2>1, <2>3 DEF ApartInv, OneScheduled
      <3>2. QED
        BY <1>4, <3>1
    <2>5. QED
      BY <1>2, <2>1, <2>2, <2>3, <2>4 DEF RunSound
  <1>8. ASSUME NEW t \in Tests
        PROVE  /\ test'[t].lastRunAt <= today'
               /\ \A d \in ScheduledDays(t)' : d <= test'[t].lastRunAt
    <2>1. /\ test[t].lastRunAt <= today /\ \A d \in ScheduledDays(t) : d <= test[t].lastRunAt
      BY DEF ApartInv
    <2>2. CASE t # h.on
      BY <1>2, <1>4, <2>1, <2>2, FinishRunDates
    <2>3. CASE t = h.on
      <3>1. /\ test'[t].lastRunAt \in {h.day, test[t].lastRunAt}
            /\ h.source = "scheduled" => test'[t].lastRunAt = h.day
        BY <2>3, FinishRunDates
      <3>2. h.day <= today /\ today' = today
        BY <1>1, <1>2 DEF RunSound
      <3>3. test[t].lastRunAt \in Nat /\ h.day \in Nat /\ today \in Nat /\ Freq[t] \in Nat
        <4>1. test[t] \in TestRow /\ today \in Days
          BY <1>1 DEF TypeOK
        <4>2. test[t].lastRunAt \in Nat
          BY <4>1, BoundsAssumption DEF TestRow
        <4>3. QED
          BY <1>1, <4>1, <4>2, DaysAreNat, TestsAssumption
      <3>4. \A d \in ScheduledDays(t) : d \in Nat
        <4>1. runs[t] \in Seq(Run)
          BY <1>1 DEF TypeOK
        <4>2. \A n \in DOMAIN runs[t] : runs[t][n] \in Run
          BY <4>1, ElementOfSeq
        <4>3. QED
          BY <4>2, DaysAreNat DEF ScheduledDays, Run
      <3>5. ASSUME NEW d \in ScheduledDays(t)'
            PROVE  d <= test'[t].lastRunAt
        <4>1. CASE h.source = "scheduled"
          <5>1. \A e \in ScheduledDays(t) : e + Freq[t] <= h.day
            BY <1>1, <2>3, <4>1 DEF RunSound
          <5>2. d \in ScheduledDays(t) \/ d = h.day
            BY <1>4, <2>3
          <5>3. QED
            BY <3>1, <3>3, <3>4, <4>1, <5>1, <5>2
        <4>2. CASE h.source # "scheduled"
          <5>1. d \in ScheduledDays(t) /\ h.day = today
            BY <1>1, <1>4, <2>3, <4>2 DEF RunSound
          <5>2. QED
            BY <2>1, <3>1, <3>3, <3>4, <5>1
        <4>3. QED
          BY <4>1, <4>2
      <3>6. QED
        BY <2>1, <3>1, <3>2, <3>5
    <2>4. QED
      BY <2>2, <2>3
  <1>9. QED
    BY <1>2, <1>5, <1>6, <1>7, <1>8 DEF ApartInv

\* A run of today begun by a person or a feed keeps the invariant.
LEMMA RunNowOrPushApart ==
    ASSUME Lags \subseteq {0}, ApartInv, TypeOK', NEW w \in Workers, NEW t \in Tests,
           RunNow(w, t) \/ \E lag \in Lags : Push(w, t, lag)
    PROVE  ApartInv'
  <1>1. today \in Days /\ today - 0 = today /\ "run_now" \in Sources /\ "push" \in Sources
    BY BoundsAssumption DEF ApartInv, TypeOK, Days, Sources
  <1>2. LoadRun(w, t, "run_now", today) \/ LoadRun(w, t, "push", today)
    BY <1>1 DEF RunNow, Push
  <1>3. UNCHANGED sweep
    BY DEF RunNow, Push
  <1>4. \A v \in Sweepers : sweep'[v] # NoSweep => sweep'[v].now <= today
    BY <1>3 DEF ApartInv
  <1>5. today <= today
    BY <1>1, DaysAreNat
  <1>6. QED
    BY <1>1, <1>2, <1>4, <1>5, LoadApart

\* A sweep takes the free lock of a test and finds it due still: the run it begins is
\* a period after the last.
LEMMA SweepRunApart ==
    ASSUME ApartInv, TypeOK', NEW w \in Sweepers, NEW t \in Tests, SweepRun(w, t)
    PROVE  ApartInv'
  <1> DEFINE now == sweep[w].now
  <1>1. w \in Workers /\ "scheduled" \in Sources
    BY WorkersAssumption DEF Sources
  <1>2. sweep[w] # NoSweep /\ sweep[w] \in [now : Days, due : SUBSET Tests]
    BY DEF SweepRun, NoSweep, ApartInv, TypeOK
  <1>3. now \in Days /\ now \in Nat /\ now # NoDay /\ now > 0 /\ now <= today
    <2>1. now \in Days
      BY <1>2
    <2>2. now \in Nat \ {0}
      BY <2>1, DaysAreNat
    <2>3. now <= today
      BY <1>2 DEF ApartInv
    <2>4. QED
      BY <2>1, <2>2, <2>3 DEF NoDay
  <1>4. LoadRun(w, t, "scheduled", now) /\ ~Locked(t) /\ IsDue(t, test[t], now)
    BY DEF SweepRun, StillDue
  <1>5. test[t] \in TestRow /\ test[t].lastRunAt \in Nat /\ Freq[t] \in Nat /\ Freq[t] > 0
    BY BoundsAssumption, TestsAssumption DEF ApartInv, TypeOK, TestRow
  <1>6. test[t].lastRunAt < now
    BY <1>3, <1>4, <1>5 DEF IsDue, NoDay
  <1>7. ASSUME NEW d \in ScheduledDays(t)
        PROVE  d + Freq[t] <= now
    <2>1. d <= test[t].lastRunAt
      BY DEF ApartInv
    <2>2. d \in Nat /\ d > 0
      <3>1. runs[t] \in Seq(Run)
        BY DEF ApartInv, TypeOK
      <3>2. \A n \in DOMAIN runs[t] : runs[t][n] \in Run
        BY <3>1, ElementOfSeq
      <3>3. d \in Days
        BY <3>2 DEF ScheduledDays, Run
      <3>4. d \in Nat \ {0}
        BY <3>3, DaysAreNat
      <3>5. QED
        BY <3>4
    <2>3. now >= test[t].lastRunAt + Freq[t]
      BY <1>4, <1>5, <2>1, <2>2 DEF IsDue, NoDay
    <2>4. QED
      BY <1>3, <1>5, <2>1, <2>2, <2>3
  <1>8. \A v \in Sweepers : sweep'[v] # NoSweep => sweep'[v].now <= today
    <2>1. sweep' = [sweep EXCEPT ![w] = [sweep[w] EXCEPT !.due = @ \ {t}]]
      BY DEF SweepRun
    <2>2. [sweep[w] EXCEPT !.due = @ \ {t}].now = now
      BY <1>2
    <2>3. QED
      BY <1>3, <2>1, <2>2 DEF ApartInv, TypeOK
  <1>9. QED
    BY <1>1, <1>3, <1>4, <1>6, <1>7, <1>8, LoadApart

\* What is entered in the history, not being a scheduled run, keeps it.
LEMMA EnteredApart ==
    ASSUME ApartInv, TypeOK', NEW t \in Tests, NEW run \in Run, run.source # "scheduled",
           runs' = [runs EXCEPT ![t] = Append(@, run)],
           \A u \in Tests : test'[u].lastRunAt = test[u].lastRunAt,
           UNCHANGED <<today, inflight, sweep>>
    PROVE  ApartInv'
  <1>1. TypeOK
    BY DEF ApartInv
  <1>2. /\ run \in Run /\ run.source # "scheduled"
        /\ runs' = [runs EXCEPT ![t] = Append(@, run)]
        /\ \A u \in Tests : test'[u].lastRunAt = test[u].lastRunAt
        /\ UNCHANGED <<today, inflight, sweep>>
    OBVIOUS
  <1>3. ScheduledRunsApart'
    BY <1>1, <1>2, ApartGrows DEF ApartInv
  <1>4. \A u \in Tests : ScheduledDays(u)' \subseteq ScheduledDays(u)
    BY <1>1, <1>2, ScheduledGrows
  <1>5. ASSUME NEW v \in Workers, inflight'[v].op = "run"
        PROVE  RunSound(v)'
    <2>1. inflight'[v] = inflight[v] /\ RunSound(v) /\ inflight[v].on \in Tests
      BY <1>1, <1>2, <1>5, RunInFlight DEF ApartInv
    <2>2. PICK u \in Tests : u = inflight[v].on
      BY <2>1
    <2>3. ScheduledDays(u)' \subseteq ScheduledDays(u)
      BY <1>4
    <2>4. QED
      BY <1>2, <2>1, <2>2, <2>3 DEF RunSound
  <1>6. QED
    BY <1>2, <1>3, <1>4, <1>5 DEF ApartInv, OneScheduled

\* A run recorded by hand is no scheduled one.
LEMMA ByHandApart ==
    ASSUME ApartInv, TypeOK', NEW t \in Tests, NEW lag \in Lags,
           NEW result \in {"passed", "failed", "error"}, RecordByHand(t, lag, result)
    PROVE  ApartInv'
  <1> DEFINE run == [day |-> today - lag, result |-> result, source |-> "manual"]
  <1>1. /\ run \in Run /\ run.source # "scheduled"
        /\ runs' = [runs EXCEPT ![t] = Append(@, run)]
        /\ \A u \in Tests : test'[u].lastRunAt = test[u].lastRunAt
        /\ UNCHANGED <<today, inflight, sweep>>
    BY ByHandWrites DEF ApartInv
  <1> HIDE DEF run
  <1>2. QED
    BY <1>1, EnteredApart

\* Nor is what is typed over.
LEMMA UpdateApart ==
    ASSUME ApartInv, TypeOK', NEW t \in Tests, NEW active \in BOOLEAN,
           NEW typed \in Typed \cup {Shown(t)}, UpdateTest(t, active, typed)
    PROVE  ApartInv'
  <1>1. TypeOK
    BY DEF ApartInv
  <1>2. /\ \A u \in Tests : /\ test'[u].lastRunAt = test[u].lastRunAt
                            /\ test'[u].failingSince = test[u].failingSince
        /\ UNCHANGED <<today, signal, inflight, sweep>>
    BY <1>1, UpdateWrites
  <1>3. CASE typed = Shown(t)
    <2>1. runs' = runs
      BY <1>1, <1>3, UpdateWrites
    <2>2. QuietStep
      BY <1>2, <2>1 DEF QuietStep
    <2>3. QED
      BY <2>2, QuietApart
  <1>4. CASE typed # Shown(t)
    <2>1. TypedRun(typed) \in Run /\ runs' = [runs EXCEPT ![t] = Append(@, TypedRun(typed))]
      BY <1>1, <1>4, UpdateWrites
    <2>2. TypedRun(typed).source # "scheduled"
      BY DEF TypedRun
    <2>3. QED
      BY <1>2, <2>1, <2>2, EnteredApart
  <1>5. QED
    BY <1>3, <1>4

\* Midnight finds no run in flight.
LEMMA TomorrowApart == ApartInv /\ TypeOK' /\ Tomorrow => ApartInv'
  <1> SUFFICES ASSUME ApartInv, TypeOK', Tomorrow PROVE ApartInv'
    OBVIOUS
  <1>1. UNCHANGED <<test, runs, sweep, inflight>> /\ today' = today + 1
    BY DEF Tomorrow
  <1>2. \A w \in Workers : inflight'[w].op # "run"
    BY DEF Tomorrow, Idle
  <1>3. \A t \in Tests : ScheduledDays(t)' = ScheduledDays(t)
    BY <1>1 DEF ScheduledDays
  <1>4. today \in Nat /\ \A t \in Tests : test[t].lastRunAt \in Nat
    BY DaysAreNat, BoundsAssumption DEF ApartInv, TypeOK, TestRow
  <1>5. \A t \in Tests : test'[t].lastRunAt <= today'
    BY <1>1, <1>4 DEF ApartInv
  <1>6. \A w \in Sweepers : sweep'[w] # NoSweep => sweep'[w].now <= today'
    <2>1. \A w \in Sweepers : sweep[w] # NoSweep => sweep[w].now \in Nat
      BY DaysAreNat DEF ApartInv, TypeOK
    <2>2. QED
      BY <1>1, <1>4, <2>1 DEF ApartInv
  <1>7. QED
    BY <1>1, <1>2, <1>3, <1>5, <1>6 DEF ApartInv, ScheduledRunsApart, OneScheduled

\* Every step keeps the invariant, when feeds push the results of the day.
LEMMA NextApart ==
    ASSUME Lags \subseteq {0}, ApartInv, [Next]_vars
    PROVE  ApartInv'
  <1>1. TypeOK /\ TypeOK'
    BY NextType DEF ApartInv
  <1>2. QED
    BY <1>1, StepsOfMonitoring, QuietApart, FinishRunApart, RunNowOrPushApart, SweepRunApart,
       ByHandApart, UpdateApart, TomorrowApart

\* run_due_for_tenant: with any number of sweeps and runs at once, crashes and stale
\* lists, no test is scheduled twice within its period - provided feeds push the results
\* of the day (an older one that overlaps a scheduled run may set last_run_at back).
THEOREM ScheduledRunsAPeriodApart ==
    ASSUME Lags \subseteq {0}
    PROVE  Spec => []ScheduledRunsApart
  <1>1. Init => ApartInv
    BY InitApart
  <1>2. ApartInv /\ [Next]_vars => ApartInv'
    BY NextApart
  <1>3. ApartInv => ScheduledRunsApart
    BY DEF ApartInv
  <1>4. QED
    BY <1>1, <1>2, <1>3, PTL DEF Spec

-----------------------------------------------------------------------------
(***************************************************************************)
(* One handler at a time: what a test shows is what its runs say           *)
(*                                                                         *)
(* A row is rolled up from the row before and the run recorded, never from *)
(* the history; Matches relates the two.  It is kept by a run that ends    *)
(* only because the row it loaded is still the row of the table, which two *)
(* handlers in flight do not guarantee: hence OneHandler.                  *)
(***************************************************************************)
OneHandler == \A v, w \in Workers : v = w

\* Latest, Observed, Streak and StreakStart, of any history.
BeforeIn(s, n) == {m \in DOMAIN s :
                      /\ m < n
                      /\ \A k \in DOMAIN s : m < k /\ k <= n => s[k].source # "typed"}
LatestThenIn(s, n) == \A m \in BeforeIn(s, n) : s[m].day <= s[n].day
LatestIn(s, n) ==
    /\ n \in DOMAIN s
    /\ LatestThenIn(s, n)
    /\ \A m \in DOMAIN s : m > n => n \in BeforeIn(s, m) /\ s[m].day < s[n].day
ObservedIn(s) == {n \in DOMAIN s : s[n].source \notin {"manual", "typed"} /\ LatestThenIn(s, n)}
StreakIn(s) == {n \in ObservedIn(s) : /\ s[n].result = "failed"
                                      /\ \A m \in ObservedIn(s) : m > n => s[m].result # "passed"}
StartIn(s) == IF StreakIn(s) = {} THEN NoDay ELSE s[Min(StreakIn(s))].day

\* What counts still: the results since the last that was typed over, and that one.
SinceIn(s) == {m \in DOMAIN s : \A k \in DOMAIN s : m < k => s[k].source # "typed"}

\* A result comes to be shown when it is typed over, or is none older than the one shown.
TakesOver(row, run) == run.source = "typed" \/ Advances(row, run.day)

\* What row shows is what history s says.
Shows(row, s) ==
    /\ s = <<>> => row.lastRun = NoDay /\ row.lastResult = "not_run"
    /\ s # <<>> => \E n \in DOMAIN s : /\ LatestIn(s, n)
                                       /\ row.lastRun = s[n].day
                                       /\ row.lastResult = s[n].result
    /\ row.failingSince = StartIn(s)

ShowsInv ==
    /\ TypeOK
    /\ \A t \in Tests : Shows(test[t], runs[t])
    /\ \A t \in Tests : test[t].issue # 0 =>
          test[t].issue \in DOMAIN issues /\ issues[test[t].issue].on = t
    /\ \A w \in Workers : inflight[w].op = "run" =>
          /\ inflight[w].source \notin {"manual", "typed"}
          /\ inflight[w].rows = test
          /\ inflight[w].signal = signal

\* A result of the history has a day, a run that of a day that was.
LEMMA RunDays == \A r \in Run : r.day \in Nat /\ (r.source # "typed" => r.day # 0)
  <1> SUFFICES ASSUME NEW r \in Run PROVE r.day \in Nat /\ (r.source # "typed" => r.day # 0)
    OBVIOUS
  <1>1. CASE r \in [day : Days, result : Results, source : Sources]
    <2>1. r.day \in Days
      BY <1>1
    <2>2. QED
      BY <2>1, DaysAreNat
  <1>2. CASE r \in [day : 0..MaxDay, result : Results, source : {"typed"}]
    <2>1. r.day \in 0..MaxDay /\ r.source = "typed"
      BY <1>2
    <2>2. QED
      BY <2>1
  <1>3. QED
    BY <1>1, <1>2 DEF Run

\* What appending a run does to a history.
LEMMA AppendedRun ==
    ASSUME NEW s \in Seq(Run), NEW run \in Run, NEW new, new = Append(s, run)
    PROVE  /\ Len(s) \in Nat /\ DOMAIN s = 1..Len(s) /\ DOMAIN new = 1..(Len(s) + 1)
           /\ \A n \in DOMAIN s : new[n] = s[n] /\ n < Len(s) + 1 /\ n \in Nat /\ n \in DOMAIN new
           /\ \A n \in DOMAIN new : n \in DOMAIN s \/ n = Len(s) + 1
           /\ new[Len(s) + 1] = run /\ new # <<>>
           /\ Len(s) + 1 \in DOMAIN new /\ Len(s) + 1 \notin DOMAIN s /\ Len(new) = Len(s) + 1
           /\ \A n \in DOMAIN s : s[n].day \in Nat /\ (s[n].source # "typed" => s[n].day # 0)
           /\ run.day \in Nat /\ (run.source # "typed" => run.day # 0)
           /\ s = <<>> <=> DOMAIN s = {}
  <1>1. Len(s) \in Nat /\ DOMAIN s = 1..Len(s) /\ \A n \in DOMAIN s : s[n] \in Run
    BY LenProperties, ElementOfSeq
  <1>2. Len(new) = Len(s) + 1 /\ new \in Seq(Run) /\ new # <<>>
    BY AppendProperties
  <1>3. DOMAIN new = 1..(Len(s) + 1)
    BY <1>2, LenProperties
  <1>4. \A n \in DOMAIN s : new[n] = s[n] /\ n < Len(s) + 1 /\ n \in Nat /\ n \in DOMAIN new
    BY <1>1, <1>3, AppendProperties
  <1>5. new[Len(s) + 1] = run
    BY AppendProperties
  <1>6. s = <<>> <=> DOMAIN s = {}
    BY <1>1
  <1>7. \A r \in Run : r.day \in Nat /\ (r.source # "typed" => r.day # 0)
    BY RunDays
  <1>8. QED
    BY <1>1, <1>2, <1>3, <1>4, <1>5, <1>6, <1>7

\* What is appended is measured against what counts still, and changes nothing for the rest.
LEMMA BeforeAppended ==
    ASSUME NEW s \in Seq(Run), NEW run \in Run, NEW new, new = Append(s, run)
    PROVE  /\ \A n \in DOMAIN s : BeforeIn(new, n) = BeforeIn(s, n)
           /\ BeforeIn(new, Len(s) + 1) = IF run.source = "typed" THEN {} ELSE SinceIn(s)
           /\ \A n \in DOMAIN s : LatestThenIn(new, n) <=> LatestThenIn(s, n)
  <1>1. /\ Len(s) \in Nat /\ DOMAIN s = 1..Len(s) /\ DOMAIN new = 1..(Len(s) + 1)
        /\ \A n \in DOMAIN s : new[n] = s[n]
        /\ new[Len(s) + 1] = run
    BY AppendedRun
  <1>2. ASSUME NEW n \in DOMAIN s
        PROVE  BeforeIn(new, n) = BeforeIn(s, n)
    <2>1. \A m \in DOMAIN new : m <= n => m \in DOMAIN s
      BY <1>1
    <2>2. DOMAIN s \subseteq DOMAIN new /\ \A m \in DOMAIN new : m < n => m <= n
      BY <1>1
    <2>3. QED
      BY <1>1, <2>1, <2>2 DEF BeforeIn
  <1>3. CASE run.source = "typed"
    <2>1. \A m \in DOMAIN new : m < Len(s) + 1 =>
             Len(s) + 1 \in DOMAIN new /\ Len(s) + 1 <= Len(s) + 1
      BY <1>1
    <2>2. BeforeIn(new, Len(s) + 1) = {}
      BY <1>1, <1>3, <2>1 DEF BeforeIn
    <2>3. QED
      BY <1>1, <1>2, <1>3, <2>2 DEF LatestThenIn, BeforeIn
  <1>4. CASE run.source # "typed"
    <2>1. \A m \in DOMAIN new : m < Len(s) + 1 <=> m \in DOMAIN s
      BY <1>1
    <2>2. \A k \in DOMAIN new : k \in DOMAIN s \/ k = Len(s) + 1
      BY <1>1
    <2>3. \A k \in DOMAIN s : k \in DOMAIN new /\ k <= Len(s) + 1
      BY <1>1
    <2>4. BeforeIn(new, Len(s) + 1) = SinceIn(s)
      BY <1>1, <1>4, <2>1, <2>2, <2>3 DEF BeforeIn, SinceIn
    <2>5. QED
      BY <1>1, <1>2, <1>4, <2>4 DEF LatestThenIn, BeforeIn
  <1>5. QED
    BY <1>3, <1>4

\* The latest counts still, and no result that does is of a later day.
LEMMA LatestCounts ==
    ASSUME NEW s \in Seq(Run), NEW n, LatestIn(s, n)
    PROVE  n \in SinceIn(s) /\ \A m \in SinceIn(s) : s[m].day <= s[n].day
  <1>1. /\ DOMAIN s = 1..Len(s) /\ Len(s) \in Nat
        /\ \A m \in DOMAIN s : s[m].day \in Nat
    <2>1. DOMAIN s = 1..Len(s) /\ Len(s) \in Nat /\ \A m \in DOMAIN s : s[m] \in Run
      BY LenProperties, ElementOfSeq
    <2>2. \A r \in Run : r.day \in Nat
      BY RunDays
    <2>3. QED
      BY <2>1, <2>2
  <1>2. n \in DOMAIN s /\ \A m \in DOMAIN s : m > n => n \in BeforeIn(s, m) /\ s[m].day < s[n].day
    BY DEF LatestIn
  <1>3. ASSUME NEW k \in DOMAIN s, n < k
        PROVE  s[k].source # "typed"
    <2>1. n \in BeforeIn(s, k) /\ k <= k
      BY <1>1, <1>2, <1>3
    <2>2. QED
      BY <1>3, <2>1 DEF BeforeIn
  <1>4. ASSUME NEW m \in SinceIn(s)
        PROVE  s[m].day <= s[n].day
    <2>1. m \in DOMAIN s /\ \A k \in DOMAIN s : m < k => s[k].source # "typed"
      BY DEF SinceIn
    <2>2. CASE m < n
      <3>1. m \in BeforeIn(s, n)
        BY <2>1, <2>2 DEF BeforeIn
      <3>2. QED
        BY <3>1 DEF LatestIn, LatestThenIn
    <2>3. CASE m > n
      BY <1>1, <1>2, <2>1, <2>3
    <2>4. CASE m = n
      BY <1>1, <2>1, <2>4
    <2>5. QED
      BY <1>1, <1>2, <2>1, <2>2, <2>3, <2>4
  <1>5. QED
    BY <1>2, <1>3, <1>4 DEF SinceIn

\* What is appended takes over from the latest, or the latest stays.
LEMMA LatestAppended ==
    ASSUME NEW s \in Seq(Run), NEW run \in Run, NEW new, new = Append(s, run),
           NEW row \in TestRow, Shows(row, s)
    PROVE  /\ TakesOver(row, run) => LatestIn(new, Len(s) + 1)
           /\ ~TakesOver(row, run) =>
                 s # <<>> /\ \A n \in DOMAIN s : LatestIn(s, n) => LatestIn(new, n)
           /\ run.source # "typed" =>
                 (Advances(row, run.day) <=> \A m \in SinceIn(s) : s[m].day <= run.day)
  <1>1. /\ Len(s) \in Nat /\ DOMAIN s = 1..Len(s) /\ DOMAIN new = 1..(Len(s) + 1)
        /\ \A n \in DOMAIN s : new[n] = s[n] /\ s[n].day \in Nat
        /\ new[Len(s) + 1] = run /\ run.day \in Nat
        /\ SinceIn(s) \subseteq DOMAIN s
    BY AppendedRun DEF SinceIn
  <1>2. run.source # "typed" => (Advances(row, run.day) <=> \A m \in SinceIn(s) : s[m].day <= run.day)
    <2>1. CASE s = <<>>
      <3>1. row.lastRun = NoDay /\ SinceIn(s) = {}
        BY <1>1, <2>1 DEF Shows
      <3>2. QED
        BY <3>1 DEF Advances
    <2>2. CASE s # <<>>
      <3>1. PICK n \in DOMAIN s : LatestIn(s, n) /\ row.lastRun = s[n].day
        BY <2>2 DEF Shows
      <3>2. Advances(row, run.day) <=> s[n].day <= run.day
        BY <1>1, <3>1 DEF Advances, NoDay
      <3>3. n \in SinceIn(s) /\ \A m \in SinceIn(s) : s[m].day <= s[n].day
        BY <3>1, LatestCounts
      <3>4. ASSUME s[n].day <= run.day, NEW m \in SinceIn(s)
            PROVE  s[m].day <= run.day
        BY <1>1, <3>3, <3>4
      <3>5. QED
        BY <3>2, <3>3, <3>4
    <2>3. QED
      BY <2>1, <2>2
  <1>3. ASSUME TakesOver(row, run)
        PROVE  LatestIn(new, Len(s) + 1)
    <2>1. BeforeIn(new, Len(s) + 1) = IF run.source = "typed" THEN {} ELSE SinceIn(s)
      BY BeforeAppended
    <2>2. \A m \in BeforeIn(new, Len(s) + 1) : s[m].day <= run.day
      BY <1>2, <1>3, <2>1 DEF TakesOver
    <2>3. LatestThenIn(new, Len(s) + 1)
      BY <1>1, <2>1, <2>2 DEF LatestThenIn
    <2>4. \A m \in DOMAIN new : ~(m > Len(s) + 1)
      BY <1>1
    <2>5. Len(s) + 1 \in DOMAIN new
      BY <1>1
    <2>6. QED
      BY <2>3, <2>4, <2>5 DEF LatestIn
  <1>4. ASSUME ~TakesOver(row, run)
        PROVE  s # <<>> /\ \A n \in DOMAIN s : LatestIn(s, n) => LatestIn(new, n)
    <2>1. run.source # "typed" /\ ~Advances(row, run.day)
      BY <1>4 DEF TakesOver
    <2>2. PICK l \in SinceIn(s) : ~(s[l].day <= run.day)
      BY <1>2, <2>1
    <2>3. ASSUME NEW n \in DOMAIN s, LatestIn(s, n)
          PROVE  LatestIn(new, n)
      <3>1. n \in SinceIn(s) /\ run.day < s[n].day
        BY <1>1, <2>2, <2>3, LatestCounts
      <3>2. LatestThenIn(new, n)
        BY <2>3, BeforeAppended DEF LatestIn
      <3>3. ASSUME NEW m \in DOMAIN new, m > n
            PROVE  n \in BeforeIn(new, m) /\ new[m].day < new[n].day
        <4>1. CASE m \in DOMAIN s
          BY <1>1, <2>3, <3>3, <4>1, BeforeAppended DEF LatestIn
        <4>2. CASE m = Len(s) + 1
          <5>1. BeforeIn(new, m) = SinceIn(s)
            BY <2>1, <4>2, BeforeAppended
          <5>2. QED
            BY <1>1, <3>1, <4>2, <5>1
        <4>3. QED
          BY <1>1, <4>1, <4>2
      <3>4. n \in DOMAIN new
        BY <1>1
      <3>5. QED
        BY <3>2, <3>3, <3>4 DEF LatestIn
    <2>4. s # <<>>
      BY <1>1, <2>2
    <2>5. QED
      BY <2>3, <2>4
  <1>5. QED
    BY <1>2, <1>3, <1>4

\* Monitoring has observed the runs it had, and the one appended if it is no one's by hand
\* and the latest.
LEMMA ObservedAppended ==
    ASSUME NEW s \in Seq(Run), NEW run \in Run, NEW new, new = Append(s, run),
           NEW row \in TestRow, Shows(row, s)
    PROVE  ObservedIn(new) =
              IF run.source \notin {"manual", "typed"} /\ Advances(row, run.day)
              THEN ObservedIn(s) \cup {Len(s) + 1} ELSE ObservedIn(s)
  <1>1. ASSUME NEW n \in DOMAIN s
        PROVE  n \in ObservedIn(new) <=> n \in ObservedIn(s)
    <2>1. new[n] = s[n] /\ n \in DOMAIN new
      BY AppendedRun
    <2>2. LatestThenIn(new, n) <=> LatestThenIn(s, n)
      BY BeforeAppended
    <2>3. QED
      BY <2>1, <2>2 DEF ObservedIn
  <1>2. ASSUME run.source \notin {"manual", "typed"}
        PROVE  LatestThenIn(new, Len(s) + 1) <=> Advances(row, run.day)
    <2>1. BeforeIn(new, Len(s) + 1) = SinceIn(s)
      BY <1>2, BeforeAppended
    <2>2. \A m \in SinceIn(s) : new[m] = s[m]
      BY AppendedRun DEF SinceIn
    <2>3. new[Len(s) + 1] = run
      BY AppendedRun
    <2>4. LatestThenIn(new, Len(s) + 1) <=> \A m \in SinceIn(s) : s[m].day <= run.day
      BY <2>1, <2>2, <2>3 DEF LatestThenIn
    <2>5. Advances(row, run.day) <=> \A m \in SinceIn(s) : s[m].day <= run.day
      BY <1>2, LatestAppended
    <2>6. QED
      BY <2>4, <2>5
  <1>3. Len(s) + 1 \in ObservedIn(new) <=>
           run.source \notin {"manual", "typed"} /\ Advances(row, run.day)
    <2>1. new[Len(s) + 1] = run /\ Len(s) + 1 \in DOMAIN new
      BY AppendedRun
    <2>2. QED
      BY <1>2, <2>1 DEF ObservedIn
  <1>4. ObservedIn(new) \subseteq DOMAIN s \cup {Len(s) + 1} /\ ObservedIn(s) \subseteq DOMAIN s
    BY AppendedRun DEF ObservedIn
  <1>5. Len(s) + 1 \notin DOMAIN s
    BY AppendedRun
  <1>6. CASE run.source \notin {"manual", "typed"} /\ Advances(row, run.day)
    <2>1. Len(s) + 1 \in ObservedIn(new)
      BY <1>3, <1>6
    <2>2. QED
      BY <1>1, <1>4, <1>6, <2>1
  <1>7. CASE ~(run.source \notin {"manual", "typed"} /\ Advances(row, run.day))
    <2>1. Len(s) + 1 \notin ObservedIn(new)
      BY <1>3, <1>7
    <2>2. ObservedIn(new) = ObservedIn(s)
      BY <1>1, <1>4, <2>1
    <2>3. QED
      BY <1>7, <2>2
  <1>8. QED
    BY <1>6, <1>7

\* A failure joins the streak, an error leaves it, a pass ends it.
LEMMA StreakAppended ==
    ASSUME NEW s \in Seq(Run), NEW run \in Run, NEW new, new = Append(s, run),
           NEW row \in TestRow, Shows(row, s)
    PROVE  /\ ~(run.source \notin {"manual", "typed"} /\ Advances(row, run.day)) => StreakIn(new) = StreakIn(s)
           /\ run.source \notin {"manual", "typed"} /\ Advances(row, run.day) =>
                 /\ run.result = "failed" => StreakIn(new) = StreakIn(s) \cup {Len(s) + 1}
                 /\ run.result = "error" => StreakIn(new) = StreakIn(s)
                 /\ run.result = "passed" => StreakIn(new) = {}
  <1>1. /\ ObservedIn(s) \subseteq DOMAIN s
        /\ \A n \in DOMAIN s : new[n] = s[n] /\ n < Len(s) + 1 /\ n \in Nat
        /\ new[Len(s) + 1] = run /\ Len(s) + 1 \notin DOMAIN s /\ Len(s) \in Nat
    BY AppendedRun DEF ObservedIn
  <1>2. CASE ~(run.source \notin {"manual", "typed"} /\ Advances(row, run.day))
    <2>1. ObservedIn(new) = ObservedIn(s)
      BY <1>2, ObservedAppended
    <2>2. QED
      BY <1>1, <1>2, <2>1 DEF StreakIn
  <1>3. CASE run.source \notin {"manual", "typed"} /\ Advances(row, run.day)
    <2>1. ObservedIn(new) = ObservedIn(s) \cup {Len(s) + 1}
      BY <1>3, ObservedAppended
    <2>2. ASSUME NEW n \in ObservedIn(s)
          PROVE  n \in StreakIn(new) <=> n \in StreakIn(s) /\ run.result # "passed"
      BY <1>1, <2>1, <2>2 DEF StreakIn
    <2>3. Len(s) + 1 \in StreakIn(new) <=> run.result = "failed"
      BY <1>1, <2>1 DEF StreakIn
    <2>4. StreakIn(new) \subseteq ObservedIn(s) \cup {Len(s) + 1} /\ StreakIn(s) \subseteq ObservedIn(s)
      BY <2>1 DEF StreakIn
    <2>5. CASE run.result = "failed"
      BY <1>3, <2>2, <2>3, <2>4, <2>5
    <2>6. CASE run.result = "error"
      <3>1. StreakIn(new) = StreakIn(s)
        BY <2>2, <2>3, <2>4, <2>6
      <3>2. QED
        BY <1>3, <2>6, <3>1
    <2>7. CASE run.result = "passed"
      BY <1>3, <2>2, <2>3, <2>4, <2>7
    <2>8. QED
      BY <1>3, <2>5, <2>6, <2>7
  <1>4. QED
    BY <1>2, <1>3

\* failing_since is rolled up as the streak.
LEMMA StartAppended ==
    ASSUME NEW s \in Seq(Run), NEW run \in Run, NEW new, new = Append(s, run),
           NEW row \in TestRow, Shows(row, s),
           run.source # "typed" => run.result \in {"passed", "failed", "error"}
    PROVE  StartIn(new) = IF run.source \notin {"manual", "typed"} /\ Advances(row, run.day)
                          THEN FailingSince(row, run.day, run.result) ELSE row.failingSince
  <1>1. /\ \A n \in DOMAIN s : new[n] = s[n] /\ n < Len(s) + 1 /\ n \in Nat
        /\ new[Len(s) + 1] = run /\ Len(s) + 1 \notin DOMAIN s /\ Len(s) \in Nat
    BY AppendedRun
  <1>2. /\ StreakIn(s) \subseteq DOMAIN s /\ StreakIn(s) \in SUBSET Nat
        /\ \A n \in StreakIn(s) : s[n].day \in Nat \ {0}
    BY <1>1, AppendedRun DEF StreakIn, ObservedIn
  <1>3. row.failingSince = StartIn(s)
    BY DEF Shows
  <1>4. StreakIn(s) # {} => /\ Min(StreakIn(s)) \in StreakIn(s)
                            /\ \A j \in StreakIn(s) : Min(StreakIn(s)) <= j
    BY <1>2, MinOfDays
  <1>5. StartIn(s) = NoDay <=> StreakIn(s) = {}
    BY <1>1, <1>2, <1>4 DEF StartIn, NoDay
  <1>6. ASSUME StreakIn(new) = StreakIn(s)
        PROVE  StartIn(new) = row.failingSince
    BY <1>1, <1>2, <1>3, <1>4, <1>6 DEF StartIn
  <1>7. ASSUME StreakIn(new) = StreakIn(s) \cup {Len(s) + 1}
        PROVE  StartIn(new) = IF row.failingSince # NoDay THEN row.failingSince ELSE run.day
    <2> DEFINE k == Len(s) + 1
               S == StreakIn(s)
    <2>1. StreakIn(new) \in SUBSET Nat /\ StreakIn(new) # {}
      BY <1>1, <1>2, <1>7
    <2>2. Min(StreakIn(new)) \in StreakIn(new)
          /\ \A j \in StreakIn(new) : Min(StreakIn(new)) <= j
      BY <2>1, MinOfDays
    <2>3. CASE S = {}
      <3>1. Min(StreakIn(new)) = k
        BY <1>7, <2>2, <2>3
      <3>2. QED
        BY <1>1, <1>3, <1>5, <2>1, <2>3, <3>1 DEF StartIn
    <2>4. CASE S # {}
      <3>1. Min(S) \in S /\ Min(S) < k /\ Min(S) \in Nat
        BY <1>1, <1>2, <1>4, <2>4
      <3>2. Min(StreakIn(new)) = Min(S)
        <4>1. Min(StreakIn(new)) <= Min(S) /\ Min(StreakIn(new)) \in Nat
          BY <1>7, <2>1, <2>2, <3>1
        <4>2. Min(StreakIn(new)) \in S
          BY <1>1, <1>7, <2>2, <3>1, <4>1
        <4>3. Min(S) <= Min(StreakIn(new))
          BY <1>4, <2>4, <4>2
        <4>4. QED
          BY <3>1, <4>1, <4>3
      <3>3. QED
        BY <1>1, <1>2, <1>3, <1>5, <2>1, <2>4, <3>1, <3>2 DEF StartIn
    <2>5. QED
      BY <2>3, <2>4
  <1>8. CASE ~(run.source \notin {"manual", "typed"} /\ Advances(row, run.day))
    BY <1>6, <1>8, StreakAppended
  <1>9. CASE run.source \notin {"manual", "typed"} /\ Advances(row, run.day)
    <2>1. CASE run.result = "failed"
      BY <1>7, <1>9, <2>1, StreakAppended DEF FailingSince
    <2>2. CASE run.result = "error"
      BY <1>6, <1>9, <2>2, StreakAppended DEF FailingSince
    <2>3. CASE run.result = "passed"
      <3>1. StreakIn(new) = {}
        BY <1>9, <2>3, StreakAppended
      <3>2. QED
        BY <1>9, <2>3, <3>1 DEF FailingSince, StartIn
    <2>4. QED
      BY <1>9, <2>1, <2>2, <2>3
  <1>10. QED
    BY <1>8, <1>9

\* The row rolled up shows the history with the run appended.
LEMMA ShowsAppended ==
    ASSUME NEW s \in Seq(Run), NEW run \in Run, NEW new, new = Append(s, run),
           NEW row \in TestRow, Shows(row, s),
           run.source # "typed" => run.result \in {"passed", "failed", "error"},
           NEW rolled,
           TakesOver(row, run) => rolled.lastRun = run.day /\ rolled.lastResult = run.result,
           ~TakesOver(row, run) =>
              rolled.lastRun = row.lastRun /\ rolled.lastResult = row.lastResult,
           rolled.failingSince = IF run.source \notin {"manual", "typed"} /\ Advances(row, run.day)
                                 THEN FailingSince(row, run.day, run.result)
                                 ELSE row.failingSince
    PROVE  Shows(rolled, new)
  <1>1. rolled.failingSince = StartIn(new)
    BY StartAppended
  <1>2. \E n \in DOMAIN new : /\ LatestIn(new, n)
                              /\ rolled.lastRun = new[n].day
                              /\ rolled.lastResult = new[n].result
    <2>1. CASE TakesOver(row, run)
      <3>1. LatestIn(new, Len(s) + 1)
        BY <2>1, LatestAppended
      <3>2. new[Len(s) + 1] = run /\ Len(s) + 1 \in DOMAIN new
        BY AppendedRun
      <3>3. QED
        BY <2>1, <3>1, <3>2
    <2>2. CASE ~TakesOver(row, run)
      <3>1. s # <<>> /\ \A n \in DOMAIN s : LatestIn(s, n) => LatestIn(new, n)
        BY <2>2, LatestAppended
      <3>2. PICK n \in DOMAIN s : /\ LatestIn(s, n)
                                  /\ row.lastRun = s[n].day
                                  /\ row.lastResult = s[n].result
        BY <3>1 DEF Shows
      <3>3. new[n] = s[n] /\ n \in DOMAIN new
        BY AppendedRun
      <3>4. QED
        BY <2>2, <3>1, <3>2, <3>3
    <2>3. QED
      BY <2>1, <2>2
  <1>3. new # <<>>
    BY AppendedRun
  <1>4. QED
    BY <1>1, <1>2, <1>3 DEF Shows

\* Field by field, what a run that ends makes of the row it loaded.
LEMMA RecordedRow ==
    ASSUME TypeOK, NEW w \in Workers, inflight[w].op = "run",
           NEW result \in {"passed", "failed", "error"}
    PROVE  LET h == inflight[w]
               loaded == h.rows[h.on]
               row == Recorded(h, result)
           IN /\ row \in TestRow
              /\ Advances(loaded, h.day) => row.lastRun = h.day /\ row.lastResult = result
              /\ ~Advances(loaded, h.day) =>
                    row.lastRun = loaded.lastRun /\ row.lastResult = loaded.lastResult
              /\ row.failingSince = IF Advances(loaded, h.day)
                                    THEN FailingSince(loaded, h.day, result)
                                    ELSE loaded.failingSince
              /\ row.issue = IF Advances(loaded, h.day) /\ result = "failed"
                             THEN TrackedOn(loaded) ELSE loaded.issue
              /\ row.active = loaded.active /\ row.archived = loaded.archived
  <1> DEFINE h == inflight[w]
             loaded == h.rows[h.on]
             rolled == RolledUp(loaded, h.day, result)
             row == Recorded(h, result)
  <1>1. loaded \in TestRow /\ h.day \in Days /\ row \in TestRow
    BY RunInFlight, RecordedType
  <1>2. ASSUME NEW r \in TestRow, NEW d \in Days
        PROVE  LET u == RolledUp(r, d, result) IN
               /\ u \in TestRow
               /\ Advances(r, d) => u.lastRun = d /\ u.lastResult = result
               /\ ~Advances(r, d) => u.lastRun = r.lastRun /\ u.lastResult = r.lastResult
               /\ u.failingSince = IF Advances(r, d) THEN FailingSince(r, d, result)
                                   ELSE r.failingSince
               /\ u.active = r.active /\ u.archived = r.archived /\ u.issue = r.issue
    <2>1. RolledUp(r, d, result) \in TestRow
      BY RolledUpType
    <2>2. CASE Advances(r, d)
      BY <2>1, <2>2 DEF RolledUp, TestRow
    <2>3. CASE ~Advances(r, d)
      BY <2>1, <2>3 DEF RolledUp, TestRow
    <2>4. QED
      BY <2>2, <2>3
  <1>3. ASSUME NEW r \in TestRow, NEW n
        PROVE  LET u == [r EXCEPT !.issue = n] IN
               /\ u.lastRun = r.lastRun /\ u.lastResult = r.lastResult
               /\ u.failingSince = r.failingSince
               /\ u.active = r.active /\ u.archived = r.archived /\ u.issue = n
    BY DEF TestRow
  <1>4. rolled \in TestRow /\ rolled.issue = loaded.issue
    BY <1>1, <1>2
  <1>5. row = [rolled EXCEPT !.issue =
           IF Advances(loaded, h.day) /\ result = "failed" THEN TrackedOn(loaded) ELSE rolled.issue]
    BY <1>4 DEF Recorded
  <1>6. /\ row.lastRun = rolled.lastRun /\ row.lastResult = rolled.lastResult
        /\ row.failingSince = rolled.failingSince
        /\ row.active = rolled.active /\ row.archived = rolled.archived
        /\ row.issue = IF Advances(loaded, h.day) /\ result = "failed"
                       THEN TrackedOn(loaded) ELSE loaded.issue
    <2> HIDE DEF rolled, row, loaded, h
    <2>1. QED
      BY <1>3, <1>4, <1>5
  <1>7. QED
    <2>1. /\ Advances(loaded, h.day) => rolled.lastRun = h.day /\ rolled.lastResult = result
          /\ ~Advances(loaded, h.day) =>
                rolled.lastRun = loaded.lastRun /\ rolled.lastResult = loaded.lastResult
          /\ rolled.failingSince = IF Advances(loaded, h.day)
                                   THEN FailingSince(loaded, h.day, result)
                                   ELSE loaded.failingSince
          /\ rolled.active = loaded.active /\ rolled.archived = loaded.archived
      BY <1>1, <1>2
    <2> HIDE DEF rolled, row, loaded, h
    <2>2. QED
      BY <1>1, <1>6, <2>1 DEF row, loaded, h

\* Nobody having written the row since it was loaded, the whole of it is written.
LEMMA WrittenFresh ==
    ASSUME NEW current \in TestRow, NEW row \in TestRow
    PROVE  Written(current, current, row) = row
  <1>1. /\ DOMAIN current = {"active", "archived", "lastRun", "lastResult", "failingSince",
                             "lastRunAt", "issue"}
        /\ DOMAIN row = DOMAIN current
        /\ row = [c \in DOMAIN row |-> row[c]]
    BY DEF TestRow
  <1>2. \A c \in DOMAIN current : (IF row[c] # current[c] THEN row[c] ELSE current[c]) = row[c]
    OBVIOUS
  <1>3. QED
    BY <1>1, <1>2 DEF Written

\* The row a run that ends had loaded is the table's.
LEMMA FinishRunFresh ==
    ASSUME ShowsInv, NEW w \in Workers, NEW result \in Results, NEW unreachable \in BOOLEAN,
           FinishRun(w, result, unreachable)
    PROVE  /\ TypeOK /\ inflight[w].op = "run" /\ inflight[w].on \in Tests
           /\ inflight[w].rows = test
           /\ inflight[w].source \notin {"manual", "typed"}
           /\ inflight[w].day \in Days
           /\ result \in {"passed", "failed", "error"}
  <1>1. TypeOK /\ inflight[w].op = "run" /\ result \in {"passed", "failed", "error"}
    BY FinishRunWrites DEF ShowsInv
  <1>2. QED
    BY <1>1, RunInFlight DEF ShowsInv

\* It adds a run of monitoring's to the history.
LEMMA FinishRunAppends ==
    ASSUME ShowsInv, NEW w \in Workers, NEW result \in Results, NEW unreachable \in BOOLEAN,
           FinishRun(w, result, unreachable)
    PROVE  LET h == inflight[w]
               run == [day |-> h.day, result |-> result, source |-> h.source]
           IN /\ run \in Run /\ run.source \notin {"manual", "typed"} /\ run.day = h.day /\ run.result = result
              /\ runs' = [runs EXCEPT ![h.on] = Append(@, run)]
  <1>1. TypeOK /\ inflight[w].source \notin {"manual", "typed"} /\ Writes(w, result)
    BY FinishRunFresh, FinishRunWrites
  <1>2. QED
    BY <1>1, FinishRunRecords DEF Writes

\* So the whole of the row recorded is written.
LEMMA FinishRunStores ==
    ASSUME ShowsInv, NEW w \in Workers, NEW result \in Results, NEW unreachable \in BOOLEAN,
           FinishRun(w, result, unreachable)
    PROVE  /\ Recorded(inflight[w], result) \in TestRow
           /\ test' = [test EXCEPT ![inflight[w].on] = Recorded(inflight[w], result)]
  <1> DEFINE h == inflight[w]
             row == Recorded(h, result)
  <1>1. row \in TestRow /\ Writes(w, result)
    BY FinishRunWrites DEF ShowsInv
  <1>2. h.rows = test /\ test[h.on] \in TestRow
    BY FinishRunFresh DEF TypeOK
  <1>3. test' = [test EXCEPT ![h.on] = row]
    BY <1>1, <1>2, WrittenFresh DEF Writes
  <1>4. QED
    BY <1>1, <1>3

\* The row written shows the history with the run recorded.
LEMMA FinishRunShown ==
    ASSUME ShowsInv, NEW w \in Workers, NEW result \in Results, NEW unreachable \in BOOLEAN,
           FinishRun(w, result, unreachable)
    PROVE  LET h == inflight[w]
               row == Recorded(h, result)
           IN /\ TypeOK /\ h.on \in Tests
              /\ test'[h.on] = row
              /\ runs'[h.on] = Append(runs[h.on],
                                  [day |-> h.day, result |-> result, source |-> h.source])
              /\ Shows(row, runs'[h.on])
  <1> DEFINE h == inflight[w]
             run == [day |-> h.day, result |-> result, source |-> h.source]
             row == Recorded(h, result)
  <1>1. /\ TypeOK /\ h.op = "run" /\ h.on \in Tests /\ h.rows = test
        /\ result \in {"passed", "failed", "error"}
        /\ runs' = [runs EXCEPT ![h.on] = Append(@, run)]
    BY FinishRunFresh, FinishRunAppends
  <1>2. run \in Run /\ run.source \notin {"manual", "typed"} /\ run.day = h.day /\ run.result = result
    BY FinishRunAppends
  <1>3. row \in TestRow /\ test[h.on] \in TestRow /\ runs[h.on] \in Seq(Run)
    BY <1>1, FinishRunStores DEF TypeOK
  <1>4. test'[h.on] = row /\ runs'[h.on] = Append(runs[h.on], run)
    <2>1. test' = [test EXCEPT ![h.on] = row]
      BY FinishRunStores
    <2>2. QED
      BY <1>1, <2>1 DEF TypeOK
  <1>5. /\ Advances(test[h.on], h.day) => row.lastRun = h.day /\ row.lastResult = result
        /\ ~Advances(test[h.on], h.day) =>
              row.lastRun = test[h.on].lastRun /\ row.lastResult = test[h.on].lastResult
        /\ row.failingSince = IF Advances(test[h.on], h.day)
                              THEN FailingSince(test[h.on], h.day, result)
                              ELSE test[h.on].failingSince
    BY <1>1, RecordedRow
  <1>6. Shows(test[h.on], runs[h.on])
    BY <1>1 DEF ShowsInv
  <1>7. Shows(row, runs'[h.on])
    <2> DEFINE s == runs[h.on]
               shown == test[h.on]
    <2>1. /\ run \in Run /\ s \in Seq(Run) /\ shown \in TestRow /\ Shows(shown, s)
          /\ run.result \in {"passed", "failed", "error"} /\ run.source \notin {"manual", "typed"}
      BY <1>1, <1>2, <1>3, <1>6
    <2>2. /\ TakesOver(shown, run) => row.lastRun = run.day /\ row.lastResult = run.result
          /\ ~TakesOver(shown, run) =>
                row.lastRun = shown.lastRun /\ row.lastResult = shown.lastResult
          /\ row.failingSince = IF Advances(shown, run.day)
                                THEN FailingSince(shown, run.day, run.result)
                                ELSE shown.failingSince
      BY <1>2, <1>5 DEF TakesOver
    <2>3. row.failingSince = IF run.source \notin {"manual", "typed"} /\ Advances(shown, run.day)
                             THEN FailingSince(shown, run.day, run.result)
                             ELSE shown.failingSince
      BY <2>1, <2>2
    <2> HIDE DEF run, row, s, shown
    <2>4. Shows(row, Append(s, run))
      BY <2>1, <2>2, <2>3, ShowsAppended
    <2>5. QED
      BY <1>4, <2>4 DEF s
  <1>8. QED
    BY <1>1, <1>4, <1>7

\* A failure that counts is tracked on an open issue of the test's own.
LEMMA FinishRunIssue ==
    ASSUME ShowsInv, NEW w \in Workers, NEW result \in Results, NEW unreachable \in BOOLEAN,
           FinishRun(w, result, unreachable)
    PROVE  LET h == inflight[w]
               row == Recorded(h, result)
               tracked == Advances(test[h.on], h.day) /\ result = "failed"
           IN /\ tracked => /\ row.issue \in DOMAIN issues'
                            /\ issues'[row.issue] = [on |-> h.on, open |-> TRUE]
              /\ ~tracked => row.issue = test[h.on].issue
              /\ \A i \in DOMAIN issues : i \in DOMAIN issues' /\ issues'[i] = issues[i]
  <1> DEFINE h == inflight[w]
             row == Recorded(h, result)
             tracked == Advances(test[h.on], h.day) /\ result = "failed"
             new == [on |-> h.on, open |-> TRUE]
             Issue == [on : Tests, open : BOOLEAN]
  <1>1. /\ TypeOK /\ h.op = "run" /\ h.on \in Tests /\ h.rows = test
        /\ result \in {"passed", "failed", "error"}
    BY FinishRunFresh
  <1>2. row.issue = IF tracked THEN TrackedOn(test[h.on]) ELSE test[h.on].issue
    BY <1>1, RecordedRow
  <1>3. issues' = IF tracked /\ row.issue = Len(issues) + 1 THEN Append(issues, new) ELSE issues
    BY <1>1 DEF FinishRun, Recorded
  <1>4. issues \in Seq(Issue) /\ DOMAIN issues = 1..Len(issues) /\ Len(issues) \in Nat
        /\ new \in Issue
    BY <1>1, LenProperties DEF TypeOK
  <1>5. test[h.on].issue # 0 =>
           test[h.on].issue \in DOMAIN issues /\ issues[test[h.on].issue].on = h.on
    BY <1>1 DEF ShowsInv
  <1>6. /\ tracked => row.issue \in DOMAIN issues' /\ issues'[row.issue] = new
        /\ ~tracked => row.issue = test[h.on].issue
        /\ \A i \in DOMAIN issues : i \in DOMAIN issues' /\ issues'[i] = issues[i]
    <2> HIDE DEF row, h
    <2>1. CASE ~tracked
      BY <1>2, <1>3, <2>1
    <2>2. CASE tracked /\ test[h.on].issue # 0 /\ issues[test[h.on].issue].open
      <3> DEFINE i == test[h.on].issue
      <3>1. row.issue = i
        BY <1>2, <2>2 DEF TrackedOn
      <3>2. i \in 1..Len(issues) /\ issues[i].on = h.on
        BY <1>4, <1>5, <2>2
      <3>3. i # Len(issues) + 1 /\ issues[i] \in Issue
        <4> HIDE DEF Issue, i
        <4>1. issues[i] \in Issue
          BY <1>4, <3>2, ElementOfSeq
        <4>2. QED
          BY <1>4, <3>2, <4>1
      <3>4. issues' = issues
        BY <1>3, <3>1, <3>3
      <3>5. issues[i].open = TRUE
        BY <2>2, <3>3
      <3>6. issues[i] = new
        BY <3>2, <3>3, <3>5
      <3>7. QED
        BY <1>4, <2>2, <3>1, <3>2, <3>4, <3>6
    <2>3. CASE tracked /\ ~(test[h.on].issue # 0 /\ issues[test[h.on].issue].open)
      <3>1. row.issue = Len(issues) + 1
        BY <1>2, <2>3 DEF TrackedOn
      <3>2. issues' = Append(issues, new)
        BY <1>3, <2>3, <3>1
      <3>3. /\ issues' \in Seq(Issue) /\ Len(issues') = Len(issues) + 1
            /\ \A i \in 1..Len(issues) : issues'[i] = issues[i]
            /\ issues'[Len(issues) + 1] = new
        <4> HIDE DEF Issue, new
        <4>1. QED
          BY <1>4, <3>2, AppendProperties
      <3>4. DOMAIN issues' = 1..(Len(issues) + 1)
        BY <3>3, LenProperties
      <3>5. QED
        BY <1>4, <2>3, <3>1, <3>3, <3>4
    <2>4. QED
      BY <2>1, <2>2, <2>3
  <1>7. QED
    BY <1>6

\* Neither the rows nor the history change, and a run in flight is one that was.
LEMMA StillShows ==
    ASSUME ShowsInv, TypeOK', UNCHANGED <<test, runs, signal>>,
           \A i \in DOMAIN issues : i \in DOMAIN issues' /\ issues'[i].on = issues[i].on,
           \A w \in Workers : inflight'[w].op = "run" =>
              \/ inflight'[w] = inflight[w]
              \/ /\ inflight'[w].rows = test /\ inflight'[w].signal = signal
                 /\ inflight'[w].source \notin {"manual", "typed"}
    PROVE  ShowsInv'
  <1>1. \A t \in Tests : Shows(test'[t], runs'[t])
    BY DEF ShowsInv
  <1>2. \A t \in Tests : test'[t].issue # 0 =>
           test'[t].issue \in DOMAIN issues' /\ issues'[test'[t].issue].on = t
    BY DEF ShowsInv
  <1>3. \A w \in Workers : inflight'[w].op = "run" =>
           /\ inflight'[w].source \notin {"manual", "typed"}
           /\ inflight'[w].rows = test'
           /\ inflight'[w].signal = signal'
    BY DEF ShowsInv
  <1>4. QED
    BY <1>1, <1>2, <1>3 DEF ShowsInv

LEMMA LoadShows ==
    ASSUME ShowsInv, TypeOK', NEW w \in Workers, NEW t \in Tests, NEW source, NEW d,
           source \notin {"manual", "typed"}, LoadRun(w, t, source, d)
    PROVE  ShowsInv'
  <1>1. UNCHANGED <<test, runs, signal, issues>>
    BY DEF LoadRun
  <1>2. ASSUME NEW v \in Workers
        PROVE  \/ inflight'[v] = inflight[v]
               \/ /\ inflight'[v].rows = test /\ inflight'[v].signal = signal
                  /\ inflight'[v].source \notin {"manual", "typed"}
    BY DEF LoadRun, ShowsInv, TypeOK
  <1>3. QED
    BY <1>1, <1>2, StillShows

LEMMA FinishRunShows ==
    ASSUME OneHandler, ShowsInv, TypeOK', NEW w \in Workers, NEW result \in Results,
           NEW unreachable \in BOOLEAN, FinishRun(w, result, unreachable)
    PROVE  ShowsInv'
  <1> DEFINE h == inflight[w]
             row == Recorded(h, result)
  <1>1. /\ TypeOK /\ h.on \in Tests
        /\ test'[h.on] = row /\ Shows(row, runs'[h.on])
        /\ \A t \in Tests \ {h.on} : test'[t] = test[t] /\ runs'[t] = runs[t]
    <2>1. /\ TypeOK /\ h.on \in Tests
          /\ test'[h.on] = row /\ Shows(row, runs'[h.on])
      BY FinishRunShown
    <2>2. \A t \in Tests \ {h.on} : test'[t] = test[t] /\ runs'[t] = runs[t]
      BY <2>1 DEF FinishRun, TypeOK
    <2>3. QED
      BY <2>1, <2>2
  <1>2. \A t \in Tests : Shows(test'[t], runs'[t])
    BY <1>1 DEF ShowsInv
  <1>3. ASSUME NEW t \in Tests, test'[t].issue # 0
        PROVE  test'[t].issue \in DOMAIN issues' /\ issues'[test'[t].issue].on = t
    <2>1. \A i \in DOMAIN issues : i \in DOMAIN issues' /\ issues'[i] = issues[i]
      BY FinishRunIssue
    <2>2. CASE t # h.on
      BY <1>1, <1>3, <2>1, <2>2 DEF ShowsInv
    <2>3. CASE t = h.on
      <3>1. CASE Advances(test[h.on], h.day) /\ result = "failed"
        <4>1. row.issue \in DOMAIN issues' /\ issues'[row.issue] = [on |-> h.on, open |-> TRUE]
          BY <3>1, FinishRunIssue
        <4>2. issues'[row.issue].on = h.on
          BY <4>1
        <4>3. QED
          BY <1>1, <2>3, <4>1, <4>2
      <3>2. CASE ~(Advances(test[h.on], h.day) /\ result = "failed")
        <4>1. row.issue = test[h.on].issue
          BY <3>2, FinishRunIssue
        <4>2. QED
          BY <1>1, <1>3, <2>1, <2>3, <4>1 DEF ShowsInv
      <3>3. QED
        BY <3>1, <3>2
    <2>4. QED
      BY <2>2, <2>3
  <1>4. \A v \in Workers : inflight'[v].op # "run"
    BY <1>1 DEF FinishRun, Done, Idle, OneHandler, TypeOK
  <1>5. QED
    BY <1>2, <1>3, <1>4 DEF ShowsInv

\* People's edits wait for a free handler: with one handler, nothing is in flight.
LEMMA FreeIsIdle ==
    ASSUME OneHandler, Free, NEW w \in Workers
    PROVE  inflight[w].op # "run"
  BY DEF OneHandler, Free, Idle

LEMMA ByHandShows ==
    ASSUME OneHandler, ShowsInv, TypeOK', NEW t \in Tests, NEW lag \in Lags,
           NEW result \in {"passed", "failed", "error"}, RecordByHand(t, lag, result)
    PROVE  ShowsInv'
  <1> DEFINE d == today - lag
             run == [day |-> d, result |-> result, source |-> "manual"]
             row == IF Advances(test[t], d)
                    THEN [test[t] EXCEPT !.lastRun = d, !.lastResult = result] ELSE test[t]
  <1>1. /\ TypeOK /\ run \in Run /\ test[t] \in TestRow /\ runs[t] \in Seq(Run)
        /\ run.day = d /\ run.result = result /\ run.source = "manual"
        /\ Shows(test[t], runs[t])
    BY ByHandWrites DEF ShowsInv, TypeOK
  <1>2. UNCHANGED <<signal, inflight, issues>> /\ \A w \in Workers : inflight[w].op # "run"
    BY FreeIsIdle DEF RecordByHand
  <1>3. runs' = [runs EXCEPT ![t] = Append(@, run)]
    BY DEF RecordByHand
  <1>4. test' = [test EXCEPT ![t] = row]
    BY <1>1 DEF RecordByHand, TypeOK
  <1>5. /\ Advances(test[t], d) => row.lastRun = d /\ row.lastResult = result
        /\ ~Advances(test[t], d) =>
              row.lastRun = test[t].lastRun /\ row.lastResult = test[t].lastResult
        /\ row.failingSince = test[t].failingSince /\ row.issue = test[t].issue
    BY <1>1 DEF TestRow
  <1> HIDE DEF row, run, d
  <1>6. Shows(row, Append(runs[t], run))
    <2> DEFINE s == runs[t]
               shown == test[t]
    <2>1. /\ run \in Run /\ s \in Seq(Run) /\ shown \in TestRow /\ Shows(shown, s)
          /\ run.result \in {"passed", "failed", "error"}
      BY <1>1
    <2>2. /\ TakesOver(shown, run) => row.lastRun = run.day /\ row.lastResult = run.result
          /\ ~TakesOver(shown, run) =>
                row.lastRun = shown.lastRun /\ row.lastResult = shown.lastResult
          /\ row.failingSince = IF run.source \notin {"manual", "typed"} /\ Advances(shown, run.day)
                                THEN FailingSince(shown, run.day, run.result)
                                ELSE shown.failingSince
      BY <1>1, <1>5 DEF TakesOver
    <2> HIDE DEF s, shown
    <2>3. Shows(row, Append(s, run))
      BY <2>1, <2>2, ShowsAppended
    <2>4. QED
      BY <2>3 DEF s
  <1>7. /\ test'[t] = row /\ runs'[t] = Append(runs[t], run)
        /\ \A u \in Tests \ {t} : test'[u] = test[u] /\ runs'[u] = runs[u]
    BY <1>1, <1>3, <1>4 DEF TypeOK
  <1>8. \A u \in Tests : Shows(test'[u], runs'[u])
    BY <1>6, <1>7 DEF ShowsInv
  <1>9. \A u \in Tests : test'[u].issue = test[u].issue
    BY <1>5, <1>7
  <1>10. QED
    BY <1>2, <1>8, <1>9 DEF ShowsInv

\* Archiving leaves what a row shows.
LEMMA ArchiveShows ==
    ASSUME OneHandler, ShowsInv, TypeOK', NEW t \in Tests, Archive(t)
    PROVE  ShowsInv'
  <1>1. /\ UNCHANGED <<runs, signal, inflight, issues>> /\ \A w \in Workers : inflight[w].op # "run"
        /\ test' = [test EXCEPT ![t] = [test[t] EXCEPT !.archived = TRUE]]
    BY FreeIsIdle DEF Archive
  <1>2. ASSUME NEW u \in Tests
        PROVE  /\ test'[u].lastRun = test[u].lastRun /\ test'[u].lastResult = test[u].lastResult
               /\ test'[u].failingSince = test[u].failingSince /\ test'[u].issue = test[u].issue
    <2>1. test[t] \in TestRow /\ test \in [Tests -> TestRow]
      BY DEF ShowsInv, TypeOK
    <2>2. LET r == [test[t] EXCEPT !.archived = TRUE] IN
             /\ r.lastRun = test[t].lastRun /\ r.lastResult = test[t].lastResult
             /\ r.failingSince = test[t].failingSince /\ r.issue = test[t].issue
      BY <2>1 DEF TestRow
    <2>3. QED
      BY <1>1, <2>1, <2>2
  <1>3. \A u \in Tests : Shows(test'[u], runs'[u])
    BY <1>1, <1>2 DEF ShowsInv, Shows
  <1>4. QED
    BY <1>1, <1>2, <1>3 DEF ShowsInv

\* An edit shows what was typed, and the history has it; or nothing was, and neither moves.
LEMMA UpdateShows ==
    ASSUME OneHandler, ShowsInv, TypeOK', NEW t \in Tests, NEW active \in BOOLEAN,
           NEW typed \in Typed \cup {Shown(t)}, UpdateTest(t, active, typed)
    PROVE  ShowsInv'
  <1> DEFINE row == Edited(test[t], active, typed)
             run == TypedRun(typed)
  <1>1. TypeOK /\ test[t] \in TestRow /\ runs[t] \in Seq(Run) /\ Shows(test[t], runs[t])
    BY DEF ShowsInv, TypeOK
  <1>2. /\ test' = [test EXCEPT ![t] = row] /\ run \in Run
        /\ \A u \in Tests : /\ test'[u].failingSince = test[u].failingSince
                            /\ test'[u].issue = test[u].issue
        /\ test'[t].lastRun = typed.day /\ test'[t].lastResult = typed.result
        /\ runs' = IF typed = Shown(t) THEN runs ELSE [runs EXCEPT ![t] = Append(@, run)]
        /\ UNCHANGED <<signal, inflight, issues>>
    BY <1>1, UpdateWrites
  <1>3. run.day = typed.day /\ run.result = typed.result /\ run.source = "typed"
    BY DEF TypedRun
  <1>4. \A w \in Workers : inflight[w].op # "run"
    BY FreeIsIdle DEF UpdateTest
  <1> HIDE DEF row, run
  <1>5. \A u \in Tests \ {t} : test'[u] = test[u] /\ runs'[u] = runs[u]
    BY <1>1, <1>2 DEF TypeOK
  <1>6. Shows(test'[t], runs'[t])
    <2>1. CASE typed = Shown(t)
      <3>1. /\ test'[t].lastRun = test[t].lastRun /\ test'[t].lastResult = test[t].lastResult
            /\ test'[t].failingSince = test[t].failingSince /\ runs'[t] = runs[t]
        BY <1>2, <2>1 DEF Shown
      <3>2. QED
        BY <1>1, <3>1 DEF Shows
    <2>2. CASE typed # Shown(t)
      <3> DEFINE s == runs[t]
                 shown == test[t]
                 rolled == test'[t]
      <3>1. runs'[t] = Append(s, run)
        BY <1>1, <1>2, <2>2 DEF TypeOK
      <3>2. /\ run \in Run /\ s \in Seq(Run) /\ shown \in TestRow /\ Shows(shown, s)
            /\ run.source = "typed" /\ TakesOver(shown, run)
            /\ rolled.lastRun = run.day /\ rolled.lastResult = run.result
            /\ rolled.failingSince = shown.failingSince
        BY <1>1, <1>2, <1>3 DEF TakesOver
      <3> HIDE DEF s, shown, rolled
      <3>3. Shows(rolled, Append(s, run))
        BY <3>2, ShowsAppended
      <3>4. QED
        BY <3>1, <3>3 DEF rolled
    <2>3. QED
      BY <2>1, <2>2
  <1>7. \A u \in Tests : Shows(test'[u], runs'[u])
    BY <1>5, <1>6 DEF ShowsInv
  <1>8. QED
    BY <1>2, <1>4, <1>7 DEF ShowsInv

LEMMA ShowsInit == Init => ShowsInv
  <1> SUFFICES ASSUME Init PROVE ShowsInv
    OBVIOUS
  <1>1. ObservedIn(<<>>) = {} /\ StreakIn(<<>>) = {} /\ StartIn(<<>>) = NoDay
    BY DEF ObservedIn, StreakIn, StartIn
  <1>2. ASSUME NEW t \in Tests
        PROVE  /\ runs[t] = <<>> /\ test[t].lastRun = NoDay /\ test[t].lastResult = "not_run"
               /\ test[t].failingSince = NoDay /\ test[t].issue = 0
    BY DEF Init
  <1>3. \A w \in Workers : inflight[w].op # "run"
    BY DEF Init, Idle
  <1>4. \A t \in Tests : Shows(test[t], runs[t])
    BY <1>1, <1>2 DEF Shows
  <1>5. QED
    BY <1>2, <1>3, <1>4, InitType DEF ShowsInv

LEMMA ShowsStep == OneHandler /\ ShowsInv /\ [Next]_vars => ShowsInv'
  <1> SUFFICES ASSUME OneHandler, ShowsInv, [Next]_vars PROVE ShowsInv'
    OBVIOUS
  <1>0. TypeOK /\ TypeOK'
    BY NextType DEF ShowsInv
  <1>1. ASSUME NEW w \in Workers,
               (\E ok \in BOOLEAN : ProbeDone(w, ok)) \/ Rollback(w) \/ Probe(w) \/ Crash(w)
        PROVE  ShowsInv'
    <2>1. UNCHANGED <<test, runs, signal, issues>>
      BY <1>1 DEF ProbeDone, Rollback, Probe, Crash
    <2>2. \A v \in Workers : inflight'[v].op = "run" => inflight'[v] = inflight[v]
      BY <1>0, <1>1, EndQuiet DEF QuietStep
    <2>3. QED
      BY <1>0, <2>1, <2>2, StillShows
  <1>2. ASSUME NEW w \in Sweepers, SweepList(w) \/ (\E t \in Tests : SweepSkip(w, t)) \/ SweepEnd(w)
        PROVE  ShowsInv'
    <2>1. UNCHANGED <<test, runs, signal, issues, inflight>>
      BY <1>2 DEF SweepList, SweepSkip, SweepEnd
    <2>2. QED
      BY <1>0, <2>1, StillShows
  <1>3. ASSUME NEW status \in ConnectorStatus, SetConnector(status)
        PROVE  ShowsInv'
    <2>1. UNCHANGED <<test, runs, signal, issues, inflight>>
      BY <1>3 DEF SetConnector
    <2>2. QED
      BY <1>0, <2>1, StillShows
  <1>4. ASSUME NEW i \in DOMAIN issues, CloseIssue(i)
        PROVE  ShowsInv'
    <2>1. UNCHANGED <<test, runs, signal, inflight>>
          /\ issues' = [issues EXCEPT ![i].open = FALSE]
      BY <1>4 DEF CloseIssue
    <2>2. ASSUME NEW j \in DOMAIN issues
          PROVE  j \in DOMAIN issues' /\ issues'[j].on = issues[j].on
      <3>1. issues \in Seq([on : Tests, open : BOOLEAN]) /\ DOMAIN issues = 1..Len(issues)
        BY <1>0 DEF TypeOK
      <3>2. \A k \in DOMAIN issues : issues[k] \in [on : Tests, open : BOOLEAN]
        BY <3>1, ElementOfSeq
      <3>3. issues' = [issues EXCEPT ![i] = [issues[i] EXCEPT !.open = FALSE]]
        BY <2>1
      <3>4. [issues[i] EXCEPT !.open = FALSE].on = issues[i].on
        BY <3>2
      <3>5. QED
        BY <3>1, <3>3, <3>4
    <2>3. QED
      BY <1>0, <2>1, <2>2, StillShows
  <1>5. CASE (UNCHANGED vars) \/ Tomorrow
    <2>1. UNCHANGED <<test, runs, signal, issues, inflight>>
      BY <1>5 DEF vars, Tomorrow
    <2>2. QED
      BY <1>0, <2>1, StillShows
  <1>6. ASSUME NEW w \in Workers, NEW t \in Tests,
               RunNow(w, t) \/ \E lag \in Lags : Push(w, t, lag)
        PROVE  ShowsInv'
    BY <1>0, <1>6, LoadShows DEF RunNow, Push
  <1>7. ASSUME NEW w \in Sweepers, NEW t \in Tests, SweepRun(w, t)
        PROVE  ShowsInv'
    BY <1>0, <1>7, LoadShows, WorkersAssumption DEF SweepRun
  <1>8. ASSUME NEW w \in Workers, NEW result \in Results, NEW unreachable \in BOOLEAN,
               FinishRun(w, result, unreachable)
        PROVE  ShowsInv'
    BY <1>0, <1>8, FinishRunShows
  <1>9. CASE \E t \in Tests, lag \in Lags, result \in {"passed", "failed", "error"} :
                RecordByHand(t, lag, result)
    BY <1>0, <1>9, ByHandShows
  <1>10. CASE \E t \in Tests : Archive(t)
    BY <1>0, <1>10, ArchiveShows
  <1>11. CASE \E t \in Tests, active \in BOOLEAN : \E typed \in Typed \cup {Shown(t)} :
                 UpdateTest(t, active, typed)
    BY <1>0, <1>11, UpdateShows
  <1>12. QED
    BY <1>1, <1>2, <1>3, <1>4, <1>5, <1>6, <1>7, <1>8, <1>9, <1>10, <1>11
       DEF Next, Finish, SweepStep, People

\* There is one latest result.
LEMMA OneLatest ==
    ASSUME NEW s \in Seq(Run), NEW n, NEW l, LatestIn(s, n), LatestIn(s, l)
    PROVE  n = l
  <1>1. \A k \in DOMAIN s : s[k].day \in Nat /\ k \in Nat
    <2>1. DOMAIN s = 1..Len(s) /\ Len(s) \in Nat /\ \A k \in DOMAIN s : s[k] \in Run
      BY LenProperties, ElementOfSeq
    <2>2. \A r \in Run : r.day \in Nat
      BY RunDays
    <2>3. QED
      BY <2>1, <2>2
  <1>2. n \in DOMAIN s /\ l \in DOMAIN s
    BY DEF LatestIn
  <1>3. s[n].day <= s[l].day /\ s[l].day <= s[n].day
    BY LatestCounts
  <1>4. ~(l > n) /\ ~(n > l)
    BY <1>1, <1>2, <1>3 DEF LatestIn
  <1>5. QED
    BY <1>1, <1>2, <1>4

\* There is a streak just when it has a start.
LEMMA StartOfStreak ==
    ASSUME NEW s \in Seq(Run)
    PROVE  StartIn(s) = NoDay <=> StreakIn(s) = {}
  <1>1. /\ DOMAIN s = 1..Len(s)
        /\ \A k \in DOMAIN s : s[k].source # "typed" => s[k].day \in Nat \ {0}
    <2>1. DOMAIN s = 1..Len(s) /\ \A k \in DOMAIN s : s[k] \in Run
      BY LenProperties, ElementOfSeq
    <2>2. QED
      BY <2>1, DaysAreNat DEF Run
  <1>2. /\ StreakIn(s) \subseteq DOMAIN s /\ StreakIn(s) \in SUBSET Nat
        /\ \A k \in StreakIn(s) : s[k].source # "typed"
    BY <1>1 DEF StreakIn, ObservedIn
  <1>3. StreakIn(s) # {} => Min(StreakIn(s)) \in StreakIn(s)
    BY <1>2, MinOfDays
  <1>4. QED
    BY <1>1, <1>2, <1>3 DEF StartIn, NoDay

\* The properties' words for the history of a test.
LEMMA ShownByRuns ==
    ASSUME ShowsInv, NEW t \in Tests
    PROVE  /\ runs[t] \in Seq(Run) /\ test[t] \in TestRow
           /\ Observed(t) = ObservedIn(runs[t]) /\ Streak(t) = StreakIn(runs[t])
           /\ StreakStart(t) = test[t].failingSince
           /\ test[t].failingSince = NoDay <=> Streak(t) = {}
           /\ runs[t] = <<>> => test[t].lastRun = NoDay /\ Streak(t) = {}
           /\ runs[t] # <<>> => /\ test[t].lastRun = runs[t][Latest(t)].day
                                /\ test[t].lastResult = runs[t][Latest(t)].result
  <1>1. runs[t] \in Seq(Run) /\ test[t] \in TestRow /\ Shows(test[t], runs[t])
    BY DEF ShowsInv, TypeOK
  <1>2. Observed(t) = ObservedIn(runs[t])
    BY DEF Observed, ObservedIn, LatestThen, LatestThenIn, Before, BeforeIn
  <1>3. Streak(t) = StreakIn(runs[t])
    BY <1>2 DEF Streak, StreakIn
  <1>4. StreakStart(t) = test[t].failingSince
    BY <1>1, <1>3 DEF StreakStart, StartIn, Shows
  <1>5. test[t].failingSince = NoDay <=> Streak(t) = {}
    BY <1>1, <1>3, StartOfStreak DEF Shows
  <1>6. CASE runs[t] = <<>>
    <2>1. DOMAIN runs[t] = {}
      BY <1>6
    <2>2. Streak(t) = {}
      BY <2>1 DEF Streak, Observed
    <2>3. QED
      BY <1>1, <1>2, <1>3, <1>4, <1>5, <1>6, <2>2 DEF Shows
  <1>7. CASE runs[t] # <<>>
    <2>1. PICK n \in DOMAIN runs[t] : /\ LatestIn(runs[t], n)
                                      /\ test[t].lastRun = runs[t][n].day
                                      /\ test[t].lastResult = runs[t][n].result
      BY <1>1, <1>7 DEF Shows
    <2>2. n = Latest(t)
      <3> DEFINE P(k) == LatestIn(runs[t], k)
      <3>1. Latest(t) = CHOOSE k \in DOMAIN runs[t] : P(k)
        BY DEF Latest, LatestIn, LatestThen, LatestThenIn, Before, BeforeIn
      <3>2. n \in DOMAIN runs[t] /\ P(n)
        BY <2>1
      <3> HIDE DEF P
      <3>3. P(Latest(t))
        BY <3>1, <3>2
      <3>4. QED
        BY <1>1, <3>2, <3>3, OneLatest DEF P
    <2>3. QED
      BY <1>1, <1>2, <1>3, <1>4, <1>5, <1>7, <2>1, <2>2
  <1>8. QED
    BY <1>6, <1>7

\* record_result, add_run, update_test: with one handler in flight, in whatever order
\* results arrive, by check, by feed or by hand, a test shows the day and the result of its
\* latest run, or of what was typed over it if no run since is as late.
THEOREM LatestRunIsShown == ASSUME OneHandler PROVE Spec => []RollUpIsLatest
  <1>1. ShowsInv => RollUpIsLatest
    BY ShownByRuns DEF RollUpIsLatest, Shown
  <1>2. ShowsInv /\ [Next]_vars => ShowsInv'
    BY ShowsStep
  <1>3. QED
    BY ShowsInit, <1>1, <1>2, PTL DEF Spec

\* record_result: with one handler in flight, failing_since is the first day of the
\* failures monitoring has observed since the last pass it observed.
THEOREM FailingSinceFirstFailure == ASSUME OneHandler PROVE Spec => []FailingSinceStartsStreak
  <1>1. ShowsInv => FailingSinceStartsStreak
    BY ShownByRuns DEF FailingSinceStartsStreak
  <1>2. ShowsInv /\ [Next]_vars => ShowsInv'
    BY ShowsStep
  <1>3. QED
    BY ShowsInit, <1>1, <1>2, PTL DEF Spec

\* A run is recorded when a handler ends one, or by hand; a run by hand is not observed, nor
\* is what was typed over.
LEMMA RecordingStep ==
    ASSUME ShowsInv, [Next]_vars, NEW t \in Tests, RunRecorded(t),
           Len(runs'[t]) \in ObservedIn(runs'[t])
    PROVE  \E w \in Workers, result \in Results, unreachable \in BOOLEAN :
              /\ FinishRun(w, result, unreachable)
              /\ inflight[w].on = t
              /\ Advances(test[t], inflight[w].day)
  <1>0. TypeOK /\ runs[t] \in Seq(Run) /\ test[t] \in TestRow /\ Shows(test[t], runs[t])
    BY DEF ShowsInv, TypeOK
  <1>1. runs'[t] # runs[t]
    BY <1>0 DEF RunRecorded
  <1>2a. ASSUME NEW u \in Tests, NEW run \in Run, run.source \in {"manual", "typed"},
                runs' = [runs EXCEPT ![u] = Append(@, run)]
         PROVE  FALSE
    <2>1. u = t
      BY <1>0, <1>1, <1>2a DEF TypeOK
    <2>2. runs'[t] = Append(runs[t], run)
      BY <1>0, <1>2a, <2>1 DEF TypeOK
    <2>3. runs'[t][Len(runs'[t])] = run
      BY <1>0, <1>2a, <2>2, AppendProperties
    <2>4. QED
      BY <1>2a, <2>3 DEF ObservedIn
  <1>2. ASSUME NEW u \in Tests, NEW lag \in Lags, NEW result \in {"passed", "failed", "error"},
               RecordByHand(u, lag, result)
        PROVE  FALSE
    <2> DEFINE run == [day |-> today - lag, result |-> result, source |-> "manual"]
    <2>1. runs' = [runs EXCEPT ![u] = Append(@, run)] /\ run \in Run /\ run.source = "manual"
      <3>1. runs' = [runs EXCEPT ![u] = Append(@, run)]
        BY <1>2 DEF RecordByHand
      <3>2. run \in Run
        BY <1>0, <1>2, ByHandWrites
      <3>3. QED
        BY <3>1, <3>2
    <2> HIDE DEF run
    <2>2. QED
      BY <1>2a, <2>1
  <1>2b. ASSUME NEW u \in Tests, NEW active \in BOOLEAN, NEW typed \in Typed \cup {Shown(u)},
                UpdateTest(u, active, typed)
         PROVE  FALSE
    <2>1. /\ TypedRun(typed) \in Run
          /\ runs' = runs \/ runs' = [runs EXCEPT ![u] = Append(@, TypedRun(typed))]
      BY <1>0, <1>2b, UpdateWrites
    <2>2. TypedRun(typed).source = "typed"
      BY DEF TypedRun
    <2>3. QED
      BY <1>1, <1>2a, <2>1, <2>2
  <1>3. PICK w \in Workers, result \in Results, unreachable \in BOOLEAN :
           FinishRun(w, result, unreachable)
    <2>1. CASE QuietStep \/ Tomorrow
      BY <1>1, <2>1 DEF QuietStep, Tomorrow
    <2>2. CASE \E w \in Workers, u \in Tests : RunNow(w, u) \/ \E lag \in Lags : Push(w, u, lag)
      BY <1>1, <2>2 DEF RunNow, Push, LoadRun
    <2>3. CASE \E w \in Sweepers, u \in Tests : SweepRun(w, u)
      BY <1>1, <2>3 DEF SweepRun, LoadRun
    <2>4. QED
      BY <1>0, <1>2, <1>2b, <2>1, <2>2, <2>3, StepsOfMonitoring
  <1> DEFINE h == inflight[w]
             run == [day |-> h.day, result |-> result, source |-> h.source]
  <1>4. /\ h.on \in Tests /\ run \in Run /\ run.day = h.day
        /\ runs' = [runs EXCEPT ![h.on] = Append(@, run)]
    BY <1>3, FinishRunFresh, FinishRunAppends
  <1> HIDE DEF run
  <1>5. h.on = t
    BY <1>0, <1>1, <1>4 DEF TypeOK
  <1>6. runs'[t] = Append(runs[t], run)
    BY <1>0, <1>4, <1>5 DEF TypeOK
  <1>7. Advances(test[t], run.day)
    <2> DEFINE s == runs[t]
               shown == test[t]
    <2>1. Len(s) + 1 \in ObservedIn(Append(s, run))
      BY <1>0, <1>4, <1>6, AppendProperties
    <2>2. /\ s \in Seq(Run) /\ shown \in TestRow /\ Shows(shown, s) /\ run \in Run
          /\ Len(s) + 1 \notin DOMAIN s
      BY <1>0, <1>4, AppendedRun
    <2> HIDE DEF s, shown
    <2>3. Len(s) + 1 \notin ObservedIn(s)
      BY <2>2 DEF ObservedIn
    <2>4. Advances(shown, run.day)
      BY <2>1, <2>2, <2>3, ObservedAppended
    <2>5. QED
      BY <2>4 DEF shown
  <1>8. QED
    BY <1>3, <1>4, <1>5, <1>7

LEMMA FailureTrackedStep ==
    OneHandler /\ ShowsInv /\ ShowsInv' /\ [Next]_vars =>
        [\A t \in Tests :
            RunRecorded(t) /\ (Len(runs[t]) \in Streak(t))' =>
                LET i == test'[t].issue IN
                i \in DOMAIN issues' /\ issues'[i] = [on |-> t, open |-> TRUE]]_vars
  <1> SUFFICES ASSUME ShowsInv, [Next]_vars, NEW t \in Tests,
                      RunRecorded(t), (Len(runs[t]) \in Streak(t))'
               PROVE  /\ test'[t].issue \in DOMAIN issues'
                      /\ issues'[test'[t].issue] = [on |-> t, open |-> TRUE]
    OBVIOUS
  <1>1. /\ Len(runs'[t]) \in ObservedIn(runs'[t])
        /\ runs'[t][Len(runs'[t])].result = "failed"
    BY DEF Streak, Observed, ObservedIn, LatestThen, LatestThenIn, Before, BeforeIn
  <1>2. PICK w \in Workers, result \in Results, unreachable \in BOOLEAN :
           /\ FinishRun(w, result, unreachable)
           /\ inflight[w].on = t
           /\ Advances(test[t], inflight[w].day)
    BY <1>1, RecordingStep
  <1> DEFINE h == inflight[w]
             run == [day |-> h.day, result |-> result, source |-> h.source]
  <1>3. /\ test'[t] = Recorded(h, result)
        /\ runs'[t] = Append(runs[t], run)
    BY <1>2, FinishRunShown
  <1>4. runs[t] \in Seq(Run) /\ run \in Run /\ run.result = result
    <2>1. run \in Run /\ run.result = result
      BY <1>2, FinishRunAppends
    <2>2. QED
      BY <2>1 DEF ShowsInv, TypeOK
  <1>5. result = "failed"
    <2> HIDE DEF run
    <2>1. runs'[t][Len(runs'[t])] = run
      BY <1>3, <1>4, AppendProperties
    <2>2. QED
      BY <1>1, <1>4, <2>1
  <1>6. QED
    BY <1>2, <1>3, <1>5, FinishRunIssue

\* open_or_update_issue: with one handler in flight, a failure monitoring observed last
\* and that counts leaves the test with an open issue of its own.
THEOREM FailuresAreTracked == ASSUME OneHandler PROVE Spec => FailureTracked
  <1>1. ShowsInv /\ [Next]_vars => ShowsInv'
    BY ShowsStep
  <1>2. ShowsInv /\ ShowsInv' /\ [Next]_vars =>
        [\A t \in Tests :
            RunRecorded(t) /\ (Len(runs[t]) \in Streak(t))' =>
                LET i == test'[t].issue IN
                i \in DOMAIN issues' /\ issues'[i] = [on |-> t, open |-> TRUE]]_vars
    BY FailureTrackedStep
  <1>3. QED
    BY ShowsInit, <1>1, <1>2, PTL DEF Spec, FailureTracked

\* What the rows say the signal should read is what the history says.
LEMMA SignalIsFailingFrom == ShowsInv => SignalOf(test) = FailingFrom
  <1> SUFFICES ASSUME ShowsInv PROVE SignalOf(test) = FailingFrom
    OBVIOUS
  <1> DEFINE failing == {t \in Tests : /\ Watched(test[t])
                                       /\ test[t].lastResult = "failed"
                                       /\ test[t].failingSince # NoDay}
  <1>1. ASSUME NEW t \in Tests
        PROVE  t \in failing <=> t \in FailingTests
    <2>1. test[t].failingSince = NoDay <=> Streak(t) = {}
      BY ShownByRuns
    <2>2. runs[t] = <<>> => Streak(t) = {}
      BY ShownByRuns
    <2>3. runs[t] # <<>> => test[t].lastResult = runs[t][Latest(t)].result
      BY ShownByRuns
    <2>4. QED
      BY <2>1, <2>2, <2>3 DEF FailingTests
  <1>2. failing = FailingTests
    BY <1>1 DEF FailingTests
  <1>3. {test[t].failingSince : t \in failing} = {StreakStart(t) : t \in FailingTests}
    <2>1. \A t \in FailingTests : test[t].failingSince = StreakStart(t)
      BY ShownByRuns DEF FailingTests
    <2> HIDE DEF failing
    <2>2. QED
      BY <1>2, <2>1
  <1>4. QED
    BY <1>2, <1>3 DEF SignalOf, FailingFrom

LEMMA SignalIsFailingFromNext == ShowsInv' => (SignalOf(test) = FailingFrom)'
  BY SignalIsFailingFrom, PTL

\* The rows refresh_control_signal reads are those the run leaves.
LEMMA RowsReadFresh ==
    ASSUME ShowsInv, NEW w \in Workers, NEW result \in Results, NEW unreachable \in BOOLEAN,
           FinishRun(w, result, unreachable)
    PROVE  RowsRead(inflight[w], Recorded(inflight[w], result)) = test'
  <1> DEFINE h == inflight[w]
             row == Recorded(h, result)
  <1>1. /\ TypeOK /\ h.op = "run" /\ h.on \in Tests /\ h.rows = test
        /\ result \in {"passed", "failed", "error"}
    BY FinishRunFresh
  <1>2. row \in TestRow /\ test' = [test EXCEPT ![h.on] = row]
    BY FinishRunStores
  <1>3. row.archived = test[h.on].archived
    BY <1>1, RecordedRow
  <1>4. ASSUME NEW r \in TestRow
        PROVE  [r EXCEPT !.archived = r.archived] = r
    BY DEF TestRow
  <1>5. test \in [Tests -> TestRow]
    BY <1>1 DEF TypeOK
  <1> HIDE DEF row
  <1>6. ASSUME NEW t \in Tests
        PROVE  [IF t = h.on THEN row ELSE IF h.source = "push" THEN h.rows[t] ELSE test[t]
                   EXCEPT !.archived = test[t].archived]
               = test'[t]
    <2>1. CASE t = h.on
      <3>1. [row EXCEPT !.archived = test[h.on].archived] = row
        BY <1>2, <1>3, <1>4
      <3>2. test'[t] = row
        BY <1>1, <1>2, <1>5, <2>1
      <3>3. QED
        BY <2>1, <3>1, <3>2
    <2>2. CASE t # h.on
      <3>1. [test[t] EXCEPT !.archived = test[t].archived] = test[t]
        BY <1>4, <1>5
      <3>2. test'[t] = test[t]
        BY <1>1, <1>2, <1>5, <2>2
      <3>3. QED
        BY <1>1, <2>2, <3>1, <3>2
    <2>3. QED
      BY <2>1, <2>2
  <1>7. test' = [t \in Tests |-> test'[t]]
    BY <1>2, <1>5
  <1>8. QED
    BY <1>6, <1>7 DEF RowsRead, row

LEMMA SignalFollowsStep ==
    OneHandler /\ ShowsInv /\ ShowsInv' /\ [Next]_vars =>
        [\A t \in Tests :
            RunRecorded(t) /\ (Len(runs[t]) \in Observed(t))' => signal' = FailingFrom']_vars
  <1> SUFFICES ASSUME ShowsInv, ShowsInv', [Next]_vars, NEW t \in Tests,
                      RunRecorded(t), (Len(runs[t]) \in Observed(t))'
               PROVE  signal' = FailingFrom'
    OBVIOUS
  <1>1. Len(runs'[t]) \in ObservedIn(runs'[t])
    BY DEF Observed, ObservedIn, LatestThen, LatestThenIn, Before, BeforeIn
  <1>2. PICK w \in Workers, result \in Results, unreachable \in BOOLEAN :
           /\ FinishRun(w, result, unreachable)
           /\ inflight[w].on = t
           /\ Advances(test[t], inflight[w].day)
    BY <1>1, RecordingStep
  <1> DEFINE h == inflight[w]
             row == Recorded(h, result)
             since == SignalOf(RowsRead(h, row))
  <1>3. h.rows = test /\ h.signal = signal
    BY <1>2 DEF FinishRun, ShowsInv
  <1>4. signal' = IF Advances(h.rows[h.on], h.day) /\ since # h.signal THEN since ELSE signal
    BY <1>2 DEF FinishRun, Recorded
  <1>5. signal' = since
    BY <1>2, <1>3, <1>4
  <1>6. since = SignalOf(test')
    BY <1>2, RowsReadFresh
  <1>7. (SignalOf(test) = FailingFrom)'
    BY SignalIsFailingFromNext
  <1>8. QED
    BY <1>5, <1>6, <1>7

\* refresh_control_signal: with one handler in flight, the result of a check or a feed
\* that counts leaves the signal at the first day of the longest streak of failures among
\* the watched tests whose latest run failed.
THEOREM SignalFollows == ASSUME OneHandler PROVE Spec => SignalFollowsRuns
  <1>1. ShowsInv /\ [Next]_vars => ShowsInv'
    BY ShowsStep
  <1>2. ShowsInv /\ ShowsInv' /\ [Next]_vars =>
        [\A t \in Tests :
            RunRecorded(t) /\ (Len(runs[t]) \in Observed(t))' => signal' = FailingFrom']_vars
    BY SignalFollowsStep
  <1>3. QED
    BY ShowsInit, <1>1, <1>2, PTL DEF Spec, SignalFollowsRuns
=============================================================================
