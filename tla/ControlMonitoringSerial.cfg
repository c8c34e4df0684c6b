CONSTANTS
    t1 = t1
    t2 = t2
    w1 = w1
    w2 = w2
    Tests = {t1, t2}
    Freq <- DailyAndSlower
    Flaky = {}
    Verdicts = {"passed", "failed", "error"}
    Lags = {0, 1}
    Typed <- TypedOver
    Workers = {w1}
    Sweepers = {w1}
    Leader = w1
    FirstDay = 2
    MaxDay = 3
    MaxEvents = 2
SPECIFICATION Spec
INVARIANTS
    TypeOK
    RollUpIsLatest
    FailingSinceStartsStreak
    SignalWitnessed
PROPERTIES
    FailureTracked
    SignalFollowsRuns
