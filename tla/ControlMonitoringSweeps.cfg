CONSTANTS
    t1 = t1
    t2 = t2
    w1 = w1
    w2 = w2
    Tests = {t1, t2}
    Freq <- DailyAndRare
    Flaky = {t1}
    Verdicts = {"error"}
    Lags = {}
    Typed <- OldPassOnly
    Workers = {w1, w2}
    Sweepers = {w1, w2}
    Leader = w1
    FirstDay = 2
    MaxDay = 3
    MaxEvents = 1
SPECIFICATION Spec
INVARIANTS
    ScheduledRunsApart
PROPERTIES
    DueIsRun
    OverdueIsAlerted
