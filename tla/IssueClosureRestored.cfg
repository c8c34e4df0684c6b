SPECIFICATION Spec
CONSTANTS
    maker = maker
    other = other
    People = {maker, other}
    Acceptances = {a1, a2}
    LastDay = 1
    Issues = {i1}
    ControlMaker = maker
    KeyControl = TRUE
    TestDays <- MCTestDays
    Outcomes <- MCOutcomes
    DueDates <- MCDueDates
    NoDueDate = 3
    MaxTests = 2
    MaxMoves = 2
    Scopes <- MCTests
    Nobody = Nobody
INVARIANTS
    OpenIssueHoldsControl
CHECK_DEADLOCK FALSE
