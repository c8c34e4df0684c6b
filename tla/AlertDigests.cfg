CONSTANTS
    ann = ann
    bob = bob
    team = team
    everyone = everyone
    overdue = overdue
    lapse = lapse
    People = {ann, bob}
    Recipients = {ann, bob, team, everyone}
    Everyone = everyone
    Reach <- AnnReads
    Alerts = {overdue}
    Addressings = {{}, {everyone}, {bob}, {bob, team}}
    Events = {lapse}
    EventTo <- LapseTo
    FirstLookback = 2
    MaxLookback = 3
    MaxClock = 6
SPECIFICATION Spec
INVARIANTS
    TypeOK
    NothingSkipped
PROPERTIES
    NotToldAgain
CHECK_DEADLOCK FALSE
