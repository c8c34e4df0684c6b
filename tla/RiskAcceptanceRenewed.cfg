SPECIFICATION RiskSpec
CONSTANTS
    People = {maker, other}
    Acceptances = {a1, a2}
    LastDay = 1
PROPERTIES
    RenewedStaysAccepted
CHECK_DEADLOCK FALSE
