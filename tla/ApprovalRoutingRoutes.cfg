CONSTANTS
    maker = maker
    alice = alice
    bob = bob
    r1 = r1
    Nobody = Nobody
    Users <- MCEveryone
    Writers = {maker, alice}
    Checkers = {maker, alice, bob}
    Admins = {alice}
    Mandated <- MCMandated
    Records <- MCRecords
    EnteredBy <- MCEnteredBy
    NumStages = 2
    Required <- SixEyesFirst
    ByHand = {}
    Holders <- MakerLast
    SoD = TRUE
    MaxRequests = 4
    MaxRoutes = 2
    Slots = {s1}
SPECIFICATION Spec
INVARIANTS
    TypeOK
    ClosedRouteIsSettled
    PendingCanBeGranted
PROPERTIES
    ImplementsSignOff
    ApprovalFinishesRoute
