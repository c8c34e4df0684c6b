CONSTANTS
    maker = maker
    alice = alice
    bob = bob
    r1 = r1
    Nobody = Nobody
    Users <- MCEveryone
    Writers = {maker}
    Checkers = {maker, alice, bob}
    Admins = {bob}
    Mandated <- MCMandated
    Records <- MCRecords
    EnteredBy <- MCEnteredBy
    NumStages = 2
    Required <- TwoStages
    ByHand = {2}
    Holders <- NoRoles
    SoD = TRUE
    MaxRequests = 2
    MaxRoutes = 1
    Slots = {s1, s2}
SPECIFICATION Spec
SYMMETRY SlotSymmetry
INVARIANTS
    GrantedHasQuorum
    ApprovalBacked
    StagesInOrder
    LiveRouteWaits
