\* Both questions must be answered; the status changes by the workflow only.
SPECIFICATION Spec
CONSTANTS
    yes = yes  no = no  name = name  ann = ann  ben = ben  Blank = Blank  Hidden = Hidden
    N = 2
    Options <- YesNoOrName
    Rules <- FollowUp
    AnyRule = {}
    Mandatory = {1, 2}
    Flagged <- FirstYes
    Ratings = {"low", "high"}
    Rating <- Band
    Staff = {ann, ben}
    DualControl = TRUE
    StatusEdits = {}
    MaxFiles = 1
INVARIANTS
    RoundCanFinish
