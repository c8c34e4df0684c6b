\* Two questions, the second a follow-up of the first; one file per answer.
SPECIFICATION Spec
CONSTANTS
    yes = yes  no = no  name = name  ann = ann  ben = ben  Blank = Blank  Hidden = Hidden
    N = 2
    Options <- YesNoOrName
    Rules <- FollowUp
    AnyRule = {}
    Mandatory = {2}
    Flagged <- FirstYes
    Ratings = {"low", "high"}
    Rating <- Band
    Staff = {ann, ben}
    DualControl = TRUE
    StatusEdits = {"draft", "sent", "in_progress"}
    MaxFiles = 1
SYMMETRY StaffSymmetry
INVARIANTS
    TypeOK
    
    RatingExplained
    
PROPERTIES
    RoundOnlyWidens
    AcceptedKept
    FindingsFollowAnswers
