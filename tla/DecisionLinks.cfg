\* One request that needs two or three approvals; ann is asked by e-mail, ben decides
\* in the app.  One link, two handlers at a time.
SPECIFICATION Spec
CONSTANTS
    ann = ann  ben = ben  mo = mo  q1 = q1
    Users = {ann, ben, mo}
    Requests <- OneRequest
    Maker <- MoMakes
    Asked <- AnnIsAsked
    ByHand = {2, 3}
    Leavers = {ann}
    SoD = TRUE
    MaxLinks = 1
    Slots = {1, 2}
INVARIANTS
    TypeOK
    LinkDecidesOnce
    QuorumOfPeople
    MailAfterCommit
PROPERTIES
    ConfirmAnswered
