\* What eventually happens while approval stays on.
SPECIFICATION FairSpec
CONSTANTS
    a1 = a1
    a2 = a2
    s1 = s1
    s2 = s2
    c1 = c1
    c2 = c2
    p1 = p1
    p2 = p2
    none = none
    Proc = {p1}
    Apps = {a1, a2}
    Confs = {c1, c2}
    AutoUpdate = {c2}
    Names <- MCNames
    Rank <- RankTextual
    Servers <- OneVersion
    Commands <- AnyCommand
    Signers = {s1, s2}
    Offers <- TwoOffers
    Entries <- AutoOrManual
    NoApp = none
    NoSigner = none
    OperatorMoves = {"yaml"}
    OperatorVersions <- Entered
    Budget <- BudgetLinked
PROPERTIES CreatedGetsLinked ArrivesUnlessLost
