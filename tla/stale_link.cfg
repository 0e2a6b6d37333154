\* A ledger that lost track of a creation is linked by.
SPECIFICATION Spec
CONSTANTS
    a1 = a1
    a2 = a2
    s1 = s1
    s2 = s2
    c1 = c1
    c2 = c2
    p1 = p1
    p2 = p2
    none = none
    Proc = {p1}
    Apps = {a1, a2}
    Confs = {c1, c2}
    AutoUpdate = {c2}
    Names <- MCNames
    Rank <- RankNatural
    Servers <- OneVersion
    Commands <- ApplyOnly
    Signers = {s1, s2}
    Offers <- TwoOffers
    Entries <- Auto
    NoApp = none
    NoSigner = none
    OperatorMoves = {}
    OperatorVersions <- Entered
    Budget <- LostAfterFault
PROPERTIES AutoUpdatedStay
