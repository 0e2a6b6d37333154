\* One process at a time, every fault and a crash, packages.yaml edited;
\* nobody else writes to Headwind.
SPECIFICATION Spec
CONSTANTS
    a1 = a1
    a2 = a2
    s1 = s1
    s2 = s2
    c1 = c1
    c2 = c2
    p1 = p1
    p2 = p2
    none = none
    Proc = {p1}
    Apps = {a1, a2}
    Confs = {c1, c2}
    AutoUpdate = {c2}
    Names <- MCNames
    Rank <- RankNatural
    Servers <- EitherVersions
    Commands <- AnyCommand
    Signers = {s1, s2}
    Offers <- AllOffers
    Entries <- AllEntries
    NoApp = none
    NoSigner = none
    OperatorMoves = {"yaml"}
    OperatorVersions <- Entered
    Budget <- BudgetCore
INVARIANTS TypeOK CreatedExists PushedIsDelivered RunMatchesRow RunMatchesServer
PROPERTIES ImplementsLedger PublicationGuarded InstallersStable NoDowngrade NoUnapprovedDelivery
