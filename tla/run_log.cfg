\* The timer's runs beside an operator's commands, from the very first start.
SPECIFICATION FairSpec
CONSTANTS
    k1 = k1
    k2 = k2
    p1 = p1
    p2 = p2
    Proc = {p1, p2}
    Pkgs = {k1}
    Declared <- MCDeclared
    Commands <- TimerAndOperator
    Objects <- MCObjects
    Scripts <- MCScripts
    MaxRuns = 2
    MaxCrashes = 1
INVARIANTS TypeOK OpenIsMigrated CleanRunsAreClean ReportIsOneRun
PROPERTIES FinishedRunsStay DatabaseOpens RunsEnd
