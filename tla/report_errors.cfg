\* The last run recorded an error that its count leaves out.
SPECIFICATION Spec
CONSTANTS
    k1 = k1
    k2 = k2
    p1 = p1
    p2 = p2
    Proc = {p1}
    Pkgs = {k1}
    Declared <- MCDeclared
    Commands <- RunAndReport
    Objects <- MCObjects
    Scripts <- MCScripts
    MaxRuns = 2
    MaxCrashes = 0
INVARIANTS ErrorsFailTheReport
