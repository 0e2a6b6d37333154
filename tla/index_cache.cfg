\* Two refreshes that may overlap, a crash, and a mirror that lags.
SPECIFICATION Spec
CONSTANTS
    a = a
    b = b
    k1 = k1
    k2 = k2
    k3 = k3
    v1 = v1
    v2 = v2
    p1 = p1
    p2 = p2
    Pkgs = {a, b}
    Keys = {k1, k2, k3}
    Kept = {k1, k2}
    Vals = {v1, v2}
    Null = Null
    Proc = {p1, p2}
    NoFile = NoFile
    Empty = Empty
    Torn = Torn
    NoRead = NoRead
    Published <- MCPublished
    Wanted <- MCWanted
    DiffWindow = 1
    MaxIndexes = 2
    MaxCrashes = 1
    MaxLags = 1
INVARIANTS TypeOK FileIsCoherent
PROPERTIES ImplementsReads
