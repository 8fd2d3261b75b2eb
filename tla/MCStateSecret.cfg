CONSTANTS
    c1 = c1
    c2 = c2
    r1 = r1
    r2 = r2
    n1 = n1
    n2 = n2
    k1 = k1
    e1 = e1
    Calls = {c1, c2}
    Replicas = {r1, r2}
    OldDevice = old
    Names = {n1, n2}
    NLetters = 2
    Keys = {k1}
    Endpoints = {e1}
    None = none
    Requests <- RegistryRequests
    HasFile = {}
    Mortal = {}
    MaxTries = 1
    MaxReads = 2
SPECIFICATION Spec
INVARIANTS TypeOK DevicesAreDistinct
SYMMETRY MCSymmetry
