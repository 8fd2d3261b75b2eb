CONSTANTS
    c1 = c1
    c2 = c2
    r1 = r1
    r2 = r2
    n1 = n1
    n2 = n2
    k1 = k1
    e1 = e1
    Calls = {c1, c2}
    Replicas = {r1, r2}
    OldDevice = old
    Names = {n1}
    NLetters = 2
    Keys = {k1}
    Endpoints = {e1}
    None = none
    Requests <- KeyRequests
    HasFile = {r1, r2}
    Mortal = {r1, r2}
    MaxTries = 1
    MaxReads = 1
SPECIFICATION Spec
INVARIANTS SecretsAgree
PROPERTIES EditsAreAtomic
SYMMETRY MCSymmetry
