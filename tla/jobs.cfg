SPECIFICATION Spec
CONSTANTS
    m1 = m1
    m2 = m2
    Anywhere = Anywhere
    Starts = {s1, s2}
    Clients = {k1}
    Samples <- TwoCompanies
    Times = {1, 2}
    Limits = {0, 3}
    DefaultLimit = 1
    MaxLimit = 2
SYMMETRY Symmetry
INVARIANTS
    TypeOK
    WalkIsWhole
    WalkIsSnapshot
