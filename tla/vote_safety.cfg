SPECIFICATION Spec
CONSTANTS
    p1 = p1
    o1 = o1
    o2 = o2
    oX = oX
    NoVote = NoVote
    Requests = {r1, r2}
    Users = {u1, u2}
    Polls = {p1}
    Options = {o1, o2, oX}
    OptionsOf <- TwoOptions
    Workers = {w1, w2}
    Capacity = 1
    MaxAttempts = 2
    Faults = {"before", "after"}
    MaxStarts = 2
SYMMETRY Symmetry
INVARIANTS
    TypeOK
    AcceptedOnceAndKept
    Accounted
    NeverOvercounts
    GatedByPoll
    DeletedLeavesNothing
    ShutdownIsOrderly
CHECK_DEADLOCK FALSE
