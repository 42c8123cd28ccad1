SPECIFICATION FairSpec
CONSTANTS
    p1 = p1
    p2 = p2
    b1 = b1
    b2 = b2
    NoEntry = NoEntry
    Readers = {r1, r2}
    Ballots = {b1, b2}
    Polls = {p1}
    PollOf <- OnePoll
    TTL = 1
    DBFails = TRUE
INVARIANTS
    TypeOK
    DeletedNotServed
    ReadIsNotBehind
    InvalidationTakesHold
PROPERTIES
    CountedBecomesVisible
