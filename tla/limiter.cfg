SPECIFICATION Spec
CONSTANTS
    Clients = {c1, c2}
    Proxies = {x1}
    Junk = Junk
    Handlers = {h1, h2}
    Buckets = {b1, b2, b3}
    NoBucket = NoBucket
    Period = 2
    Burst = 2
    TTL = 4
    MaxStall = 1
    MaxWindow = 6
SYMMETRY Symmetry
INVARIANTS
    TypeOK
    RateKept
PROPERTIES
    ImplementsBuckets
