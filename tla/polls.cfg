SPECIFICATION Spec
CONSTANTS
    NoDate = NoDate
    Requests = {r1, r2}
    Polls = {p1}
    Titles = {t1, t2}
    Instants = {1, 2}
    Offsets <- Zones
    OptionCounts = {1, 2}
SYMMETRY Symmetry
INVARIANTS
    TypeOK
    ReadIsWhole
    DatesOrderedUnlessRaced
PROPERTIES
    OnlySentColumnsChange
    ImplementsBook
CHECK_DEADLOCK FALSE
