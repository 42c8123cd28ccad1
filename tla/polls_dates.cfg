SPECIFICATION Spec
CONSTANTS
    NoDate = NoDate
    Requests = {r1, r2}
    Polls = {p1}
    Titles = {t1}
    Instants = {1, 2}
    Offsets = {0}
    OptionCounts = {2}
INVARIANT
    DatesOrdered
CHECK_DEADLOCK FALSE
