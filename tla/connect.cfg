SPECIFICATION Spec
CONSTANTS
    Deadline = 30
    PingTimeout = 4
    Delay = 1
    Attempts = 15
    Pause = 2
INVARIANTS
    TypeOK
    UpIsNotMissed
PROPERTIES
    Returns
CHECK_DEADLOCK FALSE
