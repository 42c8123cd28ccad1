SPECIFICATION Spec
CONSTANTS
    Nobody = Nobody
    Calls = {c1, c2}
    Accounts = {1, 2}
    Strangers = {}
    Amounts = {1}
    MaxBalance = 2
INVARIANT
    NoDeadlock
CHECK_DEADLOCK FALSE
