SPECIFICATION FairSpec
CONSTANTS
    Nobody = Nobody
    Calls = {c1, c2}
    Accounts = {1, 2, 3}
    Strangers = {4}
    Amounts = {0, 1, 2}
    MaxBalance = 2
INVARIANTS
    TypeOK
    MoneyConserved
    AnswerIsTrue
PROPERTIES
    ImplementsBank
    EveryCallReturns
CHECK_DEADLOCK FALSE
