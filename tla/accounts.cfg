SPECIFICATION Spec
CONSTANTS
    Requests = {r1, r2}
    Emails = {e1, e2}
    Passwords = {p1, p2}
    Seed = e1
    DBFails = TRUE
SYMMETRY Symmetry
INVARIANTS
    TypeOK
    RegistrationIsExclusive
    ActsWithStanding
PROPERTY
    AdminsComeFromAdmins
