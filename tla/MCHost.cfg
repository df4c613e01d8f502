SPECIFICATION Spec
CONSTANTS
    Migrations = 2
    Passwords = {"p1", "p2"}
    Keep = 2
    Horizon = 2
    FaultLimit = 2
INVARIANTS
    TypeOK
    AccountSurvives
PROPERTIES
    CopiesKept
    Serves
    BackedUp
