SPECIFICATION RequestsSpec
CONSTANTS
    Players = {ann, bob}
    ann = ann
    bob = bob
    Requests = {r1, r2}
    r1 = r1
    r2 = r2
    GuestLimit = 1
    Capacity = 2
    LastPosition = 2
    Statuses = {"open"}
    MuddledLimit = 1
SYMMETRY Interchangeable
INVARIANTS
    RequestsTypeOK
    LastWordTrue
    LedgerTrue
