SPECIFICATION Spec
CONSTANTS
    Clients = {c1, c2}
    c1 = c1
    c2 = c2
    Requests = {r1, r2}
    r1 = r1
    r2 = r2
    Price = 2
    Burst = 3
    Idle = 5
    Delay = 1
    Horizon = 13
SYMMETRY Interchangeable
INVARIANTS
    TypeOK
    NeverAhead
PROPERTIES
    RefusedForCause
