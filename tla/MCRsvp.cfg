SPECIFICATION Spec
CONSTANTS
    Players = {ann, bob, cat}
    ann = ann
    bob = bob
    cat = cat
    GuestLimit = 1
    Capacity = 3
    LastPosition = 4
SYMMETRY Interchangeable
INVARIANTS
    TypeOK
    WaitlistPlaced
    DistinctPositions
PROPERTIES
    NeverOverbooks
    ReconfirmKeepsPlace
    AnswersKept
    QueueNeverReordered
    ImplementsBooking
