SPECIFICATION Spec
CONSTANTS
    Day = 6
    TickMinutes = 25
    Forms <- SmallForms
    Settings <- SmallSettings
    Fallback <- DefaultDefaults
    Courts = 2
    Capacity = 2
    HeadLimit = 2
    Horizon = 13
    Requests = {r1, r2}
    r1 = r1
    r2 = r2
SYMMETRY Interchangeable
INVARIANTS
    TypeOK
    ShownAsOpen
    SharesCoverCost
    SavedWhole
    PrefillAccepted
PROPERTIES
    TimeOnlyCloses
    ShareNeverRises
    SessionAsInRsvp
