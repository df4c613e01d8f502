SPECIFICATION MailingSpec
CONSTANTS
    Players = {ann, bob}
    ann = ann
    bob = bob
    Requests = {r1, r2}
    r1 = r1
    r2 = r2
    Kinds <- Invitations
    GuestLimit = 0
    Capacity = 1
    LastPosition = 2
SYMMETRY Interchangeable
PROPERTIES
    DoubleClickGuarded
