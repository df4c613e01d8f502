INIT MCInit
NEXT MailingNext
CONSTANTS
    Players = {ann, bob}
    ann = ann
    bob = bob
    Requests = {r1, r2}
    r1 = r1
    r2 = r2
    Kinds <- MixedKinds
    GuestLimit = 0
    Capacity = 1
    LastPosition = 2
VIEW UpToMark
SYMMETRY PeopleAlike
INVARIANTS
    MailingTypeOK
    NobodyUninformed
    LinksWork
    InvitationOpens
