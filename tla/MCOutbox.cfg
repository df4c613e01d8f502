SPECIFICATION Spec
CONSTANTS
    Messages = 3
    BatchLimit = 2
    Handlers = {h1}
    FaultLimit = 1
INVARIANTS
    TypeOK
    ClaimsAreFresh
    ScheduleFollowed
    SentOnceBarFaults
    NoLostWake
