CONSTANTS
    Users = {u1, u2}
    Reconnects = {r1, r2}
    Slots = {s1, s2, s3}
    None = None
    MaxCalls = 2
    MaxFaults = 2
SPECIFICATION FairSpec
INVARIANTS
    EventsTellTheState
    LossIsRearmed
    ConnectedIsAttended
PROPERTIES
    OffUntilUserConnects
    Recovers
CHECK_DEADLOCK FALSE
