CONSTANTS
    NChunks = 3
    OldFile <- OldFileOf4
    MaxResumes = 1
    Versions <- TwoVersions
    MaxLen = 3
    MaxAttempts = 2
    MaxChanges = 1
    MaxRetries = 2
    MaxDamage = 2
    MaxDrops = 1
SPECIFICATION FairSpec
INVARIANTS
    SuccessIsIntact
    VerifiedIsIntact
    VerifiedIsOneVersion
    DamageIsRepaired
PROPERTIES
    PushReturns
    PullReturns
CHECK_DEADLOCK FALSE
