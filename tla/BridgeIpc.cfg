CONSTANTS
    a1 = a1
    a2 = a2
    a3 = a3
    Apps = {a1, a2}
    NoApp = NoApp
    AppName <- AppNames
    Kinds = {"exec", "hook", "shutdown"}
    SendMemUsers = {a2}
    Fair = {a1}
    AB_MAX_CLIENTS = 2
    IPC_MSG_POOL_SIZE = 1
    MSG_POOL_SIZE = 2
    MaxReqs = 2
    MaxSends = 2
SPECIFICATION FairSpec
INVARIANTS
    TypeOK
    RegistryIsSound
    PooledMessagesAreHeld
    RequestsAreNotLost
    HookNeverDeadlocks
    HookRepliesReachLivePorts
PROPERTIES
    CallsReturn
CHECK_DEADLOCK FALSE
