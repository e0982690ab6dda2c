CONSTANTS
    a1 = a1
    a2 = a2
    a3 = a3
    Apps = {a1}
    NoApp = NoApp
    AppName <- AppNames
    Kinds = {"exec"}
    SendMemUsers = {}
    Fair = {}
    AB_MAX_CLIENTS = 2
    IPC_MSG_POOL_SIZE = 8
    MSG_POOL_SIZE = 4
    MaxReqs = 1
    MaxSends = 3
SPECIFICATION Spec
INVARIANTS
    ExecRepliesReachLivePorts
CHECK_DEADLOCK FALSE
