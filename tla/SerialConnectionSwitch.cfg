CONSTANTS
    Users = {u1}
    Reconnects = {r1, r2}
    Slots = {s1, s2, s3}
    None = None
    MaxCalls = 2
    MaxFaults = 2
SPECIFICATION Spec
PROPERTIES
    ReconnectObeysTheSwitch
CHECK_DEADLOCK FALSE
