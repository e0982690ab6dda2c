CONSTANTS
    c1 = c1
    c2 = c2
    bp = bp
    bad = bad
    gdb = gdb
    w1 = w1
    w2 = w2
    Callers = {c1, c2}
    Process = Process
    NoOne = NoOne
    Points = {bp, bad, gdb, w1, w2}
    Watches = {w1, w2}
    GdbWatches = {gdb}
    Refused = {bad}
    NoPoint = NoPoint
    MaxSkip = 1
    MaxCalls = 4
    MaxDrops = 1
    MaxGui = 1
SPECIFICATION Spec
SYMMETRY Symmetry
INVARIANTS
    PointsAgree
    RepliesAreOwn
    StopIsKnown
    PauseIsNotLost
CHECK_DEADLOCK FALSE
