CONSTANTS
    c1 = c1
    c2 = c2
    Conns = {c1, c2}
    None = None
    MaxLine = 2
    MaxBytes <- Bytes
SPECIFICATION FairSpec
PROPERTIES
    NewConnectionReplaces
