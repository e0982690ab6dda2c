\* BREAK signals CTRL_E and CTRL_F together.
CONSTANTS
    Size = 3
    Polls = {3}
    MAX_BREAKPOINTS = 1
    Decimal <- MCDecimal
    MaxCommands = 2

SPECIFICATION FairSpec

PROPERTY BreakPauses

CHECK_DEADLOCK FALSE
