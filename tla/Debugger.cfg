\* A loop of three instructions, one of them ab_poll, and two breakpoints: one can
\* be hit while another is in use, cleared, or set behind the program.
CONSTANTS
    Size = 3
    Polls = {3}
    MAX_BREAKPOINTS = 2
    Decimal <- MCDecimal
    MaxCommands = 8

SPECIFICATION Spec

INVARIANTS
    TrapsAreListed
    PausedTargetIsKnown
    CounterIsRight
    DetachedIsFree

CHECK_DEADLOCK FALSE
