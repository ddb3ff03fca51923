CONSTANTS
    ToolCalls <- MCToolCalls
    MaxUses = 2
    MaxTurns = 4
SPECIFICATION Spec
INVARIANT SessionClosedAtExit
CHECK_DEADLOCK FALSE
