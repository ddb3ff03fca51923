CONSTANTS
    ToolCalls <- MCToolCalls
    MaxUses = 2
    MaxTurns = 4
SPECIFICATION Spec
INVARIANTS TypeOK TranscriptWellFormed
PROPERTY SessionOpsOnOpen
\* main() returns or raises: its final states have no successor.
CHECK_DEADLOCK FALSE
