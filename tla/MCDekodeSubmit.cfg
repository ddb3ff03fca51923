CONSTANTS
    WireStatuses = {"ACCEPTED", "REJECTED", "CONFLICT"}
    MaxVersion = 3
SPECIFICATION Spec
INVARIANT VersionCurrent
CHECK_DEADLOCK FALSE
