SPECIFICATION Spec
CONSTANTS
    Staff = {a, b}
    MaxSlots = 2
    MaxRequests = 1
    Horizon = 2
    MaxOperations = 3
INVARIANT NoEntryAfterEnd
CHECK_DEADLOCK FALSE
