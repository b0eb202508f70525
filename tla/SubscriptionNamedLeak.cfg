SPECIFICATION Spec
CONSTANTS
    OpeningLimit = 1
    Overflow = "none"
    MaxQueue = 0
    NamedReceiver = TRUE
    Stoppers = {c1}
    Faults = {}
    MaxEvents = 1

INVARIANT HandleReleased
CHECK_DEADLOCK FALSE
