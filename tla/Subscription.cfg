SPECIFICATION FairSpec
CONSTANTS
    OpeningLimit = 1
    Overflow = "stop"
    MaxQueue = 1
    NamedReceiver = FALSE
    Stoppers = {c1}
    Faults = {"guardian_crash", "worker_crash", "brutal_kill"}
    MaxEvents = 2
INVARIANTS Custody Delivery BufferDiscipline
PROPERTY Ends
CHECK_DEADLOCK FALSE
