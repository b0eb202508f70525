SPECIFICATION Spec
CONSTANTS
    Procs = {1, 2}
    Materials <- MCMaterials
    SaltPad = 1
    MaxContexts = 2
    Limit = 2
    Freq = 1
    MaxOpens = 3
    MaxLosses = 1
INVARIANTS NonceUnique SequenceReserved LeaseExclusive
CHECK_DEADLOCK FALSE
