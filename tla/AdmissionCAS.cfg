SPECIFICATION Spec
CONSTANTS
    big = big
    small = small
    poll = poll
    close = close
    Requests <- Callers
    Op <- CallerOp
    Size <- CallerSize
    Poll <- CallerPoll
    MaxCalls = 2
    MaxBytes = 3
    MaxTakes = 1
    Attempts = 2
INVARIANTS OwnerLossesBounded QueueKept
PROPERTY Refinement
CHECK_DEADLOCK FALSE
