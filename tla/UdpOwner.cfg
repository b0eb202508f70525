SPECIFICATION FairSpec
CONSTANTS
    batch1 = batch1
    send1 = send1
    close1 = close1
    None = None
    Requests <- Mixed
    Op <- MixedOp
    Size <- MixedSize
    Poll <- MixedPoll
    MaxCalls = 3
    MaxBytes = 1
    MaxTakes = 3
    BatchMax = 2
    MaxDeaths = 1
    MaxSelects = 1
INVARIANTS ServiceDiscipline Answers
PROPERTY Served
CHECK_DEADLOCK FALSE
