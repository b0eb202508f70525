SPECIFICATION FairSpec
CONSTANTS
    read1 = read1
    write1 = write1
    NoCall = NoCall
    Calls = {read1, write1}
    Writes = {write1}
    MaxPending = 2
    Transactions = 3
    FirstId = 2
    MaxFrames = 3
INVARIANTS Serialized HonestAnswers
PROPERTY EveryCallEnds
CHECK_DEADLOCK FALSE
