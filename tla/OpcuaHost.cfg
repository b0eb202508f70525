SPECIFICATION Spec
CONSTANTS
    Ring = 9
    CacheSize = 2
    Republish = 2
    Slots = {1, 2}
    Chains = {1}
    Subs = {1}
    MaxPages = 3
    Ready = 4
    HeldLimit = 4
    PublishLimit = 1
    Workloads <- Loads
    MaxIds = 3
    MaxHandle = 3
    OutFrames = 1
    Credit = 1
INVARIANTS HonestAnswers SlotCustody ContinuationOwned StreamDiscipline
CHECK_DEADLOCK FALSE
