SPECIFICATION Spec
CONSTANTS
    MaxIds = 4
    Window = 2
    Frames = 2
    QueueFrames = 3
    QueueLimit = 2
    ReplyLimit = 3
    Chars = {1, 2}
    Boot = 1
    Tries = 2
    Workloads <- Loads
INVARIANTS AnsweredOnce LinkCustody DaemonCustody StreamDiscipline
CHECK_DEADLOCK FALSE
