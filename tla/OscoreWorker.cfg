SPECIFICATION Spec
CONSTANTS
    Ring = 8
    Window = 5
    Workloads <- MCWorkloads
    MaxCmds = 4
    MaxOdd = 1
    Start = 6
    OutFrames = 3
INVARIANTS AnsweredOnce ReportsKept ObserverReleased
CHECK_DEADLOCK FALSE
