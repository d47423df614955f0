CONSTANTS
    Proc = {"Kernel", "Terminator", "watch_1", "watch_2", "monitor"}
    Kernel = "Kernel"
    Terminator = "Terminator"
    NoProc = "none"
    WaitQueue = {"queue", "postponed"}
    MaxSleep = 2
    MaxFrames = 1
SPECIFICATION FairSpec
PROPERTY
    WatchesFreed
