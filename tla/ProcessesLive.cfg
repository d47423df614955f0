CONSTANTS
    Kernel = Kernel
    Terminator = Terminator
    InitProc = InitProc
    NoProc = NoProc
    Proc = {Kernel, Terminator, InitProc, u1}
    WaitQueue <- ProcWaitQueues
    MaxChildren = 2
    MaxSleep = 1
    MaxFrames = 2
SPECIFICATION FairSpec
PROPERTIES
    ReadyRuns
    SleeperRuns
    WaitpidReturns
    OrphansFreed
