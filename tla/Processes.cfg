CONSTANTS
    Kernel = Kernel
    Terminator = Terminator
    InitProc = InitProc
    NoProc = NoProc
    Proc = {Kernel, Terminator, InitProc, u1, u2}
    WaitQueue <- ProcWaitQueues
    MaxChildren = 2
    MaxSleep = 2
    MaxFrames = 2
SPECIFICATION Spec
SYMMETRY Symmetry
INVARIANTS
    WaitersWillBeWoken
    WokenFindsZombie
    LockCountExact
    SchedInv
    FamilyInv
PROPERTIES
    WakeOnTime
    FreeOnlyDead
