CONSTANTS
    Proc = {Kernel, t1, t2, t3, t4}
    Kernel = Kernel
    NoProc = NoProc
    WaitQueue = {"waiters"}
    Limit = 2
    MaxSleep = 2
    MaxFrames = 2
SPECIFICATION TasksSpec
SYMMETRY Symmetry
INVARIANT
    PermitsExact
PROPERTIES
    FirstComeFirstServed
    ScriptsSafe
