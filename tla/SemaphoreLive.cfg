CONSTANTS
    Proc = {Kernel, t1, t2, t3}
    Kernel = Kernel
    NoProc = NoProc
    WaitQueue = {"waiters"}
    Limit = 1
    MaxSleep = 0
    MaxFrames = 1
SPECIFICATION FairSpec
PROPERTY WaiterEnters
