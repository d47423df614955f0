CONSTANTS
    Proc = {Kernel, t1, t2}
    Kernel = Kernel
    NoProc = NoProc
    WaitQueue = {"waiters"}
    Limit = 2
    MaxSleep = 2
    MaxFrames = 2
SPECIFICATION Spec
PROPERTY AddedReady
