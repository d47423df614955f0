CONSTANTS
    Value = {"a", "b"}
    None = "none"
    Size = 4
    Proc = {"Kernel", "r1", "r2"}
    Kernel = "Kernel"
    NoProc = "NoProc"
    Order <- InitialOrder
    WaitQueue = {"waiters", "readers", "events"}
    Letters = {"a"}
    NoChar = "NoChar"
    Forked = 1
    InputSize = 3
    LineSize = 2
    EventSize = 2
    MaxLen = 2
    MaxKeys = 3
    MaxFrames = 1
SPECIFICATION TerminalSpec
INVARIANTS
    InputExact
    OutputExact
PROPERTIES
    ImplementsQueue
    
