CONSTANTS
    PageSize = 4
    LastAddr = 55
    Attr = {"rw"}
    MinVaddr = 4
    Vaddrs = {4, 6, 13, 24}
    StackPages = 5
    Word = 2
    StackAlign = 4
    Strings = {1, 2, 18}
    MaxArgs = 2
    MaxEnv = 1
    Junk = Junk
    Programs <- FittingPrograms
SPECIFICATION ProgramsSpec
INVARIANT
    ProgramStarts
PROPERTIES
    OwnersExact
    CommandsExact
    CommandsEnd
CHECK_DEADLOCK FALSE
