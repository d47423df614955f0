CONSTANTS
    NULL = NULL
    Kernel = "k"
    InitProc = "p"
    Proc = {"k", "p", "q"}
    SymlinkMaxDepth = 3
    ParentMaxDepth = 8
    Minor = {"tty0"}
    Scenarios <- AllScenarios
SPECIFICATION Spec
INVARIANTS
    CountsExact
    LookupsExact
PROPERTY
    DescriptorsExact
