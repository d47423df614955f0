CONSTANTS
    VirtPage = {0, 1, 2, 3}
    TablePages = 2
    HigherHalf = {1}
SPECIFICATION MemorySpec
INVARIANT
    RightsAsAsked
PROPERTIES
    SpacesApart
    HeapSound
CHECK_DEADLOCK FALSE
