CONSTANTS
    File = {f1, f2}
    Pixel = {0, 1}
    Size = 5
    Half = 4
    MaxLen = 3
SPECIFICATION FilesSpec
INVARIANTS
    SeekExact
    
    TreeLoaded
PROPERTIES
    WritesInside
    
CHECK_DEADLOCK FALSE
