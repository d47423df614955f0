CONSTANT Sizes = {0, 1, 7, 8, 9, 10}
SPECIFICATION StructuresSpec
INVARIANT
    FindsFirstClear
PROPERTIES
    FramesExact
    AreasExact
    SlabsHonest
    QueuesExact
CHECK_DEADLOCK FALSE
