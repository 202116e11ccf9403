SPECIFICATION GenerationSpec
CONSTANTS
    GenCapacity = 3
    Factors = {}
    TicksPerCandle = {1, 2}
    Counts = {30}
    MaxGenTicks = 0
PROPERTIES
    GenerationEnds
CHECK_DEADLOCK FALSE
