SPECIFICATION ConsumerSpec
CONSTANTS
    Capacity = 2
    MaxEvents = 3
    Drains = FALSE
    SlowStart = FALSE
INVARIANT ResultComplete
