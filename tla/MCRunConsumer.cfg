SPECIFICATION ConsumerSpec
CONSTANTS
    Capacity = 1
    MaxEvents = 4
    Drains = TRUE
    SlowStart = FALSE
INVARIANTS ConsumerTypeOK InOrder NothingLost OverMeansOver ResultComplete
PROPERTIES RunnerEnds RunIsConcluded
