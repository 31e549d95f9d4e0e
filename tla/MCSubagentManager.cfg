SPECIFICATION Spec
CONSTANTS
    MaxAgents = 3
    Cap = 1
    MaxClicks = 1
    MaxRegistered = 1
    MaxUpdates = 2
INVARIANTS TypeOK EndAnnounced
PROPERTIES CancelledRunEnds ChildEnds
