SPECIFICATION Spec
CONSTANTS
    Runs = {r1, r2}
    Requests = {q1}
    NoRun = NoRun
    MaxEvents = 1
    EagerClients = FALSE
    SlowStart = FALSE
INVARIANT RequestReachesItsRun
