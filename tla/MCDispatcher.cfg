SPECIFICATION Spec
CONSTANTS
    Jobs = {j1, j2}
    NoJob = NoJob
INVARIANTS TypeOK TimedOutIsCancelled NoWorkerStranded
PROPERTIES ImplementsHostCall ShutdownReleasesWorkers EveryCallReturns
