SPECIFICATION FairSpec
CONSTANTS
    Pid <- MCPid
    MasterPid <- MCMasterPid
    Faults <- MCAllFaults
INVARIANTS
    TypeOK
    ExitLeavesNoChild
    NoWorkerDeathMissed
PROPERTIES
    StoredPidsAreOwn
    FailedExecIsHarmless
    WorkerDeathIsReaped
