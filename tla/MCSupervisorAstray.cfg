SPECIFICATION Spec
CONSTANTS
    Pid <- MCPid
    MasterPid <- MCMasterPid
    Faults <- MCWorkerFaults
PROPERTY
    WorkerKillsOnlyChildren
