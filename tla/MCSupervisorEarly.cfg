SPECIFICATION Spec
CONSTANTS
    Pid <- MCPid
    MasterPid <- MCMasterPid
    Faults <- MCNoFault
INVARIANT
    NoMonitorDeathMissed
