SPECIFICATION Spec
CONSTANTS
    Pid <- MCPid
    MasterPid <- MCMasterPid
    Faults <- MCForkFault
PROPERTY
    KillsOnlyChildren
