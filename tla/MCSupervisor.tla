--------------------------- MODULE MCSupervisor ---------------------------
(* Supervisor on a host with three pids besides the master's.              *)
EXTENDS Supervisor

MCPid == 2 .. 4
MCMasterPid == 1
MCAllFaults == FaultKind
MCForkFault == {"fork"}
MCWorkerFaults == {"pkt_engine_init_2", "start_pkt_engine"}
MCNoFault == {}
=============================================================================
