---------------------------- MODULE MCSimulationIPC ----------------------------
(* Small instances of SimulationIPC.                                       *)
EXTENDS SimulationIPC
================================================================================
