-------------------------- MODULE MCSingleAgentRun --------------------------
(* SingleAgentRun by itself for TLC: a single attempt and a single fault.  *)
(* Two attempts and two faults are in MCExecutionRun.                      *)
EXTENDS SingleAgentRun
=============================================================================
