------------------------- MODULE ExecutionLifecycle -------------------------
(***************************************************************************)
(* The two transition graphs of OEF phase 2 (src/oef/phase2/core/domain.ts) *)
(* and the ones derived from them: an Execution is the durable aggregate,  *)
(* an ExecutionAttempt is one try at running an agent for it.  Every other *)
(* module of the phase takes its statuses and its legal moves from here.   *)
(***************************************************************************)

ExecutionStatus == {"CREATED", "QUEUED", "PREPARING", "RUNNING", "CANCELLING",
                    "COMPLETED", "FAILED", "INTERRUPTED", "CANCELLED"}

TerminalExecution == {"COMPLETED", "FAILED", "INTERRUPTED", "CANCELLED"}

AttemptStatus == {"CREATED", "LEASED", "WORKSPACE_PREPARING",
                  "CONTEXT_PREPARING", "STARTING", "RUNNING", "COLLECTING",
                  "VERIFYING", "SUCCEEDED", "FAILED", "CANCELLED", "ORPHANED"}

TerminalAttempt == {"SUCCEEDED", "FAILED", "CANCELLED", "ORPHANED"}

\* The edges of executionTransitions: where an execution may go next.
ExecutionNext(s) ==
  {t \in ExecutionStatus :
     \/ s = "CREATED"    /\ t \in {"QUEUED", "CANCELLED"}
     \/ s = "QUEUED"     /\ t \in {"PREPARING", "CANCELLING", "FAILED", "INTERRUPTED"}
     \/ s = "PREPARING"  /\ t \in {"RUNNING", "CANCELLING", "FAILED", "INTERRUPTED"}
     \/ s = "RUNNING"    /\ t \in {"CANCELLING", "COMPLETED", "FAILED", "INTERRUPTED"}
     \/ s = "CANCELLING" /\ t \in {"CANCELLED", "FAILED", "INTERRUPTED"}}

\* Every stage of an attempt but the first may stop short of the next.
StopShort == {"FAILED", "CANCELLED", "ORPHANED"}

AttemptNext(s) ==
  {t \in AttemptStatus :
     \/ s = "CREATED"             /\ t \in {"LEASED", "CANCELLED"}
     \/ s = "LEASED"              /\ t \in {"WORKSPACE_PREPARING"} \cup StopShort
     \/ s = "WORKSPACE_PREPARING" /\ t \in {"CONTEXT_PREPARING"} \cup StopShort
     \/ s = "CONTEXT_PREPARING"   /\ t \in {"STARTING"} \cup StopShort
     \/ s = "STARTING"            /\ t \in {"RUNNING"} \cup StopShort
     \/ s = "RUNNING"             /\ t \in {"COLLECTING"} \cup StopShort
     \/ s = "COLLECTING"          /\ t \in {"VERIFYING"} \cup StopShort
     \/ s = "VERIFYING"           /\ t \in {"SUCCEEDED"} \cup StopShort}

\* The status an aborted attempt is given by whoever gives up on it: a
\* coordinator uses FAILED and startup reconciliation ORPHANED, but an
\* attempt that was never leased can only be cancelled.
GiveUp(s, outcome) == IF s = "CREATED" THEN "CANCELLED" ELSE outcome

=============================================================================
