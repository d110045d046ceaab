-------------------------- MODULE MCCompletionSaga --------------------------
(* CompletionSaga by itself for TLC: a starting daemon resumes a saga alone. *)
(* Two workers and every other command are in MCExecutionRun.                *)
EXTENDS CompletionSaga

CONSTANTS daemon
=============================================================================
