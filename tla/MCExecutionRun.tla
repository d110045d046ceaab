--------------------------- MODULE MCExecutionRun ---------------------------
(* An execution up to the end of its task, for TLC: its attempts under a    *)
(* coordinator and daemons (SingleAgentRun), and the saga that takes its    *)
(* success into the task (CompletionSaga).  The run keeps its executions'   *)
(* status for itself and the saga its own; they are explored one at a time. *)
EXTENDS SingleAgentRun, CompletionSaga

CONSTANTS w1, w2  \* the coordinator and a daemon that starts

VARIABLE scenario   \* "run" or "saga"

\* a scenario of the run begins with one of the saga's initial states
MCInit ==
  /\ Init
  /\ SagaInit
  /\ scenario \in {"run", "saga"}
  /\ scenario = "run" => task.required

Running(A) == scenario = "run" /\ A /\ UNCHANGED <<sagaVars, scenario>>

Completing(A) == scenario = "saga" /\ A /\ UNCHANGED <<vars, scenario>>

MCNext == Running(Next) \/ Completing(SagaNext)

mcvars == <<vars, sagaVars, scenario>>

MCSpec ==
  /\ MCInit
  /\ [][MCNext]_mcvars
  /\ WF_mcvars(Running(StartUp))
  /\ \A w \in Worker : WF_mcvars(Completing(Step(w)))
=============================================================================
