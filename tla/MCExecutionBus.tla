--------------------------- MODULE MCExecutionBus ---------------------------
(* The instance of ExecutionBus for TLC. *)
EXTENDS ExecutionBus, TLC

CONSTANT MaxShared  \* bound: versions while keys or runtime events are in use

VARIABLE scenario   \* which of the two parts of the instance is explored

Symmetry == Permutations(Attempt) \cup Permutations(EventId)

\* Whole lifecycles with both budgets, of commands that never come twice.
Lifecycle == receipts' = {} /\ idem' = idem

\* Commands sent again, and runtime events, in short lifecycles.
Repetition ==
  /\ \A g \in Aggregate : version'[g] <= MaxShared
  /\ \A i \in DOMAIN revisions' : revisions'[i].budget = 2

MCInit == Init /\ scenario \in {"lifecycle", "repetition"}

MCNext ==
  /\ Next
  /\ IF scenario = "lifecycle" THEN Lifecycle ELSE Repetition
  /\ UNCHANGED scenario

MCSpec == MCInit /\ [][MCNext]_<<vars, scenario>>
=============================================================================
