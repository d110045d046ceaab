-------------------------- MODULE MCTaskGovernance --------------------------
(* Instances of TaskGovernance for TLC. *)
EXTENDS TaskGovernance, TLC

CONSTANTS a, b, m1, m2

\* The shipped workflows without the stages that nothing guards, and with
\* one of the two that wait for a verdict.
Paths ==
  [w \in {"1.0.0", "1.1.0"} |->
     <<"specification", IF w = "1.0.0" THEN "planning" ELSE "design",
       "verification", "review", "done">>]

\* A contract without a plan or a budget, then one with both and two criteria.
Documents == <<[required |-> {a}, funded |-> FALSE],
               [required |-> {a, b}, funded |-> TRUE]>>

Symmetry == Permutations(Commit)
=============================================================================
