---------------------------- MODULE MCRunnerHost ----------------------------
(* Instances of RunnerHost for TLC. *)
EXTENDS RunnerHost, TLC

CONSTANTS s1, s2, e, c1, c2

\* Two attempts of one execution.
SameExecution == s1 :> e @@ s2 :> e

\* The steps of this instance: nothing in it survives a termination, and no
\* verification command runs.
LeaseNext ==
  \/ \E r \in Start :
       \/ Begin(r) \/ Prepared(r) \/ Spawn(r) \/ Attest(r) \/ Cleanup(r)
       \/ Started(r) \/ Revoke(r) \/ Rollback(r) \/ Exit(r)
       \/ Background(r) \/ NotifyStarted(r) \/ HeartbeatFails(r)
       \/ CancelExecution(r)
  \/ \E c \in Control : Barriers(c) \/ \E o \in Operations : Apply(c, o)

LeaseSpec == Init /\ [][LeaseNext]_vars

\* Control calls, and attempts of one execution, are interchangeable: no
\* liveness property is checked under this symmetry.
Interchangeable == Permutations(Control) \cup Permutations(Start)
=============================================================================
