--------------------------- MODULE MCRunnerControl ---------------------------
(* What a runner host gives to its callers, for TLC: the answers to control *)
(* calls (RunnerHost) and the events of an execution (EventStream).  The    *)
(* two share no state and are explored one at a time.                       *)
EXTENDS RunnerHost, EventStream, TLC

CONSTANTS s1, v, w, ex, c1

\* The verification command that is issued, v or w, of which v survives
\* every termination; or "events".
VARIABLE scenario

MCInit == Init /\ StreamInit /\ scenario \in {v, w, "events"}

MCOf == s1 :> ex

Controlled(A) == scenario # "events" /\ A /\ UNCHANGED <<events, scenario>>

Streamed(A) == scenario = "events" /\ A /\ UNCHANGED <<vars, scenario>>

MCNext ==
  /\ \/ /\ scenario # "events" /\ Next /\ UNCHANGED events
        /\ \A r \in Verify \ {scenario} : UNCHANGED pc[r]
     \/ scenario = "events" /\ StreamNext /\ UNCHANGED vars
  /\ UNCHANGED scenario

mcvars == <<vars, events, scenario>>

MCSpec ==
  /\ MCInit
  /\ [][MCNext]_mcvars
  /\ \A r \in Request : WF_mcvars(Controlled(Launch(r)))
  /\ \A r \in Start : WF_mcvars(Controlled(Background(r)))
  /\ \A c \in Control : WF_mcvars(Controlled(Barriers(c)))
  /\ WF_mcvars(Streamed(ProcessExits)) /\ WF_mcvars(Streamed(Read))
  /\ WF_mcvars(Streamed(Yield)) /\ WF_mcvars(Streamed(Poll))
=============================================================================
