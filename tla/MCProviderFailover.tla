------------------------- MODULE MCProviderFailover -------------------------
(* The instance of ProviderFailover for TLC: its parts one at a time. *)
EXTENDS ProviderFailover, TLC

CONSTANTS r1, r2, t1, t2, k1, k2, k3, k4

VARIABLE scenario   \* which part of the instance is explored

MCOrder == <<t1, t2>>
MCWeight == t1 :> 2 @@ t2 :> 1
MCKeys == t1 :> <<k1, k2, k3>> @@ t2 :> <<k4>>

\* The user edits the keys of the first target, which requests keep using:
\* selects two of them, removes and adds the third.
Edited ==
  \/ ClearCooldowns(t1)
  \/ \E k \in {k1, k2} : SelectKey(t1, k)
  \/ RemoveKey(t1, k3) \/ AddKey(t1, k3)

\* Targets and keys fail and recover, and the rotation goes on.
Rotated ==
  \/ \E t \in Target : TargetRecovers(t)
  \/ \E k \in Key : KeyRecovers(k)

MCNext ==
  /\ \/ \E r \in Request :
          \/ Arrive(r) \/ Route(r) \/ Serves(r) \/ RateLimits(r) \/ Completes(r)
          \/ req[r].pc = "refused" /\ Hops(r)
          \/ scenario = "targets" /\ (Hops(r) \/ Stops(r) \/ StreamFails(r))
     \/ scenario = "keys" /\ Edited
     \/ scenario = "targets" /\ Rotated
  /\ UNCHANGED scenario

MCInit == Init /\ scenario \in {"keys", "targets"}

mcvars == <<vars, scenario>>

MCSpec ==
  /\ MCInit
  /\ [][MCNext]_mcvars
  /\ \A r \in Request : WF_mcvars(Goes(r) /\ UNCHANGED scenario)
=============================================================================
