------------------------------ MODULE AgentSlot ------------------------------
(***************************************************************************)
(* What a run of one agent promises, without its mechanism: at any time at *)
(* most one attempt has an agent process, and an attempt that has had one  *)
(* gets no second.  SingleAgentRun implements it.                          *)
(***************************************************************************)
EXTENDS Naturals

CONSTANT MaxAttempts

VARIABLES
  slot,  \* the attempt whose agent process is alive, or 0
  used   \* the last attempt that had one

vars == <<slot, used>>

TypeOK == slot \in 0..MaxAttempts /\ used \in 0..MaxAttempts

Init == slot = 0 /\ used = 0

Start(n) ==
  /\ slot = 0
  /\ used < n
  /\ slot' = n
  /\ used' = n

End ==
  /\ slot # 0
  /\ slot' = 0
  /\ UNCHANGED used

Next == End \/ \E n \in 1..MaxAttempts : Start(n)

Spec == Init /\ [][Next]_vars
=============================================================================
