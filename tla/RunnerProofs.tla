---------------------------- MODULE RunnerProofs ----------------------------
(***************************************************************************)
(* Proofs about the runner: RunnerHost, for every set of requests, of      *)
(* executions and of control calls, and EventStream, for every number of   *)
(* attempts and of events.  The two share no state.                        *)
(***************************************************************************)
EXTENDS RunnerHost, EventStream, SequenceTheorems, TLAPS

(***************************************************************************)
(* Where a control call is in its two passes.                              *)
(***************************************************************************)
Passes ==
  \A c \in Control :
    /\ cpc[c] = "admissions" => round[c] = 1
    /\ cpc[c] = "finish" => round[c] = 2
    /\ cpc[c] \notin {"idle", "done", "failed"} => round[c] \in {1, 2}
    /\ cpc[c] = "done" /\ op[c] \in Barrier => round[c] = 2 /\ c \notin troubled

-----------------------------------------------------------------------------
(* Types. *)

LEMMA TerminatedIs ==
  ASSUME TypeOK, NEW S
  PROVE  /\ Terminated(S) \in [Request -> {"none", "pending", "running", "dead"}]
         /\ \A r \in Request : \/ Terminated(S)[r] = proc[r]
                               \/ Alive(r) /\ Terminated(S)[r] = "dead"
         /\ \A r \in Request : r \in S \ Stubborn /\ Alive(r) => Terminated(S)[r] = "dead"
BY DEF TypeOK, Terminated

LEMMA HostType ==
  ASSUME TypeOK, EnterDegraded
  PROVE  /\ killSwitch' \in {"RUNNING", "PAUSE", "CANCEL_ALL"}
         /\ degraded' \in BOOLEAN /\ closing' \in BOOLEAN /\ stale' \subseteq Request
BY DEF TypeOK, EnterDegraded, InAdmission

LEMMA KillAllType ==
  ASSUME TypeOK, KillAll
  PROVE  /\ proc' \in [Request -> {"none", "pending", "running", "dead"}]
         /\ revoked' \subseteq Request
BY TerminatedIs DEF TypeOK, KillAll, Launching

LEMMA LeaseType ==
  ASSUME TypeOK, NEW r \in Request, NEW s \in {"ACTIVE", "RELEASED"}, SetLease(r, s)
  PROVE  lease' \in [Execution -> {"none", "ACTIVE", "RELEASED"}]
BY Constants DEF TypeOK, SetLease

LEMMA FailType ==
  ASSUME TypeOK, NEW r \in Request, Fail(r)
  PROVE  /\ lease' \in [Execution -> {"none", "ACTIVE", "RELEASED"}]
         /\ pc' = [pc EXCEPT ![r] = "failed"]
BY LeaseType DEF Fail

LEMMA RequestType ==
  ASSUME TypeOK, NEW r \in Request,
         Begin(r) \/ Prepared(r) \/ Launch(r) \/ Exit(r)
  PROVE  TypeOK'
<1> USE Constants
<1>1. CASE Begin(r)
  BY <1>1, LeaseType DEF Begin, TypeOK, host, controls
<1>2. CASE Prepared(r)
  BY <1>2, FailType DEF Prepared, TypeOK, host, controls
<1>3. CASE Spawn(r)
  BY <1>3, FailType DEF Spawn, TypeOK, host, controls
<1>4. CASE Attest(r)
  BY <1>4 DEF Attest, TypeOK, host, controls
<1>5. CASE Cleanup(r)
  BY <1>5, FailType, TerminatedIs, HostType, KillAllType DEF Cleanup, TypeOK, host, controls
<1>6. CASE Started(r)
  BY <1>6 DEF Started, TypeOK, host, controls, Status
<1>7. CASE Revoke(r)
  BY <1>7, FailType, TerminatedIs DEF Revoke, TypeOK, host, controls
<1>8. CASE Rollback(r)
  BY <1>8, TerminatedIs, HostType, KillAllType DEF Rollback, Cancelled, TypeOK, host, controls
<1>9. CASE Verified(r)
  BY <1>9 DEF Verified, TypeOK, host, controls
<1>10. CASE Exit(r)
  BY <1>10 DEF Exit, TypeOK, host, controls
<1> QED BY <1>1, <1>2, <1>3, <1>4, <1>5, <1>6, <1>7, <1>8, <1>9, <1>10 DEF Launch

LEMMA ExecutionType ==
  ASSUME TypeOK, NEW r \in Start,
         \/ Background(r) \/ NotifyStarted(r) \/ MonitorGivesUp(r)
         \/ HeartbeatFails(r) \/ CancelExecution(r)
  PROVE  TypeOK'
<1> USE Constants DEF Request
<1>1. CASE Monitor(r)
  BY <1>1, LeaseType, HostType DEF Monitor, TypeOK, host, controls, Status
<1>2. CASE Contain(r)
  BY <1>2, KillAllType, TerminatedIs DEF Contain, TypeOK, host, controls
<1>3. CASE CancelTerminates(r)
  BY <1>3, LeaseType, HostType, KillAllType, TerminatedIs
  DEF CancelTerminates, Cancelled, TypeOK, host, controls
<1>4. CASE NotifyStarted(r)
  BY <1>4 DEF NotifyStarted, TypeOK, host, controls, Status
<1>5. CASE MonitorGivesUp(r)
  BY <1>5, LeaseType, HostType, KillAllType DEF MonitorGivesUp, TypeOK, host, controls, Status
<1>6. CASE HeartbeatFails(r)
  BY <1>6, LeaseType, HostType DEF HeartbeatFails, TypeOK, host, controls, Status
<1>7. CASE CancelExecution(r)
  BY <1>7 DEF CancelExecution, TypeOK, host, controls, Status
<1> QED BY <1>1, <1>2, <1>3, <1>4, <1>5, <1>6, <1>7 DEF Background

LEMMA ControlType ==
  ASSUME TypeOK, Passes, NEW c \in Control,
         Barriers(c) \/ \E o \in Operations : Apply(c, o)
  PROVE  TypeOK'
<1> USE Constants
<1>1. ASSUME NEW o \in Operations, Apply(c, o) PROVE TypeOK'
  <2>4. /\ op' \in [Control -> Operations \cup {"none"}]
        /\ before' \in [Control -> SUBSET Request]
    BY <1>1 DEF Apply, TypeOK
  <2>5. round' \in [Control -> 0..2]
    <3>1. round \in [Control -> 0..2] /\ round' = [round EXCEPT ![c] = 1] /\ 1 \in 0..2
      BY <1>1 DEF Apply, TypeOK
    <3> QED BY <3>1
  <2>1. /\ closing' \in BOOLEAN /\ degraded' \in BOOLEAN
        /\ stale' \subseteq Request /\ troubled' \subseteq Control
        /\ UNCHANGED <<pc, revoked, proc, status, cancelling, lease>>
    BY <1>1 DEF Apply, TypeOK, InAdmission
  <2>2. killSwitch' \in {"RUNNING", "PAUSE", "CANCEL_ALL"}
    BY <1>1 DEF Apply, TypeOK, Barrier
  <2>3. cpc' \in [Control -> {"idle", "kill", "sweep", "resweep", "check", "cancel",
                              "completions", "admissions", "finish", "done", "failed"}]
    BY <1>1 DEF Apply, TypeOK
  <2> QED BY <2>1, <2>2, <2>3, <2>4, <2>5 DEF TypeOK
<1>2. CASE Kill(c)
  BY <1>2 DEF Kill, Goto, Launching, TypeOK, host
<1>3. CASE Sweep(c)
  BY <1>3, TerminatedIs DEF Sweep, Goto, TypeOK, host
<1>4. CASE Check(c)
  BY <1>4 DEF Check, Goto, TypeOK, host, requests
<1>5. CASE Cancel(c)
  BY <1>5, TerminatedIs, HostType, KillAllType DEF Cancel, Goto, TypeOK, host, Status
<1>6. CASE Completions(c)
  BY <1>6 DEF Completions, NextStage, TimesOut, Goto, TypeOK, host, requests
<1>7. CASE Admissions(c)
  BY <1>7 DEF Admissions, TimesOut, Goto, TypeOK, host, requests, Passes
<1>8. CASE Finish(c)
  BY <1>8, HostType DEF Finish, Goto, TypeOK, host
<1> QED BY <1>1, <1>2, <1>3, <1>4, <1>5, <1>6, <1>7, <1>8 DEF Barriers

LEMMA NextType == TypeOK /\ Passes /\ [Next]_vars => TypeOK'
<1> SUFFICES ASSUME TypeOK, Passes, [Next]_vars PROVE TypeOK'
  OBVIOUS
<1>1. CASE UNCHANGED vars
  BY <1>1 DEF vars, host, requests, controls, TypeOK
<1> QED BY <1>1, RequestType, ExecutionType, ControlType DEF Next

LEMMA InitType == Init => TypeOK
<1> SUFFICES ASSUME Init PROVE TypeOK
  OBVIOUS
<1>1. /\ killSwitch \in {"RUNNING"} /\ degraded \in BOOLEAN /\ closing \in BOOLEAN
      /\ pc \in [Request -> {"idle"}] /\ proc \in [Request -> {"none"}]
      /\ stale = {} /\ revoked = {} /\ cancelling = {} /\ troubled = {}
  BY DEF Init
<1>2. status \in [Start -> Status] /\ lease \in [Execution -> {"none"}]
  BY DEF Init, Status
<1>3. /\ op \in [Control -> {"none"}] /\ cpc \in [Control -> {"idle"}]
      /\ round \in [Control -> {0}] /\ before \in [Control -> {{}}]
  BY DEF Init
<1> QED BY <1>1, <1>2, <1>3 DEF TypeOK

-----------------------------------------------------------------------------
(* The barrier. *)

(***************************************************************************)
(* How a step may move a control call.                                     *)
(***************************************************************************)
Stays(c) ==
  /\ cpc'[c] = cpc[c] /\ round'[c] = round[c] /\ before'[c] = before[c] /\ op'[c] = op[c]
  /\ c \in troubled' <=> c \in troubled

Begins(c) ==
  /\ cpc[c] = "idle" /\ ~closing /\ round'[c] = 1
  /\ before'[c] = {r \in Request : pc[r] # "idle"} /\ pc' = pc
  /\ cpc'[c] \in {"kill", "done", "failed"}
  /\ op'[c] \in Barrier => cpc'[c] = "kill"
  /\ op'[c] = "CLOSE" => closing'

GoesOn(c) ==
  /\ before'[c] = before[c] /\ op'[c] = op[c]
  /\ c \in troubled => c \in troubled'
  /\ \/ /\ round'[c] = round[c]
        /\ \/ cpc[c] = "kill" /\ cpc'[c] = "sweep"
           \/ cpc[c] \in {"sweep", "resweep"} /\ cpc'[c] \in {"resweep", "check"}
           \/ /\ cpc[c] = "check" /\ cpc'[c] = "cancel"
              /\ c \notin troubled' => \A r \in Request : ~Alive(r)
           \/ cpc[c] = "cancel" /\ cpc'[c] = "completions"
           \/ /\ cpc[c] = "completions"
              /\ cpc'[c] = IF round[c] = 1 THEN "admissions" ELSE "finish"
           \/ cpc[c] = "finish" /\ cpc'[c] = "failed"
           \/ cpc[c] = "finish" /\ cpc'[c] = "done" /\ c \notin troubled'
     \/ /\ cpc[c] = "admissions" /\ cpc'[c] = "kill" /\ round'[c] = round[c] + 1
        /\ c \notin troubled' => InAdmission = {}

LEMMA ControlMoves ==
  ASSUME TypeOK, [Next]_vars, NEW c \in Control
  PROVE  Stays(c) \/ Begins(c) \/ GoesOn(c)
<1>1. ASSUME UNCHANGED controls PROVE Stays(c)
  BY <1>1 DEF controls, Stays
<1>2. ASSUME NEW r \in Request, Begin(r) \/ Prepared(r) \/ Launch(r) \/ Exit(r)
      PROVE  UNCHANGED controls
  BY <1>2 DEF Begin, Prepared, Launch, Exit, Spawn, Attest, Cleanup, Started, Revoke,
     Rollback, Verified
<1>3. ASSUME NEW r \in Start,
             \/ Background(r) \/ NotifyStarted(r) \/ MonitorGivesUp(r)
             \/ HeartbeatFails(r) \/ CancelExecution(r)
      PROVE  UNCHANGED controls
  BY <1>3 DEF Background, Monitor, Contain, CancelTerminates, NotifyStarted,
     MonitorGivesUp, HeartbeatFails, CancelExecution
<1>4. ASSUME NEW d \in Control, NEW o \in Operations, Apply(d, o)
      PROVE  Stays(c) \/ Begins(c)
  <2>1. CASE d = c
    BY <1>4, <2>1 DEF Apply, Begins, TypeOK, Barrier
  <2>2. CASE d # c
    BY <1>4, <2>2 DEF Apply, Stays, TypeOK
  <2> QED BY <2>1, <2>2
<1>5. ASSUME NEW d \in Control, Barriers(d), d # c
      PROVE  Stays(c)
  BY <1>5 DEF Barriers, Kill, Sweep, Check, Cancel, Completions, Admissions, Finish,
     Goto, TimesOut, Stays, TypeOK
<1>6. ASSUME Barriers(c) PROVE GoesOn(c)
  <2>1. CASE Kill(c) \/ Sweep(c)
    BY <2>1 DEF Kill, Sweep, Goto, GoesOn, TypeOK
  <2>2. CASE Check(c)
    BY <2>2 DEF Check, AllTerminated, Goto, GoesOn, TypeOK
  <2>3. CASE Cancel(c)
    BY <2>3 DEF Cancel, Goto, GoesOn, TypeOK
  <2>4. CASE Completions(c)
    BY <2>4 DEF Completions, NextStage, TimesOut, Goto, GoesOn, TypeOK
  <2>5. CASE Admissions(c)
    BY <2>5 DEF Admissions, AdmissionsSettled, TimesOut, Goto, GoesOn, TypeOK
  <2>6. CASE Finish(c)
    BY <2>6 DEF Finish, Goto, GoesOn, TypeOK
  <2> QED BY <1>6, <2>1, <2>2, <2>3, <2>4, <2>5, <2>6 DEF Barriers
<1>7. CASE UNCHANGED vars
  BY <1>1, <1>7 DEF vars
<1> QED BY <1>1, <1>2, <1>3, <1>4, <1>5, <1>6, <1>7 DEF Next

LEMMA NextPasses == TypeOK /\ Passes /\ [Next]_vars => Passes'
<1> SUFFICES ASSUME TypeOK, Passes, [Next]_vars, NEW c \in Control
             PROVE  /\ cpc'[c] = "admissions" => round'[c] = 1
                    /\ cpc'[c] = "finish" => round'[c] = 2
                    /\ cpc'[c] \notin {"idle", "done", "failed"} => round'[c] \in {1, 2}
                    /\ cpc'[c] = "done" /\ op'[c] \in Barrier =>
                         round'[c] = 2 /\ c \notin troubled'
  BY DEF Passes
<1>1. CASE Stays(c)
  BY <1>1 DEF Stays, Passes
<1>2. CASE Begins(c)
  BY <1>2 DEF Begins
<1>3. CASE GoesOn(c)
  BY <1>3 DEF GoesOn, Passes
<1> QED BY <1>1, <1>2, <1>3, ControlMoves

(***************************************************************************)
(* How a step may move a request: one that was answered stays so, none is  *)
(* forgotten, and a process starts only in the course of its admission.    *)
(***************************************************************************)
Answered == {"returned", "failed", "waiting"}

RequestMove(r) ==
  /\ pc[r] = "idle" => pc'[r] = "idle" \/ ~closing
  /\ pc[r] # "idle" => pc'[r] # "idle"
  /\ pc[r] \in Answered => pc'[r] \in Answered
  /\ Alive(r)' => Alive(r) \/ pc[r] = "materializing"

LEMMA TerminationStarts ==
  ASSUME TypeOK, NEW r \in Request
  PROVE  /\ UNCHANGED proc => (Alive(r)' => Alive(r))
         /\ \A S : proc' = Terminated(S) => (Alive(r)' => Alive(r))
         /\ KillAll => (Alive(r)' => Alive(r))
BY DEF TypeOK, Alive, Terminated, KillAll

LEMMA PcStays ==
  ASSUME UNCHANGED pc, NEW r \in Request, Alive(r)' => Alive(r)
  PROVE  RequestMove(r)
BY DEF RequestMove, Answered

LEMMA RequestMoves ==
  ASSUME TypeOK, [Next]_vars, NEW r \in Request
  PROVE  RequestMove(r)
<1>1. ASSUME NEW q \in Request, Begin(q) PROVE RequestMove(r)
  BY <1>1 DEF Begin, Admissible, RequestMove, Answered, TypeOK, Alive
<1>2. ASSUME NEW q \in Request, Prepared(q) PROVE RequestMove(r)
  BY <1>2 DEF Prepared, Fail, RequestMove, Answered, TypeOK, Alive
<1>3. ASSUME NEW q \in Request, Spawn(q) PROVE RequestMove(r)
  BY <1>3 DEF Spawn, Fail, RequestMove, Answered, TypeOK, Alive
<1>4. ASSUME NEW q \in Request, Attest(q) PROVE RequestMove(r)
  BY <1>4 DEF Attest, RequestMove, Answered, TypeOK, Alive
<1>5. ASSUME NEW q \in Request, Cleanup(q) PROVE RequestMove(r)
  BY <1>5, TerminationStarts DEF Cleanup, Fail, RequestMove, Answered, TypeOK
<1>6. ASSUME NEW q \in Request, Started(q) PROVE RequestMove(r)
  BY <1>6, TerminationStarts DEF Started, RequestMove, Answered, TypeOK
<1>7. ASSUME NEW q \in Request, Revoke(q) PROVE RequestMove(r)
  BY <1>7, TerminationStarts DEF Revoke, Fail, RequestMove, Answered, TypeOK
<1>8. ASSUME NEW q \in Request, Rollback(q) PROVE RequestMove(r)
  BY <1>8, TerminationStarts DEF Rollback, Cancelled, RequestMove, Answered, TypeOK
<1>9. ASSUME NEW q \in Request, Verified(q) PROVE RequestMove(r)
  BY <1>9, TerminationStarts DEF Verified, RequestMove, Answered, TypeOK
<1>10. ASSUME NEW q \in Request, Exit(q) PROVE RequestMove(r)
  BY <1>10, PcStays DEF Exit, TypeOK, Alive
<1>11. ASSUME NEW q \in Start,
              \/ Background(q) \/ NotifyStarted(q) \/ MonitorGivesUp(q)
              \/ HeartbeatFails(q) \/ CancelExecution(q)
       PROVE  RequestMove(r)
  BY <1>11, TerminationStarts, PcStays
  DEF Background, Monitor, Contain, CancelTerminates, Cancelled, NotifyStarted,
      MonitorGivesUp, HeartbeatFails, CancelExecution
<1>12. ASSUME NEW c \in Control, Barriers(c) \/ \E o \in Operations : Apply(c, o)
       PROVE  RequestMove(r)
  BY <1>12, TerminationStarts, PcStays
  DEF Barriers, Kill, Sweep, Check, Cancel, Completions, Admissions, Finish, Apply, requests
<1>13. CASE UNCHANGED vars
  BY <1>13, TerminationStarts, PcStays DEF vars, requests
<1> QED BY <1>1, <1>2, <1>3, <1>4, <1>5, <1>6, <1>7, <1>8, <1>9, <1>10, <1>11, <1>12, <1>13
    DEF Next, Launch

(***************************************************************************)
(* What the barrier knows.  The requests that it counted as accepted are   *)
(* not idle; after a wait for the admissions that was not given up they    *)
(* are answered; and after a second count that found nothing they are dead *)
(* for good.  A host that is closed takes no request that was idle then.   *)
(***************************************************************************)
BarrierHolds ==
  \A c \in Control :
    /\ \A r \in before[c] : pc[r] # "idle"
    /\ round[c] = 2 /\ c \notin troubled => \A r \in before[c] : pc[r] \in Answered
    /\ /\ round[c] = 2 /\ c \notin troubled
       /\ \/ cpc[c] \in {"cancel", "completions", "finish"}
          \/ cpc[c] = "done" /\ op[c] \in Barrier
       => \A r \in before[c] : ~Alive(r)
    /\ cpc[c] # "idle" /\ op[c] = "CLOSE" =>
         closing /\ \A r \in Request \ before[c] : pc[r] = "idle"

NotStarted == \A r \in Request : pc[r] = "idle" => ~Alive(r)

HostInv == TypeOK /\ Passes /\ BarrierHolds /\ NotStarted

LEMMA ClosingStays ==
  ASSUME TypeOK, [Next]_vars, closing
  PROVE  closing'
<1>1. ASSUME UNCHANGED host PROVE closing'
  BY <1>1 DEF host
<1>2. ASSUME EnterDegraded PROVE closing'
  BY <1>2 DEF EnterDegraded
<1> QED BY <1>1, <1>2 DEF Next, vars, Launch, Background, Barriers,
    Begin, Prepared, Spawn, Attest, Cleanup, Started, Revoke, Rollback, Verified, Exit,
    Monitor, Contain, CancelTerminates, Cancelled, NotifyStarted, MonitorGivesUp,
    HeartbeatFails, CancelExecution, Kill, Sweep, Check, Cancel, Completions, Admissions,
    Finish, Apply, host

LEMMA NextBarrier ==
  ASSUME HostInv, [Next]_vars
  PROVE  BarrierHolds' /\ NotStarted'
<1> USE DEF HostInv
<1>1. NotStarted'
  <2> SUFFICES ASSUME NEW r \in Request, pc'[r] = "idle" PROVE ~Alive(r)'
    BY DEF NotStarted
  <2> QED BY RequestMoves DEF NotStarted, RequestMove
<1>2. ASSUME NEW c \in Control
      PROVE  /\ \A r \in before'[c] : pc'[r] # "idle"
             /\ round'[c] = 2 /\ c \notin troubled' => \A r \in before'[c] : pc'[r] \in Answered
             /\ /\ round'[c] = 2 /\ c \notin troubled'
                /\ \/ cpc'[c] \in {"cancel", "completions", "finish"}
                   \/ cpc'[c] = "done" /\ op'[c] \in Barrier
                => \A r \in before'[c] : ~Alive(r)'
             /\ cpc'[c] # "idle" /\ op'[c] = "CLOSE" =>
                  closing' /\ \A r \in Request \ before'[c] : pc'[r] = "idle"
  <2>1. before[c] \subseteq Request /\ round[c] \in 0..2
    BY DEF TypeOK
  <2>2. \A r \in Request : RequestMove(r)
    BY RequestMoves
  <2>3. \A r \in Request : pc[r] \in Answered => pc[r] # "materializing" /\ r \notin InAdmission
    BY DEF Answered, InAdmission
  <2>4. CASE Stays(c)
    BY <2>1, <2>2, <2>3, <2>4, ClosingStays DEF Stays, BarrierHolds, RequestMove
  <2>5. CASE Begins(c)
    BY <2>5 DEF Begins, Barrier
  <2>6. CASE GoesOn(c)
    <3>1. /\ before'[c] = before[c] /\ op'[c] = op[c] /\ cpc[c] # "idle"
          /\ c \notin troubled' => c \notin troubled
      BY <2>6 DEF GoesOn
    <3>2. /\ \A r \in before'[c] : pc'[r] # "idle"
          /\ cpc'[c] # "idle" /\ op'[c] = "CLOSE" =>
               closing' /\ \A r \in Request \ before'[c] : pc'[r] = "idle"
      BY <2>1, <2>2, <3>1, ClosingStays DEF BarrierHolds, RequestMove
    <3>3. ASSUME round'[c] = 2, c \notin troubled'
          PROVE  \A r \in before[c] : pc[r] \in Answered
      <4>1. CASE cpc[c] = "admissions"
        <5>1. InAdmission = {}
          BY <2>6, <3>3, <4>1 DEF GoesOn
        <5>2. \A r \in before[c] : pc[r] # "idle"
          BY DEF BarrierHolds
        <5> QED BY <2>1, <5>1, <5>2 DEF InAdmission, Answered, TypeOK
      <4>2. CASE cpc[c] # "admissions"
        BY <2>6, <3>1, <3>3, <4>2 DEF GoesOn, BarrierHolds
      <4> QED BY <4>1, <4>2
    <3>4. ASSUME round'[c] = 2, c \notin troubled',
                 \/ cpc'[c] \in {"cancel", "completions", "finish"}
                 \/ cpc'[c] = "done" /\ op'[c] \in Barrier
          PROVE  \A r \in before[c] : ~Alive(r)
      <4>1. round[c] = 2 /\ cpc[c] \in {"check", "cancel", "completions", "finish"}
        BY <2>6, <3>4 DEF GoesOn
      <4>2. CASE cpc[c] = "check"
        BY <2>1, <2>6, <3>4, <4>2 DEF GoesOn
      <4>3. CASE cpc[c] # "check"
        BY <3>1, <3>4, <4>1, <4>3 DEF BarrierHolds
      <4> QED BY <4>2, <4>3
    <3> QED BY <2>1, <2>2, <2>3, <3>1, <3>2, <3>3, <3>4 DEF RequestMove
  <2> QED BY <2>4, <2>5, <2>6, ControlMoves
<1> QED BY <1>1, <1>2 DEF BarrierHolds

LEMMA NextHost == HostInv /\ [Next]_vars => HostInv'
BY NextType, NextPasses, NextBarrier DEF HostInv

LEMMA InitHost == Init => HostInv
<1> SUFFICES ASSUME Init PROVE HostInv
  OBVIOUS
<1>1. /\ \A c \in Control : cpc[c] = "idle" /\ round[c] = 0 /\ before[c] = {}
      /\ \A r \in Request : proc[r] = "none"
  BY DEF Init
<1> QED BY <1>1, InitType DEF HostInv, Passes, BarrierHolds, NotStarted, Alive

(***************************************************************************)
(* Every reachable state is typed.                                         *)
(***************************************************************************)
THEOREM HostIsTyped == Spec => []TypeOK
<1>1. HostInv => TypeOK
  BY DEF HostInv
<1> QED BY <1>1, InitHost, NextHost, PTL DEF Spec

(***************************************************************************)
(* A cancellation that reports success left nothing behind of what was     *)
(* accepted before it, whatever processes survive a termination.           *)
(***************************************************************************)
THEOREM CancellationsAreComplete == Spec => []CancellationIsComplete
<1>1. HostInv => CancellationIsComplete
  BY DEF HostInv, Passes, BarrierHolds, CancellationIsComplete
<1> QED BY <1>1, InitHost, NextHost, PTL DEF Spec

(***************************************************************************)
(* A host that was closed successfully is empty, and stays so.             *)
(***************************************************************************)
THEOREM ClosedHostsAreEmpty == Spec => []ClosedIsEmpty
<1>1. HostInv => ClosedIsEmpty
  <2> SUFFICES ASSUME HostInv, NEW c \in Control, op[c] = "CLOSE", cpc[c] = "done"
               PROVE  /\ \A r \in Request : ~Alive(r)
                      /\ InAdmission = {}
    BY DEF ClosedIsEmpty
  <2>1. round[c] = 2 /\ c \notin troubled
    BY DEF HostInv, Passes, Barrier
  <2>2. \A r \in Request : \/ pc[r] \in Answered /\ ~Alive(r)
                           \/ pc[r] = "idle" /\ ~Alive(r)
    BY <2>1 DEF HostInv, BarrierHolds, NotStarted, Barrier
  <2> QED BY <2>2 DEF InAdmission, Answered
<1> QED BY <1>1, InitHost, NextHost, PTL DEF Spec

-----------------------------------------------------------------------------
(* Leases, where every process can be terminated. *)

Starting == {"preparing", "materializing", "attesting", "cleanup", "started", "revoking"}

(***************************************************************************)
(* Its execution is taken up by this start request, or runs for it.        *)
(***************************************************************************)
Engaged(r) == pc[r] \in Starting \/ status[r] \notin {"NONE", "EXITED"}

(***************************************************************************)
(* A live process belongs to an engaged request; an engaged request has    *)
(* its execution to itself, and the lease of it, in a host that takes      *)
(* work.                                                                   *)
(***************************************************************************)
LeaseInv ==
  /\ \A r \in Start :
       /\ Alive(r) => Engaged(r)
       /\ Engaged(r) => lease[Of[r]] = "ACTIVE" \/ degraded
       /\ status[r] = "INTERRUPTED" => degraded
       /\ pc[r] \in Starting \cup {"idle"} => status[r] = "NONE"
       /\ pc[r] \in {"idle", "preparing", "materializing"} => ~Alive(r)
  /\ \A r, q \in Start : Engaged(r) /\ Engaged(q) /\ Of[r] = Of[q] => r = q

(***************************************************************************)
(* A step may end what a request is engaged in, never begin it, and takes  *)
(* the lease away only with it or for good.                                *)
(***************************************************************************)
Disengages(r) ==
  /\ Engaged(r)' => Engaged(r) /\ (lease'[Of[r]] = lease[Of[r]] \/ degraded')
  /\ Alive(r)' => Engaged(r)'
  /\ status'[r] = "INTERRUPTED" => degraded'
  /\ pc'[r] \in Starting \cup {"idle"} => status'[r] = "NONE"
  /\ pc'[r] \in {"idle", "preparing", "materializing"} => ~Alive(r)'

LEMMA DisengagingKeeps ==
  ASSUME LeaseInv, \A r \in Start : Disengages(r), degraded => degraded'
  PROVE  LeaseInv'
BY DEF LeaseInv, Disengages

LEMMA BeginKeepsLease ==
  ASSUME TypeOK, LeaseInv, NEW r \in Request, Begin(r)
  PROVE  LeaseInv'
<1>1. /\ ~degraded /\ pc[r] = "idle" /\ SetLease(r, "ACTIVE")
      /\ UNCHANGED <<degraded, proc, status>>
      /\ pc' = [pc EXCEPT ![r] = IF r \in Start THEN "preparing" ELSE "materializing"]
  BY DEF Begin, Admissible, host
<1>2. CASE r \in Start
  <2>1. \A q \in Start : Of[q] = Of[r] => ~Engaged(q)
    BY <1>1, <1>2 DEF Begin, OneCaller, NotRunning, InAdmission, Request, Engaged,
       Starting, LeaseInv
  <2>2. /\ lease' = [lease EXCEPT ![Of[r]] = "ACTIVE"] /\ Of[r] \in Execution
        /\ \A q \in Start : Of[q] \in Execution
    BY <1>1, <1>2, Constants DEF SetLease
  <2>3. \A q \in Start : Engaged(q)' <=> Engaged(q) \/ q = r
    BY <1>1, <1>2 DEF Engaged, Starting, TypeOK, LeaseInv
  <2>4. \A q \in Start : Alive(q)' <=> Alive(q)
    BY <1>1 DEF Alive
  <2>5. \A q \in Start : q # r => pc'[q] = pc[q]
    BY <1>1 DEF TypeOK, Request
  <2>6. pc'[r] = "preparing" /\ status'[r] = "NONE" /\ ~Alive(r)
    BY <1>1, <1>2 DEF TypeOK, Starting, LeaseInv
  <2> QED BY <1>1, <1>2, <2>1, <2>2, <2>3, <2>4, <2>5, <2>6 DEF LeaseInv, Starting, TypeOK
<1>3. CASE r \notin Start
  <2>1. lease' = lease /\ \A q \in Start : pc'[q] = pc[q]
    BY <1>1, <1>3 DEF SetLease, TypeOK, Request
  <2> QED BY <1>1, <2>1 DEF LeaseInv, Engaged, Alive
<1> QED BY <1>2, <1>3

LEMMA Terminations ==
  ASSUME TypeOK, Stubborn = {}, NEW r \in Request
  PROVE  /\ UNCHANGED proc => (Alive(r)' <=> Alive(r))
         /\ \A S : proc' = Terminated(S) =>
              /\ Alive(r)' => Alive(r)
              /\ r \in S => ~Alive(r)'
         /\ KillAll => ~Alive(r)'
BY DEF TypeOK, Alive, Terminated, KillAll

(***************************************************************************)
(* A handler that throws gives back the lease of its own request.          *)
(***************************************************************************)
LEMMA FailDisengages ==
  ASSUME TypeOK, LeaseInv, NEW q \in Request, Fail(q), pc[q] \in Starting,
         q \in Start => ~Alive(q)', UNCHANGED status,
         \A r \in Start : Alive(r)' => Alive(r), degraded => degraded',
         NEW r \in Start
  PROVE  Disengages(r)
<1>1. pc' = [pc EXCEPT ![q] = "failed"] /\ SetLease(q, "RELEASED") /\ r \in Request
  BY DEF Fail, Request
<1>2. CASE r = q
  BY <1>1, <1>2 DEF TypeOK, LeaseInv, Disengages, Engaged, Starting
<1>3. CASE r # q
  <2>1. pc'[r] = pc[r] /\ (Engaged(r)' <=> Engaged(r))
    BY <1>1, <1>3 DEF TypeOK, Engaged
  <2>2. Engaged(r) => lease'[Of[r]] = lease[Of[r]]
    BY <1>1, <1>3, Constants DEF SetLease, TypeOK, LeaseInv, Engaged
  <2> QED BY <2>1, <2>2 DEF LeaseInv, Disengages, TypeOK
<1> QED BY <1>2, <1>3

LEMMA DegradedStays ==
  ASSUME TypeOK, [Next]_vars, degraded
  PROVE  degraded'
<1>1. ASSUME UNCHANGED host PROVE degraded'
  BY <1>1 DEF host
<1>2. ASSUME EnterDegraded PROVE degraded'
  BY <1>2 DEF EnterDegraded
<1> QED BY <1>1, <1>2 DEF Next, vars, Launch, Background, Barriers,
    Begin, Prepared, Spawn, Attest, Cleanup, Started, Revoke, Rollback, Verified, Exit,
    Monitor, Contain, CancelTerminates, Cancelled, NotifyStarted, MonitorGivesUp,
    HeartbeatFails, CancelExecution, Kill, Sweep, Check, Cancel, Completions, Admissions,
    Finish, Apply, host

(***************************************************************************)
(* The handlers of requests after their admission.                         *)
(***************************************************************************)
LEMMA RequestDisengages ==
  ASSUME TypeOK, LeaseInv, Stubborn = {}, degraded => degraded', NEW q \in Request,
         Prepared(q) \/ Launch(q) \/ Exit(q), NEW r \in Start
  PROVE  Disengages(r)
<1> r \in Request
  BY DEF Request
<1>1. CASE Prepared(q)
  <2>1. UNCHANGED <<status, proc>> /\ pc[q] = "preparing"
    BY <1>1 DEF Prepared
  <2>2. CASE Fail(q)
    <3>1. \A x \in Start : Alive(x)' <=> Alive(x)
      BY <2>1 DEF Alive
    <3>2. q \in Start => ~Alive(q)'
      BY <2>1, <3>1 DEF LeaseInv
    <3> QED BY <2>1, <2>2, <3>1, <3>2, FailDisengages DEF Starting
  <2>3. CASE pc' = [pc EXCEPT ![q] = "materializing"] /\ lease' = lease
    BY <2>1, <2>3 DEF Disengages, LeaseInv, TypeOK, Engaged, Starting, Alive
  <2> QED BY <1>1, <2>2, <2>3 DEF Prepared
<1>2. CASE Spawn(q)
  <2>1. UNCHANGED status /\ pc[q] = "materializing"
    BY <1>2 DEF Spawn
  <2>2. CASE Fail(q) /\ UNCHANGED proc
    <3>1. \A x \in Start : Alive(x)' <=> Alive(x)
      BY <2>2 DEF Alive
    <3>2. q \in Start => ~Alive(q)'
      BY <2>1, <3>1 DEF LeaseInv
    <3> QED BY <2>1, <2>2, <3>1, <3>2, FailDisengages DEF Starting
  <2>3. CASE /\ proc' = [proc EXCEPT ![q] = "pending"] /\ pc' = [pc EXCEPT ![q] = "attesting"]
             /\ lease' = lease
    BY <2>1, <2>3 DEF Disengages, LeaseInv, TypeOK, Engaged, Starting, Alive
  <2> QED BY <1>2, <2>2, <2>3 DEF Spawn
<1>3. CASE Attest(q)
  BY <1>3 DEF Attest, Disengages, LeaseInv, TypeOK, Engaged, Starting, Alive
<1>4. CASE Cleanup(q)
  <2>1. proc' = Terminated({q}) /\ Fail(q) /\ pc[q] = "cleanup" /\ UNCHANGED status
    BY <1>4 DEF Cleanup, Terminable
  <2>2. ~Alive(q)' /\ \A x \in Start : Alive(x)' => Alive(x)
    BY <2>1, Terminations DEF Request
  <2> QED BY <2>1, <2>2, FailDisengages DEF Starting
<1>5. CASE Started(q)
  <2>1. proc' = proc /\ lease' = lease /\ degraded' = degraded /\ pc[q] = "started"
    BY <1>5 DEF Started, host
  <2>2. CASE r = q
    BY <1>5, <2>1, <2>2, Constants DEF Started, Disengages, LeaseInv, TypeOK, Engaged, Starting, Alive
  <2>3. CASE r # q
    <3>1. pc'[r] = pc[r] /\ status'[r] = status[r]
      BY <1>5, <2>3 DEF Started, TypeOK
    <3> QED BY <2>1, <3>1 DEF Disengages, LeaseInv, Engaged, Starting, Alive
  <2> QED BY <2>2, <2>3
<1>6. CASE Revoke(q)
  <2>1. proc' = Terminated({q}) /\ Fail(q) /\ pc[q] = "revoking" /\ UNCHANGED status
    BY <1>6 DEF Revoke
  <2>2. ~Alive(q)' /\ \A x \in Start : Alive(x)' => Alive(x)
    BY <2>1, Terminations DEF Request
  <2> QED BY <2>1, <2>2, FailDisengages DEF Starting
<1>7. CASE Rollback(q)
  <2>1. Alive(r)' => Alive(r)
    BY <1>7, Terminations DEF Rollback, Cancelled
  <2> QED BY <1>7, <2>1 DEF Rollback, Disengages, LeaseInv, TypeOK, Engaged, Starting
<1>8. CASE Verified(q)
  BY <1>8 DEF Verified, Disengages, LeaseInv, TypeOK, Engaged, Starting, Alive
<1>9. CASE Exit(q)
  BY <1>9 DEF Exit, Disengages, LeaseInv, TypeOK, Engaged, Starting, Alive
<1> QED BY <1>1, <1>2, <1>3, <1>4, <1>5, <1>6, <1>7, <1>8, <1>9 DEF Launch

(***************************************************************************)
(* Executions that are active, and the calls that cancel them.             *)
(***************************************************************************)
LEMMA ExecutionDisengages ==
  ASSUME TypeOK, LeaseInv, Stubborn = {}, degraded => degraded', NEW q \in Start,
         \/ Background(q) \/ NotifyStarted(q) \/ MonitorGivesUp(q)
         \/ HeartbeatFails(q) \/ CancelExecution(q),
         NEW r \in Start
  PROVE  Disengages(r)
<1> r \in Request /\ q \in Request
  BY DEF Request
<1>1. CASE Monitor(q)
  <2>1. /\ proc' = proc /\ pc' = pc /\ ~Alive(q) /\ status[q] \notin {"NONE", "EXITED"}
        /\ status' = [status EXCEPT ![q] = "EXITED"]
        /\ SetLease(q, "RELEASED") \/ lease' = lease
    BY <1>1 DEF Monitor, Alive
  <2>2. CASE r = q
    BY <2>1, <2>2 DEF TypeOK, LeaseInv, Disengages, Engaged, Starting, Alive
  <2>3. CASE r # q
    <3>1. status'[r] = status[r] /\ (Engaged(r)' <=> Engaged(r)) /\ (Alive(r)' <=> Alive(r))
      BY <2>1, <2>3 DEF TypeOK, Engaged, Alive
    <3>2. Engaged(r) => Of[r] # Of[q]
      BY <2>1, <2>3 DEF LeaseInv, Engaged
    <3>3. Engaged(r) => lease'[Of[r]] = lease[Of[r]]
      BY <2>1, <3>2, Constants DEF SetLease, TypeOK
    <3> QED BY <2>1, <3>1, <3>3 DEF LeaseInv, Disengages, TypeOK
  <2> QED BY <2>2, <2>3
<1>2. CASE Contain(q)
  <2>1. Alive(r)' => Alive(r)
    BY <1>2, Terminations DEF Contain
  <2> QED BY <1>2, <2>1 DEF Contain, host, Disengages, LeaseInv, Engaged
<1>3. CASE CancelTerminates(q)
  <2>1. Alive(r)' => Alive(r)
    BY <1>3, Terminations DEF CancelTerminates, Cancelled
  <2>2. lease' = lease \/ degraded
    BY <1>3 DEF CancelTerminates, LeaseInv
  <2> QED BY <1>3, <2>1, <2>2 DEF CancelTerminates, Disengages, LeaseInv, Engaged
<1>4. CASE NotifyStarted(q)
  BY <1>4 DEF NotifyStarted, host, Disengages, LeaseInv, TypeOK, Engaged, Alive
<1>5. CASE HeartbeatFails(q)
  <2>1. degraded' /\ UNCHANGED <<pc, proc>>
    BY <1>5 DEF HeartbeatFails, EnterDegraded
  <2>2. /\ status[q] \notin {"NONE", "EXITED"}
        /\ status' = [status EXCEPT ![q] = "INTERRUPTED"]
    BY <1>5 DEF HeartbeatFails
  <2>3. Alive(r)' <=> Alive(r)
    BY <2>1 DEF Alive
  <2> QED BY <2>1, <2>2, <2>3 DEF Disengages, LeaseInv, TypeOK, Engaged
<1>6. CASE CancelExecution(q)
  BY <1>6 DEF CancelExecution, host, Disengages, LeaseInv, TypeOK, Engaged, Alive
<1> QED BY <1>1, <1>2, <1>3, <1>4, <1>5, <1>6 DEF Background, MonitorGivesUp

LEMMA ControlDisengages ==
  ASSUME TypeOK, LeaseInv, Stubborn = {}, degraded => degraded', NEW c \in Control,
         Barriers(c) \/ \E o \in Operations : Apply(c, o), NEW r \in Start
  PROVE  Disengages(r)
<1> r \in Request
  BY DEF Request
<1>1. CASE Cancel(c)
  <2>1. Alive(r)' => Alive(r)
    BY <1>1, Terminations DEF Cancel
  <2>2. /\ UNCHANGED <<pc, lease>>
        /\ \/ status'[r] = status[r]
           \/ status[r] \notin {"NONE", "EXITED"} /\ status'[r] = "CANCELLING"
    BY <1>1 DEF Cancel
  <2> QED BY <2>1, <2>2 DEF Disengages, LeaseInv, Engaged
<1>2. CASE ~Cancel(c)
  <2>1. UNCHANGED <<pc, lease, status>>
    BY <1>2 DEF Barriers, Kill, Sweep, Check, Completions, Admissions, Finish, Apply, requests
  <2>2. Alive(r)' => Alive(r)
    BY <1>2, Terminations
    DEF Barriers, Kill, Sweep, Check, Completions, Admissions, Finish, Apply, requests
  <2> QED BY <2>1, <2>2 DEF Disengages, LeaseInv, Engaged
<1> QED BY <1>1, <1>2

LEMMA NextLease ==
  ASSUME Stubborn = {}, TypeOK, LeaseInv, [Next]_vars
  PROVE  LeaseInv'
<1>1. degraded => degraded'
  BY DegradedStays
<1>2. CASE UNCHANGED vars
  BY <1>2 DEF vars, host, requests, LeaseInv, Engaged, Alive
<1> QED BY <1>1, <1>2, BeginKeepsLease, RequestDisengages, ExecutionDisengages,
    ControlDisengages, DisengagingKeeps DEF Next

LEMMA InitLease == Init => LeaseInv
<1> SUFFICES ASSUME Init PROVE LeaseInv
  OBVIOUS
<1>1. \A r \in Start : /\ pc[r] = "idle" /\ status[r] = "NONE" /\ ~Alive(r)
  BY DEF Init, Alive, Request
<1> QED BY <1>1 DEF LeaseInv, Engaged, Starting

(***************************************************************************)
(* Where every process can be terminated, work runs under its lease, and   *)
(* alone in its execution, in every host that takes work.  (With a process *)
(* that cannot, it does not: a start that was revoked gives its lease back *)
(* whether the process is gone or not.)                                    *)
(***************************************************************************)
THEOREM WorkRunsUnderLease ==
  ASSUME Stubborn = {}
  PROVE  Spec => []WorkHoldsLease
<1>1. HostInv /\ LeaseInv /\ [Next]_vars => (HostInv /\ LeaseInv)'
  BY NextHost, NextLease DEF HostInv
<1>2. LeaseInv => WorkHoldsLease
  BY DEF LeaseInv, WorkHoldsLease
<1> QED BY <1>1, <1>2, InitHost, InitLease, PTL DEF Spec

-----------------------------------------------------------------------------
(* The event stream. *)

(***************************************************************************)
(* The spool holds the events of the current attempt, up to the last one   *)
(* that it has emitted, and of earlier attempts.                           *)
(***************************************************************************)
SpoolIsPast ==
  /\ process # "NONE" => attempt # 0
  /\ last # 0 => [attempt |-> attempt, sequence |-> last] \in spool
  /\ \A e \in spool : /\ e.attempt <= attempt
                      /\ e.attempt = attempt => e.sequence <= last
  /\ batch \subseteq spool

(***************************************************************************)
(* What was delivered lies before the cursor, and before what is still to  *)
(* be yielded.                                                             *)
(***************************************************************************)
DeliveredIsBehind ==
  \A i \in DOMAIN delivered :
    /\ delivered[i] < next
    /\ \A e \in batch : e.attempt = attempt => delivered[i] < e.sequence

(***************************************************************************)
(* Where the events of a first attempt are: behind the cursor all of them  *)
(* were delivered; the others are in the batch or came after it was read,  *)
(* and nothing comes after a batch whose snapshot said so.                 *)
(***************************************************************************)
FirstIsWhole ==
  attempt = 1 =>
    /\ next <= last + 1
    /\ \A e \in batch : next <= e.sequence
    /\ \A e \in spool : e.sequence < next => e.sequence \in Delivered
    /\ \A e \in spool \ batch : next <= e.sequence => \A b \in batch : b.sequence < e.sequence
    /\ reader = "yield" /\ terminal =>
         process = "EXITED" /\ \A e \in spool \ batch : e.sequence < next
    /\ Transport = "http" =>
         /\ reader \in {"ended", "accepted"} =>
              process = "EXITED" /\ \A e \in spool : e.sequence < next
         /\ reader = "accepted" => Missing = {}

(***************************************************************************)
(* As long as no number is left out, the n-th event has number n.          *)
(***************************************************************************)
Unbroken ==
  attempt = 1 =>
    \A i \in DOMAIN delivered : 1..delivered[i] \subseteq Own => delivered[i] = i

StreamInv ==
  StreamTypeOK /\ SpoolIsPast /\ DeliveredInOrder /\ DeliveredIsBehind
  /\ FirstIsWhole /\ Unbroken

LEMMA SequenceIs ==
  ASSUME NEW S, NEW s \in Seq(S)
  PROVE  Len(s) \in Nat /\ DOMAIN s = 1..Len(s) /\ \A i \in DOMAIN s : s[i] \in S
BY LenProperties

LEMMA AppendedIs ==
  ASSUME NEW S, NEW s \in Seq(S), NEW x \in S
  PROVE  /\ Append(s, x) \in Seq(S)
         /\ DOMAIN Append(s, x) = DOMAIN s \cup {Len(s) + 1}
         /\ \A i \in DOMAIN s : i < Len(s) + 1 /\ Append(s, x)[i] = s[i]
         /\ Append(s, x)[Len(s) + 1] = x
BY SequenceIs

\* An event is the pair of its attempt and its number.
LEMMA EventIs ==
  ASSUME NEW e \in Event
  PROVE  /\ e.attempt \in 1..MaxAttempts /\ e.sequence \in 1..MaxSequence
         /\ e = [attempt |-> e.attempt, sequence |-> e.sequence]
BY DEF Event

LEMMA OwnIs ==
  ASSUME StreamTypeOK, attempt # 0
  PROVE  /\ \A e \in spool : e.attempt = attempt => e.sequence \in Own
         /\ \A s \in Own : \E e \in spool : e.attempt = attempt /\ e.sequence = s
BY EventIs DEF StreamTypeOK, Own

(***************************************************************************)
(* A step of the runner alone: the spool grows at its end.                 *)
(***************************************************************************)
LEMMA EmitKeeps ==
  ASSUME StreamInv, Emit
  PROVE  StreamInv'
<1>1. PICK s \in 1..MaxSequence :
        /\ s \in {last, last + 1, last + 2}
        /\ spool' = spool \cup {[attempt |-> attempt, sequence |-> s]}
        /\ last' = s
  BY DEF Emit, Spooled
<1>2. /\ process = "RUNNING" /\ UNCHANGED <<attempt, process, stream>>
      /\ attempt \in 1..MaxAttempts /\ attempt # 0 /\ last \in Nat
  BY StreamConstants DEF Emit, StreamInv, SpoolIsPast, StreamTypeOK
<1> DEFINE new == [attempt |-> attempt, sequence |-> s]
<1>3. new \in Event /\ new.attempt = attempt /\ new.sequence = s
  BY <1>2 DEF Event
<1>4. spool' = spool \cup {new}
  BY <1>1
<1> HIDE DEF new
<1>5. StreamTypeOK'
  BY <1>1, <1>2, <1>3, <1>4 DEF StreamInv, StreamTypeOK, stream
<1>6. Own' = Own \cup {s} /\ Delivered' = Delivered
  BY <1>1, <1>2 DEF Own, Delivered, stream
<1>7. \A e \in spool : e.sequence \in Nat /\ e.attempt \in Nat
  BY EventIs, StreamConstants DEF StreamInv, StreamTypeOK
<1>8. SpoolIsPast'
  BY <1>1, <1>2, <1>3, <1>4, <1>7 DEF StreamInv, SpoolIsPast, stream
<1>9. DeliveredInOrder' /\ DeliveredIsBehind'
  BY <1>2, <1>6 DEF StreamInv, DeliveredInOrder, DeliveredIsBehind, stream
<1>10. \A e \in spool : attempt = 1 => e.sequence <= last /\ e.attempt = attempt
  BY <1>7, EventIs DEF StreamInv, SpoolIsPast, StreamTypeOK
<1>11. new \in spool \/ s > last
  <2>1. CASE s = last
    BY <1>1, <1>2, <2>1 DEF StreamInv, SpoolIsPast, new
  <2> QED BY <1>1, <1>2, <2>1
<1>12. FirstIsWhole'
  <2> SUFFICES ASSUME attempt = 1 PROVE FirstIsWhole'
    BY <1>2 DEF FirstIsWhole
  <2>1. /\ next <= last + 1 /\ ~(reader = "yield" /\ terminal) /\ batch \subseteq spool
        /\ Transport = "http" => reader \notin {"ended", "accepted"}
    BY <1>2 DEF StreamInv, FirstIsWhole, SpoolIsPast
  <2>6. next \in Nat
    BY StreamConstants DEF StreamInv, StreamTypeOK
  <2>2. \A e \in batch : e.sequence <= last /\ e.sequence \in Nat
    BY <1>7, <1>10, <2>1
  <2>3. last' \in Nat /\ last <= last' /\ last \in Nat
    BY <1>1, <1>2
  <2>4. CASE new \in spool
    <3>1. spool' = spool /\ UNCHANGED <<reader, next, batch, terminal>>
      BY <1>2, <1>4, <2>4 DEF stream
    <3>2. next <= last' + 1
      <4>1. next <= last + 1
        BY <2>1
      <4>2. \A x, y, z \in Nat : x <= y + 1 /\ y <= z => x <= z + 1
        OBVIOUS
      <4> QED BY <2>3, <2>6, <4>1, <4>2
    <3> QED BY <1>2, <1>6, <2>1, <3>1, <3>2 DEF StreamInv, FirstIsWhole
  <2>5. CASE s > last
    BY <1>1, <1>2, <1>3, <1>4, <1>6, <2>6, <2>1, <2>2, <2>3, <2>5 DEF StreamInv, FirstIsWhole, stream
  <2> QED BY <1>11, <2>4, <2>5
<1>13. Unbroken'
  <2> SUFFICES ASSUME attempt = 1, NEW i \in DOMAIN delivered, 1..delivered[i] \subseteq Own'
               PROVE  delivered[i] = i
    BY <1>2 DEF Unbroken, stream
  <2>1. delivered[i] \in Nat /\ \E e \in spool : e.sequence = delivered[i]
    <3>1. delivered[i] \in Own
      BY DEF StreamInv, DeliveredInOrder, Delivered
    <3> QED BY <1>2, <3>1, OwnIs DEF StreamInv, Own
  <2>2. delivered[i] <= last
    BY <1>10, <2>1
  <2>3. 1..delivered[i] \subseteq Own
    <3>1. CASE new \in spool
      BY <3>1, <1>3, <1>2, <1>6, OwnIs DEF StreamInv
    <3>2. CASE s > last
      BY <1>2, <1>6, <2>1, <2>2, <3>2
    <3> QED BY <1>11, <3>1, <3>2
  <2> QED BY <2>3 DEF StreamInv, Unbroken
<1> QED BY <1>5, <1>8, <1>9, <1>12, <1>13 DEF StreamInv

LEMMA ProcessExitsKeeps ==
  ASSUME StreamInv, ProcessExits
  PROVE  StreamInv'
<1>1. /\ process = "RUNNING" /\ process' = "EXITED"
      /\ UNCHANGED <<attempt, last, spool, stream>>
  BY DEF ProcessExits
<1>2. StreamTypeOK' /\ SpoolIsPast'
  BY <1>1 DEF StreamInv, StreamTypeOK, SpoolIsPast, stream
<1>3. Own' = Own /\ Delivered' = Delivered /\ Missing' = Missing
  BY <1>1 DEF Own, Delivered, Missing, stream
<1>4. FirstIsWhole'
  BY <1>1, <1>3 DEF StreamInv, FirstIsWhole, stream
<1> QED BY <1>1, <1>2, <1>3, <1>4
    DEF StreamInv, DeliveredInOrder, DeliveredIsBehind, Unbroken, stream

LEMMA StartAttemptKeeps ==
  ASSUME StreamInv, StartAttempt
  PROVE  StreamInv'
<1>1. /\ attempt \in Nat /\ attempt' = attempt + 1 /\ last' = 0 /\ process' = "RUNNING"
      /\ reader' = "read" /\ next' = 1 /\ delivered' = << >> /\ batch' = {}
      /\ UNCHANGED <<spool, terminal>> /\ attempt < MaxAttempts
  BY StreamConstants DEF StartAttempt, StreamInv, StreamTypeOK
<1>2. StreamTypeOK'
  BY <1>1, StreamConstants, EmptySeq DEF StreamInv, StreamTypeOK
<1>3. \A e \in spool : /\ e.attempt <= attempt /\ e.attempt \in Nat /\ e.attempt # 0
                       /\ e.sequence \in Nat
  BY EventIs, StreamConstants DEF StreamInv, StreamTypeOK, SpoolIsPast
<1>4. SpoolIsPast'
  BY <1>1, <1>3 DEF SpoolIsPast
<1>5. DOMAIN delivered' = {} /\ Delivered' = {}
  BY <1>1 DEF Delivered
<1>6. attempt' = 1 => spool = {}
  BY <1>1, <1>3
<1>7. FirstIsWhole'
  BY <1>1, <1>6 DEF FirstIsWhole
<1> QED BY <1>1, <1>2, <1>4, <1>5, <1>7
    DEF StreamInv, DeliveredInOrder, DeliveredIsBehind, Unbroken

-----------------------------------------------------------------------------
(* The reader. *)

LEMMA ReadKeeps ==
  ASSUME StreamInv, Read
  PROVE  StreamInv'
<1>1. /\ terminal' = (process = "EXITED") /\ batch' = {e \in spool : e.sequence >= next}
      /\ reader' = IF batch' # {} THEN "yield" ELSE IF process = "EXITED" THEN "ended" ELSE "read"
      /\ UNCHANGED <<attempt, last, spool, process, next, delivered>>
  BY DEF Read, IsTerminal, EventsFrom, runner
<1>2. StreamTypeOK' /\ SpoolIsPast' /\ next \in Nat
  BY <1>1, StreamConstants DEF StreamInv, StreamTypeOK, SpoolIsPast
<1>3. Own' = Own /\ Delivered' = Delivered /\ Missing' = Missing
  BY <1>1 DEF Own, Delivered, Missing
<1>4. \A e \in spool : e.sequence \in Nat
  BY EventIs, StreamConstants DEF StreamInv, StreamTypeOK
<1>5. DeliveredIsBehind'
  <2>1. \A i \in DOMAIN delivered : delivered[i] \in Nat
    BY SequenceIs, StreamConstants DEF StreamInv, StreamTypeOK
  <2> QED BY <1>1, <1>2, <1>4, <2>1 DEF StreamInv, DeliveredIsBehind
<1>6. FirstIsWhole'
  <2> SUFFICES ASSUME attempt = 1 PROVE FirstIsWhole'
    BY <1>1 DEF FirstIsWhole
  <2>1. /\ \A e \in batch' : next <= e.sequence
        /\ \A e \in spool \ batch' : e.sequence < next
    BY <1>1, <1>2, <1>4
  <2>2. /\ next <= last + 1
        /\ \A e \in spool : e.sequence < next => e.sequence \in Delivered
    BY DEF StreamInv, FirstIsWhole
  <2>3. reader' = "ended" => process = "EXITED" /\ batch' = {}
    BY <1>1
  <2>4. reader' # "accepted"
    BY <1>1
  <2> QED BY <1>1, <1>2, <1>3, <1>4, <2>1, <2>2, <2>3, <2>4 DEF FirstIsWhole
<1> QED BY <1>1, <1>2, <1>3, <1>5, <1>6 DEF StreamInv, DeliveredInOrder, Unbroken

(***************************************************************************)
(* The event that is yielded is the least of the batch.                    *)
(***************************************************************************)
LEMMA YieldKeeps ==
  ASSUME StreamInv, Yield
  PROVE  StreamInv'
<1>1. PICK e \in batch :
        /\ \A f \in batch \ {e} : Before(e, f)
        /\ delivered' = IF IsOwn(e) THEN Append(delivered, e.sequence) ELSE delivered
        /\ next' = CursorAfter(e)
        /\ batch' = batch \ {e}
  BY DEF Yield
<1>2. /\ reader = "yield" /\ UNCHANGED <<attempt, last, spool, process, reader, terminal>>
      /\ e \in spool /\ batch \subseteq spool /\ spool \subseteq Event
  BY DEF Yield, StreamInv, SpoolIsPast, StreamTypeOK, runner
<1>3. /\ next \in Nat /\ next \in 1..MaxSequence + 1 /\ MaxSequence \in Nat
      /\ last \in Nat /\ e.sequence \in 1..MaxSequence /\ attempt \in Nat
      /\ delivered \in Seq(1..MaxSequence) /\ Len(delivered) \in Nat
      /\ DOMAIN delivered = 1..Len(delivered)
      /\ \A i \in DOMAIN delivered : delivered[i] \in 1..MaxSequence
  BY <1>2, StreamConstants, EventIs, SequenceIs DEF StreamInv, StreamTypeOK
<1>4. /\ next' \in 1..MaxSequence + 1 /\ next' \in Nat /\ next <= next'
      /\ e.sequence < next' /\ (next' = next \/ next' = e.sequence + 1)
  BY <1>1, <1>3 DEF CursorAfter
<1>5. \A f \in spool : /\ f.sequence \in Nat /\ f.attempt \in 1..MaxAttempts
                       /\ f.attempt <= attempt
                       /\ f = [attempt |-> f.attempt, sequence |-> f.sequence]
  BY <1>2, <1>3, EventIs DEF StreamInv, SpoolIsPast
<1>6. \A f \in batch \ {e} :
        /\ e.sequence <= f.sequence
        /\ f.attempt = e.attempt => e.sequence < f.sequence
  BY <1>1, <1>2, <1>3, <1>5 DEF Before
<1>7. Own' = Own /\ Missing' = Missing
  BY <1>2 DEF Own, Missing
<1> DEFINE n == Len(delivered) + 1
<1>8. CASE ~IsOwn(e)
  <2>1. delivered' = delivered /\ Delivered' = Delivered
    BY <1>1, <1>8 DEF Delivered
  <2>2. StreamTypeOK' /\ SpoolIsPast'
    BY <1>1, <1>2, <1>4, <2>1 DEF StreamInv, StreamTypeOK, SpoolIsPast
  <2>3. attempt # 1
    BY <1>2, <1>3, <1>5, <1>8 DEF IsOwn
  <2>4. DeliveredIsBehind'
    <3>1. \A i \in DOMAIN delivered : delivered[i] < next'
      BY <1>3, <1>4 DEF StreamInv, DeliveredIsBehind
    <3>2. batch' \subseteq batch
      BY <1>1
    <3> QED BY <1>2, <2>1, <3>1, <3>2 DEF StreamInv, DeliveredIsBehind
  <2> QED BY <1>2, <1>7, <2>1, <2>2, <2>3, <2>4
      DEF StreamInv, DeliveredInOrder, FirstIsWhole, Unbroken
<1>9. CASE IsOwn(e)
  <2>1. /\ delivered' \in Seq(1..MaxSequence) /\ DOMAIN delivered' = DOMAIN delivered \cup {n}
        /\ \A i \in DOMAIN delivered : i < n /\ delivered'[i] = delivered[i]
        /\ delivered'[n] = e.sequence
    BY <1>1, <1>3, <1>9, AppendedIs
  <2> HIDE DEF n
  <2>2. StreamTypeOK' /\ SpoolIsPast'
    BY <1>1, <1>2, <1>4, <2>1 DEF StreamInv, StreamTypeOK, SpoolIsPast
  <2>3. Delivered' = Delivered \cup {e.sequence}
    BY <2>1 DEF Delivered
  <2>4. e.attempt = attempt /\ attempt # 0 /\ e.sequence \in Own
    <3>1. e.attempt = attempt /\ attempt # 0
      BY <1>2, <1>5, <1>9 DEF IsOwn
    <3> QED BY <1>2, <3>1, OwnIs DEF StreamInv
  <2>5. \A i \in DOMAIN delivered : delivered[i] < e.sequence /\ delivered[i] < next
    BY <2>4 DEF StreamInv, DeliveredIsBehind
  <2>6. DeliveredInOrder'
    <3>1. Delivered' \subseteq Own'
      BY <1>7, <2>3, <2>4 DEF StreamInv, DeliveredInOrder
    <3>2. \A i, j \in DOMAIN delivered' : i < j => delivered'[i] < delivered'[j]
      BY <1>3, <2>1, <2>5 DEF StreamInv, DeliveredInOrder, n
    <3> QED BY <3>1, <3>2 DEF DeliveredInOrder
  <2>7. DeliveredIsBehind'
    BY <1>1, <1>2, <1>3, <1>4, <1>6, <2>1, <2>4, <2>5 DEF StreamInv, DeliveredIsBehind
  <2>8. attempt = 1 =>
          /\ next <= e.sequence /\ next' = e.sequence + 1 /\ e.sequence <= last
          /\ \A f \in spool : f.sequence < e.sequence => f.sequence \in Delivered
          /\ \A f \in spool : f # e => f.sequence # e.sequence
    <3> SUFFICES ASSUME attempt = 1
                 PROVE  /\ next <= e.sequence /\ next' = e.sequence + 1 /\ e.sequence <= last
                        /\ \A f \in spool : f.sequence < e.sequence => f.sequence \in Delivered
                        /\ \A f \in spool : f # e => f.sequence # e.sequence
      OBVIOUS
    <3>1. next <= e.sequence /\ next' = e.sequence + 1 /\ e.sequence <= last
      BY <1>1, <1>2, <1>3, <2>4 DEF StreamInv, FirstIsWhole, SpoolIsPast, CursorAfter
    <3>2. ASSUME NEW f \in spool, f.sequence < e.sequence PROVE f.sequence \in Delivered
      <4>1. f \notin batch
        BY <1>3, <1>5, <1>6, <3>2
      <4> QED BY <1>3, <1>5, <3>2, <4>1 DEF StreamInv, FirstIsWhole
    <3>3. \A f \in spool : f.attempt = e.attempt
      BY <1>5, <2>4
    <3> QED BY <1>2, <1>5, <3>1, <3>2, <3>3
  <2>9. FirstIsWhole'
    <3> SUFFICES ASSUME attempt = 1 PROVE FirstIsWhole'
      BY <1>2 DEF FirstIsWhole
    <3>1. next' <= last + 1 /\ \A f \in batch' : next' <= f.sequence
      BY <1>1, <1>2, <1>3, <1>5, <1>6, <2>8
    <3>2. \A f \in spool : f.sequence < next' => f.sequence \in Delivered'
      BY <1>3, <1>5, <2>3, <2>8
    <3>3. \A f \in spool \ batch' : next' <= f.sequence =>
            \A b \in batch' : b.sequence < f.sequence
      <4>1. \A f \in spool \ batch' : next' <= f.sequence => f \notin batch /\ next <= f.sequence
        BY <1>1, <1>3, <1>4, <1>5
      <4>2. batch' \subseteq batch
        BY <1>1
      <4> QED BY <4>1, <4>2 DEF StreamInv, FirstIsWhole
    <3>4. terminal => process = "EXITED" /\ \A f \in spool \ batch' : f.sequence < next'
      BY <1>1, <1>2, <1>3, <1>4, <1>5 DEF StreamInv, FirstIsWhole
    <3> QED BY <1>2, <3>1, <3>2, <3>3, <3>4 DEF FirstIsWhole
  <2>10. Unbroken'
    <3> SUFFICES ASSUME attempt = 1, 1..e.sequence \subseteq Own
                 PROVE  e.sequence = n
      BY <1>2, <1>7, <2>1 DEF StreamInv, Unbroken
    <3>1. CASE e.sequence = 1
      <4>1. DOMAIN delivered = {}
        BY <1>3, <2>5, <3>1
      <4> QED BY <1>3, <3>1, <4>1 DEF n
    <3>2. CASE e.sequence # 1
      <4>1. e.sequence - 1 \in Own
        BY <1>3, <3>2
      <4>2. e.sequence - 1 \in Delivered
        <5>1. PICK f \in spool : f.sequence = e.sequence - 1
          BY <2>4, <4>1, OwnIs DEF StreamInv
        <5> QED BY <1>3, <2>8, <5>1
      <4>3. PICK i \in DOMAIN delivered : delivered[i] = e.sequence - 1
        BY <4>2 DEF Delivered
      <4>4. i = Len(delivered)
        <5>1. Len(delivered) \in DOMAIN delivered
          BY <1>3, <4>3
        <5>2. delivered[Len(delivered)] < e.sequence
          BY <2>5, <5>1
        <5>3. i < Len(delivered) => delivered[i] < delivered[Len(delivered)]
          BY <5>1 DEF StreamInv, DeliveredInOrder
        <5> QED BY <1>3, <4>3, <5>1, <5>2, <5>3
      <4>5. 1..delivered[i] \subseteq Own
        BY <1>3, <4>3
      <4>6. delivered[i] = i
        BY <4>5 DEF StreamInv, Unbroken
      <4> QED BY <1>3, <4>3, <4>4, <4>6 DEF n
    <3> QED BY <3>1, <3>2
  <2> QED BY <2>2, <2>6, <2>7, <2>9, <2>10 DEF StreamInv
<1> QED BY <1>8, <1>9

(***************************************************************************)
(* The reader alone moves.  It ends where the snapshot said that the       *)
(* runner is done.                                                         *)
(***************************************************************************)
LEMMA ReaderMoves ==
  ASSUME StreamInv, Poll \/ RequestFails \/ Judge
  PROVE  StreamInv'
<1>1. /\ UNCHANGED <<attempt, last, spool, process, next, batch, terminal, delivered>>
      /\ reader' \in {"read", "ended", "failed", "accepted"}
      /\ reader' = "ended" /\ Transport = "http" => reader = "yield" /\ batch = {} /\ terminal
      /\ reader' = "accepted" => reader = "ended" /\ Missing = {}
  BY DEF Poll, RequestFails, Judge, EndSeen, runner
<1>2. StreamTypeOK' /\ SpoolIsPast'
  BY <1>1 DEF StreamInv, StreamTypeOK, SpoolIsPast
<1>3. Own' = Own /\ Delivered' = Delivered /\ Missing' = Missing
  BY <1>1 DEF Own, Delivered, Missing
<1>4. FirstIsWhole'
  BY <1>1, <1>3 DEF StreamInv, FirstIsWhole
<1> QED BY <1>1, <1>2, <1>3, <1>4
    DEF StreamInv, DeliveredInOrder, DeliveredIsBehind, Unbroken

LEMMA StreamNextInv ==
  ASSUME StreamInv, [StreamNext]_events
  PROVE  StreamInv'
<1>1. CASE UNCHANGED events
  <2>1. UNCHANGED <<attempt, last, spool, process, reader, next, batch, terminal, delivered>>
    BY <1>1 DEF events, runner, stream
  <2>2. Own' = Own /\ Delivered' = Delivered /\ Missing' = Missing
    BY <2>1 DEF Own, Delivered, Missing
  <2> QED BY <2>1, <2>2 DEF StreamInv, StreamTypeOK, SpoolIsPast, DeliveredInOrder,
      DeliveredIsBehind, FirstIsWhole, Unbroken
<1> QED BY <1>1, StartAttemptKeeps, EmitKeeps, ProcessExitsKeeps, ReadKeeps, YieldKeeps,
    ReaderMoves DEF StreamNext

LEMMA StreamInitInv == StreamInit => StreamInv
<1> SUFFICES ASSUME StreamInit PROVE StreamInv
  OBVIOUS
<1>1. DOMAIN delivered = {} /\ Delivered = {}
  BY DEF StreamInit, Delivered
<1>2. StreamTypeOK
  <2>1. delivered \in Seq(1..MaxSequence)
    BY EmptySeq DEF StreamInit
  <2>2. attempt \in 0..MaxAttempts /\ last \in 0..MaxSequence /\ next \in 1..MaxSequence + 1
    BY StreamConstants DEF StreamInit
  <2> QED BY <2>1, <2>2 DEF StreamInit, StreamTypeOK
<1> QED BY <1>1, <1>2 DEF StreamInit, StreamInv, SpoolIsPast, DeliveredInOrder,
    DeliveredIsBehind, FirstIsWhole, Unbroken

(***************************************************************************)
(* What the invariant says of a first attempt.                             *)
(***************************************************************************)
LEMMA InvIsWhole ==
  ASSUME StreamInv, Transport = "http"
  PROVE  FirstStreamWhole
<1> SUFFICES ASSUME attempt = 1
             PROVE  /\ StreamComplete
                    /\ reader = "accepted" => \A i \in DOMAIN delivered : delivered[i] = i
  BY DEF FirstStreamWhole
<1>1. \A s \in Own : \E e \in spool : e.sequence = s
  BY OwnIs DEF StreamInv
<1>2. StreamComplete
  BY <1>1 DEF StreamInv, FirstIsWhole, StreamComplete
<1>3. ASSUME reader = "accepted", NEW i \in DOMAIN delivered
      PROVE  delivered[i] = i
  <2>1. delivered[i] \in Own /\ delivered[i] \in 1..MaxSequence /\ MaxSequence \in Nat
    BY StreamConstants DEF StreamInv, DeliveredInOrder, Delivered, Own
  <2>2. \A s \in 1..MaxSequence : s < delivered[i] =>
          s \in {e.sequence : e \in {x \in spool : x.attempt = attempt}}
    <3>1. PICK e \in spool : e.attempt = attempt /\ e.sequence = delivered[i]
      BY <2>1, OwnIs DEF StreamInv
    <3> QED BY <1>3, <3>1 DEF StreamInv, FirstIsWhole, Missing
  <2>3. 1..delivered[i] \subseteq Own
    <3> SUFFICES ASSUME NEW s \in 1..delivered[i] PROVE s \in Own
      OBVIOUS
    <3>1. CASE s = delivered[i]
      BY <2>1, <3>1
    <3>2. CASE s < delivered[i]
      <4>1. PICK e \in spool : e.attempt = attempt /\ e.sequence = s
        BY <2>1, <2>2, <3>2
      <4> QED BY <4>1, OwnIs DEF StreamInv
    <3> QED BY <2>1, <3>1, <3>2
  <2> QED BY <2>3 DEF StreamInv, Unbroken
<1> QED BY <1>2, <1>3

(***************************************************************************)
(* Over HTTP, however the exit of the process, its last events and the     *)
(* polls interleave, the stream of a first attempt is whole.               *)
(***************************************************************************)
THEOREM FirstStreamsAreWhole ==
  ASSUME Transport = "http"
  PROVE  StreamSpec => []FirstStreamWhole
<1>1. StreamInv /\ [StreamNext]_events => StreamInv'
  BY StreamNextInv
<1>2. StreamInv => FirstStreamWhole
  BY InvIsWhole
<1> QED BY <1>1, <1>2, StreamInitInv, PTL DEF StreamSpec

(***************************************************************************)
(* What the coordinator processes for an attempt comes from it, once each  *)
(* and in order, whatever numbers the runtime repeats or leaves out,       *)
(* whatever earlier attempts have left in the spool, and over whichever    *)
(* transport.                                                              *)
(***************************************************************************)
THEOREM EventsComeInOrder == StreamSpec => []DeliveredInOrder
<1>1. StreamInv /\ [StreamNext]_events => StreamInv'
  BY StreamNextInv
<1>2. StreamInv => DeliveredInOrder
  BY DEF StreamInv
<1> QED BY <1>1, <1>2, StreamInitInv, PTL DEF StreamSpec
=============================================================================
