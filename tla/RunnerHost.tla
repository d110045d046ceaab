----------------------------- MODULE RunnerHost -----------------------------
(***************************************************************************)
(* LocalRunnerHost and its LocalProcessSupervisor                          *)
(* (src/oef/phase2/runner).  The host is one JavaScript process: a handler *)
(* runs alone until it awaits, so a step here is the code between two      *)
(* awaits, and between its steps a request is overtaken by control calls,  *)
(* by other requests, by process exits and by timers.                      *)
(*                                                                         *)
(* A request either starts an execution (under a lease, remembered as      *)
(* active and watched by a monitor) or runs a verification command.  A     *)
(* control call changes the kill switch; CANCEL_ALL and CLOSE also run the *)
(* two-pass cancellation barrier.                                          *)
(*                                                                         *)
(* controlGeneration and containmentGeneration are compared only with the  *)
(* value that a request remembered.  The model keeps the outcome of the    *)
(* comparison: the requests that a later increment has made stale.         *)
(***************************************************************************)
EXTENDS Naturals, FiniteSets

CONSTANTS
  Start,        \* requests to start an execution
  Verify,       \* requests to run a verification command
  Execution,    \* execution ids
  Of,           \* [Start -> Execution]: the execution a request starts
  Stubborn,     \* requests whose process tree survives every termination
  Control,      \* control calls
  Operations    \* what control calls may ask for

Request == Start \cup Verify

ASSUME Constants ==
  /\ Start \cap Verify = {}
  /\ Of \in [Start -> Execution]
  /\ Stubborn \subseteq Request
  /\ Operations \subseteq {"RUNNING", "PAUSE", "CANCEL_ALL", "CLOSE"}

VARIABLES
  killSwitch,  \* the persistent switch
  degraded,    \* in-memory: the host refuses work until it is replaced
  closing,     \* close() was called
  pc,          \* [Request -> where its handler awaits]
  stale,       \* requests admitted under an earlier controlGeneration
  revoked,     \* requests launched under an earlier containmentGeneration
  proc,        \* [Request -> its process tree]
  status,      \* [Start -> status of the active execution, NONE if absent]
  cancelling,  \* executions whose cancelExecution awaits the termination
  lease,       \* [Execution -> state of its lease]
  op,          \* [Control -> what the call asked for]
  cpc,         \* [Control -> where the call awaits]
  round,       \* [Control -> the pass of the barrier it is in]
  before,      \* [Control -> requests accepted before the call]
  troubled     \* control calls that met an error or a timeout

host == <<killSwitch, degraded, closing>>
requests == <<pc, stale, revoked, proc, status, cancelling, lease>>
controls == <<op, cpc, round, before, troubled>>
vars == <<host, requests, controls>>

Status == {"NONE", "STARTING", "RUNNING", "CANCELLING", "INTERRUPTED", "EXITED"}

TypeOK ==
  /\ killSwitch \in {"RUNNING", "PAUSE", "CANCEL_ALL"}
  /\ degraded \in BOOLEAN
  /\ closing \in BOOLEAN
  /\ pc \in [Request -> {"idle", "preparing", "materializing", "attesting",
                         "cleanup", "started", "revoking", "rollback",
                         "waiting", "returned", "failed"}]
  /\ stale \subseteq Request
  /\ revoked \subseteq Request
  /\ proc \in [Request -> {"none", "pending", "running", "dead"}]
  /\ status \in [Start -> Status]
  /\ cancelling \subseteq Start
  /\ lease \in [Execution -> {"none", "ACTIVE", "RELEASED"}]
  /\ op \in [Control -> Operations \cup {"none"}]
  /\ cpc \in [Control -> {"idle", "kill", "sweep", "resweep", "check",
                          "cancel", "completions", "admissions", "finish",
                          "done", "failed"}]
  /\ round \in [Control -> 0..2]
  /\ before \in [Control -> SUBSET Request]
  /\ troubled \subseteq Control

Init ==
  /\ killSwitch = "RUNNING"
  /\ degraded = FALSE
  /\ closing = FALSE
  /\ pc = [r \in Request |-> "idle"]
  /\ stale = {}
  /\ revoked = {}
  /\ proc = [r \in Request |-> "none"]
  /\ status = [r \in Start |-> "NONE"]
  /\ cancelling = {}
  /\ lease = [e \in Execution |-> "none"]
  /\ op = [c \in Control |-> "none"]
  /\ cpc = [c \in Control |-> "idle"]
  /\ round = [c \in Control |-> 0]
  /\ before = [c \in Control |-> {}]
  /\ troubled = {}

-----------------------------------------------------------------------------
InAdmission == {r \in Request :
                  pc[r] \in {"preparing", "materializing", "attesting",
                             "cleanup", "started", "revoking", "rollback"}}

\* In supervisor.start, so holding a containmentGeneration.
Launching == {r \in Request : pc[r] \in {"materializing", "attesting"}}

Alive(r) == proc[r] \in {"pending", "running"}

\* assertAdmission: the generation is the admitted one, the host is neither
\* closing nor degraded and the switch lets work start.
Admissible(r) ==
  /\ r \notin stale
  /\ ~closing
  /\ ~degraded
  /\ killSwitch = "RUNNING"

\* enterDegraded: a new control generation and a closed switch.  (Writing the
\* switch may fail; nothing in a degraded host looks at it again.)
EnterDegraded ==
  /\ degraded' = TRUE
  /\ killSwitch' = "CANCEL_ALL"
  /\ stale' = IF degraded THEN stale ELSE stale \cup InAdmission
  /\ UNCHANGED closing

\* Its termination can be confirmed.
Terminable(r) == r \notin Stubborn \/ ~Alive(r)

\* The processes after a termination of those in S.
Terminated(S) == [r \in Request |-> IF r \in S \ Stubborn /\ Alive(r)
                                    THEN "dead" ELSE proc[r]]

\* killAll as the last resort of a failed cancellation: everything known to
\* the supervisor, and a new containment generation.
KillAll ==
  /\ proc' = Terminated(Request)
  /\ revoked' = revoked \cup Launching

\* The lease file of a start request.
SetLease(r, state) ==
  lease' = IF r \in Start THEN [lease EXCEPT ![Of[r]] = state] ELSE lease

\* The handler throws: the lease is given back and the admission ends.
Fail(r) ==
  /\ pc' = [pc EXCEPT ![r] = "failed"]
  /\ SetLease(r, "RELEASED")

-----------------------------------------------------------------------------
(* The handlers of requests. *)

\* At most one start per execution is in flight: its one caller awaits it.
OneCaller(r) == \A q \in Start \cap InAdmission : Of[q] # Of[r]

\* Bug: an execution may be started over one that still runs.
AnyTime(r) == TRUE

NotRunning(r) ==
  \A q \in Start : Of[q] = Of[r] => status[q] \in {"NONE", "EXITED", "INTERRUPTED"}

Begin(r) ==
  /\ pc[r] = "idle"
  /\ Admissible(r)
  /\ r \in Start => OneCaller(r) /\ NotRunning(r)
  /\ pc' = [pc EXCEPT ![r] = IF r \in Start THEN "preparing" ELSE "materializing"]
  /\ SetLease(r, "ACTIVE")
  /\ UNCHANGED <<host, controls, cancelling, stale, revoked, proc, status>>

\* After adapter.prepareLaunch, which may also throw.
Prepared(r) ==
  /\ pc[r] = "preparing"
  /\ \/ /\ Admissible(r)
        /\ pc' = [pc EXCEPT ![r] = "materializing"]
        /\ UNCHANGED lease
     \/ Fail(r)
  /\ UNCHANGED <<host, controls, cancelling, stale, revoked, proc, status>>

\* After the secrets are there (or could not be had): the child is spawned
\* and listed as a pending start.
Spawn(r) ==
  /\ pc[r] = "materializing"
  /\ \/ /\ r \notin revoked
        /\ proc' = [proc EXCEPT ![r] = "pending"]
        /\ pc' = [pc EXCEPT ![r] = "attesting"]
        /\ UNCHANGED lease
     \/ /\ Fail(r)
        /\ UNCHANGED proc
  /\ UNCHANGED <<host, controls, cancelling, stale, revoked, status>>

\* After the identity is attested (or not): the child becomes a record.
Attest(r) ==
  /\ pc[r] = "attesting"
  /\ \/ /\ r \notin revoked
        /\ proc' = [proc EXCEPT ![r] = IF Alive(r) THEN "running" ELSE "dead"]
        /\ pc' = [pc EXCEPT ![r] = "started"]
     \/ /\ pc' = [pc EXCEPT ![r] = "cleanup"]
        /\ UNCHANGED proc
  /\ UNCHANGED <<host, controls, cancelling, stale, revoked, status, lease>>

\* Bug: the start waits until the child is gone.
CleanupUntilGone(r) ==
  /\ pc[r] = "cleanup"
  /\ Terminable(r)
  /\ Fail(r)
  /\ proc' = Terminated({r})
  /\ UNCHANGED <<host, controls, cancelling, stale, revoked, status>>

\* cleanupPendingStart, by the start itself.
Cleanup(r) ==
  /\ pc[r] = "cleanup"
  /\ Fail(r)
  /\ IF Terminable(r)
     THEN proc' = Terminated({r}) /\ UNCHANGED <<host, stale, revoked>>
     ELSE EnterDegraded /\ KillAll
  /\ UNCHANGED <<controls, cancelling, status>>

\* supervisor.start has returned: the request is let in, or its process is
\* to be terminated again.
Started(r) ==
  /\ pc[r] = "started"
  /\ \/ /\ Admissible(r)
        /\ r \in Start
        /\ \/ /\ pc' = [pc EXCEPT ![r] = "returned"]
              /\ status' = [status EXCEPT ![r] = "STARTING"]
           \/ \* its state cannot be persisted
              /\ pc' = [pc EXCEPT ![r] = "rollback"]
              /\ status' = [status EXCEPT ![r] = "CANCELLING"]
     \/ /\ Admissible(r)
        /\ r \in Verify
        /\ pc' = [pc EXCEPT ![r] = "waiting"]
        /\ UNCHANGED status
     \/ /\ ~Admissible(r)
        /\ pc' = [pc EXCEPT ![r] = "revoking"]
        /\ UNCHANGED status
  /\ UNCHANGED <<host, controls, cancelling, stale, revoked, proc, lease>>

\* The revoked process is cancelled and awaited.  Whether its termination
\* was confirmed or not, the handler throws and the lease is given back.
Revoke(r) ==
  /\ pc[r] = "revoking"
  /\ Fail(r)
  /\ proc' = Terminated({r})
  /\ UNCHANGED <<host, controls, cancelling, stale, revoked, status>>

\* The last steps of a cancellation: the process ends in time, or the host
\* degrades and everything is killed.
Cancelled(r) ==
  \/ /\ Terminable(r)
     /\ proc' = Terminated({r})
     /\ UNCHANGED <<host, stale, revoked>>
  \/ EnterDegraded /\ KillAll

\* If the state cannot be persisted a second time, cancelExecution throws
\* before it cancels, and every process of the host is killed instead.
Rollback(r) ==
  /\ pc[r] = "rollback"
  /\ pc' = [pc EXCEPT ![r] = "failed"]
  /\ \/ Cancelled(r)
     \/ KillAll /\ UNCHANGED <<host, stale>>
  /\ UNCHANGED <<controls, cancelling, status, lease>>

-----------------------------------------------------------------------------
(* Active executions. *)

\* The tree ends by itself, or a timeout of the supervisor ends it.
\* A leader that leaves descendants is a protocol error there and EXITED here
\* as well; the tree is one process.
Exit(r) ==
  /\ Alive(r)
  /\ r \notin Stubborn
  /\ proc' = [proc EXCEPT ![r] = "dead"]
  /\ UNCHANGED <<host, controls, cancelling, pc, stale, revoked, status, lease>>

\* acceptEvent of execution.started.
NotifyStarted(r) ==
  /\ proc[r] = "running"
  /\ status[r] \in {"STARTING", "CANCELLING", "INTERRUPTED"}
  /\ status' = [status EXCEPT ![r] = "RUNNING"]
  /\ UNCHANGED <<host, controls, cancelling, pc, stale, revoked, proc, lease>>

\* monitor, when the supervisor reports the exit.  The lease is given back,
\* or the host degrades because it cannot be.
Monitor(r) ==
  /\ proc[r] = "dead"
  /\ status[r] \notin {"NONE", "EXITED"}
  /\ status' = [status EXCEPT ![r] = "EXITED"]
  /\ \/ SetLease(r, "RELEASED") /\ UNCHANGED <<host, stale>>
     \/ EnterDegraded /\ UNCHANGED lease
  /\ UNCHANGED <<controls, cancelling, pc, revoked, proc>>

\* monitor, when the supervisor gives up on a process that timed out.
MonitorGivesUp(r) ==
  /\ r \in Stubborn
  /\ proc[r] = "running"
  /\ status[r] \notin {"NONE", "EXITED", "INTERRUPTED"}
  /\ EnterDegraded
  /\ KillAll
  /\ status' = [status EXCEPT ![r] = "INTERRUPTED"]
  /\ SetLease(r, "RELEASED")
  /\ UNCHANGED <<controls, cancelling, pc>>

\* The heartbeat cannot be written; perhaps the lease cannot be given back.
HeartbeatFails(r) ==
  /\ status[r] \notin {"NONE", "EXITED", "INTERRUPTED"}
  /\ EnterDegraded
  /\ status' = [status EXCEPT ![r] = "INTERRUPTED"]
  /\ SetLease(r, "RELEASED") \/ UNCHANGED lease
  /\ UNCHANGED <<controls, cancelling, pc, revoked, proc>>

\* containAfterFailure, in the background.
Contain(r) ==
  /\ status[r] = "INTERRUPTED"
  /\ Alive(r)
  /\ IF r \in Stubborn
     THEN KillAll
     ELSE proc' = Terminated({r}) /\ UNCHANGED revoked
  /\ UNCHANGED <<host, controls, cancelling, pc, stale, status, lease>>

\* cancelExecution by a client, up to its first await.
CancelExecution(r) ==
  /\ status[r] \notin {"NONE", "EXITED"}
  /\ r \notin cancelling
  /\ cancelling' = cancelling \cup {r}
  /\ status' = IF status[r] = "INTERRUPTED" THEN status
               ELSE [status EXCEPT ![r] = "CANCELLING"]
  /\ UNCHANGED <<host, controls, pc, stale, revoked, proc, lease>>

CancelTerminates(r) ==
  /\ r \in cancelling
  /\ cancelling' = cancelling \ {r}
  /\ Cancelled(r)
  /\ \/ status[r] = "INTERRUPTED" /\ SetLease(r, "RELEASED")
     \/ UNCHANGED lease
  /\ UNCHANGED <<controls, pc, status>>

\* The verification command has ended, or the supervisor gave up on it.
Verified(r) ==
  /\ pc[r] = "waiting"
  /\ \/ /\ proc[r] = "dead"
        /\ pc' = [pc EXCEPT ![r] = "returned"]
     \/ /\ r \in Stubborn
        /\ pc' = [pc EXCEPT ![r] = "failed"]
  /\ UNCHANGED <<host, controls, cancelling, stale, revoked, proc, status, lease>>

-----------------------------------------------------------------------------
(* Control calls: applyControlState and close. *)

Barrier == {"CANCEL_ALL", "CLOSE"}

\* The generation and the switch are set first.  If the switch cannot be
\* written a barrier goes on with the host degraded, any other call throws.
Apply(c, o) ==
  /\ cpc[c] = "idle"
  /\ ~closing
  /\ o = "RUNNING" => ~degraded
  /\ op' = [op EXCEPT ![c] = o]
  /\ before' = [before EXCEPT ![c] = {r \in Request : pc[r] # "idle"}]
  /\ closing' = (o = "CLOSE")
  /\ round' = [round EXCEPT ![c] = 1]
  /\ stale' = IF o = "RUNNING" THEN stale ELSE stale \cup InAdmission
  /\ \/ /\ killSwitch' = IF o = "CLOSE" THEN "CANCEL_ALL" ELSE o
        /\ cpc' = [cpc EXCEPT ![c] = IF o \in Barrier THEN "kill" ELSE "done"]
        /\ UNCHANGED <<degraded, troubled>>
     \/ /\ o \in Barrier
        /\ degraded' = TRUE
        /\ killSwitch' = "CANCEL_ALL"
        /\ cpc' = [cpc EXCEPT ![c] = "kill"]
        /\ troubled' = troubled \cup {c}
     \/ /\ o \notin Barrier
        /\ cpc' = [cpc EXCEPT ![c] = "failed"]
        /\ UNCHANGED <<killSwitch, degraded, troubled>>
  /\ UNCHANGED <<pc, revoked, proc, status, cancelling, lease>>

Goto(c, next) == cpc' = [cpc EXCEPT ![c] = next]

\* killAll: a new containment generation, two sweeps of the records and the
\* pending starts, then the count of what is left.
Kill(c) ==
  /\ cpc[c] = "kill"
  /\ Goto(c, "sweep")
  /\ revoked' = revoked \cup Launching
  /\ UNCHANGED <<host, pc, stale, proc, status, cancelling, lease, op, round,
                 before, troubled>>

Sweep(c) ==
  /\ cpc[c] \in {"sweep", "resweep"}
  /\ Goto(c, IF cpc[c] = "sweep" THEN "resweep" ELSE "check")
  /\ proc' = Terminated(Request)
  /\ UNCHANGED <<host, pc, stale, revoked, status, cancelling, lease, op, round,
                 before, troubled>>

\* Bug: the sweeps are trusted.
NothingLeft == TRUE

AllTerminated == \A r \in Request : ~Alive(r)

Check(c) ==
  /\ cpc[c] = "check"
  /\ Goto(c, "cancel")
  /\ troubled' = IF AllTerminated THEN troubled ELSE troubled \cup {c}
  /\ UNCHANGED <<host, requests, op, round, before>>

\* cancelExecution on every active execution.
Cancel(c) ==
  LET active == {r \in Start : status[r] \notin {"NONE", "EXITED"}} IN
  /\ cpc[c] = "cancel"
  /\ Goto(c, "completions")
  /\ status' = [r \in Start |-> IF r \in active /\ status[r] # "INTERRUPTED"
                                THEN "CANCELLING" ELSE status[r]]
  /\ IF \E r \in active \cap Stubborn : Alive(r)
     THEN /\ EnterDegraded
          /\ KillAll
          /\ troubled' = troubled \cup {c}
     ELSE /\ proc' = Terminated(active)
          /\ UNCHANGED <<host, stale, revoked, troubled>>
  /\ UNCHANGED <<pc, cancelling, lease, op, round, before>>

\* Bug: the waits of the barrier are unbounded.
WaitsForEver(c) == FALSE

\* settlesWithin: a wait of the barrier is given up and the call will fail.
TimesOut(c) == troubled' = troubled \cup {c}

\* The first pass is followed by the wait for the admissions and the second.
NextStage(c) == IF round[c] = 1 THEN "admissions" ELSE "finish"

\* The monitors of the executions finish.
Completions(c) ==
  /\ cpc[c] = "completions"
  /\ Goto(c, NextStage(c))
  /\ \/ /\ \A r \in Start : status[r] \in {"NONE", "EXITED"} \/ Alive(r)
        /\ UNCHANGED troubled
     \/ TimesOut(c)
  /\ UNCHANGED <<host, requests, op, round, before>>

\* Bug: requests in admission are not waited for.
NoAdmissions == TRUE

\* The counter of admissions is zero.
AdmissionsSettled == InAdmission = {}

\* The requests in admission finish, or not; either way the second pass
\* follows.
Admissions(c) ==
  /\ cpc[c] = "admissions"
  /\ Goto(c, "kill")
  /\ round' = [round EXCEPT ![c] = @ + 1]
  /\ \/ AdmissionsSettled /\ UNCHANGED troubled
     \/ TimesOut(c)
  /\ UNCHANGED <<host, requests, op, before>>

Finish(c) ==
  /\ cpc[c] = "finish"
  /\ IF c \in troubled
     THEN Goto(c, "failed") /\ EnterDegraded
     ELSE Goto(c, "done") /\ UNCHANGED <<host, stale>>
  /\ UNCHANGED <<pc, revoked, proc, status, cancelling, lease, op, round,
                 before, troubled>>

-----------------------------------------------------------------------------
Launch(r) ==
  \/ Spawn(r) \/ Attest(r) \/ Cleanup(r) \/ Started(r)
  \/ Revoke(r) \/ Rollback(r) \/ Verified(r)

Background(r) == Monitor(r) \/ Contain(r) \/ CancelTerminates(r)

Barriers(c) ==
  \/ Kill(c) \/ Sweep(c) \/ Check(c) \/ Cancel(c) \/ Completions(c)
  \/ Admissions(c) \/ Finish(c)

Next ==
  \/ \E r \in Request : Begin(r) \/ Prepared(r) \/ Launch(r) \/ Exit(r)
  \/ \E r \in Start :
       \/ Background(r) \/ NotifyStarted(r) \/ MonitorGivesUp(r)
       \/ HeartbeatFails(r) \/ CancelExecution(r)
  \/ \E c \in Control : Barriers(c) \/ \E o \in Operations : Apply(c, o)

\* Awaited work of the host itself goes on: its waits for processes are all
\* bounded.  An adapter may hang in prepareLaunch, clients need not call,
\* children need not exit and the disk need not fail.
Fairness ==
  /\ \A r \in Request : WF_vars(Launch(r))
  /\ \A r \in Start : WF_vars(Background(r))
  /\ \A c \in Control : WF_vars(Barriers(c))

Spec == Init /\ [][Next]_vars /\ Fairness

-----------------------------------------------------------------------------
(***************************************************************************)
(* A cancellation that reports success left nothing behind: no request     *)
(* accepted before the call, however far its start had come, has a live    *)
(* process, and none of them will have one (the reason for the two passes  *)
(* and for the admission barrier).                                         *)
(***************************************************************************)
CancellationIsComplete ==
  \A c \in Control : op[c] \in Barrier /\ cpc[c] = "done" =>
    \A r \in before[c] : ~Alive(r)

(***************************************************************************)
(* A host that was closed successfully stays empty.                        *)
(***************************************************************************)
ClosedIsEmpty ==
  \A c \in Control : op[c] = "CLOSE" /\ cpc[c] = "done" =>
    /\ \A r \in Request : ~Alive(r)
    /\ InAdmission = {}

(***************************************************************************)
(* Work runs under its lease, and alone: while a start request has a live  *)
(* process, its execution's lease is active or the host takes no more      *)
(* work, and no other attempt of the execution has one.                    *)
(***************************************************************************)
WorkHoldsLease ==
  \A r \in Start : Alive(r) =>
    /\ lease[Of[r]] = "ACTIVE" \/ degraded
    /\ \A q \in Start \ {r} : Of[q] = Of[r] => ~Alive(q)

(***************************************************************************)
(* Nobody waits on the host for ever.  Every cancellation call returns,    *)
(* whatever the requests it races with.  A request that has reached the    *)
(* supervisor leaves admission, its process terminable or not: the         *)
(* supervisor's part of a start is bounded, so that a barrier that waits   *)
(* for it need not time out.                                               *)
(***************************************************************************)
HostAnswers ==
  /\ \A c \in Control : cpc[c] = "kill" ~> cpc[c] \in {"done", "failed"}
  /\ \A r \in Request :
       r \in InAdmission /\ pc[r] # "preparing" ~> r \notin InAdmission
=============================================================================
