--------------------------- MODULE SingleAgentRun ---------------------------
(***************************************************************************)
(* One execution from end to end (src/oef/phase2/application):             *)
(* SingleAgentCoordinator drives it through its attempts, the runner       *)
(* daemon owns the agent's process, and StartupReconciliationWorker, run   *)
(* by each start of a daemon, ends what a dead coordinator left behind.    *)
(*                                                                         *)
(* The coordinator and the daemon are processes of their own: either may   *)
(* stop between two writes, and a daemon may reconcile an execution whose  *)
(* coordinator is alive.  What the host does with a process is the subject *)
(* of RunnerHost, the events of EventStream, the end of a success of       *)
(* CompletionSaga.                                                         *)
(***************************************************************************)
EXTENDS ExecutionLifecycle, Naturals, Sequences

CONSTANTS
  MaxAttempts,  \* the assignment's budgets.max_attempts
  MaxFaults     \* bound: crashes of daemons, and actions of theirs that fail

ASSUME Constants == MaxAttempts \in Nat \ {0} /\ MaxFaults \in Nat

VARIABLES
  execution,  \* its status
  attempts,   \* its attempts: status, workspace, process of the agent
  evidence,   \* who has put a failure of it on record
  pc,         \* where the coordinator is
  run,        \* the coordinator's memory of the attempt it drives
  daemon,     \* where the daemon is in its startup
  linked,     \* the coordinator's client belongs to the daemon that runs
  seen,       \* the daemon's copy of execution and attempt
  faults

vars == <<execution, attempts, evidence, pc, run, daemon, linked, seen, faults>>

Attempt == [status : AttemptStatus,
            space : {"none", "intent", "prepared", "quarantined"},
            process : {"none", "running", "unproven", "exited"}]

NewAttempt == [status |-> "CREATED", space |-> "none", process |-> "none"]

\* current: the attempt it drives, or 0; terminal: its runner's end is
\* confirmed; retry: another attempt follows.
NewRun == [current |-> 0, launched |-> FALSE, prepared |-> FALSE,
           terminal |-> FALSE, quarantined |-> FALSE, retry |-> FALSE]

Run == [current : 0..MaxAttempts, launched : BOOLEAN, prepared : BOOLEAN,
        terminal : BOOLEAN, quarantined : BOOLEAN, retry : BOOLEAN]

\* fresh: nobody else has written the execution since it was read.
Seen == [attempt : 0..MaxAttempts, status : AttemptStatus,
         execution : ExecutionStatus \cup {"NONE"}, fresh : BOOLEAN]

Trying == {"attempt", "lease", "preparing", "intent", "worktree", "context",
           "starting", "run", "launch", "stream", "collect", "verifying",
           "complete"}

TypeOK ==
  /\ execution \in ExecutionStatus \cup {"NONE"}
  /\ attempts \in Seq(Attempt) /\ Len(attempts) <= MaxAttempts
  /\ evidence \subseteq {"coordinator", "startup"}
  /\ pc \in Trying \cup {"idle", "queue", "prepare", "cancel", "quarantine",
                         "fail", "decide", "evidence", "done", "gone"}
  /\ run \in Run
  /\ daemon \in {"down", "look", "kill", "quarantine", "record", "attempt",
                 "execution", "sweep", "ready"}
  /\ linked \in BOOLEAN
  /\ seen \in Seen
  /\ faults \in 0..MaxFaults

Init ==
  /\ execution = "NONE"
  /\ attempts = << >>
  /\ evidence = {}
  /\ pc = "idle"
  /\ run = NewRun
  /\ daemon = "down"
  /\ linked = FALSE
  /\ seen = [attempt |-> 0, status |-> "CREATED", execution |-> "NONE", fresh |-> FALSE]
  /\ faults = 0

-----------------------------------------------------------------------------
(* Commands of the coordinator.  It reads the version that a command       *)
(* expects right before it; a conflict is an error like any other.         *)

Goto(step) == pc' = step

Written == seen' = [seen EXCEPT !.fresh = FALSE]

MoveExecution(status) ==
  /\ status \in ExecutionNext(execution)
  /\ execution' = status
  /\ Written

MoveAttempt(i, status) ==
  /\ status \in AttemptNext(attempts[i].status)
  /\ attempts' = [attempts EXCEPT ![i].status = status]
  /\ Written

SetSpace(i, space) == attempts' = [attempts EXCEPT ![i].space = space]

SetProcess(i, process) == attempts' = [attempts EXCEPT ![i].process = process]

\* The client is made for a daemon that is READY.
CreateExecution ==
  /\ pc = "idle"
  /\ daemon = "ready"
  /\ linked' = TRUE
  /\ execution' = "CREATED"
  /\ Written
  /\ Goto("queue")
  /\ UNCHANGED <<attempts, evidence, run, daemon, faults>>

Enter ==
  /\ \/ pc = "queue" /\ MoveExecution("QUEUED") /\ Goto("prepare")
     \/ pc = "prepare" /\ MoveExecution("PREPARING") /\ Goto("attempt")
     \/ pc = "run" /\ MoveExecution("RUNNING") /\ Goto("launch")
  /\ UNCHANGED <<attempts, evidence, run, daemon, linked, faults>>

\* A second attempt finds its execution RUNNING.
StayRunning ==
  /\ pc = "run"
  /\ execution = "RUNNING"
  /\ Goto("launch")
  /\ UNCHANGED <<execution, attempts, evidence, run, daemon, linked, seen, faults>>

\* The bus looks at the budget and not at the status of the execution.
CreateAttempt ==
  /\ pc = "attempt"
  /\ Len(attempts) < MaxAttempts
  /\ attempts' = Append(attempts, NewAttempt)
  /\ run' = [NewRun EXCEPT !.current = Len(attempts) + 1]
  /\ Written
  /\ Goto("lease")
  /\ UNCHANGED <<execution, evidence, daemon, linked, faults>>

Advance ==
  /\ \/ pc = "lease" /\ MoveAttempt(run.current, "LEASED") /\ Goto("preparing")
     \/ pc = "preparing" /\ MoveAttempt(run.current, "WORKSPACE_PREPARING") /\ Goto("intent")
     \/ pc = "context" /\ MoveAttempt(run.current, "CONTEXT_PREPARING") /\ Goto("starting")
     \/ pc = "starting" /\ MoveAttempt(run.current, "STARTING") /\ Goto("run")
     \/ pc = "collect" /\ MoveAttempt(run.current, "COLLECTING") /\ Goto("verifying")
     \/ pc = "verifying" /\ MoveAttempt(run.current, "VERIFYING") /\ Goto("complete")
  /\ UNCHANGED <<execution, evidence, run, daemon, linked, faults>>

\* An intent is written before the worktree is made, and not looked at
\* again: startup may have quarantined it meanwhile.
PrepareWorkspace ==
  /\ \/ /\ pc = "intent"
        /\ SetSpace(run.current, "intent")
        /\ Goto("worktree")
        /\ UNCHANGED run
     \/ /\ pc = "worktree"
        /\ SetSpace(run.current, "prepared")
        /\ run' = [run EXCEPT !.prepared = TRUE]
        /\ Goto("context")
  /\ UNCHANGED <<execution, evidence, daemon, linked, seen, faults>>

-----------------------------------------------------------------------------
(* The agent.  The host has a guard of its own against a second process    *)
(* (RunnerHost); nothing here relies on it.                                *)

\* The start may fail, and the answer of one that succeeded may be lost.
Launch ==
  /\ pc = "launch"
  /\ run' = [run EXCEPT !.launched = TRUE]
  /\ \/ linked /\ SetProcess(run.current, "running") /\ pc' \in {"stream", "cancel"}
     \/ Goto("cancel") /\ UNCHANGED attempts
  /\ UNCHANGED <<execution, evidence, daemon, linked, seen, faults>>

\* The execution.started event.
Started ==
  /\ pc = "stream"
  /\ linked
  /\ attempts[run.current].status = "STARTING"
  /\ MoveAttempt(run.current, "RUNNING")
  /\ UNCHANGED <<execution, evidence, pc, run, daemon, linked, faults>>

AgentExits ==
  /\ \E i \in DOMAIN attempts :
       /\ attempts[i].process \in {"running", "unproven"}
       /\ SetProcess(i, "exited")
  /\ UNCHANGED <<execution, evidence, pc, run, daemon, linked, seen, faults>>

\* Bug: the stream of an agent that has begun is taken for ended.
AgentBegan == attempts[run.current].status = "RUNNING"

AgentGone == attempts[run.current].process = "exited"

StreamEnds ==
  /\ pc = "stream"
  /\ linked
  /\ AgentGone
  /\ Goto(IF attempts[run.current].status = "RUNNING" THEN "collect" ELSE "cancel")
  /\ UNCHANGED <<execution, attempts, evidence, run, daemon, linked, seen, faults>>

Completable ==
  /\ execution = "RUNNING"
  /\ attempts[run.current].status = "VERIFYING"

Complete ==
  /\ pc = "complete"
  /\ Completable
  /\ execution' = "COMPLETED"
  /\ attempts' = [attempts EXCEPT ![run.current].status = "SUCCEEDED"]
  /\ Written
  /\ Goto("done")
  /\ UNCHANGED <<evidence, run, daemon, linked, faults>>

-----------------------------------------------------------------------------
(* handleRunFailure. *)

\* Any step of an attempt may throw; the making of a worktree that throws
\* quarantines what there is of it.
Fails ==
  /\ pc \in Trying
  /\ Goto("cancel")
  /\ run' = IF pc = "attempt" THEN NewRun ELSE run
  /\ IF pc = "worktree"
     THEN \E space \in {attempts[run.current].space, "quarantined"} : SetSpace(run.current, space)
     ELSE UNCHANGED attempts
  /\ UNCHANGED <<execution, evidence, daemon, linked, seen, faults>>

Fault == faults < MaxFaults /\ faults' = faults + 1

\* The start has failed without a process, and the host keeps its states by
\* execution: it answers with that of an earlier attempt, which has EXITED.
HasStaleState ==
  /\ run.launched
  /\ attempts[run.current].process = "none"
  /\ \E i \in 1..run.current - 1 : attempts[i].process = "exited"

\* The end of the runner is confirmed, or not: the daemon is not there, or
\* it does not report the end in time.
Cancel ==
  /\ pc = "cancel"
  /\ Goto("quarantine")
  /\ \/ /\ ~run.launched
        /\ run' = [run EXCEPT !.terminal = TRUE]
        /\ UNCHANGED <<attempts, faults>>
     \/ /\ run.launched /\ linked
        /\ attempts[run.current].process # "none"
        /\ SetProcess(run.current, "exited")
        /\ run' = [run EXCEPT !.terminal = TRUE]
        /\ UNCHANGED faults
     \/ /\ run.launched /\ linked
        /\ Fault
        /\ UNCHANGED <<run, attempts>>
     \/ /\ run.launched
        /\ linked => attempts[run.current].process = "none"
        /\ UNCHANGED <<run, attempts, faults>>
     \/ /\ HasStaleState
        /\ run' = [run EXCEPT !.terminal = TRUE]
        /\ UNCHANGED <<attempts, faults>>
  /\ UNCHANGED <<execution, evidence, daemon, linked, seen>>

Quarantine ==
  /\ pc = "quarantine"
  /\ Goto("fail")
  /\ \/ /\ run.prepared
        /\ SetSpace(run.current, "quarantined")
        /\ run' = [run EXCEPT !.quarantined = TRUE]
        /\ UNCHANGED faults
     \/ run.prepared /\ Fault /\ UNCHANGED <<run, attempts>>
     \/ ~run.prepared /\ UNCHANGED <<run, attempts, faults>>
  /\ UNCHANGED <<execution, evidence, daemon, linked, seen>>

FailAttempt ==
  /\ pc = "fail"
  /\ Goto("decide")
  /\ IF run.current # 0 /\ attempts[run.current].status \notin TerminalAttempt
     THEN MoveAttempt(run.current, GiveUp(attempts[run.current].status, "FAILED"))
     ELSE UNCHANGED <<attempts, seen>>
  /\ UNCHANGED <<execution, evidence, run, daemon, linked, faults>>

\* Bug: the end of the runner need not be confirmed.
RetryUnconfirmed ==
  /\ Len(attempts) < MaxAttempts
  /\ run.quarantined \/ ~run.prepared

\* Bug: the workspace need not be quarantined.
RetryInPlace ==
  /\ Len(attempts) < MaxAttempts
  /\ run.terminal

MayRetry ==
  /\ Len(attempts) < MaxAttempts
  /\ run.terminal
  /\ run.quarantined \/ ~run.prepared

\* The circuit breaker's decision is left open.
Decide ==
  /\ pc = "decide"
  /\ Goto("evidence")
  /\ \E retry \in BOOLEAN :
       /\ retry => MayRetry
       /\ run' = [run EXCEPT !.retry = retry]
       /\ IF ~retry /\ execution \notin TerminalExecution
          THEN MoveExecution("FAILED")
          ELSE UNCHANGED <<execution, seen>>
  /\ UNCHANGED <<attempts, evidence, daemon, linked, faults>>

RecordFailure ==
  /\ pc = "evidence"
  /\ Goto(IF run.retry THEN "attempt" ELSE "done")
  /\ evidence' = evidence \cup {"coordinator"}
  /\ UNCHANGED <<execution, attempts, run, daemon, linked, seen, faults>>

\* The coordinator crashes, or an error leaves it.
CoordinatorStops ==
  /\ pc \notin {"idle", "done", "gone"}
  /\ Goto("gone")
  /\ UNCHANGED <<execution, attempts, evidence, run, daemon, linked, seen, faults>>

-----------------------------------------------------------------------------
(* The startup of a daemon. *)

Daemon(step) == daemon' = step

Runs(i) == attempts[i].process = "running"

StartDaemon ==
  /\ daemon = "down"
  /\ Daemon("look")
  /\ UNCHANGED <<execution, attempts, evidence, pc, run, linked, seen, faults>>

\* Missing events are replayed from the spool: the copy is then outdated.
Look ==
  LET n == Len(attempts) IN
  /\ daemon = "look"
  /\ \E missing \in BOOLEAN :
       /\ missing => n # 0 /\ Runs(n)
       /\ seen' = [attempt |-> n,
                   status |-> IF n = 0 THEN "CREATED" ELSE attempts[n].status,
                   execution |-> execution,
                   fresh |-> ~missing]
  /\ Daemon(CASE execution \in TerminalExecution \cup {"NONE"} -> "sweep"
              [] execution \in ExecutionStatus \ TerminalExecution ->
                   IF n # 0 /\ Runs(n) THEN "kill" ELSE "quarantine")
  /\ UNCHANGED <<execution, attempts, evidence, pc, run, linked, faults>>

\* An error ends the startup.
Abandon == Daemon("down")

KillTree ==
  /\ daemon = "kill"
  /\ \/ /\ Daemon("quarantine")
        /\ IF Runs(seen.attempt) THEN SetProcess(seen.attempt, "exited") ELSE UNCHANGED attempts
        /\ UNCHANGED faults
     \/ Abandon /\ Fault /\ UNCHANGED attempts
  /\ UNCHANGED <<execution, evidence, pc, run, linked, seen>>

\* Bug: the intent of a worktree is not looked for.
HasWorktree == seen.attempt # 0 /\ attempts[seen.attempt].space = "prepared"

\* There is a worktree or the intent of one.
HasWorkspace == seen.attempt # 0 /\ attempts[seen.attempt].space # "none"

QuarantineOrphan ==
  /\ daemon = "quarantine"
  /\ \/ /\ HasWorkspace
        /\ Daemon("record")
        /\ SetSpace(seen.attempt, "quarantined")
        /\ UNCHANGED faults
     \/ HasWorkspace /\ Abandon /\ Fault /\ UNCHANGED attempts
     \/ ~HasWorkspace /\ Abandon /\ UNCHANGED <<attempts, faults>>
  /\ UNCHANGED <<execution, evidence, pc, run, linked, seen>>

RecordRecovery ==
  /\ daemon = "record"
  /\ Daemon("attempt")
  /\ evidence' = evidence \cup {"startup"}
  /\ UNCHANGED <<execution, attempts, pc, run, linked, seen, faults>>

\* The attempt is moved on its present version, and the copy of the
\* execution is read again.
EndAttempt ==
  LET target == GiveUp(seen.status, "ORPHANED") IN
  /\ daemon = "attempt"
  /\ \/ /\ seen.attempt = 0 \/ seen.status \in TerminalAttempt
        /\ Daemon("execution")
        /\ UNCHANGED <<attempts, seen>>
     \/ /\ seen.attempt # 0 /\ seen.status \notin TerminalAttempt
        /\ IF target \in AttemptNext(attempts[seen.attempt].status)
           THEN /\ Daemon("execution")
                /\ attempts' = [attempts EXCEPT ![seen.attempt].status = target]
                /\ seen' = [seen EXCEPT !.execution = execution, !.fresh = TRUE]
           ELSE Abandon /\ UNCHANGED <<attempts, seen>>
  /\ UNCHANGED <<execution, evidence, pc, run, linked, faults>>

\* Bug: the version is not compared.
AnyVersion == TRUE

SameVersion == seen.fresh

EndExecution ==
  LET target == IF seen.execution = "CREATED" THEN "CANCELLED" ELSE "INTERRUPTED" IN
  /\ daemon = "execution"
  /\ \/ /\ seen.execution \in TerminalExecution
        /\ Daemon("sweep")
        /\ UNCHANGED execution
     \/ /\ seen.execution \notin TerminalExecution
        /\ IF SameVersion /\ target \in ExecutionNext(execution)
           THEN Daemon("sweep") /\ execution' = target
           ELSE Abandon /\ UNCHANGED execution
  /\ UNCHANGED <<attempts, evidence, pc, run, linked, seen, faults>>

Orphan(i) ==
  /\ Runs(i)
  /\ execution \in TerminalExecution \/ i # Len(attempts)

Sweep ==
  /\ daemon = "sweep"
  /\ \/ /\ Daemon("ready")
        /\ attempts' = [i \in DOMAIN attempts |->
                          IF Orphan(i) THEN [attempts[i] EXCEPT !.process = "exited"]
                                       ELSE attempts[i]]
        /\ UNCHANGED faults
     \/ /\ \E i \in DOMAIN attempts : Orphan(i)
        /\ Abandon
        /\ Fault
        /\ UNCHANGED attempts
  /\ UNCHANGED <<execution, evidence, pc, run, linked, seen>>

\* The processes of a daemon that dies may die with it, survive it, or
\* survive without a proof of their identity.
DaemonDies ==
  /\ daemon # "down"
  /\ Daemon("down")
  /\ Fault
  /\ linked' = FALSE
  /\ \E fate \in {"running", "unproven", "exited"} :
       attempts' = [i \in DOMAIN attempts |->
                      IF Runs(i) THEN [attempts[i] EXCEPT !.process = fate]
                                 ELSE attempts[i]]
  /\ UNCHANGED <<execution, evidence, pc, run, seen>>

-----------------------------------------------------------------------------
Coordinate ==
  \/ CreateExecution \/ Enter \/ StayRunning \/ CreateAttempt \/ Advance
  \/ PrepareWorkspace \/ Launch \/ Started \/ StreamEnds \/ Complete \/ Fails
  \/ Cancel \/ Quarantine \/ FailAttempt \/ Decide \/ RecordFailure

StartUp ==
  \/ StartDaemon \/ Look \/ KillTree \/ QuarantineOrphan \/ RecordRecovery
  \/ EndAttempt \/ EndExecution \/ Sweep

Next == Coordinate \/ StartUp \/ AgentExits \/ CoordinatorStops \/ DaemonDies

\* A daemon is started whenever none runs, and its startup goes on.
Spec == Init /\ [][Next]_vars /\ WF_vars(StartUp)

-----------------------------------------------------------------------------
Alive(i) == attempts[i].process \in {"running", "unproven"}

HadProcess(i) == attempts[i].process # "none"

LastOf(S) == IF S = {} THEN 0 ELSE CHOOSE i \in S : \A j \in S : j <= i

(***************************************************************************)
(* The run implements AgentSlot: whatever crashes, and whoever ends the    *)
(* execution, the agents of two attempts never run at the same time.       *)
(***************************************************************************)
Slot == INSTANCE AgentSlot WITH
  slot <- LastOf({i \in DOMAIN attempts : Alive(i)}),
  used <- LastOf({i \in DOMAIN attempts : HadProcess(i)})

OneAgent == Slot!Spec

(***************************************************************************)
(* A new attempt starts from a clean place: the worktree of each earlier   *)
(* one is out of the way.                                                  *)
(***************************************************************************)
RetryIsolated ==
  [][\A n \in DOMAIN attempts' \ DOMAIN attempts, i \in DOMAIN attempts :
       attempts[i].space # "prepared"]_vars

(***************************************************************************)
(* What is ended is ended whole.  A completed execution has succeeded in   *)
(* its last attempt, all others are over, and no agent is left.  One that  *)
(* a startup has ended has the failure that it saw on record, and no       *)
(* attempt of it is open.  The daemon accepts work only when every process *)
(* is gone that an earlier daemon left and whose identity is proven.       *)
(***************************************************************************)
EndedWhole ==
  [][/\ execution' = "COMPLETED" =>
          /\ attempts'[Len(attempts')].status = "SUCCEEDED"
          /\ \A i \in DOMAIN attempts' :
               attempts'[i].status \in TerminalAttempt /\ attempts'[i].process # "running"
     /\ execution # "INTERRUPTED" /\ execution' = "INTERRUPTED" =>
          /\ "startup" \in evidence
          /\ \A i \in DOMAIN attempts : attempts[i].status \in TerminalAttempt
     /\ daemon # "ready" /\ daemon' = "ready" =>
          \A i \in DOMAIN attempts' : attempts'[i].process # "running"]_vars

Orphaned == pc = "gone" /\ daemon = "down"

(***************************************************************************)
(* Once a dead coordinator had its workspace under way, the next startups  *)
(* end the execution.                                                      *)
(***************************************************************************)
Recovered ==
  (/\ Orphaned
   /\ attempts # << >>
   /\ attempts[Len(attempts)].space # "none") ~> execution \in TerminalExecution

(***************************************************************************)
(* "Daemon startup worker terminalizes durable orphans"                    *)
(* (docs/architecture/phase-2-acceptance-matrix.md), of the execution.     *)
(***************************************************************************)
ExecutionsTerminalized ==
  Orphaned /\ execution # "NONE" ~> execution \in TerminalExecution
=============================================================================
