--------------------------- MODULE CompletionSaga ---------------------------
(***************************************************************************)
(* The end of a successful execution: CompletionSagaService carries its    *)
(* result from the Phase 2 store into the task of Phase 1, by commands     *)
(* with fixed idempotency keys, and is resumed by every startup until it   *)
(* is done (src/oef/phase2/application/completion-saga,                    *)
(* reconciliation-worker; src/oef/phase1/application/commands/command-bus).*)
(*                                                                         *)
(* Workers are the processes that may run the saga: the coordinator, and   *)
(* the daemon that starts.  A worker may stop between any two writes, and  *)
(* other commands may change the task between any two of its steps.        *)
(***************************************************************************)
EXTENDS Naturals, FiniteSets

CONSTANTS
  Worker,
  Interference,  \* what other commands do to the task
  MaxVersion,    \* bound: other commands stop at this version of the task
  MaxCrashes     \* bound: crashes of workers

ASSUME SagaConstants ==
  /\ Interference \subseteq {"touch", "block", "supersede", "supply", "cancel",
                             "advance", "invalidate"}
  /\ MaxVersion \in Nat
  /\ MaxCrashes \in Nat

VARIABLES
  exec,       \* status of the execution
  saga,       \* its completion record: status, outcome, package built or not
  task,       \* its task: version, stage, status, contract, evidence
  receipts,   \* the idempotency records of the saga's keys
  at,         \* [Worker -> the step it is at]
  memory,     \* [Worker -> its copy of the saga record]
  view,       \* [Worker -> version and stage for the command it will send]
  crashes

sagaVars == <<exec, saga, task, receipts, at, memory, view, crashes>>

Key == {"record", "verify", "verification", "review"}
Stage == {"execution", "verification", "review", "merge"}

NoSaga == [status |-> "NONE", outcome |-> "PENDING", package |-> FALSE]

Saga == [status : {"NONE", "PREPARED", "EXECUTION_COMPLETED", "DONE"},
         outcome : {"PENDING", "COMPLETED", "ABORTED"},
         package : BOOLEAN]

\* The versions that the saga itself adds.
LastVersion == MaxVersion + 4

NoReceipt == [hash |-> << >>, ok |-> FALSE]

SagaTypeOK ==
  /\ exec \in {"RUNNING", "COMPLETED", "INTERRUPTED"}
  /\ saga \in Saga
  /\ task \in [version : 0..LastVersion, stage : Stage,
               status : {"OPEN", "BLOCKED", "CANCELLED"}, contract : BOOLEAN,
               required : BOOLEAN,
               evidence : {"none", "RECORDED", "VERIFIED", "INVALIDATED"}]
  /\ receipts \in [Key -> {NoReceipt} \cup
                          [hash : (0..LastVersion) \X Stage, ok : BOOLEAN]]
  /\ at \in [Worker -> Key \cup {"idle", "package", "evidence", "stage1",
                                 "stage2", "done"}]
  /\ memory \in [Worker -> Saga]
  /\ view \in [Worker -> (0..LastVersion) \X Stage]
  /\ crashes \in 0..MaxCrashes

SagaInit ==
  /\ exec = "RUNNING"
  /\ saga = NoSaga
  /\ task \in [version : {0}, stage : {"execution"}, status : {"OPEN"},
               contract : {TRUE}, required : BOOLEAN, evidence : {"none"}]
  /\ receipts = [k \in Key |-> NoReceipt]
  /\ at = [w \in Worker |-> "idle"]
  /\ memory = [w \in Worker |-> NoSaga]
  /\ view = [w \in Worker |-> <<0, "execution">>]
  /\ crashes = 0

-----------------------------------------------------------------------------
(* The execution. *)

\* The coordinator prepares the saga before it completes the execution.
Prepare ==
  /\ exec = "RUNNING"
  /\ saga.status = "NONE"
  /\ saga' = [saga EXCEPT !.status = "PREPARED"]
  /\ UNCHANGED <<exec, task, receipts, at, memory, view, crashes>>

CompleteExecution ==
  /\ exec = "RUNNING"
  /\ saga.status # "NONE"
  /\ exec' = "COMPLETED"
  /\ UNCHANGED <<saga, task, receipts, at, memory, view, crashes>>

\* The coordinator is gone and startup reconciliation ends the execution.
Interrupt ==
  /\ exec = "RUNNING"
  /\ exec' = "INTERRUPTED"
  /\ UNCHANGED <<saga, task, receipts, at, memory, view, crashes>>

-----------------------------------------------------------------------------
(* Steps of a worker. *)

MoveTo(w, step) == at' = [at EXCEPT ![w] = step]

\* A saga record is written from the worker's copy.
Save(w, record) ==
  /\ saga' = record
  /\ memory' = [memory EXCEPT ![w] = record]

HasFailed == exec = "INTERRUPTED"

\* resumePending, or the coordinator after CompleteExecution: abort, or finalize.
Begin(w) ==
  /\ at[w] = "idle"
  /\ saga.status \notin {"NONE", "DONE"}
  /\ \/ /\ saga.status = "PREPARED"
        /\ HasFailed
        /\ Save(w, [saga EXCEPT !.status = "DONE", !.outcome = "ABORTED"])
        /\ UNCHANGED at
     \/ /\ exec = "COMPLETED"
        /\ MoveTo(w, "package")
        /\ Save(w, [saga EXCEPT !.status = "EXECUTION_COMPLETED"])
  /\ UNCHANGED <<exec, task, receipts, view, crashes>>

Package(w) ==
  /\ at[w] = "package"
  /\ MoveTo(w, "evidence")
  /\ IF memory[w].package
     THEN UNCHANGED <<saga, memory>>
     ELSE Save(w, [memory[w] EXCEPT !.package = TRUE])
  /\ UNCHANGED <<exec, task, receipts, view, crashes>>

\* Bug: a stage that the task has reached is entered again.
NeverReached(w) == FALSE

\* The stage asked for at this step is behind the task.
Reached(w) ==
  \/ task.stage = "review"
  \/ at[w] = "stage1" /\ task.stage = "verification"

\* The worker looks at the task: the step is done, or it takes a command.
LookAtTask(w) ==
  LET Send(key) == /\ MoveTo(w, key)
                   /\ view' = [view EXCEPT ![w] = <<task.version, task.stage>>]
      Skip(step) == MoveTo(w, step) /\ UNCHANGED view
  IN
  /\ \/ /\ at[w] = "evidence"
        /\ CASE task.evidence = "none" -> Send("record")
             [] task.evidence \in {"RECORDED", "INVALIDATED"} -> Send("verify")
             [] task.evidence = "VERIFIED" -> Skip("stage1")
     \/ /\ at[w] = "stage1"
        /\ IF Reached(w) THEN Skip("stage2") ELSE Send("verification")
     \/ /\ at[w] = "stage2"
        /\ IF Reached(w) THEN Skip("done") ELSE Send("review")
  /\ UNCHANGED <<exec, saga, task, receipts, memory, crashes>>

\* What the bus requires of the task for the command of a key.
Allowed(key) ==
  /\ task.status # "CANCELLED"
  /\ key = "record" => task.contract
  /\ key = "verify" => task.evidence = "RECORDED"
  /\ key = "verification" => task.status = "OPEN" /\ task.stage = "execution"
  /\ key = "review" =>
       task.status = "OPEN" /\ task.stage = "verification" /\ task.required

Effect(key) ==
  LET changed == [task EXCEPT !.version = @ + 1] IN
  CASE key = "record" -> [changed EXCEPT !.evidence = "RECORDED"]
    [] key = "verify" -> [changed EXCEPT !.evidence = "VERIFIED"]
    [] OTHER -> [changed EXCEPT !.stage = key]

\* Bug: evidence that is recorded is taken for verified.
AfterUnverified(key) ==
  CASE key \in {"record", "verify"} -> "stage1"
    [] key = "verification" -> "stage2"
    [] OTHER -> "done"

\* Bug: the second of the two transitions is left out.
AfterFirstStage(key) ==
  CASE key = "record" -> "evidence"
    [] key = "verify" -> "stage1"
    [] OTHER -> "done"

After(key) ==
  CASE key = "record" -> "evidence"
    [] key = "verify" -> "stage1"
    [] key = "verification" -> "stage2"
    [] OTHER -> "done"

\* A key that was used replays its result to the same command; to another
\* command it is a conflict.  The expected version is part of a command.
Replayed(key, hash) == receipts[key] = [hash |-> hash, ok |-> TRUE]

\* The first result of a key is kept, whether it is a success or not.  A
\* failure ends the worker's run.
Execute(w) ==
  LET key == at[w]
      hash == view[w]
      ok == hash[1] = task.version /\ Allowed(key)
  IN
  /\ key \in Key
  /\ IF receipts[key] = NoReceipt
     THEN /\ receipts' = [receipts EXCEPT ![key] = [hash |-> hash, ok |-> ok]]
          /\ task' = IF ok THEN Effect(key) ELSE task
          /\ MoveTo(w, IF ok THEN After(key) ELSE "idle")
     ELSE /\ MoveTo(w, IF Replayed(key, hash) THEN After(key) ELSE "idle")
          /\ UNCHANGED <<task, receipts>>
  /\ UNCHANGED <<exec, saga, memory, view, crashes>>

Finish(w) ==
  /\ at[w] = "done"
  /\ MoveTo(w, "idle")
  /\ Save(w, [memory[w] EXCEPT !.status = "DONE", !.outcome = "COMPLETED"])
  /\ UNCHANGED <<exec, task, receipts, view, crashes>>

\* The process stops, or the database is busy: nothing is written.
Crash(w) ==
  /\ at[w] # "idle"
  /\ crashes < MaxCrashes
  /\ crashes' = crashes + 1
  /\ MoveTo(w, "idle")
  /\ UNCHANGED <<exec, saga, task, receipts, memory, view>>

-----------------------------------------------------------------------------
(* Commands of others on the same task; with "supply" the evidence that    *)
(* the contract requires for its other criteria comes, or goes.             *)

Interfere(kind) ==
  /\ kind \in Interference
  /\ task.version < MaxVersion
  /\ task.status # "CANCELLED"
  /\ \E after \in
       CASE kind = "touch" -> {task}
         [] kind = "block" -> {[task EXCEPT !.status = s] : s \in {"OPEN", "BLOCKED"} \ {task.status}}
         [] kind = "supersede" -> {[task EXCEPT !.contract = FALSE]}
         [] kind = "supply" -> {[task EXCEPT !.required = ~@]}
         [] kind = "cancel" -> {[task EXCEPT !.status = "CANCELLED"]}
         [] kind = "advance" -> IF task.stage = "review" /\ task.status = "OPEN"
                                THEN {[task EXCEPT !.stage = "merge"]} ELSE {}
         [] kind = "invalidate" -> IF task.evidence \in {"RECORDED", "VERIFIED"}
                                   THEN {[task EXCEPT !.evidence = "INVALIDATED"]} ELSE {}
       : task' = [after EXCEPT !.version = @ + 1]
  /\ UNCHANGED <<exec, saga, receipts, at, memory, view, crashes>>

Step(w) == Begin(w) \/ Package(w) \/ LookAtTask(w) \/ Execute(w) \/ Finish(w)

SagaNext ==
  \/ Prepare \/ CompleteExecution \/ Interrupt
  \/ \E w \in Worker : Step(w) \/ Crash(w)
  \/ \E kind \in Interference : Interfere(kind)

\* Every startup resumes the saga.
SagaSpec ==
  /\ SagaInit
  /\ [][SagaNext]_sagaVars
  /\ \A w \in Worker : WF_sagaVars(Step(w))

-----------------------------------------------------------------------------
(***************************************************************************)
(* The outcome of a saga is true, whatever crashes, replays and other      *)
(* commands came between.  One that says COMPLETED has done all of it: the *)
(* execution completed, the package was built, its evidence was verified   *)
(* and the task was taken to review.  One that says ABORTED was of an      *)
(* execution that failed, never of one that is, or may become, a success.  *)
(***************************************************************************)
OutcomeIsTrue ==
  /\ saga.outcome = "COMPLETED" =>
       /\ exec = "COMPLETED" /\ saga.package
       /\ task.evidence \in {"VERIFIED", "INVALIDATED"}
       /\ task.stage \in {"review", "merge"}
  /\ saga.outcome = "ABORTED" => exec = "INTERRUPTED"

(***************************************************************************)
(* The task does not get ahead of the evidence: the saga moves a task to   *)
(* review only once its package was verified.                              *)
(***************************************************************************)
ReviewAfterEvidence ==
  [][task.stage = "verification" /\ task'.stage = "review" =>
       /\ exec = "COMPLETED"
       /\ saga.package
       /\ task.evidence \in {"VERIFIED", "INVALIDATED"}]_sagaVars

\* Every change of the task was a command of the saga.
Undisturbed == task.version = Cardinality({k \in Key : receipts[k].ok})

(***************************************************************************)
(* A saga whose task nobody else changes is finished by some startup, at   *)
(* whichever steps the earlier ones crashed, and also when two workers     *)
(* run it at once.                                                         *)
(***************************************************************************)
FinishesUndisturbed ==
  (/\ saga.status = "PREPARED"
   /\ task.required
   /\ exec # "RUNNING"
   /\ []Undisturbed) ~> saga.status = "DONE"

(***************************************************************************)
(* "Persist the first successful result" (docs/architecture/adr/ADR-005):  *)
(* a command that was refused is no obstacle later.  Once everything that  *)
(* the saga needs of the task is there for good, it finishes.              *)
(***************************************************************************)
Ready == task.status = "OPEN" /\ task.contract /\ task.required /\ task.evidence # "INVALIDATED"

ResumesAfterRefusal ==
  (exec = "COMPLETED" /\ <>[]Ready) ~> saga.status = "DONE"
=============================================================================
