--------------------------- MODULE TaskGovernance ---------------------------
(***************************************************************************)
(* The task of phase 1: OefCommandBus                                      *)
(* (src/oef/phase1/application/commands/command-bus.ts) with the shipped   *)
(* workflows (workflows/software-development) and the policy safe-default. *)
(* Contract revisions, evidence and verdicts have lifecycles of their own, *)
(* and a task moves by what they say.                                      *)
(*                                                                         *)
(* A command is one transaction, so one step.  Versions, idempotency keys  *)
(* and the audit log are those of ExecutionBus and are left out: a command *)
(* may come at any time, and one that is refused changes nothing here.     *)
(***************************************************************************)
EXTENDS Naturals, Sequences, FiniteSets

CONSTANTS
  Criterion,      \* pairs of a criterion and a type of evidence
  Stages,         \* [workflow version -> its stages, in order]
  Document,       \* what contract revisions ask for, by number, and whether
                  \* they have both a plan and a budget
  Commit,         \* commits of the repository
  MaxEvidence,    \* bound: evidence records
  MaxVerdicts     \* bound: verdicts

ASSUME Constants ==
  /\ \A w \in DOMAIN Stages :
       /\ Stages[w] \in Seq(STRING)
       /\ Stages[w] # << >>
       /\ \A i, j \in DOMAIN Stages[w] : Stages[w][i] = Stages[w][j] => i = j
  /\ Document \in Seq([required : SUBSET Criterion, funded : BOOLEAN])
  /\ MaxEvidence \in Nat /\ MaxVerdicts \in Nat

\* In both workflows that are shipped, the last stage is entered from one whose
\* guard is verdict.accepted; and a repository has a commit.
ASSUME Gated ==
  /\ \A w \in DOMAIN Stages : Len(Stages[w]) > 1 =>
       Stages[w][Len(Stages[w]) - 1] \in {"review", "merge"}
  /\ Commit # {}

VARIABLES
  task,       \* status, stage, active contract (0: null), workflow
  contracts,  \* its revisions, by number
  evidence,   \* its evidence records
  intact,     \* [evidence -> its artifacts are what their hashes say]
  verdicts    \* its verdicts

records == <<contracts, evidence, verdicts>>
vars == <<task, intact, records>>

Workflow == DOMAIN Stages

StagesOf(w) == {Stages[w][i] : i \in DOMAIN Stages[w]}

\* The last stage of a workflow is its terminal one.
LastStage(w) == Stages[w][Len(Stages[w])]

Revision == DOMAIN Document

Terminal == {"COMPLETED", "CANCELLED"}

ContractStatus == {"DRAFT", "PROPOSED", "APPROVED", "REJECTED", "SUPERSEDED"}

Evidence == [contract : Revision, criterion : Criterion, commit : Commit,
             status : {"RECORDED", "VERIFIED", "INVALIDATED"}]

\* Decisions other than ACCEPT are one, and what they refer to is not read.
Verdict == [contract : Revision, workflow : Workflow,
            decision : {"ACCEPT", "REPAIR"}, refs : SUBSET (1..MaxEvidence),
            status : {"CURRENT", "STALE", "SUPERSEDED"}]

TypeOK ==
  /\ task \in [status : {"NONE", "OPEN", "BLOCKED"} \cup Terminal,
               stage : UNION {StagesOf(w) : w \in Workflow},
               contract : Revision \cup {0}, workflow : Workflow]
  /\ task.stage \in StagesOf(task.workflow)
  /\ contracts \in Seq(ContractStatus) /\ Len(contracts) <= Len(Document) /\ task.contract \in 0..Len(contracts)
  /\ evidence \in Seq(Evidence)
  /\ intact \in [DOMAIN evidence -> BOOLEAN]
  /\ verdicts \in Seq(Verdict)

Init ==
  /\ \E w \in Workflow :
       task = [status |-> "NONE", stage |-> Stages[w][1], contract |-> 0,
               workflow |-> w]
  /\ contracts = << >>
  /\ evidence = << >>
  /\ intact = << >>
  /\ verdicts = << >>

\* Its workflow is chosen by Init.
CreateTask ==
  /\ task.status = "NONE"
  /\ task' = [task EXCEPT !.status = "OPEN"]
  /\ UNCHANGED <<intact, records>>

\* Bug: a task that has ended takes commands like any other.
AnyStatus == task.status # "NONE"

\* applyCommand: only ReopenTask is for tasks that have ended.
Admits == task.status \in {"OPEN", "BLOCKED"}

-----------------------------------------------------------------------------
(* What the handlers ask. *)

Active == task.contract # 0 /\ contracts[task.contract] = "APPROVED"

Required == Document[task.contract].required

VerifiedEvidence ==
  {i \in DOMAIN evidence :
     evidence[i].contract = task.contract /\ evidence[i].status = "VERIFIED"}

Covered(S) == Required \subseteq {evidence[i].criterion : i \in S}

\* Bug: a verdict is as good as it was when it was issued.
AsIssued(v) == v.workflow = task.workflow

\* isVerdictDependencyValid: contract, workflow and records are those of the
\* verdict, on one commit, and the artifacts are intact.  (A record whose
\* status is VERIFIED has not changed since the verdict.)
Valid(v) ==
  /\ v.contract = task.contract
  /\ v.workflow = task.workflow
  /\ \A i \in v.refs : evidence[i].status = "VERIFIED" /\ intact[i]
  /\ Cardinality({evidence[i].commit : i \in v.refs}) <= 1
  /\ Covered(v.refs)

CurrentAccepted ==
  {v \in {verdicts[i] : i \in DOMAIN verdicts} :
     v.status = "CURRENT" /\ v.decision = "ACCEPT" /\ v.contract = task.contract}

Accepted == \E v \in CurrentAccepted : Valid(v)

\* Bug: verdicts stay as they are.
Unmarked(status) == verdicts

\* markVerdicts
Marked(status) ==
  [i \in DOMAIN verdicts |->
     IF verdicts[i].status = "CURRENT" THEN [verdicts[i] EXCEPT !.status = status]
                                       ELSE verdicts[i]]

-----------------------------------------------------------------------------
(* Contracts. *)

CreateContractRevision ==
  /\ Len(contracts) < Len(Document)
  /\ contracts' = Append(contracts, "DRAFT")
  /\ UNCHANGED <<task, intact, evidence, verdicts>>

ProposeContractRevision(r) ==
  /\ contracts[r] = "DRAFT"
  /\ contracts' = [contracts EXCEPT ![r] = "PROPOSED"]
  /\ UNCHANGED <<task, intact, evidence, verdicts>>

\* Bug: the contract that was in force is left approved.
NothingReplaced(r) == [contracts EXCEPT ![r] = "APPROVED"]

\* The revision approved takes the place of the one in force.
Replaced(r) ==
  [i \in DOMAIN contracts |->
     CASE i = r -> "APPROVED"
       [] i # r /\ i = task.contract /\ Active -> "SUPERSEDED"
       [] i # r /\ ~(i = task.contract /\ Active) -> contracts[i]]

ApproveContractRevision(r) ==
  /\ contracts[r] = "PROPOSED"
  /\ contracts' = Replaced(r)
  /\ verdicts' = Marked("STALE")
  /\ task' = [task EXCEPT !.contract = r]
  /\ UNCHANGED <<intact, evidence>>

RejectContractRevision(r) ==
  /\ contracts[r] = "PROPOSED"
  /\ contracts' = [contracts EXCEPT ![r] = "REJECTED"]
  /\ UNCHANGED <<task, intact, evidence, verdicts>>

-----------------------------------------------------------------------------
(* Stages. *)

\* The guards of the workflow on the transition that leaves a stage.  The two
\* that lead to execution, plan.exists and budget.available, are asked together.
GuardsHold(stage) ==
  /\ stage = "specification" => Active
  /\ stage \in {"planning", "design"} =>
       task.contract # 0 /\ Document[task.contract].funded
  /\ stage = "verification" => task.contract # 0 /\ Covered(VerifiedEvidence)
  /\ stage \in {"review", "merge"} => Accepted

\* The rules of safe-default: the one on human approvals is met by the
\* approval of the contract.  The stage is called planning in one of the two
\* workflows only.
PolicyAllows(stage) == stage = "planning" => Active

Successor(stage) ==
  LET path == Stages[task.workflow] IN
  {path[i + 1] : i \in {j \in 1..Len(path) - 1 : path[j] = stage}}

TransitionTaskStage(to) ==
  /\ task.status = "OPEN"
  /\ to \in Successor(task.stage)
  /\ GuardsHold(task.stage)
  /\ PolicyAllows(to)
  /\ task' = [task EXCEPT !.stage = to,
                          !.status = IF to = LastStage(task.workflow)
                                     THEN "COMPLETED" ELSE "OPEN"]
  /\ UNCHANGED <<intact, records>>

\* The same command, where it finds the verdict in force to be invalid.
DetectStaleVerdict ==
  /\ task.status = "OPEN"
  /\ task.stage \in {"review", "merge"}
  /\ CurrentAccepted # {}
  /\ ~Accepted
  /\ verdicts' = Marked("STALE")
  /\ UNCHANGED <<task, intact, contracts, evidence>>

\* The stage map may send a stage to any stage, and the target may be the
\* workflow the task has.
MigrateWorkflow(w, stage) ==
  /\ stage \in StagesOf(w)
  /\ verdicts' = Marked("STALE")
  /\ task' = [task EXCEPT !.workflow = w, !.stage = stage]
  /\ UNCHANGED <<intact, contracts, evidence>>

ReopenTask(stage) ==
  /\ task.status \in Terminal
  /\ stage \in StagesOf(task.workflow) \ {LastStage(task.workflow)}
  /\ verdicts' = Marked("STALE")
  /\ task' = [task EXCEPT !.status = "OPEN", !.stage = stage]
  /\ UNCHANGED <<intact, contracts, evidence>>

ChangeStatus(status) ==
  /\ \/ status = "BLOCKED" /\ task.status = "OPEN"
     \/ status = "OPEN" /\ task.status = "BLOCKED"
     \/ status = "CANCELLED"
  /\ task' = [task EXCEPT !.status = status]
  /\ UNCHANGED <<intact, records>>

-----------------------------------------------------------------------------
(* Evidence and verdicts. *)

\* Its artifacts are verified before it is recorded.  Evidence that the
\* contract does not ask for counts for nothing and is left out.
RecordEvidence(criterion, commit) ==
  /\ Active
  /\ criterion \in Required
  /\ Len(evidence) < MaxEvidence
  /\ evidence' = Append(evidence, [contract |-> task.contract, criterion |-> criterion,
                                   commit |-> commit, status |-> "RECORDED"])
  /\ intact' = Append(intact, TRUE)
  /\ UNCHANGED <<task, contracts, verdicts>>

VerifyEvidence(i) ==
  /\ evidence[i].status = "RECORDED"
  /\ intact[i]
  /\ evidence' = [evidence EXCEPT ![i].status = "VERIFIED"]
  /\ UNCHANGED <<task, intact, contracts, verdicts>>

InvalidateEvidence(i) ==
  /\ evidence[i].status \in {"RECORDED", "VERIFIED"}
  /\ evidence' = [evidence EXCEPT ![i].status = "INVALIDATED"]
  /\ verdicts' = Marked("STALE")
  /\ UNCHANGED <<task, intact, contracts>>

IssueVerdict(decision, refs) ==
  /\ Active
  /\ Len(verdicts) < MaxVerdicts
  /\ refs \subseteq VerifiedEvidence
  /\ \A i \in refs : intact[i]
  /\ decision = "ACCEPT" =>
       /\ Cardinality({evidence[i].commit : i \in refs}) <= 1
       /\ Covered(refs)
  /\ verdicts' = Append(Marked("SUPERSEDED"),
                        [contract |-> task.contract, workflow |-> task.workflow,
                         decision |-> decision, refs |-> refs, status |-> "CURRENT"])
  /\ UNCHANGED <<task, intact, contracts, evidence>>

\* The file of an artifact is changed, or put back.
ArtifactChanges(i) ==
  /\ intact' = [intact EXCEPT ![i] = ~@]
  /\ UNCHANGED <<task, records>>

-----------------------------------------------------------------------------
Command ==
  \/ CreateContractRevision
  \/ \E r \in DOMAIN contracts :
       \/ ProposeContractRevision(r)
       \/ RejectContractRevision(r)
       \/ ApproveContractRevision(r)
  \/ \E to \in StagesOf(task.workflow) : TransitionTaskStage(to)
  \/ DetectStaleVerdict
  \/ \E w \in Workflow : \E stage \in StagesOf(w) : MigrateWorkflow(w, stage)
  \/ \E status \in {"BLOCKED", "OPEN", "CANCELLED"} : ChangeStatus(status)
  \/ \E criterion \in Criterion, commit \in Commit : RecordEvidence(criterion, commit)
  \/ \E i \in DOMAIN evidence : VerifyEvidence(i) \/ InvalidateEvidence(i)
  \/ \E refs \in SUBSET DOMAIN evidence :
       IssueVerdict("ACCEPT", refs) \/ (refs = {} /\ IssueVerdict("REPAIR", refs))

Next ==
  \/ CreateTask
  \/ Admits /\ Command
  \/ \E stage \in StagesOf(task.workflow) : ReopenTask(stage)
  \/ \E i \in DOMAIN evidence : ArtifactChanges(i)

Spec == Init /\ [][Next]_vars

-----------------------------------------------------------------------------
(***************************************************************************)
(* One contract is in force: in whatever order revisions are proposed,     *)
(* approved and rejected, the approved one is the active one, and it is    *)
(* the only one.                                                           *)
(***************************************************************************)
OneContractInForce ==
  {r \in DOMAIN contracts : contracts[r] = "APPROVED"} = {task.contract} \ {0}

(***************************************************************************)
(* The verdict in force is about what is in force: there is one at most,   *)
(* its contract is the active one, its workflow is the task's, and nothing *)
(* that it rests on was taken back.  Contracts, evidence, verdicts and the *)
(* workflow change by separate commands in any order.                      *)
(***************************************************************************)
VerdictGrounded ==
  \A i \in DOMAIN verdicts : verdicts[i].status = "CURRENT" =>
    /\ \A j \in DOMAIN verdicts : verdicts[j].status = "CURRENT" => i = j
    /\ verdicts[i].contract = task.contract
    /\ verdicts[i].workflow = task.workflow
    /\ \A e \in verdicts[i].refs : evidence[e].status = "VERIFIED"

(***************************************************************************)
(* "Evidence from an older contract, another criterion, an invalidated     *)
(* record, a mixed commit, or a tampered artifact cannot satisfy           *)
(* acceptance" (docs/architecture/evidence-model.md): at the moment a task *)
(* completes, each criterion of the contract in force has evidence of that *)
(* contract, verified and intact, on one commit, and a verdict says so.    *)
(***************************************************************************)
Proven(c) ==
  \A criterion \in Required :
    \E i \in DOMAIN evidence :
      /\ evidence[i].contract = task.contract
      /\ evidence[i].criterion = criterion
      /\ evidence[i].commit = c
      /\ evidence[i].status = "VERIFIED"
      /\ intact[i]

CompletedOnMerit ==
  [][task.status # "COMPLETED" /\ task'.status = "COMPLETED" =>
       /\ \E c \in Commit : Proven(c)
       /\ \E i \in DOMAIN verdicts :
            /\ verdicts[i].status = "CURRENT"
            /\ verdicts[i].decision = "ACCEPT"]_vars

(***************************************************************************)
(* "Terminal tasks reject ordinary commands; only an explicit human        *)
(* ReopenTask can return one to a non-terminal stage"                      *)
(* (docs/architecture/task-domain.md): nothing of an ended task changes    *)
(* before it is open again, and then no earlier verdict is in force.       *)
(***************************************************************************)
TerminalIsClosed ==
  [][task.status \in Terminal =>
       \/ UNCHANGED <<task, records>>
       \/ /\ task'.status = "OPEN"
          /\ task'.stage # LastStage(task'.workflow)
          /\ \A i \in DOMAIN verdicts' : verdicts'[i].status # "CURRENT"]_vars
=============================================================================
