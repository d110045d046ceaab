------------------------ MODULE TaskGovernanceProofs ------------------------
(***************************************************************************)
(* Proofs about TaskGovernance, for every set of criteria and of commits,  *)
(* every sequence of contract documents, every workflow whose last stage   *)
(* waits for a verdict, and every bound on evidence and verdicts.          *)
(***************************************************************************)
EXTENDS TaskGovernance, SequenceTheorems, FiniteSetTheorems, TLAPS

Task == [status : {"NONE", "OPEN", "BLOCKED"} \cup Terminal,
         stage : UNION {StagesOf(w) : w \in Workflow},
         contract : Revision \cup {0}, workflow : Workflow]

TaskTyped(t) == t \in Task /\ t.stage \in StagesOf(t.workflow)

(***************************************************************************)
(* The contract that a task names is approved, and no other is.            *)
(***************************************************************************)
InForce(cs, c) ==
  /\ c \in 0..Len(cs)
  /\ c # 0 => cs[c] = "APPROVED"
  /\ \A r \in DOMAIN cs : cs[r] = "APPROVED" => r = c

(***************************************************************************)
(* What a verdict in force refers to is on record, for its contract.       *)
(***************************************************************************)
RefsOnRecord ==
  \A i \in DOMAIN verdicts : verdicts[i].status = "CURRENT" =>
    \A e \in verdicts[i].refs :
      e \in DOMAIN evidence /\ evidence[e].contract = verdicts[i].contract

Inv ==
  /\ TypeOK
  /\ Len(evidence) <= MaxEvidence
  /\ InForce(contracts, task.contract)
  /\ VerdictGrounded
  /\ RefsOnRecord

LEMMA TypeIs ==
  TypeOK <=> /\ TaskTyped(task)
             /\ contracts \in Seq(ContractStatus) /\ Len(contracts) <= Len(Document)
             /\ task.contract \in 0..Len(contracts)
             /\ evidence \in Seq(Evidence) /\ intact \in [DOMAIN evidence -> BOOLEAN]
             /\ verdicts \in Seq(Verdict)
BY DEF TypeOK, TaskTyped, Task

LEMMA SequenceOf ==
  ASSUME NEW S, NEW n \in Nat, NEW f \in [1..n -> S]
  PROVE  f \in Seq(S) /\ Len(f) = n /\ DOMAIN f = 1..n
BY SeqDef

LEMMA LengthOf ==
  ASSUME NEW S, NEW s \in Seq(S)
  PROVE  Len(s) \in Nat /\ DOMAIN s = 1..Len(s) /\ s \in [1..Len(s) -> S]
BY LenProperties

LEMMA Appended ==
  ASSUME NEW S, NEW s \in Seq(S), NEW x \in S
  PROVE  /\ Append(s, x) \in Seq(S) /\ Len(Append(s, x)) = Len(s) + 1
         /\ DOMAIN Append(s, x) = 1..(Len(s) + 1)
         /\ \A i \in 1..Len(s) : Append(s, x)[i] = s[i]
         /\ Append(s, x)[Len(s) + 1] = x
BY LengthOf

(***************************************************************************)
(* Verdicts that were marked: none is in force.                            *)
(***************************************************************************)
NoneInForce(vs) == \A i \in DOMAIN vs : vs[i].status # "CURRENT"

LEMMA MarkedIs ==
  ASSUME verdicts \in Seq(Verdict), NEW status \in {"STALE", "SUPERSEDED"}
  PROVE  /\ Marked(status) \in Seq(Verdict) /\ Len(Marked(status)) = Len(verdicts)
         /\ NoneInForce(Marked(status))
<1>1. /\ Len(verdicts) \in Nat /\ DOMAIN verdicts = 1..Len(verdicts)
      /\ verdicts \in [1..Len(verdicts) -> Verdict]
  BY LengthOf
<1>2. \A v \in Verdict : /\ [v EXCEPT !.status = status] \in Verdict
                         /\ [v EXCEPT !.status = status].status = status
  BY DEF Verdict
<1>3. Marked(status) \in [1..Len(verdicts) -> Verdict]
  BY <1>1, <1>2 DEF Marked
<1>4. \A i \in DOMAIN verdicts : Marked(status)[i].status # "CURRENT"
  BY <1>1, <1>2 DEF Marked
<1> HIDE DEF Marked
<1>5. Marked(status) \in Seq(Verdict) /\ Len(Marked(status)) = Len(verdicts)
      /\ DOMAIN Marked(status) = 1..Len(verdicts)
  BY <1>1, <1>3, SequenceOf
<1> QED BY <1>1, <1>4, <1>5 DEF NoneInForce

(***************************************************************************)
(* A step that leaves no verdict in force, or the verdicts and what they   *)
(* rest on as they are.                                                    *)
(***************************************************************************)
LEMMA UnsettledIsGrounded ==
  ASSUME NoneInForce(verdicts)'
  PROVE  VerdictGrounded' /\ RefsOnRecord'
BY DEF NoneInForce, VerdictGrounded, RefsOnRecord

LEMMA OneContract ==
  ASSUME TypeOK
  PROVE  OneContractInForce <=> InForce(contracts, task.contract)
<1>1. /\ Len(contracts) \in Nat /\ DOMAIN contracts = 1..Len(contracts)
      /\ task.contract \in 0..Len(contracts)
  BY LengthOf DEF TypeOK
<1> QED BY <1>1 DEF OneContractInForce, InForce

-----------------------------------------------------------------------------
(* The steps. *)

(***************************************************************************)
(* Only the status and the stage of the task change.                       *)
(***************************************************************************)
LEMMA TaskMoves ==
  ASSUME Inv, TaskTyped(task'), task'.contract = task.contract,
         task'.workflow = task.workflow, UNCHANGED <<contracts, evidence, verdicts, intact>>
  PROVE  Inv'
BY TypeIs DEF Inv, TypeOK, TaskTyped, Task, VerdictGrounded, RefsOnRecord, InForce

LEMMA CreateTaskKeeps ==
  ASSUME Inv, CreateTask
  PROVE  Inv'
<1>1. TaskTyped(task) /\ task' = [task EXCEPT !.status = "OPEN"]
  BY TypeIs DEF Inv, CreateTask
<1>2. TaskTyped(task') /\ task'.contract = task.contract /\ task'.workflow = task.workflow
  BY <1>1 DEF TaskTyped, Task
<1> QED BY <1>2, TaskMoves DEF CreateTask, records

LEMMA ChangeStatusKeeps ==
  ASSUME Inv, NEW status \in {"BLOCKED", "OPEN", "CANCELLED"}, ChangeStatus(status)
  PROVE  Inv'
<1>1. TaskTyped(task) /\ task' = [task EXCEPT !.status = status]
  BY TypeIs DEF Inv, ChangeStatus
<1>2. TaskTyped(task') /\ task'.contract = task.contract /\ task'.workflow = task.workflow
  BY <1>1 DEF TaskTyped, Task, Terminal
<1> QED BY <1>2, TaskMoves DEF ChangeStatus, records

LEMMA TransitionKeeps ==
  ASSUME Inv, NEW to \in StagesOf(task.workflow), TransitionTaskStage(to)
  PROVE  Inv'
<1>1. TaskTyped(task) /\ task.workflow \in Workflow
  BY TypeIs DEF Inv, TaskTyped, Task
<1> DEFINE status == IF to = LastStage(task.workflow) THEN "COMPLETED" ELSE "OPEN"
<1>2. task' = [task EXCEPT !.stage = to, !.status = status]
      /\ status \in {"OPEN"} \cup Terminal
  BY DEF TransitionTaskStage, Terminal
<1> HIDE DEF status
<1>3. TaskTyped(task') /\ task'.contract = task.contract /\ task'.workflow = task.workflow
  BY <1>1, <1>2 DEF TaskTyped, Task
<1> QED BY <1>3, TaskMoves DEF TransitionTaskStage, records

(***************************************************************************)
(* Where the verdicts are marked, the task may move and evidence be taken  *)
(* back.                                                                   *)
(***************************************************************************)
LEMMA MarkingKeeps ==
  ASSUME Inv, verdicts' = Marked("STALE"), TaskTyped(task'),
         contracts' \in Seq(ContractStatus), Len(contracts') = Len(contracts),
         InForce(contracts', task'.contract),
         evidence' \in Seq(Evidence), Len(evidence') = Len(evidence), intact' = intact
  PROVE  Inv'
<1>1. verdicts' \in Seq(Verdict) /\ NoneInForce(verdicts)'
  BY MarkedIs DEF Inv, TypeOK, NoneInForce
<1>2. VerdictGrounded' /\ RefsOnRecord'
  BY <1>1, UnsettledIsGrounded
<1>3. DOMAIN evidence' = DOMAIN evidence
  BY LengthOf DEF Inv, TypeOK
<1>4. TypeOK'
  BY <1>1, <1>3 DEF Inv, TypeOK, TaskTyped, Task, InForce
<1> QED BY <1>2, <1>4 DEF Inv

LEMMA ApproveKeeps ==
  ASSUME Inv, NEW r \in DOMAIN contracts, ApproveContractRevision(r)
  PROVE  Inv'
<1>1. /\ contracts \in Seq(ContractStatus) /\ DOMAIN contracts = 1..Len(contracts)
      /\ Len(contracts) \in Nat /\ contracts \in [1..Len(contracts) -> ContractStatus]
      /\ Len(contracts) <= Len(Document) /\ InForce(contracts, task.contract)
      /\ TaskTyped(task)
  BY LengthOf, TypeIs DEF Inv, TypeOK
<1>2. /\ contracts' = Replaced(r) /\ task' = [task EXCEPT !.contract = r]
      /\ UNCHANGED <<intact, evidence>> /\ verdicts' = Marked("STALE")
  BY DEF ApproveContractRevision
<1>3. r \in Revision
  BY <1>1, Constants, LengthOf DEF Revision
<1>4. TaskTyped(task') /\ task'.contract = r
  BY <1>1, <1>2, <1>3 DEF TaskTyped, Task
<1>5. \A i \in DOMAIN contracts :
        /\ Replaced(r)[i] \in ContractStatus
        /\ Replaced(r)[i] = "APPROVED" <=> i = r
  <2> SUFFICES ASSUME NEW i \in DOMAIN contracts
               PROVE  /\ Replaced(r)[i] \in ContractStatus
                      /\ Replaced(r)[i] = "APPROVED" <=> i = r
    OBVIOUS
  <2>1. CASE i = r
    BY <2>1 DEF Replaced, ContractStatus
  <2>2. CASE i # r /\ i = task.contract /\ Active
    BY <2>2 DEF Replaced, ContractStatus
  <2>3. CASE i # r /\ ~(i = task.contract /\ Active)
    <3>1. Replaced(r)[i] = contracts[i]
      BY <2>3 DEF Replaced
    <3>2. contracts[i] # "APPROVED"
      BY <1>1, <2>3 DEF InForce, Active
    <3> QED BY <1>1, <2>3, <3>1, <3>2
  <2> QED BY <2>1, <2>2, <2>3
<1>6. Replaced(r) \in [1..Len(contracts) -> ContractStatus]
  BY <1>1, <1>5 DEF Replaced
<1>7. /\ contracts' \in Seq(ContractStatus) /\ Len(contracts') = Len(contracts)
      /\ DOMAIN contracts' = DOMAIN contracts
  BY <1>1, <1>2, <1>6, SequenceOf
<1>8. InForce(contracts', r)
  BY <1>1, <1>2, <1>5, <1>7 DEF InForce
<1> QED BY <1>2, <1>4, <1>7, <1>8, MarkingKeeps DEF Inv, TypeOK

LEMMA MigrateKeeps ==
  ASSUME Inv, NEW w \in Workflow, NEW stage \in StagesOf(w), MigrateWorkflow(w, stage)
  PROVE  Inv'
<1>1. /\ TaskTyped(task) /\ task' = [task EXCEPT !.workflow = w, !.stage = stage]
      /\ UNCHANGED <<intact, contracts, evidence>> /\ verdicts' = Marked("STALE")
  BY TypeIs DEF Inv, MigrateWorkflow
<1>2. TaskTyped(task') /\ task'.contract = task.contract
  BY <1>1 DEF TaskTyped, Task
<1> QED BY <1>1, <1>2, MarkingKeeps DEF Inv, TypeOK

LEMMA ReopenKeeps ==
  ASSUME Inv, NEW stage \in StagesOf(task.workflow), ReopenTask(stage)
  PROVE  Inv'
<1>1. /\ TaskTyped(task) /\ task' = [task EXCEPT !.status = "OPEN", !.stage = stage]
      /\ UNCHANGED <<intact, contracts, evidence>> /\ verdicts' = Marked("STALE")
  BY TypeIs DEF Inv, ReopenTask
<1>2. TaskTyped(task') /\ task'.contract = task.contract
  BY <1>1 DEF TaskTyped, Task
<1> QED BY <1>1, <1>2, MarkingKeeps DEF Inv, TypeOK

LEMMA DetectStaleKeeps ==
  ASSUME Inv, DetectStaleVerdict
  PROVE  Inv'
<1>1. /\ TaskTyped(task) /\ UNCHANGED <<task, intact, contracts, evidence>>
      /\ verdicts' = Marked("STALE")
  BY TypeIs DEF Inv, DetectStaleVerdict
<1> QED BY <1>1, MarkingKeeps DEF Inv, TypeOK

LEMMA InvalidateKeeps ==
  ASSUME Inv, NEW i \in DOMAIN evidence, InvalidateEvidence(i)
  PROVE  Inv'
<1>1. /\ TaskTyped(task) /\ UNCHANGED <<task, intact, contracts>>
      /\ verdicts' = Marked("STALE")
      /\ evidence' = [evidence EXCEPT ![i].status = "INVALIDATED"]
  BY TypeIs DEF Inv, InvalidateEvidence
<1>2. evidence \in Seq(Evidence) /\ DOMAIN evidence = 1..Len(evidence) /\ Len(evidence) \in Nat
      /\ evidence \in [1..Len(evidence) -> Evidence]
  BY LengthOf DEF Inv, TypeOK
<1>3. evidence' \in [1..Len(evidence) -> Evidence]
  BY <1>1, <1>2 DEF Evidence
<1>4. evidence' \in Seq(Evidence) /\ Len(evidence') = Len(evidence)
  BY <1>2, <1>3, SequenceOf
<1> QED BY <1>1, <1>4, MarkingKeeps DEF Inv, TypeOK

-----------------------------------------------------------------------------
(***************************************************************************)
(* Revisions that are not in force come and go.                            *)
(***************************************************************************)
LEMMA DraftsKeep ==
  ASSUME Inv, contracts' \in Seq(ContractStatus), Len(contracts') <= Len(Document),
         Len(contracts) <= Len(contracts'),
         \A r \in DOMAIN contracts :
           contracts'[r] = "APPROVED" <=> contracts[r] = "APPROVED",
         \A r \in DOMAIN contracts' \ DOMAIN contracts : contracts'[r] # "APPROVED",
         UNCHANGED <<task, intact, evidence, verdicts>>
  PROVE  Inv'
<1>1. /\ DOMAIN contracts = 1..Len(contracts) /\ Len(contracts) \in Nat
      /\ Len(contracts') \in Nat
  BY LengthOf DEF Inv, TypeOK
<1>2. InForce(contracts', task'.contract)
  BY <1>1 DEF Inv, InForce
<1>3. TypeOK'
  BY <1>2 DEF Inv, TypeOK, InForce
<1>4. VerdictGrounded' /\ RefsOnRecord'
  BY DEF Inv, VerdictGrounded, RefsOnRecord
<1> QED BY <1>2, <1>3, <1>4 DEF Inv

LEMMA CreateRevisionKeeps ==
  ASSUME Inv, CreateContractRevision
  PROVE  Inv'
<1>1. /\ contracts \in Seq(ContractStatus) /\ "DRAFT" \in ContractStatus
      /\ DOMAIN contracts = 1..Len(contracts) /\ Len(contracts) \in Nat
      /\ Len(Document) \in Nat
  BY LengthOf, Constants DEF Inv, TypeOK, ContractStatus
<1>2. /\ contracts' = Append(contracts, "DRAFT") /\ Len(contracts) < Len(Document)
      /\ UNCHANGED <<task, intact, evidence, verdicts>>
  BY DEF CreateContractRevision
<1>3. /\ contracts' \in Seq(ContractStatus) /\ Len(contracts') = Len(contracts) + 1
      /\ DOMAIN contracts' = 1..(Len(contracts) + 1)
      /\ \A i \in 1..Len(contracts) : contracts'[i] = contracts[i]
      /\ contracts'[Len(contracts) + 1] = "DRAFT"
  BY <1>1, <1>2, Appended
<1>4. /\ \A r \in DOMAIN contracts : contracts'[r] = contracts[r]
      /\ \A r \in DOMAIN contracts' \ DOMAIN contracts : contracts'[r] = "DRAFT"
  BY <1>1, <1>3
<1>5. Len(contracts') <= Len(Document) /\ Len(contracts) <= Len(contracts')
  BY <1>1, <1>2, <1>3
<1> QED BY <1>2, <1>3, <1>4, <1>5, DraftsKeep

LEMMA ProposeKeeps ==
  ASSUME Inv, NEW r \in DOMAIN contracts,
         ProposeContractRevision(r) \/ RejectContractRevision(r)
  PROVE  Inv'
<1>1. /\ contracts \in Seq(ContractStatus) /\ Len(contracts) \in Nat
      /\ DOMAIN contracts = 1..Len(contracts) /\ Len(contracts) <= Len(Document)
      /\ contracts \in [1..Len(contracts) -> ContractStatus]
      /\ Len(Document) \in Nat
  BY LengthOf, Constants DEF Inv, TypeOK
<1>2. PICK s \in {"PROPOSED", "REJECTED"} : contracts' = [contracts EXCEPT ![r] = s]
  BY DEF ProposeContractRevision, RejectContractRevision
<1>3. contracts[r] # "APPROVED" /\ UNCHANGED <<task, intact, evidence, verdicts>>
  BY DEF ProposeContractRevision, RejectContractRevision
<1>4. contracts' \in [1..Len(contracts) -> ContractStatus]
  BY <1>1, <1>2 DEF ContractStatus
<1>5. /\ contracts' \in Seq(ContractStatus) /\ Len(contracts') = Len(contracts)
      /\ DOMAIN contracts' = DOMAIN contracts
  BY <1>1, <1>4, SequenceOf
<1>6. \A i \in DOMAIN contracts : contracts'[i] = "APPROVED" <=> contracts[i] = "APPROVED"
  BY <1>1, <1>2, <1>3
<1>7. Len(contracts') <= Len(Document) /\ Len(contracts) <= Len(contracts')
  BY <1>1, <1>5
<1> QED BY <1>3, <1>5, <1>6, <1>7, DraftsKeep

(***************************************************************************)
(* Evidence that is added or verified is not taken back, and stays for its *)
(* contract.                                                               *)
(***************************************************************************)
LEMMA EvidenceKeeps ==
  ASSUME Inv, evidence' \in Seq(Evidence), Len(evidence') <= MaxEvidence,
         intact' \in [DOMAIN evidence' -> BOOLEAN],
         \A i \in DOMAIN evidence :
           /\ i \in DOMAIN evidence' /\ evidence'[i].contract = evidence[i].contract
           /\ evidence[i].status = "VERIFIED" => evidence'[i].status = "VERIFIED",
         UNCHANGED <<task, contracts, verdicts>>
  PROVE  Inv'
<1>1. TypeOK' /\ InForce(contracts, task.contract)'
  BY DEF Inv, TypeOK, InForce
<1>2. RefsOnRecord'
  BY DEF Inv, RefsOnRecord
<1>3. VerdictGrounded'
  BY DEF Inv, VerdictGrounded, RefsOnRecord
<1> QED BY <1>1, <1>2, <1>3 DEF Inv

LEMMA RecordKeeps ==
  ASSUME Inv, NEW criterion \in Criterion, NEW commit \in Commit,
         RecordEvidence(criterion, commit)
  PROVE  Inv'
<1> DEFINE e == [contract |-> task.contract, criterion |-> criterion,
                 commit |-> commit, status |-> "RECORDED"]
<1>1. /\ evidence \in Seq(Evidence) /\ Len(evidence) \in Nat
      /\ DOMAIN evidence = 1..Len(evidence) /\ intact \in [1..Len(evidence) -> BOOLEAN]
      /\ task \in Task /\ MaxEvidence \in Nat
  BY LengthOf, TypeIs, Constants DEF Inv, TypeOK, TaskTyped
<1>2. /\ evidence' = Append(evidence, e) /\ intact' = Append(intact, TRUE)
      /\ task.contract # 0 /\ Len(evidence) < MaxEvidence
      /\ UNCHANGED <<task, contracts, verdicts>>
  BY DEF RecordEvidence, Active
<1>3. e \in Evidence
  BY <1>1, <1>2 DEF Evidence, Task
<1> HIDE DEF e
<1>4. /\ evidence' \in Seq(Evidence) /\ Len(evidence') = Len(evidence) + 1
      /\ DOMAIN evidence' = 1..(Len(evidence) + 1)
      /\ \A i \in 1..Len(evidence) : evidence'[i] = evidence[i]
  BY <1>1, <1>2, <1>3, Appended
<1>5. intact \in Seq(BOOLEAN) /\ Len(intact) = Len(evidence)
  BY <1>1, SequenceOf
<1>6. /\ intact' \in Seq(BOOLEAN) /\ Len(intact') = Len(evidence) + 1
  BY <1>2, <1>5, Appended
<1>7. intact' \in [1..(Len(evidence) + 1) -> BOOLEAN]
  BY <1>6, LengthOf
<1>8. Len(evidence') <= MaxEvidence
  BY <1>1, <1>2, <1>4
<1>9. \A i \in DOMAIN evidence : i \in DOMAIN evidence' /\ evidence'[i] = evidence[i]
  BY <1>1, <1>4
<1> QED BY <1>2, <1>4, <1>7, <1>8, <1>9, EvidenceKeeps

LEMMA VerifyKeeps ==
  ASSUME Inv, NEW i \in DOMAIN evidence, VerifyEvidence(i)
  PROVE  Inv'
<1>1. /\ evidence \in Seq(Evidence) /\ Len(evidence) \in Nat
      /\ DOMAIN evidence = 1..Len(evidence) /\ evidence \in [1..Len(evidence) -> Evidence]
      /\ intact \in [1..Len(evidence) -> BOOLEAN] /\ Len(evidence) <= MaxEvidence
  BY LengthOf DEF Inv, TypeOK
<1>2. /\ evidence' = [evidence EXCEPT ![i].status = "VERIFIED"]
      /\ UNCHANGED <<task, intact, contracts, verdicts>>
  BY DEF VerifyEvidence
<1>3. evidence' \in [1..Len(evidence) -> Evidence]
  BY <1>1, <1>2 DEF Evidence
<1>4. /\ evidence' \in Seq(Evidence) /\ Len(evidence') = Len(evidence)
      /\ DOMAIN evidence' = 1..Len(evidence)
  BY <1>1, <1>3, SequenceOf
<1>5. \A x \in DOMAIN evidence :
        /\ evidence'[x].contract = evidence[x].contract
        /\ evidence[x].status = "VERIFIED" => evidence'[x].status = "VERIFIED"
  BY <1>1, <1>2 DEF Evidence
<1>6. Len(evidence') <= MaxEvidence /\ intact' \in [DOMAIN evidence' -> BOOLEAN]
      /\ \A x \in DOMAIN evidence : x \in DOMAIN evidence'
  BY <1>1, <1>2, <1>4
<1> QED BY <1>2, <1>4, <1>5, <1>6, EvidenceKeeps

LEMMA ArtifactChangesKeeps ==
  ASSUME Inv, NEW i \in DOMAIN evidence, ArtifactChanges(i)
  PROVE  Inv'
<1>1. intact' \in [DOMAIN evidence -> BOOLEAN] /\ UNCHANGED <<task, records>>
  BY DEF ArtifactChanges, Inv, TypeOK
<1> QED BY <1>1, EvidenceKeeps DEF Inv, TypeOK, records

(***************************************************************************)
(* The verdict that is issued takes the place of the one in force.         *)
(***************************************************************************)
LEMMA IssueKeeps ==
  ASSUME Inv, NEW decision \in {"ACCEPT", "REPAIR"}, NEW refs \in SUBSET DOMAIN evidence,
         IssueVerdict(decision, refs)
  PROVE  Inv'
<1> DEFINE v == [contract |-> task.contract, workflow |-> task.workflow,
                 decision |-> decision, refs |-> refs, status |-> "CURRENT"]
           old == Marked("SUPERSEDED")
<1>1. /\ verdicts \in Seq(Verdict) /\ task \in Task /\ Len(evidence) \in Nat
      /\ DOMAIN evidence = 1..Len(evidence) /\ Len(evidence) <= MaxEvidence
      /\ MaxEvidence \in Nat
  BY LengthOf, TypeIs, Constants DEF Inv, TypeOK, TaskTyped
<1>2. /\ verdicts' = Append(old, v) /\ task.contract # 0 /\ refs \subseteq VerifiedEvidence
      /\ UNCHANGED <<task, intact, contracts, evidence>>
  BY DEF IssueVerdict, Active
<1>3. old \in Seq(Verdict) /\ NoneInForce(old)
  BY <1>1, MarkedIs
<1>4. /\ v \in Verdict /\ v.refs = refs /\ v.contract = task.contract
      /\ v.workflow = task.workflow
  <2>1. refs \in SUBSET (1..MaxEvidence)
    BY <1>1
  <2> QED BY <1>1, <1>2, <2>1 DEF Verdict, Task
<1> HIDE DEF v, old
<1>5. /\ verdicts' \in Seq(Verdict) /\ DOMAIN verdicts' = 1..(Len(old) + 1)
      /\ \A i \in 1..Len(old) : verdicts'[i] = old[i]
      /\ verdicts'[Len(old) + 1] = v
  BY <1>2, <1>3, <1>4, Appended
<1>6. Len(old) \in Nat /\ DOMAIN old = 1..Len(old)
  BY <1>3, LengthOf
<1>7. \A i \in DOMAIN verdicts' : verdicts'[i].status = "CURRENT" =>
        i = Len(old) + 1 /\ verdicts'[i] = v
  BY <1>3, <1>5, <1>6 DEF NoneInForce
<1>8. \A e \in refs : /\ e \in DOMAIN evidence /\ evidence[e].contract = task.contract
                      /\ evidence[e].status = "VERIFIED"
  BY <1>2 DEF VerifiedEvidence
<1>9. VerdictGrounded' /\ RefsOnRecord'
  BY <1>2, <1>4, <1>7, <1>8 DEF VerdictGrounded, RefsOnRecord
<1>10. TypeOK'
  BY <1>2, <1>5 DEF Inv, TypeOK
<1> QED BY <1>2, <1>9, <1>10 DEF Inv

-----------------------------------------------------------------------------
LEMMA NextInv == Inv /\ [Next]_vars => Inv'
<1> SUFFICES ASSUME Inv, [Next]_vars PROVE Inv'
  OBVIOUS
<1>1. CASE Command
  BY <1>1, CreateRevisionKeeps, ProposeKeeps, ApproveKeeps, TransitionKeeps,
     DetectStaleKeeps, MigrateKeeps, ChangeStatusKeeps, RecordKeeps, VerifyKeeps,
     InvalidateKeeps, IssueKeeps
  DEF Command
<1>2. CASE UNCHANGED vars
  BY <1>2 DEF vars, records, Inv, TypeOK, InForce, VerdictGrounded, RefsOnRecord
<1> QED BY <1>1, <1>2, CreateTaskKeeps, ReopenKeeps, ArtifactChangesKeeps DEF Next

LEMMA InitInv == Init => Inv
<1> SUFFICES ASSUME Init PROVE Inv
  OBVIOUS
<1>1. PICK w \in Workflow : task = [status |-> "NONE", stage |-> Stages[w][1],
                                    contract |-> 0, workflow |-> w]
  BY DEF Init
<1>2. Stages[w][1] \in StagesOf(w)
  <2>1. Len(Stages[w]) \in Nat \ {0} /\ DOMAIN Stages[w] = 1..Len(Stages[w])
    BY Constants, EmptySeq, LengthOf DEF Workflow
  <2> QED BY <2>1 DEF StagesOf
<1>3. TaskTyped(task) /\ task.contract = 0
  BY <1>1, <1>2 DEF TaskTyped, Task
<1>4. /\ contracts \in Seq(ContractStatus) /\ evidence \in Seq(Evidence)
      /\ verdicts \in Seq(Verdict) /\ Len(contracts) = 0 /\ Len(evidence) = 0
      /\ DOMAIN contracts = {} /\ DOMAIN evidence = {} /\ DOMAIN verdicts = {}
  BY EmptySeq, LengthOf DEF Init
<1>5. intact \in [DOMAIN evidence -> BOOLEAN]
  BY <1>4 DEF Init
<1>6. Len(Document) \in Nat /\ MaxEvidence \in Nat
  BY Constants, LengthOf
<1>7. TypeOK
  BY <1>3, <1>4, <1>5, <1>6, TypeIs
<1> QED BY <1>3, <1>4, <1>6, <1>7 DEF Inv, InForce, VerdictGrounded, RefsOnRecord

(***************************************************************************)
(* Every reachable state is typed.                                         *)
(***************************************************************************)
THEOREM GovernanceIsTyped == Spec => []TypeOK
<1>1. Inv => TypeOK
  BY DEF Inv
<1> QED BY <1>1, InitInv, NextInv, PTL DEF Spec

(***************************************************************************)
(* In every reachable state the contract that the task names is approved,  *)
(* and it is the only one.                                                 *)
(***************************************************************************)
THEOREM OneContractIsInForce == Spec => []OneContractInForce
<1>1. Inv => OneContractInForce
  BY OneContract DEF Inv
<1> QED BY <1>1, InitInv, NextInv, PTL DEF Spec

(***************************************************************************)
(* In every reachable state the verdict in force is one, of the contract   *)
(* and the workflow in force, and rests on verified evidence.              *)
(***************************************************************************)
THEOREM VerdictsAreGrounded == Spec => []VerdictGrounded
<1>1. Inv => VerdictGrounded
  BY DEF Inv
<1> QED BY <1>1, InitInv, NextInv, PTL DEF Spec

-----------------------------------------------------------------------------
(* Completion. *)

(***************************************************************************)
(* The last stage is entered from the one before it, which waits for a     *)
(* verdict.                                                                *)
(***************************************************************************)
LEMMA LastIsGated ==
  ASSUME Inv, LastStage(task.workflow) \in Successor(task.stage)
  PROVE  task.stage \in {"review", "merge"}
<1> DEFINE path == Stages[task.workflow]
<1>1. task.workflow \in Workflow
  BY TypeIs DEF Inv, TaskTyped, Task
<1>2. /\ path \in Seq(STRING) /\ path # << >>
      /\ \A i, j \in DOMAIN path : path[i] = path[j] => i = j
      /\ Len(path) > 1 => path[Len(path) - 1] \in {"review", "merge"}
  BY <1>1, Constants, Gated DEF Workflow
<1>3. PICK i \in 1..Len(path) - 1 : path[i] = task.stage /\ path[i + 1] = path[Len(path)]
  BY DEF Successor, LastStage
<1> HIDE DEF path
<1>4. Len(path) \in Nat /\ DOMAIN path = 1..Len(path)
  BY <1>2, LengthOf
<1>5. i + 1 = Len(path)
  <2>1. i + 1 \in DOMAIN path /\ Len(path) \in DOMAIN path
    BY <1>4
  <2> QED BY <1>2, <1>3, <2>1
<1> QED BY <1>2, <1>3, <1>4, <1>5

(***************************************************************************)
(* A finite set with at most one element holds no two.                     *)
(***************************************************************************)
LEMMA OneOnly ==
  ASSUME NEW S, IsFiniteSet(S), Cardinality(S) <= 1, NEW x \in S, NEW y \in S
  PROVE  x = y
<1> SUFFICES ASSUME x # y PROVE FALSE
  OBVIOUS
<1>1. IsFiniteSet({x}) /\ Cardinality({x}) = 1
  BY FS_Singleton
<1>2. IsFiniteSet({x} \cup {y}) /\ Cardinality({x} \cup {y}) = 2
  <2>1. y \notin {x}
    OBVIOUS
  <2>2. Cardinality({x} \cup {y}) = Cardinality({x}) + 1 /\ IsFiniteSet({x} \cup {y})
    BY ONLY <1>1, <2>1, FS_AddElement, Zenon
  <2> QED BY <1>1, <2>2
<1>3. Cardinality({x} \cup {y}) <= Cardinality(S)
  BY <1>2, FS_Subset
<1>4. Cardinality(S) \in Nat
  BY FS_CardinalityType
<1> QED BY <1>2, <1>3, <1>4

(***************************************************************************)
(* Records that have one commit between them are of that commit.           *)
(***************************************************************************)
LEMMA OnOneCommit ==
  ASSUME Inv, NEW refs \in SUBSET DOMAIN evidence,
         Cardinality({evidence[i].commit : i \in refs}) <= 1
  PROVE  \E c \in Commit : \A i \in refs : evidence[i].commit = c
<1>1. /\ DOMAIN evidence = 1..Len(evidence) /\ Len(evidence) \in Nat
      /\ evidence \in [1..Len(evidence) -> Evidence]
  BY LengthOf DEF Inv, TypeOK
<1> DEFINE commits == {evidence[i].commit : i \in refs}
           commitOf == [i \in refs |-> evidence[i].commit]
<1>2. IsFiniteSet(refs)
  <2>1. IsFiniteSet(1..Len(evidence))
    BY <1>1, FS_Interval
  <2> QED BY <1>1, <2>1, FS_Subset
<1>3. commitOf \in Surjection(refs, commits)
  BY DEF Surjection
<1>4. IsFiniteSet(commits)
  BY <1>2, <1>3, FS_Surjection
<1>5. \A i \in refs : evidence[i].commit \in Commit /\ evidence[i].commit \in commits
  BY <1>1 DEF Evidence
<1>6. Cardinality(commits) <= 1
  OBVIOUS
<1> HIDE DEF commits, commitOf
<1>7. \A i, j \in refs : evidence[i].commit = evidence[j].commit
  BY <1>4, <1>5, <1>6, OneOnly
<1>8. CASE refs = {}
  BY <1>8, Gated
<1>9. CASE refs # {}
  <2>1. PICK i \in refs : TRUE
    BY <1>9
  <2> QED BY <1>5, <1>7, <2>1
<1> QED BY <1>8, <1>9

(***************************************************************************)
(* An accepting verdict whose dependencies are valid proves the contract   *)
(* in force.                                                               *)
(***************************************************************************)
LEMMA AcceptedIsProven ==
  ASSUME Inv, Accepted
  PROVE  /\ \E c \in Commit : Proven(c)
         /\ \E i \in DOMAIN verdicts :
              verdicts[i].status = "CURRENT" /\ verdicts[i].decision = "ACCEPT"
<1>1. PICK i \in DOMAIN verdicts :
        /\ verdicts[i].status = "CURRENT" /\ verdicts[i].decision = "ACCEPT"
        /\ verdicts[i].contract = task.contract /\ Valid(verdicts[i])
  BY DEF Accepted, CurrentAccepted
<1>2. \A e \in verdicts[i].refs :
        /\ e \in DOMAIN evidence /\ evidence[e].contract = task.contract
        /\ evidence[e].status = "VERIFIED" /\ intact[e]
  BY <1>1 DEF Inv, RefsOnRecord, Valid
<1>3. PICK c \in Commit : \A e \in verdicts[i].refs : evidence[e].commit = c
  <2>1. verdicts[i].refs \in SUBSET DOMAIN evidence
    BY <1>2
  <2> QED BY <1>1, <2>1, OnOneCommit DEF Valid
<1>4. \A criterion \in Required :
        \E e \in verdicts[i].refs : evidence[e].criterion = criterion
  BY <1>1 DEF Valid, Covered
<1>5. Proven(c)
  BY <1>2, <1>3, <1>4 DEF Proven
<1> QED BY <1>1, <1>5

(***************************************************************************)
(* Only a transition completes a task, and only one to the last stage.     *)
(***************************************************************************)
LEMMA OnlyTransitionCompletes ==
  ASSUME Inv, [Next]_vars, task.status # "COMPLETED", task'.status = "COMPLETED"
  PROVE  LastStage(task.workflow) \in Successor(task.stage) /\ GuardsHold(task.stage)
<1>1. task \in Task
  BY TypeIs DEF Inv, TaskTyped
<1>2. ~CreateTask /\ ~(\E stage \in StagesOf(task.workflow) : ReopenTask(stage))
  BY <1>1 DEF CreateTask, ReopenTask, Task
<1>3. task' # task
  OBVIOUS
<1>4. Command
  BY <1>2, <1>3 DEF Next, ArtifactChanges, vars
<1>5. ~(\E w \in Workflow : \E stage \in StagesOf(w) : MigrateWorkflow(w, stage))
  BY <1>1 DEF MigrateWorkflow, Task
<1>6. ~(\E status \in {"BLOCKED", "OPEN", "CANCELLED"} : ChangeStatus(status))
  BY <1>1 DEF ChangeStatus, Task
<1>7. ~(\E r \in DOMAIN contracts : \/ ProposeContractRevision(r)
                                    \/ RejectContractRevision(r)
                                    \/ ApproveContractRevision(r))
  BY <1>1, <1>3 DEF ProposeContractRevision, RejectContractRevision,
     ApproveContractRevision, Task
<1>8. PICK to \in StagesOf(task.workflow) : TransitionTaskStage(to)
  BY <1>3, <1>4, <1>5, <1>6, <1>7 DEF Command, CreateContractRevision, DetectStaleVerdict,
     RecordEvidence, VerifyEvidence, InvalidateEvidence, IssueVerdict
<1>9. task'.status = IF to = LastStage(task.workflow) THEN "COMPLETED" ELSE "OPEN"
  BY <1>1, <1>8 DEF TransitionTaskStage, Task
<1> QED BY <1>8, <1>9 DEF TransitionTaskStage

(***************************************************************************)
(* A task completes on its merit: at that moment each criterion of the     *)
(* contract in force has evidence of that contract, verified and intact,   *)
(* on one commit, and an accepting verdict is in force.                    *)
(***************************************************************************)
THEOREM TasksCompleteOnMerit == Spec => CompletedOnMerit
<1> DEFINE Merit == task.status # "COMPLETED" /\ task'.status = "COMPLETED" =>
                      /\ \E c \in Commit : Proven(c)
                      /\ \E i \in DOMAIN verdicts :
                           /\ verdicts[i].status = "CURRENT"
                           /\ verdicts[i].decision = "ACCEPT"
<1>1. Inv /\ [Next]_vars => Merit
  <2> SUFFICES ASSUME Inv, [Next]_vars, task.status # "COMPLETED",
                      task'.status = "COMPLETED"
               PROVE  Accepted
    BY AcceptedIsProven
  <2>1. LastStage(task.workflow) \in Successor(task.stage) /\ GuardsHold(task.stage)
    BY OnlyTransitionCompletes
  <2> QED BY <2>1, LastIsGated DEF GuardsHold
<1>2. Spec => [][Merit]_vars
  BY <1>1, InitInv, NextInv, PTL DEF Spec
<1> QED BY <1>2 DEF CompletedOnMerit

(***************************************************************************)
(* A task that has ended stays as it is until it is reopened, at a stage   *)
(* that is not the last one and with no verdict in force.                  *)
(***************************************************************************)
THEOREM EndedTasksAreClosed == Spec => TerminalIsClosed
<1> DEFINE Closed == task.status \in Terminal =>
                       \/ UNCHANGED <<task, records>>
                       \/ /\ task'.status = "OPEN"
                          /\ task'.stage # LastStage(task'.workflow)
                          /\ \A i \in DOMAIN verdicts' : verdicts'[i].status # "CURRENT"
<1>1. Inv /\ [Next]_vars => Closed
  <2> SUFFICES ASSUME Inv, [Next]_vars, task.status \in Terminal
               PROVE  \/ UNCHANGED <<task, records>>
                      \/ /\ task'.status = "OPEN"
                         /\ task'.stage # LastStage(task'.workflow)
                         /\ \A i \in DOMAIN verdicts' : verdicts'[i].status # "CURRENT"
    OBVIOUS
  <2>1. ~CreateTask /\ ~Admits
    BY DEF CreateTask, Admits, Terminal
  <2>2. CASE \E stage \in StagesOf(task.workflow) : ReopenTask(stage)
    <3>1. PICK stage \in StagesOf(task.workflow) : ReopenTask(stage)
      BY <2>2
    <3>2. verdicts' = Marked("STALE") /\ NoneInForce(Marked("STALE"))
      BY <3>1, MarkedIs DEF ReopenTask, Inv, TypeOK
    <3>3. task \in Task
      BY TypeIs DEF Inv, TaskTyped
    <3>4. /\ task'.status = "OPEN" /\ task'.stage = stage
          /\ task'.workflow = task.workflow /\ stage # LastStage(task.workflow)
      BY <3>1, <3>3 DEF ReopenTask, Task
    <3> QED BY <3>2, <3>4 DEF NoneInForce
  <2>3. CASE \E i \in DOMAIN evidence : ArtifactChanges(i)
    BY <2>3 DEF ArtifactChanges
  <2>4. CASE UNCHANGED vars
    BY <2>4 DEF vars
  <2> QED BY <2>1, <2>2, <2>3, <2>4 DEF Next
<1>2. Spec => [][Closed]_vars
  BY <1>1, InitInv, NextInv, PTL DEF Spec
<1> QED BY <1>2 DEF TerminalIsClosed
=============================================================================
