------------------------ MODULE CompletionSagaProofs ------------------------
(***************************************************************************)
(* Proofs about CompletionSaga, for any number of workers and of crashes,  *)
(* whatever the others do to the task.                                     *)
(***************************************************************************)
EXTENDS CompletionSaga, TLAPS

Verified == task.evidence \in {"VERIFIED", "INVALIDATED"}

InReview == task.stage \in {"review", "merge"}

(***************************************************************************)
(* What a record of the saga says is so, be it the one on record or a      *)
(* worker's copy of it, which may be written again later.                  *)
(***************************************************************************)
IsTrue(record) ==
  /\ record.package => saga.package
  /\ record.outcome = "COMPLETED" =>
       exec = "COMPLETED" /\ record.package /\ Verified /\ InReview
  /\ record.outcome = "ABORTED" => exec = "INTERRUPTED"

RecordsAreTrue == IsTrue(saga) /\ \A w \in Worker : IsTrue(memory[w])

(***************************************************************************)
(* How far a worker has come, so far has the execution and its task.       *)
(***************************************************************************)
PastVerify == {"stage1", "verification", "stage2", "review", "done"}

StepsAreDone ==
  \A w \in Worker :
    /\ at[w] # "idle" => exec = "COMPLETED"
    /\ at[w] \notin {"idle", "package"} => memory[w].package
    /\ at[w] \in PastVerify => Verified
    /\ at[w] = "done" => InReview

(***************************************************************************)
(* A success on record is of a step that was done.                         *)
(***************************************************************************)
ReceiptsAreTrue ==
  /\ receipts["verify"].ok => Verified
  /\ receipts["review"].ok => InReview

(***************************************************************************)
(* A worker that is going to record the evidence has seen none; if the     *)
(* task has the version that it saw, there still is none.                  *)
(***************************************************************************)
SeenIsPast ==
  \A w \in Worker :
    /\ view[w][1] <= task.version
    /\ at[w] = "record" /\ view[w][1] = task.version => task.evidence = "none"

Bit(key) == IF receipts[key].ok THEN 1 ELSE 0

VersionsAreCounted ==
  task.version <= MaxVersion + Bit("record") + Bit("verify") + Bit("verification") + Bit("review")

SagaInv ==
  /\ SagaTypeOK /\ RecordsAreTrue /\ StepsAreDone /\ ReceiptsAreTrue /\ SeenIsPast
  /\ VersionsAreCounted

-----------------------------------------------------------------------------
Task == [version : 0..LastVersion, stage : Stage,
         status : {"OPEN", "BLOCKED", "CANCELLED"}, contract : BOOLEAN,
         required : BOOLEAN,
         evidence : {"none", "RECORDED", "VERIFIED", "INVALIDATED"}]

Receipt == {NoReceipt} \cup [hash : (0..LastVersion) \X Stage, ok : BOOLEAN]

Pc == Key \cup {"idle", "package", "evidence", "stage1", "stage2", "done"}

LEMMA Types ==
  SagaTypeOK <=>
    /\ exec \in {"RUNNING", "COMPLETED", "INTERRUPTED"}
    /\ saga \in Saga /\ task \in Task
    /\ receipts \in [Key -> Receipt]
    /\ at \in [Worker -> Pc] /\ memory \in [Worker -> Saga]
    /\ view \in [Worker -> (0..LastVersion) \X Stage]
    /\ crashes \in 0..MaxCrashes
BY DEF SagaTypeOK, Task, Receipt, Pc

(***************************************************************************)
(* How a task may change: evidence that was verified stays so or becomes   *)
(* invalid, and a task does not come back from its review.  With the first *)
(* clause, what somebody has seen of the task is outdated.                 *)
(***************************************************************************)
TaskMoves ==
  /\ task' \in Task /\ task'.version = task.version + 1
  /\ Verified => Verified'
  /\ InReview => InReview'

LEMMA InterfereMoves ==
  ASSUME task \in Task, NEW kind, Interfere(kind)
  PROVE  /\ TaskMoves /\ task.version < MaxVersion
         /\ task.stage = "verification" => task'.stage = "verification"
<1>1. MaxVersion \in Nat /\ kind \in {"touch", "block", "supersede", "supply", "cancel",
                                      "advance", "invalidate"}
  BY SagaConstants DEF Interfere
<1>2. task.version < MaxVersion /\ task.version + 1 \in 0..LastVersion
  BY <1>1 DEF Interfere, Task, LastVersion
<1>3. ASSUME NEW after \in Task, after.version = task.version,
             task' = [after EXCEPT !.version = @ + 1],
             after.evidence = task.evidence \/
               (task.evidence \in {"RECORDED", "VERIFIED"} /\ after.evidence = "INVALIDATED"),
             after.stage = task.stage \/ (task.stage = "review" /\ after.stage = "merge")
      PROVE  TaskMoves /\ (task.stage = "verification" => task'.stage = "verification")
  <2>1. /\ task' \in Task /\ task'.version = task.version + 1
        /\ task'.evidence = after.evidence /\ task'.stage = after.stage
    BY <1>2, <1>3 DEF Task
  <2> QED BY <1>3, <2>1 DEF TaskMoves, Verified, InReview
<1>4. CASE kind = "touch"
  <2>1. task' = [task EXCEPT !.version = @ + 1]
    BY <1>4 DEF Interfere
  <2> QED BY <1>2, <1>3, <2>1
<1>5. CASE kind = "block"
  <2>1. PICK s \in {"OPEN", "BLOCKED"} :
          task' = [[task EXCEPT !.status = s] EXCEPT !.version = @ + 1]
    BY <1>5 DEF Interfere
  <2> DEFINE after == [task EXCEPT !.status = s]
  <2>2. /\ after \in Task /\ after.version = task.version /\ after.evidence = task.evidence
        /\ after.stage = task.stage
    BY DEF Task
  <2> QED BY <1>2, <1>3, <2>1, <2>2
<1>6. CASE kind = "supersede"
  <2> DEFINE after == [task EXCEPT !.contract = FALSE]
  <2>1. task' = [after EXCEPT !.version = @ + 1]
    BY <1>6 DEF Interfere
  <2>2. /\ after \in Task /\ after.version = task.version /\ after.evidence = task.evidence
        /\ after.stage = task.stage
    BY DEF Task
  <2> QED BY <1>2, <1>3, <2>1, <2>2
<1>7. CASE kind = "supply"
  <2> DEFINE after == [task EXCEPT !.required = ~@]
  <2>1. task' = [after EXCEPT !.version = @ + 1]
    BY <1>7 DEF Interfere
  <2>2. /\ after \in Task /\ after.version = task.version /\ after.evidence = task.evidence
        /\ after.stage = task.stage
    BY DEF Task
  <2> QED BY <1>2, <1>3, <2>1, <2>2
<1>8. CASE kind = "cancel"
  <2> DEFINE after == [task EXCEPT !.status = "CANCELLED"]
  <2>1. task' = [after EXCEPT !.version = @ + 1]
    BY <1>8 DEF Interfere
  <2>2. /\ after \in Task /\ after.version = task.version /\ after.evidence = task.evidence
        /\ after.stage = task.stage
    BY DEF Task
  <2> QED BY <1>2, <1>3, <2>1, <2>2
<1>9. CASE kind = "advance"
  <2> DEFINE after == [task EXCEPT !.stage = "merge"]
  <2>1. task.stage = "review" /\ task' = [after EXCEPT !.version = @ + 1]
    BY <1>9 DEF Interfere
  <2>2. /\ after \in Task /\ after.version = task.version /\ after.evidence = task.evidence
        /\ after.stage = "merge"
    BY DEF Task, Stage
  <2> QED BY <1>2, <1>3, <2>1, <2>2
<1>10. CASE kind = "invalidate"
  <2> DEFINE after == [task EXCEPT !.evidence = "INVALIDATED"]
  <2>1. /\ task.evidence \in {"RECORDED", "VERIFIED"}
        /\ task' = [after EXCEPT !.version = @ + 1]
    BY <1>10 DEF Interfere
  <2>2. /\ after \in Task /\ after.version = task.version /\ after.evidence = "INVALIDATED"
        /\ after.stage = task.stage
    BY DEF Task
  <2> QED BY <1>2, <1>3, <2>1, <2>2
<1> QED BY <1>1, <1>2, <1>4, <1>5, <1>6, <1>7, <1>8, <1>9, <1>10

(***************************************************************************)
(* The command of a key, when the bus allows it.                           *)
(***************************************************************************)
LEMMA EffectMoves ==
  ASSUME task \in Task, NEW key \in Key, Allowed(key), task' = Effect(key),
         task.version + 1 \in 0..LastVersion,
         key = "record" => task.evidence = "none"
  PROVE  /\ TaskMoves
         /\ key = "verify" => Verified'
         /\ key = "review" => InReview'
         /\ task.stage = "verification" /\ task'.stage = "review" => key = "review"
<1> DEFINE changed == [task EXCEPT !.version = @ + 1]
<1>1. /\ changed \in Task /\ changed.version = task.version + 1
      /\ changed.evidence = task.evidence /\ changed.stage = task.stage
  BY DEF Task
<1> HIDE DEF changed
<1>2. CASE key = "record"
  <2>1. task' = [changed EXCEPT !.evidence = "RECORDED"]
    BY <1>2 DEF Effect, changed
  <2>2. /\ task' \in Task /\ task'.version = changed.version /\ task'.stage = changed.stage
    BY <1>1, <2>1 DEF Task
  <2> QED BY <1>1, <1>2, <2>2 DEF TaskMoves, Verified, InReview
<1>3. CASE key = "verify"
  <2>1. task' = [changed EXCEPT !.evidence = "VERIFIED"]
    BY <1>3 DEF Effect, changed
  <2>2. /\ task' \in Task /\ task'.version = changed.version /\ task'.stage = changed.stage
        /\ task'.evidence = "VERIFIED"
    BY <1>1, <2>1 DEF Task
  <2> QED BY <1>1, <1>3, <2>2 DEF TaskMoves, Verified, InReview
<1>4. CASE key \in {"verification", "review"}
  <2>1. task' = [changed EXCEPT !.stage = key]
    BY <1>4 DEF Effect, changed
  <2>2. /\ task' \in Task /\ task'.version = changed.version /\ task'.stage = key
        /\ task'.evidence = changed.evidence
    BY <1>1, <1>4, <2>1 DEF Task, Stage
  <2> QED BY <1>1, <1>4, <2>2 DEF TaskMoves, Verified, InReview, Allowed
<1> QED BY <1>2, <1>3, <1>4 DEF Key

-----------------------------------------------------------------------------
(* The invariant. *)

(***************************************************************************)
(* What is so stays so: an execution that has ended, a package, a verified *)
(* evidence and a review.                                                  *)
(***************************************************************************)
Grows ==
  /\ exec # "RUNNING" => exec' = exec
  /\ saga.package => saga'.package
  /\ Verified => Verified'
  /\ InReview => InReview'

LEMMA TrueStays ==
  ASSUME Grows, NEW r, IsTrue(r)
  PROVE  IsTrue(r)'
BY DEF Grows, IsTrue

LEMMA RecordsStayTrue ==
  ASSUME RecordsAreTrue, Grows, saga' = saga \/ IsTrue(saga)',
         \A w \in Worker : memory'[w] = memory[w] \/ memory'[w] = saga'
  PROVE  RecordsAreTrue'
<1>1. IsTrue(saga)'
  <2>1. CASE saga' = saga
    BY <2>1, TrueStays DEF RecordsAreTrue, IsTrue
  <2> QED BY <2>1
<1>2. ASSUME NEW w \in Worker PROVE IsTrue(memory[w])'
  <2>1. CASE memory'[w] = memory[w]
    <3>1. IsTrue(memory[w])
      BY DEF RecordsAreTrue
    <3> QED BY <2>1, <3>1 DEF Grows, IsTrue
  <2>2. CASE memory'[w] = saga'
    BY <1>1, <2>2 DEF IsTrue
  <2> QED BY <2>1, <2>2
<1> QED BY <1>1, <1>2 DEF RecordsAreTrue

(***************************************************************************)
(* A step that leaves the task alone and moves no worker.                  *)
(***************************************************************************)
LEMMA IdleKeeps ==
  ASSUME SagaInv, SagaTypeOK', Grows, saga' = saga \/ IsTrue(saga)',
         UNCHANGED <<task, receipts, at, memory, view>>
  PROVE  SagaInv'
<1>1. RecordsAreTrue'
  BY RecordsStayTrue DEF SagaInv
<1> QED BY <1>1 DEF SagaInv, StepsAreDone, ReceiptsAreTrue, SeenIsPast, VersionsAreCounted,
                    Bit, Grows, Verified, InReview

LEMMA ExecutionKeeps ==
  ASSUME SagaInv, Prepare \/ CompleteExecution \/ Interrupt
  PROVE  SagaInv'
<1>1. CASE Prepare
  <2>1. saga \in Saga /\ saga'.package = saga.package /\ saga'.outcome = saga.outcome
        /\ saga' \in Saga
    BY <1>1 DEF Prepare, SagaInv, SagaTypeOK, Saga
  <2>2. SagaTypeOK' /\ Grows
    BY <1>1, <2>1 DEF Prepare, SagaInv, SagaTypeOK, Grows, Verified, InReview
  <2>3. IsTrue(saga)'
    BY <1>1, <2>1 DEF Prepare, SagaInv, RecordsAreTrue, IsTrue, Verified, InReview
  <2> QED BY <1>1, <2>2, <2>3, IdleKeeps DEF Prepare
<1>2. CASE CompleteExecution \/ Interrupt
  <2>1. SagaTypeOK' /\ Grows
    BY <1>2 DEF CompleteExecution, Interrupt, SagaInv, SagaTypeOK, Grows, Verified, InReview
  <2> QED BY <1>2, <2>1, IdleKeeps DEF CompleteExecution, Interrupt
<1> QED BY <1>1, <1>2

LEMMA InterfereKeeps ==
  ASSUME SagaInv, NEW kind \in Interference, Interfere(kind)
  PROVE  SagaInv'
<1>1. /\ TaskMoves /\ task.version < MaxVersion /\ task.version \in Nat
      /\ UNCHANGED <<exec, saga, receipts, at, memory, view, crashes>>
  <2>1. task \in Task /\ MaxVersion \in Nat
    BY Types, SagaConstants DEF SagaInv
  <2>2. task.version \in Nat
    BY <2>1 DEF Task, LastVersion
  <2>3. TaskMoves /\ task.version < MaxVersion
    BY <2>1, InterfereMoves
  <2>4. UNCHANGED <<exec, saga, receipts, at, memory, view, crashes>>
    BY DEF Interfere
  <2> QED BY <2>2, <2>3, <2>4
<1>2. SagaTypeOK'
  BY <1>1 DEF SagaInv, SagaTypeOK, TaskMoves, Task
<1>3. RecordsAreTrue'
  BY <1>1, RecordsStayTrue DEF SagaInv, Grows, TaskMoves
<1>4. StepsAreDone' /\ ReceiptsAreTrue'
  BY <1>1 DEF SagaInv, StepsAreDone, ReceiptsAreTrue, TaskMoves
<1>5. \A w \in Worker : view[w][1] \in Nat
  BY DEF SagaInv, SagaTypeOK
<1>6. SeenIsPast'
  BY <1>1, <1>5 DEF SagaInv, SeenIsPast, TaskMoves
<1>7. \A k : Bit(k)' = Bit(k) /\ Bit(k) \in {0, 1}
  BY <1>1 DEF Bit
<1>8. VersionsAreCounted'
  BY <1>1, <1>7, SagaConstants DEF VersionsAreCounted, TaskMoves
<1> QED BY <1>2, <1>3, <1>4, <1>6, <1>8 DEF SagaInv

(***************************************************************************)
(* A worker's step that leaves the task alone and adds no success to the   *)
(* receipts: what its new place says has to be so already.                 *)
(***************************************************************************)
LEMMA WorkerKeeps ==
  ASSUME SagaInv, NEW w \in Worker, NEW step \in Pc,
         at' = [at EXCEPT ![w] = step],
         UNCHANGED <<exec, task>>, crashes' \in 0..MaxCrashes,
         receipts' \in [Key -> Receipt],
         \A key \in Key : receipts'[key].ok = receipts[key].ok,
         \/ UNCHANGED <<saga, memory>>
         \/ /\ saga' \in Saga /\ IsTrue(saga)' /\ (saga.package => saga'.package)
            /\ memory' = [memory EXCEPT ![w] = saga'],
         view' = view \/ view' = [view EXCEPT ![w] = <<task.version, task.stage>>],
         step = "record" => task.evidence = "none",
         step # "idle" => exec = "COMPLETED",
         step \notin {"idle", "package"} => memory'[w].package,
         step \in PastVerify => Verified,
         step = "done" => InReview
  PROVE  SagaInv'
<1>1. /\ at \in [Worker -> Pc] /\ memory \in [Worker -> Saga] /\ task \in Task
      /\ view \in [Worker -> (0..LastVersion) \X Stage] /\ LastVersion \in Nat
  BY Types, SagaConstants DEF SagaInv, LastVersion
<1>2. Grows
  BY DEF Grows, Verified, InReview
<1>3. \A v \in Worker : memory'[v] = memory[v] \/ memory'[v] = saga'
  BY <1>1
<1>4. RecordsAreTrue'
  BY <1>2, <1>3, RecordsStayTrue DEF SagaInv
<1>5. memory' \in [Worker -> Saga] /\ at' \in [Worker -> Pc] /\ saga' \in Saga
  BY <1>1 DEF SagaInv, SagaTypeOK
<1>6. /\ view' \in [Worker -> (0..LastVersion) \X Stage]
      /\ \A v \in Worker : view'[v] = view[v] \/ (v = w /\ view'[v][1] = task.version)
  BY <1>1 DEF Task
<1>7. SagaTypeOK'
  BY <1>1, <1>5, <1>6 DEF SagaInv, SagaTypeOK, Pc, Receipt
<1>8. \A v \in Worker : v # w => at'[v] = at[v] /\ memory'[v] = memory[v]
  BY <1>1
<1>9. at'[w] = step
  BY <1>1
<1>10. Verified' = Verified /\ InReview' = InReview
  BY DEF Verified, InReview
<1>11. StepsAreDone'
  BY <1>8, <1>9, <1>10 DEF SagaInv, StepsAreDone
<1>12. SeenIsPast'
  <2>1. task.version \in Nat
    BY <1>1 DEF Task
  <2> QED BY <1>1, <1>6, <1>8, <1>9, <2>1 DEF SagaInv, SeenIsPast
<1>13. ReceiptsAreTrue' /\ VersionsAreCounted'
  BY <1>10 DEF SagaInv, ReceiptsAreTrue, VersionsAreCounted, Bit, Key
<1> QED BY <1>4, <1>7, <1>11, <1>12, <1>13 DEF SagaInv

LEMMA BeginKeeps ==
  ASSUME SagaInv, NEW w \in Worker, Begin(w)
  PROVE  SagaInv'
<1>1. /\ at \in [Worker -> Pc] /\ saga \in Saga /\ at[w] = "idle" /\ IsTrue(saga)
      /\ receipts \in [Key -> Receipt] /\ crashes \in 0..MaxCrashes
      /\ UNCHANGED <<exec, task, receipts, view, crashes>>
  BY Types DEF SagaInv, RecordsAreTrue, Begin
<1>2. "idle" \in Pc /\ "package" \in Pc
  BY DEF Pc
<1>3. CASE HasFailed /\ saga.status = "PREPARED"
           /\ Save(w, [saga EXCEPT !.status = "DONE", !.outcome = "ABORTED"]) /\ UNCHANGED at
  <2>1. /\ saga' \in Saga /\ saga'.outcome = "ABORTED" /\ saga'.package = saga.package
        /\ memory' = [memory EXCEPT ![w] = saga']
    BY <1>1, <1>3 DEF Save, Saga
  <2>2. IsTrue(saga)'
    BY <1>1, <1>3, <2>1 DEF IsTrue, HasFailed
  <2>3. at' = [at EXCEPT ![w] = "idle"]
    BY <1>1, <1>3
  <2> QED BY <1>1, <1>2, <2>1, <2>2, <2>3, WorkerKeeps DEF PastVerify
<1>4. CASE exec = "COMPLETED" /\ MoveTo(w, "package")
           /\ Save(w, [saga EXCEPT !.status = "EXECUTION_COMPLETED"])
  <2>1. /\ saga' \in Saga /\ saga'.outcome = saga.outcome /\ saga'.package = saga.package
        /\ memory' = [memory EXCEPT ![w] = saga']
    BY <1>1, <1>4 DEF Save, Saga
  <2>2. IsTrue(saga)'
    BY <1>1, <2>1 DEF IsTrue, Verified, InReview
  <2>3. at' = [at EXCEPT ![w] = "package"]
    BY <1>4 DEF MoveTo
  <2> QED BY <1>1, <1>2, <1>4, <2>1, <2>2, <2>3, WorkerKeeps DEF PastVerify
<1> QED BY <1>3, <1>4 DEF Begin

LEMMA PackageKeeps ==
  ASSUME SagaInv, NEW w \in Worker, Package(w)
  PROVE  SagaInv'
<1>1. /\ memory \in [Worker -> Saga] /\ at[w] = "package" /\ IsTrue(memory[w])
      /\ receipts \in [Key -> Receipt] /\ crashes \in 0..MaxCrashes
      /\ UNCHANGED <<exec, task, receipts, view, crashes>>
      /\ at' = [at EXCEPT ![w] = "evidence"]
  BY Types DEF SagaInv, RecordsAreTrue, Package, MoveTo
<1>2. "evidence" \in Pc /\ exec = "COMPLETED"
  BY <1>1 DEF Pc, SagaInv, StepsAreDone
<1>3. CASE memory[w].package
  <2>1. UNCHANGED <<saga, memory>>
    BY <1>3 DEF Package
  <2> QED BY <1>1, <1>2, <1>3, <2>1, WorkerKeeps DEF PastVerify
<1>4. CASE ~memory[w].package
  <2>1. /\ saga' = [memory[w] EXCEPT !.package = TRUE]
        /\ memory' = [memory EXCEPT ![w] = saga']
    BY <1>4 DEF Package, Save
  <2>2. memory[w] \in Saga
    BY <1>1
  <2>3. saga' \in Saga /\ saga'.outcome = memory[w].outcome /\ saga'.package
    BY <2>1, <2>2 DEF Saga
  <2>4. IsTrue(saga)'
    BY <1>1, <1>4, <2>3 DEF IsTrue, Verified, InReview
  <2>5. memory'[w].package
    BY <1>1, <2>1, <2>3
  <2> QED BY <1>1, <1>2, <2>1, <2>3, <2>4, <2>5, WorkerKeeps DEF PastVerify
<1> QED BY <1>3, <1>4

LEMMA LookKeeps ==
  ASSUME SagaInv, NEW w \in Worker, LookAtTask(w)
  PROVE  SagaInv'
<1>1. /\ task \in Task /\ receipts \in [Key -> Receipt] /\ crashes \in 0..MaxCrashes
      /\ UNCHANGED <<exec, saga, task, receipts, memory, crashes>>
      /\ at[w] \in {"evidence", "stage1", "stage2"}
  BY Types DEF SagaInv, LookAtTask
<1>2. /\ exec = "COMPLETED" /\ memory[w].package
      /\ at[w] \in {"stage1", "stage2"} => Verified
  BY <1>1 DEF SagaInv, StepsAreDone, PastVerify
<1>3. ASSUME NEW step \in Pc, at' = [at EXCEPT ![w] = step],
             \/ view' = view
             \/ view' = [view EXCEPT ![w] = <<task.version, task.stage>>],
             step = "record" => task.evidence = "none",
             step # "idle", step # "package",
             step \in PastVerify => Verified,
             step = "done" => InReview
      PROVE  SagaInv'
  BY <1>1, <1>2, <1>3, WorkerKeeps
<1>4. CASE at[w] = "evidence" /\ task.evidence = "none"
  <2>1. /\ at' = [at EXCEPT ![w] = "record"]
        /\ view' = [view EXCEPT ![w] = <<task.version, task.stage>>]
    BY <1>4 DEF LookAtTask, MoveTo
  <2>2. "record" \in Pc /\ "record" \notin PastVerify
    BY DEF Pc, Key, PastVerify
  <2> QED BY <1>3, <1>4, <2>1, <2>2
<1>5. CASE at[w] = "evidence" /\ task.evidence \in {"RECORDED", "INVALIDATED"}
  <2>1. /\ at' = [at EXCEPT ![w] = "verify"]
        /\ view' = [view EXCEPT ![w] = <<task.version, task.stage>>]
    BY <1>5 DEF LookAtTask, MoveTo
  <2>2. "verify" \in Pc /\ "verify" \notin PastVerify
    BY DEF Pc, Key, PastVerify
  <2> QED BY <1>3, <2>1, <2>2
<1>6. CASE at[w] = "evidence" /\ task.evidence = "VERIFIED"
  <2>1. at' = [at EXCEPT ![w] = "stage1"] /\ view' = view
    BY <1>6 DEF LookAtTask, MoveTo
  <2>2. "stage1" \in Pc /\ Verified
    BY <1>6 DEF Pc, Verified
  <2> QED BY <1>3, <2>1, <2>2
<1>7. CASE at[w] = "stage1"
  <2>1. CASE Reached(w)
    <3>1. at' = [at EXCEPT ![w] = "stage2"] /\ view' = view
      BY <1>7, <2>1 DEF LookAtTask, MoveTo
    <3>2. "stage2" \in Pc
      BY DEF Pc
    <3> QED BY <1>2, <1>3, <1>7, <3>1, <3>2
  <2>2. CASE ~Reached(w)
    <3>1. /\ at' = [at EXCEPT ![w] = "verification"]
          /\ view' = [view EXCEPT ![w] = <<task.version, task.stage>>]
      BY <1>7, <2>2 DEF LookAtTask, MoveTo
    <3>2. "verification" \in Pc
      BY DEF Pc, Key
    <3> QED BY <1>2, <1>3, <1>7, <3>1, <3>2
  <2> QED BY <2>1, <2>2
<1>8. CASE at[w] = "stage2"
  <2>1. CASE Reached(w)
    <3>1. at' = [at EXCEPT ![w] = "done"] /\ view' = view
      BY <1>8, <2>1 DEF LookAtTask, MoveTo
    <3>2. "done" \in Pc /\ InReview
      BY <1>8, <2>1 DEF Pc, Reached, InReview
    <3> QED BY <1>2, <1>3, <1>8, <3>1, <3>2
  <2>2. CASE ~Reached(w)
    <3>1. /\ at' = [at EXCEPT ![w] = "review"]
          /\ view' = [view EXCEPT ![w] = <<task.version, task.stage>>]
      BY <1>8, <2>2 DEF LookAtTask, MoveTo
    <3>2. "review" \in Pc
      BY DEF Pc, Key
    <3> QED BY <1>2, <1>3, <1>8, <3>1, <3>2
  <2> QED BY <2>1, <2>2
<1> QED BY <1>1, <1>4, <1>5, <1>6, <1>7, <1>8 DEF Task

(***************************************************************************)
(* Where a worker goes when its command succeeded, now or before.          *)
(***************************************************************************)
LEMMA AfterIsNext ==
  ASSUME NEW key \in Key
  PROVE  /\ After(key) \in Pc \ {"idle", "package"}
         /\ After(key) # "record"
         /\ After(key) \in PastVerify <=> key # "record"
         /\ After(key) = "done" <=> key = "review"
         /\ key \in PastVerify <=> key \in {"verification", "review"}
BY DEF After, Key, Pc, PastVerify

(***************************************************************************)
(* The command is not carried out: the worker finds an earlier result, or  *)
(* is refused.                                                             *)
(***************************************************************************)
LEMMA NothingDoneKeeps ==
  ASSUME SagaInv, NEW w \in Worker, Execute(w),
         receipts[at[w]] # NoReceipt \/ ~(view[w][1] = task.version /\ Allowed(at[w]))
  PROVE  SagaInv'
<1> DEFINE key == at[w]
<1>1. /\ at \in [Worker -> Pc] /\ receipts \in [Key -> Receipt] /\ key \in Key
      /\ crashes \in 0..MaxCrashes
      /\ UNCHANGED <<exec, saga, memory, view, crashes>>
      /\ view[w] \in (0..LastVersion) \X Stage
  BY Types DEF SagaInv, Execute
<1>2. /\ exec = "COMPLETED" /\ memory[w].package
      /\ key \in PastVerify => Verified
  BY <1>1 DEF SagaInv, StepsAreDone, Key
<1>3. "idle" \in Pc /\ "idle" \notin PastVerify
  BY DEF Pc, PastVerify
<1>4. CASE receipts[key] # NoReceipt /\ Replayed(key, view[w])
  <2>1. UNCHANGED <<task, receipts>> /\ at' = [at EXCEPT ![w] = After(key)]
    BY <1>4 DEF Execute, MoveTo
  <2>2. receipts[key].ok
    BY <1>4 DEF Replayed
  <2>3. key # "record" => Verified
    BY <1>1, <1>2, <2>2, AfterIsNext DEF SagaInv, ReceiptsAreTrue, Key
  <2>4. key = "review" => InReview
    BY <2>2 DEF SagaInv, ReceiptsAreTrue
  <2> QED BY <1>1, <1>2, <2>1, <2>3, <2>4, AfterIsNext, WorkerKeeps
<1>5. CASE receipts[key] # NoReceipt /\ ~Replayed(key, view[w])
  <2>1. UNCHANGED <<task, receipts>> /\ at' = [at EXCEPT ![w] = "idle"]
    BY <1>5 DEF Execute, MoveTo
  <2> QED BY <1>1, <1>3, <2>1, WorkerKeeps
<1>6. CASE receipts[key] = NoReceipt
  <2> DEFINE refused == [hash |-> view[w], ok |-> FALSE]
  <2>1. ~(view[w][1] = task.version /\ Allowed(key))
    BY <1>6
  <2>2. /\ receipts' = [receipts EXCEPT ![key] = refused] /\ task' = task
        /\ at' = [at EXCEPT ![w] = "idle"]
    BY <1>6, <2>1 DEF Execute, MoveTo
  <2>3. refused \in Receipt /\ refused.ok = FALSE /\ receipts[key].ok = FALSE
    BY <1>1, <1>6 DEF Receipt, NoReceipt
  <2> HIDE DEF refused
  <2>4. /\ receipts' \in [Key -> Receipt]
        /\ \A k \in Key : receipts'[k].ok = receipts[k].ok
    BY <1>1, <2>2, <2>3
  <2> QED BY <1>1, <1>3, <2>2, <2>4, WorkerKeeps
<1> QED BY <1>4, <1>5, <1>6

(***************************************************************************)
(* The command is carried out.                                             *)
(***************************************************************************)
LEMMA EffectKeeps ==
  ASSUME SagaInv, NEW w \in Worker, Execute(w), receipts[at[w]] = NoReceipt,
         view[w][1] = task.version, Allowed(at[w])
  PROVE  /\ SagaInv'
         /\ task.stage = "verification" /\ task'.stage = "review" => at[w] = "review"
<1>0. PICK key \in Key : key = at[w]
  BY DEF Execute
<1> USE <1>0
<1> DEFINE done == [hash |-> view[w], ok |-> TRUE]
<1>1. /\ at \in [Worker -> Pc] /\ receipts \in [Key -> Receipt] /\ key \in Key
      /\ task \in Task /\ view \in [Worker -> (0..LastVersion) \X Stage]
      /\ UNCHANGED <<exec, saga, memory, view, crashes>>
  BY Types DEF SagaInv, Execute
<1>2. /\ task' = Effect(key) /\ receipts' = [receipts EXCEPT ![key] = done]
      /\ at' = [at EXCEPT ![w] = After(key)]
  BY DEF Execute, MoveTo
<1>3. /\ exec = "COMPLETED" /\ memory[w].package
      /\ key \in PastVerify => Verified
  BY <1>1 DEF SagaInv, StepsAreDone, Key
<1>4. key = "record" => task.evidence = "none"
  BY DEF SagaInv, SeenIsPast
<1>5. done \in Receipt /\ done.ok = TRUE /\ receipts[key].ok = FALSE
  BY <1>1 DEF Receipt, NoReceipt
<1> HIDE DEF done
<1>6. receipts' \in [Key -> Receipt] /\ receipts'[key].ok = TRUE
  BY <1>1, <1>2, <1>5
<1>7. \A k \in Key \ {key} : receipts'[k] = receipts[k]
  BY <1>1, <1>2
<1>8. /\ MaxVersion \in Nat /\ LastVersion = MaxVersion + 4 /\ task.version \in Nat
      /\ \A k \in Key : /\ Bit(k) \in {0, 1} /\ Bit(k)' \in {0, 1}
                        /\ k # key => Bit(k)' = Bit(k)
      /\ Bit(key) = 0 /\ Bit(key)' = 1
  <2>1. MaxVersion \in Nat /\ LastVersion = MaxVersion + 4
    BY SagaConstants DEF LastVersion
  <2>2. task.version \in Nat
    BY <1>1, <2>1 DEF Task
  <2>3. /\ \A k \in Key : /\ Bit(k) \in {0, 1} /\ Bit(k)' \in {0, 1}
                          /\ k # key => Bit(k)' = Bit(k)
    BY <1>7 DEF Bit
  <2>4. Bit(key) = 0 /\ Bit(key)' = 1
    BY <1>5, <1>6 DEF Bit
  <2> QED BY <2>1, <2>2, <2>3, <2>4
<1>9. task.version + 1 \in 0..LastVersion
  <2>1. task.version <= MaxVersion + Bit("record") + Bit("verify") + Bit("verification") + Bit("review")
    BY DEF SagaInv, VersionsAreCounted
  <2> QED BY <1>1, <1>8, <2>1 DEF Key
<1>10. /\ TaskMoves
       /\ key = "verify" => Verified'
       /\ key = "review" => InReview'
       /\ task.stage = "verification" /\ task'.stage = "review" => key = "review"
  BY <1>1, <1>2, <1>4, <1>9, EffectMoves
<1>11. SagaTypeOK'
  <2>1. at' \in [Worker -> Pc]
    BY <1>1, <1>2, AfterIsNext
  <2> QED BY <1>1, <1>6, <1>10, <2>1 DEF SagaInv, SagaTypeOK, TaskMoves, Task, Pc, Receipt
<1>12. RecordsAreTrue'
  BY <1>1, <1>10, RecordsStayTrue DEF SagaInv, Grows, TaskMoves
<1>13. \A v \in Worker : v # w => at'[v] = at[v]
  BY <1>1, <1>2
<1>14. at'[w] = After(key)
  BY <1>1, <1>2
<1>15. StepsAreDone'
  <2>1. ASSUME NEW v \in Worker, v # w
        PROVE  /\ at'[v] # "idle" => exec' = "COMPLETED"
               /\ at'[v] \notin {"idle", "package"} => memory'[v].package
               /\ at'[v] \in PastVerify => Verified'
               /\ at'[v] = "done" => InReview'
    BY <1>1, <1>10, <1>13, <2>1 DEF SagaInv, StepsAreDone, TaskMoves
  <2>2. key # "record" => Verified'
    BY <1>1, <1>3, <1>10, AfterIsNext DEF Key, TaskMoves
  <2>3. /\ at'[w] # "idle" => exec' = "COMPLETED"
        /\ at'[w] \notin {"idle", "package"} => memory'[w].package
        /\ at'[w] \in PastVerify => Verified'
        /\ at'[w] = "done" => InReview'
    BY <1>1, <1>3, <1>10, <1>14, <2>2, AfterIsNext
  <2> QED BY <2>1, <2>3 DEF StepsAreDone
<1>16. ReceiptsAreTrue'
  <2>1. "verify" \in Key /\ "review" \in Key
    BY DEF Key
  <2> QED BY <1>7, <1>10, <2>1 DEF SagaInv, ReceiptsAreTrue, TaskMoves
<1>17. SeenIsPast'
  <2>1. \A v \in Worker : view[v][1] \in Nat /\ view[v][1] <= task.version /\ view'[v] = view[v]
    BY <1>1, <1>8 DEF SagaInv, SeenIsPast
  <2>2. task'.version = task.version + 1
    BY <1>10 DEF TaskMoves
  <2> QED BY <1>8, <2>1, <2>2 DEF SeenIsPast
<1>18. VersionsAreCounted'
  <2>1. task.version <= MaxVersion + Bit("record") + Bit("verify") + Bit("verification") + Bit("review")
    BY DEF SagaInv, VersionsAreCounted
  <2>2. task'.version = task.version + 1
    BY <1>10 DEF TaskMoves
  <2>3. task'.version <= MaxVersion + Bit("record")' + Bit("verify")' + Bit("verification")' + Bit("review")'
    BY <1>1, <1>8, <2>1, <2>2 DEF Key
  <2> QED BY <2>3 DEF VersionsAreCounted
<1> QED BY <1>10, <1>11, <1>12, <1>15, <1>16, <1>17, <1>18 DEF SagaInv

LEMMA FinishKeeps ==
  ASSUME SagaInv, NEW w \in Worker, Finish(w)
  PROVE  SagaInv'
<1>1. /\ memory[w] \in Saga /\ at[w] = "done" /\ IsTrue(memory[w])
      /\ receipts \in [Key -> Receipt] /\ crashes \in 0..MaxCrashes
      /\ UNCHANGED <<exec, task, receipts, view, crashes>>
      /\ at' = [at EXCEPT ![w] = "idle"]
      /\ saga' = [memory[w] EXCEPT !.status = "DONE", !.outcome = "COMPLETED"]
      /\ memory' = [memory EXCEPT ![w] = saga']
  BY Types DEF SagaInv, RecordsAreTrue, Finish, MoveTo, Save
<1>2. exec = "COMPLETED" /\ memory[w].package /\ Verified /\ InReview
  BY <1>1 DEF SagaInv, StepsAreDone, PastVerify
<1>3. saga' \in Saga /\ saga'.outcome = "COMPLETED" /\ saga'.package
  BY <1>1, <1>2 DEF Saga
<1>4. IsTrue(saga)'
  BY <1>1, <1>2, <1>3 DEF IsTrue, Verified, InReview
<1>5. "idle" \in Pc /\ "idle" \notin PastVerify
  BY DEF Pc, PastVerify
<1> QED BY <1>1, <1>3, <1>4, <1>5, WorkerKeeps

LEMMA CrashKeeps ==
  ASSUME SagaInv, NEW w \in Worker, Crash(w)
  PROVE  SagaInv'
<1>1. /\ receipts \in [Key -> Receipt] /\ crashes \in Nat /\ MaxCrashes \in Nat
      /\ UNCHANGED <<exec, saga, task, receipts, memory, view>>
      /\ at' = [at EXCEPT ![w] = "idle"] /\ crashes < MaxCrashes /\ crashes' = crashes + 1
  BY Types, SagaConstants DEF SagaInv, Crash, MoveTo
<1>2. crashes' \in 0..MaxCrashes
  BY <1>1
<1>3. "idle" \in Pc /\ "idle" \notin PastVerify
  BY DEF Pc, PastVerify
<1> QED BY <1>1, <1>2, <1>3, WorkerKeeps

LEMMA SagaInvInit == SagaInit => SagaInv
<1> SUFFICES ASSUME SagaInit PROVE SagaInv
  OBVIOUS
<1>1. MaxVersion \in Nat /\ MaxCrashes \in Nat /\ LastVersion \in Nat
  BY SagaConstants DEF LastVersion
<1>2. NoSaga \in Saga /\ NoSaga.outcome = "PENDING" /\ NoSaga.package = FALSE
  BY DEF NoSaga, Saga
<1>3. task \in Task /\ task.version = 0
  <2>1. 0 \in 0..LastVersion /\ "execution" \in Stage
    BY <1>1 DEF Stage
  <2>2. task \in [version : {0}, stage : {"execution"}, status : {"OPEN"},
                  contract : {TRUE}, required : BOOLEAN, evidence : {"none"}]
    BY DEF SagaInit
  <2> QED BY <2>1, <2>2 DEF Task
<1>4. SagaTypeOK
  <2>1. view \in [Worker -> (0..LastVersion) \X Stage]
    BY <1>1 DEF SagaInit, Stage
  <2>2. receipts \in [Key -> Receipt] /\ at \in [Worker -> Pc] /\ memory \in [Worker -> Saga]
    BY <1>2 DEF SagaInit, Receipt, Pc
  <2>3. /\ exec \in {"RUNNING", "COMPLETED", "INTERRUPTED"} /\ saga \in Saga
        /\ crashes \in 0..MaxCrashes
    BY <1>1, <1>2 DEF SagaInit
  <2> QED BY <1>3, <2>1, <2>2, <2>3, Types
<1>5. RecordsAreTrue
  BY <1>2 DEF SagaInit, RecordsAreTrue, IsTrue
<1>6. StepsAreDone
  BY DEF SagaInit, StepsAreDone, PastVerify
<1>7. \A key \in Key : ~receipts[key].ok
  BY DEF SagaInit, NoReceipt
<1>8. ReceiptsAreTrue
  BY <1>7 DEF ReceiptsAreTrue, Key
<1>9. SeenIsPast
  BY <1>3 DEF SagaInit, SeenIsPast
<1>10. VersionsAreCounted
  BY <1>1, <1>3, <1>7 DEF VersionsAreCounted, Bit, Key
<1> QED BY <1>4, <1>5, <1>6, <1>8, <1>9, <1>10 DEF SagaInv

LEMMA SagaInvNext == SagaInv /\ [SagaNext]_sagaVars => SagaInv'
<1> SUFFICES ASSUME SagaInv, [SagaNext]_sagaVars PROVE SagaInv'
  OBVIOUS
<1>1. CASE Prepare \/ CompleteExecution \/ Interrupt
  BY <1>1, ExecutionKeeps
<1>2. ASSUME NEW kind \in Interference, Interfere(kind) PROVE SagaInv'
  BY <1>2, InterfereKeeps
<1>3. ASSUME NEW w \in Worker, Step(w) PROVE SagaInv'
  BY <1>3, BeginKeeps, PackageKeeps, LookKeeps, NothingDoneKeeps, EffectKeeps, FinishKeeps DEF Step
<1>4. ASSUME NEW w \in Worker, Crash(w) PROVE SagaInv'
  BY <1>4, CrashKeeps
<1>5. CASE UNCHANGED sagaVars
  BY <1>5, IdleKeeps DEF sagaVars, SagaInv, SagaTypeOK, Grows, Verified, InReview
<1> QED BY <1>1, <1>2, <1>3, <1>4, <1>5 DEF SagaNext

LEMMA SpecKeepsSagaInv == SagaSpec => []SagaInv
BY SagaInvInit, SagaInvNext, PTL DEF SagaSpec

-----------------------------------------------------------------------------
(***************************************************************************)
(* The variables of the saga keep their types; the task's version stays    *)
(* within what the others, and four commands of the saga, may add to it:   *)
(* each of them is carried out once at most (completion-saga.ts).          *)
(***************************************************************************)
THEOREM SagaIsTyped == SagaSpec => []SagaTypeOK
<1>1. SagaInv => SagaTypeOK
  BY DEF SagaInv
<1> QED BY <1>1, SpecKeepsSagaInv, PTL

(***************************************************************************)
(* A saga that says COMPLETED has done all of its steps, and one that says *)
(* ABORTED is of an execution that failed, for any number of workers that  *)
(* run it at once, wherever they crash and whatever the others do to the   *)
(* task (CompletionSagaService.finalizeExecution and resumePending).       *)
(***************************************************************************)
THEOREM OutcomesAreTrue == SagaSpec => []OutcomeIsTrue
<1>1. SagaInv => OutcomeIsTrue
  BY DEF SagaInv, RecordsAreTrue, IsTrue, Verified, InReview, OutcomeIsTrue
<1> QED BY <1>1, SpecKeepsSagaInv, PTL

(***************************************************************************)
(* No worker takes the task to review before its package was built and     *)
(* verified (CompletionSagaService.transition, for the stage review).      *)
(***************************************************************************)
THEOREM ReviewFollowsEvidence == SagaSpec => ReviewAfterEvidence
<1> DEFINE Moved == task.stage = "verification" /\ task'.stage = "review"
           Reviewed == /\ exec = "COMPLETED" /\ saga.package
                       /\ task.evidence \in {"VERIFIED", "INVALIDATED"}
<1>1. SagaInv /\ [SagaNext]_sagaVars => (Moved => Reviewed)
  <2> SUFFICES ASSUME SagaInv, [SagaNext]_sagaVars, Moved PROVE Reviewed
    OBVIOUS
  <2>1. task \in Task /\ task' # task
    BY Types DEF SagaInv
  <2>2. ASSUME NEW kind \in Interference, Interfere(kind) PROVE FALSE
    BY <2>1, <2>2, InterfereMoves
  <2>3. ASSUME NEW w \in Worker, Execute(w) PROVE Reviewed
    <3>1. /\ receipts[at[w]] = NoReceipt /\ view[w][1] = task.version /\ Allowed(at[w])
      BY <2>1, <2>3 DEF Execute
    <3>2. at[w] = "review"
      BY <2>3, <3>1, EffectKeeps
    <3> QED BY <3>2 DEF SagaInv, RecordsAreTrue, IsTrue, StepsAreDone, PastVerify, Verified
  <2> QED BY <2>1, <2>2, <2>3
          DEF SagaNext, sagaVars, Prepare, CompleteExecution, Interrupt, Step, Begin, Package, LookAtTask, Finish, Crash
<1>2. SagaInv /\ [SagaNext]_sagaVars => [Moved => Reviewed]_sagaVars
  BY <1>1
<1> QED BY <1>2, SpecKeepsSagaInv, PTL DEF SagaSpec, ReviewAfterEvidence
=============================================================================
