------------------------- MODULE ExecutionBusProofs -------------------------
(***************************************************************************)
(* Proofs about ExecutionBus, for every set of executions, attempts,       *)
(* bindings, contracts, events and keys and for every bound.               *)
(***************************************************************************)
EXTENDS ExecutionBus, TLAPS

(***************************************************************************)
(* Both transition graphs stay within their vocabulary.                    *)
(***************************************************************************)
LEMMA ExecutionNextTyped ==
  ASSUME NEW s
  PROVE  ExecutionNext(s) \subseteq ExecutionStatus
BY DEF ExecutionNext

LEMMA AttemptNextTyped ==
  ASSUME NEW s
  PROVE  AttemptNext(s) \subseteq AttemptStatus
BY DEF AttemptNext

(***************************************************************************)
(* A committed command leaves versions, log and stored answers well typed. *)
(***************************************************************************)
LEMMA CommitTyped ==
  ASSUME TypeOK,
         NEW g \in Aggregate, NEW key \in Key \cup {Fresh},
         NEW expected \in 0..MaxVersion,
         NEW runtime \in RuntimeEvent \cup {None},
         Commit(g, key, expected, runtime)
  PROVE  /\ version' \in [Aggregate -> Nat]
         /\ log' \in [Aggregate -> Seq(AuditEvent)]
         /\ idem' \in [Key -> {None, "ok", "failed"}]
<1>1. version' \in [Aggregate -> Nat]
  BY DEF TypeOK, Commit
<1>2. log' \in [Aggregate -> Seq(AuditEvent)]
  <2>1. [key |-> key, expected |-> expected, runtime |-> runtime] \in AuditEvent
    BY Bounds DEF AuditEvent
  <2>2. \A s \in Seq(AuditEvent), x \in AuditEvent : Append(s, x) \in Seq(AuditEvent)
    OBVIOUS
  <2>3. log' = [log EXCEPT ![g] =
                  Append(@, [key |-> key, expected |-> expected, runtime |-> runtime])]
    BY DEF Commit
  <2> QED BY <2>1, <2>2, <2>3 DEF TypeOK
<1>3. idem' \in [Key -> {None, "ok", "failed"}]
  BY DEF TypeOK, Commit, Store
<1> QED BY <1>1, <1>2, <1>3

(***************************************************************************)
(* An attempt that exists belongs to an execution that exists, and an      *)
(* execution's current attempt is one of its own.  The bus relies on it:   *)
(* the version an attempt's transition is checked against is its owner's.  *)
(***************************************************************************)
Owned ==
  /\ \A a \in Attempt : attempt[a].status # "ABSENT" =>
       /\ attempt[a].owner \in Execution
       /\ execution[attempt[a].owner].status # "ABSENT"
  /\ \A e \in Execution : execution[e].current # None =>
       /\ attempt[execution[e].current].status # "ABSENT"
       /\ attempt[execution[e].current].owner = e

Typed == TypeOK /\ Owned

LEMMA InitTyped == Init => Typed
<1> SUFFICES ASSUME Init PROVE Typed
  OBVIOUS
<1>1. NoExecution \in ExecutionRecord /\ NoAttempt \in AttemptRecord
  BY DEF NoExecution, NoAttempt, ExecutionRecord, AttemptRecord
<1>2. TypeOK
  BY <1>1 DEF Init, TypeOK
<1>3. Owned
  BY DEF Init, Owned, NoExecution, NoAttempt
<1> QED BY <1>2, <1>3 DEF Typed

LEMMA TypedStep == Typed /\ [Next]_vars => Typed'
<1> SUFFICES ASSUME Typed, [Next]_vars PROVE Typed'
  OBVIOUS
<1> USE DEF Typed
<1>1. ASSUME NEW c \in Contract \cup {None}, ContractChanges(c)
      PROVE  Typed'
  BY <1>1 DEF ContractChanges, TypeOK, Owned
<1>2. ASSUME NEW key \in Key, Refuse(key)
      PROVE  Typed'
  BY <1>2 DEF Refuse, Store, TypeOK, Owned
<1>3. ASSUME NEW key \in Key, NEW e \in Execution, NEW r \in RuntimeEvent,
             RepeatRuntimeEvent(e, r, key)
      PROVE  Typed'
  BY <1>3 DEF RepeatRuntimeEvent, Store, TypeOK, Owned
<1>4. ASSUME NEW key \in Key \cup {Fresh}, NEW expected \in 0..MaxVersion,
             NEW c \in Contract, NEW budget \in Budget,
             \/ CreateAssignment(c, budget, expected, key)
             \/ ReviseAssignment(c, budget, expected, key)
      PROVE  Typed'
  <2>1. Commit(Assignment, key, expected, None)
    BY <1>4 DEF CreateAssignment, ReviseAssignment
  <2>2. revisions' \in Seq(Revision)
    <3> DEFINE new == [contract |-> c, budget |-> budget]
    <3>1. new \in Revision
      BY DEF Revision
    <3>2. \A s \in Seq(Revision), x \in Revision :
            <<x>> \in Seq(Revision) /\ Append(s, x) \in Seq(Revision)
      OBVIOUS
    <3>3. revisions' = <<new>> \/ revisions' = Append(revisions, new)
      BY <1>4 DEF CreateAssignment, ReviseAssignment
    <3>4. revisions \in Seq(Revision)
      BY DEF TypeOK
    <3> HIDE DEF new
    <3> QED BY <3>1, <3>2, <3>3, <3>4
  <2>3. UNCHANGED <<contract, binding, execution, attempt, receipts>>
    BY <1>4 DEF CreateAssignment, ReviseAssignment
  <2>0. /\ version' \in [Aggregate -> Nat]
        /\ log' \in [Aggregate -> Seq(AuditEvent)]
        /\ idem' \in [Key -> {None, "ok", "failed"}]
    <3>1. Assignment \in Aggregate
      BY DEF Aggregate
    <3> QED BY <2>1, <3>1, CommitTyped
  <2>4. TypeOK'
    BY <2>0, <2>2, <2>3 DEF TypeOK
  <2> QED BY <2>3, <2>4 DEF Owned
<1>5. ASSUME NEW key \in Key \cup {Fresh}, NEW expected \in 0..MaxVersion,
             NEW b \in Binding, NEW revision \in DOMAIN revisions,
             CreateExecutionBinding(b, revision, expected, key)
      PROVE  Typed'
  <2>1. revision \in Nat
    BY DEF TypeOK
  <2>0. /\ version' \in [Aggregate -> Nat]
        /\ log' \in [Aggregate -> Seq(AuditEvent)]
        /\ idem' \in [Key -> {None, "ok", "failed"}]
    <3>1. b \in Aggregate
      BY DEF Aggregate
    <3>2. Commit(b, key, expected, None)
      BY <1>5 DEF CreateExecutionBinding
    <3> QED BY <3>1, <3>2, CommitTyped
  <2>2. TypeOK'
    BY <1>5, <2>1, <2>0 DEF CreateExecutionBinding, TypeOK
  <2> QED BY <1>5, <2>2 DEF CreateExecutionBinding, Owned
<1>6. ASSUME NEW key \in Key \cup {Fresh}, NEW expected \in 0..MaxVersion,
             NEW e \in Execution, NEW b \in Binding, NEW revision \in DOMAIN revisions,
             CreateExecution(e, b, revision, expected, key)
      PROVE  Typed'
  <2>1. [status |-> "CREATED", current |-> None, count |-> 0, revision |-> revision]
          \in ExecutionRecord
    BY DEF TypeOK, ExecutionRecord, ExecutionStatus
  <2>0. /\ version' \in [Aggregate -> Nat]
        /\ log' \in [Aggregate -> Seq(AuditEvent)]
        /\ idem' \in [Key -> {None, "ok", "failed"}]
    <3>1. e \in Aggregate
      BY DEF Aggregate
    <3>2. Commit(e, key, expected, None)
      BY <1>6 DEF CreateExecution
    <3> QED BY <3>1, <3>2, CommitTyped
  <2>2. TypeOK'
    BY <1>6, <2>1, <2>0 DEF CreateExecution, TypeOK
  <2>3. Owned'
    BY <1>6 DEF CreateExecution, TypeOK, Owned
  <2> QED BY <2>2, <2>3
<1>7. ASSUME NEW key \in Key \cup {Fresh}, NEW expected \in 0..MaxVersion,
             NEW e \in Execution, NEW to \in ExecutionStatus,
             TransitionExecution(e, to, expected, key)
      PROVE  Typed'
  <2>1. execution' \in [Execution -> ExecutionRecord]
    BY <1>7 DEF TransitionExecution, TypeOK, ExecutionRecord
  <2>0. /\ version' \in [Aggregate -> Nat]
        /\ log' \in [Aggregate -> Seq(AuditEvent)]
        /\ idem' \in [Key -> {None, "ok", "failed"}]
    <3>1. e \in Aggregate
      BY DEF Aggregate
    <3>2. Commit(e, key, expected, None)
      BY <1>7 DEF TransitionExecution
    <3> QED BY <3>1, <3>2, CommitTyped
  <2>2. TypeOK'
    BY <1>7, <2>1, <2>0 DEF TransitionExecution, TypeOK
  <2>3. to # "ABSENT"
    BY DEF ExecutionStatus
  <2>4. Owned'
    BY <1>7, <2>3 DEF TransitionExecution, TypeOK, Owned, ExecutionRecord
  <2> QED BY <2>2, <2>4
<1>8. ASSUME NEW key \in Key \cup {Fresh}, NEW expected \in 0..MaxVersion,
             NEW e \in Execution, NEW a \in Attempt,
             CreateExecutionAttempt(e, a, expected, key)
      PROVE  Typed'
  <2>1. execution' \in [Execution -> ExecutionRecord]
    BY <1>8 DEF CreateExecutionAttempt, TypeOK, ExecutionRecord
  <2>2. attempt' \in [Attempt -> AttemptRecord]
    BY <1>8 DEF CreateExecutionAttempt, TypeOK, ExecutionRecord, AttemptRecord, AttemptStatus
  <2>0. /\ version' \in [Aggregate -> Nat]
        /\ log' \in [Aggregate -> Seq(AuditEvent)]
        /\ idem' \in [Key -> {None, "ok", "failed"}]
    <3>1. e \in Aggregate
      BY DEF Aggregate
    <3>2. Commit(e, key, expected, None)
      BY <1>8 DEF CreateExecutionAttempt
    <3> QED BY <3>1, <3>2, CommitTyped
  <2>3. TypeOK'
    BY <1>8, <2>1, <2>2, <2>0 DEF CreateExecutionAttempt, TypeOK
  <2>4. Owned'
    BY <1>8, <2>3 DEF CreateExecutionAttempt, IsUnused, TypeOK, Owned, ExecutionRecord, AttemptRecord
  <2> QED BY <2>3, <2>4
<1>9. ASSUME NEW key \in Key \cup {Fresh}, NEW expected \in 0..MaxVersion,
             NEW a \in Attempt, NEW to \in AttemptStatus,
             TransitionExecutionAttempt(a, to, expected, key)
      PROVE  Typed'
  <2>1. attempt[a].owner \in Aggregate
    BY <1>9 DEF TransitionExecutionAttempt, Owned, Aggregate
  <2>2. attempt' \in [Attempt -> AttemptRecord]
    BY <1>9 DEF TransitionExecutionAttempt, TypeOK, AttemptRecord
  <2>0. /\ version' \in [Aggregate -> Nat]
        /\ log' \in [Aggregate -> Seq(AuditEvent)]
        /\ idem' \in [Key -> {None, "ok", "failed"}]
    <3>1. Commit(attempt[a].owner, key, expected, None)
      BY <1>9 DEF TransitionExecutionAttempt
    <3> QED BY <2>1, <3>1, CommitTyped
  <2>3. TypeOK'
    BY <1>9, <2>1, <2>2, <2>0 DEF TransitionExecutionAttempt, TypeOK
  <2>4. to # "ABSENT"
    BY DEF AttemptStatus
  <2>5. Owned'
    BY <1>9, <2>4 DEF TransitionExecutionAttempt, TypeOK, Owned, ExecutionRecord, AttemptRecord
  <2> QED BY <2>3, <2>5
<1>10. ASSUME NEW key \in Key \cup {Fresh}, NEW expected \in 0..MaxVersion,
              NEW e \in Execution, CompleteExecutionAttempt(e, expected, key)
       PROVE  Typed'
  <2>1. execution' \in [Execution -> ExecutionRecord]
    BY <1>10 DEF CompleteExecutionAttempt, TypeOK, ExecutionRecord, ExecutionStatus
  <2>2. attempt' \in [Attempt -> AttemptRecord]
    BY <1>10 DEF CompleteExecutionAttempt, TypeOK, AttemptRecord, AttemptStatus
  <2>0. /\ version' \in [Aggregate -> Nat]
        /\ log' \in [Aggregate -> Seq(AuditEvent)]
        /\ idem' \in [Key -> {None, "ok", "failed"}]
    <3>1. e \in Aggregate
      BY DEF Aggregate
    <3>2. Commit(e, key, expected, None)
      BY <1>10 DEF CompleteExecutionAttempt
    <3> QED BY <3>1, <3>2, CommitTyped
  <2>3. TypeOK'
    BY <1>10, <2>1, <2>2, <2>0 DEF CompleteExecutionAttempt, TypeOK
  <2>4. Owned'
    BY <1>10 DEF CompleteExecutionAttempt, ReadyToComplete, TypeOK, Owned, ExecutionRecord, AttemptRecord
  <2> QED BY <2>3, <2>4
<1>11. ASSUME NEW key \in Key \cup {Fresh}, NEW expected \in 0..MaxVersion,
              NEW e \in Execution, NEW r \in RuntimeEvent,
              RecordRuntimeEvent(e, r, expected, key)
       PROVE  Typed'
  <2>0. /\ version' \in [Aggregate -> Nat]
        /\ log' \in [Aggregate -> Seq(AuditEvent)]
        /\ idem' \in [Key -> {None, "ok", "failed"}]
    <3>1. e \in Aggregate
      BY DEF Aggregate
    <3>2. Commit(e, key, expected, r)
      BY <1>11 DEF RecordRuntimeEvent
    <3> QED BY <3>1, <3>2, CommitTyped
  <2>1. TypeOK'
    BY <1>11, <2>0 DEF RecordRuntimeEvent, TypeOK
  <2>2. Owned'
    BY <1>11 DEF RecordRuntimeEvent, Owned
  <2> QED BY <2>1, <2>2
<1>12. CASE UNCHANGED vars
  BY <1>12 DEF vars, TypeOK, Owned
<1> QED BY <1>1, <1>2, <1>3, <1>4, <1>5, <1>6, <1>7, <1>8, <1>9, <1>10, <1>11, <1>12 DEF Next

LEMMA TypedHolds == Spec => []Typed
<1>1. Init => Typed
  BY InitTyped
<1>2. Typed /\ [Next]_vars => Typed'
  BY TypedStep
<1> QED BY <1>1, <1>2, PTL DEF Spec

(***************************************************************************)
(* Every reachable state of the bus is well typed.                         *)
(***************************************************************************)
THEOREM TypeCorrect == Spec => []TypeOK
<1>1. Typed => TypeOK
  BY DEF Typed
<1> QED BY <1>1, TypedHolds, PTL

-----------------------------------------------------------------------------
(***************************************************************************)
(* Whatever the command, a step touches the audit log either not at all or *)
(* by one commit on one aggregate.                                         *)
(***************************************************************************)
Answers ==
  \/ idem' = idem
  \/ \E key \in Key, outcome \in {"ok", "failed"} :
       /\ idem[key] = None
       /\ idem' = [idem EXCEPT ![key] = outcome]

Logs ==
  \E g \in Aggregate, key \in Key \cup {Fresh}, expected \in 0..MaxVersion,
     runtime \in RuntimeEvent \cup {None} : Commit(g, key, expected, runtime)

LEMMA StepLogsOnce ==
  Typed /\ [Next]_vars => (UNCHANGED <<version, log>> /\ Answers) \/ Logs
<1> SUFFICES ASSUME Typed, [Next]_vars
             PROVE  (UNCHANGED <<version, log>> /\ Answers) \/ Logs
  OBVIOUS
<1> USE DEF Typed
<1>1. ASSUME NEW c \in Contract \cup {None}, ContractChanges(c)
      PROVE  UNCHANGED <<version, log>> /\ Answers
  BY <1>1 DEF ContractChanges, Answers
<1>2. ASSUME NEW key \in Key, Refuse(key)
      PROVE  UNCHANGED <<version, log>> /\ Answers
  BY <1>2, DistinctIds DEF Refuse, Store, IsNew, Answers
<1>3. ASSUME NEW key \in Key, NEW e \in Execution, NEW r \in RuntimeEvent,
             RepeatRuntimeEvent(e, r, key)
      PROVE  UNCHANGED <<version, log>> /\ Answers
  BY <1>3, DistinctIds DEF RepeatRuntimeEvent, Store, IsNew, Answers
<1>4. ASSUME NEW key \in Key \cup {Fresh}, NEW expected \in 0..MaxVersion,
             \/ \E c \in Contract, budget \in Budget :
                  CreateAssignment(c, budget, expected, key)
             \/ \E c \in Contract, budget \in Budget :
                  ReviseAssignment(c, budget, expected, key)
      PROVE  Logs
  <2>1. Commit(Assignment, key, expected, None) /\ Assignment \in Aggregate
    BY <1>4 DEF CreateAssignment, ReviseAssignment, Aggregate
  <2> QED BY <2>1 DEF Logs
<1>5. ASSUME NEW key \in Key \cup {Fresh}, NEW expected \in 0..MaxVersion,
             NEW b \in Binding, NEW revision \in DOMAIN revisions,
             CreateExecutionBinding(b, revision, expected, key)
      PROVE  Logs
  <2>1. Commit(b, key, expected, None) /\ b \in Aggregate
    BY <1>5 DEF CreateExecutionBinding, Aggregate
  <2> QED BY <2>1 DEF Logs
<1>6. ASSUME NEW key \in Key \cup {Fresh}, NEW expected \in 0..MaxVersion,
             NEW e \in Execution,
             \/ \E b \in Binding, revision \in DOMAIN revisions :
                  CreateExecution(e, b, revision, expected, key)
             \/ \E to \in ExecutionStatus :
                  TransitionExecution(e, to, expected, key)
             \/ \E a \in Attempt : CreateExecutionAttempt(e, a, expected, key)
             \/ CompleteExecutionAttempt(e, expected, key)
      PROVE  Logs
  <2>1. Commit(e, key, expected, None) /\ e \in Aggregate
    BY <1>6 DEF CreateExecution, TransitionExecution, CreateExecutionAttempt,
                CompleteExecutionAttempt, Aggregate
  <2> QED BY <2>1 DEF Logs
<1>7. ASSUME NEW key \in Key \cup {Fresh}, NEW expected \in 0..MaxVersion,
             NEW a \in Attempt, NEW to \in AttemptStatus,
             TransitionExecutionAttempt(a, to, expected, key)
      PROVE  Logs
  <2>1. Commit(attempt[a].owner, key, expected, None) /\ attempt[a].owner \in Aggregate
    BY <1>7 DEF TransitionExecutionAttempt, Owned, Aggregate
  <2> QED BY <2>1 DEF Logs
<1>8. ASSUME NEW key \in Key \cup {Fresh}, NEW expected \in 0..MaxVersion,
             NEW e \in Execution, NEW r \in RuntimeEvent,
             RecordRuntimeEvent(e, r, expected, key)
      PROVE  Logs
  <2>1. Commit(e, key, expected, r) /\ e \in Aggregate
    BY <1>8 DEF RecordRuntimeEvent, Aggregate
  <2> QED BY <2>1 DEF Logs
<1>9. CASE UNCHANGED vars
  BY <1>9 DEF vars, Answers
<1> QED BY <1>1, <1>2, <1>3, <1>4, <1>5, <1>6, <1>7, <1>8, <1>9 DEF Next

(***************************************************************************)
(* The audit log of every aggregate is a chain without gap or fork, in     *)
(* every reachable state and for any number of racing writers.             *)
(***************************************************************************)
LEMMA AuditChainStep == Typed /\ AuditChain /\ [Next]_vars => AuditChain'
<1> SUFFICES ASSUME Typed, AuditChain, [Next]_vars PROVE AuditChain'
  OBVIOUS
<1>1. CASE UNCHANGED <<version, log>>
  BY <1>1 DEF AuditChain
<1>2. CASE Logs
  <2>1. PICK g \in Aggregate, key \in Key \cup {Fresh}, expected \in 0..MaxVersion,
             runtime \in RuntimeEvent \cup {None} : Commit(g, key, expected, runtime)
    BY <1>2 DEF Logs
  <2> DEFINE event == [key |-> key, expected |-> expected, runtime |-> runtime]
  <2>2. log' = [log EXCEPT ![g] = Append(log[g], event)]
    BY <2>1 DEF Commit
  <2>3. version' = [version EXCEPT ![g] = version[g] + 1] /\ expected = version[g]
    BY <2>1 DEF Commit, SameVersion
  <2>4. /\ log \in [Aggregate -> Seq(AuditEvent)]
        /\ version \in [Aggregate -> Nat]
    BY DEF Typed, TypeOK
  <2>5. event.expected = version[g]
    BY <2>3
  <2>6. event \in AuditEvent
    BY Bounds DEF AuditEvent
  <2> HIDE DEF event
  <2>7. ASSUME NEW h \in Aggregate
        PROVE  /\ version'[h] = Len(log'[h])
               /\ \A i \in DOMAIN log'[h] : log'[h][i].expected = i - 1
    <3>1. CASE h # g
      BY <2>2, <2>3, <2>4, <3>1 DEF AuditChain
    <3>2. CASE h = g
      <4>1. log'[g] = Append(log[g], event) /\ version'[g] = version[g] + 1
        BY <2>2, <2>3, <2>4
      <4>2. log[g] \in Seq(AuditEvent) /\ Len(log[g]) = version[g]
        BY <2>4 DEF AuditChain
      <4>3. Len(log'[g]) = version'[g]
        BY <4>1, <4>2, <2>6
      <4>4. ASSUME NEW i \in DOMAIN log'[g]
            PROVE  log'[g][i].expected = i - 1
        <5>1. i \in 1..(version[g] + 1)
          BY <4>1, <4>2, <2>6
        <5>2. CASE i = version[g] + 1
          <6>1. log'[g][i] = event
            BY <4>1, <4>2, <5>2, <2>6
          <6> QED BY <6>1, <2>5, <5>2, <2>4
        <5>3. CASE i # version[g] + 1
          <6>1. i \in DOMAIN log[g] /\ log'[g][i] = log[g][i]
            BY <4>1, <4>2, <5>1, <5>3, <2>4, <2>6
          <6> QED BY <6>1 DEF AuditChain
        <5> QED BY <5>2, <5>3
      <4> QED BY <3>2, <4>3, <4>4
    <3> QED BY <3>1, <3>2
  <2> QED BY <2>7 DEF AuditChain
<1> QED BY <1>1, <1>2, StepLogsOnce

THEOREM AuditChainHolds == Spec => []AuditChain
<1>1. Init => AuditChain
  BY DEF Init, AuditChain
<1> QED BY <1>1, TypedHolds, AuditChainStep, PTL DEF Spec

-----------------------------------------------------------------------------
(***************************************************************************)
(* A client's retry acts at most once.  A commit whose key is on record is *)
(* impossible, and a key that an event carries is on record as a success;  *)
(* so the event that is appended carries a key of its own.                 *)
(***************************************************************************)
LEMMA KeyActsOnceStep == Typed /\ KeyActsOnce /\ [Next]_vars => KeyActsOnce'
<1> SUFFICES ASSUME Typed, KeyActsOnce, [Next]_vars PROVE KeyActsOnce'
  OBVIOUS
<1>1. CASE UNCHANGED <<version, log>> /\ Answers
  <2>1. ASSUME NEW k \in Key, idem[k] = "ok" PROVE idem'[k] = "ok"
    BY <1>1, <2>1, DistinctIds DEF Answers, Typed, TypeOK
  <2> QED BY <1>1, <2>1 DEF KeyActsOnce
<1>2. CASE Logs
  <2>1. PICK f \in Aggregate, key \in Key \cup {Fresh}, expected \in 0..MaxVersion,
             runtime \in RuntimeEvent \cup {None} : Commit(f, key, expected, runtime)
    BY <1>2 DEF Logs
  <2> DEFINE event == [key |-> key, expected |-> expected, runtime |-> runtime]
  <2>2. log' = [log EXCEPT ![f] = Append(log[f], event)]
    BY <2>1 DEF Commit
  <2>3. event \in AuditEvent
    BY Bounds DEF AuditEvent
  <2>4. event.key = key
    OBVIOUS
  <2> HIDE DEF event
  <2>5. log \in [Aggregate -> Seq(AuditEvent)] /\ idem \in [Key -> {None, "ok", "failed"}]
    BY DEF Typed, TypeOK
  <2>6. ASSUME NEW k \in Key
        PROVE  /\ idem[k] = "ok" => idem'[k] = "ok"
               /\ k = key => idem[k] = None /\ idem'[k] = "ok"
    BY <2>1, <2>5, DistinctIds DEF Commit, IsNew, Store
  <2>7. ASSUME NEW g \in Aggregate, NEW i \in DOMAIN log'[g]
        PROVE  \/ i \in DOMAIN log[g] /\ log'[g][i] = log[g][i]
               \/ g = f /\ i = Len(log[f]) + 1 /\ log'[g][i] = event
    <3>1. CASE g # f
      BY <2>2, <2>5, <3>1
    <3>2. CASE g = f
      <4>1. log'[f] = Append(log[f], event) /\ log[f] \in Seq(AuditEvent)
        BY <2>2, <2>5
      <4>2. i \in 1..(Len(log[f]) + 1)
        BY <4>1, <3>2, <2>3
      <4> QED BY <4>1, <4>2, <3>2, <2>3
    <3> QED BY <3>1, <3>2
  <2>8. ASSUME NEW g \in Aggregate, NEW i \in DOMAIN log[g], log[g][i].key \in Key
        PROVE  idem[log[g][i].key] = "ok" /\ log[g][i].key # key
    <3>1. idem[log[g][i].key] = "ok"
      BY <2>8 DEF KeyActsOnce
    <3> QED BY <3>1, <2>6, <2>8, DistinctIds
  <2>9. ASSUME NEW g \in Aggregate, NEW h \in Aggregate,
               NEW i \in DOMAIN log'[g], NEW j \in DOMAIN log'[h],
               log'[g][i].key \in Key
        PROVE  /\ idem'[log'[g][i].key] = "ok"
               /\ (log'[g][i].key = log'[h][j].key => g = h /\ i = j)
    <3>1. CASE i \in DOMAIN log[g] /\ log'[g][i] = log[g][i]
      <4>1. idem[log[g][i].key] = "ok" /\ log[g][i].key # key
        BY <2>8, <2>9, <3>1
      <4>2. idem'[log'[g][i].key] = "ok"
        BY <4>1, <2>6, <2>9, <3>1
      <4>3. CASE j \in DOMAIN log[h] /\ log'[h][j] = log[h][j]
        BY <4>2, <4>3, <3>1, <2>9 DEF KeyActsOnce
      <4>4. CASE log'[h][j] = event
        BY <4>1, <4>2, <4>4, <3>1, <2>4
      <4> QED BY <4>3, <4>4, <2>7
    <3>2. CASE g = f /\ i = Len(log[f]) + 1 /\ log'[g][i] = event
      <4>1. key \in Key /\ log'[g][i].key = key /\ idem'[key] = "ok"
        BY <3>2, <2>4, <2>6, <2>9
      <4>2. CASE j \in DOMAIN log[h] /\ log'[h][j] = log[h][j]
        BY <4>1, <4>2, <2>8
      <4>3. CASE h = f /\ j = Len(log[f]) + 1
        BY <4>1, <4>3, <3>2
      <4> QED BY <4>2, <4>3, <2>7
    <3> QED BY <3>1, <3>2, <2>7
  <2> QED BY <2>9 DEF KeyActsOnce
<1> QED BY <1>1, <1>2, StepLogsOnce

(***************************************************************************)
(* However often a client sends a command again, one audit event at most   *)
(* carries its key.                                                        *)
(***************************************************************************)
THEOREM KeysActOnce == Spec => []KeyActsOnce
<1>1. Init => KeyActsOnce
  BY DEF Init, KeyActsOnce
<1> QED BY <1>1, TypedHolds, KeyActsOnceStep, PTL DEF Spec

-----------------------------------------------------------------------------
(***************************************************************************)
(* No edge leaves a terminal status, in either graph.                      *)
(***************************************************************************)
LEMMA TerminalIsLast ==
  /\ \A s \in TerminalExecution : ExecutionNext(s) = {}
  /\ \A s \in TerminalAttempt : AttemptNext(s) = {}
  /\ "ABSENT" \notin TerminalExecution \cup TerminalAttempt
  /\ "RUNNING" \notin TerminalExecution /\ "VERIFYING" \notin TerminalAttempt
BY DEF TerminalExecution, TerminalAttempt, ExecutionNext, AttemptNext

(***************************************************************************)
(* What one step may not do to an execution or an attempt.                 *)
(***************************************************************************)
KeepsOutcome ==
  /\ \A e \in Execution :
       /\ execution[e].status \in TerminalExecution =>
            execution'[e].status = execution[e].status
       /\ execution[e].status # "ABSENT" =>
            execution'[e].revision = execution[e].revision
  /\ \A a \in Attempt :
       /\ attempt[a].status \in TerminalAttempt =>
            attempt'[a].status = attempt[a].status
       /\ attempt[a].status # "ABSENT" =>
            attempt'[a].owner = attempt[a].owner

LEMMA OutcomeStep == Typed /\ Next => KeepsOutcome
<1> SUFFICES ASSUME Typed, Next PROVE KeepsOutcome
  OBVIOUS
<1>0. /\ execution \in [Execution -> ExecutionRecord]
      /\ attempt \in [Attempt -> AttemptRecord]
  BY DEF Typed, TypeOK
<1>1. CASE UNCHANGED <<execution, attempt>>
  BY <1>1 DEF KeepsOutcome
<1>2. ASSUME NEW key \in Key \cup {Fresh}, NEW expected \in 0..MaxVersion,
             NEW e \in Execution, NEW b \in Binding, NEW revision \in DOMAIN revisions,
             CreateExecution(e, b, revision, expected, key)
      PROVE  KeepsOutcome
  BY <1>0, <1>2, TerminalIsLast DEF CreateExecution, KeepsOutcome
<1>3. ASSUME NEW key \in Key \cup {Fresh}, NEW expected \in 0..MaxVersion,
             NEW e \in Execution, NEW to \in ExecutionStatus,
             TransitionExecution(e, to, expected, key)
      PROVE  KeepsOutcome
  BY <1>0, <1>3, TerminalIsLast DEF TransitionExecution, KeepsOutcome, ExecutionRecord
<1>4. ASSUME NEW key \in Key \cup {Fresh}, NEW expected \in 0..MaxVersion,
             NEW e \in Execution, NEW a \in Attempt,
             CreateExecutionAttempt(e, a, expected, key)
      PROVE  KeepsOutcome
  BY <1>0, <1>4, TerminalIsLast
     DEF CreateExecutionAttempt, IsUnused, KeepsOutcome, ExecutionRecord
<1>5. ASSUME NEW key \in Key \cup {Fresh}, NEW expected \in 0..MaxVersion,
             NEW a \in Attempt, NEW to \in AttemptStatus,
             TransitionExecutionAttempt(a, to, expected, key)
      PROVE  KeepsOutcome
  BY <1>0, <1>5, TerminalIsLast DEF TransitionExecutionAttempt, KeepsOutcome, AttemptRecord
<1>6. ASSUME NEW key \in Key \cup {Fresh}, NEW expected \in 0..MaxVersion,
             NEW e \in Execution, CompleteExecutionAttempt(e, expected, key)
      PROVE  KeepsOutcome
  BY <1>0, <1>6, TerminalIsLast
     DEF CompleteExecutionAttempt, ReadyToComplete, KeepsOutcome, ExecutionRecord, AttemptRecord
<1> QED
  BY <1>1, <1>2, <1>3, <1>4, <1>5, <1>6
     DEF Next, ContractChanges, Refuse, RepeatRuntimeEvent, CreateAssignment,
         ReviseAssignment, CreateExecutionBinding, RecordRuntimeEvent

(***************************************************************************)
(* An ended execution or attempt keeps its outcome, whatever is sent to    *)
(* the bus afterwards.                                                     *)
(***************************************************************************)
THEOREM OutcomesAreFinal == Spec => OutcomeIsFinal
<1>1. Typed /\ [Next]_vars => [KeepsOutcome]_vars
  BY OutcomeStep
<1> QED BY <1>1, TypedHolds, PTL DEF Spec, OutcomeIsFinal, KeepsOutcome

-----------------------------------------------------------------------------
(***************************************************************************)
(* The effects a command can have on assignment, bindings, executions and  *)
(* attempts, without the transaction around it.                            *)
(***************************************************************************)
Quiet == UNCHANGED <<revisions, binding, execution, attempt>>

Revises ==
  /\ \E new \in Revision :
       \/ revisions = <<>> /\ revisions' = <<new>>
       \/ revisions' = Append(revisions, new)
  /\ UNCHANGED <<binding, execution, attempt>>

Binds ==
  /\ \E b \in Binding, i \in DOMAIN revisions :
       binding[b] = 0 /\ binding' = [binding EXCEPT ![b] = i]
  /\ UNCHANGED <<revisions, execution, attempt>>

Creates ==
  /\ \E e \in Execution, b \in Binding, i \in DOMAIN revisions :
       /\ execution[e].status = "ABSENT"
       /\ binding[b] = i
       /\ execution' = [execution EXCEPT ![e] =
                          [status |-> "CREATED", current |-> None, count |-> 0,
                           revision |-> i]]
  /\ UNCHANGED <<revisions, binding, attempt>>

Tries ==
  /\ \E e \in Execution, a \in Attempt :
       /\ execution[e].status # "ABSENT"
       /\ execution[e].count < BudgetOf(e)
       /\ attempt[a].status = "ABSENT"
       /\ attempt' = [attempt EXCEPT ![a] =
                        [status |-> "CREATED", owner |-> e,
                         number |-> execution[e].count + 1]]
       /\ execution' = [execution EXCEPT ![e].current = a, ![e].count = @ + 1]
  /\ UNCHANGED <<revisions, binding>>

\* Statuses move and nothing else does.
Moves ==
  /\ \/ UNCHANGED execution
     \/ \E e \in Execution, to \in ExecutionStatus :
          /\ execution[e].status # "ABSENT"
          /\ execution' = [execution EXCEPT ![e].status = to]
  /\ \/ UNCHANGED attempt
     \/ \E a \in Attempt, to \in AttemptStatus :
          /\ attempt[a].status # "ABSENT"
          /\ attempt' = [attempt EXCEPT ![a].status = to]
  /\ UNCHANGED <<revisions, binding>>

LEMMA StepEffect ==
  Typed /\ Next => Quiet \/ Revises \/ Binds \/ Creates \/ Tries \/ Moves
<1> SUFFICES ASSUME Typed, Next
             PROVE  Quiet \/ Revises \/ Binds \/ Creates \/ Tries \/ Moves
  OBVIOUS
<1>1. ASSUME \/ \E c \in Contract \cup {None} : ContractChanges(c)
             \/ \E key \in Key : Refuse(key)
             \/ \E key \in Key, e \in Execution, r \in RuntimeEvent :
                  RepeatRuntimeEvent(e, r, key)
      PROVE  Quiet
  BY <1>1 DEF ContractChanges, Refuse, RepeatRuntimeEvent, Quiet
<1>2. ASSUME NEW key \in Key \cup {Fresh}, NEW expected \in 0..MaxVersion,
             NEW c \in Contract, NEW budget \in Budget,
             \/ CreateAssignment(c, budget, expected, key)
             \/ ReviseAssignment(c, budget, expected, key)
      PROVE  Revises
  <2>1. [contract |-> c, budget |-> budget] \in Revision
    BY DEF Revision
  <2> QED BY <1>2, <2>1 DEF CreateAssignment, ReviseAssignment, Revises
<1>3. ASSUME NEW key \in Key \cup {Fresh}, NEW expected \in 0..MaxVersion,
             NEW b \in Binding, NEW i \in DOMAIN revisions,
             CreateExecutionBinding(b, i, expected, key)
      PROVE  Binds
  BY <1>3 DEF CreateExecutionBinding, Binds
<1>4. ASSUME NEW key \in Key \cup {Fresh}, NEW expected \in 0..MaxVersion,
             NEW e \in Execution, NEW b \in Binding, NEW i \in DOMAIN revisions,
             CreateExecution(e, b, i, expected, key)
      PROVE  Creates
  BY <1>4 DEF CreateExecution, Creates
<1>5. ASSUME NEW key \in Key \cup {Fresh}, NEW expected \in 0..MaxVersion,
             NEW e \in Execution, NEW a \in Attempt,
             CreateExecutionAttempt(e, a, expected, key)
      PROVE  Tries
  BY <1>5 DEF CreateExecutionAttempt, IsUnused, Tries
<1>6. ASSUME NEW key \in Key \cup {Fresh}, NEW expected \in 0..MaxVersion,
             NEW e \in Execution, NEW to \in ExecutionStatus,
             TransitionExecution(e, to, expected, key)
      PROVE  Moves
  BY <1>6 DEF TransitionExecution, Moves
<1>7. ASSUME NEW key \in Key \cup {Fresh}, NEW expected \in 0..MaxVersion,
             NEW a \in Attempt, NEW to \in AttemptStatus,
             TransitionExecutionAttempt(a, to, expected, key)
      PROVE  Moves
  BY <1>7 DEF TransitionExecutionAttempt, Moves
<1>8. ASSUME NEW key \in Key \cup {Fresh}, NEW expected \in 0..MaxVersion,
             NEW e \in Execution, CompleteExecutionAttempt(e, expected, key)
      PROVE  Moves
  <2>1. /\ execution[e].current \in Attempt
        /\ attempt[execution[e].current].status # "ABSENT"
        /\ execution[e].status # "ABSENT"
    BY <1>8 DEF CompleteExecutionAttempt, ReadyToComplete, Typed, TypeOK, ExecutionRecord
  <2>2. "COMPLETED" \in ExecutionStatus /\ "SUCCEEDED" \in AttemptStatus
    BY DEF ExecutionStatus, AttemptStatus
  <2> QED BY <1>8, <2>1, <2>2 DEF CompleteExecutionAttempt, Moves
<1>9. ASSUME NEW key \in Key \cup {Fresh}, NEW expected \in 0..MaxVersion,
             NEW e \in Execution, NEW r \in RuntimeEvent,
             RecordRuntimeEvent(e, r, expected, key)
      PROVE  Quiet
  BY <1>9 DEF RecordRuntimeEvent, Quiet
<1> QED BY <1>1, <1>2, <1>3, <1>4, <1>5, <1>6, <1>7, <1>8, <1>9 DEF Next

(***************************************************************************)
(* Revisions of the assignment are added and never changed, and a binding  *)
(* is made once: what an execution was pinned to stays what it was.        *)
(***************************************************************************)
LEMMA PinsStay ==
  ASSUME Typed, Next
  PROVE  /\ \A i \in DOMAIN revisions :
              i \in DOMAIN revisions' /\ revisions'[i] = revisions[i]
         /\ \A b \in Binding : binding[b] # 0 => binding'[b] = binding[b]
<1>0. /\ revisions \in Seq(Revision)
      /\ binding \in [Binding -> Nat]
  BY DEF Typed, TypeOK
<1>1. CASE Revises
  <2>1. PICK new \in Revision : \/ revisions = <<>> /\ revisions' = <<new>>
                               \/ revisions' = Append(revisions, new)
    BY <1>1 DEF Revises
  <2>2. \A i \in DOMAIN revisions :
          i \in DOMAIN revisions' /\ revisions'[i] = revisions[i]
    BY <1>0, <2>1
  <2> QED BY <1>1, <2>2 DEF Revises
<1>2. CASE Binds
  BY <1>0, <1>2 DEF Binds
<1>3. CASE UNCHANGED <<revisions, binding>>
  BY <1>3
<1> QED BY <1>1, <1>2, <1>3, StepEffect DEF Quiet, Creates, Tries, Moves

LEMMA PinnedBudgetStep == Typed /\ PinnedBudget /\ [Next]_vars => PinnedBudget'
<1> SUFFICES ASSUME Typed, PinnedBudget, [Next]_vars PROVE PinnedBudget'
  OBVIOUS
<1>1. CASE UNCHANGED vars
  BY <1>1 DEF vars, PinnedBudget, BudgetOf
<1>2. CASE Next
  <2>0. /\ execution \in [Execution -> ExecutionRecord]
        /\ revisions \in Seq(Revision)
        /\ binding \in [Binding -> Nat]
    BY DEF Typed, TypeOK
  <2>1. /\ \A i \in DOMAIN revisions :
             i \in DOMAIN revisions' /\ revisions'[i] = revisions[i]
        /\ \A b \in Binding : binding[b] # 0 => binding'[b] = binding[b]
    BY <1>2, PinsStay
  <2>2. ASSUME NEW e \in Execution, execution'[e].status # "ABSENT",
               execution[e].status # "ABSENT",
               execution'[e].revision = execution[e].revision,
               execution'[e].count <= BudgetOf(e)
        PROVE  /\ execution'[e].revision \in DOMAIN revisions'
               /\ \E b \in Binding : binding'[b] = execution'[e].revision
               /\ execution'[e].count <= BudgetOf(e)'
    <3>1. /\ execution[e].revision \in DOMAIN revisions
          /\ \E b \in Binding : binding[b] = execution[e].revision
      BY <2>2 DEF PinnedBudget
    <3>2. execution[e].revision # 0
      BY <3>1, <2>0
    <3> QED BY <2>1, <2>2, <3>1, <3>2 DEF BudgetOf
  <2>3. ASSUME NEW e \in Execution, execution'[e].status # "ABSENT",
               execution[e].status # "ABSENT"
        PROVE  /\ execution'[e].revision = execution[e].revision
               /\ execution'[e].count <= BudgetOf(e)
    <3>1. execution'[e].revision = execution[e].revision
      BY <1>2, <2>3, OutcomeStep DEF KeepsOutcome
    <3>2. execution[e].count <= BudgetOf(e)
      BY <2>3 DEF PinnedBudget
    <3>3. \/ execution'[e].count = execution[e].count
          \/ /\ execution[e].count < BudgetOf(e)
             /\ execution'[e].count = execution[e].count + 1
      <4>1. CASE Creates
        BY <2>0, <2>3, <4>1 DEF Creates
      <4>2. CASE Tries
        BY <2>0, <4>2 DEF Tries, ExecutionRecord
      <4>3. CASE Moves
        <5>1. CASE UNCHANGED execution
          BY <5>1
        <5>2. ASSUME NEW f \in Execution, NEW to \in ExecutionStatus,
                     execution' = [execution EXCEPT ![f].status = to]
              PROVE  execution'[e].count = execution[e].count
          BY <2>0, <5>2 DEF ExecutionRecord
        <5> QED BY <4>3, <5>1, <5>2 DEF Moves
      <4> QED BY <1>2, <4>1, <4>2, <4>3, StepEffect DEF Quiet, Revises, Binds
    <3>4. execution[e].count \in Nat /\ BudgetOf(e) \in Nat
      <4>1. execution[e].revision \in DOMAIN revisions
        BY <2>3 DEF PinnedBudget
      <4>2. revisions[execution[e].revision] \in Revision
        BY <2>0, <4>1
      <4> QED BY <2>0, <4>2, Bounds DEF BudgetOf, Revision, ExecutionRecord
    <3> QED BY <3>1, <3>2, <3>3, <3>4
  <2>4. ASSUME NEW e \in Execution, execution[e].status = "ABSENT",
               execution'[e].status # "ABSENT"
        PROVE  \E b \in Binding, i \in DOMAIN revisions :
                 /\ binding[b] = i
                 /\ execution'[e].revision = i
                 /\ execution'[e].count = 0
    <3>1. CASE Creates
      BY <2>0, <2>4, <3>1 DEF Creates
    <3>2. CASE Tries
      BY <2>0, <2>4, <3>2 DEF Tries, ExecutionRecord
    <3>3. CASE Moves
      BY <2>0, <2>4, <3>3 DEF Moves, ExecutionRecord
    <3> QED BY <1>2, <2>4, <3>1, <3>2, <3>3, StepEffect DEF Quiet, Revises, Binds
  <2>5. ASSUME NEW e \in Execution, execution'[e].status # "ABSENT"
        PROVE  /\ execution'[e].revision \in DOMAIN revisions'
               /\ \E b \in Binding : binding'[b] = execution'[e].revision
               /\ execution'[e].count <= BudgetOf(e)'
    <3>1. CASE execution[e].status # "ABSENT"
      BY <2>2, <2>3, <2>5, <3>1
    <3>2. CASE execution[e].status = "ABSENT"
      <4>1. PICK b \in Binding, i \in DOMAIN revisions :
                   /\ binding[b] = i
                   /\ execution'[e].revision = i
                   /\ execution'[e].count = 0
        BY <2>4, <2>5, <3>2
      <4>2. i # 0 /\ revisions[i] \in Revision
        BY <2>0
      <4>3. revisions[i].budget \in Nat
        BY <4>2, Bounds DEF Revision
      <4> QED BY <2>1, <4>1, <4>2, <4>3 DEF BudgetOf
    <3> QED BY <3>1, <3>2
  <2> QED BY <2>5 DEF PinnedBudget
<1> QED BY <1>1, <1>2

(***************************************************************************)
(* An execution stays within the budget of the revision it was made for,   *)
(* however often its assignment is revised.                                *)
(***************************************************************************)
THEOREM BudgetIsPinned == Spec => []PinnedBudget
<1>1. Init => PinnedBudget
  BY DEF Init, PinnedBudget, NoExecution
<1> QED BY <1>1, TypedHolds, PinnedBudgetStep, PTL DEF Spec

-----------------------------------------------------------------------------
(***************************************************************************)
(* The numbering of attempts is inductive together with the fact that an   *)
(* unused attempt id belongs to nobody: what a retry adds is new to its    *)
(* execution.                                                              *)
(***************************************************************************)
Unowned == \A a \in Attempt : attempt[a].status = "ABSENT" => attempt[a].owner = None

\* AttemptsNumbered of one execution.
NumberedOf(e) ==
  /\ \A n \in 1..execution[e].count :
       \E a \in AttemptsOf(e) : attempt[a].number = n
  /\ \A a, b \in AttemptsOf(e) :
       /\ attempt[a].number \in 1..execution[e].count
       /\ attempt[a].number = attempt[b].number => a = b
  /\ \A a \in AttemptsOf(e) :
       execution[e].current = a <=> attempt[a].number = execution[e].count
  /\ execution[e].current = None <=> execution[e].count = 0

LEMMA NumberedStep ==
  Typed /\ Unowned /\ AttemptsNumbered /\ [Next]_vars => Unowned' /\ AttemptsNumbered'
<1> SUFFICES ASSUME Typed, Unowned, AttemptsNumbered, [Next]_vars
             PROVE  Unowned' /\ AttemptsNumbered'
  OBVIOUS
<1>0. /\ execution \in [Execution -> ExecutionRecord]
      /\ attempt \in [Attempt -> AttemptRecord]
  BY DEF Typed, TypeOK
<1>1. \A e \in Execution : NumberedOf(e)
  BY DEF AttemptsNumbered, NumberedOf
<1>2. CASE UNCHANGED <<execution, attempt>>
  BY <1>2 DEF Unowned, AttemptsNumbered, AttemptsOf
<1>3. CASE Creates
  <2>1. PICK f \in Execution, i \in DOMAIN revisions :
          /\ execution[f].status = "ABSENT"
          /\ execution' = [execution EXCEPT ![f] =
                             [status |-> "CREATED", current |-> None, count |-> 0,
                              revision |-> i]]
    BY <1>3 DEF Creates
  <2>2. UNCHANGED attempt
    BY <1>3 DEF Creates
  <2>3. AttemptsOf(f) = {}
    <3>1. ASSUME NEW a \in Attempt, attempt[a].owner = f PROVE FALSE
      <4>1. attempt[a].status = "ABSENT"
        BY <2>1, <3>1 DEF Typed, Owned
      <4> QED BY <3>1, <4>1, DistinctIds DEF Unowned, Aggregate
    <3> QED BY <3>1 DEF AttemptsOf
  <2>4. ASSUME NEW e \in Execution PROVE NumberedOf(e)'
    <3>1. CASE e = f
      <4>1. execution'[e].count = 0 /\ execution'[e].current = None
        BY <1>0, <2>1, <3>1
      <4>2. AttemptsOf(e)' = {}
        BY <2>2, <2>3, <3>1 DEF AttemptsOf
      <4> QED BY <4>1, <4>2 DEF NumberedOf
    <3>2. CASE e # f
      <4>1. execution'[e] = execution[e]
        BY <1>0, <2>1, <3>2
      <4> QED BY <1>1, <2>2, <4>1 DEF NumberedOf, AttemptsOf
    <3> QED BY <3>1, <3>2
  <2> QED BY <2>2, <2>4 DEF Unowned, AttemptsNumbered, NumberedOf
<1>4. CASE Moves
  <2>1. ASSUME NEW e \in Execution
        PROVE  /\ execution'[e].count = execution[e].count
               /\ execution'[e].current = execution[e].current
    <3>1. CASE UNCHANGED execution
      BY <3>1
    <3>2. ASSUME NEW f \in Execution, NEW to \in ExecutionStatus,
                 execution' = [execution EXCEPT ![f].status = to]
          PROVE  /\ execution'[e].count = execution[e].count
                 /\ execution'[e].current = execution[e].current
      BY <1>0, <3>2 DEF ExecutionRecord
    <3> QED BY <1>4, <3>1, <3>2 DEF Moves
  <2>2. ASSUME NEW a \in Attempt
        PROVE  /\ attempt'[a].owner = attempt[a].owner
               /\ attempt'[a].number = attempt[a].number
               /\ attempt'[a].status = "ABSENT" => attempt[a].status = "ABSENT"
    <3>1. CASE UNCHANGED attempt
      BY <3>1
    <3>2. ASSUME NEW b \in Attempt, NEW to \in AttemptStatus,
                 attempt' = [attempt EXCEPT ![b].status = to]
          PROVE  /\ attempt'[a].owner = attempt[a].owner
                 /\ attempt'[a].number = attempt[a].number
                 /\ attempt'[a].status = "ABSENT" => attempt[a].status = "ABSENT"
      <4>1. to # "ABSENT"
        BY DEF AttemptStatus
      <4> QED BY <1>0, <3>2, <4>1 DEF AttemptRecord
    <3> QED BY <1>4, <3>1, <3>2 DEF Moves
  <2>3. \A e \in Execution : AttemptsOf(e)' = AttemptsOf(e)
    BY <2>2 DEF AttemptsOf
  <2>4. ASSUME NEW e \in Execution PROVE NumberedOf(e)'
    <3>1. \A a \in AttemptsOf(e) : attempt'[a].number = attempt[a].number
      BY <2>2 DEF AttemptsOf
    <3> QED BY <1>1, <2>1, <2>3, <3>1 DEF NumberedOf
  <2> QED BY <2>2, <2>4 DEF Unowned, AttemptsNumbered, NumberedOf
<1>5. CASE Tries
  <2>1. PICK f \in Execution, c \in Attempt :
          /\ attempt[c].status = "ABSENT"
          /\ attempt' = [attempt EXCEPT ![c] =
                           [status |-> "CREATED", owner |-> f,
                            number |-> execution[f].count + 1]]
          /\ execution' = [execution EXCEPT ![f].current = c, ![f].count = @ + 1]
    BY <1>5 DEF Tries
  <2>2. attempt[c].owner = None
    BY <2>1 DEF Unowned
  <2>3. \A a \in Attempt \ {c} : attempt'[a] = attempt[a]
    BY <1>0, <2>1
  <2>4. /\ attempt'[c].owner = f
        /\ attempt'[c].number = execution[f].count + 1
        /\ attempt'[c].status = "CREATED"
    BY <1>0, <2>1
  <2>5. /\ execution'[f].count = execution[f].count + 1
        /\ execution'[f].current = c
        /\ execution[f].count \in Nat
    BY <1>0, <2>1 DEF ExecutionRecord
  <2>6. ASSUME NEW e \in Execution PROVE NumberedOf(e)'
    <3>0. None \notin Execution /\ None \notin Attempt
      BY DistinctIds DEF Aggregate
    <3>1. CASE e = f
      <4>1. AttemptsOf(f)' = AttemptsOf(f) \cup {c} /\ c \notin AttemptsOf(f)
        BY <2>2, <2>3, <2>4, <3>0 DEF AttemptsOf
      <4>2. \A a \in AttemptsOf(f) :
              /\ attempt'[a].number = attempt[a].number
              /\ attempt[a].number \in 1..execution[f].count
        BY <1>1, <2>3, <4>1 DEF NumberedOf, AttemptsOf
      <4>3. \A n \in 1..execution'[f].count :
              \E a \in AttemptsOf(f)' : attempt'[a].number = n
        <5>1. ASSUME NEW n \in 1..execution'[f].count
              PROVE  \E a \in AttemptsOf(f)' : attempt'[a].number = n
          <6>1. CASE n = execution[f].count + 1
            BY <2>4, <4>1, <6>1
          <6>2. CASE n # execution[f].count + 1
            <7>1. n \in 1..execution[f].count
              BY <2>5, <6>2
            <7> QED BY <1>1, <4>1, <4>2, <7>1 DEF NumberedOf
          <6> QED BY <6>1, <6>2
        <5> QED BY <5>1
      <4>4. \A a, b \in AttemptsOf(f)' :
              /\ attempt'[a].number \in 1..execution'[f].count
              /\ attempt'[a].number = attempt'[b].number => a = b
        BY <1>1, <2>4, <2>5, <4>1, <4>2 DEF NumberedOf
      <4>5. \A a \in AttemptsOf(f)' :
              execution'[f].current = a <=> attempt'[a].number = execution'[f].count
        BY <2>4, <2>5, <4>1, <4>2
      <4>6. execution'[f].current = None <=> execution'[f].count = 0
        BY <2>5, <3>0
      <4> QED BY <3>1, <4>3, <4>4, <4>5, <4>6 DEF NumberedOf
    <3>2. CASE e # f
      <4>1. execution'[e] = execution[e]
        BY <1>0, <2>1, <3>2
      <4>2. AttemptsOf(e)' = AttemptsOf(e) /\ c \notin AttemptsOf(e)
        BY <2>2, <2>3, <2>4, <3>0, <3>2 DEF AttemptsOf
      <4>3. \A a \in AttemptsOf(e) : attempt'[a] = attempt[a]
        BY <2>3, <4>2 DEF AttemptsOf
      <4> QED BY <1>1, <4>1, <4>2, <4>3 DEF NumberedOf
    <3> QED BY <3>1, <3>2
  <2>7. Unowned'
    BY <2>3, <2>4 DEF Unowned
  <2> QED BY <2>6, <2>7 DEF AttemptsNumbered, NumberedOf
<1> QED BY <1>2, <1>3, <1>4, <1>5, StepEffect DEF Quiet, Revises, Binds, vars

(***************************************************************************)
(* In any sequence of commands the attempts of an execution are numbered   *)
(* 1, 2, 3, ... and its current attempt is the last.                       *)
(***************************************************************************)
THEOREM AttemptsAreNumbered == Spec => []AttemptsNumbered
<1>1. Init => Unowned /\ AttemptsNumbered
  <2> SUFFICES ASSUME Init PROVE Unowned /\ AttemptsNumbered
    OBVIOUS
  <2>1. /\ \A a \in Attempt : attempt[a].owner = None
        /\ \A e \in Execution : execution[e].count = 0 /\ execution[e].current = None
    BY DEF Init, NoExecution, NoAttempt
  <2>2. \A e \in Execution : AttemptsOf(e) = {}
    BY <2>1, DistinctIds DEF AttemptsOf, Aggregate
  <2> QED BY <2>1, <2>2 DEF Unowned, AttemptsNumbered
<1> QED BY <1>1, TypedHolds, NumberedStep, PTL DEF Spec

-----------------------------------------------------------------------------
(***************************************************************************)
(* At-least-once delivery.  Every runtime event in the audit log has its   *)
(* receipt, under its own attempt; so an event whose id or number is taken *)
(* is found there, and only a new one is appended.                         *)
(***************************************************************************)
Recorded ==
  \A g \in Aggregate : \A i \in DOMAIN log[g] :
    LET r == log[g][i].runtime
    IN  r # None => /\ r \in receipts
                    /\ attempt[r.attempt].status # "ABSENT"
                    /\ attempt[r.attempt].owner = g

\* What a step appends, and what it checked if that is a runtime event.
Appends(g, x) ==
  /\ log' = [log EXCEPT ![g] = Append(log[g], x)]
  /\ x.runtime # None =>
       /\ x.runtime \in RuntimeEvent
       /\ ReceiptsOf(x.runtime) = {}
       /\ x.runtime \in receipts'
       /\ attempt[x.runtime.attempt].status # "ABSENT"
       /\ attempt[x.runtime.attempt].owner = g

LEMMA StepRecords ==
  ASSUME Typed, Next
  PROVE  /\ receipts \subseteq receipts'
         /\ \/ UNCHANGED log
            \/ \E g \in Aggregate, x \in AuditEvent : Appends(g, x)
<1>1. CASE \E key \in Key \cup {Fresh}, expected \in 0..MaxVersion,
               e \in Execution, r \in RuntimeEvent :
             RecordRuntimeEvent(e, r, expected, key)
  <2>1. PICK key \in Key \cup {Fresh}, expected \in 0..MaxVersion,
             e \in Execution, r \in RuntimeEvent :
          RecordRuntimeEvent(e, r, expected, key)
    BY <1>1
  <2> DEFINE x == [key |-> key, expected |-> expected, runtime |-> r]
  <2>2. x \in AuditEvent /\ e \in Aggregate
    BY Bounds DEF AuditEvent, Aggregate
  <2>3. log' = [log EXCEPT ![e] = Append(log[e], x)]
    BY <2>1 DEF RecordRuntimeEvent, Commit
  <2>4. /\ ReceiptsOf(r) = {}
        /\ r \in receipts' /\ receipts \subseteq receipts'
        /\ r.attempt = execution[e].current
    BY <2>1 DEF RecordRuntimeEvent
  <2>5. r.attempt # None
    BY DistinctIds DEF RuntimeEvent
  <2>6. /\ attempt[r.attempt].status # "ABSENT"
        /\ attempt[r.attempt].owner = e
    BY <2>4, <2>5 DEF Typed, Owned
  <2>7. x.runtime = r
    OBVIOUS
  <2> HIDE DEF x
  <2>8. Appends(e, x)
    BY <2>3, <2>4, <2>6, <2>7 DEF Appends
  <2> QED BY <2>2, <2>4, <2>8
<1>2. ASSUME NEW g \in Aggregate, NEW key \in Key \cup {Fresh},
             NEW expected \in 0..MaxVersion, Commit(g, key, expected, None)
      PROVE  \E h \in Aggregate, x \in AuditEvent : Appends(h, x)
  <2> DEFINE x == [key |-> key, expected |-> expected, runtime |-> None]
  <2>1. x \in AuditEvent
    BY Bounds DEF AuditEvent
  <2>2. log' = [log EXCEPT ![g] = Append(log[g], x)] /\ x.runtime = None
    BY <1>2 DEF Commit
  <2> HIDE DEF x
  <2> QED BY <2>1, <2>2 DEF Appends
<1>3. CASE UNCHANGED <<log, receipts>>
  BY <1>3
<1>4. ASSUME NEW key \in Key \cup {Fresh}, NEW expected \in 0..MaxVersion,
             \/ \E c \in Contract, budget \in Budget :
                  \/ CreateAssignment(c, budget, expected, key)
                  \/ ReviseAssignment(c, budget, expected, key)
             \/ \E b \in Binding, i \in DOMAIN revisions :
                  CreateExecutionBinding(b, i, expected, key)
             \/ \E e \in Execution, b \in Binding, i \in DOMAIN revisions :
                  CreateExecution(e, b, i, expected, key)
             \/ \E e \in Execution, to \in ExecutionStatus :
                  TransitionExecution(e, to, expected, key)
             \/ \E e \in Execution, a \in Attempt :
                  CreateExecutionAttempt(e, a, expected, key)
             \/ \E a \in Attempt, to \in AttemptStatus :
                  TransitionExecutionAttempt(a, to, expected, key)
             \/ \E e \in Execution : CompleteExecutionAttempt(e, expected, key)
      PROVE  /\ UNCHANGED receipts
             /\ \E g \in Aggregate : Commit(g, key, expected, None)
  BY <1>4
     DEF CreateAssignment, ReviseAssignment, CreateExecutionBinding, CreateExecution,
         TransitionExecution, CreateExecutionAttempt, TransitionExecutionAttempt,
         CompleteExecutionAttempt, Aggregate, Typed, Owned
<1> QED BY <1>1, <1>2, <1>3, <1>4 DEF Next, ContractChanges, Refuse, RepeatRuntimeEvent

(***************************************************************************)
(* An attempt that exists goes on existing, and stays with its execution.  *)
(***************************************************************************)
LEMMA AttemptStays ==
  ASSUME Typed, Next, NEW a \in Attempt, attempt[a].status # "ABSENT"
  PROVE  attempt'[a].status # "ABSENT" /\ attempt'[a].owner = attempt[a].owner
<1>0. attempt \in [Attempt -> AttemptRecord]
  BY DEF Typed, TypeOK
<1>1. attempt'[a].owner = attempt[a].owner
  BY OutcomeStep DEF KeepsOutcome
<1>2. ASSUME Tries
      PROVE  attempt'[a].status # "ABSENT"
  BY <1>0, <1>2 DEF Tries
<1>3. ASSUME Moves
      PROVE  attempt'[a].status # "ABSENT"
  <2>1. CASE UNCHANGED attempt
    BY <2>1
  <2>2. ASSUME NEW b \in Attempt, NEW to \in AttemptStatus,
               attempt' = [attempt EXCEPT ![b].status = to]
        PROVE  attempt'[a].status # "ABSENT"
    BY <1>0, <2>2 DEF AttemptRecord, AttemptStatus
  <2> QED BY <1>3, <2>1, <2>2 DEF Moves
<1>4. ASSUME UNCHANGED attempt
      PROVE  attempt'[a].status # "ABSENT"
  BY <1>4
<1>5. attempt'[a].status # "ABSENT"
  BY <1>2, <1>3, <1>4, StepEffect DEF Quiet, Revises, Binds, Creates
<1> QED BY <1>1, <1>5

LEMMA RuntimeEventStep ==
  Typed /\ Recorded /\ RuntimeEventOnce /\ [Next]_vars => Recorded' /\ RuntimeEventOnce'
<1> SUFFICES ASSUME Typed, Recorded, RuntimeEventOnce, [Next]_vars
             PROVE  Recorded' /\ RuntimeEventOnce'
  OBVIOUS
<1>1. CASE UNCHANGED vars
  BY <1>1 DEF vars, Recorded, RuntimeEventOnce
<1>2. CASE Next
  <2>0. /\ log \in [Aggregate -> Seq(AuditEvent)]
        /\ receipts \subseteq RuntimeEvent
    BY DEF Typed, TypeOK
  <2>1. receipts \subseteq receipts'
    BY <1>2, StepRecords
  <2>2. ASSUME NEW g \in Aggregate, NEW i \in DOMAIN log[g], log[g][i].runtime # None
        PROVE  LET r == log[g][i].runtime
               IN  /\ r \in receipts'
                   /\ attempt'[r.attempt].status # "ABSENT"
                   /\ attempt'[r.attempt].owner = g
    <3> DEFINE r == log[g][i].runtime
    <3>1. /\ r \in receipts
          /\ attempt[r.attempt].status # "ABSENT"
          /\ attempt[r.attempt].owner = g
      BY <2>2 DEF Recorded
    <3>2. r.attempt \in Attempt
      BY <2>0, <3>1 DEF RuntimeEvent
    <3> HIDE DEF r
    <3>3. /\ r \in receipts'
          /\ attempt'[r.attempt].status # "ABSENT"
          /\ attempt'[r.attempt].owner = g
      BY <1>2, <2>1, <3>1, <3>2, AttemptStays
    <3> QED BY <3>3 DEF r
  <2>3. CASE UNCHANGED log
    <3>1. Recorded'
      BY <2>2, <2>3 DEF Recorded
    <3>2. ASSUME NEW g \in Aggregate, NEW h \in Aggregate,
                 NEW i \in DOMAIN log[g], NEW j \in DOMAIN log[h]
          PROVE  SameEvent(log[g][i].runtime, log[h][j].runtime) => g = h /\ i = j
      BY DEF RuntimeEventOnce
    <3>3. \A g \in Aggregate : \A i \in DOMAIN log[g] :
            log[g][i].runtime # None =>
              attempt'[log[g][i].runtime.attempt].owner = g
      BY <2>2
    <3>4. \A g, h \in Aggregate : \A i \in DOMAIN log[g], j \in DOMAIN log[h] :
            SameEvent(log[g][i].runtime, log[h][j].runtime) => g = h /\ i = j
      BY <3>2
    <3>5. log' = log
      BY <2>3
    <3>6. RuntimeEventOnce'
      BY <3>3, <3>4, <3>5 DEF RuntimeEventOnce, SameEvent
    <3> QED BY <3>1, <3>6
  <2>4. ASSUME NEW f \in Aggregate, NEW x \in AuditEvent, Appends(f, x)
        PROVE  Recorded' /\ RuntimeEventOnce'
    <3>1. ASSUME NEW g \in Aggregate, NEW i \in DOMAIN log'[g]
          PROVE  \/ i \in DOMAIN log[g] /\ log'[g][i] = log[g][i]
                 \/ g = f /\ i = Len(log[f]) + 1 /\ log'[g][i] = x
      <4>1. CASE g # f
        BY <2>0, <2>4, <4>1 DEF Appends
      <4>2. CASE g = f
        <5>1. log'[f] = Append(log[f], x) /\ log[f] \in Seq(AuditEvent)
          BY <2>0, <2>4 DEF Appends
        <5>2. i \in 1..(Len(log[f]) + 1)
          BY <5>1, <4>2
        <5> QED BY <5>1, <5>2, <4>2
      <4> QED BY <4>1, <4>2
    <3>2. x.runtime # None =>
            /\ x.runtime \in receipts'
            /\ attempt'[x.runtime.attempt].status # "ABSENT"
            /\ attempt'[x.runtime.attempt].owner = f
      <4> SUFFICES ASSUME x.runtime # None
                   PROVE  /\ x.runtime \in receipts'
                          /\ attempt'[x.runtime.attempt].status # "ABSENT"
                          /\ attempt'[x.runtime.attempt].owner = f
        OBVIOUS
      <4>1. x.runtime.attempt \in Attempt
        BY <2>4 DEF Appends, RuntimeEvent
      <4> QED BY <1>2, <2>4, <4>1, AttemptStays DEF Appends
    <3>3. Recorded'
      BY <2>2, <3>1, <3>2 DEF Recorded
    <3>4. ASSUME NEW g \in Aggregate, NEW i \in DOMAIN log[g]
          PROVE  ~SameEvent(x.runtime, log[g][i].runtime)
                 /\ ~SameEvent(log[g][i].runtime, x.runtime)
      <4>1. CASE x.runtime = None \/ log[g][i].runtime = None
        BY <4>1 DEF SameEvent
      <4>2. CASE x.runtime # None /\ log[g][i].runtime # None
        <5>1. log[g][i].runtime \in receipts
          BY <4>2 DEF Recorded
        <5>2. ReceiptsOf(x.runtime) = {}
          BY <2>4, <4>2 DEF Appends
        <5> QED BY <5>1, <5>2 DEF ReceiptsOf, SameEvent
      <4> QED BY <4>1, <4>2
    <3>5. ASSUME NEW g \in Aggregate, NEW h \in Aggregate,
                 NEW i \in DOMAIN log'[g], NEW j \in DOMAIN log'[h],
                 SameEvent(log'[g][i].runtime, log'[h][j].runtime)
          PROVE  g = h /\ i = j
      <4>1. CASE /\ i \in DOMAIN log[g] /\ log'[g][i] = log[g][i]
                 /\ j \in DOMAIN log[h] /\ log'[h][j] = log[h][j]
        BY <3>5, <4>1 DEF RuntimeEventOnce
      <4>2. CASE log'[g][i] = x /\ j \in DOMAIN log[h] /\ log'[h][j] = log[h][j]
        BY <3>4, <3>5, <4>2
      <4>3. CASE log'[h][j] = x /\ i \in DOMAIN log[g] /\ log'[g][i] = log[g][i]
        BY <3>4, <3>5, <4>3
      <4>4. CASE g = f /\ i = Len(log[f]) + 1 /\ h = f /\ j = Len(log[f]) + 1
        BY <4>4
      <4> QED BY <3>1, <4>1, <4>2, <4>3, <4>4
    <3>6. \A g \in Aggregate : \A i \in DOMAIN log'[g] :
            log'[g][i].runtime # None =>
              attempt'[log'[g][i].runtime.attempt].owner = g
      BY <3>3 DEF Recorded
    <3>7. RuntimeEventOnce'
      BY <3>5, <3>6 DEF RuntimeEventOnce, SameEvent
    <3> QED BY <3>3, <3>7
  <2> QED BY <1>2, <2>3, <2>4, StepRecords
<1> QED BY <1>1, <1>2

(***************************************************************************)
(* The audit log never holds a runtime event twice, under one id or under  *)
(* one sequence number of its attempt, nor in another execution's log.     *)
(***************************************************************************)
THEOREM RuntimeEventsOnce == Spec => []RuntimeEventOnce
<1>1. Init => Recorded /\ RuntimeEventOnce
  BY DEF Init, Recorded, RuntimeEventOnce
<1> QED BY <1>1, TypedHolds, RuntimeEventStep, PTL DEF Spec
=============================================================================
