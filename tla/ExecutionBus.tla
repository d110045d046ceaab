---------------------------- MODULE ExecutionBus ----------------------------
(***************************************************************************)
(* Phase2CommandBus (src/oef/phase2/application/command-bus.ts) over its   *)
(* SQLite store.  Every command runs in one immediate transaction, so a    *)
(* command is one step here.  Clients are not modelled: any command, with  *)
(* any expected version and any idempotency key, may arrive in any state,  *)
(* which covers retries, duplicates, stale writers and two control planes  *)
(* writing at once.                                                        *)
(*                                                                         *)
(* A command has three outcomes.  It commits: state, audit event, receipt  *)
(* and idempotency record are written together.  It is refused: only the   *)
(* idempotency record of the refusal is written.  Or the handler throws    *)
(* (an edge missing from the transition graph, a payload the schema        *)
(* rejects): the transaction rolls back and nothing at all is written,     *)
(* which is a stuttering step.  Answering a key already on record writes   *)
(* nothing either.                                                         *)
(***************************************************************************)
EXTENDS ExecutionLifecycle, Naturals, Sequences, FiniteSets

CONSTANTS
  Execution,    \* execution ids
  Attempt,      \* attempt ids
  Binding,      \* execution-binding ids
  Contract,     \* approved contract revisions of the task
  Budget,       \* values of budgets.max_attempts
  EventId,      \* ids of normalized runtime events
  Key,          \* idempotency keys that a client may present again
  Assignment,   \* the one assignment of the task
  None,         \* null
  Fresh,        \* a key no other command ever carries
  MaxVersion,   \* bound: aggregate versions explored
  MaxRevision,  \* bound: assignment revisions explored
  MaxSequence   \* bound: runtime-event sequence numbers explored

Aggregate == Execution \cup Binding \cup {Assignment}

ASSUME DistinctIds ==
  /\ Execution \cap Binding = {}
  /\ Assignment \notin Execution \cup Binding
  /\ None \notin Attempt \cup Contract \cup Aggregate
  /\ None \notin {"ok", "failed"}
  /\ Fresh \notin Key

ASSUME Bounds ==
  /\ Budget \subseteq Nat \ {0}
  /\ MaxVersion \in Nat
  /\ MaxRevision \in Nat
  /\ MaxSequence \in Nat

VARIABLES
  contract,   \* the task's APPROVED active contract revision, or None
  revisions,  \* revisions of the assignment: its contract and its budget
  binding,    \* [Binding -> revision bound, 0 when absent]
  execution,  \* [Execution -> status, current attempt, count, pinned revision]
  attempt,    \* [Attempt -> status, owning execution, attempt number]
  version,    \* [Aggregate -> aggregate_version, 0 when absent]
  log,        \* [Aggregate -> its audit events, oldest first]
  receipts,   \* runtime events already recorded
  idem        \* [Key -> None, or the outcome stored under the key]

vars == <<contract, revisions, binding, execution, attempt, version, log,
          receipts, idem>>

-----------------------------------------------------------------------------
RuntimeEvent == [id : EventId, attempt : Attempt, sequence : 1..MaxSequence]

Revision == [contract : Contract, budget : Budget]

AuditEvent == [key : Key \cup {Fresh}, expected : Nat,
               runtime : RuntimeEvent \cup {None}]

ExecutionRecord == [status : ExecutionStatus \cup {"ABSENT"},
                    current : Attempt \cup {None},
                    count : Nat, revision : Nat]

AttemptRecord == [status : AttemptStatus \cup {"ABSENT"},
                  owner : Execution \cup {None}, number : Nat]

NoExecution == [status |-> "ABSENT", current |-> None, count |-> 0,
                revision |-> 0]
NoAttempt == [status |-> "ABSENT", owner |-> None, number |-> 0]

TypeOK ==
  /\ contract \in Contract \cup {None}
  /\ revisions \in Seq(Revision)
  /\ binding \in [Binding -> Nat]
  /\ execution \in [Execution -> ExecutionRecord]
  /\ attempt \in [Attempt -> AttemptRecord]
  /\ version \in [Aggregate -> Nat]
  /\ log \in [Aggregate -> Seq(AuditEvent)]
  /\ receipts \subseteq RuntimeEvent
  /\ idem \in [Key -> {None, "ok", "failed"}]

Init ==
  /\ contract = None
  /\ revisions = <<>>
  /\ binding = [b \in Binding |-> 0]
  /\ execution = [e \in Execution |-> NoExecution]
  /\ attempt = [a \in Attempt |-> NoAttempt]
  /\ version = [g \in Aggregate |-> 0]
  /\ log = [g \in Aggregate |-> <<>>]
  /\ receipts = {}
  /\ idem = [k \in Key |-> None]

-----------------------------------------------------------------------------
(* The transaction around a handler. *)

\* Bug: the lookup is left out.
EveryKeyIsNew(key) == TRUE

\* The idempotency lookup: a key on record is answered from the record.
IsNew(key) == key \in Key => idem[key] = None

Store(key, outcome) ==
  idem' = IF key = Fresh THEN idem ELSE [idem EXCEPT ![key] = outcome]

\* Bug: the version that the client saw is not compared.
AnyVersion(g, expected) == TRUE

SameVersion(g, expected) == version[g] = expected

\* What every success writes: the next aggregate version, the audit event
\* that carries it, and the stored result.
Commit(g, key, expected, runtime) ==
  /\ IsNew(key)
  /\ contract # None
  /\ SameVersion(g, expected)
  /\ version[g] < MaxVersion
  /\ version' = [version EXCEPT ![g] = @ + 1]
  /\ log' = [log EXCEPT ![g] = Append(@, [key |-> key, expected |-> expected,
                                          runtime |-> runtime])]
  /\ Store(key, "ok")

\* Bug: receipts are found by event id only.
ReceiptsById(r) == {x \in receipts : x.id = r.id}

\* A receipt under the event's id or under its attempt and sequence.
ReceiptsOf(r) ==
  {x \in receipts : \/ x.id = r.id
                    \/ /\ x.attempt = r.attempt
                       /\ x.sequence = r.sequence}

-----------------------------------------------------------------------------
(* The task's contract belongs to phase 1: it is approved and superseded   *)
(* by commands of another bus.                                             *)

ContractChanges(c) ==
  /\ c # contract
  /\ contract' = c
  /\ UNCHANGED <<revisions, binding, execution, attempt, version, log,
                 receipts, idem>>

CreateAssignment(c, budget, expected, key) ==
  /\ expected = 0
  /\ revisions = <<>>
  /\ c = contract
  /\ Commit(Assignment, key, expected, None)
  /\ revisions' = <<[contract |-> c, budget |-> budget]>>
  /\ UNCHANGED <<contract, binding, execution, attempt, receipts>>

ReviseAssignment(c, budget, expected, key) ==
  /\ revisions # <<>>
  /\ Len(revisions) < MaxRevision
  /\ c = contract
  /\ Commit(Assignment, key, expected, None)
  /\ revisions' = Append(revisions, [contract |-> c, budget |-> budget])
  /\ UNCHANGED <<contract, binding, execution, attempt, receipts>>

CreateExecutionBinding(b, revision, expected, key) ==
  /\ expected = 0
  /\ binding[b] = 0
  /\ revision \in DOMAIN revisions
  /\ Commit(b, key, expected, None)
  /\ binding' = [binding EXCEPT ![b] = revision]
  /\ UNCHANGED <<contract, revisions, execution, attempt, receipts>>

CreateExecution(e, b, revision, expected, key) ==
  /\ expected = 0
  /\ execution[e].status = "ABSENT"
  /\ revision \in DOMAIN revisions
  /\ binding[b] = revision
  /\ Commit(e, key, expected, None)
  /\ execution' = [execution EXCEPT ![e] =
                     [status |-> "CREATED", current |-> None, count |-> 0,
                      revision |-> revision]]
  /\ UNCHANGED <<contract, revisions, binding, attempt, receipts>>

TransitionExecution(e, to, expected, key) ==
  /\ execution[e].status # "ABSENT"
  /\ to \in ExecutionNext(execution[e].status)
  /\ Commit(e, key, expected, None)
  /\ execution' = [execution EXCEPT ![e].status = to]
  /\ UNCHANGED <<contract, revisions, binding, attempt, receipts>>

\* Bug: the budget is read from the latest revision of the assignment.
LatestBudget(e) == revisions[Len(revisions)].budget

BudgetOf(e) == revisions[execution[e].revision].budget

\* Bug: a retry may reuse the id of an attempt that exists.
MayBeReused(a) == TRUE

IsUnused(a) == attempt[a].status = "ABSENT"

\* Neither the execution's status nor the end of the previous attempt is
\* checked; the budget is the one of the pinned assignment revision.
CreateExecutionAttempt(e, a, expected, key) ==
  /\ execution[e].status # "ABSENT"
  /\ execution[e].count < BudgetOf(e)
  /\ IsUnused(a)
  /\ Commit(e, key, expected, None)
  /\ attempt' = [attempt EXCEPT ![a] =
                   [status |-> "CREATED", owner |-> e,
                    number |-> execution[e].count + 1]]
  /\ execution' = [execution EXCEPT ![e].current = a, ![e].count = @ + 1]
  /\ UNCHANGED <<contract, revisions, binding, receipts>>

\* The expected version is the one of the attempt's execution.
TransitionExecutionAttempt(a, to, expected, key) ==
  /\ attempt[a].status # "ABSENT"
  /\ to \in AttemptNext(attempt[a].status)
  /\ Commit(attempt[a].owner, key, expected, None)
  /\ attempt' = [attempt EXCEPT ![a].status = to]
  /\ UNCHANGED <<contract, revisions, binding, execution, receipts>>

\* Bug: completion looks at the attempt alone.
AttemptReady(e) ==
  /\ execution[e].current # None
  /\ attempt[execution[e].current].status = "VERIFYING"

ReadyToComplete(e) ==
  /\ execution[e].status = "RUNNING"
  /\ execution[e].current # None
  /\ attempt[execution[e].current].status = "VERIFYING"

\* Attempt and execution end in one transaction.
CompleteExecutionAttempt(e, expected, key) ==
  /\ ReadyToComplete(e)
  /\ Commit(e, key, expected, None)
  /\ attempt' = [attempt EXCEPT ![execution[e].current].status = "SUCCEEDED"]
  /\ execution' = [execution EXCEPT ![e].status = "COMPLETED"]
  /\ UNCHANGED <<contract, revisions, binding, receipts>>

RecordRuntimeEvent(e, r, expected, key) ==
  /\ ReceiptsOf(r) = {}
  /\ execution[e].status # "ABSENT"
  /\ r.attempt = execution[e].current
  /\ Commit(e, key, expected, r)
  /\ receipts' = receipts \cup {r}
  /\ UNCHANGED <<contract, revisions, binding, execution, attempt>>

\* An event already on record has no effect beyond its stored answer: the
\* recorded event if it is the same one, a conflict if it is not.
RepeatRuntimeEvent(e, r, key) ==
  /\ key # Fresh
  /\ IsNew(key)
  /\ ReceiptsOf(r) # {}
  /\ r \in receipts => execution[e].status # "ABSENT"
  /\ Store(key, IF r \in receipts THEN "ok" ELSE "failed")
  /\ UNCHANGED <<contract, revisions, binding, execution, attempt, version,
                 log, receipts>>

\* A failed outcome (no approved contract, a stale version, an unknown or
\* already existing aggregate, an exhausted budget) is stored under its key.
\* In every state some command is refused, one with a stale version at the
\* least, so the action needs no other guard.
Refuse(key) ==
  /\ key # Fresh
  /\ IsNew(key)
  /\ Store(key, "failed")
  /\ UNCHANGED <<contract, revisions, binding, execution, attempt, version,
                 log, receipts>>

-----------------------------------------------------------------------------
Next ==
  \/ \E c \in Contract \cup {None} : ContractChanges(c)
  \/ \E key \in Key : Refuse(key)
  \/ \E key \in Key, e \in Execution, r \in RuntimeEvent :
       RepeatRuntimeEvent(e, r, key)
  \/ \E key \in Key \cup {Fresh}, expected \in 0..MaxVersion :
       \/ \E c \in Contract, budget \in Budget :
            CreateAssignment(c, budget, expected, key)
       \/ \E c \in Contract, budget \in Budget :
            ReviseAssignment(c, budget, expected, key)
       \/ \E b \in Binding, revision \in DOMAIN revisions :
            CreateExecutionBinding(b, revision, expected, key)
       \/ \E e \in Execution, b \in Binding, revision \in DOMAIN revisions :
            CreateExecution(e, b, revision, expected, key)
       \/ \E e \in Execution, to \in ExecutionStatus :
            TransitionExecution(e, to, expected, key)
       \/ \E e \in Execution, a \in Attempt :
            CreateExecutionAttempt(e, a, expected, key)
       \/ \E a \in Attempt, to \in AttemptStatus :
            TransitionExecutionAttempt(a, to, expected, key)
       \/ \E e \in Execution : CompleteExecutionAttempt(e, expected, key)
       \/ \E e \in Execution, r \in RuntimeEvent :
            RecordRuntimeEvent(e, r, expected, key)

Spec == Init /\ [][Next]_vars

-----------------------------------------------------------------------------
(***************************************************************************)
(* The audit chain has no gap and no fork (verifyEventChain reports        *)
(* "version-gap"): the n-th event of an aggregate carries version n, the   *)
(* command that wrote it had seen version n - 1, and the stored version is *)
(* that of the last event.  Two writers that read the same version cannot  *)
(* both have committed.                                                    *)
(***************************************************************************)
AuditChain ==
  \A g \in Aggregate :
    /\ version[g] = Len(log[g])
    /\ \A i \in DOMAIN log[g] : log[g][i].expected = i - 1

(***************************************************************************)
(* A retried command acts at most once: an idempotency key is carried by   *)
(* at most one audit event of all aggregates, and only when the answer on  *)
(* record for it is a success.                                             *)
(***************************************************************************)
KeyActsOnce ==
  \A g, h \in Aggregate : \A i \in DOMAIN log[g], j \in DOMAIN log[h] :
    log[g][i].key \in Key =>
      /\ idem[log[g][i].key] = "ok"
      /\ (log[g][i].key = log[h][j].key => g = h /\ i = j)

(***************************************************************************)
(* At-least-once delivery has the effect of exactly-once: the runner may   *)
(* present an event again, under another id or in another order, and the   *)
(* audit log still holds each event id once and each attempt's sequence    *)
(* number once, in the log of the execution the attempt belongs to.        *)
(***************************************************************************)
SameEvent(r, s) ==
  /\ r # None
  /\ s # None
  /\ \/ r.id = s.id
     \/ /\ r.attempt = s.attempt
        /\ r.sequence = s.sequence

RuntimeEventOnce ==
  \A g, h \in Aggregate : \A i \in DOMAIN log[g], j \in DOMAIN log[h] :
    LET r == log[g][i].runtime
        s == log[h][j].runtime
    IN  /\ (r # None => attempt[r.attempt].owner = g)
        /\ (SameEvent(r, s) => g = h /\ i = j)

(***************************************************************************)
(* Retries are new attempts, numbered without gaps: the attempts of an     *)
(* execution are exactly 1 .. attempt_count, one of each number, and the   *)
(* current attempt is the last (domain.ts: "attempt_number must be         *)
(* sequential", current_attempt_id is null iff there is no attempt).       *)
(***************************************************************************)
AttemptsOf(e) == {a \in Attempt : attempt[a].owner = e}

AttemptsNumbered ==
  \A e \in Execution :
    /\ \A n \in 1..execution[e].count :
         \E a \in AttemptsOf(e) : attempt[a].number = n
    /\ \A a, b \in AttemptsOf(e) :
         /\ attempt[a].number \in 1..execution[e].count
         /\ attempt[a].number = attempt[b].number => a = b
    /\ \A a \in AttemptsOf(e) :
         execution[e].current = a <=> attempt[a].number = execution[e].count
    /\ execution[e].current = None <=> execution[e].count = 0

(***************************************************************************)
(* However the assignment is revised meanwhile, an execution keeps to the  *)
(* budget of the revision it was created for, and that revision is the one *)
(* its binding was made for.                                               *)
(***************************************************************************)
PinnedBudget ==
  \A e \in Execution :
    execution[e].status # "ABSENT" =>
      /\ execution[e].revision \in DOMAIN revisions
      /\ \E b \in Binding : binding[b] = execution[e].revision
      /\ execution[e].count <= BudgetOf(e)

(***************************************************************************)
(* Whatever clients send and in whatever order, an ended execution or      *)
(* attempt keeps its outcome, and an attempt never changes hands.          *)
(***************************************************************************)
OutcomeIsFinal ==
  [][/\ \A e \in Execution :
          /\ execution[e].status \in TerminalExecution =>
               execution'[e].status = execution[e].status
          /\ execution[e].status # "ABSENT" =>
               execution'[e].revision = execution[e].revision
     /\ \A a \in Attempt :
          /\ attempt[a].status \in TerminalAttempt =>
               attempt'[a].status = attempt[a].status
          /\ attempt[a].status # "ABSENT" =>
               attempt'[a].owner = attempt[a].owner]_vars
=============================================================================
