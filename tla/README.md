# Formal models of the OEF kernel and of the proxy's accounts

This directory models the parts of the repository where state, concurrency and
failure meet. One is **OEF** (`src/oef`), a durable, multi-phase kernel that
turns an approved task contract into supervised runs of a coding agent, verifies
what they produced, and records evidence, verdicts, incidents and lessons. The
other is what the **proxy** beneath it does with credentials: the Codex account
pool, and the failover between providers and their keys. The modules are TLA+.
TLC checks them on small instances; every safety property that a run checks is
also proved with TLAPS, for every value of the constants or under the conditions
that section 6 names. Liveness is model-checked only.

Code paths below are relative to the repository's `src` directory, which holds
`oef`, `codex`, `providers` and so on; `docs`, `docs-site` and `tests` lie next
to it.

Contents: [1 the system](#1-the-system) · [2 hard behaviours](#2-where-it-is-hard)
· [3 modules and code](#3-modules-and-the-code-they-model) ·
[4 runs](#4-runs) · [5 fairness](#5-fairness) · [6 proofs](#6-proofs) ·
[7 findings](#7-where-code-and-documents-disagree) ·
[8 not modelled](#8-what-is-not-modelled) · [9 plan](#9-plan) ·
[10 running](#10-running-the-tools)

## 1. The system

The repository is a proxy between coding agents and model providers with, on
top of it, the OEF kernel. Most of the proxy (adapters, server, bridge, CLI) is
wire formats and administration; its accounts and its failover are not.

### 1.1 How the parts interact

    caller ──commands──> Phase 1 bus ──┐ SQLite: tasks, contracts, evidence, verdicts
       │                    ^          │
       │                    │ 4 fixed-key commands per execution
       v                    │
    SingleAgentCoordinator ─┼── CompletionSaga  (prepare / finalize / resume / abort)
       │  commands          │        ^
       v                    │        │ resumePending, then reconciliation
    Phase 2 bus ────────────┴─── daemon startup (ReconciliationWorker)
       │ SQLite: assignments, bindings, executions, attempts, audit log
       v
    runner client ──HTTP──> LocalRunnerHost ──> LocalProcessSupervisor ──> agent
                              │  lease files, kill switch, event spool        │
                              └──events──> coordinator ──commands──> Phase 2 bus
                                                                              │
    incident service ──close──> memory writer ──> memory store                │ requests
       │ if the write throws         ^                                        v
       └──enqueue──> operations queue ──workers                 proxy: combo target ─> key
                                                                   │   or Codex thread ─> account
                                                                   v
                                                     providers, authorization server

A coordinator drives one execution: it creates the execution and an attempt,
prepares a git worktree, asks the runner daemon to launch the agent, reads the
agent's events from the daemon's spool, verifies the result, completes the
attempt and lets the saga report to Phase 1. Coordinator and daemon are
different processes. They share the two SQLite databases, the spool and the
file system, and either may die between any two of these steps. A daemon that
starts up finishes open sagas and ends what the previous one left running.

An incident that is closed leaves a lesson in the memory store, or a job in the
operations queue if the store could not be written. The proxy is one process:
its requests overtake each other wherever they await a token or an upstream, and
the user changes accounts and keys meanwhile.

### 1.2 Inventory

| Component | Code | State | Operations | What makes it correct | Modules |
|---|---|---|---|---|---|
| Phase 1 command bus | `oef/phase1` | tasks with status, stage and active contract; contract revisions; evidence; verdicts; approvals | 14 commands: create, propose, approve, reject, transition, migrate, reopen, block, record/verify/invalidate evidence, issue verdict, ... | one contract in force; the verdict in force is about it; completion only on proven criteria; terminal tasks closed | `TaskGovernance` |
| Phase 2 command bus and store | `oef/phase2/application/command-bus.ts`, `core/domain.ts`, `persistence/` | assignment revisions, bindings, executions, attempts, versions, audit log, event receipts, idempotency records | 9 commands, each one immediate transaction | audit log without gap, fork or duplicate; a key acts once; outcomes final; attempts numbered and in the pinned budget | `ExecutionLifecycle`, `ExecutionBus` |
| Runner host and supervisor | `oef/phase2/runner` | kill switch, generations, active executions, leases, child processes | start, verify, cancel, control (RUNNING, PAUSE, CANCEL_ALL), close, monitor, heartbeat | a cancellation that reports success left nothing alive; work holds its lease; attempts never overlap; every control call returns | `RunnerHost` |
| Event spool and stream | `runner/event-spool.ts`, `http-ipc.ts`, `streamEvents` of the host | append-only events per execution, the reader's cursor | emit, read from a cursor, end | nothing missed, doubled or foreign; gaps reported; the stream ends | `EventStream` |
| Completion saga | `application/completion-saga.ts` | one saga record per execution | prepare, markExecutionCompleted, finalize, resumePending, abort | outcome says what happened; no review before evidence; it resumes | `CompletionSaga` |
| Single-agent coordinator | `application/single-agent-coordinator.ts` | program counter, durable rows behind it | run, handleRunFailure | one agent at a time; a retry starts clean; COMPLETED is whole | `SingleAgentRun` implements `AgentSlot` |
| Startup reconciliation | `application/reconciliation-*.ts`, `recovery.ts` | the daemon's copy of the rows | observe, kill, quarantine, record evidence, end, sweep | READY means nothing runs; what ended left evidence; orphans end | `SingleAgentRun` |
| Retry policy | `application/retry-policy.ts` | none (pure) | decide on the history of attempts | never over budget; circuit opens on a repeated failure | planned |
| Operations queue | `oef/operations` | jobs, their leases and attempts, effect receipts | enqueue (idempotent by scope, kind and key), claim, heartbeat, start, succeed, fail, cancel, expire | one receipt per job, only by the lease's holder; attempts bounded; what is settled stays | `OperationsQueue` |
| Phase 6 memory | `oef/phase6` | memories with revisions, tombstones, deletion jobs with fences, artifact files, the vector index; ingestion jobs, injections | create, correct, forget, delete, reconcile, rebuild; ingest, inject | deleted stays deleted, also from files, index and descendants; a deletion ends | `MemoryStore` (the first six) |
| Phase 7 incidents | `oef/phase7` | one incident with its revisions, hypotheses, replays, repair evidence; pending memory writes | attach, hypothesize, experiment, confirm, replay, repair, close, reopen, process writes | closed only on grounds that hold; its memory is written or a job for it exists, and that settles | `IncidentClosure` over `OperationsQueue` and `MemoryStore` |
| Codex accounts | `codex/account-store.ts`, `routing.ts`, `auth-context.ts`, `account-lifecycle.ts` | credentials with generations, lock files, refreshes in flight; active account, health, affinities | refresh, login, import, delete, use, route, record outcome | a grant is presented once; the newest credential is kept; a request carries a live one; threads stay with their account; calls end | `CodexTokens`, `CodexRouting` |
| Key failover, combos | `providers/key-failover.ts`, `combos`, callers in `server/responses.ts` | keys and targets with cooldowns, the selected key, the rotation | pick, hop, rotate, commit, edit keys | keys move for cause, and another key that the user selects stands; a request ends | `ProviderFailover` |
| Phase 3 review | `oef/phase3` | rounds, findings, groups, waivers | runOnce per effect key, decide | one answer per effect key; limits on cost and rounds | planned |
| Phase 4 model lab | `oef/phase4` | benchmark results, scorecards | record, compare | arithmetic | no |
| Phase 5 routing | `oef/phase5` | plans, budget reservations | plan, reserveBudget, activate | a reservation is never exceeded; an activated plan is valid still | planned |
| OAuth accounts | `oauth` | accounts, refreshes in flight | refresh, guard | single flight per account | planned |
| Subagent bridge | `subagent-bridge` | installed files and their journal; handoff records (TTL 300 s, 256 records, 4 MB) | install, uninstall, put, take | all files or none; limits kept | planned |
| Bridge and upstream retry | `bridge.ts`, `lib/upstream-retry.ts`, `server/relay.ts` | a stream being translated | translate, retry | wire format | no |
| Server | `server` | connections | routes | I/O | no |
| Provider adapters | `adapters` | none | convert | formats | no |
| CLI, configuration, update, service, usage, storage, vision, web search | same names | files | administration | sequential code | no |

Proofs are in modules of their own, one for each part or for parts that are
composed (section 6).

Not part of the system proper: generated code, the GUI, the documentation
site, development logs, plugins, build scripts and tests.

## 2. Where it is hard

* **Commands** are retried, duplicated, stale and reordered by several
  processes. Versions, idempotency keys and event receipts have to make the
  audit log come out the same.
* **The host awaits.** Between two awaits of a start (prepare, materialize
  secrets, attest the identity, persist) the kill switch may change, another
  attempt may start, the child may exit or refuse to die. What was read before
  an await has to be compared again after it; this is what the control and
  containment generations are for.
* **Two processes run one saga** (the coordinator and a starting daemon) while
  other commands change the same task.
* **A crash between any two durable steps** leaves a workspace without intent,
  a process without an execution, a package without a status. Startup has to
  end it, and to leave evidence of it.
* **Events** are spooled per execution and numbered per attempt, read by cursor,
  and their end is found by looking at a status in another place.
* **Long sequences of legal commands** (propose, approve, invalidate, migrate,
  reopen) must not complete a task on a verdict about another contract.
* **A lease runs out while its holder works.** The worker that comes late may
  go by the same owner name as the one that took over.
* **A deletion has many steps** in several places, and memories are created,
  corrected, derived and indexed between them.
* **A refresh token can be used once.** Several requests find the same one
  expired; logins, deletions and a dying daemon come between reading it,
  presenting it and saving its successor.
* **Requests fail on what another request has already replaced**: the key
  that is cooled and the selection that is changed have to be the right ones.

`PROJECT.json` lists each hazard at the line where it bites, with the
properties that would show it going wrong, or the reason why there is none.
A few more are known and not listed there: a lease may be taken again by its
own holder (`lease-store.ts:38`); an event repeated with another time is a
conflict (`event-spool.ts:24`); a workflow that calls its stage *design*
instead of *planning* is not matched by the shipped policy's stage rules; cost
limits of a review are per group (`phase3/application/coordinator.ts:237`); the
account store is written as a whole (`account-store.ts:184`).

## 3. Modules and the code they model

A step is what the code does without being overtaken: one SQLite immediate
transaction for the buses, the code between two awaits for the host, the code
up to the next durable effect for coordinator, daemon and saga. Identifiers,
payloads, hashes, messages and time are abstracted to what the properties tell
apart; statuses, guards, early returns and the order of writes are kept.
`PROJECT.json` maps each definition to its lines.

### ExecutionLifecycle, ExecutionBus

`ExecutionLifecycle` holds the two transition graphs of `core/domain.ts` and is
shared with `SingleAgentRun`.

| In the module | In the code |
|---|---|
| `execution`, `attempt`, `binding`, `revisions` | rows of the store; `revisions[execution[e].revision]` is the pinned assignment revision |
| `version`, `log` | `aggregate_version` and the audit events, which carry the idempotency key and the expected version |
| `receipts`, `idem` | receipts of runtime events; stored answers by idempotency key |
| `contract` | the active approved contract, read from Phase 1 |
| `Commit` | the transaction around a handler: lookup of the key, contract, version check, audit event, stored result |
| `Refuse` | a failed outcome: only its answer is stored |
| `RepeatRuntimeEvent` | an event already on record: its stored answer, no effect |
| other actions | one per command, named as in the code |

Clients are not modelled. Any command with any expected version and any key may
arrive in any state, which is every interleaving of any number of clients,
retries included. A handler that throws rolls its transaction back and is a
stuttering step.

Two things the code does not check are kept unchecked: `CreateExecutionAttempt`
looks at neither the status of the execution nor the end of the previous
attempt, and an attempt may be appended to an execution that is over.

### RunnerHost

One JavaScript process. `pc[r]` is where the handler of request `r` awaits
(`preparing`, `materializing`, `attesting`, `cleanup`, `started`, `revoking`,
`rollback`, `waiting`); `cpc[c]` the same for a control call. Generations are
compared with remembered values only, so the model keeps the outcome of the
comparison: `stale` (control generation) and `revoked` (containment
generation). `Stubborn` requests have a process tree that outlives every
termination. The cancellation barrier is kept in its steps: two sweeps, check,
cancel the active ones, await completions, await admissions, a second pass.

### EventStream

The attempts of one execution, one after the other, over one spool. `Emit`
numbers and spools, `Read` takes the events from the cursor on, together with
the status (over HTTP the status is taken first). These are a set, `batch`, which
`Yield` takes in the order of `Before`: by number, and of one number in the order of
the file. It moves the cursor and passes over events of other attempts in the
order the code does. `Judge` is the check of integrity.

### CompletionSaga

Workers are the coordinator and a starting daemon. A worker looks at the task
(`LookAtTask`), sends the command with the version it saw (`Execute`), and so four
times, under the keys `record`, `verify`, `verification` and `review`. `Replayed` is
the lookup of the idempotency record: same payload and a success, the answer
again; otherwise refusal or conflict. `Interfere` is another client of the task,
with seven kinds of change. `Crash` forgets a worker's memory. The package is
built or not; the review authority is external and gives a verdict or none.

### SingleAgentRun, AgentSlot

`pc` is the last durable step of the coordinator; `Fails` is an exception at any
of them and leads through `Cancel`, `Quarantine`, `FailAttempt`, `Decide`,
`RecordFailure` (handleRunFailure); `CoordinatorStops` is a crash. A daemon goes
through `Look`, `KillTree`, `QuarantineOrphan`, `RecordRecovery`, `EndAttempt`,
`EndExecution`, `Sweep` to `ready` and may fail or die at each. `seen` is the
copy it works with, `seen.fresh` whether its version still is the stored one.
The daemon may do all this while a coordinator is alive.

`AgentSlot` is the promise without the mechanism: one slot, attempts take it in
increasing order and only when it is free. `SingleAgentRun` is shown to
implement it with

    slot <- the last attempt whose process is alive
    used <- the last attempt that has had a process

The runner's states are kept per execution. An attempt whose start failed before it
had a process is answered with the state of an earlier one, which has exited, and
is then cancelled without a complaint (`HasStaleState` in `Cancel`).

A process is alive also when its identity cannot be proven any more after its
daemon died (`unproven`): the code refuses to kill it, and no later attempt may
start while it might run.

### TaskGovernance

The task with its contract revisions, evidence and verdicts, under the shipped
workflows and the policy *safe-default*. `Valid` is `isVerdictDependencyValid`,
`GuardsHold` the guards of `transitionTask`, `PolicyAllows` the policy's rule for
planning. `ArtifactChanges` is a change of the artifacts behind evidence, which
happens outside the bus. Versions, idempotency and audit are those of
`ExecutionBus` and not repeated.

Kept as the code has it: a migration may map to any stage of the other workflow,
the last one included, and leaves the status OPEN; a revision that was left
PROPOSED may be approved after a newer one; in workflow 1.1.0 the stage
*planning* is called *design* and the policy's rule does not match it. Left out:
`GrantApproval` and approvals of single operations (the one human approval the
shipped policy asks for is the approval of the contract), the rule on
credential reviews, principals and roles.

### OperationsQueue

One action per method of `SqliteOperationsStore` that writes; each is a
transaction. `job` is the row, `attempts[j]` the outcomes of its attempts,
`receipts` the effect receipts. Of the times the model keeps what is compared:
a lease has run out (`late`), a backoff is over (`due`), and whose time the row
was last written with (`by`), which is what `assertCausalTime` compares. `Owner`
gives each worker the name it claims under; two workers may share it. A worker
is assumed to claim within one lease of reading its clock.

### MemoryStore

Each method of the store is a transaction; what a process has read stays with it
until its next action (`glance` before a correction or a forgetting, `snapshot` in a
rebuild of the index, `todo` in a deletion). A `deletion` job goes through `PURGE`,
`VERIFY`, `INDEX`, `FORGET`, `CLOSURE` to `COMPLETE`; it can fail or its process can
die at each (`Mishap`s), and `Reconcile` takes it up from what is on record. Its
`Fence` keeps anything from being derived from what it deletes. `LEGAL_DELETE` stands
for `SECRET_PURGE` as well. Each revision names one artifact file.

### IncidentClosure

Extends the two modules above; the incident is one, the n-th closing has memory
n and job n. A replay is awaited between two transactions. Closing is four
commits: the revision that closes, the batch, the memory, and instead of the
memory the job, so that another closer, another observation or a death may come
between any two. Workers run `processNextMemoryWrite` on the queue. Everything that
`MemoryStore` allows goes on meanwhile.

### CodexTokens

The credential store and `getValidCodexToken`. The store is read and written whole
between two awaits, so each such stretch is one action. `call[c].pc` is where a
call is: it polls for the lock file, has presented the grant (`FETCH`), has the
answer (`REPLY`), has settled its promise, waits for the promise of another call, was
woken by it, or has a token or an error. `refreshing` is the map of promises,
`lockFile` the files, which outlive the daemon (`DaemonRestarts`) and grow stale.
The authorization server is external: a grant in force is answered with its
successor (`Rotates`) or without one (`Renews`), any may be refused (`Refuses`), and no
answer may come, or be lost (`FetchFails`). `loggedIn`, `lost` and `shared` are
history. Once a promise is settled, what awaits it goes on before the next event.

### CodexRouting

Extends `CodexTokens` with the pool, the active account, health, usage and the
thread affinities. A request is routed (`Route`), awaits its token, is checked again
(`Authorized`), is built and sent with what was checked, or not at all (`Send`), and
its outcome is recorded when the upstream answers (`RecordOutcome`). `SENT` lasts
through all that `fetchWithTransientRetry` does, which sends the same headers again
after pauses. Logins, imports, deletions and switches by hand come in
between; calls without a request are those of quota pages and of the guardian.
Its specification implements that of `CodexTokens` (proved, section 6).

### ProviderFailover

`req[r]` is the handler of a request: the target it has picked, the targets it has
tried, the key it carries (its own copy of the configuration), the key to select
when its answer is complete (`pending`) and the one that was selected when the
first key failed (`expected`). `pool`, `selected` and `cooling` are the configuration and
the cooldowns of keys, `benched` those of targets, `sticky`, `successes` and `credit`
the smooth weighted round-robin. `RateLimits` is a 429 with everything that follows
before the next await; `Completes` the commit at the end of the stream. The user's
edits are saved before their cooldowns are cleared (`clearing`).

## 4. Runs

Counts are of distinct states; every run ends within two minutes with two
workers. Instances marked with scenarios explore one part of the system at a
time: the initial state says which, and the scenario never changes.

| Run | Instance | Shows |
|---|---|---|
| `bus` | 1 execution, 2 attempts, budgets 1 and 2; scenario *lifecycle*: versions to 13; *repetition*: versions to 5, 1 repeatable key, 2 event ids, 2 numbers; 53 thousand states | `AttemptsNumbered`, `PinnedBudget`, `AuditChain`, `KeyActsOnce`, `RuntimeEventOnce`, `OutcomeIsFinal` |
| `runner_lease` | 2 starts of one execution, 2 overlapping control calls; 0.9 million | `WorkHoldsLease`, `ClosedIsEmpty` |
| `runner_control` | 1 start that does not die, 1 verification that does or does not, 1 control call; or (*events*) 2 attempts, 3 numbers, a runtime that repeats and skips numbers; 0.12 million | `CancellationIsComplete`, `HostAnswers`, `FirstStreamWhole`, `DeliveredInOrder`, `StreamEnds` |
| `events_retry` | 2 attempts, 2 numbers, a correct runtime | `StreamComplete` is **violated** |
| `execution` | scenario *run*: 2 attempts, 2 faults of daemons; *saga*: coordinator and daemon, 7 kinds of interference up to version 4 of the task, 1 crash; 0.77 million | `EndedWhole`, `RetryIsolated`, `Recovered`, refinement `OneAgent`; `OutcomeIsTrue`, `ReviewAfterEvidence`, `FinishesUndisturbed` |
| `saga_refused` | daemon alone; required evidence is supplied late | `ResumesAfterRefusal` is **violated** |
| `agent_early` | 1 attempt, 1 fault | `ExecutionsTerminalized` is **violated** |
| `task` | 2 workflows, 2 contract revisions, 2 criteria, 2 evidence records, 2 verdicts, 2 commits; 2.3 million | `OneContractInForce`, `VerdictGrounded`, `CompletedOnMerit`, `TerminalIsClosed` |
| `memory` | scenarios *queue*, *erasure*, *investigation*, *closing*, *retry*; 2 jobs of 2 attempts, 2 workers under one name, 2 memories of 2 revisions, 1 deletion, 1 mishap; 2 proposals, 2 closers, 2 closings, 8 revisions of the incident, 1 slip; 0.3 million | `AttemptsTell`, `LeaseProtectsHolder`, `RecallableIsKept`, `CompletedIsErased`, `DeletedStaysDeleted`, `DeletionEnds`, `ClosedIsGrounded`, `ClosureNotForgotten`, `JobSettles` |
| `accounts` | scenarios *refresh*, *shared*, *outcomes*, *refusals*, *accounts*; 2 accounts, 2 calls, 1 thread, 3 logins, 1 rotation, generations to 3, 2 failures; 0.2 million | `CredentialIsCurrent`, `GrantPresentedOnce`, `SentAsChecked`, `ThreadMovesForCause`, `CallEnds` |
| `accounts_switch` | scenario *accounts* with 1 call and 2 logins | `BoundThreadStays` is **violated** |
| `failover` | scenarios *keys*, *targets*; 2 requests, 2 targets of weights 2 and 1 in a round-robin with sticky limit 2, pools of 3 keys and 1; 0.27 million | `KeyMovesForCause`, `FailoverEnds` |

Each module also has a `TypeOK` that documents the ranges of its variables. It
holds in all these instances and is not listed with the runs; it is proved, except
for the rotation of `ProviderFailover` (section 6).

Why the bounds are enough:

* **Bus.** Aggregates do not look at each other except through an attempt's
  owner and the pinned revision, so one of each kind and two attempts contain
  every pair of commands that can meet. Thirteen versions are a whole life with
  a retry up to a terminal status; five are enough for two runtime events in one
  attempt, or one in each of two, and for every way to repeat them. Both are
  covered beyond any bound by section 6.
* **Host.** Two starts of one execution are needed for a lease to be taken over,
  two control calls for a barrier to be overtaken. With more of either, pairs
  behave as they do here: a handler compares with shared state only.
  `WorkHoldsLease` is checked with processes that can be terminated, so
  `LeaseNext` lists the steps without those of processes that cannot; with one
  of these it fails for the reason given in section 7 for the unconfirmed
  termination.
* **Events.** Three numbers are a gap with an event on both sides; two attempts
  are the least in which numbers repeat. `FirstStreamWhole` is the claim for
  the attempt in which it holds, `StreamComplete` the one for every attempt.
* **Saga.** It sends at most four commands of its own, so a task's version stays
  below `MaxVersion + 4`; four foreign commands allow one between any two of
  them. Two workers are all there are; one crash leaves the other or a
  restarted worker to resume.
* **Agent run.** Two attempts are one retry. Two faults are a daemon that dies
  or fails twice, the second time during the recovery from the first; crashes
  of the coordinator are not bounded (it has one life).
* **Task.** Two revisions are the least for a contract to be superseded under a
  verdict; the first has no plan or budget and the second asks for more. The
  workflows are reduced to the stages that have guards, with one of the two that
  wait for a verdict.
* **Memory.** Its scenarios are the queue with any callers, the store with any
  callers, the investigation of an incident up to its closing, two closings by
  two processes from an investigated incident on, and the two jobs of closings
  whose writes have failed; each starts in a state the previous one can reach.
  Two attempts of a job are one retry and the dead letters; two workers under
  one name are the least for a late one to be taken for its successor. Two
  memories are a source and what derives from it, two revisions a correction.
  One slip is one lease too short or one process that dies.
* **Accounts.** *refresh*: one account, two calls, any number of restarts, a
  second login during the refresh of the first. *shared*: one login under two
  ids. *outcomes*: what upstream answers do to two accounts and a bound thread.
  *refusals*: an account is refused and logged in anew while other requests await
  its token, or are built and sent. *accounts*: the pool changes meanwhile. One rotation makes a
  refresh token that was used; what holds of a pair of calls holds of more, as a
  call sees the others only through the store, the promise and the lock file.
  Section 6 has no bounds on calls, accounts or threads.
* **Failover.** Three keys let a request find the replacement cooling as well;
  two requests are the least to fail on one key; a removed key may come back.
  Weights 2 and 1 are the least that differ.

Symmetry is declared in `bus`, `runner_lease` and `task`, none of which has a
liveness property.

Deadlock is checked for the bus, where a client can always act. Every other
system may really stop: a closed host, an ended stream, a finished saga or run,
a cancelled task, a settled job, an answered request.

For every property of a passing run, `PROJECT.json` names a mutant: a
definition whose body is replaced by a plausible bug, given next to it in the
module under a comment that begins with *Bug*. The property fails on it, so it
does say something about the code. `HostAnswers` and `EndedWhole`, each of which
speaks of two places, have two.

## 5. Fairness

* `ExecutionBus`, `TaskGovernance`: none; nothing obliges a client.
* `RunnerHost`: weak fairness of what the host itself awaits: the steps of a
  launch, background work, the barrier. Each of those waits has a timeout in the
  supervisor or is local work on the event loop. Not fair: the adapter's
  `prepareLaunch` (it may hang for ever), clients, children that need not exit,
  failing disks.
* `EventStream`: weak fairness of the exit (the supervisor ends a process that
  exceeds its timeout), of reading, yielding and polling (a loop).
* `CompletionSaga`: weak fairness of each worker's step: the coordinator calls
  the saga, and each startup calls `resumePending`. A crash returns a worker to
  the start; crashes are finite.
* `SingleAgentRun`: weak fairness of `StartUp`: a daemon is started when none
  runs, and its startup goes on. The coordinator has no fairness, it may stop
  anywhere.
* `MemoryStore`: weak fairness of `Erase`, the steps of a deletion and its
  `Reconcile`. Nothing in `src` calls `reconcile`; `DeletionEnds` says what a caller
  that does so can rely on.
* `IncidentClosure` (`QueueIsServed`): weak fairness of `processNextMemoryWrite`; leases
  and backoffs run out, being times. Nothing in `src` calls `processNextMemoryWrite`
  either, only a test does; `JobSettles` says what whoever operates the service and
  calls it again and again can rely on. Closers have no fairness.
* `CodexRouting`: every event has its turn, lock files grow old, and the upstream
  answers or is given up on. A call's own step needs strong fairness, since
  other events on the loop come before it again and again. The authorization
  server need not answer: the fetch has a timeout.
* `ProviderFailover`: weak fairness of each request: an upstream answers or is given
  up on. Users and cooldowns have none; that keys stay in cooldown is a premise
  of `FailoverEnds` (section 7 says why it is needed).

## 6. Proofs

Eight modules hold theorems. Each theorem is about every value of the constants,
and of these assumes what the module of its component declares and TLC evaluates,
and what is said here besides. An invariant is proved by an inductive one, named
in the tables below; TLC has checked each of these on an instance before. An
action property follows from the same invariant, step by step.

| Module | About |
|---|---|
| `ExecutionBusProofs` | `ExecutionBus` |
| `RunnerProofs` | `RunnerHost`, `EventStream` |
| `CompletionSagaProofs` | `CompletionSaga` |
| `SingleAgentRunProofs` | `SingleAgentRun`, and that it implements `AgentSlot` |
| `TaskGovernanceProofs` | `TaskGovernance` |
| `IncidentClosureProofs` | `OperationsQueue`, `MemoryStore`, and `IncidentClosure`, which implements both |
| `CodexRoutingProofs` | `CodexTokens`, and `CodexRouting`, which implements it |
| `ProviderFailoverProofs` | `ProviderFailover` |

### The execution bus

`ExecutionBusProofs` proves all properties of the run `bus`, for every set of
executions, attempts, bindings, contracts, budgets, keys and events and every
bound. Assumed are `DistinctIds` (identifiers of different kinds differ) and
`Bounds` (budgets are positive, bounds natural numbers).

| Theorem | Property | Argument |
|---|---|---|
| `TypeCorrect` | `TypeOK` | inductive with `Owned`, as `Typed` |
| `AuditChainHolds` | `AuditChain` | `Typed` and `StepLogsOnce` |
| `KeysActOnce` | `KeyActsOnce` | `Typed` and `StepLogsOnce` |
| `OutcomesAreFinal` | `OutcomeIsFinal` | `Typed` and the graphs (`TerminalIsLast`) |
| `BudgetIsPinned` | `PinnedBudget` | `StepEffect` and `PinsStay` |
| `AttemptsAreNumbered` | `AttemptsNumbered` | `StepEffect`, inductive with `Unowned` |
| `RuntimeEventsOnce` | `RuntimeEventOnce` | `StepRecords`, inductive with `Recorded` |

*Types need ownership.* The type invariant is not inductive: an attempt's
transition is committed at the version of `attempt[a].owner`, and that is an
aggregate only if an existing attempt has an existing owner. `Owned` says so, and
that an execution's current attempt exists and is its own. `Typed` is both.

*Audit chain and keys.* `StepLogsOnce`: a step leaves versions and log alone and
at most answers an unanswered key, or it is one `Commit`. `Commit` appends an event
whose expected version is the stored one, which is the length of the log; this
is the chain. It carries a key only if the key was unanswered, and answers it
`ok`; a key already in the log is answered, so it is not carried again.

*Outcomes.* No edge leaves a terminal status; completion starts from `RUNNING` and
`VERIFYING`; an attempt is created only where none is.

*Numbers and budgets.* `StepEffect` reduces a step to what it does to the
entities: nothing, a new revision, a binding, an execution, an attempt (`Tries`),
or changes of status (`Moves`). Only `Tries` touches the numbers. It needs `Unowned`
(an absent attempt has no owner), so that the new attempt was not counted
before. The pinned revision is never rewritten (`PinsStay`), so the budget that
guards `Tries` is always the same one.

*Runtime events.* `Recorded`: every runtime event in the log has its receipt, and
its attempt exists and belongs to that log's execution. A new event was checked
against all receipts, by its id and by its attempt and number; hence against all
events of all logs.

### The runner host and its events

`RunnerProofs`, for every set of requests, executions and control calls, and every
number of attempts and events, with a runtime that may repeat numbers and leave
them out.

| Theorem | Property | Argument |
|---|---|---|
| `HostIsTyped` | `TypeOK` | part of `HostInv` |
| `CancellationsAreComplete` | `CancellationIsComplete` | `HostInv` |
| `ClosedHostsAreEmpty` | `ClosedIsEmpty` | `HostInv` |
| `WorkRunsUnderLease` | `WorkHoldsLease`, if `Stubborn = {}` | `HostInv` and `LeaseInv` |
| `FirstStreamsAreWhole` | `FirstStreamWhole`, if `Transport = "http"` | `StreamInv` |
| `EventsComeInOrder` | `DeliveredInOrder` | `StreamInv` |

*The barrier.* `HostInv` follows a cancellation through its two passes (`Passes`) and
says at each of its stages what is left of the requests accepted before it
(`BarrierHolds`): after a wait for the admissions that was not given up they are
answered, so none starts any more; after a second count that found nothing they
have no live process, and never will. A closed host admits no others, and a
request that has not begun has no process (`NotStarted`), so it stays empty.

*Leases.* `LeaseInv`: a live process belongs to a request that is engaged, that is, in
its start or in a status that is not over; an engaged request has its execution to
itself, and the lease of it or a host that takes no more work. The theorem is for
processes that can be terminated, as the run is: a start that was revoked gives
its lease back whether its process is gone or not (section 7).

*The stream.* `StreamInv` says that the spool's numbers are in the past of the runner,
that what was delivered lies behind the cursor (`DeliveredIsBehind`), and of a first
attempt that all events behind the cursor were delivered, the others being in the
batch or after it (`FirstIsWhole`). Over HTTP the status is read before the events,
so an ended runner has spooled all of them. Locally it is the other way round and
the property fails (section 7), hence the assumption.

### The completion saga

`CompletionSagaProofs`, for any number of workers and of crashes and any bound on what
other clients do to the task.

| Theorem | Property | Argument |
|---|---|---|
| `SagaIsTyped` | `SagaTypeOK` | part of `SagaInv` |
| `OutcomesAreTrue` | `OutcomeIsTrue` | `RecordsAreTrue` |
| `ReviewFollowsEvidence` | `ReviewAfterEvidence` | `StepsAreDone` |

A worker may write its old copy of the record over a newer one, so the property
has to hold of every copy (`RecordsAreTrue`). How far a worker has come in its steps,
so far are execution and task (`StepsAreDone`), whether it took the step itself or
found a success on record (`ReceiptsAreTrue`). What it has seen of the task is of an
earlier version or of this one (`SeenIsPast`). Types need a count of the versions:
each key of the saga acts once (`VersionsAreCounted`).

### The run of an agent

`SingleAgentRunProofs`, for any number of attempts and of faults.

| Theorem | Property | Argument |
|---|---|---|
| `RunIsTyped` | `TypeOK` | part of `RunInv` |
| `RunImplementsSlot` | `OneAgent`: `Spec => Slot!Spec` | `RunInv`; every step starts the slot's next attempt, ends the current one, or stutters |
| `RetriesAreIsolated` | `RetryIsolated` | `EarlierAreOver`, and `MayRetry` |
| `RunsEndWhole` | `EndedWhole` | `CompletedIsWhole`, `StartupIsTrue`, `SeenIsTrue` |

The core of `RunInv` is that all attempts but the coordinator's current one are over
(`EarlierAreOver`): no agent, no worktree, an end on record. To pass it on to the next
attempt, what the coordinator remembers of its own must be so (`MemoryIsTrue`):
`run.terminal` means that the agent is dead, `run.quarantined` that the worktree is out
of the way, whatever a startup did to that attempt meanwhile. On the daemon's side,
its copy of the rows is right as long as nobody has written the execution
(`SeenIsTrue`). For the refinement, `HasLast` says that of the attempts that had an
agent one is the last, so that the mapping's choice is defined. Without
`run.terminal` in `MayRetry` the proof fails, as it should.

### The governance of a task

`TaskGovernanceProofs`, for every set of criteria and commits, every sequence of
contract documents, and every bound. Besides `Constants` it assumes `Gated`: the stage
before the last of each workflow is one whose guard is `verdict.accepted`, as in both
workflows that are shipped, and there is a commit.

| Theorem | Property | Argument |
|---|---|---|
| `GovernanceIsTyped` | `TypeOK` | part of `Inv` |
| `OneContractIsInForce` | `OneContractInForce` | `InForce`, part of `Inv` |
| `VerdictsAreGrounded` | `VerdictGrounded` | part of `Inv` |
| `TasksCompleteOnMerit` | `CompletedOnMerit` | `Inv` and `Valid`, at the guard of the last stage |
| `EndedTasksAreClosed` | `TerminalIsClosed` | `Inv`; a reopening marks every verdict |

`VerdictGrounded` becomes inductive with `RefsOnRecord`: the evidence that a verdict in
force refers to is on record and for its contract, so invalidating it meets the
verdict. A command either leaves no verdict in force or leaves alone what they rest
on (`UnsettledIsGrounded`).

### The queue, the memory store and the incident

`IncidentClosureProofs`, for every set of jobs, workers and owner names, memories,
deletions, proposals and closers, and every bound. Assumed are `QueueConstants` (at
least one attempt is allowed), `MemoryConstants` (bounds are natural numbers, one
revision is allowed) and `ClosureConstants` (the same, and a closing's number is one of
a job and of a memory).

| Theorem | Property | Argument |
|---|---|---|
| `QueueIsTyped` | `QueueTypeOK` | part of `QueueInv` |
| `AttemptsAlwaysTell` | `AttemptsTell` | part of `QueueInv` |
| `SettledJobsStay` | `SettledStays` | `QueueInv`; every step asks for a job that is waiting or active |
| `LeasesProtect` | `LeaseProtectsHolder` | the same, and `CausalTime` |
| `MemoryIsTyped` | `MemoryTypeOK` | part of `MemoryInv` |
| `RecallIsOnRecord` | `RecallableIsKept` | part of `MemoryInv` |
| `CompletedDeletionsErase` | `CompletedIsErased` | `DeletionInv`; what the plan does not name is `Late` |
| `DeletionIsFinal` | `DeletedStaysDeleted` | `MemoryInv`, step by step |
| `IncidentIsTyped` | `TypeOK` | part of `IncidentInv` |
| `IncidentImplementsQueue` | `IncidentSpec => QueueSpec` | each step of the composition is one of the queue or leaves it alone |
| `IncidentImplementsMemory` | `IncidentSpec => MemorySafety` | the same of the store |
| `ClosedIncidentsAreGrounded` | `ClosedIsGrounded` | `ReadIsGrounded` |
| `ClosuresAreRemembered` | `ClosureNotForgotten` | `Known` |
| `IncidentKeepsQueueAndMemory` | the properties of both parts, of `IncidentSpec` | the two refinements |

*The queue.* `QueueInv` adds to types and `AttemptsTell` that a job not yet enqueued has
no attempts and no receipt (`AbsentIsNew`). What `AttemptsTell` says of one job is the
operator `Tells`; a method of the store either leaves the outcomes alone, and
moves the job between states that say the same of them, or ends an attempt
(`EndOfAttemptTells`). That a waiting or active job has an attempt left makes it
inductive: the attempt that ends is then not beyond the last. A claim takes back
the expired leases of all jobs at once, so it is done job by job.

*The store.* A deletion is long, so its invariant says what each stage has reached
and keeps: what it planned is known (`PlanIsKnown`), what was purged stays purged
(`PurgedStaysPurged`), and once its closure was found complete nothing can come to
derive from what it fences (`ClosureStays`), since every action that derives asks the
fences of all deletions. What is no longer kept has a tombstone
(`DeletedIsEntombed`), so nothing is written over it.

*The incident.* `ReadIsGrounded`: if the incident still has the revision that a closer
has read, the grounds it found are there; the commit compares revisions. `Known`
ties closers, batches, jobs and workers to one another: whoever works on a closing
works on one that was committed, in the memory and under the job of its number.
The steps of the composition are then sorted by what they do to each part
(`StepsOfParts`), which gives both refinements and their properties here for free.

### The accounts

`CodexRoutingProofs`, for every set of accounts, callers and threads and every bound;
assumed are `TokenConstants` (bounds are natural numbers, None is none of the values)
and `RoutingConstants` (a positive threshold).

| Theorem | Property | Argument |
|---|---|---|
| `TokensAreTyped` | `TokensTypeOK` | part of `TokensInv` |
| `CredentialsAreCurrent` | `CredentialIsCurrent`, of `TokensSpec` | `TokensInv` |
| `GrantsArePresentedOnce` | `GrantPresentedOnce`, of `TokensSpec` | `TokensInv` and `GrantInv` |
| `RoutingUsesTokens` | `Spec => TokensSpec` | each step of `CodexRouting` is a step of `CodexTokens` or leaves `tokens` alone |
| `RoutingIsTyped` | `TypeOK` | `RoutingInv` |
| `RoutedCredentialsAreCurrent`, `RoutedGrantsArePresentedOnce` | the two, of `Spec` | the refinement |
| `RequestsAreSentAsChecked` | `SentAsChecked` | `RoutingInv`, the check in `Authorized`, and that no other step touches the call of a request under way |
| `ThreadsMoveForCause` | `ThreadMovesForCause` | `RoutingInv`, route by route |

*Why the newest credential is kept.* A refresh saves over what it has read only if
the generation is the same. That is enough for the account it leads; it is not
for a call that has waited for the refresh of another, which saves if its account
still has the *grant*. A grant is in two accounts only if both had part in one login
(`SharedByTwo`), as holder of a credential or by a call that is to refresh it. `TokensInv`
therefore ties three things together: what an account holds (`AccountInv`), what is
known of each call (`CallInv`: if the generation it has read is still the
account's, the grant is still the one it presents), and `SharedByTwo`.

*Why a grant is presented once.* A call that leads a refresh is the one registered
for its grant (`OneLeader`), and only a leader presents. But registration ends when
the promise is settled, and calls that were polling or waiting go on after that.
`GrantInv` says why they do not present the old grant: while one is with the server
the store has no other of that login and has it as it was read (`StoreWaits`), what
the store has is in force or its successor is about to be received
(`StoreIsSound`), and until the calls that were woken have gone on, the account they
are for is fresh (`SettledIsFresh`, `WokenAlone`). None of it is claimed of a login of
which an answer was lost, or which is known under two ids (`Unsure`).

*Routing.* `RoutingInv` adds its types and `RequestOf`: a request that is under way is
for an account. A request is built only on a call that is `DONE`, whose generation
`ContextUsable` compares with the store's, so `CallInv` says that its token is of the
account's login then. From there on nothing but `Send` and `RecordOutcome` touches
the call. That the token stays in force is not claimed, since it need not (section 8).

### The failover

`ProviderFailoverProofs`, for any number of requests, targets and keys, both
strategies and all weights; assumed is `FailoverConstants` (a provider's keys are
distinct and at least one, every target is in the order).

| Theorem | Property | Argument |
|---|---|---|
| `RetriesAreGrounded` | `PendingServes`, `SelectedInPool`, `CoolingIsExhausted` | parts of `FailoverInv` |
| `KeysMoveForCause` | `KeyMovesForCause` | `FailoverInv`; only `Completes` changes a request and a selection together |

`PendingServes`: the key that waits to be selected is the one the request carries,
and the key that was selected when the first one failed is exhausted, or is the
waiting key itself, which somebody else had selected before. It rests on
`SelectedInPool`: a selected key is passed over by `Replacement` only because it failed
or is cooling, and what is cooling is exhausted (`CoolingIsExhausted`). Which target
is picked does not matter for this. Of the types only the shapes are proved: the
round-robin's `credit` is a sum over a set, a fold, and beyond the prover.

### What is only model-checked

Every safety property of a run (invariants and action properties) is stated by a
theorem above. TLC alone checks liveness under fairness (`HostAnswers`, `StreamEnds`,
`FinishesUndisturbed`, `Recovered`, `JobSettles`, `DeletionEnds`, `CallEnds`,
`FailoverEnds`), which is out of the prover's reach, as would be induction over
recursive definitions, of which the modules have none; `credit` in the `TypeOK` of
`ProviderFailover`; `WorkHoldsLease` and `FirstStreamWhole` have the conditions named
above in proofs and runs alike.

## 7. Where code and documents disagree

Four runs have a property that a document states and the code does not keep.
Each counterexample is short, and `PROJECT.json` quotes the lines.

* `events_retry`: at-least-once delivery
  (`docs/architecture/phase-2-safe-execution.md:61`). Spool and cursor are per
  execution, sequence numbers per attempt. A retry's events whose numbers the
  first attempt used are passed over, and integrity reports no gap.
* `saga_refused`: a key's first *successful* result is persisted
  (`docs/architecture/adr/ADR-005-command-idempotency.md:7`). The bus persists
  refusals too. The saga's keys are fixed, so one refusal makes it, and each
  later startup of the daemon, fail for good.
* `agent_early`: startup terminalizes durable orphans
  (`docs/architecture/phase-2-acceptance-matrix.md:47`). An execution whose
  coordinator died before a workspace intent existed makes each startup fail.
* `accounts_switch`: a bound thread keeps its account when the user switches by hand
  (`docs-site/src/content/docs/guides/web-dashboard.md:68`). A binding holds for one
  generation of the credential, and a refresh of the token begins another; the
  thread's next request then goes to whichever account is active.
  `ThreadMovesForCause` says what does hold: without such a save, it stays.

Met while modelling, each in the model as it is in the code, so that a property
is worded around it:

*The execution kernel*

* An unconfirmed termination should degrade the host
  (`phase-2-safe-execution.md:63`). It does for executions, by their monitor; for
  verification commands, and for starts revoked by a control call, the error is
  thrown to the caller and the host goes on (`local-runner-host.ts:354`).
* A late `execution.started` event overwrites `INTERRUPTED`
  (`local-runner-host.ts:584`).
* The in-process reader takes the status after the events
  (`local-runner-host.ts:456`): with `Transport = "local"` an event spooled just before
  the exit is not read, in the first attempt already. Coordinators use HTTP.
* A second worker writes its older copy of a saga record over `DONE`
  (`completion-saga.ts:93`); the next startup finishes it once more.
* A coordinator that dies between FAILED and the failure package leaves none
  (`single-agent-coordinator.ts:642`); a worktree may be made after startup has
  quarantined its intent (`git-worktree-manager.ts:144`); a retry may append an
  attempt to an execution that startup has ended (phase 2 `command-bus.ts:403`).
* An older revision that was left PROPOSED is approved after a newer one and
  supersedes it (phase 1 `command-bus.ts:515`); a migration may put an OPEN task into
  the terminal stage, which no transition leaves (`:662`).
* An ingestion job of phase 6 whose lease expired is claimed again whatever its
  limit of attempts (`phase6/persistence/sqlite-store.ts:341`).
* The retry policy compares the decisions that led to earlier attempts with
  `bounded-single-agent-run` (`single-agent-coordinator.ts:601`), which is no decision,
  so a threshold above one on similar actions cannot trip.

*Memories*

* `SECRET_PURGE` "must clear every cache, index, and artifact copy"
  (`docs/architecture/phase-6-memory-os-scope.md:67`, and `:73` on the closure that is
  planned). A memory may be corrected while its deletion is under way:
  `appendRevision` asks the fences for what the revision refers to, not for the
  memory itself (`phase6/persistence/sqlite-store.ts:67`). The new revision is forgotten
  with the record, but its artifact is not in the plan and is never purged, and it is
  not fenced, so that other memories may derive from it. `CompletedIsErased` therefore
  excepts revisions later than the plan (`Late`), and claims nothing of them.

*The accounts*

* Two ids may share one login (an import). While one of them waits for a lock
  file and is logged in anew, the other takes its new credential for the outcome
  of the refresh; hence `shared` in the properties.
* A network timeout during a refresh marks the account as to be logged in again,
  like a refusal (`auth-context.ts:136`).
* A 401 that arrives after a new login marks the new login
  (`routing.ts:437`): an outcome is recorded by account, without its generation.
* A login that finishes after its account was deleted brings it back
  (`auth-api.ts:660`).
* The lock file is empty for a moment after it is made and counts as stale then
  (`account-store.ts:275`); two processes on one store would also overwrite each
  other's changes. One daemon is modelled, in which neither occurs.

*The failover*

* A comment promises one retry per remaining key (`server/responses.ts:1767`). A
  cooldown may be as short as the `Retry-After` of a provider and run out while the
  other keys are tried, so there is no bound; hence the premise of
  `FailoverEnds`.
* A key that was removed while a request uses it is not cooled, and may be added
  again as healthy.
* The commit of a key is to happen "without overwriting a concurrent/manual switch"
  (`key-failover.ts:176`). It compares keys, not choices: a user who selects another key
  and then again the one that had failed has the choice overwritten by a request
  that began before. `KeyMovesForCause` promises no more than that another key
  stands, and that what is replaced is exhausted.
* A retrying request that must leave out the sticky target ends its stickiness for
  all requests.

## 8. What is not modelled

* Of modelled components: signed review receipts, the ways each platform
  contains a process tree, a host's restart (`RunnerHost`); the mapping of runtime
  output to event types (`EventStream`); what a completion package contains and
  the rest of the Phase 1 bus (`CompletionSaga`); discovery, context compilation,
  policy and verification, which are outcomes here: go on, or throw
  (`SingleAgentRun`); approvals and risk (`TaskGovernance`); priorities and payloads
  of jobs (`OperationsQueue`); candidates, ingestion jobs, retrieval, injections,
  conflicts (`MemoryStore`); triage, containment, supersession of a cause
  (`IncidentClosure`); the main account, several processes, WebSockets, quota
  priming (`CodexTokens`, `CodexRouting`); answers that are no streams, OAuth quota
  failover, retries after 401 and 413, key references to the environment
  (`ProviderFailover`).
* Steps left out of modelled functions, which the properties claim nothing about:
  * `CodexRouting`: a token is checked once (responses.ts:1046) and not again before it
    is sent (responses.ts:1196) or sent again after pauses of up to five seconds each
    (lib/upstream-retry.ts:161-216). A login, a deletion or a refusal in
    between goes unnoticed until the upstream answers. `Send` allows this, and
    `SentAsChecked` says no more than that what is sent is what was checked.
    Requests without a thread (routing.ts:341-410) bind nothing and are left out, as is
    the loss of other threads' bindings when one is bound
    (`pruneExpiredThreadAffinities`, routing.ts:178-182), which concerns bindings
    that have expired and would be dropped on their next use.
  * `RunnerHost`: when the leader of a tree exits by itself and leaves descendants, the
    supervisor ends these too, and the exit counts as a protocol error
    (process-supervisor.ts:394-430). Should one of them survive, the host still
    records `EXITED`. `Exit` is the end of the whole tree.
  * `ProviderFailover`: the copy a request has of a provider shares the array of its
    keys, unless the provider had no such array when it was copied. The pool of
    the model always holds keys, so that the copy has two whenever the stored one has.
* The decision to retry. `Decide` leaves it open, which contains what
  `retry-policy.ts` decides.
* Two databases as one store: SQLite's own atomicity and durability are
  assumed.
* Time: timeouts may fire whenever what they wait for has not happened; leases,
  backoffs and cooldowns may run out at any time.
* Review rounds, routing budgets, OAuth accounts and the subagent bridge:
  planned (section 9). Model lab, response bridge, server, adapters, CLI and the
  administrative parts: not planned, since they are wire formats, arithmetic and
  sequential I/O that unit tests reach. They, with the GUI and the generated
  protocol code, are most of the repository's lines: the definitions here
  translate a few percent of them.

## 9. Plan

Done, in this order: `ExecutionLifecycle` and `ExecutionBus`, `RunnerHost`, `EventStream`,
`CompletionSaga`, `AgentSlot` and `SingleAgentRun`, `TaskGovernance`; `OperationsQueue`,
`MemoryStore`, `IncidentClosure` over both, `CodexTokens` and `CodexRouting`,
`ProviderFailover`; for each, the proofs of its safety properties.

To prove next:

1. `CodexTokens`: the safety of the lock file, that is, that two processes on one store
   do not both believe to hold it while it is not stale; it needs a second process
   in the model.
2. `WorkHoldsLease` with processes that cannot be terminated, for the executions whose
   starts were not revoked.
3. `ExecutionBus` as an implementation of a registry of executions without versions and
   keys, which `SingleAgentRun` could be composed with.

To model, if the project grows:

1. `RetryPolicy`: the pure decision on histories against a declarative
   definition, and `SingleAgentRun` with it in place of `MayRetry`.
2. `ReviewRounds` (Phase 3) composed with `CompletionSaga`, which has it as an
   external answer; the budget of Phase 5; approvals in `TaskGovernance`.
3. OAuth accounts with their guardian, next to `CodexTokens`; the subagent
   bridge's transaction over files.

## 10. Running the tools

In this directory, for instance:

    tlc -workers 2 -config ExecutionBus.cfg MCExecutionBus
    tlapm ExecutionBusProofs.tla

Each run's module and configuration are in `PROJECT.json`. The configurations
give constants their values and replace no definition.
