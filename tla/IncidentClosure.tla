-------------------------- MODULE IncidentClosure --------------------------
(***************************************************************************)
(* One incident of phase 7 from its first observation over its closing to  *)
(* the memory that the closing leaves: IncidentIntelligenceService         *)
(* (src/oef/phase7/application/service.ts) with the gates of               *)
(* core/incident.ts and the registry (persistence/sqlite-store.ts).  It    *)
(* composes the service with the memory store it writes to and with the    *)
(* operations queue that repeats a write which failed.                     *)
(*                                                                         *)
(* A command reads the incident, appends a revision to what it has read    *)
(* and is refused if the incident has another revision by then; most are   *)
(* over before another process gets in and are one action.  Two are not:   *)
(* a replay is awaited between reading and writing, and closing is four    *)
(* commits.  The three records of a closure are written in one transaction *)
(* and are one memory here; its n-th closure has memory n and job n.  Of   *)
(* the hypotheses the latest is kept, triage, containment and playbooks    *)
(* are left out: they gate nothing of this.                                *)
(***************************************************************************)
EXTENDS OperationsQueue, MemoryStore

CONSTANTS
  Proposal,             \* remediation proposals
  Closer,               \* processes that close the incident
  MaxIncidentRevision,  \* bound: revisions of the incident
  MaxClosures,          \* bound: closings of the incident
  MaxSlips              \* bound: deaths, and leases that run out under a worker

Closure == 1..MaxClosures

ASSUME ClosureConstants ==
  /\ Closure \subseteq Job /\ Closure \subseteq Memory
  /\ MaxIncidentRevision \in Nat \ {0} /\ MaxClosures \in Nat /\ MaxSlips \in Nat

VARIABLES
  incident,    \* the current revision: number, status, reproduction, cause
  hypothesis,  \* status of the latest hypothesis
  evidence,    \* [Proposal -> what is on record for it]
  replay,      \* revision that a replay under way has read, or 0
  closing,     \* [Closer -> where it is, the revision it read, its closure]
  closedAt,    \* revisions that closed the incident, oldest first
  batches,     \* closures whose memory batch is saved
  work,        \* [Worker -> where it is, the job it has claimed]
  slips        \* deaths, and leases that ran out under a worker, so far

investigation == <<incident, hypothesis, evidence, replay>>
closures == <<closing, closedAt, batches>>
vars == <<queue, memory, investigation, closures, work, slips>>

Gate == {"PROPOSED", "FAILS_BEFORE", "PASSES_AFTER", "APPROVED"}

CloserIdle == [pc |-> "IDLE", rev |-> 0, closure |-> 0]

WorkerIdle == [pc |-> "IDLE", job |-> 0]

IncidentTypeOK ==
  /\ incident \in [rev : 1..MaxIncidentRevision, status : {"OPEN", "CLOSED"},
                   repro : {"NOT_ATTEMPTED", "REPRODUCIBLE", "NON_REPRODUCIBLE"},
                   cause : {"UNCONFIRMED", "CONFIRMED"}]
  /\ hypothesis \in {"NONE", "ACTIVE", "SUPPORTED", "REJECTED"}
  /\ evidence \in [Proposal -> SUBSET Gate]
  /\ replay \in 0..MaxIncidentRevision
  /\ closing \in [Closer -> [pc : {"IDLE", "READ", "COMMITTED", "SAVED", "UNWRITTEN"},
                             rev : 0..MaxIncidentRevision, closure : 0..MaxClosures]]
  /\ closedAt \in Seq(1..MaxIncidentRevision) /\ Len(closedAt) <= MaxClosures
  /\ batches \subseteq Closure
  /\ work \in [Worker -> [pc : {"IDLE", "CLAIMED", "STARTED", "WRITTEN", "FAILED"},
                          job : Job \cup {0}]]
  /\ slips \in 0..MaxSlips

TypeOK == QueueTypeOK /\ MemoryTypeOK /\ IncidentTypeOK

IncidentInit ==
  /\ QueueInit /\ MemoryInit
  /\ incident = [rev |-> 1, status |-> "OPEN", repro |-> "NOT_ATTEMPTED",
                 cause |-> "UNCONFIRMED"]
  /\ hypothesis = "NONE"
  /\ evidence = [p \in Proposal |-> {}]
  /\ replay = 0
  /\ closing = [x \in Closer |-> CloserIdle]
  /\ closedAt = << >> /\ batches = {}
  /\ work = [w \in Worker |-> WorkerIdle]
  /\ slips = 0

-----------------------------------------------------------------------------
(* Investigation. *)

Revise(status, repro, cause) ==
  /\ incident.rev < MaxIncidentRevision
  /\ incident' = [rev |-> incident.rev + 1, status |-> status,
                  repro |-> repro, cause |-> cause]

\* A correlated observation is attached, and opens an incident that was closed.
AttachObservation ==
  /\ Revise("OPEN", incident.repro, incident.cause)
  /\ UNCHANGED <<hypothesis, evidence, replay>>

Hypothesize(from, to) ==
  /\ hypothesis \in from /\ hypothesis' = to
  /\ Revise(incident.status, incident.repro, incident.cause)
  /\ UNCHANGED <<evidence, replay>>

AddHypothesis == Hypothesize({"NONE", "SUPPORTED", "REJECTED"}, "ACTIVE")

RecordExperiment(outcome) == Hypothesize({"ACTIVE"}, outcome)

ConfirmRootCause ==
  /\ incident.cause = "UNCONFIRMED" /\ incident.repro = "REPRODUCIBLE"
  /\ hypothesis = "SUPPORTED"
  /\ Revise(incident.status, incident.repro, "CONFIRMED")
  /\ UNCHANGED <<hypothesis, evidence, replay>>

ReplayBegins ==
  /\ replay = 0
  /\ replay' = incident.rev
  /\ UNCHANGED <<incident, hypothesis, evidence>>

\* Bug: the result is written over whatever revision there is by now.
LatestRevision(rev) == TRUE

SameRevision(rev) == incident.rev = rev

\* A closed incident takes no new stage, so no result either.
ReplayEnds(result) ==
  /\ replay # 0
  /\ \/ SameRevision(replay) /\ incident.status = "OPEN"
        /\ Revise("OPEN", result, incident.cause)
     \/ ~(SameRevision(replay) /\ incident.status = "OPEN") /\ UNCHANGED incident
  /\ replay' = 0
  /\ UNCHANGED <<hypothesis, evidence>>

\* A proposal, a regression run before or after it, or a review of it.
RecordEvidence(p, g) ==
  /\ g \notin evidence[p]
  /\ g # "PROPOSED" => "PROPOSED" \in evidence[p]
  /\ evidence' = [evidence EXCEPT ![p] = @ \cup {g}]
  /\ UNCHANGED <<incident, hypothesis, replay>>

Reopen ==
  /\ incident.status = "CLOSED"
  /\ Revise("OPEN", incident.repro, incident.cause)
  /\ UNCHANGED <<hypothesis, evidence, replay>>

Investigate ==
  /\ \/ AttachObservation \/ AddHypothesis \/ ConfirmRootCause \/ Reopen
     \/ \E o \in {"SUPPORTED", "REJECTED"} : RecordExperiment(o)
     \/ ReplayBegins
     \/ \E r \in {"REPRODUCIBLE", "NON_REPRODUCIBLE"} : ReplayEnds(r)
     \/ \E p \in Proposal, g \in Gate : RecordEvidence(p, g)
  /\ UNCHANGED <<queue, memory, closures, work, slips>>

-----------------------------------------------------------------------------
(* Closing. *)

HasLineage == \E p \in Proposal : evidence[p] = Gate

At(x, pc) == closing[x].pc = pc

CloseReads(x) ==
  /\ At(x, "IDLE")
  /\ incident.cause = "CONFIRMED" /\ incident.repro = "REPRODUCIBLE" /\ HasLineage
  /\ closing' = [closing EXCEPT ![x] = [pc |-> "READ", rev |-> incident.rev, closure |-> 0]]
  /\ UNCHANGED <<queue, memory, investigation, closedAt, batches>>

CloseCommits(x) ==
  /\ At(x, "READ") /\ Len(closedAt) < MaxClosures
  /\ SameRevision(closing[x].rev)
  /\ Revise("CLOSED", incident.repro, incident.cause)
  /\ closedAt' = Append(closedAt, incident'.rev)
  /\ closing' = [closing EXCEPT ![x].pc = "COMMITTED", ![x].closure = Len(closedAt')]
  /\ UNCHANGED <<queue, memory, hypothesis, evidence, replay, batches>>

\* The revision that closed the incident is still its current one.
StillClosedBy(c) == SameRevision(closedAt[c])

CloseSaves(x) ==
  /\ At(x, "COMMITTED") /\ StillClosedBy(closing[x].closure)
  /\ batches' = batches \cup {closing[x].closure}
  /\ closing' = [closing EXCEPT ![x].pc = "SAVED"]
  /\ UNCHANGED <<queue, memory, investigation, closedAt>>

CloseRefused(x) ==
  /\ \/ At(x, "READ") /\ ~SameRevision(closing[x].rev)
     \/ At(x, "COMMITTED") /\ ~StillClosedBy(closing[x].closure)
  /\ closing' = [closing EXCEPT ![x] = CloserIdle]
  /\ UNCHANGED <<queue, memory, investigation, closedAt, batches>>

\* The memory is on record as it was first written.
Written(c) == Kept(c) /\ record[c].rev = 1

\* write throws if the memory was corrected, forgotten or deleted meanwhile.
WriteMemory(c) ==
  \/ Written(c) /\ UNCHANGED memory
  \/ Create(c, {})

CloseWrites(x) ==
  /\ At(x, "SAVED") /\ WriteMemory(closing[x].closure)
  /\ closing' = [closing EXCEPT ![x] = CloserIdle]
  /\ UNCHANGED <<queue, investigation, closedAt, batches>>

\* Bug: a write that throws ends the closing.
CloseGivesUp(x) ==
  /\ At(x, "SAVED")
  /\ closing' = [closing EXCEPT ![x] = CloserIdle]
  /\ UNCHANGED <<queue, memory, investigation, closedAt, batches>>

\* For one of those reasons, or because the database is busy.
CloseWriteThrows(x) ==
  /\ At(x, "SAVED")
  /\ closing' = [closing EXCEPT ![x].pc = "UNWRITTEN"]
  /\ UNCHANGED <<queue, memory, investigation, closedAt, batches>>

CloseEnqueues(x) ==
  /\ At(x, "UNWRITTEN") /\ Enqueue(closing[x].closure)
  /\ closing' = [closing EXCEPT ![x] = CloserIdle]
  /\ UNCHANGED <<memory, investigation, closedAt, batches>>

Close(x) ==
  /\ \/ CloseReads(x) \/ CloseCommits(x) \/ CloseSaves(x) \/ CloseRefused(x)
     \/ CloseWrites(x) \/ CloseWriteThrows(x) \/ CloseEnqueues(x)
  /\ UNCHANGED <<work, slips>>

-----------------------------------------------------------------------------
(* processNextMemoryWrite *)

Step(w, from, to) ==
  /\ work[w].pc = from
  /\ work' = [work EXCEPT ![w] = IF to = "IDLE" THEN WorkerIdle ELSE [@ EXCEPT !.pc = to]]

WorkerClaims(w, j) ==
  /\ work[w].pc = "IDLE" /\ Claim(w, j)
  /\ work' = [work EXCEPT ![w] = [pc |-> "CLAIMED", job |-> j]]
  /\ UNCHANGED memory

WorkerFindsNothing(w) ==
  /\ work[w].pc = "IDLE" /\ (\E j \in Job : Overdue(j)) /\ ClaimNothing(w)
  /\ UNCHANGED <<memory, work>>

WorkerStarts(w) ==
  Step(w, "CLAIMED", "STARTED") /\ Start(w, work[w].job) /\ UNCHANGED memory

DoneBy(w) == WriteMemory(work[w].job)

WorkerWrites(w) ==
  Step(w, "STARTED", "WRITTEN") /\ DoneBy(w) /\ UNCHANGED queue

WorkerWriteThrows(w) ==
  Step(w, "STARTED", "FAILED") /\ UNCHANGED <<queue, memory>>

WorkerSucceeds(w) ==
  Step(w, "WRITTEN", "IDLE") /\ Succeed(w, work[w].job) /\ UNCHANGED memory

WorkerFails(w) ==
  Step(w, "FAILED", "IDLE") /\ Fail(w, work[w].job) /\ UNCHANGED memory

\* The job has passed to another worker, or was cancelled: the call throws.
WorkerRefused(w) ==
  /\ \E pc \in {"CLAIMED", "WRITTEN", "FAILED"} : Step(w, pc, "IDLE")
  /\ ~Holds(w, work[w].job)
  /\ UNCHANGED <<queue, memory>>

ProcessNextMemoryWrite(w) ==
  /\ \/ \E j \in Job : WorkerClaims(w, j)
     \/ WorkerFindsNothing(w) \/ WorkerStarts(w)
     \/ WorkerWrites(w) \/ WorkerWriteThrows(w)
     \/ WorkerSucceeds(w) \/ WorkerFails(w) \/ WorkerRefused(w)
  /\ UNCHANGED <<investigation, closures, slips>>

\* A process dies; its lease runs out in time.
ProcessDies ==
  /\ slips < MaxSlips /\ slips' = slips + 1
  /\ \/ /\ \E x \in Closer : ~At(x, "IDLE") /\ closing' = [closing EXCEPT ![x] = CloserIdle]
        /\ UNCHANGED work
     \/ /\ \E w \in Worker : \E pc \in {"CLAIMED", "STARTED", "WRITTEN", "FAILED"} : Step(w, pc, "IDLE")
        /\ UNCHANGED closing
  /\ UNCHANGED <<queue, memory, investigation, closedAt, batches>>

AtWork(j) == \E w \in Worker : work[w].job = j /\ Holds(w, j)

\* A lease lasts for the work it is taken for, save for some that the worker
\* is too slow for.
LeaseRunsOut(j) ==
  /\ LeaseExpires(j)
  /\ slips' = IF AtWork(j) THEN slips + 1 ELSE slips
  /\ slips' <= MaxSlips
  /\ UNCHANGED <<memory, investigation, closures, work>>

BackoffRunsOut(j) ==
  BackoffEnds(j) /\ UNCHANGED <<memory, investigation, closures, work, slips>>

\* Whoever else uses the memory store.
UseMemory ==
  MemoryNext /\ UNCHANGED <<queue, investigation, closures, work, slips>>

IncidentNext ==
  \/ Investigate
  \/ \E x \in Closer : Close(x)
  \/ \E w \in Worker : ProcessNextMemoryWrite(w)
  \/ ProcessDies
  \/ \E j \in Job : LeaseRunsOut(j) \/ BackoffRunsOut(j)
  \/ UseMemory

\* Time passes, and whoever operates the system runs workers again and again: in
\* src/ only a test calls processNextMemoryWrite.
QueueIsServed ==
  /\ \A w \in Worker : WF_vars(ProcessNextMemoryWrite(w))
  /\ \A j \in Job : WF_vars(LeaseRunsOut(j)) /\ WF_vars(BackoffRunsOut(j))

IncidentSpec == IncidentInit /\ [][IncidentNext]_vars /\ QueueIsServed

-----------------------------------------------------------------------------
(***************************************************************************)
(* An incident that is closed has its cause confirmed and reproduced, and  *)
(* one proposal with a failure before it, a pass after it and an approval: *)
(* nothing that was read before another command is closed on.              *)
(***************************************************************************)
ClosedIsGrounded ==
  incident.status = "CLOSED" =>
    /\ incident.cause = "CONFIRMED" /\ incident.repro = "REPRODUCIBLE"
    /\ \E p \in Proposal : evidence[p] = Gate

(***************************************************************************)
(* No closing that got as far as saving its batch is forgotten: its memory *)
(* was written, or there is a job for it that has not succeeded, or the    *)
(* process that closes is still at it, or one has died.                    *)
(***************************************************************************)
ClosureNotForgotten ==
  \A c \in batches : record[c].rev = 0 =>
    \/ job[c].state \notin {"ABSENT", "SUCCEEDED"}
    \/ /\ job[c].state = "ABSENT"
       /\ slips > 0 \/ \E x \in Closer : closing[x].closure = c

(***************************************************************************)
(* The write that failed when an incident was closed is settled once a     *)
(* service calls processNextMemoryWrite again and again, as none in src/   *)
(* does: it is repeated until it succeeds or its attempts are used up,     *)
(* whatever workers die or are overtaken on the way.                       *)
(***************************************************************************)
JobSettles ==
  \A c \in Closure :
    (c \in batches /\ job[c].state \in Waiting \cup Active) ~> job[c].state \in Settled
=============================================================================
