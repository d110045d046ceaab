-------------------------- MODULE OperationsQueue --------------------------
(***************************************************************************)
(* The durable job queue that the subsystems share: SqliteOperationsStore  *)
(* (src/oef/operations/persistence/sqlite-store.ts, with the transitions   *)
(* of operations/core.ts).  Every method is one transaction, so one        *)
(* action; a call that is refused changes nothing.                         *)
(*                                                                         *)
(* Callers pass the time.  A worker reads its clock before it claims and   *)
(* gives that one time to every call of the unit of work, so it never sees *)
(* its own lease expired; it is refused, by assertCausalTime, once a later *)
(* claim has written the job.  Of the times the model keeps what is        *)
(* compared: whether a lease has run out, whether a backoff is over, and   *)
(* whose time the job was last written with.  It is assumed that a worker  *)
(* claims within one lease of reading its clock.  Of the jobs that may be  *)
(* claimed any one is taken: priorities are left out.  A heartbeat only    *)
(* delays the end of a lease, which may come at any time here; nothing     *)
(* calls it.                                                               *)
(***************************************************************************)
EXTENDS Naturals, Sequences

CONSTANTS
  Job,          \* jobs, by kind and idempotency key
  Worker,       \* workers, each with one unit of work at a time
  Owner,        \* [Worker -> the name it gives as lease owner]
  MaxAttempts,  \* max_attempts of every job
  Nobody        \* no worker has written the job

ASSUME QueueConstants == MaxAttempts \in Nat \ {0} /\ Nobody \notin Worker

VARIABLES
  job,       \* [Job -> state, worker whose time it was last written with,
             \*         its lease has run out, it may be claimed already]
  attempts,  \* [Job -> outcomes of its attempts, oldest first]
  receipts   \* jobs with an effect receipt

queue == <<job, attempts, receipts>>

Waiting == {"PENDING", "RETRY_PENDING"}

Active == {"LEASED", "RUNNING"}

Settled == {"SUCCEEDED", "FAILED", "DEAD_LETTER", "CANCELLED"}

Outcome == {"SUCCEEDED", "FAILED", "LEASE_EXPIRED", "CANCELLED"}

JobRecord == [state : {"ABSENT"} \cup Waiting \cup Active \cup Settled,
              by : Worker \cup {Nobody}, late : BOOLEAN, due : BOOLEAN]

QueueTypeOK ==
  /\ job \in [Job -> JobRecord]
  /\ attempts \in [Job -> Seq(Outcome)]
  /\ receipts \subseteq Job

QueueInit ==
  /\ job = [j \in Job |->
              [state |-> "ABSENT", by |-> Nobody, late |-> FALSE, due |-> TRUE]]
  /\ attempts = [j \in Job |-> << >>]
  /\ receipts = {}

-----------------------------------------------------------------------------
\* A kind and a key that are on record give back the job they have.
Enqueue(j) ==
  /\ job[j].state = "ABSENT"
  /\ job' = [job EXCEPT ![j].state = "PENDING"]
  /\ UNCHANGED <<attempts, receipts>>

\* Bug: the attempt beyond the last one is the one that exhausts a job.
ExhaustedLate(n) == n > MaxAttempts

Exhausted(n) == n >= MaxAttempts

\* The state after the n-th attempt has failed.
AfterFailure(n) == IF Exhausted(n) THEN "DEAD_LETTER" ELSE "RETRY_PENDING"

\* Bug: only a job that was running is taken back.
RunningOverdue(j) == job[j].state = "RUNNING" /\ job[j].late

Overdue(j) == job[j].state \in Active /\ job[j].late

\* A claim first takes back every lease that has run out; of a job that was
\* running this is a failed attempt.
Reclaimed(w, j) ==
  CASE ~Overdue(j) -> job[j]
    [] Overdue(j) /\ job[j].state = "LEASED" ->
         [job[j] EXCEPT !.state = "PENDING", !.by = w, !.late = FALSE]
    [] Overdue(j) /\ job[j].state = "RUNNING" ->
         [state |-> AfterFailure(Len(attempts[j]) + 1), by |-> w,
          late |-> FALSE, due |-> FALSE]

Reconciled(j) ==
  IF Overdue(j) /\ job[j].state = "RUNNING"
  THEN Append(attempts[j], "LEASE_EXPIRED") ELSE attempts[j]

ReconcileExpired ==
  /\ attempts' = [j \in Job |-> Reconciled(j)]
  /\ UNCHANGED receipts

Claimable(w, j) == LET r == Reclaimed(w, j) IN r.state \in Waiting /\ r.due

Claim(w, j) ==
  /\ Claimable(w, j)
  /\ ReconcileExpired
  /\ job' = [i \in Job |->
               IF i = j
               THEN [state |-> "LEASED", by |-> w, late |-> FALSE, due |-> TRUE]
               ELSE Reclaimed(w, i)]

\* Nothing is eligible; the leases that have run out are taken back all the same.
ClaimNothing(w) ==
  /\ \A j \in Job : ~Claimable(w, j)
  /\ ReconcileExpired
  /\ job' = [j \in Job |-> Reclaimed(w, j)]

\* Bug: the time of the call is not compared with that of the last write.
AnyTime(w, j) == TRUE

\* The job was not written with a later time than that of the worker.
CausalTime(w, j) == job[j].by = w

\* What start, succeed and fail ask of the caller.
Holds(w, j) ==
  /\ job[j].state \in Active
  /\ Owner[job[j].by] = Owner[w]
  /\ CausalTime(w, j)

Start(w, j) ==
  /\ Holds(w, j) /\ job[j].state = "LEASED"
  /\ job' = [job EXCEPT ![j].state = "RUNNING", ![j].by = w]
  /\ UNCHANGED <<attempts, receipts>>

\* The end of an attempt, in the transaction that writes the new state.
Finish(w, j, outcome, state) ==
  /\ attempts' = [attempts EXCEPT ![j] = Append(@, outcome)]
  /\ job' = [job EXCEPT ![j] = [state |-> state, by |-> w, late |-> FALSE,
                                due |-> state # "RETRY_PENDING"]]

\* A job with a receipt answers a second call from it.
Succeed(w, j) ==
  /\ j \notin receipts
  /\ Holds(w, j) /\ job[j].state = "RUNNING"
  /\ Finish(w, j, "SUCCEEDED", "SUCCEEDED")
  /\ receipts' = receipts \cup {j}

Fail(w, j) ==
  /\ Holds(w, j) /\ job[j].state = "RUNNING"
  /\ Finish(w, j, "FAILED", AfterFailure(Len(attempts[j]) + 1))
  /\ UNCHANGED receipts

\* A failure that the caller says is not to be retried.
FailForGood(w, j) ==
  /\ Holds(w, j) /\ job[j].state = "RUNNING"
  /\ Finish(w, j, "FAILED", "FAILED")
  /\ UNCHANGED receipts

Cancellable(j) == job[j].state \in Waiting \cup Active

\* The holder, or whoever has the capability for it.
Cancel(j) ==
  /\ Cancellable(j)
  /\ Finish(job[j].by, j, "CANCELLED", "CANCELLED")
  /\ UNCHANGED receipts

-----------------------------------------------------------------------------
(* Time. *)

LeaseExpires(j) ==
  /\ job[j].state \in Active /\ ~job[j].late
  /\ job' = [job EXCEPT ![j].late = TRUE]
  /\ UNCHANGED <<attempts, receipts>>

BackoffEnds(j) ==
  /\ job[j].state = "RETRY_PENDING" /\ ~job[j].due
  /\ job' = [job EXCEPT ![j].due = TRUE]
  /\ UNCHANGED <<attempts, receipts>>

QueueNext ==
  \/ \E j \in Job : Enqueue(j) \/ Cancel(j) \/ LeaseExpires(j) \/ BackoffEnds(j)
  \/ \E w \in Worker : ClaimNothing(w)
  \/ \E w \in Worker, j \in Job :
       \/ Claim(w, j) \/ Start(w, j) \/ Succeed(w, j)
       \/ Fail(w, j) \/ FailForGood(w, j)

QueueSpec == QueueInit /\ [][QueueNext]_queue

-----------------------------------------------------------------------------
(***************************************************************************)
(* The attempts of a job tell its state: none is made beyond the limit,    *)
(* only the last one can have succeeded or been cancelled, a job waits for *)
(* a retry only while it has one left, is in the dead letters only after   *)
(* the last, and has a receipt exactly if it succeeded.                    *)
(***************************************************************************)
AttemptsTell ==
  \A j \in Job :
    LET n == Len(attempts[j]) IN
    /\ n <= MaxAttempts
    /\ \A i \in 1..n : attempts[j][i] \in {"SUCCEEDED", "CANCELLED"} =>
         i = n /\ job[j].state = attempts[j][n]
    /\ job[j].state = "SUCCEEDED" => n > 0 /\ attempts[j][n] = "SUCCEEDED"
    /\ job[j].state = "DEAD_LETTER" => n = MaxAttempts
    /\ job[j].state \in Waiting \cup Active => n < MaxAttempts
    /\ (j \in receipts) <=> (job[j].state = "SUCCEEDED")

(***************************************************************************)
(* What has been decided about a job stays: no late worker, no lease that  *)
(* runs out, no retry and no cancellation writes a settled job again.      *)
(***************************************************************************)
SettledStays ==
  [][\A j \in Job : job[j].state \in Settled =>
       job'[j] = job[j] /\ attempts'[j] = attempts[j]]_queue

(***************************************************************************)
(* While its lease lasts, only the worker that claimed a job last moves    *)
(* it, or a cancellation: a worker that was overtaken, even one that goes  *)
(* by the same owner name, cannot start or finish the work of its          *)
(* successor.                                                              *)
(***************************************************************************)
LeaseProtectsHolder ==
  [][\A j \in Job : job[j].state \in Active /\ ~job[j].late =>
       job'[j].by = job[j].by]_queue
=============================================================================
