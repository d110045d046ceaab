----------------------- MODULE IncidentClosureProofs -----------------------
(***************************************************************************)
(* Proofs about OperationsQueue, about MemoryStore and about               *)
(* IncidentClosure, which composes them: for every number of jobs,         *)
(* workers, memories, deletions, closers, proposals and closings, for      *)
(* every way the workers share owner names and for every max_attempts.     *)
(* The queue and the store keep, inside the composition, what is proved of *)
(* each alone: a step of the incident is a step of each of them or leaves  *)
(* it as it is.                                                            *)
(***************************************************************************)
EXTENDS IncidentClosure, SequenceTheorems, TLAPS

-----------------------------------------------------------------------------
(* OperationsQueue. *)

(***************************************************************************)
(* What AttemptsTell says of one job: of its state, its history and        *)
(* whether it has a receipt.                                               *)
(***************************************************************************)
Tells(s, h, receipt) ==
  /\ Len(h) <= MaxAttempts
  /\ \A i \in 1..Len(h) : h[i] \in {"SUCCEEDED", "CANCELLED"} =>
       i = Len(h) /\ s = h[Len(h)]
  /\ s = "SUCCEEDED" => Len(h) > 0 /\ h[Len(h)] = "SUCCEEDED"
  /\ s = "DEAD_LETTER" => Len(h) = MaxAttempts
  /\ s \in Waiting \cup Active => Len(h) < MaxAttempts
  /\ receipt <=> (s = "SUCCEEDED")

(***************************************************************************)
(* A job that was never enqueued has no history.  Without it the step that *)
(* enqueues one could give it more attempts than are left.                 *)
(***************************************************************************)
AbsentIsNew == \A j \in Job : job[j].state = "ABSENT" => attempts[j] = << >>

QueueInv == QueueTypeOK /\ AttemptsTell /\ AbsentIsNew

LEMMA TellsOfJobs == AttemptsTell <=> \A j \in Job : Tells(job[j].state, attempts[j], j \in receipts)
BY DEF AttemptsTell, Tells

(***************************************************************************)
(* What the end of an attempt makes of a job and its history.              *)
(***************************************************************************)
Ends(outcome, next, n) ==
  \/ outcome = "SUCCEEDED" /\ next = "SUCCEEDED"
  \/ outcome = "CANCELLED" /\ next = "CANCELLED"
  \/ outcome = "FAILED" /\ next = "FAILED"
  \/ outcome \in {"FAILED", "LEASE_EXPIRED"} /\ next = AfterFailure(n)

LEMMA AfterFailureIs ==
  ASSUME NEW n \in Nat
  PROVE  /\ n >= MaxAttempts => AfterFailure(n) = "DEAD_LETTER"
         /\ n < MaxAttempts => AfterFailure(n) = "RETRY_PENDING"
BY QueueConstants DEF AfterFailure, Exhausted

(***************************************************************************)
(* An attempt that ends leaves a history that tells the new state: the job *)
(* still had one attempt left, and no earlier one of it was final.         *)
(***************************************************************************)
LEMMA EndOfAttemptTells ==
  ASSUME NEW h \in Seq(Outcome), NEW s \in Waiting \cup Active,
         NEW o \in Outcome, NEW t,
         Tells(s, h, FALSE), Ends(o, t, Len(h) + 1)
  PROVE  Tells(t, Append(h, o), t = "SUCCEEDED")
<1> DEFINE g == Append(h, o)
<1>1. /\ Len(h) \in Nat /\ Len(g) = Len(h) + 1
      /\ \A i \in 1..Len(h) : g[i] = h[i]
      /\ g[Len(h) + 1] = o
  BY AppendProperties, LenProperties
<1>2. s \notin {"SUCCEEDED", "CANCELLED"} /\ Len(h) < MaxAttempts
  BY DEF Tells, Waiting, Active
<1>3. \A i \in 1..Len(h) : h[i] \notin {"SUCCEEDED", "CANCELLED"}
  BY <1>2 DEF Tells
<1> HIDE DEF g
<1>4. Len(g) <= MaxAttempts
  BY <1>1, <1>2, QueueConstants
<1>5. \A i \in 1..Len(g) : g[i] \in {"SUCCEEDED", "CANCELLED"} =>
        i = Len(g) /\ t = g[Len(g)]
  <2>1. ASSUME NEW i \in 1..Len(g), g[i] \in {"SUCCEEDED", "CANCELLED"}
        PROVE  i = Len(g)
    BY <1>1, <1>3, <2>1
  <2>2. o \in {"SUCCEEDED", "CANCELLED"} => t = o
    BY DEF Ends
  <2> QED BY <1>1, <2>1, <2>2
<1>6. t = "SUCCEEDED" => o = "SUCCEEDED"
  BY <1>1, AfterFailureIs, QueueConstants DEF Ends
<1>7. t = "DEAD_LETTER" => Len(g) = MaxAttempts
  BY <1>1, <1>2, AfterFailureIs, QueueConstants DEF Ends
<1>8. t \in Waiting \cup Active => Len(g) < MaxAttempts
  BY <1>1, <1>2, AfterFailureIs, QueueConstants DEF Ends, Waiting, Active
<1> QED BY <1>1, <1>4, <1>5, <1>6, <1>7, <1>8 DEF Tells, g

LEMMA EndOfAttemptTyped ==
  ASSUME NEW n \in Nat, NEW o, NEW t, Ends(o, t, n)
  PROVE  o \in Outcome /\ t \in {"RETRY_PENDING"} \cup Settled
BY AfterFailureIs, QueueConstants DEF Ends, Outcome, Settled

(***************************************************************************)
(* A job that moves between waiting and being at work keeps a history that *)
(* tells its state.                                                        *)
(***************************************************************************)
LEMMA OpenTells ==
  ASSUME NEW h \in Seq(Outcome), NEW s \in Waiting \cup Active,
         NEW t \in Waiting \cup Active, Tells(s, h, FALSE)
  PROVE  Tells(t, h, FALSE)
<1>1. s \notin {"SUCCEEDED", "CANCELLED", "DEAD_LETTER"}
      /\ t \notin {"SUCCEEDED", "CANCELLED", "DEAD_LETTER"}
  BY DEF Waiting, Active
<1> QED BY <1>1 DEF Tells

LEMMA QueueInitInv == QueueInit => QueueInv
<1> SUFFICES ASSUME QueueInit PROVE QueueInv
  OBVIOUS
<1>1. QueueTypeOK
  BY DEF QueueInit, QueueTypeOK, JobRecord
<1>2. \A j \in Job : job[j].state = "ABSENT" /\ attempts[j] = << >> /\ j \notin receipts
  BY DEF QueueInit
<1>3. Tells("ABSENT", << >>, FALSE)
  BY QueueConstants DEF Tells, Waiting, Active
<1>4. AttemptsTell
  BY <1>2, <1>3, TellsOfJobs DEF Tells
<1> QED BY <1>1, <1>2, <1>4 DEF QueueInv, AbsentIsNew

(***************************************************************************)
(* One job of a step that satisfies the invariant again: it is typed and   *)
(* its history tells its state.                                            *)
(***************************************************************************)
JobInv(r, h, receipt) ==
  /\ r \in JobRecord
  /\ h \in Seq(Outcome)
  /\ Tells(r.state, h, receipt)
  /\ r.state = "ABSENT" => h = << >>

LEMMA InvOfJobs ==
  QueueInv => \A j \in Job : JobInv(job[j], attempts[j], j \in receipts)
BY TellsOfJobs DEF QueueInv, QueueTypeOK, AbsentIsNew, JobInv

LEMMA NextOfJobs ==
  ASSUME NEW newJob, NEW newAttempts,
         job' = [j \in Job |-> newJob[j]],
         attempts' = [j \in Job |-> newAttempts[j]],
         receipts' \subseteq Job,
         \A j \in Job : JobInv(newJob[j], newAttempts[j], j \in receipts')
  PROVE  QueueInv'
<1>1. \A j \in Job : /\ job'[j] = newJob[j] /\ attempts'[j] = newAttempts[j]
                     /\ JobInv(job'[j], attempts'[j], j \in receipts')
  OBVIOUS
<1>2. QueueTypeOK'
  BY <1>1 DEF QueueTypeOK, JobInv
<1>3. AttemptsTell'
  BY <1>1 DEF AttemptsTell, JobInv, Tells
<1>4. AbsentIsNew'
  BY <1>1 DEF AbsentIsNew, JobInv
<1> QED BY <1>2, <1>3, <1>4 DEF QueueInv

(***************************************************************************)
(* One transaction on one job: the others stay as they are.                *)
(***************************************************************************)
LEMMA OneJob ==
  ASSUME QueueInv, NEW j \in Job, NEW r, NEW h, NEW got \in BOOLEAN,
         job' = [job EXCEPT ![j] = r],
         attempts' = [attempts EXCEPT ![j] = h],
         receipts' = IF got THEN receipts \cup {j} ELSE receipts,
         JobInv(r, h, got \/ j \in receipts)
  PROVE  QueueInv'
<1> DEFINE newJob == [job EXCEPT ![j] = r]
           newAttempts == [attempts EXCEPT ![j] = h]
<1>1. /\ job' = [i \in Job |-> newJob[i]]
      /\ attempts' = [i \in Job |-> newAttempts[i]]
      /\ receipts' \subseteq Job
  BY DEF QueueInv, QueueTypeOK
<1>2. ASSUME NEW i \in Job
      PROVE  JobInv(newJob[i], newAttempts[i], i \in receipts')
  <2>1. CASE i = j
    <3>1. newJob[i] = r /\ newAttempts[i] = h
      BY <2>1 DEF QueueInv, QueueTypeOK
    <3>2. (i \in receipts') <=> (got \/ j \in receipts)
      BY <2>1
    <3> QED BY <3>1, <3>2
  <2>2. CASE i # j
    <3>1. newJob[i] = job[i] /\ newAttempts[i] = attempts[i]
      BY <2>2 DEF QueueInv, QueueTypeOK
    <3>2. (i \in receipts') <=> (i \in receipts)
      BY <2>2
    <3> QED BY <3>1, <3>2, InvOfJobs
  <2> QED BY <2>1, <2>2
<1> HIDE DEF newJob, newAttempts
<1> QED BY <1>1, <1>2, NextOfJobs

(***************************************************************************)
(* The end of an attempt, whether reported or cancelled.                   *)
(***************************************************************************)
LEMMA FinishInv ==
  ASSUME QueueInv, NEW j \in Job, NEW w \in Worker \cup {Nobody}, NEW o, NEW t,
         job[j].state \in Waiting \cup Active,
         Ends(o, t, Len(attempts[j]) + 1),
         Finish(w, j, o, t),
         receipts' = IF t = "SUCCEEDED" THEN receipts \cup {j} ELSE receipts
  PROVE  QueueInv'
<1> DEFINE r == [state |-> t, by |-> w, late |-> FALSE, due |-> t # "RETRY_PENDING"]
           h == Append(attempts[j], o)
<1>1. JobInv(job[j], attempts[j], j \in receipts)
  BY InvOfJobs
<1>2. /\ attempts[j] \in Seq(Outcome) /\ Len(attempts[j]) \in Nat
      /\ j \notin receipts /\ Tells(job[j].state, attempts[j], FALSE)
  BY <1>1 DEF JobInv, Tells, Waiting, Active
<1>3. o \in Outcome /\ t \in {"RETRY_PENDING"} \cup Settled
  BY <1>2, EndOfAttemptTyped
<1>4. Tells(t, h, t = "SUCCEEDED")
  BY <1>2, <1>3, EndOfAttemptTells
<1>5. h \in Seq(Outcome)
  BY <1>2, <1>3
<1>6. r \in JobRecord
  BY <1>3 DEF JobRecord, Waiting
<1>7. t # "ABSENT"
  BY <1>3 DEF Settled
<1>8. JobInv(r, h, t = "SUCCEEDED" \/ j \in receipts)
  BY <1>2, <1>4, <1>5, <1>6, <1>7 DEF JobInv
<1>9. job' = [job EXCEPT ![j] = r] /\ attempts' = [attempts EXCEPT ![j] = h]
  BY DEF Finish
<1> HIDE DEF r, h
<1>10. (t = "SUCCEEDED") \in BOOLEAN
  OBVIOUS
<1> QED BY <1>8, <1>9, <1>10, OneJob

(***************************************************************************)
(* A lease that has run out: the job is as good as before, or its attempt  *)
(* is over.                                                                *)
(***************************************************************************)
LEMMA ReclaimedInv ==
  ASSUME QueueInv, NEW w \in Worker, NEW j \in Job
  PROVE  JobInv(Reclaimed(w, j), Reconciled(j), j \in receipts)
<1>1. JobInv(job[j], attempts[j], j \in receipts)
  BY InvOfJobs
<1>2. CASE ~Overdue(j)
  BY <1>1, <1>2 DEF Reclaimed, Reconciled
<1>3. CASE Overdue(j) /\ job[j].state = "LEASED"
  <2> DEFINE r == [job[j] EXCEPT !.state = "PENDING", !.by = w, !.late = FALSE]
  <2>1. Reclaimed(w, j) = r /\ Reconciled(j) = attempts[j]
    BY <1>3 DEF Reclaimed, Reconciled
  <2>2. r \in JobRecord /\ r.state = "PENDING"
    BY <1>1 DEF JobInv, JobRecord, Waiting
  <2>3. Tells("LEASED", attempts[j], FALSE) /\ j \notin receipts
    BY <1>1, <1>3 DEF JobInv, Tells
  <2>4. Tells("PENDING", attempts[j], FALSE)
    BY <1>1, <2>3, OpenTells DEF JobInv, Waiting, Active
  <2> HIDE DEF r
  <2> QED BY <1>1, <2>1, <2>2, <2>3, <2>4 DEF JobInv, Tells
<1>4. CASE Overdue(j) /\ job[j].state = "RUNNING"
  <2> DEFINE t == AfterFailure(Len(attempts[j]) + 1)
             r == [state |-> t, by |-> w, late |-> FALSE, due |-> FALSE]
  <2>1. Reclaimed(w, j) = r /\ Reconciled(j) = Append(attempts[j], "LEASE_EXPIRED")
    BY <1>4 DEF Reclaimed, Reconciled
  <2>2. /\ attempts[j] \in Seq(Outcome) /\ Len(attempts[j]) \in Nat
        /\ Tells("RUNNING", attempts[j], FALSE) /\ j \notin receipts
    BY <1>1, <1>4 DEF JobInv, Tells
  <2>3. Ends("LEASE_EXPIRED", t, Len(attempts[j]) + 1)
    BY DEF Ends
  <2>4. t \in {"DEAD_LETTER", "RETRY_PENDING"}
    BY <2>2, AfterFailureIs, QueueConstants
  <2>5. Tells(t, Append(attempts[j], "LEASE_EXPIRED"), FALSE)
    <3>1. "RUNNING" \in Waiting \cup Active /\ "LEASE_EXPIRED" \in Outcome
      BY DEF Active, Outcome
    <3>2. (t = "SUCCEEDED") = FALSE
      BY <2>4
    <3> HIDE DEF t
    <3> QED BY <2>2, <2>3, <3>1, <3>2, EndOfAttemptTells
  <2>6. r \in JobRecord /\ r.state = t
    BY <2>4 DEF JobRecord, Waiting, Settled
  <2>7. Append(attempts[j], "LEASE_EXPIRED") \in Seq(Outcome)
    BY <2>2 DEF Outcome
  <2> HIDE DEF t, r
  <2> QED BY <2>1, <2>2, <2>4, <2>5, <2>6, <2>7 DEF JobInv, Tells
<1> QED BY <1>2, <1>3, <1>4 DEF Overdue, Active

LEMMA ClaimInv ==
  ASSUME QueueInv, NEW w \in Worker, NEW j \in Job, Claim(w, j)
  PROVE  QueueInv'
<1> DEFINE leased == [state |-> "LEASED", by |-> w, late |-> FALSE, due |-> TRUE]
           newJob == [i \in Job |-> IF i = j THEN leased ELSE Reclaimed(w, i)]
           newAttempts == [i \in Job |-> Reconciled(i)]
<1>1. /\ job' = [i \in Job |-> newJob[i]]
      /\ attempts' = [i \in Job |-> newAttempts[i]]
      /\ receipts' = receipts /\ receipts \subseteq Job
  BY DEF Claim, ReconcileExpired, QueueInv, QueueTypeOK
<1>2. JobInv(leased, Reconciled(j), j \in receipts)
  <2>1. JobInv(Reclaimed(w, j), Reconciled(j), j \in receipts)
    BY ReclaimedInv
  <2>2. Reclaimed(w, j).state \in Waiting
    BY DEF Claim, Claimable
  <2>3. Tells(Reclaimed(w, j).state, Reconciled(j), FALSE) /\ j \notin receipts
    BY <2>1, <2>2 DEF JobInv, Tells, Waiting
  <2>4. Tells("LEASED", Reconciled(j), FALSE)
    BY <2>1, <2>2, <2>3, OpenTells DEF JobInv, Active
  <2>5. leased \in JobRecord
    BY DEF JobRecord, Active
  <2> HIDE DEF leased
  <2>6. leased.state = "LEASED"
    BY DEF leased
  <2> QED BY <2>1, <2>3, <2>4, <2>5, <2>6 DEF JobInv, Tells
<1>3. ASSUME NEW i \in Job
      PROVE  JobInv(newJob[i], newAttempts[i], i \in receipts')
  <2>1. CASE i = j
    BY <1>1, <1>2, <2>1
  <2>2. CASE i # j
    BY <1>1, <2>2, ReclaimedInv
  <2> QED BY <2>1, <2>2
<1> HIDE DEF newJob, newAttempts
<1> QED BY <1>1, <1>3, NextOfJobs

LEMMA ClaimNothingInv ==
  ASSUME QueueInv, NEW w \in Worker, ClaimNothing(w)
  PROVE  QueueInv'
<1> DEFINE newJob == [i \in Job |-> Reclaimed(w, i)]
           newAttempts == [i \in Job |-> Reconciled(i)]
<1>1. /\ job' = [i \in Job |-> newJob[i]]
      /\ attempts' = [i \in Job |-> newAttempts[i]]
      /\ receipts' = receipts /\ receipts \subseteq Job
  BY DEF ClaimNothing, ReconcileExpired, QueueInv, QueueTypeOK
<1>2. ASSUME NEW i \in Job
      PROVE  JobInv(newJob[i], newAttempts[i], i \in receipts')
  BY <1>1, ReclaimedInv
<1> HIDE DEF newJob, newAttempts
<1> QED BY <1>1, <1>2, NextOfJobs

(***************************************************************************)
(* A step that moves one job between open states, and touches nothing else.*)
(***************************************************************************)
LEMMA MoveInv ==
  ASSUME QueueInv, NEW j \in Job, NEW r \in JobRecord,
         job' = [job EXCEPT ![j] = r], attempts' = attempts, receipts' = receipts,
         \/ job[j].state = "ABSENT" /\ r.state = "PENDING"
         \/ job[j].state \in Waiting \cup Active /\ r.state \in Waiting \cup Active
  PROVE  QueueInv'
<1>1. JobInv(job[j], attempts[j], j \in receipts)
  BY InvOfJobs
<1>2. j \notin receipts /\ Tells(r.state, attempts[j], FALSE) /\ r.state # "ABSENT"
  <2>1. CASE job[j].state = "ABSENT" /\ r.state = "PENDING"
    BY <1>1, <2>1, QueueConstants DEF JobInv, Tells, Waiting, Active
  <2>2. CASE job[j].state \in Waiting \cup Active /\ r.state \in Waiting \cup Active
    <3>1. j \notin receipts /\ Tells(job[j].state, attempts[j], FALSE)
      BY <1>1, <2>2 DEF JobInv, Tells, Waiting, Active
    <3>2. Tells(r.state, attempts[j], FALSE)
      BY <1>1, <2>2, <3>1, OpenTells DEF JobInv
    <3> QED BY <2>2, <3>1, <3>2 DEF Waiting, Active
  <2> QED BY <2>1, <2>2
<1>3. JobInv(r, attempts[j], FALSE \/ j \in receipts)
  BY <1>1, <1>2 DEF JobInv
<1>4. attempts' = [attempts EXCEPT ![j] = attempts[j]]
  BY DEF QueueInv, QueueTypeOK
<1> QED BY <1>3, <1>4, OneJob

(***************************************************************************)
(* Every action, one step each.                                            *)
(***************************************************************************)
LEMMA QueueNextInv == QueueInv /\ [QueueNext]_queue => QueueInv'
<1> SUFFICES ASSUME QueueInv, [QueueNext]_queue PROVE QueueInv'
  OBVIOUS
<1>0. \A j \in Job : job[j] \in JobRecord
  BY DEF QueueInv, QueueTypeOK
<1>1. ASSUME NEW j \in Job, Enqueue(j) PROVE QueueInv'
  <2> DEFINE r == [job[j] EXCEPT !.state = "PENDING"]
  <2>1. r \in JobRecord /\ r.state = "PENDING"
    BY <1>0 DEF JobRecord, Waiting
  <2>2. job' = [job EXCEPT ![j] = r]
    BY <1>1 DEF Enqueue
  <2> HIDE DEF r
  <2> QED BY <1>1, <2>1, <2>2, MoveInv DEF Enqueue
<1>2. ASSUME NEW j \in Job, Cancel(j) PROVE QueueInv'
  <2>1. job[j].by \in Worker \cup {Nobody}
    BY <1>0 DEF JobRecord
  <2>2. Ends("CANCELLED", "CANCELLED", Len(attempts[j]) + 1)
    BY DEF Ends
  <2> QED BY <1>2, <2>1, <2>2, FinishInv DEF Cancel, Cancellable
<1>3. ASSUME NEW j \in Job, LeaseExpires(j) PROVE QueueInv'
  <2> DEFINE r == [job[j] EXCEPT !.late = TRUE]
  <2>1. r \in JobRecord /\ r.state \in Active /\ job[j].state \in Active
    BY <1>0, <1>3 DEF JobRecord, LeaseExpires
  <2>2. job' = [job EXCEPT ![j] = r]
    BY <1>3 DEF LeaseExpires
  <2> HIDE DEF r
  <2> QED BY <1>3, <2>1, <2>2, MoveInv DEF LeaseExpires
<1>4. ASSUME NEW j \in Job, BackoffEnds(j) PROVE QueueInv'
  <2> DEFINE r == [job[j] EXCEPT !.due = TRUE]
  <2>1. r \in JobRecord /\ r.state \in Waiting /\ job[j].state \in Waiting
    BY <1>0, <1>4 DEF JobRecord, BackoffEnds, Waiting
  <2>2. job' = [job EXCEPT ![j] = r]
    BY <1>4 DEF BackoffEnds
  <2> HIDE DEF r
  <2> QED BY <1>4, <2>1, <2>2, MoveInv DEF BackoffEnds
<1>5. ASSUME NEW w \in Worker, NEW j \in Job, Start(w, j) PROVE QueueInv'
  <2> DEFINE r == [job[j] EXCEPT !.state = "RUNNING", !.by = w]
  <2>1. r \in JobRecord /\ r.state \in Active /\ job[j].state \in Active
    BY <1>0, <1>5 DEF JobRecord, Start, Active
  <2>2. job' = [job EXCEPT ![j] = r]
    BY <1>5 DEF Start
  <2> HIDE DEF r
  <2> QED BY <1>5, <2>1, <2>2, MoveInv DEF Start
<1>6. ASSUME NEW w \in Worker, NEW j \in Job, Succeed(w, j) PROVE QueueInv'
  <2>1. Ends("SUCCEEDED", "SUCCEEDED", Len(attempts[j]) + 1)
    BY DEF Ends
  <2>2. job[j].state \in Waiting \cup Active
    BY <1>6 DEF Succeed, Holds
  <2> QED BY <1>6, <2>1, <2>2, FinishInv DEF Succeed
<1>7. ASSUME NEW w \in Worker, NEW j \in Job, Fail(w, j) PROVE QueueInv'
  <2> DEFINE t == AfterFailure(Len(attempts[j]) + 1)
  <2>1. Ends("FAILED", t, Len(attempts[j]) + 1)
    BY DEF Ends
  <2>2. job[j].state \in Waiting \cup Active
    BY <1>7 DEF Fail, Holds
  <2>3. t # "SUCCEEDED"
    BY <1>0, AfterFailureIs, QueueConstants DEF AfterFailure
  <2>4. Finish(w, j, "FAILED", t) /\ receipts' = receipts
    BY <1>7 DEF Fail
  <2> HIDE DEF t
  <2> QED BY <2>1, <2>2, <2>3, <2>4, FinishInv
<1>8. ASSUME NEW w \in Worker, NEW j \in Job, FailForGood(w, j) PROVE QueueInv'
  <2>1. Ends("FAILED", "FAILED", Len(attempts[j]) + 1)
    BY DEF Ends
  <2>2. job[j].state \in Waiting \cup Active
    BY <1>8 DEF FailForGood, Holds
  <2> QED BY <1>8, <2>1, <2>2, FinishInv DEF FailForGood
<1>9. CASE UNCHANGED queue
  BY <1>9 DEF queue, QueueInv, QueueTypeOK, AttemptsTell, AbsentIsNew
<1> QED
  BY <1>1, <1>2, <1>3, <1>4, <1>5, <1>6, <1>7, <1>8, <1>9, ClaimInv, ClaimNothingInv
  DEF QueueNext

(***************************************************************************)
(* Every reachable state of the queue is typed, and in each of them the    *)
(* attempts of a job tell its state: the limit on attempts, the dead       *)
(* letters and the receipts agree with what workers really did.            *)
(***************************************************************************)
THEOREM QueueIsTyped == QueueSpec => []QueueTypeOK
<1>1. QueueInv => QueueTypeOK
  BY DEF QueueInv
<1> QED BY <1>1, QueueInitInv, QueueNextInv, PTL DEF QueueSpec

THEOREM AttemptsAlwaysTell == QueueSpec => []AttemptsTell
<1>1. QueueInv => AttemptsTell
  BY DEF QueueInv
<1> QED BY <1>1, QueueInitInv, QueueNextInv, PTL DEF QueueSpec

(***************************************************************************)
(* A job as a claim leaves it, if its lease has not run out.               *)
(***************************************************************************)
LEMMA NotOverdueStays ==
  ASSUME NEW w, NEW j, ~Overdue(j)
  PROVE  Reclaimed(w, j) = job[j] /\ Reconciled(j) = attempts[j]
BY DEF Reclaimed, Reconciled

(***************************************************************************)
(* No step writes a settled job.                                           *)
(***************************************************************************)
THEOREM SettledJobsStay == QueueSpec => SettledStays
<1> DEFINE Stays == \A j \in Job : job[j].state \in Settled =>
                      job'[j] = job[j] /\ attempts'[j] = attempts[j]
<1>1. ASSUME QueueInv, [QueueNext]_queue PROVE [Stays]_queue
  <2> SUFFICES ASSUME NEW k \in Job, job[k].state \in Settled, QueueNext
               PROVE  job'[k] = job[k] /\ attempts'[k] = attempts[k]
    BY <1>1
  <2>0. /\ job \in [Job -> JobRecord] /\ attempts \in [Job -> Seq(Outcome)]
        /\ job[k].state \notin Waiting \cup Active \cup {"ABSENT"}
    BY <1>1 DEF QueueInv, QueueTypeOK, Settled, Waiting, Active
  <2>1. ~Overdue(k)
    BY <2>0 DEF Overdue
  <2>2. ASSUME NEW w \in Worker, NEW j \in Job, Claim(w, j)
        PROVE  job'[k] = job[k] /\ attempts'[k] = attempts[k]
    <3>1. k # j
      BY <2>0, <2>1, <2>2, NotOverdueStays DEF Claim, Claimable
    <3> QED BY <2>1, <2>2, <3>1, NotOverdueStays DEF Claim, ReconcileExpired
  <2>3. ASSUME NEW w \in Worker, ClaimNothing(w)
        PROVE  job'[k] = job[k] /\ attempts'[k] = attempts[k]
    BY <2>1, <2>3, NotOverdueStays DEF ClaimNothing, ReconcileExpired
  <2>4. ASSUME NEW j \in Job,
               Enqueue(j) \/ Cancel(j) \/ LeaseExpires(j) \/ BackoffEnds(j)
        PROVE  job'[k] = job[k] /\ attempts'[k] = attempts[k]
    <3>1. k # j
      BY <2>0, <2>4
      DEF Enqueue, Cancel, Cancellable, LeaseExpires, BackoffEnds, Waiting, Active
    <3> QED BY <2>0, <2>4, <3>1
            DEF Enqueue, Cancel, LeaseExpires, BackoffEnds, Finish
  <2>5. ASSUME NEW w \in Worker, NEW j \in Job,
               Start(w, j) \/ Succeed(w, j) \/ Fail(w, j) \/ FailForGood(w, j)
        PROVE  job'[k] = job[k] /\ attempts'[k] = attempts[k]
    <3>1. k # j
      BY <2>0, <2>5 DEF Start, Succeed, Fail, FailForGood, Holds, Active
    <3> QED BY <2>0, <2>5, <3>1 DEF Start, Succeed, Fail, FailForGood, Finish
  <2> QED BY <2>2, <2>3, <2>4, <2>5 DEF QueueNext
<1> QED BY <1>1, QueueInitInv, QueueNextInv, PTL DEF QueueSpec, SettledStays

(***************************************************************************)
(* Whatever names the workers go by, a lease that lasts keeps every worker *)
(* but the one that took it from moving the job.                           *)
(***************************************************************************)
THEOREM LeasesProtect == QueueSpec => LeaseProtectsHolder
<1> DEFINE Protects == \A j \in Job : job[j].state \in Active /\ ~job[j].late =>
                         job'[j].by = job[j].by
<1>1. ASSUME QueueInv, [QueueNext]_queue PROVE [Protects]_queue
  <2> SUFFICES ASSUME NEW k \in Job, job[k].state \in Active, ~job[k].late, QueueNext
               PROVE  job'[k].by = job[k].by
    BY <1>1
  <2>0. /\ job \in [Job -> JobRecord]
        /\ job[k].state \notin Waiting \cup {"ABSENT"}
    BY <1>1 DEF QueueInv, QueueTypeOK, Waiting, Active
  <2>1. ~Overdue(k)
    BY DEF Overdue
  <2>2. ASSUME NEW w \in Worker, NEW j \in Job, Claim(w, j)
        PROVE  job'[k].by = job[k].by
    <3>1. k # j
      BY <2>0, <2>1, <2>2, NotOverdueStays DEF Claim, Claimable
    <3> QED BY <2>1, <2>2, <3>1, NotOverdueStays DEF Claim
  <2>3. ASSUME NEW w \in Worker, ClaimNothing(w)
        PROVE  job'[k].by = job[k].by
    BY <2>1, <2>3, NotOverdueStays DEF ClaimNothing
  <2>4. ASSUME NEW j \in Job,
               Enqueue(j) \/ Cancel(j) \/ LeaseExpires(j) \/ BackoffEnds(j)
        PROVE  job'[k].by = job[k].by
    BY <2>0, <2>4 DEF Enqueue, Cancel, LeaseExpires, BackoffEnds, Finish, JobRecord
  <2>5. ASSUME NEW w \in Worker, NEW j \in Job,
               Start(w, j) \/ Succeed(w, j) \/ Fail(w, j) \/ FailForGood(w, j)
        PROVE  job'[k].by = job[k].by
    <3>1. j = k => job[k].by = w
      BY <2>5 DEF Start, Succeed, Fail, FailForGood, Holds, CausalTime
    <3> QED BY <2>0, <2>5, <3>1
            DEF Start, Succeed, Fail, FailForGood, Finish, JobRecord
  <2> QED BY <2>2, <2>3, <2>4, <2>5 DEF QueueNext
<1> QED BY <1>1, QueueInitInv, QueueNextInv, PTL DEF QueueSpec, LeaseProtectsHolder

-----------------------------------------------------------------------------
(* MemoryStore. *)

(***************************************************************************)
(* A memory that was on record and is not kept has a tombstone.            *)
(***************************************************************************)
DeletedIsEntombed ==
  \A m \in Memory :
    /\ Kept(m) => record[m].rev > 0
    /\ record[m].rev > 0 /\ ~Kept(m) => tombstone[m] # "NONE"

(***************************************************************************)
(* A deletion job plans what was on record, and what it has recorded as    *)
(* deleted of its plan is gone.                                            *)
(***************************************************************************)
PlanIsKnown(d) ==
  /\ \A m \in deletion[d].memories : record[m].rev > 0
  /\ \A m \in deletion[d].memories : m \in deletion[d].deleted => ~Kept(m)
  /\ \A r \in deletion[d].revisions : r[2] <= record[r[1]].rev
  /\ deletion[d].status = "COMPLETED" => deletion[d].memories \subseteq deletion[d].deleted

(***************************************************************************)
(* The artifacts of a job that has purged them do not come back.           *)
(***************************************************************************)
PurgedStaysPurged(d) ==
  /\ deletion[d].verified \/ stage[d] = "VERIFY" => files \cap deletion[d].revisions = {}
  /\ stage[d] \in {"INDEX", "FORGET", "CLOSURE", "COMPLETE"} => deletion[d].verified
  /\ deletion[d].status \in {"ARTIFACTS_VERIFIED", "COMPLETED"} => deletion[d].verified

(***************************************************************************)
(* Once the closure of a job was found complete nothing derives from what  *)
(* it fences.                                                              *)
(***************************************************************************)
ClosureStays(d) ==
  stage[d] = "COMPLETE" \/ deletion[d].status = "COMPLETED" =>
    \A m \in Memory : Kept(m) => record[m].from \cap Fence(d) = {}

DeletionInv(d) == PlanIsKnown(d) /\ PurgedStaysPurged(d) /\ ClosureStays(d)

MemoryInv ==
  /\ MemoryTypeOK /\ DeletedIsEntombed /\ RecallableIsKept
  /\ \A d \in Deletion : DeletionInv(d)

MemoryRecord == [rev : 0..MaxRevision, kept : BOOLEAN, from : SUBSET Ref]

DeletionRecord ==
  [status : {"NONE", "PREPARED", "ARTIFACTS_VERIFIED", "COMPLETED", "FAILED"},
   memories : SUBSET Memory, revisions : SUBSET Ref,
   verified : BOOLEAN, deleted : SUBSET Memory]

LEMMA RefIs ==
  ASSUME NEW m \in Memory, NEW n \in 0..MaxRevision
  PROVE  <<m, n>> \in Ref /\ <<m, n>>[1] = m /\ <<m, n>>[2] = n
BY DEF Ref

LEMMA MemoryTypes ==
  ASSUME MemoryTypeOK
  PROVE  /\ \A m \in Memory : /\ record[m] \in MemoryRecord
                              /\ record[m].rev \in 0..MaxRevision /\ record[m].rev \in Nat
                              /\ Kept(m) \in BOOLEAN /\ record[m].from \subseteq Ref
         /\ \A d \in Deletion : /\ deletion[d] \in DeletionRecord
                                /\ deletion[d].memories \subseteq Memory
                                /\ deletion[d].revisions \subseteq Ref
         /\ glance # None => /\ glance[1] \in Memory /\ glance[2] \in 1..MaxRevision
                             /\ glance = <<glance[1], glance[2]>>
         /\ snapshot # None => snapshot \subseteq Ref
         /\ MaxRevision \in Nat
<1>1. \A m \in Memory : /\ record[m] \in MemoryRecord
                        /\ record[m].rev \in 0..MaxRevision /\ record[m].rev \in Nat
                        /\ Kept(m) \in BOOLEAN /\ record[m].from \subseteq Ref
  BY MemoryConstants DEF MemoryTypeOK, MemoryRecord, Kept
<1>2. \A d \in Deletion : /\ deletion[d] \in DeletionRecord
                          /\ deletion[d].memories \subseteq Memory
                          /\ deletion[d].revisions \subseteq Ref
  BY DEF MemoryTypeOK, DeletionRecord
<1>3. /\ glance # None => /\ glance[1] \in Memory /\ glance[2] \in 1..MaxRevision
                          /\ glance = <<glance[1], glance[2]>>
      /\ snapshot # None => snapshot \subseteq Ref
      /\ MaxRevision \in Nat
  BY MemoryConstants DEF MemoryTypeOK
<1> QED BY <1>1, <1>2, <1>3

LEMMA SourcesAre ==
  ASSUME NEW m \in Memory, NEW from \in Sources(m)
  PROVE  from \subseteq Ref
BY DEF Sources

-----------------------------------------------------------------------------
(* Types. *)

LEMMA InsertTypes ==
  ASSUME MemoryTypeOK, NEW m \in Memory, NEW n \in 1..MaxRevision, NEW from \in SUBSET Ref,
         Insert(m, n, from)
  PROVE  record' \in [Memory -> MemoryRecord] /\ files' \subseteq Ref
<1>1. [rev |-> n, kept |-> TRUE, from |-> from] \in MemoryRecord
  BY MemoryConstants DEF MemoryRecord
<1>2. record \in [Memory -> MemoryRecord] /\ files \subseteq Ref
  BY DEF MemoryTypeOK, MemoryRecord
<1>3. <<m, n>> \in Ref
  BY RefIs
<1> QED BY <1>1, <1>2, <1>3 DEF Insert

LEMMA DeleteTypes ==
  ASSUME MemoryTypeOK, NEW m \in Memory, NEW mode \in Mode, Delete(m, mode)
  PROVE  /\ record' \in [Memory -> MemoryRecord]
         /\ record' = [record EXCEPT ![m] = [rev |-> record[m].rev, kept |-> FALSE, from |-> {}]]
         /\ indexed' = IndexedWithout(m) /\ indexed' \subseteq Ref
         /\ tombstone' = [tombstone EXCEPT ![m] = mode] /\ tombstone' \in [Memory -> Mode]
<1>1. record \in [Memory -> MemoryRecord] /\ indexed \subseteq Ref /\ tombstone \in [Memory -> Mode]
  BY DEF MemoryTypeOK, MemoryRecord
<1>3. record' = [record EXCEPT ![m] = [rev |-> record[m].rev, kept |-> FALSE, from |-> {}]]
  BY <1>1 DEF Delete
<1>4. [rev |-> record[m].rev, kept |-> FALSE, from |-> {}] \in MemoryRecord
  BY <1>1 DEF MemoryRecord
<1>5. record' \in [Memory -> MemoryRecord]
  BY <1>1, <1>3, <1>4
<1> QED BY <1>1, <1>3, <1>5 DEF Delete, Entomb, IndexedWithout

LEMMA TypeOKIs ==
  MemoryTypeOK <=>
    /\ record \in [Memory -> MemoryRecord]
    /\ tombstone \in [Memory -> Mode]
    /\ files \subseteq Ref /\ indexed \subseteq Ref
    /\ deletion \in [Deletion -> DeletionRecord]
    /\ stage \in [Deletion -> Stage]
    /\ todo \in [Deletion -> SUBSET Memory]
    /\ glance \in (Memory \X (1..MaxRevision)) \cup {None}
    /\ snapshot \in (SUBSET Ref) \cup {None}
    /\ mishaps \in 0..MaxMishaps
BY DEF MemoryTypeOK, MemoryRecord, DeletionRecord

(***************************************************************************)
(* How a command on records moves one: it is written once more, where it   *)
(* has no tombstone, or it is removed and has one.                         *)
(***************************************************************************)
Rewritten(m) ==
  /\ tombstone[m] = "NONE" /\ tombstone'[m] = "NONE"
  /\ record'[m].rev = record[m].rev + 1 /\ record'[m].kept /\ Allowed(record'[m].from)

Removed(m) ==
  record'[m].rev = record[m].rev /\ ~record'[m].kept /\ tombstone'[m] # "NONE"

RecordMove(m) ==
  /\ record'[m] = record[m] \/ Rewritten(m) \/ Removed(m)
  /\ tombstone[m] # "NONE" => tombstone'[m] # "NONE"

(***************************************************************************)
(* A command on records or on the index, and no deletion job.              *)
(***************************************************************************)
RecordStep ==
  \/ \E m \in Memory : \E from \in Sources(m) : Create(m, from)
  \/ Curate
  \/ RebuildReads \/ RebuildEnds
  \/ \E d \in Deletion, m \in Memory : ForgetPlanned(d, m)

RecordStepDoes ==
  /\ MemoryTypeOK'
  /\ \A m \in Memory : RecordMove(m)
  /\ \A r \in files' : r \in files \/ r[2] = record[r[1]].rev + 1
  /\ \A r \in indexed' : Kept(r[1])' /\ r[2] <= record'[r[1]].rev
  /\ UNCHANGED <<deletion, stage>>

LEMMA InsertDoes ==
  ASSUME MemoryInv, NEW m \in Memory, NEW n \in 1..MaxRevision, NEW from \in SUBSET Ref,
         Insert(m, n, from), n = record[m].rev + 1, tombstone[m] = "NONE", Allowed(from),
         UNCHANGED <<tombstone, deletion, stage, todo, indexed, snapshot, mishaps>>,
         glance' \in {glance, None}
  PROVE  RecordStepDoes
<1>1. record' \in [Memory -> MemoryRecord] /\ files' \subseteq Ref
  BY InsertTypes DEF MemoryInv
<1>2. MemoryTypeOK'
  BY <1>1 DEF MemoryInv, MemoryTypeOK, MemoryRecord
<1>3. /\ record' = [record EXCEPT ![m] = [rev |-> n, kept |-> TRUE, from |-> from]]
      /\ files' = files \cup {<<m, n>>} /\ record \in [Memory -> MemoryRecord]
  BY TypeOKIs DEF Insert, MemoryInv
<1>4. \A x \in Memory : record'[x] = IF x = m THEN [rev |-> n, kept |-> TRUE, from |-> from]
                                              ELSE record[x]
  BY <1>3
<1>5. \A x \in Memory : RecordMove(x)
  BY <1>4 DEF RecordMove, Rewritten
<1>6. \A r \in files' : r \in files \/ r[2] = record[r[1]].rev + 1
  BY <1>3
<1>7. \A r \in indexed' : Kept(r[1])' /\ r[2] <= record'[r[1]].rev
  <2> SUFFICES ASSUME NEW r \in indexed PROVE Kept(r[1])' /\ r[2] <= record'[r[1]].rev
    OBVIOUS
  <2>1. r[1] \in Memory /\ r[2] \in Nat /\ Kept(r[1]) /\ r[2] <= record[r[1]].rev
    BY MemoryConstants DEF MemoryInv, RecallableIsKept, MemoryTypeOK, Ref
  <2>2. record[m].rev \in Nat /\ n \in Nat
    BY MemoryTypes DEF MemoryInv
  <2> QED BY <1>4, <2>1, <2>2 DEF Kept
<1> QED BY <1>2, <1>5, <1>6, <1>7 DEF RecordStepDoes

LEMMA DeleteDoes ==
  ASSUME MemoryInv, NEW m \in Memory, NEW mode \in Mode \ {"NONE"}, Delete(m, mode),
         UNCHANGED <<files, deletion, stage, todo, snapshot, mishaps>>,
         glance' \in {glance, None}
  PROVE  RecordStepDoes
<1>1. /\ record' \in [Memory -> MemoryRecord]
      /\ record' = [record EXCEPT ![m] = [rev |-> record[m].rev, kept |-> FALSE, from |-> {}]]
      /\ indexed' = IndexedWithout(m) /\ indexed' \subseteq Ref
      /\ tombstone' = [tombstone EXCEPT ![m] = mode] /\ tombstone' \in [Memory -> Mode]
  BY DeleteTypes DEF MemoryInv
<1>2. MemoryTypeOK'
  BY <1>1 DEF MemoryInv, MemoryTypeOK, MemoryRecord
<1>3. record \in [Memory -> MemoryRecord] /\ tombstone \in [Memory -> Mode]
  BY TypeOKIs DEF MemoryInv
<1>4. \A x \in Memory :
        /\ record'[x] = IF x = m THEN [rev |-> record[m].rev, kept |-> FALSE, from |-> {}]
                                 ELSE record[x]
        /\ tombstone'[x] = IF x = m THEN mode ELSE tombstone[x]
  BY <1>1, <1>3
<1>5. \A x \in Memory : RecordMove(x)
  BY <1>4 DEF RecordMove, Removed
<1>6. \A r \in indexed' : Kept(r[1])' /\ r[2] <= record'[r[1]].rev
  <2> SUFFICES ASSUME NEW r \in indexed, r[1] # m
               PROVE  Kept(r[1])' /\ r[2] <= record'[r[1]].rev
    BY <1>1 DEF IndexedWithout
  <2>1. r[1] \in Memory /\ Kept(r[1]) /\ r[2] <= record[r[1]].rev
    BY DEF MemoryInv, RecallableIsKept, MemoryTypeOK, Ref
  <2> QED BY <1>4, <2>1 DEF Kept
<1> QED BY <1>2, <1>5, <1>6 DEF RecordStepDoes

LEMMA RecordsStay ==
  ASSUME MemoryInv, MemoryTypeOK', UNCHANGED <<record, files, deletion, stage>>,
         \A m \in Memory : tombstone[m] # "NONE" => tombstone'[m] # "NONE",
         \A r \in indexed' : r \in indexed \/ (Kept(r[1]) /\ r[2] <= record[r[1]].rev)
  PROVE  RecordStepDoes
BY DEF MemoryInv, RecordStepDoes, RecordMove, RecallableIsKept, Kept

LEMMA RecordStepsDo ==
  ASSUME MemoryInv, RecordStep
  PROVE  RecordStepDoes
<1> USE DEF MemoryInv
<1>1. ASSUME NEW m \in Memory, NEW from \in Sources(m), Create(m, from)
      PROVE  RecordStepDoes
  <2>1. record[m].rev + 1 \in 1..MaxRevision
    BY <1>1, MemoryTypes DEF Create
  <2> QED BY <1>1, <2>1, SourcesAre, InsertDoes DEF Create, Creatable
<1>2. ASSUME NEW m \in Memory, Look(m) PROVE RecordStepDoes
  <2>1. glance' \in Memory \X (1..MaxRevision)
    BY <1>2, MemoryTypes DEF Look, Current, DeletedIsEntombed
  <2>2. MemoryTypeOK'
    BY <1>2, <2>1 DEF Look, MemoryTypeOK
  <2> QED BY <1>2, <2>2, RecordsStay DEF Look
<1>3. ASSUME NEW m \in Memory, NEW from \in Sources(m), Correct(from)
      PROVE  RecordStepDoes
  <2> DEFINE g == glance[1]
  <2>1. /\ g \in Memory /\ glance = <<g, glance[2]>> /\ glance[2] \in 1..MaxRevision
        /\ glance[2] < MaxRevision /\ MaxRevision \in Nat
    BY <1>3, MemoryTypes DEF Correct
  <2>2. /\ tombstone[g] = "NONE" /\ Current(g) = glance
        /\ from \in Sources(g) \cup {record[g].from} /\ Allowed(from)
        /\ Insert(g, glance[2] + 1, from)
    BY <1>3 DEF Correct
  <2>3. glance[2] = record[g].rev
    BY <2>1, <2>2 DEF Current
  <2>4. from \in SUBSET Ref
    BY <1>3, SourcesAre
  <2>5. glance[2] + 1 \in 1..MaxRevision
    BY <2>1
  <2> HIDE DEF g
  <2>6. /\ UNCHANGED <<tombstone, deletion, stage, todo, indexed, snapshot, mishaps>>
        /\ glance' = None
    BY <1>3 DEF Correct
  <2> QED BY <2>1, <2>2, <2>3, <2>4, <2>5, <2>6, InsertDoes
<1>4. CASE LookAway
  <2>1. MemoryTypeOK'
    BY <1>4 DEF LookAway, MemoryTypeOK
  <2> QED BY <1>4, <2>1, RecordsStay DEF LookAway
<1>5. CASE SoftForget
  <2>1. glance[1] \in Memory /\ tombstone \in [Memory -> Mode] /\ "SOFT_FORGET" \in Mode
    BY <1>5, MemoryTypes DEF SoftForget, MemoryTypeOK, Mode
  <2>2. tombstone' = [tombstone EXCEPT ![glance[1]] = "SOFT_FORGET"]
    BY <1>5 DEF SoftForget, Entomb
  <2>3. MemoryTypeOK'
    BY <1>5, <2>1, <2>2 DEF SoftForget, MemoryTypeOK
  <2> QED BY <1>5, <2>1, <2>2, <2>3, RecordsStay DEF SoftForget
<1>6. CASE HardForget
  <2>1. glance[1] \in Memory /\ "HARD_DELETE" \in Mode \ {"NONE"}
    BY <1>6, MemoryTypes DEF HardForget, Mode
  <2> QED BY <1>6, <2>1, DeleteDoes DEF HardForget
<1>7. ASSUME NEW d \in Deletion, NEW m \in Memory, ForgetPlanned(d, m)
      PROVE  RecordStepDoes
  <2>1. "LEGAL_DELETE" \in Mode \ {"NONE"}
    BY DEF Mode
  <2> QED BY <1>7, <2>1, DeleteDoes DEF ForgetPlanned
<1>8. Indexable \subseteq Ref /\ \A r \in Indexable : Kept(r[1]) /\ r[2] <= record[r[1]].rev
  BY MemoryTypes, RefIs DEF Indexable, Current
<1>9. CASE RebuildReads
  <2>1. MemoryTypeOK'
    BY <1>8, <1>9 DEF RebuildReads, MemoryTypeOK
  <2> QED BY <1>9, <2>1, RecordsStay DEF RebuildReads
<1>10. CASE RebuildEnds
  <2>1. indexed' = indexed \/ indexed' = Indexable
    BY <1>10 DEF RebuildEnds, Unchanged
  <2>2. MemoryTypeOK'
    BY <1>8, <1>10, <2>1 DEF RebuildEnds, MemoryTypeOK
  <2> QED BY <1>8, <1>10, <2>1, <2>2, RecordsStay DEF RebuildEnds
<1> QED BY <1>1, <1>2, <1>3, <1>4, <1>5, <1>6, <1>7, <1>9, <1>10 DEF RecordStep, Curate

(***************************************************************************)
(* A record that a command writes stays clear of every fence, and its      *)
(* artifact is none that a job has planned.                                *)
(***************************************************************************)
LEMMA RecordStepsKeep ==
  ASSUME MemoryInv, RecordStepDoes
  PROVE  MemoryInv'
<1>1. ASSUME NEW m \in Memory
      PROVE  /\ record[m].rev \in Nat /\ record'[m].rev \in Nat /\ RecordMove(m)
             /\ record[m].rev <= record'[m].rev
             /\ Kept(m)' => record'[m].rev > 0
             /\ record'[m].rev > 0 /\ ~Kept(m)' => tombstone'[m] # "NONE"
             /\ record[m].rev > 0 /\ ~Kept(m) => ~Kept(m)'
             /\ Kept(m)' => (Kept(m) /\ record'[m].from = record[m].from) \/ Allowed(record'[m].from)
  <2>1. /\ record[m].rev \in Nat /\ RecordMove(m)
        /\ Kept(m) => record[m].rev > 0
        /\ record[m].rev > 0 /\ ~Kept(m) => tombstone[m] # "NONE"
    BY MemoryTypes DEF MemoryInv, DeletedIsEntombed, RecordStepDoes
  <2>2. CASE record'[m] = record[m]
    BY <2>1, <2>2 DEF RecordMove, Kept
  <2>3. CASE Rewritten(m)
    BY <2>1, <2>3 DEF Rewritten, Kept
  <2>4. CASE Removed(m)
    BY <2>1, <2>4 DEF Removed, Kept
  <2> QED BY <2>1, <2>2, <2>3, <2>4 DEF RecordMove
<1>2. DeletedIsEntombed'
  BY <1>1 DEF DeletedIsEntombed
<1>3. RecallableIsKept'
  BY DEF RecordStepDoes, RecallableIsKept
<1>4. ASSUME NEW d \in Deletion PROVE DeletionInv(d)'
  <2>1. /\ deletion'[d] = deletion[d] /\ stage'[d] = stage[d] /\ Fence(d)' = Fence(d)
        /\ PlanIsKnown(d) /\ PurgedStaysPurged(d) /\ ClosureStays(d)
        /\ deletion[d].memories \subseteq Memory
    BY MemoryTypes DEF MemoryInv, DeletionInv, RecordStepDoes, Fence
  <2>2. \A r \in deletion[d].revisions : r[1] \in Memory /\ r[2] \in Nat
    BY MemoryTypes, MemoryConstants DEF MemoryInv, Ref
  <2>3. PlanIsKnown(d)'
    BY <1>1, <2>1, <2>2 DEF PlanIsKnown
  <2>4. \A r \in deletion[d].revisions : r \in files' => r \in files
    BY <1>1, <2>1, <2>2 DEF PlanIsKnown, RecordStepDoes
  <2>5. PurgedStaysPurged(d)'
    BY <2>1, <2>4 DEF PurgedStaysPurged
  <2>6. \A m \in Memory : Allowed(record'[m].from) => record'[m].from \cap Fence(d) = {}
    BY DEF Allowed, Fenced
  <2>7. ClosureStays(d)'
    BY <1>1, <2>1, <2>6 DEF ClosureStays
  <2> QED BY <2>3, <2>5, <2>7 DEF DeletionInv
<1> QED BY <1>2, <1>3, <1>4 DEF MemoryInv, RecordStepDoes

-----------------------------------------------------------------------------
(* Deletion jobs. *)

(***************************************************************************)
(* A step of the job d: it writes to its own row only, and leaves records  *)
(* and tombstones alone.                                                   *)
(***************************************************************************)
JobStep(d) ==
  \/ \E m \in Memory : Prepare(d, m) \/ RecordProgress(d, m)
  \/ PurgeArtifacts(d) \/ VerifyArtifacts(d) \/ PurgeIndex(d)
  \/ CheckClosure(d) \/ Complete(d) \/ Reconcile(d)
  \/ DeletionFails(d) \/ DeleterDies(d)

JobStepDoes(d) ==
  /\ MemoryTypeOK'
  /\ UNCHANGED <<record, tombstone>>
  /\ files' \subseteq files /\ indexed' \subseteq indexed
  /\ \A e \in Deletion : e # d => deletion'[e] = deletion[e] /\ stage'[e] = stage[e]
  /\ DeletionInv(d)'

LEMMA JobStepsKeep ==
  ASSUME MemoryInv, NEW d \in Deletion, JobStepDoes(d)
  PROVE  MemoryInv'
<1>1. DeletedIsEntombed' /\ RecallableIsKept'
  BY DEF MemoryInv, JobStepDoes, DeletedIsEntombed, RecallableIsKept, Kept
<1>2. ASSUME NEW e \in Deletion, e # d PROVE DeletionInv(e)'
  <2>1. /\ deletion'[e] = deletion[e] /\ stage'[e] = stage[e] /\ Fence(e)' = Fence(e)
        /\ record' = record /\ files' \subseteq files /\ DeletionInv(e)
    BY <1>2 DEF MemoryInv, JobStepDoes, Fence
  <2> QED BY <2>1 DEF DeletionInv, PlanIsKnown, PurgedStaysPurged, ClosureStays, Kept
<1> QED BY <1>1, <1>2 DEF MemoryInv, JobStepDoes

(***************************************************************************)
(* Everything that is planned is kept: the set of what is kept is closed.  *)
(***************************************************************************)
LEMMA PlannedIsKept ==
  ASSUME NEW root \in Memory, Kept(root)
  PROVE  \A m \in Planned(root) : m \in Memory /\ Kept(m)
<1> DEFINE M == {m \in Memory : Kept(m)}
<1>1. M \in SUBSET Memory /\ root \in M /\ FollowsSources(M)
  BY DEF FollowsSources
<1> QED BY <1>1 DEF Planned

LEMMA PrepareDoes ==
  ASSUME MemoryInv, NEW d \in Deletion, NEW root \in Memory, Prepare(d, root)
  PROVE  JobStepDoes(d)
<1> DEFINE M == Planned(root)
           R == UNION {Revisions(m) : m \in M}
           plan == [status |-> "PREPARED", memories |-> M, revisions |-> R,
                   verified |-> FALSE, deleted |-> {}]
<1>1. MemoryTypeOK /\ deletion \in [Deletion -> DeletionRecord] /\ stage \in [Deletion -> Stage]
  BY TypeOKIs DEF MemoryInv
<1>2. \A m \in M : m \in Memory /\ Kept(m) /\ record[m].rev > 0
  BY PlannedIsKept DEF Prepare, MemoryInv, DeletedIsEntombed
<1>3. \A r \in R : r \in Ref /\ r[2] <= record[r[1]].rev
  <2> SUFFICES ASSUME NEW m \in M, NEW n \in 1..record[m].rev
               PROVE  <<m, n>> \in Ref /\ <<m, n>>[2] <= record[<<m, n>>[1]].rev
    BY DEF Revisions
  <2>1. m \in Memory /\ record[m].rev \in 0..MaxRevision /\ MaxRevision \in Nat
    BY <1>1, <1>2, MemoryTypes
  <2>2. n \in 0..MaxRevision /\ n <= record[m].rev
    BY <2>1
  <2> QED BY <2>1, <2>2, RefIs
<1>4. plan \in DeletionRecord
  BY <1>2, <1>3 DEF DeletionRecord
<1>5. deletion' = [deletion EXCEPT ![d] = plan] /\ stage' = [stage EXCEPT ![d] = "PURGE"]
  BY DEF Prepare
<1>6. /\ deletion' \in [Deletion -> DeletionRecord] /\ stage' \in [Deletion -> Stage]
      /\ deletion'[d] = plan /\ stage'[d] = "PURGE"
      /\ \A e \in Deletion : e # d => deletion'[e] = deletion[e] /\ stage'[e] = stage[e]
  BY <1>1, <1>4, <1>5 DEF Stage
<1>7. MemoryTypeOK'
  BY <1>1, <1>6 DEF Prepare, MemoryTypeOK, DeletionRecord
<1>8. DeletionInv(d)'
  <2>1. record' = record
    BY DEF Prepare
  <2>2. /\ deletion'[d].status = "PREPARED" /\ deletion'[d].memories = M
        /\ deletion'[d].revisions = R /\ deletion'[d].verified = FALSE
        /\ deletion'[d].deleted = {}
    BY <1>6
  <2> HIDE DEF M, R, plan
  <2>3. PlanIsKnown(d)'
    BY <1>2, <1>3, <2>1, <2>2 DEF PlanIsKnown
  <2>4. PurgedStaysPurged(d)' /\ ClosureStays(d)'
    BY <1>6, <2>2 DEF PurgedStaysPurged, ClosureStays
  <2> QED BY <2>3, <2>4 DEF DeletionInv
<1> QED BY <1>6, <1>7, <1>8 DEF JobStepDoes, Prepare

(***************************************************************************)
(* What a job's row becomes in each step of it.                            *)
(***************************************************************************)
Row(d, status, verified, deleted) ==
  /\ deletion' \in [Deletion -> DeletionRecord]
  /\ \A e \in Deletion : e # d => deletion'[e] = deletion[e]
  /\ deletion'[d].memories = deletion[d].memories
  /\ deletion'[d].revisions = deletion[d].revisions
  /\ deletion'[d].status = status
  /\ deletion'[d].verified = verified
  /\ deletion'[d].deleted = deleted

RowStays(d) == Row(d, deletion[d].status, deletion[d].verified, deletion[d].deleted)

Staged(d, to) ==
  /\ stage' \in [Deletion -> Stage] /\ stage'[d] = to
  /\ \A e \in Deletion : e # d => stage'[e] = stage[e]

LEMMA StatusRow ==
  ASSUME MemoryInv, NEW d \in Deletion,
         NEW to \in {"NONE", "PREPARED", "ARTIFACTS_VERIFIED", "COMPLETED", "FAILED"},
         deletion' = [deletion EXCEPT ![d].status = to]
  PROVE  Row(d, to, deletion[d].verified, deletion[d].deleted)
<1>1. deletion \in [Deletion -> DeletionRecord]
  BY TypeOKIs DEF MemoryInv
<1> QED BY <1>1 DEF Row, DeletionRecord

LEMMA VerifiedRow ==
  ASSUME MemoryInv, NEW d \in Deletion,
         deletion' = [deletion EXCEPT ![d].status = "ARTIFACTS_VERIFIED", ![d].verified = TRUE]
  PROVE  /\ Row(d, "ARTIFACTS_VERIFIED", deletion'[d].verified, deletion[d].deleted)
         /\ deletion'[d].verified
<1>1. deletion \in [Deletion -> DeletionRecord]
  BY TypeOKIs DEF MemoryInv
<1> QED BY <1>1 DEF Row, DeletionRecord

LEMMA DeletedRow ==
  ASSUME MemoryInv, NEW d \in Deletion, NEW m \in Memory,
         deletion' = [deletion EXCEPT ![d].deleted = @ \cup {m}]
  PROVE  Row(d, deletion[d].status, deletion[d].verified, deletion[d].deleted \cup {m})
<1>1. deletion \in [Deletion -> DeletionRecord]
  BY TypeOKIs DEF MemoryInv
<1> QED BY <1>1 DEF Row, DeletionRecord

LEMMA SameRow ==
  ASSUME MemoryInv, NEW d \in Deletion, deletion' = deletion
  PROVE  RowStays(d)
<1>1. deletion \in [Deletion -> DeletionRecord]
  BY TypeOKIs DEF MemoryInv
<1> QED BY <1>1 DEF RowStays, Row

LEMMA StageStep ==
  ASSUME MemoryInv, NEW d \in Deletion, NEW to \in Stage, stage' = [stage EXCEPT ![d] = to]
  PROVE  Staged(d, to)
<1>1. stage \in [Deletion -> Stage]
  BY DEF MemoryInv, MemoryTypeOK
<1> QED BY <1>1 DEF Staged

(***************************************************************************)
(* What a step of the job d has to show.                                   *)
(***************************************************************************)
LEMMA RowDoes ==
  ASSUME MemoryInv, NEW d \in Deletion, NEW to \in Stage, NEW status, NEW verified, NEW deleted,
         Row(d, status, verified, deleted), Staged(d, to),
         UNCHANGED <<record, tombstone, glance, snapshot>>,
         files' \subseteq files, indexed' \subseteq indexed,
         todo' \in [Deletion -> SUBSET Memory], mishaps' \in 0..MaxMishaps,
         \A m \in deletion[d].memories : m \in deleted => ~Kept(m),
         status = "COMPLETED" => deletion[d].memories \subseteq deleted,
         verified \/ to = "VERIFY" => files' \cap deletion[d].revisions = {},
         to \in {"INDEX", "FORGET", "CLOSURE", "COMPLETE"} => verified,
         status \in {"ARTIFACTS_VERIFIED", "COMPLETED"} => verified,
         to = "COMPLETE" \/ status = "COMPLETED" =>
           \A m \in Memory : Kept(m) => record[m].from \cap Fence(d) = {}
  PROVE  JobStepDoes(d)
<1>1. /\ deletion'[d].memories = deletion[d].memories
      /\ deletion'[d].revisions = deletion[d].revisions
      /\ deletion'[d].status = status /\ deletion'[d].verified = verified
      /\ deletion'[d].deleted = deleted
      /\ stage'[d] = to /\ record' = record /\ DeletionInv(d)
  BY DEF Row, Staged, MemoryInv
<1>2. MemoryTypeOK'
  BY DEF Row, Staged, MemoryInv, MemoryTypeOK, DeletionRecord
<1>3. Fence(d)' = Fence(d) /\ \A m \in Memory : Kept(m)' = Kept(m)
  BY <1>1 DEF Fence, Kept
<1>4. PlanIsKnown(d)'
  BY <1>1 DEF DeletionInv, PlanIsKnown, Kept
<1>5. PurgedStaysPurged(d)' /\ ClosureStays(d)'
  BY <1>1, <1>3 DEF PurgedStaysPurged, ClosureStays
<1>6. \A e \in Deletion : e # d => deletion'[e] = deletion[e] /\ stage'[e] = stage[e]
  BY DEF Row, Staged
<1> QED BY <1>2, <1>4, <1>5, <1>6 DEF JobStepDoes, DeletionInv

LEMMA JobStepsDo ==
  ASSUME MemoryInv, NEW d \in Deletion, JobStep(d)
  PROVE  JobStepDoes(d)
<1>1. /\ MemoryTypeOK /\ PlanIsKnown(d) /\ PurgedStaysPurged(d) /\ ClosureStays(d)
      /\ todo \in [Deletion -> SUBSET Memory] /\ mishaps \in 0..MaxMishaps
      /\ deletion[d] \in DeletionRecord /\ MaxMishaps \in Nat
  BY MemoryTypes, MemoryConstants DEF MemoryInv, DeletionInv, MemoryTypeOK
<1>2. /\ "IDLE" \in Stage /\ "PURGE" \in Stage /\ "VERIFY" \in Stage /\ "INDEX" \in Stage
      /\ "FORGET" \in Stage /\ "CLOSURE" \in Stage /\ "COMPLETE" \in Stage
  BY DEF Stage
<1>3. ASSUME NEW m \in Memory, Prepare(d, m) PROVE JobStepDoes(d)
  BY <1>3, PrepareDoes
<1>4. CASE PurgeArtifacts(d)
  <2>1. Staged(d, "VERIFY") /\ stage[d] = "PURGE"
    BY <1>2, <1>4, StageStep DEF PurgeArtifacts, Advance
  <2>2. Row(d, deletion[d].status, deletion[d].verified, deletion[d].deleted)
    BY <1>4, SameRow DEF PurgeArtifacts, RowStays
  <2>3. files' = files \ deletion[d].revisions
    BY <1>4 DEF PurgeArtifacts
  <2> QED BY <1>1, <1>2, <1>4, <2>1, <2>2, <2>3, RowDoes
          DEF PurgeArtifacts, PlanIsKnown, PurgedStaysPurged, ClosureStays
<1>5. CASE VerifyArtifacts(d)
  <2>1. Staged(d, "INDEX") /\ stage[d] = "VERIFY"
    BY <1>2, <1>5, StageStep DEF VerifyArtifacts, Advance
  <2> DEFINE v == deletion'[d].verified
             k == deletion[d].deleted
             s == "ARTIFACTS_VERIFIED"
  <2>2. Row(d, s, v, k) /\ v /\ s # "COMPLETED"
    BY <1>5, VerifiedRow DEF VerifyArtifacts
  <2>3. /\ UNCHANGED <<record, tombstone, glance, snapshot>>
        /\ files' \subseteq files /\ indexed' \subseteq indexed
        /\ todo' \in [Deletion -> SUBSET Memory] /\ mishaps' \in 0..MaxMishaps
    BY <1>1, <1>5 DEF VerifyArtifacts
  <2>4. files' \cap deletion[d].revisions = {}
    BY <1>1, <2>1, <1>5 DEF VerifyArtifacts, PurgedStaysPurged
  <2>5. \A m \in deletion[d].memories : m \in k => ~Kept(m)
    BY <1>1 DEF PlanIsKnown
  <2> HIDE DEF s, v, k
  <2> QED BY <1>2, <2>1, <2>2, <2>3, <2>4, <2>5, RowDoes
<1>6. CASE PurgeIndex(d)
  <2>1. Staged(d, "FORGET") /\ stage[d] = "INDEX"
    BY <1>2, <1>6, StageStep DEF PurgeIndex, Advance
  <2>2. Row(d, deletion[d].status, deletion[d].verified, deletion[d].deleted)
    BY <1>6, SameRow DEF PurgeIndex, RowStays
  <2>3. todo' \in [Deletion -> SUBSET Memory] /\ indexed' \subseteq indexed
    BY <1>1, <1>6, MemoryTypes DEF PurgeIndex
  <2> QED BY <1>1, <1>2, <1>6, <2>1, <2>2, <2>3, RowDoes
          DEF PurgeIndex, PlanIsKnown, PurgedStaysPurged, ClosureStays
<1>7. ASSUME NEW m \in Memory, RecordProgress(d, m) PROVE JobStepDoes(d)
  <2> DEFINE to == IF todo[d] = {m} THEN "CLOSURE" ELSE stage[d]
  <2>1. stage[d] = "FORGET" /\ ~Kept(m) /\ to \in Stage /\ to \in {"FORGET", "CLOSURE"}
    BY <1>2, <1>7 DEF RecordProgress
  <2>2. stage' = [stage EXCEPT ![d] = to]
    BY <1>7 DEF RecordProgress
  <2> HIDE DEF to
  <2>3. Staged(d, to)
    BY <2>1, <2>2, StageStep
  <2>4. Row(d, deletion[d].status, deletion[d].verified, deletion[d].deleted \cup {m})
    BY <1>7, DeletedRow DEF RecordProgress
  <2>5. todo' \in [Deletion -> SUBSET Memory]
    BY <1>1, <1>7 DEF RecordProgress
  <2> QED BY <1>1, <1>7, <2>1, <2>3, <2>4, <2>5, RowDoes
          DEF RecordProgress, PlanIsKnown, PurgedStaysPurged, ClosureStays
<1>8. CASE CheckClosure(d)
  <2>1. Staged(d, "COMPLETE") /\ stage[d] = "CLOSURE"
    BY <1>2, <1>8, StageStep DEF CheckClosure, Advance
  <2>2. Row(d, deletion[d].status, deletion[d].verified, deletion[d].deleted)
    BY <1>8, SameRow DEF CheckClosure, RowStays
  <2>3. \A m \in Memory : Kept(m) => record[m].from \cap Fence(d) = {}
    BY <1>8 DEF CheckClosure, ClosureComplete
  <2> QED BY <1>1, <1>2, <1>8, <2>1, <2>2, <2>3, RowDoes
          DEF CheckClosure, PlanIsKnown, PurgedStaysPurged, ClosureStays
<1>9. CASE Complete(d)
  <2>1. Staged(d, "IDLE") /\ stage[d] = "COMPLETE"
    BY <1>2, <1>9, StageStep DEF Complete, Advance
  <2>2. Row(d, "COMPLETED", deletion[d].verified, deletion[d].deleted)
    BY <1>9, StatusRow DEF Complete
  <2>3. deletion[d].memories \subseteq deletion[d].deleted
    BY <1>9 DEF Complete
  <2> QED BY <1>1, <1>2, <1>9, <2>1, <2>2, <2>3, RowDoes
          DEF Complete, PlanIsKnown, PurgedStaysPurged, ClosureStays
<1>10. CASE Reconcile(d)
  <2> DEFINE to == IF ArtifactsDone(d) THEN "INDEX" ELSE "PURGE"
             status == IF ArtifactsDone(d) THEN "ARTIFACTS_VERIFIED" ELSE deletion[d].status
  <2>1. to \in Stage /\ stage' = [stage EXCEPT ![d] = to]
        /\ deletion' = [deletion EXCEPT ![d].status = status]
    BY <1>2, <1>10 DEF Reconcile
  <2>2. /\ status \in {"NONE", "PREPARED", "ARTIFACTS_VERIFIED", "COMPLETED", "FAILED"}
        /\ status # "COMPLETED" /\ to \in {"INDEX", "PURGE"}
        /\ to = "INDEX" \/ status = "ARTIFACTS_VERIFIED" => deletion[d].verified
    BY <1>1, <1>10 DEF Reconcile, ArtifactsDone, PurgedStaysPurged, DeletionRecord
  <2> HIDE DEF to, status
  <2>3. Staged(d, to) /\ Row(d, status, deletion[d].verified, deletion[d].deleted)
    BY <2>1, <2>2, StageStep, StatusRow
  <2> QED BY <1>1, <1>10, <2>1, <2>2, <2>3, RowDoes
          DEF Reconcile, PlanIsKnown, PurgedStaysPurged, ClosureStays
<1>11. ASSUME Mishap(d) PROVE /\ Staged(d, "IDLE") /\ todo' \in [Deletion -> SUBSET Memory]
                              /\ mishaps' \in 0..MaxMishaps
  <2>1. Staged(d, "IDLE")
    BY <1>2, <1>11, StageStep DEF Mishap
  <2>2. todo' \in [Deletion -> SUBSET Memory]
    BY <1>1, <1>11 DEF Mishap
  <2>3. mishaps' \in 0..MaxMishaps
    BY <1>1, <1>11 DEF Mishap
  <2> QED BY <2>1, <2>2, <2>3
<1>12. CASE DeletionFails(d)
  <2>1. Row(d, "FAILED", deletion[d].verified, deletion[d].deleted)
    BY <1>12, StatusRow DEF DeletionFails
  <2> QED BY <1>1, <1>2, <1>11, <1>12, <2>1, RowDoes
          DEF DeletionFails, Mishap, PlanIsKnown, PurgedStaysPurged, ClosureStays
<1>13. CASE DeleterDies(d)
  <2>1. Row(d, deletion[d].status, deletion[d].verified, deletion[d].deleted)
    BY <1>13, SameRow DEF DeleterDies, RowStays
  <2> QED BY <1>1, <1>2, <1>11, <1>13, <2>1, RowDoes
          DEF DeleterDies, Mishap, PlanIsKnown, PurgedStaysPurged, ClosureStays
<1> QED BY <1>3, <1>4, <1>5, <1>6, <1>7, <1>8, <1>9, <1>10, <1>12, <1>13 DEF JobStep

-----------------------------------------------------------------------------
(* The store. *)

LEMMA MemoryStepIs ==
  ASSUME MemoryNext
  PROVE  RecordStep \/ \E d \in Deletion : JobStep(d)
BY DEF MemoryNext, Erase, RecordStep, JobStep

LEMMA MemoryInvInit ==
  ASSUME MemoryInit
  PROVE  MemoryInv
<1> USE DEF MemoryInit
<1>1. record \in [Memory -> MemoryRecord] /\ 0 \in 0..MaxRevision /\ 0 \in 0..MaxMishaps
  BY MemoryConstants DEF MemoryRecord
<1>2. /\ deletion \in [Deletion -> DeletionRecord] /\ stage \in [Deletion -> Stage]
      /\ tombstone \in [Memory -> Mode] /\ todo \in [Deletion -> SUBSET Memory]
  BY DEF DeletionRecord, NoDeletion, Stage, Mode
<1>3. MemoryTypeOK
  BY <1>1, <1>2 DEF MemoryTypeOK, MemoryRecord, DeletionRecord
<1>4. DeletedIsEntombed /\ RecallableIsKept
  BY DEF DeletedIsEntombed, RecallableIsKept, Kept
<1>5. ASSUME NEW d \in Deletion PROVE DeletionInv(d)
  <2>1. deletion[d] = NoDeletion /\ stage[d] = "IDLE"
    OBVIOUS
  <2> QED BY <2>1 DEF DeletionInv, PlanIsKnown, PurgedStaysPurged, ClosureStays, NoDeletion
<1> QED BY <1>3, <1>4, <1>5 DEF MemoryInv

LEMMA MemoryInvNext ==
  ASSUME MemoryInv, [MemoryNext]_memory
  PROVE  MemoryInv'
<1>1. CASE RecordStep
  BY <1>1, RecordStepsDo, RecordStepsKeep
<1>2. ASSUME NEW d \in Deletion, JobStep(d) PROVE MemoryInv'
  BY <1>2, JobStepsDo, JobStepsKeep
<1>3. CASE UNCHANGED memory
  BY <1>3 DEF memory, MemoryInv, MemoryTypeOK, DeletedIsEntombed, RecallableIsKept, Kept,
              DeletionInv, PlanIsKnown, PurgedStaysPurged, ClosureStays, Fence
<1> QED BY <1>1, <1>2, <1>3, MemoryStepIs

LEMMA MemoryStaysDeleted ==
  ASSUME MemoryInv, [MemoryNext]_memory, NEW m \in Memory, tombstone[m] # "NONE"
  PROVE  tombstone'[m] # "NONE" /\ record'[m].rev = record[m].rev /\ (Kept(m)' => Kept(m))
<1>1. CASE RecordStep
  BY <1>1, RecordStepsDo DEF RecordStepDoes, RecordMove, Rewritten, Removed, Kept
<1>2. ASSUME NEW d \in Deletion, JobStep(d)
      PROVE  tombstone'[m] # "NONE" /\ record'[m].rev = record[m].rev /\ (Kept(m)' => Kept(m))
  BY <1>2, JobStepsDo DEF JobStepDoes, Kept
<1>3. CASE UNCHANGED memory
  BY <1>3 DEF memory, Kept
<1> QED BY <1>1, <1>2, <1>3, MemoryStepIs

LEMMA MemoryInvErases ==
  ASSUME MemoryInv
  PROVE  CompletedIsErased
<1> SUFFICES ASSUME NEW d \in Deletion, deletion[d].status = "COMPLETED"
             PROVE  /\ \A m \in deletion[d].memories : ~Kept(m) /\ tombstone[m] # "NONE"
                    /\ files \cap Erasable(d) \subseteq Late(d)
                    /\ \A m \in Memory :
                         Kept(m) => record[m].from \cap Names(deletion[d].memories) \subseteq Late(d)
  BY DEF CompletedIsErased
<1>1. DeletionInv(d) /\ DeletedIsEntombed /\ deletion[d].memories \subseteq Memory
  BY MemoryTypes DEF MemoryInv
<1>2. \A m \in deletion[d].memories : ~Kept(m) /\ tombstone[m] # "NONE"
  BY <1>1 DEF DeletionInv, PlanIsKnown, DeletedIsEntombed
<1>3. files \cap Erasable(d) \subseteq Late(d)
  BY <1>1 DEF DeletionInv, PurgedStaysPurged, Late
<1>4. Names(deletion[d].memories) \subseteq Late(d) \cup Fence(d)
  BY DEF Names, Late, Erasable, Fence
<1> QED BY <1>1, <1>2, <1>3, <1>4 DEF DeletionInv, ClosureStays

(***************************************************************************)
(* The store and its indexes hold what their types say, whoever works on   *)
(* them (sqlite-store.ts, operations.ts, local-vector-index.ts).           *)
(***************************************************************************)
THEOREM MemoryIsTyped == MemorySpec => []MemoryTypeOK
<1>1. MemoryInit => MemoryInv
  BY MemoryInvInit
<1>2. MemoryInv /\ [MemoryNext]_memory => MemoryInv'
  BY MemoryInvNext
<1>3. MemoryInv => MemoryTypeOK
  BY DEF MemoryInv
<1> QED BY <1>1, <1>2, <1>3, PTL DEF MemorySpec

(***************************************************************************)
(* The vector index returns only what is on record: the check of           *)
(* activateGeneration against the records is enough, whatever was deleted  *)
(* while the embeddings were computed.                                     *)
(***************************************************************************)
THEOREM RecallIsOnRecord == MemorySpec => []RecallableIsKept
<1>1. MemoryInit => MemoryInv
  BY MemoryInvInit
<1>2. MemoryInv /\ [MemoryNext]_memory => MemoryInv'
  BY MemoryInvNext
<1>3. MemoryInv => RecallableIsKept
  BY DEF MemoryInv
<1> QED BY <1>1, <1>2, <1>3, PTL DEF MemorySpec

(***************************************************************************)
(* A legal deletion that is complete has deleted its memories for good,    *)
(* and no artifact of theirs is left, nor anything that derives from them, *)
(* but for the revisions that corrections added since it was planned; for  *)
(* any number of jobs side by side, failures, deaths and resumptions.      *)
(***************************************************************************)
THEOREM CompletedDeletionsErase == MemorySpec => []CompletedIsErased
<1>1. MemoryInit => MemoryInv
  BY MemoryInvInit
<1>2. MemoryInv /\ [MemoryNext]_memory => MemoryInv'
  BY MemoryInvNext
<1>3. MemoryInv => CompletedIsErased
  BY MemoryInvErases
<1> QED BY <1>1, <1>2, <1>3, PTL DEF MemorySpec

(***************************************************************************)
(* A memory with a tombstone is neither created nor corrected again.       *)
(***************************************************************************)
THEOREM DeletionIsFinal == MemorySpec => DeletedStaysDeleted
<1>1. MemoryInit => MemoryInv
  BY MemoryInvInit
<1>2. MemoryInv /\ [MemoryNext]_memory => MemoryInv'
  BY MemoryInvNext
<1>3. MemoryInv /\ [MemoryNext]_memory =>
        [\A m \in Memory : tombstone[m] # "NONE" =>
           /\ tombstone'[m] # "NONE"
           /\ record'[m].rev = record[m].rev
           /\ Kept(m)' => Kept(m)]_memory
  BY MemoryStaysDeleted
<1> QED BY <1>1, <1>2, <1>3, PTL DEF MemorySpec, DeletedStaysDeleted

-----------------------------------------------------------------------------
(* IncidentClosure. *)

Closed == {"COMMITTED", "SAVED", "UNWRITTEN"}

(***************************************************************************)
(* A closer has a closure of its own from its commit on, and its batch is  *)
(* there from the next step on.                                            *)
(***************************************************************************)
ClosersKnow ==
  \A x \in Closer :
    /\ closing[x].closure <= Len(closedAt)
    /\ closing[x].closure # 0 <=> closing[x].pc \in Closed
    /\ closing[x].closure \in batches <=> closing[x].pc \in {"SAVED", "UNWRITTEN"}
    /\ \A y \in Closer :
         closing[x].closure = closing[y].closure /\ closing[x].closure # 0 => x = y

(***************************************************************************)
(* Batches are of closings, jobs of batches, and a worker is at a job.     *)
(***************************************************************************)
BatchesKnown == \A c \in batches : c <= Len(closedAt)

JobsKnown == \A j \in Job : job[j].state # "ABSENT" => j \in batches

WorkersKnow ==
  \A w \in Worker :
    /\ work[w].pc # "IDLE" => work[w].job \in batches
    /\ work[w].pc = "WRITTEN" => record[work[w].job].rev > 0

(***************************************************************************)
(* What a closer has read holds for as long as the incident has the        *)
(* revision that it read.                                                  *)
(***************************************************************************)
Grounded ==
  incident.cause = "CONFIRMED" /\ incident.repro = "REPRODUCIBLE" /\ HasLineage

ReadIsGrounded ==
  \A x \in Closer : At(x, "READ") =>
    closing[x].rev <= incident.rev /\ (closing[x].rev = incident.rev => Grounded)

Known == ClosersKnow /\ BatchesKnown /\ JobsKnown /\ WorkersKnow

IncidentInv ==
  /\ QueueInv /\ MemoryInv /\ IncidentTypeOK
  /\ Known /\ ReadIsGrounded /\ ClosedIsGrounded /\ ClosureNotForgotten

LEMMA BatchIs ==
  ASSUME IncidentTypeOK, NEW c \in batches
  PROVE  c \in Closure /\ c \in Job /\ c \in Memory /\ c # 0
BY ClosureConstants DEF IncidentTypeOK, Closure

-----------------------------------------------------------------------------
(* The parts of the composition. *)

(***************************************************************************)
(* What a closing writes to the memory store is a creation, or nothing.    *)
(***************************************************************************)
LEMMA WriteIsCreate ==
  ASSUME NEW c \in Memory, WriteMemory(c)
  PROVE  [MemoryNext]_memory
<1>1. {} \in Sources(c)
  BY DEF Sources
<1> QED BY <1>1 DEF WriteMemory, MemoryNext

LEMMA PartsOfClose ==
  ASSUME IncidentTypeOK, Known, NEW x \in Closer, Close(x)
  PROVE  [QueueNext]_queue /\ [MemoryNext]_memory
<1>1. CASE CloseReads(x) \/ CloseCommits(x) \/ CloseSaves(x) \/ CloseRefused(x)
           \/ CloseWriteThrows(x)
  BY <1>1 DEF CloseReads, CloseCommits, CloseSaves, CloseRefused, CloseWriteThrows
<1>2. At(x, "SAVED") \/ At(x, "UNWRITTEN") => closing[x].closure \in batches
  BY DEF Known, ClosersKnow, At
<1>3. CASE CloseWrites(x)
  <2>1. closing[x].closure \in Memory
    BY <1>2, <1>3, BatchIs DEF CloseWrites
  <2> QED BY <1>3, <2>1, WriteIsCreate DEF CloseWrites
<1>4. CASE CloseEnqueues(x)
  <2>1. closing[x].closure \in Job
    BY <1>2, <1>4, BatchIs DEF CloseEnqueues
  <2> QED BY <1>4, <2>1 DEF CloseEnqueues, QueueNext
<1> QED BY <1>1, <1>3, <1>4 DEF Close

LEMMA PartsOfProcess ==
  ASSUME IncidentTypeOK, Known, NEW w \in Worker, ProcessNextMemoryWrite(w)
  PROVE  [QueueNext]_queue /\ [MemoryNext]_memory
<1>1. work[w].pc # "IDLE" => work[w].job \in Job /\ work[w].job \in Memory
  BY BatchIs DEF Known, WorkersKnow
<1>2. ASSUME NEW j \in Job, WorkerClaims(w, j)
      PROVE  [QueueNext]_queue /\ [MemoryNext]_memory
  BY <1>2 DEF WorkerClaims, QueueNext
<1>3. CASE WorkerFindsNothing(w)
  BY <1>3 DEF WorkerFindsNothing, QueueNext
<1>4. CASE WorkerStarts(w)
  BY <1>1, <1>4 DEF WorkerStarts, Step, QueueNext
<1>5. CASE WorkerWrites(w)
  BY <1>1, <1>5, WriteIsCreate DEF WorkerWrites, DoneBy, Step
<1>6. CASE WorkerWriteThrows(w) \/ WorkerRefused(w)
  BY <1>6 DEF WorkerWriteThrows, WorkerRefused
<1>7. CASE WorkerSucceeds(w)
  BY <1>1, <1>7 DEF WorkerSucceeds, Step, QueueNext
<1>8. CASE WorkerFails(w)
  BY <1>1, <1>8 DEF WorkerFails, Step, QueueNext
<1> QED BY <1>2, <1>3, <1>4, <1>5, <1>6, <1>7, <1>8 DEF ProcessNextMemoryWrite

(***************************************************************************)
(* A step of the incident is a step of the queue, or leaves it alone; the  *)
(* same goes for the memory store.                                         *)
(***************************************************************************)
LEMMA StepsOfParts ==
  ASSUME IncidentTypeOK, Known, [IncidentNext]_vars
  PROVE  [QueueNext]_queue /\ [MemoryNext]_memory
<1>1. CASE Investigate
  BY <1>1 DEF Investigate
<1>2. ASSUME NEW x \in Closer, Close(x) PROVE [QueueNext]_queue /\ [MemoryNext]_memory
  BY <1>2, PartsOfClose
<1>3. ASSUME NEW w \in Worker, ProcessNextMemoryWrite(w)
      PROVE  [QueueNext]_queue /\ [MemoryNext]_memory
  BY <1>3, PartsOfProcess
<1>4. CASE ProcessDies
  BY <1>4 DEF ProcessDies
<1>5. ASSUME NEW j \in Job, LeaseRunsOut(j) \/ BackoffRunsOut(j)
      PROVE  [QueueNext]_queue /\ [MemoryNext]_memory
  BY <1>5 DEF LeaseRunsOut, BackoffRunsOut, QueueNext
<1>6. CASE UseMemory
  BY <1>6 DEF UseMemory
<1>7. CASE UNCHANGED vars
  BY <1>7 DEF vars
<1> QED BY <1>1, <1>2, <1>3, <1>4, <1>5, <1>6, <1>7 DEF IncidentNext

(***************************************************************************)
(* What the calls of the queue do to the states that count here: a job     *)
(* comes to be by Enqueue only, and succeeds by Succeed only.              *)
(***************************************************************************)
Keeps(k) ==
  /\ job'[k].state = "ABSENT" <=> job[k].state = "ABSENT"
  /\ job'[k].state = "SUCCEEDED" => job[k].state = "SUCCEEDED"

LEMMA ReclaimKeeps ==
  ASSUME QueueTypeOK, NEW w \in Worker, NEW k \in Job
  PROVE  /\ Reclaimed(w, k).state = "ABSENT" <=> job[k].state = "ABSENT"
         /\ Reclaimed(w, k).state = "SUCCEEDED" => job[k].state = "SUCCEEDED"
<1>1. job[k] \in JobRecord
  BY DEF QueueTypeOK
<1>2. \A n : AfterFailure(n) \in {"DEAD_LETTER", "RETRY_PENDING"}
  BY DEF AfterFailure
<1>3. CASE ~Overdue(k)
  BY <1>3, NotOverdueStays
<1>4. CASE Overdue(k) /\ job[k].state = "LEASED"
  <2>1. Reclaimed(w, k) = [job[k] EXCEPT !.state = "PENDING", !.by = w, !.late = FALSE]
    BY <1>4 DEF Reclaimed
  <2> QED BY <1>1, <1>4, <2>1 DEF JobRecord
<1>5. CASE Overdue(k) /\ job[k].state = "RUNNING"
  <2>1. Reclaimed(w, k).state = AfterFailure(Len(attempts[k]) + 1)
    BY <1>5 DEF Reclaimed
  <2> QED BY <1>2, <1>5, <2>1
<1> QED BY <1>3, <1>4, <1>5 DEF Overdue, Active

LEMMA QueueCallsKeep ==
  ASSUME QueueTypeOK, NEW j \in Job
  PROVE  /\ \A w \in Worker :
              /\ Claim(w, j) => job[j].state # "ABSENT" /\ \A k \in Job : Keeps(k)
              /\ ClaimNothing(w) => \A k \in Job : Keeps(k)
              /\ Start(w, j) \/ Fail(w, j) => \A k \in Job : Keeps(k)
              /\ Succeed(w, j) =>
                   \A k \in Job : /\ job'[k].state = "ABSENT" <=> job[k].state = "ABSENT"
                                  /\ k # j => Keeps(k)
         /\ LeaseExpires(j) \/ BackoffEnds(j) => \A k \in Job : Keeps(k)
         /\ Enqueue(j) => /\ job'[j].state = "PENDING"
                          /\ \A k \in Job : k # j => Keeps(k)
<1>1. job \in [Job -> JobRecord]
  BY DEF QueueTypeOK
<1>2. \A n : AfterFailure(n) \in {"DEAD_LETTER", "RETRY_PENDING"}
  BY DEF AfterFailure
<1>3. ASSUME NEW w \in Worker, Claim(w, j)
      PROVE  job[j].state # "ABSENT" /\ \A k \in Job : Keeps(k)
  <2>1. job[j].state # "ABSENT"
    BY <1>3, ReclaimKeeps DEF Claim, Claimable, Waiting
  <2>2. job'[j].state = "LEASED" /\ \A k \in Job : k # j => job'[k] = Reclaimed(w, k)
    BY <1>3 DEF Claim
  <2> QED BY <2>1, <2>2, ReclaimKeeps DEF Keeps
<1>4. ASSUME NEW w \in Worker, ClaimNothing(w) PROVE \A k \in Job : Keeps(k)
  BY <1>4, ReclaimKeeps DEF ClaimNothing, Keeps
<1>5. ASSUME NEW w \in Worker, Start(w, j) PROVE \A k \in Job : Keeps(k)
  BY <1>1, <1>5 DEF Start, Keeps, JobRecord
<1>6. ASSUME NEW w \in Worker, Fail(w, j) PROVE \A k \in Job : Keeps(k)
  BY <1>1, <1>2, <1>6 DEF Fail, Finish, Keeps, Holds, Active
<1>7. ASSUME NEW w \in Worker, Succeed(w, j)
      PROVE  \A k \in Job : /\ job'[k].state = "ABSENT" <=> job[k].state = "ABSENT"
                            /\ k # j => Keeps(k)
  BY <1>1, <1>7 DEF Succeed, Finish, Keeps, Holds, Active
<1>8. LeaseExpires(j) \/ BackoffEnds(j) => \A k \in Job : Keeps(k)
  BY <1>1 DEF LeaseExpires, BackoffEnds, Keeps, JobRecord
<1>9. Enqueue(j) => job'[j].state = "PENDING" /\ \A k \in Job : k # j => Keeps(k)
  BY <1>1 DEF Enqueue, Keeps, JobRecord
<1> QED BY <1>3, <1>4, <1>5, <1>6, <1>7, <1>8, <1>9

(***************************************************************************)
(* A memory that was written stays written, be it deleted afterwards; what *)
(* a closing writes is written.                                            *)
(***************************************************************************)
LEMMA WrittenStays ==
  ASSUME MemoryInv, [MemoryNext]_memory, NEW m \in Memory, record[m].rev > 0
  PROVE  record'[m].rev > 0
<1>1. record[m].rev \in Nat
  BY MemoryTypes DEF MemoryInv
<1>2. CASE RecordStep
  BY <1>1, <1>2, RecordStepsDo DEF RecordStepDoes, RecordMove, Rewritten, Removed
<1>3. ASSUME NEW d \in Deletion, JobStep(d) PROVE record'[m].rev > 0
  BY <1>3, JobStepsDo DEF JobStepDoes
<1>4. CASE UNCHANGED memory
  BY <1>4 DEF memory
<1> QED BY <1>2, <1>3, <1>4, MemoryStepIs

LEMMA WriteWrites ==
  ASSUME MemoryInv, NEW c \in Memory, WriteMemory(c)
  PROVE  record'[c].rev > 0
<1>1. CASE Written(c) /\ UNCHANGED memory
  BY <1>1 DEF Written, memory
<1>2. CASE Create(c, {})
  <2>1. record \in [Memory -> MemoryRecord] /\ record[c].rev \in Nat
    BY MemoryTypes, TypeOKIs DEF MemoryInv
  <2>2. record'[c].rev = record[c].rev + 1
    BY <1>2, <2>1 DEF Create, Insert
  <2> QED BY <2>1, <2>2
<1> QED BY <1>1, <1>2 DEF WriteMemory

-----------------------------------------------------------------------------
(* Types. *)

IncidentRecord ==
  [rev : 1..MaxIncidentRevision, status : {"OPEN", "CLOSED"},
   repro : {"NOT_ATTEMPTED", "REPRODUCIBLE", "NON_REPRODUCIBLE"},
   cause : {"UNCONFIRMED", "CONFIRMED"}]

ClosingRecord ==
  [pc : {"IDLE", "READ", "COMMITTED", "SAVED", "UNWRITTEN"},
   rev : 0..MaxIncidentRevision, closure : 0..MaxClosures]

WorkRecord == [pc : {"IDLE", "CLAIMED", "STARTED", "WRITTEN", "FAILED"}, job : Job \cup {0}]

InvestigationTypeOK ==
  /\ incident \in IncidentRecord
  /\ hypothesis \in {"NONE", "ACTIVE", "SUPPORTED", "REJECTED"}
  /\ evidence \in [Proposal -> SUBSET Gate]
  /\ replay \in 0..MaxIncidentRevision

ClosuresTypeOK ==
  /\ closing \in [Closer -> ClosingRecord]
  /\ closedAt \in Seq(1..MaxIncidentRevision) /\ Len(closedAt) <= MaxClosures
  /\ batches \subseteq Closure

LEMMA IncidentTypes ==
  IncidentTypeOK <=>
    /\ InvestigationTypeOK /\ ClosuresTypeOK
    /\ work \in [Worker -> WorkRecord] /\ slips \in 0..MaxSlips
BY DEF IncidentTypeOK, InvestigationTypeOK, ClosuresTypeOK, IncidentRecord, ClosingRecord, WorkRecord

(***************************************************************************)
(* A revision of the incident has the next number.                         *)
(***************************************************************************)
LEMMA ReviseTypes ==
  ASSUME incident \in IncidentRecord, NEW status \in {"OPEN", "CLOSED"},
         NEW repro \in {"NOT_ATTEMPTED", "REPRODUCIBLE", "NON_REPRODUCIBLE"},
         NEW cause \in {"UNCONFIRMED", "CONFIRMED"}, Revise(status, repro, cause)
  PROVE  /\ incident' \in IncidentRecord /\ incident'.rev = incident.rev + 1
         /\ incident'.status = status /\ incident'.repro = repro /\ incident'.cause = cause
<1>1. incident.rev + 1 \in 1..MaxIncidentRevision
  BY ClosureConstants DEF Revise, IncidentRecord
<1> QED BY <1>1 DEF Revise, IncidentRecord

LEMMA InvestigationTypes ==
  ASSUME InvestigationTypeOK, Investigate
  PROVE  InvestigationTypeOK'
<1> USE DEF InvestigationTypeOK
<1>1. /\ incident.status \in {"OPEN", "CLOSED"} /\ incident.cause \in {"UNCONFIRMED", "CONFIRMED"}
      /\ incident.repro \in {"NOT_ATTEMPTED", "REPRODUCIBLE", "NON_REPRODUCIBLE"}
      /\ incident.rev \in 0..MaxIncidentRevision
  BY ClosureConstants DEF IncidentRecord
<1>2. CASE AttachObservation
  BY <1>1, <1>2, ReviseTypes DEF AttachObservation
<1>3. CASE AddHypothesis
  BY <1>1, <1>3, ReviseTypes DEF AddHypothesis, Hypothesize
<1>4. CASE ConfirmRootCause
  BY <1>1, <1>4, ReviseTypes DEF ConfirmRootCause
<1>5. CASE Reopen
  BY <1>1, <1>5, ReviseTypes DEF Reopen
<1>6. ASSUME NEW o \in {"SUPPORTED", "REJECTED"}, RecordExperiment(o) PROVE InvestigationTypeOK'
  BY <1>1, <1>6, ReviseTypes DEF RecordExperiment, Hypothesize
<1>7. CASE ReplayBegins
  BY <1>1, <1>7 DEF ReplayBegins
<1>8. ASSUME NEW r \in {"REPRODUCIBLE", "NON_REPRODUCIBLE"}, ReplayEnds(r)
      PROVE  InvestigationTypeOK'
  <2>1. incident' \in IncidentRecord
    BY <1>1, <1>8, ReviseTypes DEF ReplayEnds
  <2> QED BY <1>8, <2>1, ClosureConstants DEF ReplayEnds
<1>9. ASSUME NEW p \in Proposal, NEW g \in Gate, RecordEvidence(p, g) PROVE InvestigationTypeOK'
  BY <1>9 DEF RecordEvidence
<1> QED BY <1>2, <1>3, <1>4, <1>5, <1>6, <1>7, <1>8, <1>9 DEF Investigate

LEMMA CloseTypes ==
  ASSUME InvestigationTypeOK, ClosuresTypeOK, ClosersKnow, NEW x \in Closer, Close(x)
  PROVE  InvestigationTypeOK' /\ ClosuresTypeOK'
<1> USE DEF ClosuresTypeOK
<1>1. /\ incident \in IncidentRecord /\ incident.rev \in 0..MaxIncidentRevision
      /\ incident.repro \in {"NOT_ATTEMPTED", "REPRODUCIBLE", "NON_REPRODUCIBLE"}
      /\ incident.cause \in {"UNCONFIRMED", "CONFIRMED"}
      /\ closing[x] \in ClosingRecord
  BY ClosureConstants DEF InvestigationTypeOK, IncidentRecord
<1>2. CloserIdle \in ClosingRecord /\ 0 \in 0..MaxClosures
  BY ClosureConstants DEF CloserIdle, ClosingRecord
<1>3. ASSUME UNCHANGED investigation PROVE InvestigationTypeOK'
  BY <1>3 DEF investigation, InvestigationTypeOK
<1>4. CASE CloseReads(x)
  <2>1. [pc |-> "READ", rev |-> incident.rev, closure |-> 0] \in ClosingRecord
    BY <1>1, <1>2 DEF ClosingRecord
  <2> QED BY <1>3, <1>4, <2>1 DEF CloseReads
<1>5. CASE CloseCommits(x)
  <2>1. incident' \in IncidentRecord
    BY <1>1, <1>5, ReviseTypes DEF CloseCommits
  <2>2. InvestigationTypeOK'
    BY <1>5, <2>1 DEF CloseCommits, InvestigationTypeOK
  <2>3. incident'.rev \in 1..MaxIncidentRevision
    BY <2>1 DEF IncidentRecord
  <2>4. /\ closedAt' \in Seq(1..MaxIncidentRevision)
        /\ Len(closedAt') = Len(closedAt) + 1 /\ Len(closedAt) \in Nat
    BY <1>5, <2>3, AppendProperties, LenProperties DEF CloseCommits
  <2>5. Len(closedAt') \in 0..MaxClosures /\ Len(closedAt') <= MaxClosures
    BY <1>5, <2>4, ClosureConstants DEF CloseCommits
  <2>6. closing' \in [Closer -> ClosingRecord]
    BY <1>5, <2>5 DEF CloseCommits, ClosingRecord
  <2> QED BY <1>5, <2>2, <2>4, <2>5, <2>6 DEF CloseCommits
<1>6. CASE CloseSaves(x)
  <2>1. closing[x].closure \in Closure
    BY <1>1, <1>6, ClosureConstants DEF CloseSaves, At, ClosersKnow, Closed, ClosingRecord, Closure
  <2>2. closing' \in [Closer -> ClosingRecord]
    BY <1>6 DEF CloseSaves, ClosingRecord
  <2> QED BY <1>3, <1>6, <2>1, <2>2 DEF CloseSaves
<1>7. CASE CloseRefused(x) \/ CloseWrites(x) \/ CloseEnqueues(x)
  BY <1>2, <1>3, <1>7 DEF CloseRefused, CloseWrites, CloseEnqueues
<1>8. CASE CloseWriteThrows(x)
  <2>1. closing' \in [Closer -> ClosingRecord]
    BY <1>8 DEF CloseWriteThrows, ClosingRecord
  <2> QED BY <1>3, <1>8, <2>1 DEF CloseWriteThrows
<1> QED BY <1>4, <1>5, <1>6, <1>7, <1>8 DEF Close

LEMMA ProcessTypes ==
  ASSUME work \in [Worker -> WorkRecord], NEW w \in Worker, ProcessNextMemoryWrite(w)
  PROVE  /\ work' \in [Worker -> WorkRecord]
         /\ \A v \in Worker : v # w => work'[v] = work[v]
<1>1. \A from, to : to \in {"IDLE", "STARTED", "WRITTEN", "FAILED"} /\ Step(w, from, to) =>
        /\ work' \in [Worker -> WorkRecord]
        /\ \A v \in Worker : v # w => work'[v] = work[v]
  <2> SUFFICES ASSUME NEW from, NEW to \in {"IDLE", "STARTED", "WRITTEN", "FAILED"}, Step(w, from, to)
               PROVE  /\ work' \in [Worker -> WorkRecord]
                      /\ \A v \in Worker : v # w => work'[v] = work[v]
    OBVIOUS
  <2>1. WorkerIdle \in WorkRecord /\ [work[w] EXCEPT !.pc = to] \in WorkRecord
    BY DEF WorkerIdle, WorkRecord
  <2> QED BY <2>1 DEF Step
<1>2. ASSUME NEW j \in Job, WorkerClaims(w, j)
      PROVE  /\ work' \in [Worker -> WorkRecord]
             /\ \A v \in Worker : v # w => work'[v] = work[v]
  <2>1. [pc |-> "CLAIMED", job |-> j] \in WorkRecord
    BY DEF WorkRecord
  <2> QED BY <1>2, <2>1 DEF WorkerClaims
<1>3. CASE WorkerFindsNothing(w)
  BY <1>3 DEF WorkerFindsNothing
<1>4. CASE WorkerStarts(w) \/ WorkerWrites(w) \/ WorkerWriteThrows(w) \/ WorkerSucceeds(w)
           \/ WorkerFails(w) \/ WorkerRefused(w)
  BY <1>1, <1>4 DEF WorkerStarts, WorkerWrites, WorkerWriteThrows, WorkerSucceeds,
                    WorkerFails, WorkerRefused
<1> QED BY <1>2, <1>3, <1>4 DEF ProcessNextMemoryWrite

LEMMA DiesTypes ==
  ASSUME IncidentTypeOK, ProcessDies
  PROVE  IncidentTypeOK'
<1>1. CloserIdle \in ClosingRecord /\ WorkerIdle \in WorkRecord
  BY ClosureConstants DEF CloserIdle, ClosingRecord, WorkerIdle, WorkRecord
<1>2. /\ InvestigationTypeOK /\ ClosuresTypeOK
      /\ work \in [Worker -> WorkRecord] /\ slips \in 0..MaxSlips
  BY IncidentTypes
<1>3. closing' \in [Closer -> ClosingRecord]
  BY <1>1, <1>2 DEF ProcessDies, ClosuresTypeOK
<1>4. work' \in [Worker -> WorkRecord]
  BY <1>1, <1>2 DEF ProcessDies, Step
<1>5. slips' \in 0..MaxSlips
  BY <1>2, ClosureConstants DEF ProcessDies
<1>6. UNCHANGED <<investigation, closedAt, batches>>
  BY DEF ProcessDies
<1> QED BY <1>2, <1>3, <1>4, <1>5, <1>6
        DEF IncidentTypeOK, InvestigationTypeOK, ClosuresTypeOK, IncidentRecord,
            ClosingRecord, WorkRecord, investigation

LEMMA IncidentTypeNext ==
  ASSUME IncidentTypeOK, Known, [IncidentNext]_vars
  PROVE  IncidentTypeOK'
<1> DEFINE Typed == InvestigationTypeOK /\ ClosuresTypeOK /\ work \in [Worker -> WorkRecord]
                    /\ slips \in 0..MaxSlips
<1>1. Typed
  BY IncidentTypes
<1>2. Typed' => IncidentTypeOK'
  BY DEF IncidentTypeOK, InvestigationTypeOK, ClosuresTypeOK, IncidentRecord, ClosingRecord,
         WorkRecord
<1>3. CASE Investigate
  <2>1. InvestigationTypeOK'
    BY <1>1, <1>3, InvestigationTypes
  <2> QED BY <1>1, <1>2, <1>3, <2>1 DEF Investigate, closures, ClosuresTypeOK
<1>4. ASSUME NEW x \in Closer, Close(x) PROVE IncidentTypeOK'
  <2>1. InvestigationTypeOK' /\ ClosuresTypeOK'
    BY <1>1, <1>4, CloseTypes DEF Known
  <2> QED BY <1>1, <1>2, <1>4, <2>1 DEF Close
<1>5. ASSUME NEW w \in Worker, ProcessNextMemoryWrite(w) PROVE IncidentTypeOK'
  <2>1. work' \in [Worker -> WorkRecord]
    BY <1>1, <1>5, ProcessTypes
  <2>2. UNCHANGED <<investigation, closures, slips>>
    BY <1>5 DEF ProcessNextMemoryWrite
  <2> QED BY <1>1, <1>2, <2>1, <2>2
          DEF InvestigationTypeOK, ClosuresTypeOK, investigation, closures
<1>6. CASE ProcessDies
  BY <1>6, DiesTypes
<1>7. ASSUME NEW j \in Job, LeaseRunsOut(j) PROVE IncidentTypeOK'
  <2>1. slips' \in 0..MaxSlips
    BY <1>1, <1>7, ClosureConstants DEF LeaseRunsOut
  <2> QED BY <1>1, <1>2, <1>7, <2>1
          DEF LeaseRunsOut, InvestigationTypeOK, ClosuresTypeOK, investigation, closures
<1>8. CASE UNCHANGED <<investigation, closures, work, slips>>
  BY <1>1, <1>2, <1>8 DEF InvestigationTypeOK, ClosuresTypeOK, investigation, closures
<1>9. (UseMemory \/ UNCHANGED vars) \/ (\E j \in Job : BackoffRunsOut(j)) =>
        UNCHANGED <<investigation, closures, work, slips>>
  BY DEF UseMemory, BackoffRunsOut, vars
<1> QED BY <1>3, <1>4, <1>5, <1>6, <1>7, <1>8, <1>9 DEF IncidentNext

-----------------------------------------------------------------------------
(* Grounds. *)

(***************************************************************************)
(* What investigating does to the grounds that a closer may have read: the *)
(* evidence only grows, and whatever else changes makes a new revision.    *)
(***************************************************************************)
LEMMA InvestigationMoves ==
  ASSUME InvestigationTypeOK, Investigate
  PROVE  /\ incident' = incident \/ incident'.rev = incident.rev + 1
         /\ HasLineage => HasLineage'
         /\ incident'.status = "CLOSED" =>
              /\ incident.status = "CLOSED"
              /\ incident.cause = "CONFIRMED" => incident'.cause = "CONFIRMED"
              /\ incident'.repro = incident.repro
<1>1. /\ incident.status \in {"OPEN", "CLOSED"} /\ incident.cause \in {"UNCONFIRMED", "CONFIRMED"}
      /\ incident.repro \in {"NOT_ATTEMPTED", "REPRODUCIBLE", "NON_REPRODUCIBLE"}
      /\ incident \in IncidentRecord /\ evidence \in [Proposal -> SUBSET Gate]
  BY DEF InvestigationTypeOK, IncidentRecord
<1>2. evidence' = evidence => (HasLineage => HasLineage')
  BY DEF HasLineage
<1>3. CASE AttachObservation
  BY <1>1, <1>2, <1>3, ReviseTypes DEF AttachObservation
<1>4. CASE AddHypothesis
  BY <1>1, <1>2, <1>4, ReviseTypes DEF AddHypothesis, Hypothesize
<1>5. CASE ConfirmRootCause
  BY <1>1, <1>2, <1>5, ReviseTypes DEF ConfirmRootCause
<1>6. CASE Reopen
  BY <1>1, <1>2, <1>6, ReviseTypes DEF Reopen
<1>7. CASE \E o \in {"SUPPORTED", "REJECTED"} : RecordExperiment(o)
  BY <1>1, <1>2, <1>7, ReviseTypes DEF RecordExperiment, Hypothesize
<1>8. CASE ReplayBegins
  BY <1>2, <1>8 DEF ReplayBegins
<1>9. ASSUME NEW r \in {"REPRODUCIBLE", "NON_REPRODUCIBLE"}, ReplayEnds(r)
      PROVE  /\ incident' = incident \/ (incident'.rev = incident.rev + 1 /\ incident'.status = "OPEN")
             /\ evidence' = evidence
  BY <1>1, <1>9, ReviseTypes DEF ReplayEnds
<1>10. ASSUME NEW p \in Proposal, NEW g \in Gate, RecordEvidence(p, g)
       PROVE  incident' = incident /\ (HasLineage => HasLineage')
  <2>1. \A q \in Proposal : evidence[q] = Gate => evidence'[q] = Gate
    BY <1>1, <1>10 DEF RecordEvidence
  <2> QED BY <1>10, <2>1 DEF RecordEvidence, HasLineage
<1> QED BY <1>2, <1>3, <1>4, <1>5, <1>6, <1>7, <1>8, <1>9, <1>10 DEF Investigate

LEMMA RevisionsAre ==
  ASSUME IncidentTypeOK
  PROVE  /\ incident.rev \in Nat /\ incident \in IncidentRecord
         /\ \A x \in Closer : closing[x] \in ClosingRecord /\ closing[x].rev \in Nat
                              /\ closing[x].closure \in Nat
         /\ closing \in [Closer -> ClosingRecord]
         /\ Len(closedAt) \in Nat
<1>1. incident \in IncidentRecord /\ closing \in [Closer -> ClosingRecord]
  BY IncidentTypes DEF InvestigationTypeOK, ClosuresTypeOK
<1>2. Len(closedAt) \in Nat
  BY IncidentTypes, LenProperties DEF ClosuresTypeOK
<1> QED BY <1>1, <1>2, ClosureConstants DEF IncidentRecord, ClosingRecord

LEMMA GroundsNext ==
  ASSUME IncidentTypeOK, ReadIsGrounded, ClosedIsGrounded, [IncidentNext]_vars
  PROVE  ReadIsGrounded' /\ ClosedIsGrounded'
<1>1. /\ incident.rev \in Nat /\ incident \in IncidentRecord
      /\ \A x \in Closer : closing[x].rev \in Nat
      /\ closing \in [Closer -> ClosingRecord]
  BY RevisionsAre
<1>2. CASE Investigate
  <2>1. /\ incident' = incident \/ incident'.rev = incident.rev + 1
        /\ HasLineage => HasLineage'
        /\ incident'.status = "CLOSED" =>
             /\ incident.status = "CLOSED"
             /\ incident.cause = "CONFIRMED" => incident'.cause = "CONFIRMED"
             /\ incident'.repro = incident.repro
    BY <1>2, IncidentTypes, InvestigationMoves
  <2>2. closing' = closing
    BY <1>2 DEF Investigate, closures
  <2>3. ClosedIsGrounded'
    BY <2>1 DEF ClosedIsGrounded, HasLineage
  <2>4. ASSUME NEW x \in Closer, At(x, "READ")
        PROVE  closing[x].rev <= incident'.rev /\ (closing[x].rev = incident'.rev => Grounded')
    <3>1. /\ closing[x].rev <= incident.rev /\ (closing[x].rev = incident.rev => Grounded)
          /\ closing[x].rev \in Nat
      BY <1>1, <2>4 DEF ReadIsGrounded
    <3>2. CASE incident' = incident
      BY <2>1, <3>1, <3>2 DEF Grounded
    <3>3. CASE incident'.rev = incident.rev + 1
      BY <1>1, <3>1, <3>3
    <3> QED BY <2>1, <3>2, <3>3
  <2> QED BY <2>2, <2>3, <2>4 DEF ReadIsGrounded, At
<1>3. ASSUME UNCHANGED investigation,
             \A x \in Closer : /\ closing'[x].pc = "READ" => closing'[x] = closing[x] \/
                                   (closing'[x].rev = incident.rev /\ Grounded)
      PROVE  ReadIsGrounded' /\ ClosedIsGrounded'
  <2>1. incident' = incident /\ Grounded' = Grounded /\ ClosedIsGrounded'
    BY <1>3 DEF investigation, Grounded, HasLineage, ClosedIsGrounded
  <2>2. ASSUME NEW x \in Closer, closing'[x].pc = "READ"
        PROVE  closing'[x].rev <= incident.rev /\ (closing'[x].rev = incident.rev => Grounded)
    BY <1>1, <1>3, <2>2 DEF ReadIsGrounded, At
  <2> QED BY <2>1, <2>2 DEF ReadIsGrounded, At
<1>4. ASSUME NEW x \in Closer, Close(x)
      PROVE  ReadIsGrounded' /\ ClosedIsGrounded'
  <2>1. CASE CloseReads(x)
    <3>1. UNCHANGED investigation /\ Grounded
      BY <2>1 DEF CloseReads, Grounded
    <3>2. \A y \in Closer : closing'[y] = closing[y] \/ closing'[y].rev = incident.rev
      BY <1>1, <2>1 DEF CloseReads
    <3> QED BY <1>3, <3>1, <3>2
  <2>2. CASE CloseCommits(x)
    <3>1. /\ incident'.rev = incident.rev + 1 /\ incident'.cause = incident.cause
          /\ incident'.repro = incident.repro /\ evidence' = evidence
      BY <1>1, <2>2, ReviseTypes DEF CloseCommits, IncidentRecord
    <3>2. Grounded
      BY <2>2 DEF CloseCommits, SameRevision, ReadIsGrounded
    <3>3. ClosedIsGrounded'
      BY <3>1, <3>2 DEF ClosedIsGrounded, Grounded, HasLineage
    <3>4. \A y \in Closer : closing'[y].pc = "READ" => closing'[y] = closing[y]
      BY <1>1, <2>2 DEF CloseCommits, ClosingRecord
    <3>5. ASSUME NEW y \in Closer, closing'[y].pc = "READ"
          PROVE  closing'[y].rev <= incident'.rev /\ closing'[y].rev # incident'.rev
      BY <1>1, <3>1, <3>4, <3>5 DEF ReadIsGrounded, At
    <3> QED BY <3>3, <3>5 DEF ReadIsGrounded, At
  <2>3. CASE CloseSaves(x) \/ CloseWriteThrows(x)
    <3>1. \A y \in Closer : closing'[y].pc = "READ" => closing'[y] = closing[y]
      BY <1>1, <2>3 DEF CloseSaves, CloseWriteThrows, ClosingRecord
    <3> QED BY <1>3, <2>3, <3>1 DEF CloseSaves, CloseWriteThrows
  <2>4. CASE CloseRefused(x) \/ CloseWrites(x) \/ CloseEnqueues(x)
    <3>1. \A y \in Closer : closing'[y].pc = "READ" => closing'[y] = closing[y]
      BY <1>1, <2>4 DEF CloseRefused, CloseWrites, CloseEnqueues, CloserIdle
    <3> QED BY <1>3, <2>4, <3>1 DEF CloseRefused, CloseWrites, CloseEnqueues
  <2> QED BY <1>4, <2>1, <2>2, <2>3, <2>4 DEF Close
<1>5. CASE ProcessDies
  <2>1. \A y \in Closer : closing'[y].pc = "READ" => closing'[y] = closing[y]
    BY <1>1, <1>5 DEF ProcessDies, CloserIdle
  <2> QED BY <1>3, <1>5, <2>1 DEF ProcessDies
<1>6. CASE UNCHANGED <<investigation, closures>>
  BY <1>3, <1>6 DEF closures
<1>7. \/ \E w \in Worker : ProcessNextMemoryWrite(w)
      \/ \E j \in Job : LeaseRunsOut(j) \/ BackoffRunsOut(j)
      \/ UseMemory \/ UNCHANGED vars
      => UNCHANGED <<investigation, closures>>
  BY DEF ProcessNextMemoryWrite, LeaseRunsOut, BackoffRunsOut, UseMemory, vars
<1> QED BY <1>2, <1>4, <1>5, <1>6, <1>7 DEF IncidentNext

-----------------------------------------------------------------------------
(* Closings, batches, jobs and workers. *)

(***************************************************************************)
(* How a step moves the closer x and the batches.                          *)
(***************************************************************************)
Moves(x, pc, closure) ==
  /\ closing'[x].pc = pc /\ closing'[x].closure = closure
  /\ \A y \in Closer : y # x => closing'[y] = closing[y]

CloseMoves(x) ==
  \/ /\ At(x, "IDLE") /\ Moves(x, "READ", 0)
     /\ UNCHANGED <<closedAt, batches>>
  \/ /\ At(x, "READ") /\ Moves(x, "COMMITTED", Len(closedAt) + 1)
     /\ Len(closedAt') = Len(closedAt) + 1 /\ UNCHANGED batches
  \/ /\ At(x, "COMMITTED") /\ Moves(x, "SAVED", closing[x].closure)
     /\ batches' = batches \cup {closing[x].closure} /\ UNCHANGED closedAt
  \/ /\ At(x, "SAVED") /\ Moves(x, "UNWRITTEN", closing[x].closure)
     /\ UNCHANGED <<closedAt, batches>>
  \/ /\ ~At(x, "IDLE") /\ Moves(x, "IDLE", 0)
     /\ UNCHANGED <<closedAt, batches>>

LEMMA ClosesMove ==
  ASSUME IncidentTypeOK, NEW x \in Closer, Close(x)
  PROVE  CloseMoves(x)
<1>1. closing \in [Closer -> ClosingRecord] /\ Len(closedAt) \in Nat
  BY RevisionsAre
<1>2. CASE CloseReads(x)
  BY <1>1, <1>2 DEF CloseReads, CloseMoves, Moves
<1>3. CASE CloseCommits(x)
  <2>1. Len(closedAt') = Len(closedAt) + 1
    <3>1. closedAt \in Seq(1..MaxIncidentRevision) /\ incident \in IncidentRecord
      BY IncidentTypes DEF ClosuresTypeOK, InvestigationTypeOK
    <3>2. incident'.rev \in 1..MaxIncidentRevision
      BY <1>3, <3>1, ReviseTypes DEF CloseCommits, IncidentRecord
    <3> QED BY <1>3, <3>1, <3>2, AppendProperties DEF CloseCommits
  <2>2. Moves(x, "COMMITTED", Len(closedAt) + 1)
    BY <1>1, <1>3, <2>1 DEF CloseCommits, Moves, ClosingRecord
  <2> QED BY <1>3, <2>1, <2>2 DEF CloseCommits, CloseMoves
<1>4. CASE CloseSaves(x)
  <2>1. Moves(x, "SAVED", closing[x].closure)
    BY <1>1, <1>4 DEF CloseSaves, Moves, ClosingRecord
  <2> QED BY <1>4, <2>1 DEF CloseSaves, CloseMoves
<1>5. CASE CloseWriteThrows(x)
  <2>1. Moves(x, "UNWRITTEN", closing[x].closure)
    BY <1>1, <1>5 DEF CloseWriteThrows, Moves, ClosingRecord
  <2> QED BY <1>5, <2>1 DEF CloseWriteThrows, CloseMoves
<1>6. CASE CloseRefused(x) \/ CloseWrites(x) \/ CloseEnqueues(x)
  <2>1. Moves(x, "IDLE", 0)
    BY <1>1, <1>6 DEF CloseRefused, CloseWrites, CloseEnqueues, Moves, CloserIdle
  <2> QED BY <1>6, <2>1 DEF CloseRefused, CloseWrites, CloseEnqueues, CloseMoves, At
<1> QED BY <1>2, <1>3, <1>4, <1>5, <1>6 DEF Close

LEMMA ClosersNext ==
  ASSUME IncidentTypeOK, ClosersKnow, BatchesKnown, NEW x \in Closer, CloseMoves(x)
  PROVE  ClosersKnow' /\ BatchesKnown'
<1>1. /\ Len(closedAt) \in Nat
      /\ \A y \in Closer : closing[y].closure \in Nat
      /\ batches \subseteq Nat /\ 0 \notin batches
  BY RevisionsAre, BatchIs, IncidentTypes DEF ClosuresTypeOK, Closure
<1>2. CASE At(x, "IDLE") /\ Moves(x, "READ", 0) /\ UNCHANGED <<closedAt, batches>>
  BY <1>1, <1>2 DEF At, Moves, ClosersKnow, BatchesKnown, Closed
<1>3. CASE /\ At(x, "READ") /\ Moves(x, "COMMITTED", Len(closedAt) + 1)
           /\ Len(closedAt') = Len(closedAt) + 1 /\ UNCHANGED batches
  BY <1>1, <1>3 DEF At, Moves, ClosersKnow, BatchesKnown, Closed
<1>4. CASE /\ At(x, "COMMITTED") /\ Moves(x, "SAVED", closing[x].closure)
           /\ batches' = batches \cup {closing[x].closure} /\ UNCHANGED closedAt
  BY <1>1, <1>4 DEF At, Moves, ClosersKnow, BatchesKnown, Closed
<1>5. CASE /\ At(x, "SAVED") /\ Moves(x, "UNWRITTEN", closing[x].closure)
           /\ UNCHANGED <<closedAt, batches>>
  BY <1>1, <1>5 DEF At, Moves, ClosersKnow, BatchesKnown, Closed
<1>6. CASE Moves(x, "IDLE", 0) /\ UNCHANGED <<closedAt, batches>>
  BY <1>1, <1>6 DEF Moves, ClosersKnow, BatchesKnown, Closed
<1> QED BY <1>2, <1>3, <1>4, <1>5, <1>6 DEF CloseMoves

(***************************************************************************)
(* What a process that dies does to the closers.                           *)
(***************************************************************************)
LEMMA DyingMoves ==
  ASSUME IncidentTypeOK, ProcessDies
  PROVE  /\ (\E x \in Closer : CloseMoves(x)) \/ UNCHANGED closing
         /\ UNCHANGED <<queue, memory, closedAt, batches>>
         /\ slips' > 0 /\ slips \in Nat
<1>1. closing \in [Closer -> ClosingRecord] /\ slips \in 0..MaxSlips
  BY IncidentTypes DEF ClosuresTypeOK
<1>2. ASSUME NEW x \in Closer, ~At(x, "IDLE"), closing' = [closing EXCEPT ![x] = CloserIdle],
             UNCHANGED <<closedAt, batches>>
      PROVE  CloseMoves(x)
  BY <1>1, <1>2 DEF CloseMoves, Moves, CloserIdle
<1>3. slips' > 0 /\ slips \in Nat
  BY <1>1, ClosureConstants DEF ProcessDies
<1> QED BY <1>2, <1>3 DEF ProcessDies

(***************************************************************************)
(* A unit of work lets a job succeed only when its memory was written, and *)
(* leaves the worker at a job that has a batch.                            *)
(***************************************************************************)
LEMMA ProcessDoes ==
  ASSUME QueueInv, MemoryInv, IncidentTypeOK, Known, NEW w \in Worker, ProcessNextMemoryWrite(w)
  PROVE  /\ \A k \in Job :
              /\ job'[k].state = "ABSENT" <=> job[k].state = "ABSENT"
              /\ job'[k].state = "SUCCEEDED" =>
                   job[k].state = "SUCCEEDED" \/ record[k].rev > 0
         /\ work'[w].pc # "IDLE" => work'[w].job \in batches
         /\ work'[w].pc = "WRITTEN" => record'[work'[w].job].rev > 0
         /\ \A v \in Worker : v # w => work'[v] = work[v]
<1>1. /\ QueueTypeOK /\ job \in [Job -> JobRecord] /\ work \in [Worker -> WorkRecord]
      /\ \A v \in Worker : v # w => work'[v] = work[v]
  BY IncidentTypes, ProcessTypes DEF QueueInv, QueueTypeOK
<1>2. work[w].pc # "IDLE" =>
        work[w].job \in batches /\ work[w].job \in Job /\ work[w].job \in Memory
  BY BatchIs DEF Known, WorkersKnow
<1>3. UNCHANGED queue => \A k \in Job : Keeps(k)
  BY DEF queue, Keeps
<1>4. \A from, to : Step(w, from, to) =>
        /\ work[w].pc = from
        /\ to = "IDLE" => work'[w].pc = "IDLE"
        /\ to # "IDLE" => work'[w].pc = to /\ work'[w].job = work[w].job
  <2> SUFFICES ASSUME NEW from, NEW to, Step(w, from, to)
               PROVE  /\ work[w].pc = from
                      /\ to = "IDLE" => work'[w].pc = "IDLE"
                      /\ to # "IDLE" => work'[w].pc = to /\ work'[w].job = work[w].job
    OBVIOUS
  <2> QED BY <1>1 DEF Step, WorkerIdle, WorkRecord
<1>5. ASSUME NEW j \in Job, WorkerClaims(w, j)
      PROVE  /\ \A k \in Job : Keeps(k)
             /\ work'[w].pc = "CLAIMED" /\ work'[w].job \in batches
  <2>1. job[j].state # "ABSENT" /\ \A k \in Job : Keeps(k)
    BY <1>1, <1>5, QueueCallsKeep DEF WorkerClaims
  <2>2. j \in batches
    BY <2>1 DEF Known, JobsKnown
  <2> QED BY <1>1, <1>5, <2>1, <2>2 DEF WorkerClaims
<1>6. CASE WorkerFindsNothing(w)
  <2>1. \A k \in Job : Keeps(k)
    BY <1>1, <1>6, QueueCallsKeep DEF WorkerFindsNothing
  <2> QED BY <1>1, <1>6, <2>1 DEF WorkerFindsNothing, Keeps
<1>7. CASE WorkerStarts(w)
  <2>1. work[w].pc = "CLAIMED" /\ work'[w].pc = "STARTED" /\ work'[w].job = work[w].job
    BY <1>4, <1>7 DEF WorkerStarts
  <2>2. \A k \in Job : Keeps(k)
    BY <1>1, <1>2, <1>7, <2>1, QueueCallsKeep DEF WorkerStarts
  <2> QED BY <1>1, <1>2, <2>1, <2>2 DEF Keeps
<1>8. CASE WorkerWrites(w)
  <2>1. work[w].pc = "STARTED" /\ work'[w].pc = "WRITTEN" /\ work'[w].job = work[w].job
    BY <1>4, <1>8 DEF WorkerWrites
  <2>2. record'[work[w].job].rev > 0
    BY <1>2, <1>8, <2>1, WriteWrites DEF WorkerWrites, DoneBy
  <2> QED BY <1>1, <1>2, <1>3, <1>8, <2>1, <2>2 DEF WorkerWrites, Keeps
<1>9. CASE WorkerWriteThrows(w)
  <2>1. work[w].pc = "STARTED" /\ work'[w].pc = "FAILED" /\ work'[w].job = work[w].job
    BY <1>4, <1>9 DEF WorkerWriteThrows
  <2> QED BY <1>1, <1>2, <1>3, <1>9, <2>1 DEF WorkerWriteThrows, Keeps
<1>10. CASE WorkerSucceeds(w)
  <2>1. work[w].pc = "WRITTEN" /\ work'[w].pc = "IDLE"
    BY <1>4, <1>10 DEF WorkerSucceeds
  <2>2. \A k \in Job : /\ job'[k].state = "ABSENT" <=> job[k].state = "ABSENT"
                       /\ k # work[w].job => Keeps(k)
    BY <1>1, <1>2, <1>10, <2>1, QueueCallsKeep DEF WorkerSucceeds
  <2>3. record[work[w].job].rev > 0
    BY <2>1 DEF Known, WorkersKnow
  <2> QED BY <1>1, <2>1, <2>2, <2>3 DEF Keeps
<1>11. CASE WorkerFails(w)
  <2>1. work[w].pc = "FAILED" /\ work'[w].pc = "IDLE"
    BY <1>4, <1>11 DEF WorkerFails
  <2>2. \A k \in Job : Keeps(k)
    BY <1>1, <1>2, <1>11, <2>1, QueueCallsKeep DEF WorkerFails
  <2> QED BY <1>1, <2>1, <2>2 DEF Keeps
<1>12. CASE WorkerRefused(w)
  <2>1. work'[w].pc = "IDLE"
    BY <1>4, <1>12 DEF WorkerRefused
  <2> QED BY <1>1, <1>3, <1>12, <2>1 DEF WorkerRefused, Keeps
<1>13. CASE \E j \in Job : WorkerClaims(w, j)
  BY <1>1, <1>5, <1>13 DEF Keeps
<1> QED BY <1>6, <1>7, <1>8, <1>9, <1>10, <1>11, <1>12, <1>13 DEF ProcessNextMemoryWrite

(***************************************************************************)
(* What a step does to jobs, batches and workers, whoever takes it.        *)
(***************************************************************************)
LEMMA KnownNext ==
  ASSUME QueueInv, MemoryInv, IncidentTypeOK, Known, [IncidentNext]_vars
  PROVE  Known'
<1>1. [MemoryNext]_memory /\ QueueTypeOK
  BY StepsOfParts DEF QueueInv
<1>2. \A c \in batches : record[c].rev > 0 => record'[c].rev > 0
  BY <1>1, WrittenStays, BatchIs
<1>3. ASSUME batches \subseteq batches', UNCHANGED work PROVE WorkersKnow'
  BY <1>2, <1>3 DEF Known, WorkersKnow
<1>4. ASSUME batches \subseteq batches',
             \A k \in Job : job[k].state = "ABSENT" => job'[k].state = "ABSENT" \/ k \in batches'
      PROVE  JobsKnown'
  BY <1>4 DEF Known, JobsKnown
<1>5. ASSUME UNCHANGED closures PROVE ClosersKnow' /\ BatchesKnown'
  BY <1>5 DEF closures, Known, ClosersKnow, BatchesKnown
<1>6. UNCHANGED queue => \A k \in Job : job[k].state = "ABSENT" => job'[k].state = "ABSENT"
  BY DEF queue
<1>7. ASSUME NEW x \in Closer, Close(x) PROVE Known'
  <2>1. CloseMoves(x)
    BY <1>7, ClosesMove
  <2>2. ClosersKnow' /\ BatchesKnown' /\ batches \subseteq batches'
    BY <2>1, ClosersNext DEF Known, CloseMoves
  <2>3. \A k \in Job : job[k].state = "ABSENT" => job'[k].state = "ABSENT" \/ k \in batches'
    <3>1. CASE CloseEnqueues(x)
      <4>1. closing[x].closure \in batches
        BY <3>1 DEF CloseEnqueues, At, Known, ClosersKnow
      <4>2. closing[x].closure \in Job
        BY <4>1, BatchIs
      <4> QED BY <1>1, <2>2, <3>1, <4>1, <4>2, QueueCallsKeep DEF CloseEnqueues, Keeps
    <3>2. CASE UNCHANGED queue
      BY <1>6, <3>2
    <3>3. CloseEnqueues(x) \/ UNCHANGED queue
      BY <1>7 DEF Close, CloseReads, CloseCommits, CloseSaves, CloseRefused, CloseWrites,
                  CloseWriteThrows
    <3> QED BY <3>1, <3>2, <3>3
  <2>4. UNCHANGED work
    BY <1>7 DEF Close
  <2> QED BY <1>3, <1>4, <2>2, <2>3, <2>4 DEF Known
<1>8. ASSUME NEW w \in Worker, ProcessNextMemoryWrite(w) PROVE Known'
  <2>1. UNCHANGED closures /\ UNCHANGED batches
    BY <1>8 DEF ProcessNextMemoryWrite, closures
  <2>2. /\ \A k \in Job : job'[k].state = "ABSENT" <=> job[k].state = "ABSENT"
        /\ work'[w].pc # "IDLE" => work'[w].job \in batches
        /\ work'[w].pc = "WRITTEN" => record'[work'[w].job].rev > 0
        /\ \A v \in Worker : v # w => work'[v] = work[v]
    BY <1>8, ProcessDoes
  <2>3. WorkersKnow'
    BY <1>2, <2>1, <2>2 DEF Known, WorkersKnow
  <2> QED BY <1>4, <1>5, <2>1, <2>2, <2>3 DEF Known
<1>9. CASE ProcessDies
  <2>1. /\ (\E x \in Closer : CloseMoves(x)) \/ UNCHANGED closing
        /\ UNCHANGED <<queue, memory, closedAt, batches>>
    BY <1>9, DyingMoves
  <2>2. ClosersKnow' /\ BatchesKnown'
    BY <1>5, <2>1, ClosersNext DEF Known, closures
  <2>3. \A v \in Worker : work'[v] = work[v] \/ work'[v].pc = "IDLE"
    BY <1>9, IncidentTypes DEF ProcessDies, Step, WorkerIdle
  <2>4. WorkersKnow'
    BY <1>2, <2>1, <2>3 DEF Known, WorkersKnow
  <2> QED BY <1>4, <1>6, <2>1, <2>2, <2>4 DEF Known
<1>10. ASSUME NEW j \in Job, LeaseRunsOut(j) \/ BackoffRunsOut(j) PROVE Known'
  <2>1. \A k \in Job : Keeps(k)
    BY <1>1, <1>10, QueueCallsKeep DEF LeaseRunsOut, BackoffRunsOut
  <2>2. UNCHANGED <<closures, batches, work>>
    BY <1>10 DEF LeaseRunsOut, BackoffRunsOut, closures
  <2> QED BY <1>3, <1>4, <1>5, <2>1, <2>2 DEF Known, Keeps
<1>11. CASE UNCHANGED <<queue, closures, work>>
  BY <1>3, <1>4, <1>5, <1>6, <1>11 DEF Known, closures
<1>12. Investigate \/ UseMemory \/ UNCHANGED vars => UNCHANGED <<queue, closures, work>>
  BY DEF Investigate, UseMemory, vars
<1> QED BY <1>7, <1>8, <1>9, <1>10, <1>11, <1>12 DEF IncidentNext

(***************************************************************************)
(* Why the memory c is not lost while it is not written.                   *)
(***************************************************************************)
Pending(c) ==
  \/ job[c].state \notin {"ABSENT", "SUCCEEDED"}
  \/ job[c].state = "ABSENT" /\ (slips > 0 \/ \E x \in Closer : closing[x].closure = c)

LEMMA NotForgottenNext ==
  ASSUME QueueInv, MemoryInv, IncidentTypeOK, Known, ClosureNotForgotten, [IncidentNext]_vars
  PROVE  ClosureNotForgotten'
<1>1. [MemoryNext]_memory /\ QueueTypeOK
  BY StepsOfParts DEF QueueInv
<1>2. \A c \in batches : record[c].rev > 0 => record'[c].rev > 0
  BY <1>1, WrittenStays, BatchIs
<1>3. ASSUME \A c \in batches' :
               record'[c].rev = 0 => Pending(c)' \/ (c \in batches /\ (Pending(c) => Pending(c)'))
      PROVE  ClosureNotForgotten'
  <2>1. \A c \in batches : record[c].rev = 0 => Pending(c)
    BY DEF ClosureNotForgotten, Pending
  <2>2. \A c \in batches : record[c].rev \in Nat
    BY BatchIs, MemoryTypes DEF MemoryInv
  <2>3. \A c \in batches' : record'[c].rev = 0 => Pending(c)'
    BY <1>2, <1>3, <2>1, <2>2
  <2> QED BY <2>3 DEF ClosureNotForgotten, Pending
<1>4. ASSUME NEW x \in Closer, Close(x) PROVE ClosureNotForgotten'
  <2>1. CloseMoves(x) /\ slips' = slips
    BY <1>4, ClosesMove DEF Close
  <2>2. CASE CloseEnqueues(x)
    <3>1. closing[x].closure \in batches
      BY <2>2 DEF CloseEnqueues, At, Known, ClosersKnow
    <3>2. closing[x].closure \in Job
      BY <3>1, BatchIs
    <3>3. /\ job'[closing[x].closure].state = "PENDING"
          /\ \A k \in Job : k # closing[x].closure => Keeps(k)
      BY <1>1, <2>2, <3>2, QueueCallsKeep DEF CloseEnqueues
    <3>4. /\ batches' = batches
          /\ \A y \in Closer : y # x => closing'[y] = closing[y]
      BY <2>1, <2>2 DEF CloseEnqueues, CloseMoves, Moves
    <3>5. ASSUME NEW c \in batches PROVE Pending(c) => Pending(c)'
      <4>1. CASE c = closing[x].closure
        BY <3>3, <4>1 DEF Pending
      <4>2. CASE c # closing[x].closure
        BY <2>1, <3>3, <3>4, <4>2, BatchIs DEF Pending, Keeps
      <4> QED BY <4>1, <4>2
    <3> QED BY <1>3, <3>4, <3>5
  <2>3. CASE CloseWrites(x)
    <3>1. closing[x].closure \in batches
      BY <2>3 DEF CloseWrites, At, Known, ClosersKnow
    <3>2. record'[closing[x].closure].rev > 0 /\ batches' = batches /\ job' = job
      BY <2>3, <3>1, BatchIs, WriteWrites DEF CloseWrites, queue
    <3>3. \A y \in Closer : y # x => closing'[y] = closing[y]
      BY <2>1 DEF CloseMoves, Moves
    <3>4. \A c \in batches : c # closing[x].closure /\ Pending(c) => Pending(c)'
      BY <2>1, <3>2, <3>3 DEF Pending
    <3> QED BY <1>3, <3>2, <3>4
  <2>4. CASE CloseSaves(x)
    <3>1. /\ closing'[x].closure = closing[x].closure /\ job' = job
          /\ batches' = batches \cup {closing[x].closure}
          /\ \A y \in Closer : y # x => closing'[y] = closing[y]
      BY <2>1, <2>4 DEF CloseSaves, CloseMoves, Moves, At, queue
    <3>2. closing[x].closure \notin batches /\ closing[x].closure \in Closure
      BY <2>4, IncidentTypes, RevisionsAre, ClosureConstants
      DEF CloseSaves, At, Known, ClosersKnow, Closed, ClosingRecord, Closure
    <3>3. job[closing[x].closure].state = "ABSENT"
      BY <3>2, ClosureConstants DEF Known, JobsKnown
    <3>4. Pending(closing[x].closure)'
      BY <3>1, <3>3 DEF Pending
    <3>5. \A c \in batches : Pending(c) => Pending(c)'
      BY <2>1, <3>1 DEF Pending
    <3> QED BY <1>3, <3>1, <3>4, <3>5
  <2>5. CASE CloseReads(x) \/ CloseCommits(x) \/ CloseRefused(x) \/ CloseWriteThrows(x)
    <3>1. batches' = batches /\ job' = job
      BY <2>5 DEF CloseReads, CloseCommits, CloseRefused, CloseWriteThrows, queue
    <3>2. \A y \in Closer : y # x => closing'[y] = closing[y]
      BY <2>1 DEF CloseMoves, Moves
    <3>3. closing[x].closure \in batches => closing'[x].closure = closing[x].closure
      <4>1. closing \in [Closer -> ClosingRecord]
        BY RevisionsAre
      <4> QED BY <2>5, <4>1 DEF CloseReads, CloseCommits, CloseRefused, CloseWriteThrows, At,
                          Known, ClosersKnow, ClosingRecord
    <3>4. \A c \in batches : Pending(c) => Pending(c)'
      BY <2>1, <3>1, <3>2, <3>3 DEF Pending
    <3> QED BY <1>3, <3>1, <3>4
  <2> QED BY <1>4, <2>2, <2>3, <2>4, <2>5 DEF Close
<1>5. ASSUME NEW w \in Worker, ProcessNextMemoryWrite(w) PROVE ClosureNotForgotten'
  <2>1. UNCHANGED <<closures, batches, closing, slips>>
    BY <1>5 DEF ProcessNextMemoryWrite, closures
  <2>2. \A k \in Job : /\ job'[k].state = "ABSENT" <=> job[k].state = "ABSENT"
                       /\ job'[k].state = "SUCCEEDED" =>
                            job[k].state = "SUCCEEDED" \/ record[k].rev > 0
    BY <1>5, ProcessDoes
  <2>3. \A c \in batches : record'[c].rev = 0 => (Pending(c) => Pending(c)')
    BY <1>2, <2>1, <2>2, BatchIs DEF Pending
  <2> QED BY <1>3, <2>1, <2>3
<1>6. CASE ProcessDies
  <2>1. job' = job /\ batches' = batches /\ slips' > 0
    BY <1>6, DyingMoves DEF queue
  <2>2. \A c \in batches : Pending(c) => Pending(c)'
    BY <2>1 DEF Pending
  <2> QED BY <1>3, <2>1, <2>2
<1>7. ASSUME NEW j \in Job, LeaseRunsOut(j) \/ BackoffRunsOut(j) PROVE ClosureNotForgotten'
  <2>1. \A k \in Job : Keeps(k)
    BY <1>1, <1>7, QueueCallsKeep DEF LeaseRunsOut, BackoffRunsOut
  <2>2. UNCHANGED <<batches, closing>> /\ (slips > 0 => slips' > 0)
    BY <1>7, IncidentTypes, ClosureConstants DEF LeaseRunsOut, BackoffRunsOut, closures
  <2>3. \A c \in batches : Pending(c) => Pending(c)'
    BY <2>1, <2>2, BatchIs DEF Pending, Keeps
  <2> QED BY <1>3, <2>2, <2>3
<1>8. CASE UNCHANGED <<queue, closures, slips>>
  <2>1. job' = job /\ batches' = batches /\ closing' = closing /\ slips' = slips
    BY <1>8 DEF queue, closures
  <2>2. \A c \in batches : Pending(c) => Pending(c)'
    BY <2>1 DEF Pending
  <2> QED BY <1>3, <2>1, <2>2
<1>9. Investigate \/ UseMemory \/ UNCHANGED vars => UNCHANGED <<queue, closures, slips>>
  BY DEF Investigate, UseMemory, vars
<1> QED BY <1>4, <1>5, <1>6, <1>7, <1>8, <1>9 DEF IncidentNext

-----------------------------------------------------------------------------
(* The incident. *)

LEMMA IncidentInvInit == IncidentInit => IncidentInv
<1> SUFFICES ASSUME IncidentInit PROVE IncidentInv
  OBVIOUS
<1> USE DEF IncidentInit
<1>1. QueueInv /\ MemoryInv
  BY QueueInitInv, MemoryInvInit
<1>2. 0 \in 0..MaxIncidentRevision /\ 0 \in 0..MaxClosures /\ 0 \in 0..MaxSlips
      /\ 1 \in 1..MaxIncidentRevision
  BY ClosureConstants
<1>3. InvestigationTypeOK
  BY <1>2 DEF InvestigationTypeOK, IncidentRecord
<1>4. << >> \in Seq(1..MaxIncidentRevision) /\ Len(<< >>) = 0
  OBVIOUS
<1>5. closing \in [Closer -> ClosingRecord] /\ work \in [Worker -> WorkRecord]
  BY <1>2 DEF ClosingRecord, CloserIdle, WorkRecord, WorkerIdle
<1>6. IncidentTypeOK
  BY <1>2, <1>3, <1>4, <1>5, ClosureConstants, IncidentTypes DEF ClosuresTypeOK
<1>7. Known
  <2>1. \A j \in Job : job[j].state = "ABSENT"
    BY DEF QueueInit
  <2>2. \A x \in Closer : closing[x].pc = "IDLE" /\ closing[x].closure = 0
    BY DEF CloserIdle
  <2>3. \A w \in Worker : work[w].pc = "IDLE"
    BY DEF WorkerIdle
  <2> QED BY <1>4, <2>1, <2>2, <2>3 DEF Known, ClosersKnow, BatchesKnown, JobsKnown, WorkersKnow, Closed
<1>8. ReadIsGrounded /\ ClosedIsGrounded /\ ClosureNotForgotten
  BY DEF ReadIsGrounded, ClosedIsGrounded, ClosureNotForgotten, At, CloserIdle
<1> QED BY <1>1, <1>6, <1>7, <1>8 DEF IncidentInv

LEMMA IncidentInvNext == IncidentInv /\ [IncidentNext]_vars => IncidentInv'
<1> SUFFICES ASSUME IncidentInv, [IncidentNext]_vars PROVE IncidentInv'
  OBVIOUS
<1> USE DEF IncidentInv
<1>1. [QueueNext]_queue /\ [MemoryNext]_memory
  BY StepsOfParts
<1>2. QueueInv' /\ MemoryInv'
  BY <1>1, QueueNextInv, MemoryInvNext
<1>3. IncidentTypeOK' /\ Known'
  BY IncidentTypeNext, KnownNext
<1>4. ReadIsGrounded' /\ ClosedIsGrounded' /\ ClosureNotForgotten'
  BY GroundsNext, NotForgottenNext
<1> QED BY <1>2, <1>3, <1>4

(***************************************************************************)
(* The incident, its closings and whoever works on them are as their types *)
(* say (service.ts, core/incident.ts).                                     *)
(***************************************************************************)
THEOREM IncidentIsTyped == IncidentSpec => []TypeOK
<1>1. IncidentInv => TypeOK
  BY DEF IncidentInv, TypeOK, QueueInv, MemoryInv
<1> QED BY <1>1, IncidentInvInit, IncidentInvNext, PTL DEF IncidentSpec

(***************************************************************************)
(* The composition implements the specification of the queue: closing an   *)
(* incident and processNextMemoryWrite call it as it asks to be called, so *)
(* what is proved of the queue holds here.                                 *)
(***************************************************************************)
THEOREM IncidentImplementsQueue == IncidentSpec => QueueSpec
<1>1. IncidentInit => QueueInit
  BY DEF IncidentInit
<1>2. IncidentInv /\ [IncidentNext]_vars => [QueueNext]_queue
  BY StepsOfParts DEF IncidentInv
<1> QED BY <1>1, <1>2, IncidentInvInit, IncidentInvNext, PTL DEF IncidentSpec, QueueSpec

(***************************************************************************)
(* What the memory store does by itself, without the fairness that a       *)
(* deletion needs to end.                                                  *)
(***************************************************************************)
MemorySafety == MemoryInit /\ [][MemoryNext]_memory

(***************************************************************************)
(* The composition implements the memory store's specification: whatever   *)
(* is written for a closing is written as any other memory.                *)
(***************************************************************************)
THEOREM IncidentImplementsMemory == IncidentSpec => MemorySafety
<1>1. IncidentInit => MemoryInit
  BY DEF IncidentInit
<1>2. IncidentInv /\ [IncidentNext]_vars => [MemoryNext]_memory
  BY StepsOfParts DEF IncidentInv
<1> QED BY <1>1, <1>2, IncidentInvInit, IncidentInvNext, PTL DEF IncidentSpec, MemorySafety

(***************************************************************************)
(* closeIncident closes on what is there: its gates were read in one       *)
(* revision and the commit is refused in any other, and evidence is only   *)
(* ever added, so no observation, replay or second closer in between makes *)
(* a closed incident one without its grounds.                              *)
(***************************************************************************)
THEOREM ClosedIncidentsAreGrounded == IncidentSpec => []ClosedIsGrounded
<1>1. IncidentInv => ClosedIsGrounded
  BY DEF IncidentInv
<1> QED BY <1>1, IncidentInvInit, IncidentInvNext, PTL DEF IncidentSpec

(***************************************************************************)
(* No closing that saved its batch loses its memory but by a death: the    *)
(* four commits of a closing and the steps of the workers leave no gap     *)
(* between them, for any number of both.                                   *)
(***************************************************************************)
THEOREM ClosuresAreRemembered == IncidentSpec => []ClosureNotForgotten
<1>1. IncidentInv => ClosureNotForgotten
  BY DEF IncidentInv
<1> QED BY <1>1, IncidentInvInit, IncidentInvNext, PTL DEF IncidentSpec

(***************************************************************************)
(* What holds of the queue and of the store holds of them here.            *)
(***************************************************************************)
THEOREM IncidentKeepsQueueAndMemory ==
  IncidentSpec => /\ []AttemptsTell /\ LeaseProtectsHolder
                  /\ []RecallableIsKept /\ []CompletedIsErased /\ DeletedStaysDeleted
<1>1. IncidentInv => MemoryInv
  BY DEF IncidentInv
<1>2. MemoryInv => RecallableIsKept /\ CompletedIsErased
  BY MemoryInvErases DEF MemoryInv
<1>3. MemoryInv /\ [MemoryNext]_memory =>
        [\A m \in Memory : tombstone[m] # "NONE" =>
           /\ tombstone'[m] # "NONE"
           /\ record'[m].rev = record[m].rev
           /\ Kept(m)' => Kept(m)]_memory
  BY MemoryStaysDeleted
<1>4. IncidentSpec => []IncidentInv
  BY IncidentInvInit, IncidentInvNext, PTL DEF IncidentSpec
<1>5. IncidentSpec => []AttemptsTell /\ LeaseProtectsHolder
  BY IncidentImplementsQueue, AttemptsAlwaysTell, LeasesProtect, PTL
<1> QED BY <1>1, <1>2, <1>3, <1>4, <1>5, IncidentImplementsMemory, PTL
        DEF MemorySafety, DeletedStaysDeleted
=============================================================================
