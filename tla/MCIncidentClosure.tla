------------------------- MODULE MCIncidentClosure -------------------------
(* The instance of IncidentClosure for TLC: its parts one at a time. *)
EXTENDS IncidentClosure, Functions, TLC

CONSTANT o1  \* the one name that the workers go by

VARIABLE scenario   \* which part of the instance is explored

MCOwner == [w \in Worker |-> o1]

\* The incident after its investigation.
Investigated ==
  /\ QueueInit /\ MemoryInit
  /\ hypothesis = "SUPPORTED"
  /\ evidence = [p \in Proposal |-> Gate]
  /\ replay = 0
  /\ work = [w \in Worker |-> WorkerIdle]
  /\ slips = 0

\* It is ready to be closed.
Closable ==
  /\ Investigated
  /\ incident = [rev |-> 5, status |-> "OPEN", repro |-> "REPRODUCIBLE",
                 cause |-> "CONFIRMED"]
  /\ closing = [x \in Closer |-> CloserIdle]
  /\ closedAt = << >> /\ batches = {}

\* It was closed twice, and the writing of both memories has failed.
Unwritten ==
  /\ Investigated
  /\ incident = [rev |-> 8, status |-> "CLOSED", repro |-> "REPRODUCIBLE",
                 cause |-> "CONFIRMED"]
  /\ \E f \in Bijection(Closer, Closure) : closing = [x \in Closer |->
       [pc |-> "UNWRITTEN", rev |-> 2 * f[x] + 3, closure |-> f[x]]]
  /\ closedAt = <<6, 8>> /\ batches = {1, 2}

MCInit ==
  /\ scenario \in {"queue", "erasure", "investigation", "closing", "retry"}
  /\ \/ scenario \in {"queue", "erasure", "investigation"} /\ IncidentInit
     \/ scenario = "closing" /\ Closable
     \/ scenario = "retry" /\ Unwritten

\* Any callers of the queue.
Queue == QueueNext /\ UNCHANGED <<memory, investigation, closures, work, slips>>

\* Everything that may happen to memories; the second may derive from the
\* first and has one revision.
Erasure == UseMemory /\ record'[1].from = {} /\ record'[2].rev <= 1

\* From the first observation to the closing.
Investigation ==
  \/ Investigate
  \/ \E x \in Closer : Close(x) /\ batches' = {}

\* The memory of the first closing is corrected or forgotten.
CurateClosures ==
  /\ Curate /\ glance' \in {1} \X Nat \cup {None} /\ record'[1].from = {}
  /\ UNCHANGED <<queue, investigation, closures, work, slips>>

\* From there to the memory, by two processes, while the incident is opened
\* again; the job of a write that fails is left to the next part.
Closing ==
  \/ (Reopen \/ AttachObservation) /\ UNCHANGED <<queue, memory, closures, work, slips>>
  \/ \E x \in Closer : Close(x) /\ job' = job
  \/ ProcessDies
  \/ CurateClosures

\* The job of a closing, while its memory is corrected and forgotten.
Retry ==
  \/ \E x \in Closer : CloseEnqueues(x) /\ UNCHANGED <<work, slips>>
  \/ \E w \in Worker : ProcessNextMemoryWrite(w)
  \/ ProcessDies
  \/ \E j \in Job : LeaseRunsOut(j) \/ BackoffRunsOut(j)
  \/ CurateClosures

MCNext ==
  /\ \/ scenario = "queue" /\ Queue
     \/ scenario = "erasure" /\ Erasure
     \/ scenario = "investigation" /\ Investigation
     \/ scenario = "closing" /\ Closing
     \/ scenario = "retry" /\ Retry
  /\ UNCHANGED scenario

mcvars == <<vars, scenario>>

Fairness ==
  /\ \A w \in Worker :
       WF_mcvars(scenario = "retry" /\ ProcessNextMemoryWrite(w) /\ UNCHANGED scenario)
  /\ \A j \in Job :
       /\ WF_mcvars(scenario = "retry" /\ LeaseRunsOut(j) /\ UNCHANGED scenario)
       /\ WF_mcvars(scenario = "retry" /\ BackoffRunsOut(j) /\ UNCHANGED scenario)
  /\ \A d \in Deletion :
       WF_mcvars(Erase(d) /\ UNCHANGED <<queue, investigation, closures, work, slips, scenario>>)

MCSpec == MCInit /\ [][MCNext]_mcvars /\ Fairness
=============================================================================
