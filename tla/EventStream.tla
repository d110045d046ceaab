----------------------------- MODULE EventStream -----------------------------
(***************************************************************************)
(* The way of a runtime event from the adapter to the coordinator: the     *)
(* adapter numbers it, RunnerEventSpool appends it to the file of its      *)
(* execution, and a reader polls that file until the process has exited    *)
(* (src/oef/phase2/runner: event-spool, http-ipc, local-runner-host; the   *)
(* loop over streamEvents in application/single-agent-coordinator).        *)
(*                                                                         *)
(* An event is known by its attempt and its sequence number; its content   *)
(* is abstracted.  One execution is modelled, with its attempts one after  *)
(* the other: the spool keeps the events of all of them.                   *)
(***************************************************************************)
EXTENDS Naturals, Sequences

CONSTANTS
  MaxAttempts,   \* bound: attempts of the execution
  MaxSequence,   \* bound: events of one attempt
  Transport,     \* "http": HttpRunnerClient; "local": LocalRunnerHost itself
  Faulty         \* the runtime may repeat or leave out a sequence number

ASSUME StreamConstants ==
  /\ MaxAttempts \in Nat \ {0}
  /\ MaxSequence \in Nat \ {0}
  /\ Transport \in {"http", "local"}
  /\ Faulty \in BOOLEAN

Event == [attempt : 1..MaxAttempts, sequence : 1..MaxSequence]

VARIABLES
  attempt,    \* number of the current attempt, 0 before the first
  last,       \* the highest sequence number that it has emitted
  spool,      \* the events in the file of the execution
  process,    \* status of the runner for the current attempt
  reader,     \* where the loop of streamEvents is
  next,       \* its cursor
  batch,      \* events it has read and not yet yielded
  terminal,   \* the snapshot said that no event will follow
  delivered   \* sequence numbers that the coordinator has processed

runner == <<attempt, last, spool, process>>
stream == <<reader, next, batch, terminal, delivered>>
events == <<runner, stream>>

StreamTypeOK ==
  /\ attempt \in 0..MaxAttempts
  /\ last \in 0..MaxSequence
  /\ spool \subseteq Event
  /\ process \in {"NONE", "RUNNING", "EXITED"}
  /\ reader \in {"idle", "read", "yield", "ended", "accepted", "failed"}
  /\ next \in 1..MaxSequence + 1
  /\ batch \subseteq Event
  /\ terminal \in BOOLEAN
  /\ delivered \in Seq(1..MaxSequence)

StreamInit ==
  /\ attempt = 0
  /\ last = 0
  /\ spool = {}
  /\ process = "NONE"
  /\ reader = "idle"
  /\ next = 1
  /\ batch = {}
  /\ terminal = FALSE
  /\ delivered = << >>

-----------------------------------------------------------------------------
(* The runner. *)

\* The coordinator starts an attempt, and reads its events from 1.
StartAttempt ==
  /\ attempt < MaxAttempts
  /\ process # "RUNNING"
  /\ reader \in {"idle", "failed"}
  /\ attempt' = attempt + 1
  /\ last' = 0
  /\ process' = "RUNNING"
  /\ reader' = "read"
  /\ next' = 1
  /\ delivered' = << >>
  /\ batch' = {}
  /\ UNCHANGED <<spool, terminal>>

\* append: an event whose (attempt, sequence) is known is a duplicate and is
\* not written again.
Spooled(e) == spool' = spool \cup {e}

\* The adapter numbers the events of each attempt from 1.
Emit ==
  /\ process = "RUNNING"
  /\ \E s \in 1..MaxSequence :
       /\ s \in IF Faulty THEN {last, last + 1, last + 2} ELSE {last + 1}
       /\ Spooled([attempt |-> attempt, sequence |-> s])
       /\ last' = s
  /\ UNCHANGED <<attempt, process, stream>>

ProcessExits ==
  /\ process = "RUNNING"
  /\ process' = "EXITED"
  /\ UNCHANGED <<attempt, last, spool, stream>>

\* integrity: the sequence numbers below the maximum that are not there.
Missing ==
  LET present == {e.sequence : e \in {x \in spool : x.attempt = attempt}} IN
  {s \in 1..MaxSequence : s \notin present /\ \E t \in present : s < t}

-----------------------------------------------------------------------------
(* The reader. *)

\* read: the events from the cursor on.
EventsFrom(n) == {e \in spool : e.sequence >= n}

\* They come by sequence number, and within one number in the order of the file.
Before(a, b) ==
  \/ a.sequence < b.sequence
  \/ a.sequence = b.sequence /\ a.attempt < b.attempt

\* Bug: the snapshot does not tell that the runner is done.
NeverTerminal == FALSE

\* readEventSnapshot looks at the status before it reads the events.
IsTerminal == process = "EXITED"

\* If there is nothing to yield, the reader waits or ends at once.
Read ==
  /\ reader = "read"
  /\ terminal' = IsTerminal
  /\ batch' = EventsFrom(next)
  /\ reader' = IF batch' # {} THEN "yield"
               ELSE IF IsTerminal THEN "ended" ELSE "read"
  /\ UNCHANGED <<runner, next, delivered>>

\* The coordinator's filter.
IsOwn(e) == e.attempt = attempt

\* Bug: the cursor stays, and every poll yields everything again.
SameCursor(e) == next

CursorAfter(e) == IF e.sequence + 1 > next THEN e.sequence + 1 ELSE next

\* The loop body runs, then the cursor moves.
Yield ==
  /\ reader = "yield"
  /\ \E e \in batch :
       /\ \A f \in batch \ {e} : Before(e, f)
       /\ delivered' = IF IsOwn(e) THEN Append(delivered, e.sequence) ELSE delivered
       /\ next' = CursorAfter(e)
       /\ batch' = batch \ {e}
  /\ UNCHANGED <<runner, reader, terminal>>

\* Bug: the client asks for the status after it has read the events.
StatusNow == process = "EXITED"

\* The client goes by the snapshot; the reader in the host's own process
\* looks at the status after the last loop body, which may have awaited.
EndSeen == IF Transport = "http" THEN terminal ELSE process = "EXITED"

Poll ==
  /\ reader = "yield"
  /\ batch = {}
  /\ reader' = IF EndSeen THEN "ended" ELSE "read"
  /\ UNCHANGED <<runner, next, batch, terminal, delivered>>

\* A request of the client fails, and the attempt with it.
RequestFails ==
  /\ Transport = "http"
  /\ reader = "read"
  /\ reader' = "failed"
  /\ UNCHANGED <<runner, next, batch, terminal, delivered>>

\* After the stream: an incomplete one fails the attempt, and so may the
\* exit of the process.
Judge ==
  /\ reader = "ended"
  /\ \/ /\ Missing = {}
        /\ reader' = "accepted"
     \/ reader' = "failed"
  /\ UNCHANGED <<runner, next, batch, terminal, delivered>>

-----------------------------------------------------------------------------
StreamNext ==
  \/ StartAttempt \/ Emit \/ ProcessExits
  \/ Read \/ Yield \/ Poll \/ RequestFails \/ Judge

\* The reader goes on polling; the runtime's timeouts end every process.
StreamSpec ==
  /\ StreamInit
  /\ [][StreamNext]_events
  /\ WF_events(ProcessExits)
  /\ WF_events(Read) /\ WF_events(Yield) /\ WF_events(Poll)

-----------------------------------------------------------------------------
Own == {s \in 1..MaxSequence : [attempt |-> attempt, sequence |-> s] \in spool}

Delivered == {delivered[i] : i \in DOMAIN delivered}

(***************************************************************************)
(* "At-least-once delivery" (docs/architecture/phase-2-safe-execution.md): *)
(* when a stream ends, the coordinator has processed every event that its  *)
(* attempt has spooled, also those that came just before the exit.         *)
(***************************************************************************)
StreamComplete ==
  reader \in {"ended", "accepted"} => Own \subseteq Delivered

(***************************************************************************)
(* The stream of a first attempt is whole, however the exit, the last      *)
(* events and the polls interleave (the snapshot takes the status first):  *)
(* it misses nothing that was spooled, and, "explicit gap reporting", it   *)
(* is accepted only if the sequence numbers run from 1 without a gap.      *)
(***************************************************************************)
FirstStreamWhole ==
  attempt = 1 =>
    /\ StreamComplete
    /\ reader = "accepted" => \A i \in DOMAIN delivered : delivered[i] = i

(***************************************************************************)
(* "Duplicate suppression": what the coordinator processes for an attempt  *)
(* was emitted by it, though the spool holds the events of earlier ones    *)
(* too, and no event comes twice or after a later one.                     *)
(***************************************************************************)
DeliveredInOrder ==
  /\ Delivered \subseteq Own
  /\ \A i, j \in DOMAIN delivered : i < j => delivered[i] < delivered[j]

(***************************************************************************)
(* Every stream ends.                                                      *)
(***************************************************************************)
StreamEnds == reader = "read" ~> reader \in {"ended", "failed"}
=============================================================================
