------------------------ MODULE SingleAgentRunProofs ------------------------
(***************************************************************************)
(* Proofs about SingleAgentRun, for every budget of attempts and every     *)
(* number of faults.                                                       *)
(***************************************************************************)
EXTENDS SingleAgentRun, SequenceTheorems, TLAPS

Dead(i) == attempts[i].process \in {"none", "exited"}

Over(i) ==
  Dead(i) /\ attempts[i].space # "prepared" /\ attempts[i].status \in TerminalAttempt

BeforeLaunch == {"lease", "preparing", "intent", "worktree", "context", "starting",
                 "run", "launch"}

(***************************************************************************)
(* The coordinator drives the last attempt; it retries when its memory of  *)
(* that one says that the runner has ended and no workspace is left.       *)
(***************************************************************************)
Places ==
  /\ execution = "NONE" <=> pc = "idle"
  /\ pc \in {"idle", "queue", "prepare"} => attempts = << >>
  /\ run.current \in {0, Len(attempts)}
  /\ pc \in Trying \ {"attempt"} => run.current # 0 /\ ~run.terminal /\ ~run.quarantined
  /\ pc \in BeforeLaunch => ~run.launched
  /\ pc = "evidence" /\ run.retry => run.terminal /\ (run.quarantined \/ ~run.prepared)

(***************************************************************************)
(* All other attempts are over: no agent, no workspace, an end on record.  *)
(***************************************************************************)
EarlierAreOver ==
  \A i \in DOMAIN attempts : i # run.current \/ pc = "attempt" => Over(i)

(***************************************************************************)
(* What the coordinator remembers of its attempt is so, whatever a startup *)
(* has done to it meanwhile.                                               *)
(***************************************************************************)
MemoryIsTrue ==
  \A i \in DOMAIN attempts : i = run.current =>
    /\ run.terminal => Dead(i)
    /\ ~run.launched => attempts[i].process = "none"
    /\ attempts[i].space = "prepared" => run.prepared /\ ~run.quarantined
    /\ pc \in {"decide", "evidence"} => attempts[i].status \in TerminalAttempt
    /\ pc \in {"collect", "verifying", "complete"} => attempts[i].process = "exited"

CompletedIsWhole ==
  execution = "COMPLETED" =>
    /\ pc = "done" /\ attempts # << >> /\ attempts[Len(attempts)].status = "SUCCEEDED"
    /\ \A i \in DOMAIN attempts : Dead(i) /\ attempts[i].status \in TerminalAttempt

(***************************************************************************)
(* Where a daemon is in its startup.                                       *)
(***************************************************************************)
StartupIsTrue ==
  /\ linked => daemon = "ready"
  /\ seen.attempt <= Len(attempts)
  /\ daemon = "kill" => seen.attempt # 0
  /\ daemon \in {"attempt", "execution"} => "startup" \in evidence
  /\ seen.execution \in TerminalExecution => execution \in TerminalExecution
  /\ daemon = "sweep" => execution \in TerminalExecution \cup {"NONE"}

(***************************************************************************)
(* While nobody has written the execution, the daemon's copy is right, and *)
(* no attempt is open when it is about to end the execution.               *)
(***************************************************************************)
SeenIsTrue ==
  seen.fresh =>
    /\ daemon \in {"kill", "quarantine", "record", "attempt"} =>
         /\ seen.attempt = Len(attempts)
         /\ seen.attempt # 0 => seen.status = attempts[seen.attempt].status
    /\ daemon = "execution" =>
         \A i \in DOMAIN attempts : attempts[i].status \in TerminalAttempt

(***************************************************************************)
(* Of the attempts that had an agent, one is the last.                     *)
(***************************************************************************)
Launched == {i \in DOMAIN attempts : HadProcess(i)}

HasLast == Launched # {} => \E m \in Launched : \A j \in Launched : j <= m

RunInv ==
  /\ TypeOK /\ Places /\ EarlierAreOver /\ MemoryIsTrue /\ CompletedIsWhole
  /\ StartupIsTrue /\ SeenIsTrue /\ HasLast

-----------------------------------------------------------------------------
(* How the attempts are written. *)

LEMMA Types ==
  ASSUME TypeOK
  PROVE  /\ attempts \in Seq(Attempt) /\ Len(attempts) \in Nat
         /\ Len(attempts) <= MaxAttempts /\ MaxAttempts \in Nat \ {0} /\ MaxFaults \in Nat
         /\ DOMAIN attempts = 1..Len(attempts)
         /\ \A i \in DOMAIN attempts : attempts[i] \in Attempt
         /\ run \in Run /\ run.current \in Nat
         /\ seen \in Seen /\ seen.attempt \in Nat
         /\ execution \in ExecutionStatus \cup {"NONE"}
<1>1. attempts \in Seq(Attempt) /\ Len(attempts) <= MaxAttempts
  BY DEF TypeOK
<1>2. /\ Len(attempts) \in Nat /\ DOMAIN attempts = 1..Len(attempts)
      /\ \A i \in DOMAIN attempts : attempts[i] \in Attempt
  BY <1>1
<1>3. /\ run \in Run /\ seen \in Seen /\ execution \in ExecutionStatus \cup {"NONE"}
      /\ MaxAttempts \in Nat \ {0} /\ MaxFaults \in Nat
  BY Constants DEF TypeOK
<1>4. run.current \in Nat /\ seen.attempt \in Nat
  BY <1>3 DEF Run, Seen
<1> QED BY <1>1, <1>2, <1>3, <1>4

\* Attempt i is the only one that changes.
Only(i) ==
  /\ attempts' \in Seq(Attempt) /\ Len(attempts') = Len(attempts)
  /\ DOMAIN attempts' = DOMAIN attempts
  /\ \A j \in DOMAIN attempts : j # i => attempts'[j] = attempts[j]

LEMMA Written1 ==
  ASSUME attempts \in Seq(Attempt), NEW i \in DOMAIN attempts, NEW a \in Attempt,
         attempts' = [attempts EXCEPT ![i] = a]
  PROVE  Only(i) /\ attempts'[i] = a
BY DEF Only

LEMMA StatusWritten ==
  ASSUME attempts \in Seq(Attempt), NEW i \in DOMAIN attempts, NEW s \in AttemptStatus,
         attempts' = [attempts EXCEPT ![i].status = s]
  PROVE  /\ Only(i) /\ attempts'[i].status = s
         /\ attempts'[i].space = attempts[i].space
         /\ attempts'[i].process = attempts[i].process
<1> DEFINE a == [attempts[i] EXCEPT !.status = s]
<1>1. attempts[i] \in Attempt
  OBVIOUS
<1>2. /\ a \in Attempt /\ a.status = s /\ a.space = attempts[i].space
      /\ a.process = attempts[i].process
  BY <1>1 DEF Attempt
<1>3. attempts' = [attempts EXCEPT ![i] = a]
  OBVIOUS
<1> HIDE DEF a
<1> QED BY <1>2, <1>3, Written1

LEMMA SpaceWritten ==
  ASSUME attempts \in Seq(Attempt), NEW i \in DOMAIN attempts,
         NEW s \in {"none", "intent", "prepared", "quarantined"}, SetSpace(i, s)
  PROVE  /\ Only(i) /\ attempts'[i].space = s
         /\ attempts'[i].status = attempts[i].status
         /\ attempts'[i].process = attempts[i].process
<1> DEFINE a == [attempts[i] EXCEPT !.space = s]
<1>1. attempts[i] \in Attempt
  OBVIOUS
<1>2. /\ a \in Attempt /\ a.space = s /\ a.status = attempts[i].status
      /\ a.process = attempts[i].process
  BY <1>1 DEF Attempt
<1>3. attempts' = [attempts EXCEPT ![i] = a]
  BY DEF SetSpace
<1> HIDE DEF a
<1> QED BY <1>2, <1>3, Written1

LEMMA ProcessWritten ==
  ASSUME attempts \in Seq(Attempt), NEW i \in DOMAIN attempts,
         NEW s \in {"none", "running", "unproven", "exited"}, SetProcess(i, s)
  PROVE  /\ Only(i) /\ attempts'[i].process = s
         /\ attempts'[i].status = attempts[i].status
         /\ attempts'[i].space = attempts[i].space
<1> DEFINE a == [attempts[i] EXCEPT !.process = s]
<1>1. attempts[i] \in Attempt
  OBVIOUS
<1>2. /\ a \in Attempt /\ a.process = s /\ a.status = attempts[i].status
      /\ a.space = attempts[i].space
  BY <1>1 DEF Attempt
<1>3. attempts' = [attempts EXCEPT ![i] = a]
  BY DEF SetProcess
<1> HIDE DEF a
<1> QED BY <1>2, <1>3, Written1

-----------------------------------------------------------------------------
(* Steps of others than the coordinator. *)

(***************************************************************************)
(* They end things and begin none: an attempt that is over stays so.       *)
(***************************************************************************)
Ends ==
  /\ attempts' \in Seq(Attempt) /\ Len(attempts') = Len(attempts)
  /\ DOMAIN attempts' = DOMAIN attempts
  /\ \A i \in DOMAIN attempts :
       /\ attempts[i].status \in TerminalAttempt => attempts'[i].status = attempts[i].status
       /\ attempts[i].process = "none" <=> attempts'[i].process = "none"
       /\ attempts[i].process = "exited" => attempts'[i].process = "exited"
       /\ attempts'[i].space = "prepared" => attempts[i].space = "prepared"

LEMMA EndsKeepsLast ==
  ASSUME HasLast, Ends
  PROVE  HasLast' /\ Launched' = Launched
<1>1. Launched' = Launched
  BY DEF Ends, Launched, HadProcess
<1> QED BY <1>1 DEF HasLast

LEMMA EndsKeepsOver ==
  ASSUME Ends, NEW i \in DOMAIN attempts, Over(i)
  PROVE  Over(i)'
BY DEF Ends, Over, Dead

LEMMA QuietKeeps ==
  ASSUME RunInv, Ends, UNCHANGED <<pc, run>>,
         execution' = "COMPLETED" <=> execution = "COMPLETED",
         execution' = "NONE" <=> execution = "NONE"
  PROVE  Places' /\ EarlierAreOver' /\ MemoryIsTrue' /\ CompletedIsWhole' /\ HasLast'
<1>1. attempts \in Seq(Attempt) /\ attempts' \in Seq(Attempt) /\ Len(attempts') = Len(attempts)
      /\ Len(attempts) \in Nat /\ DOMAIN attempts' = DOMAIN attempts
      /\ DOMAIN attempts = 1..Len(attempts)
  BY Types DEF RunInv, Ends
<1>2. attempts = << >> <=> attempts' = << >>
  BY <1>1
<1>3. Places'
  BY <1>1, <1>2 DEF RunInv, Places
<1>4. EarlierAreOver'
  BY <1>1, EndsKeepsOver DEF RunInv, EarlierAreOver
<1>5. MemoryIsTrue'
  <2> SUFFICES ASSUME NEW i \in DOMAIN attempts, i = run.current
               PROVE  /\ run.terminal => Dead(i)'
                      /\ ~run.launched => attempts'[i].process = "none"
                      /\ attempts'[i].space = "prepared" => run.prepared /\ ~run.quarantined
                      /\ pc \in {"decide", "evidence"} => attempts'[i].status \in TerminalAttempt
                      /\ pc \in {"collect", "verifying", "complete"} => attempts'[i].process = "exited"
    BY <1>1 DEF MemoryIsTrue
  <2>1. /\ run.terminal => Dead(i)
        /\ ~run.launched => attempts[i].process = "none"
        /\ attempts[i].space = "prepared" => run.prepared /\ ~run.quarantined
        /\ pc \in {"decide", "evidence"} => attempts[i].status \in TerminalAttempt
        /\ pc \in {"collect", "verifying", "complete"} => attempts[i].process = "exited"
    BY DEF RunInv, MemoryIsTrue
  <2> QED BY <2>1 DEF Ends, Dead
<1>6. CompletedIsWhole'
  <2> SUFFICES ASSUME execution = "COMPLETED"
               PROVE  /\ pc' = "done" /\ attempts' # << >>
                      /\ attempts'[Len(attempts')].status = "SUCCEEDED"
                      /\ \A i \in DOMAIN attempts' : Dead(i)' /\ attempts'[i].status \in TerminalAttempt
    BY DEF CompletedIsWhole
  <2>1. /\ pc = "done" /\ attempts # << >> /\ attempts[Len(attempts)].status = "SUCCEEDED"
        /\ \A i \in DOMAIN attempts : Dead(i) /\ attempts[i].status \in TerminalAttempt
    BY DEF RunInv, CompletedIsWhole
  <2>2. Len(attempts) \in DOMAIN attempts
    BY <1>1, <2>1
  <2> QED BY <1>1, <1>2, <2>1, <2>2 DEF Ends, Dead
<1> QED BY <1>3, <1>4, <1>5, <1>6, EndsKeepsLast DEF RunInv

LEMMA SameEnds == ASSUME TypeOK, UNCHANGED attempts PROVE Ends
BY Types DEF Ends

LEMMA OnlyEnds ==
  ASSUME NEW i \in DOMAIN attempts, Only(i),
         attempts[i].status \in TerminalAttempt => attempts'[i].status = attempts[i].status,
         attempts[i].process = "none" <=> attempts'[i].process = "none",
         attempts[i].process = "exited" => attempts'[i].process = "exited",
         attempts'[i].space = "prepared" => attempts[i].space = "prepared"
  PROVE  Ends
BY DEF Only, Ends

LEMMA AllWritten ==
  ASSUME attempts \in Seq(Attempt), NEW gone \in SUBSET {i \in DOMAIN attempts : Runs(i)},
         NEW fate \in {"running", "unproven", "exited"},
         attempts' = [i \in DOMAIN attempts |->
                        IF i \in gone THEN [attempts[i] EXCEPT !.process = fate] ELSE attempts[i]]
  PROVE  Ends /\ \A i \in DOMAIN attempts : attempts'[i].process =
                    IF i \in gone THEN fate ELSE attempts[i].process
<1>1. /\ Len(attempts) \in Nat /\ DOMAIN attempts = 1..Len(attempts)
      /\ \A i \in DOMAIN attempts : attempts[i] \in Attempt
  OBVIOUS
<1>2. ASSUME NEW i \in DOMAIN attempts
      PROVE  /\ attempts'[i] \in Attempt
             /\ attempts'[i].status = attempts[i].status /\ attempts'[i].space = attempts[i].space
             /\ attempts'[i].process = IF i \in gone THEN fate ELSE attempts[i].process
  <2>1. attempts[i] \in Attempt
    BY <1>1
  <2>2. CASE i \in gone
    <3>1. attempts'[i] = [attempts[i] EXCEPT !.process = fate]
      BY <2>2
    <3> QED BY <2>1, <2>2, <3>1 DEF Attempt
  <2>3. CASE i \notin gone
    BY <2>1, <2>3
  <2> QED BY <2>2, <2>3
<1>3. attempts' \in [1..Len(attempts) -> Attempt]
  BY <1>1, <1>2
<1>4. attempts' \in Seq(Attempt) /\ Len(attempts') = Len(attempts)
  BY <1>1, <1>3, IsASeq, LenProperties
<1>5. DOMAIN attempts' = DOMAIN attempts
  BY <1>1, <1>3
<1> QED BY <1>2, <1>4, <1>5 DEF Ends, Runs

\* What is left to show of a step of a daemon, or of the agent's end.
Keeps == TypeOK' /\ Ends /\ StartupIsTrue' /\ SeenIsTrue'

LEMMA ExitKeeps ==
  ASSUME RunInv, AgentExits
  PROVE  Keeps
<1>1. PICK i \in DOMAIN attempts :
        attempts[i].process \in {"running", "unproven"} /\ SetProcess(i, "exited")
  BY DEF AgentExits
<1>2. /\ Only(i) /\ attempts'[i].process = "exited"
      /\ attempts'[i].status = attempts[i].status /\ attempts'[i].space = attempts[i].space
  BY <1>1, Types, ProcessWritten DEF RunInv
<1>3. Ends
  BY <1>1, <1>2, OnlyEnds
<1>4. \A j \in DOMAIN attempts : attempts'[j].status = attempts[j].status
  BY <1>2 DEF Only
<1>5. TypeOK'
  BY <1>2 DEF AgentExits, RunInv, TypeOK, Only
<1>6. StartupIsTrue'
  BY <1>2 DEF AgentExits, RunInv, StartupIsTrue, Only
<1>7. SeenIsTrue'
  BY <1>2, <1>4, Types DEF AgentExits, RunInv, SeenIsTrue, Only
<1> QED BY <1>3, <1>5, <1>6, <1>7 DEF Keeps

LEMMA DeathKeeps ==
  ASSUME RunInv, DaemonDies
  PROVE  Keeps
<1>1. PICK fate \in {"running", "unproven", "exited"} :
        attempts' = [i \in DOMAIN attempts |->
                       IF Runs(i) THEN [attempts[i] EXCEPT !.process = fate] ELSE attempts[i]]
  BY DEF DaemonDies
<1>2. Ends
  <2> DEFINE gone == {i \in DOMAIN attempts : Runs(i)}
  <2>1. attempts' = [i \in DOMAIN attempts |->
                       IF i \in gone THEN [attempts[i] EXCEPT !.process = fate] ELSE attempts[i]]
    BY <1>1
  <2>2. gone \in SUBSET {i \in DOMAIN attempts : Runs(i)}
    OBVIOUS
  <2> HIDE DEF gone
  <2> QED BY <2>1, <2>2, Types, AllWritten DEF RunInv
<1>3. faults' \in 0..MaxFaults
  BY Types DEF RunInv, DaemonDies, Fault, TypeOK
<1>4. TypeOK'
  BY <1>2, <1>3 DEF DaemonDies, Daemon, RunInv, TypeOK, Ends
<1>5. StartupIsTrue' /\ SeenIsTrue'
  BY <1>2 DEF DaemonDies, Daemon, RunInv, StartupIsTrue, SeenIsTrue, Ends
<1> QED BY <1>2, <1>4, <1>5 DEF Keeps

LEMMA LookKeeps ==
  ASSUME RunInv, StartDaemon \/ Look
  PROVE  Keeps
<1>0. /\ Ends /\ attempts' = attempts /\ execution' = execution
      /\ UNCHANGED <<evidence, pc, run, linked, faults>>
  BY SameEnds DEF RunInv, StartDaemon, Look
<1>1. CASE StartDaemon
  BY <1>0, <1>1 DEF StartDaemon, Daemon, RunInv, TypeOK, StartupIsTrue, SeenIsTrue, Keeps
<1>2. CASE Look
  <2> DEFINE n == Len(attempts)
  <2>1. PICK missing \in BOOLEAN :
          seen' = [attempt |-> n, status |-> IF n = 0 THEN "CREATED" ELSE attempts[n].status,
                   execution |-> execution, fresh |-> ~missing]
    BY <1>2 DEF Look
  <2>2. /\ seen'.attempt = n /\ seen'.execution = execution
        /\ n # 0 => seen'.status = attempts[n].status
    BY <2>1
  <2>3. seen' \in Seen
    <3>1. n \in 0..MaxAttempts /\ (n # 0 => attempts[n].status \in AttemptStatus)
      BY Types DEF RunInv, Attempt
    <3>2. "CREATED" \in AttemptStatus
      BY DEF AttemptStatus
    <3> HIDE DEF n
    <3> QED BY <2>1, <3>1, <3>2, Types DEF RunInv, Seen
  <2>4. /\ daemon = "look"
        /\ \/ execution \in TerminalExecution \cup {"NONE"} /\ daemon' = "sweep"
           \/ n # 0 /\ daemon' = "kill"
           \/ daemon' = "quarantine"
    <3>1. execution \in TerminalExecution \cup {"NONE"} \/
          execution \in ExecutionStatus \ TerminalExecution
      BY Types DEF RunInv
    <3> QED BY <1>2, <3>1 DEF Look, Daemon
  <2>5. linked = FALSE
    BY <2>4 DEF RunInv, StartupIsTrue, TypeOK
  <2>6. TypeOK'
    BY <1>0, <2>3, <2>4 DEF RunInv, TypeOK
  <2>7. StartupIsTrue'
    BY <1>0, <2>2, <2>4, <2>5, Types DEF RunInv, StartupIsTrue
  <2>8. SeenIsTrue'
    BY <1>0, <2>2, <2>4 DEF SeenIsTrue
  <2> QED BY <1>0, <2>6, <2>7, <2>8 DEF Keeps
<1> QED BY <1>1, <1>2

LEMMA KillKeeps ==
  ASSUME RunInv, KillTree
  PROVE  Keeps
<1>1. /\ daemon = "kill" /\ UNCHANGED <<execution, evidence, pc, run, linked, seen>>
      /\ daemon' \in {"quarantine", "down"} /\ faults' \in 0..MaxFaults
  BY Types DEF KillTree, Daemon, Abandon, Fault, RunInv, TypeOK
<1>2. seen.attempt \in DOMAIN attempts
  BY <1>1, Types DEF RunInv, StartupIsTrue
<1>3. CASE UNCHANGED attempts
  BY <1>1, <1>3, SameEnds DEF RunInv, TypeOK, StartupIsTrue, SeenIsTrue, Keeps
<1>4. CASE Runs(seen.attempt) /\ SetProcess(seen.attempt, "exited")
  <2> DEFINE i == seen.attempt
  <2>1. /\ Only(i) /\ attempts'[i].process = "exited"
        /\ attempts'[i].status = attempts[i].status /\ attempts'[i].space = attempts[i].space
    BY <1>2, <1>4, Types, ProcessWritten DEF RunInv
  <2>2. Ends
    BY <1>2, <1>4, <2>1, OnlyEnds DEF Runs
  <2>3. TypeOK' /\ StartupIsTrue' /\ SeenIsTrue'
    BY <1>1, <2>1 DEF RunInv, TypeOK, StartupIsTrue, SeenIsTrue, Only
  <2> QED BY <2>2, <2>3 DEF Keeps
<1> QED BY <1>3, <1>4 DEF KillTree, Abandon

LEMMA QuarantineOrphanKeeps ==
  ASSUME RunInv, QuarantineOrphan
  PROVE  Keeps
<1>1. /\ daemon = "quarantine" /\ UNCHANGED <<execution, evidence, pc, run, linked, seen>>
      /\ daemon' \in {"record", "down"} /\ faults' \in 0..MaxFaults
  BY Types DEF QuarantineOrphan, Daemon, Abandon, Fault, RunInv, TypeOK
<1>2. CASE UNCHANGED attempts
  BY <1>1, <1>2, SameEnds DEF RunInv, TypeOK, StartupIsTrue, SeenIsTrue, Keeps
<1>3. CASE HasWorkspace /\ SetSpace(seen.attempt, "quarantined")
  <2> DEFINE i == seen.attempt
  <2>1. i \in DOMAIN attempts
    BY <1>3, Types DEF RunInv, StartupIsTrue, HasWorkspace
  <2>2. /\ Only(i) /\ attempts'[i].space = "quarantined"
        /\ attempts'[i].status = attempts[i].status /\ attempts'[i].process = attempts[i].process
    BY <1>3, <2>1, Types, SpaceWritten DEF RunInv
  <2>3. Ends
    BY <2>1, <2>2, OnlyEnds
  <2>4. TypeOK' /\ StartupIsTrue' /\ SeenIsTrue'
    BY <1>1, <2>1, <2>2 DEF RunInv, TypeOK, StartupIsTrue, SeenIsTrue, Only
  <2> QED BY <2>3, <2>4 DEF Keeps
<1> QED BY <1>2, <1>3 DEF QuarantineOrphan, Abandon

LEMMA RecordKeeps ==
  ASSUME RunInv, RecordRecovery
  PROVE  Keeps
BY SameEnds DEF RecordRecovery, Daemon, RunInv, TypeOK, StartupIsTrue, SeenIsTrue, Keeps

(***************************************************************************)
(* An attempt that is given up has ended.                                  *)
(***************************************************************************)
LEMMA GivenUp ==
  ASSUME NEW s, NEW outcome \in {"FAILED", "ORPHANED"}
  PROVE  GiveUp(s, outcome) \in TerminalAttempt /\ GiveUp(s, outcome) \in AttemptStatus
BY DEF GiveUp, TerminalAttempt, AttemptStatus

LEMMA EndIsFinal ==
  /\ \A s \in TerminalAttempt : AttemptNext(s) = {}
  /\ \A s \in TerminalExecution \cup {"NONE"} : ExecutionNext(s) = {}
BY DEF AttemptNext, TerminalAttempt, ExecutionNext, TerminalExecution

LEMMA EndAttemptKeeps ==
  ASSUME RunInv, EndAttempt
  PROVE  Keeps
<1>1. /\ daemon = "attempt" /\ UNCHANGED <<execution, evidence, pc, run, linked, faults>>
  BY DEF EndAttempt
<1>2. CASE /\ seen.attempt = 0 \/ seen.status \in TerminalAttempt
           /\ daemon' = "execution" /\ UNCHANGED <<attempts, seen>>
  <2>1. TypeOK' /\ Ends /\ StartupIsTrue'
    BY <1>1, <1>2, SameEnds DEF RunInv, TypeOK, StartupIsTrue
  <2>2. SeenIsTrue'
    <3> SUFFICES ASSUME seen.fresh, NEW i \in DOMAIN attempts
                 PROVE  attempts[i].status \in TerminalAttempt
      BY <1>2 DEF SeenIsTrue
    <3>1. /\ seen.attempt = Len(attempts)
          /\ seen.attempt # 0 => seen.status = attempts[seen.attempt].status
      BY <1>1 DEF RunInv, SeenIsTrue
    <3>2. i \in 1..Len(attempts) /\ Len(attempts) \in Nat
      BY Types DEF RunInv
    <3>3. CASE i = Len(attempts)
      BY <1>2, <3>1, <3>2, <3>3
    <3>4. CASE i # Len(attempts)
      <4>1. i # run.current
        BY <3>2, <3>4 DEF RunInv, Places
      <4> QED BY <4>1 DEF RunInv, EarlierAreOver, Over
    <3> QED BY <3>3, <3>4
  <2> QED BY <2>1, <2>2 DEF Keeps
<1>3. CASE UNCHANGED <<attempts, seen>> /\ daemon' = "down"
  BY <1>1, <1>3, SameEnds DEF RunInv, TypeOK, StartupIsTrue, SeenIsTrue, Keeps
<1>4. ASSUME NEW target \in TerminalAttempt \cap AttemptStatus, seen.attempt # 0,
             target \in AttemptNext(attempts[seen.attempt].status),
             daemon' = "execution",
             attempts' = [attempts EXCEPT ![seen.attempt].status = target],
             seen' = [seen EXCEPT !.execution = execution, !.fresh = TRUE]
      PROVE  Keeps
  <2> DEFINE i == seen.attempt
  <2>1. i \in DOMAIN attempts
    BY <1>4, Types DEF RunInv, StartupIsTrue
  <2>2. /\ Only(i) /\ attempts'[i].status = target
        /\ attempts'[i].space = attempts[i].space /\ attempts'[i].process = attempts[i].process
    BY <1>4, <2>1, Types, StatusWritten DEF RunInv
  <2>3. attempts[i].status \notin TerminalAttempt
    BY <1>4, EndIsFinal
  <2>4. Ends
    BY <2>1, <2>2, <2>3, OnlyEnds
  <2>5. seen' \in Seen /\ seen'.attempt = seen.attempt /\ seen'.execution = execution
    BY <1>4, Types DEF RunInv, Seen
  <2>6. TypeOK'
    BY <1>1, <1>4, <2>2, <2>5 DEF RunInv, TypeOK, Only
  <2>7. StartupIsTrue'
    BY <1>1, <1>4, <2>2, <2>5 DEF RunInv, StartupIsTrue, Only
  <2>8. SeenIsTrue'
    <3>1. i = run.current
      BY <2>1, <2>3 DEF RunInv, EarlierAreOver, Over
    <3>2. \A j \in DOMAIN attempts : attempts'[j].status \in TerminalAttempt
      BY <2>2, <3>1 DEF RunInv, EarlierAreOver, Over, Only
    <3> QED BY <1>4, <2>2, <3>2 DEF SeenIsTrue, Only
  <2> QED BY <2>4, <2>6, <2>7, <2>8 DEF Keeps
<1> DEFINE target == GiveUp(seen.status, "ORPHANED")
<1>5. target \in TerminalAttempt \cap AttemptStatus
  BY GivenUp
<1>6. \/ /\ seen.attempt = 0 \/ seen.status \in TerminalAttempt
         /\ daemon' = "execution" /\ UNCHANGED <<attempts, seen>>
      \/ UNCHANGED <<attempts, seen>> /\ daemon' = "down"
      \/ /\ seen.attempt # 0 /\ target \in AttemptNext(attempts[seen.attempt].status)
         /\ daemon' = "execution"
         /\ attempts' = [attempts EXCEPT ![seen.attempt].status = target]
         /\ seen' = [seen EXCEPT !.execution = execution, !.fresh = TRUE]
  BY DEF EndAttempt, Daemon, Abandon
<1> HIDE DEF target
<1> QED BY <1>2, <1>3, <1>4, <1>5, <1>6

LEMMA EndExecutionKeeps ==
  ASSUME RunInv, EndExecution
  PROVE  /\ Keeps
         /\ execution' # execution => execution' \in {"INTERRUPTED", "CANCELLED"}
         /\ execution' = "NONE" <=> execution = "NONE"
         /\ execution' = "INTERRUPTED" /\ execution # "INTERRUPTED" =>
              "startup" \in evidence /\ \A i \in DOMAIN attempts : attempts[i].status \in TerminalAttempt
<1>1. /\ daemon = "execution" /\ UNCHANGED <<attempts, evidence, pc, run, linked, seen, faults>>
      /\ Ends
  BY SameEnds DEF EndExecution, RunInv
<1>2. CASE seen.execution \in TerminalExecution /\ daemon' = "sweep" /\ UNCHANGED execution
  BY <1>1, <1>2 DEF RunInv, TypeOK, StartupIsTrue, SeenIsTrue, Keeps
<1>3. CASE daemon' = "down" /\ UNCHANGED execution
  BY <1>1, <1>3 DEF RunInv, TypeOK, StartupIsTrue, SeenIsTrue, Keeps
<1>4. CASE /\ seen.fresh /\ execution' \in ExecutionNext(execution) /\ daemon' = "sweep"
           /\ execution' \in {"INTERRUPTED", "CANCELLED"}
  <2>1. execution \notin TerminalExecution \cup {"NONE"}
    BY <1>4, EndIsFinal
  <2>2. execution' \in TerminalExecution /\ execution' \in ExecutionStatus
    BY <1>4 DEF TerminalExecution, ExecutionStatus
  <2> QED BY <1>1, <1>4, <2>1, <2>2 DEF RunInv, TypeOK, StartupIsTrue, SeenIsTrue, Keeps
<1> QED BY <1>2, <1>3, <1>4 DEF EndExecution, Daemon, Abandon, SameVersion

LEMMA SweepKeeps ==
  ASSUME RunInv, Sweep
  PROVE  /\ Keeps
         /\ daemon' = "ready" => \A i \in DOMAIN attempts' : attempts'[i].process # "running"
<1>1. /\ daemon = "sweep" /\ UNCHANGED <<execution, evidence, pc, run, linked, seen>>
      /\ daemon' \in {"ready", "down"} /\ faults' \in 0..MaxFaults
  BY Types DEF Sweep, Daemon, Abandon, Fault, RunInv, TypeOK
<1>2. CASE UNCHANGED attempts /\ daemon' = "down"
  BY <1>1, <1>2, SameEnds DEF RunInv, TypeOK, StartupIsTrue, SeenIsTrue, Keeps
<1>3. CASE attempts' = [i \in DOMAIN attempts |->
                          IF Orphan(i) THEN [attempts[i] EXCEPT !.process = "exited"]
                                       ELSE attempts[i]]
  <2> DEFINE gone == {i \in DOMAIN attempts : Orphan(i)}
  <2>1. attempts' = [i \in DOMAIN attempts |->
                       IF i \in gone THEN [attempts[i] EXCEPT !.process = "exited"] ELSE attempts[i]]
    BY <1>3
  <2>2. gone \in SUBSET {i \in DOMAIN attempts : Runs(i)}
    BY DEF Orphan
  <2>3. \A i \in DOMAIN attempts : i \in gone <=> Orphan(i)
    OBVIOUS
  <2> HIDE DEF gone
  <2>4. /\ Ends
        /\ \A i \in DOMAIN attempts : attempts'[i].process =
             IF i \in gone THEN "exited" ELSE attempts[i].process
    BY <2>1, <2>2, Types, AllWritten DEF RunInv
  <2>5. TypeOK' /\ StartupIsTrue' /\ SeenIsTrue'
    BY <1>1, <2>4 DEF RunInv, TypeOK, StartupIsTrue, SeenIsTrue, Ends
  <2>6. \A i \in DOMAIN attempts : Runs(i) => Orphan(i)
    <3>1. CASE execution = "NONE"
      <4>1. attempts = << >>
        BY <3>1 DEF RunInv, Places
      <4> QED BY <4>1
    <3>2. CASE execution \in TerminalExecution
      BY <3>2 DEF Orphan
    <3> QED BY <1>1, <3>1, <3>2 DEF RunInv, StartupIsTrue
  <2>7. \A i \in DOMAIN attempts' : attempts'[i].process # "running"
    BY <2>3, <2>4, <2>6 DEF Ends, Runs
  <2> QED BY <2>4, <2>5, <2>7 DEF Keeps
<1> QED BY <1>1, <1>2, <1>3 DEF Sweep, Abandon, Daemon

LEMMA StartUpKeeps ==
  ASSUME RunInv, StartUp \/ AgentExits \/ DaemonDies
  PROVE  RunInv' /\ Ends
<1>1. Keeps /\ UNCHANGED <<pc, run>>
  BY ExitKeeps, DeathKeeps, LookKeeps, KillKeeps, QuarantineOrphanKeeps, RecordKeeps,
     EndAttemptKeeps, EndExecutionKeeps, SweepKeeps
  DEF StartUp, AgentExits, DaemonDies, StartDaemon, Look, KillTree, QuarantineOrphan,
      RecordRecovery, EndAttempt, EndExecution, Sweep
<1>2. /\ execution' = "COMPLETED" <=> execution = "COMPLETED"
      /\ execution' = "NONE" <=> execution = "NONE"
  <2>1. CASE EndExecution
    <3>1. execution = "COMPLETED" => execution' = execution
      BY <2>1, EndIsFinal DEF EndExecution, TerminalExecution
    <3> QED BY <2>1, <3>1, EndExecutionKeeps
  <2>2. CASE ~EndExecution
    BY <2>2 DEF StartUp, AgentExits, DaemonDies, StartDaemon, Look, KillTree, QuarantineOrphan,
                RecordRecovery, EndAttempt, Sweep
  <2> QED BY <2>1, <2>2
<1> QED BY <1>1, <1>2, QuietKeeps DEF Keeps, RunInv

-----------------------------------------------------------------------------
(* Steps of the coordinator. *)

LEMMA OutdatedIsTyped ==
  ASSUME TypeOK, Written
  PROVE  /\ seen' \in Seen /\ seen'.attempt = seen.attempt /\ seen'.execution = seen.execution
         /\ ~seen'.fresh
BY Types DEF Written, Seen

LEMMA SeenKeeps ==
  ASSUME RunInv, daemon' = daemon, evidence \subseteq evidence',
         linked' => linked \/ daemon = "ready",
         Len(attempts') \in Nat, Len(attempts) <= Len(attempts'),
         execution \in TerminalExecution => execution' \in TerminalExecution,
         execution = "NONE" => execution' = "NONE" \/ daemon = "ready",
         \/ Written
         \/ /\ seen' = seen
            /\ Len(attempts') = Len(attempts) /\ DOMAIN attempts' = DOMAIN attempts
            /\ \A i \in DOMAIN attempts : attempts'[i].status = attempts[i].status
  PROVE  StartupIsTrue' /\ SeenIsTrue'
<1>1. /\ seen'.attempt = seen.attempt /\ seen'.execution = seen.execution
      /\ seen.attempt \in Nat /\ Len(attempts) \in Nat
  BY OutdatedIsTyped, Types DEF RunInv
<1>2. StartupIsTrue'
  BY <1>1 DEF RunInv, StartupIsTrue
<1>3. CASE Written
  BY <1>2, <1>3, OutdatedIsTyped DEF RunInv, SeenIsTrue
<1>4. CASE /\ seen' = seen
           /\ Len(attempts') = Len(attempts) /\ DOMAIN attempts' = DOMAIN attempts
           /\ \A i \in DOMAIN attempts : attempts'[i].status = attempts[i].status
  <2>1. seen.attempt # 0 => seen.attempt \in DOMAIN attempts
    BY <1>1, Types DEF RunInv, StartupIsTrue
  <2> QED BY <1>2, <1>4, <2>1 DEF RunInv, SeenIsTrue
<1> QED BY <1>2, <1>3, <1>4

LEMMA DriveKeeps ==
  ASSUME RunInv, TypeOK', Places', MemoryIsTrue', Ends,
         daemon' = daemon, evidence \subseteq evidence',
         linked' => linked \/ daemon = "ready",
         execution' # "COMPLETED",
         execution \in TerminalExecution => execution' \in TerminalExecution,
         execution = "NONE" => execution' = "NONE" \/ daemon = "ready",
         run'.current = run.current \/ (run'.current = 0 /\ pc = "attempt"),
         pc' = "attempt" => \A i \in DOMAIN attempts : i = run.current => Over(i)',
         \/ Written
         \/ seen' = seen /\ \A i \in DOMAIN attempts : attempts'[i].status = attempts[i].status
  PROVE  RunInv'
<1>1. /\ Len(attempts) \in Nat /\ Len(attempts') = Len(attempts)
      /\ DOMAIN attempts' = DOMAIN attempts
  BY Types DEF RunInv, Ends
<1>2. EarlierAreOver'
  BY <1>1, EndsKeepsOver DEF RunInv, EarlierAreOver
<1>3. StartupIsTrue' /\ SeenIsTrue'
  BY <1>1, SeenKeeps
<1>4. HasLast' /\ CompletedIsWhole'
  BY EndsKeepsLast DEF RunInv, CompletedIsWhole
<1> QED BY <1>2, <1>3, <1>4 DEF RunInv

LEMMA Driven ==
  ASSUME RunInv, pc \in Trying \ {"attempt"}
  PROVE  /\ run.current \in DOMAIN attempts /\ attempts # << >>
         /\ ~run.terminal /\ ~run.quarantined
BY Types DEF RunInv, Places

LEMMA NotCompleted ==
  ASSUME RunInv, pc # "done"
  PROVE  execution # "COMPLETED"
BY DEF RunInv, CompletedIsWhole

LEMMA ExecutionMoves ==
  ASSUME TypeOK, NEW status \in ExecutionStatus \ {"COMPLETED"}, MoveExecution(status)
  PROVE  /\ execution' = status /\ Written /\ seen' \in Seen
         /\ execution \notin TerminalExecution \cup {"NONE"}
         /\ execution' # "NONE"
BY EndIsFinal, OutdatedIsTyped DEF MoveExecution, ExecutionStatus

LEMMA CreateExecutionKeeps ==
  ASSUME RunInv, CreateExecution
  PROVE  RunInv' /\ Ends
<1>1. /\ pc = "idle" /\ daemon = "ready" /\ linked' = TRUE /\ execution' = "CREATED"
      /\ Written /\ pc' = "queue" /\ seen' \in Seen
      /\ UNCHANGED <<attempts, evidence, run, daemon, faults>>
  BY OutdatedIsTyped DEF CreateExecution, Goto, RunInv
<1>2. attempts = << >> /\ execution = "NONE"
  BY <1>1 DEF RunInv, Places
<1>3. TypeOK'
  BY <1>1 DEF RunInv, TypeOK, ExecutionStatus
<1>4. Places'
  BY <1>1, <1>2 DEF RunInv, Places, Trying, BeforeLaunch
<1>5. MemoryIsTrue'
  BY <1>1, <1>2 DEF MemoryIsTrue
<1> QED BY <1>1, <1>2, <1>3, <1>4, <1>5, SameEnds, DriveKeeps DEF RunInv, TerminalExecution

LEMMA EnterKeeps ==
  ASSUME RunInv, Enter \/ StayRunning
  PROVE  RunInv' /\ Ends
<1>1. /\ UNCHANGED <<attempts, evidence, run, daemon, linked, faults>>
      /\ pc' \in {"prepare", "attempt", "launch"} /\ pc \in {"queue", "prepare", "run"}
      /\ pc = "queue" => pc' = "prepare"
      /\ pc = "prepare" => pc' = "attempt"
      /\ pc = "run" => pc' = "launch"
  BY DEF Enter, StayRunning, Goto
<1>2. /\ execution' \notin {"NONE", "COMPLETED"} /\ execution' \in ExecutionStatus
      /\ Written \/ UNCHANGED seen
      /\ seen' \in Seen /\ execution # "NONE"
      /\ execution \in TerminalExecution => execution' \in TerminalExecution
  <2>1. CASE Enter
    BY <2>1, ExecutionMoves DEF Enter, RunInv, ExecutionStatus
  <2>2. CASE StayRunning
    BY <2>2, Types DEF StayRunning, RunInv, ExecutionStatus
  <2> QED BY <2>1, <2>2
<1>3. TypeOK'
  BY <1>1, <1>2 DEF RunInv, TypeOK, Trying
<1>4. Places'
  BY <1>1, <1>2 DEF RunInv, Places, Trying, BeforeLaunch
<1>5. MemoryIsTrue'
  BY <1>1 DEF RunInv, MemoryIsTrue, Places, Dead
<1>6. pc' = "attempt" => attempts = << >>
  BY <1>1 DEF RunInv, Places
<1> QED BY <1>1, <1>2, <1>3, <1>4, <1>5, <1>6, SameEnds, DriveKeeps DEF RunInv

LEMMA AdvanceKeeps ==
  ASSUME RunInv, Advance \/ Started
  PROVE  RunInv' /\ Ends
<1> DEFINE i == run.current
<1>1. /\ UNCHANGED <<execution, evidence, run, daemon, linked, faults>>
      /\ pc \in Trying \ {"attempt"} /\ pc' \in Trying \ {"attempt"} /\ pc' \notin {"idle", "done"}
      /\ pc \in BeforeLaunch \cup {"stream", "collect", "verifying"}
      /\ pc' \in BeforeLaunch => pc \in BeforeLaunch
      /\ pc' \in {"collect", "verifying", "complete"} => pc \in {"collect", "verifying", "complete"}
  BY DEF Advance, Started, Goto, Trying, BeforeLaunch
<1>2. PICK s \in AttemptStatus : MoveAttempt(i, s)
  BY DEF Advance, Started, AttemptStatus
<1>3. i \in DOMAIN attempts
  BY <1>1, Driven
<1>4. /\ Only(i) /\ attempts'[i].status = s /\ Written
      /\ attempts'[i].space = attempts[i].space /\ attempts'[i].process = attempts[i].process
  BY <1>2, <1>3, Types, StatusWritten DEF MoveAttempt, RunInv
<1>5. attempts[i].status \notin TerminalAttempt
  BY <1>2, EndIsFinal DEF MoveAttempt
<1>6. Ends
  BY <1>3, <1>4, <1>5, OnlyEnds
<1>7. TypeOK'
  BY <1>1, <1>4, OutdatedIsTyped DEF RunInv, TypeOK, Only, Trying
<1>8. Places'
  <2>1. execution # "NONE" /\ attempts' # << >>
    BY <1>1, <1>3, <1>4 DEF RunInv, Places, Trying, Only
  <2> QED BY <1>1, <1>4, <2>1 DEF RunInv, Places, Trying, Only
<1>9. MemoryIsTrue'
  <2> SUFFICES ASSUME NEW j \in DOMAIN attempts, j = run.current
               PROVE  /\ run.terminal => Dead(j)'
                      /\ ~run.launched => attempts'[j].process = "none"
                      /\ attempts'[j].space = "prepared" => run.prepared /\ ~run.quarantined
                      /\ pc' \in {"decide", "evidence"} => attempts'[j].status \in TerminalAttempt
                      /\ pc' \in {"collect", "verifying", "complete"} => attempts'[j].process = "exited"
    BY <1>1, <1>4 DEF MemoryIsTrue, Only
  <2>1. pc' \notin {"decide", "evidence"}
    BY <1>1 DEF Trying
  <2> QED BY <1>1, <1>4, <2>1 DEF RunInv, MemoryIsTrue, Dead
<1>10. execution # "COMPLETED"
  BY <1>1, NotCompleted DEF Trying
<1> QED BY <1>1, <1>4, <1>6, <1>7, <1>8, <1>9, <1>10, DriveKeeps

(***************************************************************************)
(* What the coordinator remembers, after a step that ends things only.     *)
(***************************************************************************)
LEMMA MemoryKeeps ==
  ASSUME RunInv, Ends, run' \in Run, run'.current = run.current,
         run'.terminal => run.terminal \/ \A i \in DOMAIN attempts : i = run.current => Dead(i)',
         run.launched => run'.launched, run.prepared => run'.prepared,
         run'.quarantined => run.quarantined \/
           \A i \in DOMAIN attempts : i = run.current => attempts'[i].space # "prepared",
         pc' \in {"decide", "evidence"} => pc = "decide" \/
           \A i \in DOMAIN attempts : i = run.current => attempts'[i].status \in TerminalAttempt,
         pc' \in {"collect", "verifying", "complete"} =>
           \A i \in DOMAIN attempts : i = run.current => attempts'[i].process = "exited"
  PROVE  MemoryIsTrue'
<1> SUFFICES ASSUME NEW i \in DOMAIN attempts, i = run.current
             PROVE  /\ run'.terminal => Dead(i)'
                    /\ ~run'.launched => attempts'[i].process = "none"
                    /\ attempts'[i].space = "prepared" => run'.prepared /\ ~run'.quarantined
                    /\ pc' \in {"decide", "evidence"} => attempts'[i].status \in TerminalAttempt
                    /\ pc' \in {"collect", "verifying", "complete"} => attempts'[i].process = "exited"
  BY DEF MemoryIsTrue, Ends
<1>1. /\ run.terminal => Dead(i)
      /\ ~run.launched => attempts[i].process = "none"
      /\ attempts[i].space = "prepared" => run.prepared /\ ~run.quarantined
      /\ pc \in {"decide", "evidence"} => attempts[i].status \in TerminalAttempt
  BY DEF RunInv, MemoryIsTrue
<1>2. Dead(i) => Dead(i)'
  BY DEF Ends, Dead
<1>3. run.terminal \in BOOLEAN /\ run.launched \in BOOLEAN /\ run.prepared \in BOOLEAN
      /\ run.quarantined \in BOOLEAN
  BY Types DEF RunInv, Run
<1> QED BY <1>1, <1>2, <1>3 DEF Ends

LEMMA StreamEndsKeeps ==
  ASSUME RunInv, StreamEnds
  PROVE  RunInv' /\ Ends
<1>1. /\ UNCHANGED <<execution, attempts, evidence, run, daemon, linked, seen, faults>>
      /\ pc = "stream" /\ pc' \in {"collect", "cancel"}
      /\ attempts[run.current].process = "exited"
  BY DEF StreamEnds, Goto, AgentGone
<1>2. Ends /\ run \in Run
  BY <1>1, SameEnds, Types DEF RunInv
<1>3. TypeOK' /\ Places'
  BY <1>1 DEF RunInv, TypeOK, Places, Trying, BeforeLaunch
<1>4. MemoryIsTrue'
  BY <1>1, <1>2, MemoryKeeps
<1>5. execution # "COMPLETED"
  BY <1>1, NotCompleted
<1> QED BY <1>1, <1>2, <1>3, <1>4, <1>5, DriveKeeps

LEMMA FailsKeeps ==
  ASSUME RunInv, Fails
  PROVE  RunInv' /\ Ends
<1>1. /\ UNCHANGED <<execution, evidence, daemon, linked, seen, faults>>
      /\ pc \in Trying /\ pc' = "cancel" /\ run' = IF pc = "attempt" THEN NewRun ELSE run
  BY DEF Fails, Goto
<1>2. execution \notin {"COMPLETED", "NONE"}
  BY <1>1, NotCompleted DEF RunInv, Places, Trying
<1>3. NewRun \in Run /\ NewRun.current = 0 /\ NewRun.quarantined = FALSE /\ NewRun.terminal = FALSE
  BY Types DEF NewRun, Run, RunInv
<1>4. /\ Ends
      /\ \A i \in DOMAIN attempts : attempts'[i].status = attempts[i].status
  <2>1. CASE UNCHANGED attempts
    BY <2>1, SameEnds DEF RunInv
  <2>2. CASE pc = "worktree" /\ SetSpace(run.current, attempts[run.current].space)
    <3>1. run.current \in DOMAIN attempts /\ attempts[run.current] \in Attempt
      BY <2>2, Driven, Types DEF Trying, RunInv
    <3>2. attempts[run.current].space \in {"none", "intent", "prepared", "quarantined"}
      BY <3>1 DEF Attempt
    <3>3. /\ Only(run.current) /\ attempts'[run.current].status = attempts[run.current].status
          /\ attempts'[run.current].process = attempts[run.current].process
          /\ attempts'[run.current].space = attempts[run.current].space
      BY <2>2, <3>1, <3>2, SpaceWritten, Types DEF RunInv
    <3> QED BY <3>1, <3>3, OnlyEnds DEF Only
  <2>3. CASE pc = "worktree" /\ SetSpace(run.current, "quarantined")
    <3>1. run.current \in DOMAIN attempts
      BY <2>3, Driven DEF Trying
    <3>2. /\ Only(run.current) /\ attempts'[run.current].status = attempts[run.current].status
          /\ attempts'[run.current].process = attempts[run.current].process
          /\ attempts'[run.current].space = "quarantined"
      BY <2>3, <3>1, SpaceWritten, Types DEF RunInv
    <3> QED BY <3>1, <3>2, OnlyEnds DEF Only
  <2> QED BY <2>1, <2>2, <2>3 DEF Fails
<1>5. TypeOK'
  BY <1>1, <1>3, <1>4 DEF RunInv, TypeOK, Ends
<1>6. Places'
  BY <1>1, <1>2, <1>3, <1>4 DEF RunInv, Places, Trying, BeforeLaunch, Ends
<1>7. MemoryIsTrue'
  <2>1. CASE pc = "attempt"
    <3>1. run'.current \notin DOMAIN attempts'
      BY <1>1, <1>3, <1>4, <2>1, Types DEF Ends, RunInv
    <3> QED BY <3>1 DEF MemoryIsTrue
  <2>2. CASE pc # "attempt"
    BY <1>1, <1>4, <2>2, MemoryKeeps, Types DEF RunInv
  <2> QED BY <2>1, <2>2
<1> QED BY <1>1, <1>2, <1>3, <1>4, <1>5, <1>6, <1>7, DriveKeeps

LEMMA CancelKeeps ==
  ASSUME RunInv, Cancel
  PROVE  RunInv' /\ Ends
<1>1. /\ UNCHANGED <<execution, evidence, daemon, linked, seen>>
      /\ pc = "cancel" /\ pc' = "quarantine" /\ faults' \in 0..MaxFaults
  BY Types DEF Cancel, Goto, Fault, RunInv, TypeOK
<1>2. execution \notin {"COMPLETED", "NONE"}
  BY <1>1, NotCompleted DEF RunInv, Places
<1>3. run \in Run
  BY Types DEF RunInv
<1>4. /\ Ends /\ \A i \in DOMAIN attempts : attempts'[i].status = attempts[i].status
      /\ run' \in Run /\ run'.current = run.current /\ run'.launched = run.launched
      /\ run'.prepared = run.prepared /\ run'.quarantined = run.quarantined
      /\ run'.terminal => run.terminal \/ \A i \in DOMAIN attempts : i = run.current => Dead(i)'
  <2>1. CASE UNCHANGED <<run, attempts>>
    BY <1>3, <2>1, SameEnds DEF RunInv
  <2>2. CASE ~run.launched /\ UNCHANGED attempts /\ run' = [run EXCEPT !.terminal = TRUE]
    <3>1. \A i \in DOMAIN attempts : i = run.current => Dead(i)'
      BY <2>2 DEF RunInv, MemoryIsTrue, Dead
    <3> QED BY <1>3, <2>2, <3>1, SameEnds DEF RunInv, Run
  <2>3. CASE /\ attempts[run.current].process # "none" /\ SetProcess(run.current, "exited")
             /\ run' = [run EXCEPT !.terminal = TRUE]
    <3>1. /\ run' \in Run /\ run'.current = run.current /\ run'.launched = run.launched
          /\ run'.prepared = run.prepared /\ run'.quarantined = run.quarantined
      BY <1>3, <2>3 DEF Run
    <3>2. CASE run.current \in DOMAIN attempts
      <4>1. /\ Only(run.current) /\ attempts'[run.current].process = "exited"
            /\ attempts'[run.current].status = attempts[run.current].status
            /\ attempts'[run.current].space = attempts[run.current].space
        BY <2>3, <3>2, Types, ProcessWritten DEF RunInv
      <4>2. Ends
        BY <2>3, <3>2, <4>1, OnlyEnds
      <4>3. \A i \in DOMAIN attempts : i = run.current => Dead(i)'
        BY <4>1 DEF Dead
      <4> QED BY <3>1, <4>1, <4>2, <4>3 DEF Only
    <3>3. CASE run.current \notin DOMAIN attempts
      <4>1. UNCHANGED attempts
        BY <2>3, <3>3, Types DEF SetProcess, RunInv
      <4> QED BY <3>1, <3>3, <4>1, SameEnds DEF RunInv
    <3> QED BY <3>2, <3>3
  <2>4. CASE HasStaleState /\ UNCHANGED attempts /\ run' = [run EXCEPT !.terminal = TRUE]
    <3>1. \A i \in DOMAIN attempts : i = run.current => Dead(i)'
      BY <2>4 DEF HasStaleState, Dead
    <3> QED BY <1>3, <2>4, <3>1, SameEnds DEF RunInv, Run
  <2> QED BY <2>1, <2>2, <2>3, <2>4 DEF Cancel
<1>5. TypeOK'
  BY <1>1, <1>4 DEF RunInv, TypeOK, Ends
<1>6. Places'
  BY <1>1, <1>2, <1>4 DEF RunInv, Places, Trying, BeforeLaunch, Ends
<1>7. MemoryIsTrue'
  BY <1>1, <1>4, MemoryKeeps
<1> QED BY <1>1, <1>2, <1>4, <1>5, <1>6, <1>7, DriveKeeps

LEMMA QuarantineKeeps ==
  ASSUME RunInv, Quarantine
  PROVE  RunInv' /\ Ends
<1>1. /\ UNCHANGED <<execution, evidence, daemon, linked, seen>>
      /\ pc = "quarantine" /\ pc' = "fail" /\ faults' \in 0..MaxFaults
  BY Types DEF Quarantine, Goto, Fault, RunInv, TypeOK
<1>2. execution \notin {"COMPLETED", "NONE"}
  BY <1>1, NotCompleted DEF RunInv, Places
<1>3. run \in Run
  BY Types DEF RunInv
<1>4. /\ Ends /\ \A i \in DOMAIN attempts : attempts'[i].status = attempts[i].status
      /\ run' \in Run /\ run'.current = run.current /\ run'.launched = run.launched
      /\ run'.prepared = run.prepared /\ run'.terminal = run.terminal
      /\ run'.quarantined => run.quarantined \/
           \A i \in DOMAIN attempts : i = run.current => attempts'[i].space # "prepared"
  <2>1. CASE UNCHANGED <<run, attempts>>
    BY <1>3, <2>1, SameEnds DEF RunInv
  <2>2. CASE /\ SetSpace(run.current, "quarantined")
             /\ run' = [run EXCEPT !.quarantined = TRUE]
    <3>1. /\ run' \in Run /\ run'.current = run.current /\ run'.launched = run.launched
          /\ run'.prepared = run.prepared /\ run'.terminal = run.terminal
      BY <1>3, <2>2 DEF Run
    <3>2. CASE run.current \in DOMAIN attempts
      <4>1. /\ Only(run.current) /\ attempts'[run.current].space = "quarantined"
            /\ attempts'[run.current].status = attempts[run.current].status
            /\ attempts'[run.current].process = attempts[run.current].process
        BY <2>2, <3>2, Types, SpaceWritten DEF RunInv
      <4>2. Ends
        BY <2>2, <3>2, <4>1, OnlyEnds
      <4>3. \A i \in DOMAIN attempts : i = run.current => attempts'[i].space # "prepared"
        BY <4>1
      <4> QED BY <3>1, <4>1, <4>2, <4>3 DEF Only
    <3>3. CASE run.current \notin DOMAIN attempts
      <4>1. UNCHANGED attempts
        BY <2>2, <3>3, Types DEF SetSpace, RunInv
      <4> QED BY <3>1, <3>3, <4>1, SameEnds DEF RunInv
    <3> QED BY <3>2, <3>3
  <2> QED BY <2>1, <2>2 DEF Quarantine
<1>5. TypeOK'
  BY <1>1, <1>4 DEF RunInv, TypeOK, Ends
<1>6. Places'
  BY <1>1, <1>2, <1>4 DEF RunInv, Places, Trying, BeforeLaunch, Ends
<1>7. MemoryIsTrue'
  BY <1>1, <1>4, MemoryKeeps
<1> QED BY <1>1, <1>2, <1>4, <1>5, <1>6, <1>7, DriveKeeps

LEMMA FailAttemptKeeps ==
  ASSUME RunInv, FailAttempt
  PROVE  RunInv' /\ Ends
<1>1. /\ UNCHANGED <<execution, evidence, run, daemon, linked, faults>>
      /\ pc = "fail" /\ pc' = "decide"
  BY DEF FailAttempt, Goto
<1>2. execution \notin {"COMPLETED", "NONE"}
  BY <1>1, NotCompleted DEF RunInv, Places
<1>3. run \in Run /\ seen \in Seen
  BY Types DEF RunInv
<1>4. /\ Ends /\ seen' \in Seen
      /\ \/ Written
         \/ seen' = seen /\ \A i \in DOMAIN attempts : attempts'[i].status = attempts[i].status
      /\ \A i \in DOMAIN attempts : i = run.current => attempts'[i].status \in TerminalAttempt
  <2>1. CASE run.current # 0 /\ attempts[run.current].status \notin TerminalAttempt
    <3> DEFINE s == GiveUp(attempts[run.current].status, "FAILED")
    <3>1. MoveAttempt(run.current, s)
      BY <2>1 DEF FailAttempt
    <3>2. s \in AttemptStatus /\ s \in TerminalAttempt
      BY GivenUp
    <3>3. run.current \in DOMAIN attempts
      BY <2>1, Types DEF RunInv, Places
    <3> HIDE DEF s
    <3>4. /\ Only(run.current) /\ attempts'[run.current].status = s /\ Written
          /\ attempts'[run.current].space = attempts[run.current].space
          /\ attempts'[run.current].process = attempts[run.current].process
      BY <3>1, <3>2, <3>3, Types, StatusWritten DEF MoveAttempt, RunInv
    <3>5. Ends
      BY <2>1, <3>3, <3>4, OnlyEnds
    <3>6. seen' \in Seen
      BY <3>4, OutdatedIsTyped DEF RunInv
    <3> QED BY <3>2, <3>4, <3>5, <3>6
  <2>2. CASE ~(run.current # 0 /\ attempts[run.current].status \notin TerminalAttempt)
    <3>1. UNCHANGED <<attempts, seen>>
      BY <2>2 DEF FailAttempt
    <3>2. 0 \notin DOMAIN attempts
      BY Types DEF RunInv
    <3> QED BY <1>3, <2>2, <3>1, <3>2, SameEnds DEF RunInv
  <2> QED BY <2>1, <2>2
<1>5. TypeOK'
  BY <1>1, <1>4 DEF RunInv, TypeOK, Ends
<1>6. Places'
  BY <1>1, <1>2, <1>4 DEF RunInv, Places, Trying, BeforeLaunch, Ends
<1>7. MemoryIsTrue'
  BY <1>1, <1>3, <1>4, MemoryKeeps
<1> QED BY <1>1, <1>2, <1>4, <1>5, <1>6, <1>7, DriveKeeps

LEMMA DecideKeeps ==
  ASSUME RunInv, Decide
  PROVE  RunInv' /\ Ends
<1>1. /\ UNCHANGED <<attempts, evidence, daemon, linked, faults>>
      /\ pc = "decide" /\ pc' = "evidence"
  BY DEF Decide, Goto
<1>2. PICK retry \in BOOLEAN :
        /\ retry => MayRetry
        /\ run' = [run EXCEPT !.retry = retry]
        /\ IF ~retry /\ execution \notin TerminalExecution
           THEN MoveExecution("FAILED") ELSE UNCHANGED <<execution, seen>>
  BY DEF Decide
<1>3. execution \notin {"COMPLETED", "NONE"}
  BY <1>1, NotCompleted DEF RunInv, Places
<1>4. /\ execution' \notin {"COMPLETED", "NONE"} /\ execution' \in ExecutionStatus
      /\ execution \in TerminalExecution => execution' \in TerminalExecution
      /\ Written \/ UNCHANGED seen
      /\ seen' \in Seen
  <2>1. CASE MoveExecution("FAILED")
    <3>1. "FAILED" \in ExecutionStatus \ {"COMPLETED"} /\ "FAILED" \in TerminalExecution
      BY DEF ExecutionStatus, TerminalExecution
    <3> QED BY <2>1, <3>1, ExecutionMoves DEF RunInv
  <2>2. CASE UNCHANGED <<execution, seen>>
    BY <1>3, <2>2, Types DEF RunInv
  <2> QED BY <1>2, <2>1, <2>2
<1>5. /\ run' \in Run /\ run'.current = run.current /\ run'.launched = run.launched
      /\ run'.prepared = run.prepared /\ run'.terminal = run.terminal
      /\ run'.quarantined = run.quarantined /\ run'.retry = retry
  BY <1>2, Types DEF RunInv, Run
<1>6. Ends
  BY <1>1, SameEnds DEF RunInv
<1>7. TypeOK'
  BY <1>1, <1>4, <1>5 DEF RunInv, TypeOK
<1>8. Places'
  BY <1>1, <1>2, <1>4, <1>5 DEF RunInv, Places, Trying, BeforeLaunch, MayRetry
<1>9. MemoryIsTrue'
  BY <1>1, <1>5, <1>6, MemoryKeeps
<1> QED BY <1>1, <1>3, <1>4, <1>5, <1>6, <1>7, <1>8, <1>9, DriveKeeps

LEMMA RecordFailureKeeps ==
  ASSUME RunInv, RecordFailure
  PROVE  RunInv' /\ Ends
<1>1. /\ UNCHANGED <<execution, attempts, run, daemon, linked, seen, faults>>
      /\ pc = "evidence" /\ pc' = IF run.retry THEN "attempt" ELSE "done"
      /\ evidence' = evidence \cup {"coordinator"}
  BY DEF RecordFailure, Goto
<1>2. execution \notin {"COMPLETED", "NONE"}
  BY <1>1, NotCompleted DEF RunInv, Places
<1>3. Ends /\ run \in Run
  BY <1>1, SameEnds, Types DEF RunInv
<1>4. TypeOK'
  BY <1>1 DEF RunInv, TypeOK, Trying
<1>5. Places'
  BY <1>1, <1>2 DEF RunInv, Places, Trying, BeforeLaunch
<1>6. MemoryIsTrue'
  BY <1>1, <1>3, MemoryKeeps
<1>7. pc' = "attempt" => \A i \in DOMAIN attempts : i = run.current => Over(i)'
  BY <1>1 DEF RunInv, Places, MemoryIsTrue, Over, Dead
<1> QED BY <1>1, <1>2, <1>3, <1>4, <1>5, <1>6, <1>7, DriveKeeps

LEMMA StopKeeps ==
  ASSUME RunInv, CoordinatorStops
  PROVE  RunInv' /\ Ends
<1>1. /\ UNCHANGED <<execution, attempts, evidence, run, daemon, linked, seen, faults>>
      /\ pc \notin {"idle", "done", "gone"} /\ pc' = "gone"
  BY DEF CoordinatorStops, Goto
<1>2. execution \notin {"COMPLETED", "NONE"}
  BY <1>1, NotCompleted DEF RunInv, Places
<1>3. Ends /\ run \in Run
  BY <1>1, SameEnds, Types DEF RunInv
<1>4. TypeOK' /\ Places'
  BY <1>1, <1>2 DEF RunInv, TypeOK, Places, Trying, BeforeLaunch
<1>5. MemoryIsTrue'
  BY <1>1, <1>3, MemoryKeeps
<1> QED BY <1>1, <1>2, <1>3, <1>4, <1>5, DriveKeeps

(***************************************************************************)
(* A new attempt: the others are over, as the coordinator has seen to it.  *)
(***************************************************************************)
LEMMA CreateAttemptKeeps ==
  ASSUME RunInv, CreateAttempt
  PROVE  /\ RunInv' /\ Launched' = Launched
         /\ \A i \in DOMAIN attempts : Over(i)
         /\ Len(attempts') = Len(attempts) + 1 /\ DOMAIN attempts' = 1..(Len(attempts) + 1)
         /\ \A i \in DOMAIN attempts : attempts'[i] = attempts[i]
         /\ attempts'[Len(attempts) + 1].process = "none"
<1> DEFINE n == Len(attempts)
<1>1. /\ UNCHANGED <<execution, evidence, daemon, linked, faults>>
      /\ pc = "attempt" /\ pc' = "lease" /\ Written /\ n < MaxAttempts
      /\ attempts' = Append(attempts, NewAttempt)
      /\ run' = [NewRun EXCEPT !.current = n + 1]
  BY DEF CreateAttempt, Goto
<1>2. /\ attempts \in Seq(Attempt) /\ n \in Nat /\ DOMAIN attempts = 1..n /\ n + 1 \in 1..MaxAttempts
      /\ MaxAttempts \in Nat
  BY <1>1, Types DEF RunInv
<1>3. /\ NewAttempt \in Attempt /\ NewAttempt.process = "none" /\ NewAttempt.space = "none"
  BY DEF NewAttempt, Attempt, AttemptStatus
<1>4. /\ attempts' \in Seq(Attempt) /\ Len(attempts') = n + 1 /\ DOMAIN attempts' = 1..(n + 1)
      /\ \A i \in DOMAIN attempts : attempts'[i] = attempts[i]
      /\ attempts'[n + 1] = NewAttempt
  BY <1>1, <1>2, <1>3, AppendProperties
<1>5. /\ run' \in Run /\ run'.current = n + 1 /\ ~run'.terminal /\ ~run'.launched
      /\ ~run'.quarantined
  <2> HIDE DEF n
  <2>1. NewRun \in Run
    BY <1>2 DEF NewRun, Run
  <2>2. run' \in Run /\ run'.current = n + 1
    BY <1>1, <1>2, <2>1 DEF Run
  <2>3. /\ run'.terminal = NewRun.terminal /\ run'.launched = NewRun.launched
        /\ run'.quarantined = NewRun.quarantined
    BY <1>1, <2>1 DEF Run
  <2> QED BY <2>2, <2>3 DEF NewRun
<1> HIDE DEF n
<1>6. /\ seen' \in Seen /\ seen'.attempt = seen.attempt /\ seen'.execution = seen.execution
  BY <1>1, OutdatedIsTyped DEF RunInv
<1>7. TypeOK'
  BY <1>1, <1>2, <1>4, <1>5, <1>6 DEF RunInv, TypeOK, Trying
<1>8. execution \notin {"COMPLETED", "NONE"}
  BY <1>1, NotCompleted DEF RunInv, Places
<1>9. Places'
  BY <1>1, <1>2, <1>4, <1>5, <1>8 DEF Places, Trying, BeforeLaunch
<1>10. \A i \in DOMAIN attempts : Over(i)
  BY <1>1 DEF RunInv, EarlierAreOver
<1>11. EarlierAreOver'
  BY <1>1, <1>2, <1>4, <1>5, <1>10 DEF EarlierAreOver, Over, Dead
<1>12. MemoryIsTrue'
  BY <1>1, <1>3, <1>4, <1>5 DEF MemoryIsTrue
<1>13. CompletedIsWhole'
  BY <1>1, <1>8 DEF CompletedIsWhole
<1>14. StartupIsTrue' /\ SeenIsTrue'
  BY <1>1, <1>2, <1>4, SeenKeeps DEF n
<1>15. Launched' = Launched
  BY <1>2, <1>3, <1>4 DEF Launched, HadProcess
<1>16. HasLast'
  BY <1>15 DEF RunInv, HasLast
<1> QED BY <1>3, <1>4, <1>7, <1>9, <1>10, <1>11, <1>12, <1>13, <1>14, <1>15, <1>16 DEF RunInv, n

LEMMA PrepareWorkspaceKeeps ==
  ASSUME RunInv, PrepareWorkspace
  PROVE  /\ RunInv' /\ DOMAIN attempts' = DOMAIN attempts
         /\ \A i \in DOMAIN attempts : attempts'[i].process = attempts[i].process
<1> DEFINE i == run.current
<1>1. /\ UNCHANGED <<execution, evidence, daemon, linked, seen, faults>>
      /\ pc \in {"intent", "worktree"} /\ pc' \in {"worktree", "context"}
  BY DEF PrepareWorkspace, Goto
<1>2. i \in DOMAIN attempts /\ ~run.terminal /\ ~run.quarantined /\ attempts # << >>
      /\ ~run.launched
  BY <1>1, Driven DEF Trying, RunInv, Places, BeforeLaunch
<1>3. PICK space \in {"intent", "prepared"} :
        SetSpace(i, space) /\ (space = "prepared" => run'.prepared)
        /\ (run' = run \/ run' = [run EXCEPT !.prepared = TRUE])
  <2>1. CASE pc = "intent"
    BY <2>1 DEF PrepareWorkspace
  <2>2. CASE pc = "worktree"
    <3>1. run' = [run EXCEPT !.prepared = TRUE] /\ SetSpace(i, "prepared")
      BY <2>2 DEF PrepareWorkspace
    <3>2. run'.prepared
      BY <3>1, Types DEF RunInv, Run
    <3> QED BY <3>1, <3>2
  <2> QED BY <1>1, <2>1, <2>2
<1>4. /\ Only(i) /\ attempts'[i].space = space
      /\ attempts'[i].status = attempts[i].status /\ attempts'[i].process = attempts[i].process
  BY <1>2, <1>3, Types, SpaceWritten DEF RunInv
<1>5. /\ run' \in Run /\ run'.current = run.current /\ ~run'.terminal /\ ~run'.quarantined
      /\ run'.launched = run.launched
  BY <1>2, <1>3, Types DEF RunInv, Run
<1>6. execution \notin {"COMPLETED", "NONE"}
  BY <1>1, NotCompleted DEF RunInv, Places
<1>7. TypeOK'
  BY <1>1, <1>4, <1>5 DEF RunInv, TypeOK, Only, Trying
<1>8. Places'
  BY <1>1, <1>2, <1>4, <1>5, <1>6 DEF RunInv, Places, Trying, BeforeLaunch, Only
<1>9. EarlierAreOver'
  <2>1. \A j \in DOMAIN attempts : j # i => Over(j) /\ attempts'[j] = attempts[j]
    BY <1>4 DEF RunInv, EarlierAreOver, Only
  <2> QED BY <1>1, <1>4, <1>5, <2>1 DEF EarlierAreOver, Over, Dead, Only
<1>10. MemoryIsTrue'
  <2>1. attempts[i].process = "none"
    BY <1>2 DEF RunInv, MemoryIsTrue
  <2> QED BY <1>1, <1>3, <1>4, <1>5, <2>1 DEF MemoryIsTrue, Only
<1>11. /\ \A j \in DOMAIN attempts : /\ attempts'[j].process = attempts[j].process
                                    /\ attempts'[j].status = attempts[j].status
  BY <1>4 DEF Only
<1>12. StartupIsTrue' /\ SeenIsTrue'
  BY <1>1, <1>4, <1>11, SeenKeeps, Types DEF Only, RunInv
<1>13. HasLast'
  <2>1. Launched' = Launched
    BY <1>4, <1>11 DEF Launched, HadProcess, Only
  <2> QED BY <2>1 DEF RunInv, HasLast
<1>14. CompletedIsWhole'
  BY <1>1, <1>6 DEF CompletedIsWhole
<1> QED BY <1>4, <1>7, <1>8, <1>9, <1>10, <1>11, <1>12, <1>13, <1>14 DEF RunInv, Only

(***************************************************************************)
(* An agent is started for the last attempt, which had none, and no other  *)
(* agent is alive.                                                         *)
(***************************************************************************)
LEMMA LaunchKeeps ==
  ASSUME RunInv, Launch
  PROVE  /\ RunInv' /\ DOMAIN attempts' = DOMAIN attempts
         /\ \/ Ends
            \/ /\ run.current = Len(attempts) /\ run.current \in DOMAIN attempts
               /\ \A i \in DOMAIN attempts : Dead(i)
               /\ ~HadProcess(run.current) /\ attempts'[run.current].process = "running"
               /\ \A i \in DOMAIN attempts : i # run.current => attempts'[i] = attempts[i]
<1> DEFINE i == run.current
<1>1. /\ UNCHANGED <<execution, evidence, daemon, linked, seen, faults>>
      /\ pc = "launch" /\ pc' \in {"stream", "cancel"}
      /\ run' = [run EXCEPT !.launched = TRUE]
  BY DEF Launch, Goto
<1>2. i \in DOMAIN attempts /\ ~run.terminal /\ ~run.quarantined /\ attempts # << >>
      /\ ~run.launched /\ i = Len(attempts)
  BY <1>1, Driven DEF Trying, RunInv, Places, BeforeLaunch
<1>3. /\ run' \in Run /\ run'.current = run.current /\ ~run'.terminal /\ ~run'.quarantined
      /\ run'.launched /\ run'.prepared = run.prepared
  BY <1>1, <1>2, Types DEF RunInv, Run
<1>4. execution \notin {"COMPLETED", "NONE"}
  BY <1>1, NotCompleted DEF RunInv, Places
<1>5. CASE UNCHANGED attempts
  <2>1. Ends
    BY <1>5, SameEnds DEF RunInv
  <2>2. TypeOK' /\ Places'
    BY <1>1, <1>2, <1>3, <1>4, <1>5 DEF RunInv, TypeOK, Places, Trying, BeforeLaunch
  <2>3. MemoryIsTrue'
    BY <1>1, <1>3, <2>1, MemoryKeeps
  <2> QED BY <1>1, <1>3, <1>4, <1>5, <2>1, <2>2, <2>3, DriveKeeps
<1>6. CASE SetProcess(i, "running")
  <2>1. /\ Only(i) /\ attempts'[i].process = "running"
        /\ attempts'[i].status = attempts[i].status /\ attempts'[i].space = attempts[i].space
    BY <1>2, <1>6, Types, ProcessWritten DEF RunInv
  <2>2. /\ attempts[i].process = "none" /\ Dead(i)
        /\ attempts[i].space = "prepared" => run.prepared
    BY <1>2 DEF RunInv, MemoryIsTrue, Dead
  <2>3. \A j \in DOMAIN attempts : j # i => Over(j) /\ attempts'[j] = attempts[j]
    BY <2>1 DEF RunInv, EarlierAreOver, Only
  <2>4. TypeOK'
    BY <1>1, <1>3, <2>1 DEF RunInv, TypeOK, Only, Trying
  <2>5. Places'
    BY <1>1, <1>2, <1>3, <1>4, <2>1 DEF RunInv, Places, Trying, BeforeLaunch, Only
  <2>6. EarlierAreOver'
    BY <1>1, <1>3, <2>1, <2>3 DEF EarlierAreOver, Over, Dead, Only
  <2>7. MemoryIsTrue'
    BY <1>1, <1>3, <2>1, <2>2 DEF MemoryIsTrue, Only
  <2>8. StartupIsTrue' /\ SeenIsTrue'
    BY <1>1, <2>1, SeenKeeps, Types DEF Only, RunInv
  <2>9. HasLast'
    <3>1. Len(attempts) \in Launched' /\ \A j \in Launched' : j <= Len(attempts)
      BY <1>2, <2>1, Types DEF Launched, HadProcess, Only, RunInv
    <3> QED BY <3>1, <2>1 DEF HasLast, Only
  <2>10. CompletedIsWhole'
    BY <1>1, <1>4 DEF CompletedIsWhole
  <2> QED BY <1>2, <2>1, <2>2, <2>3, <2>4, <2>5, <2>6, <2>7, <2>8, <2>9, <2>10
          DEF RunInv, Only, Over, HadProcess
<1> QED BY <1>5, <1>6 DEF Launch

LEMMA CompleteKeeps ==
  ASSUME RunInv, Complete
  PROVE  RunInv' /\ Ends
<1> DEFINE i == run.current
<1>1. /\ UNCHANGED <<evidence, run, daemon, linked, faults>>
      /\ pc = "complete" /\ pc' = "done" /\ execution = "RUNNING" /\ execution' = "COMPLETED"
      /\ attempts' = [attempts EXCEPT ![i].status = "SUCCEEDED"]
      /\ Written /\ attempts[i].status = "VERIFYING"
  BY DEF Complete, Completable, Goto
<1>2. i \in DOMAIN attempts /\ i = Len(attempts)
  BY <1>1, Driven DEF Trying, RunInv, Places
<1>3. /\ Only(i) /\ attempts'[i].status = "SUCCEEDED"
      /\ attempts'[i].space = attempts[i].space /\ attempts'[i].process = attempts[i].process
  <2>1. "SUCCEEDED" \in AttemptStatus
    BY DEF AttemptStatus
  <2> QED BY <1>1, <1>2, <2>1, Types, StatusWritten DEF RunInv
<1>4. Ends
  BY <1>1, <1>2, <1>3, OnlyEnds DEF TerminalAttempt
<1>5. TypeOK'
  BY <1>1, <1>3, OutdatedIsTyped DEF RunInv, TypeOK, Only, ExecutionStatus
<1>6. Places'
  BY <1>1, <1>3 DEF RunInv, Places, Trying, BeforeLaunch, Only
<1>7. EarlierAreOver'
  <2>1. \A j \in DOMAIN attempts : j # i => Over(j)
    BY DEF RunInv, EarlierAreOver
  <2> QED BY <1>1, <1>4, <2>1, EndsKeepsOver DEF EarlierAreOver, Ends
<1>8. MemoryIsTrue'
  BY <1>1, <1>4, MemoryKeeps, Types DEF RunInv
<1>9. attempts[i].process = "exited"
  BY <1>1, <1>2 DEF RunInv, MemoryIsTrue
<1>10. CompletedIsWhole'
  <2>1. \A j \in DOMAIN attempts : Dead(j)' /\ attempts'[j].status \in TerminalAttempt
    BY <1>3, <1>9 DEF RunInv, EarlierAreOver, Over, Dead, Only, TerminalAttempt
  <2>2. attempts' # << >> /\ attempts'[Len(attempts')].status = "SUCCEEDED"
    BY <1>2, <1>3 DEF Only
  <2> QED BY <1>1, <1>3, <2>1, <2>2 DEF CompletedIsWhole, Only
<1>11. StartupIsTrue' /\ SeenIsTrue'
  BY <1>1, <1>3, SeenKeeps, Types DEF Only, RunInv, TerminalExecution
<1>12. HasLast'
  BY <1>4, EndsKeepsLast DEF RunInv
<1> QED BY <1>4, <1>5, <1>6, <1>7, <1>8, <1>10, <1>11, <1>12 DEF RunInv

-----------------------------------------------------------------------------
LEMMA RunInvInit == Init => RunInv
<1> SUFFICES ASSUME Init PROVE RunInv
  OBVIOUS
<1>1. /\ MaxAttempts \in Nat /\ MaxFaults \in Nat /\ attempts = << >> /\ Len(attempts) = 0
      /\ DOMAIN attempts = {}
  BY Constants DEF Init
<1>2. NewRun \in Run /\ NewRun.current = 0
  BY <1>1 DEF NewRun, Run
<1>3. seen \in Seen /\ seen.attempt = 0 /\ seen.execution = "NONE" /\ ~seen.fresh
  BY <1>1 DEF Init, Seen, AttemptStatus
<1>4. TypeOK
  <2>1. attempts \in Seq(Attempt) /\ Len(attempts) <= MaxAttempts /\ faults \in 0..MaxFaults
    BY <1>1, EmptySeq DEF Init
  <2> QED BY <1>2, <1>3, <2>1 DEF Init, TypeOK
<1>5. Places
  BY <1>1, <1>2 DEF Init, Places, Trying, BeforeLaunch
<1>6. StartupIsTrue /\ SeenIsTrue
  BY <1>1, <1>3 DEF Init, StartupIsTrue, SeenIsTrue, TerminalExecution
<1>7. EarlierAreOver /\ MemoryIsTrue /\ CompletedIsWhole /\ HasLast
  BY <1>1 DEF Init, EarlierAreOver, MemoryIsTrue, CompletedIsWhole, HasLast, Launched
<1> QED BY <1>4, <1>5, <1>6, <1>7 DEF RunInv

(***************************************************************************)
(* Every step but three ends things only.                                  *)
(***************************************************************************)
LEMMA Steps ==
  ASSUME RunInv, Next
  PROVE  /\ RunInv'
         /\ Ends \/ CreateAttempt \/ PrepareWorkspace \/ Launch
<1>1. CASE StartUp \/ AgentExits \/ DaemonDies
  BY <1>1, StartUpKeeps
<1>2. CASE Coordinate
  BY <1>2, CreateExecutionKeeps, EnterKeeps, CreateAttemptKeeps, AdvanceKeeps,
     PrepareWorkspaceKeeps, LaunchKeeps, StreamEndsKeeps, CompleteKeeps, FailsKeeps, CancelKeeps,
     QuarantineKeeps, FailAttemptKeeps, DecideKeeps, RecordFailureKeeps DEF Coordinate
<1>3. CASE CoordinatorStops
  BY <1>3, StopKeeps
<1> QED BY <1>1, <1>2, <1>3 DEF Next

LEMMA IdleKeeps ==
  ASSUME RunInv, UNCHANGED vars
  PROVE  RunInv'
BY DEF vars, RunInv, TypeOK, Places, EarlierAreOver, MemoryIsTrue, CompletedIsWhole, StartupIsTrue,
       SeenIsTrue, HasLast, Launched, HadProcess, Over, Dead

LEMMA SpecKeepsRunInv == Spec => []RunInv
<1>1. RunInv /\ [Next]_vars => RunInv'
  BY Steps, IdleKeeps
<1> QED BY <1>1, RunInvInit, PTL DEF Spec

-----------------------------------------------------------------------------
(* The slot. *)

AliveOnes == {i \in DOMAIN attempts : Alive(i)}

LEMMA LastOfIs ==
  ASSUME NEW S \in SUBSET Nat, NEW m \in S, \A j \in S : j <= m
  PROVE  LastOf(S) = m
<1>1. \A i \in S : (\A j \in S : j <= i) => i = m
  OBVIOUS
<1> QED BY <1>1 DEF LastOf

LEMMA LastOfNone == LastOf({}) = 0
BY DEF LastOf

LEMMA OneIsAlive ==
  ASSUME RunInv
  PROVE  AliveOnes \subseteq {run.current} /\ AliveOnes \subseteq Nat \ {0}
         /\ Launched \subseteq 1..Len(attempts) /\ Len(attempts) \in Nat
<1>1. \A i \in DOMAIN attempts : Alive(i) => i = run.current
  BY DEF RunInv, EarlierAreOver, Over, Dead, Alive
<1> QED BY <1>1, Types DEF AliveOnes, Launched, RunInv

LEMMA QuietSlot ==
  ASSUME RunInv, RunInv', AliveOnes' \subseteq AliveOnes, Launched' = Launched
  PROVE  [Slot!Next]_(Slot!vars)
<1>1. CASE AliveOnes' = AliveOnes
  BY <1>1 DEF Slot!vars, AliveOnes, Launched
<1>2. CASE AliveOnes' # AliveOnes
  <2>1. AliveOnes = {run.current} /\ AliveOnes' = {} /\ run.current \in Nat \ {0}
    BY <1>2, OneIsAlive
  <2>2. LastOf(AliveOnes) # 0 /\ LastOf(AliveOnes') = 0
    BY <2>1, LastOfIs, LastOfNone
  <2>3. LastOf(Launched') = LastOf(Launched)
    OBVIOUS
  <2> QED BY <2>2, <2>3 DEF Slot!Next, Slot!End, AliveOnes, Launched
<1> QED BY <1>1, <1>2

LEMMA LaunchSlot ==
  ASSUME RunInv, DOMAIN attempts' = DOMAIN attempts,
         run.current = Len(attempts), run.current \in DOMAIN attempts,
         \A i \in DOMAIN attempts : Dead(i),
         ~HadProcess(run.current), attempts'[run.current].process = "running",
         \A i \in DOMAIN attempts : i # run.current => attempts'[i] = attempts[i]
  PROVE  [Slot!Next]_(Slot!vars)
<1> DEFINE n == Len(attempts)
           before == AliveOnes
           after == AliveOnes'
           used == Launched
           usedAfter == Launched'
<1>1. n \in 1..MaxAttempts /\ used \subseteq 1..n /\ n \in Nat
  BY OneIsAlive, Types DEF RunInv
<1>2. before = {}
  BY DEF AliveOnes, Alive, Dead
<1>3. after = {n}
  BY DEF AliveOnes, Alive, Dead
<1>4. usedAfter = used \cup {n} /\ n \notin used
  BY DEF Launched, HadProcess
<1>5. used # {} => \E m \in used : \A j \in used : j <= m
  BY DEF RunInv, HasLast
<1> HIDE DEF before, after, used, usedAfter
<1>6. LastOf(before) = 0 /\ LastOf(after) = n
  BY <1>1, <1>2, <1>3, LastOfIs, LastOfNone
<1>7. LastOf(usedAfter) = n
  BY <1>1, <1>4, LastOfIs
<1>8. LastOf(used) < n
  <2>1. CASE used = {}
    BY <1>1, <2>1, LastOfNone
  <2>2. CASE used # {}
    <3>1. PICK m \in used : \A j \in used : j <= m
      BY <1>5, <2>2
    <3>2. LastOf(used) = m
      BY <1>1, <3>1, LastOfIs
    <3> QED BY <1>1, <1>4, <3>2
  <2> QED BY <2>1, <2>2
<1> HIDE DEF n
<1>9. \E k \in 1..MaxAttempts :
        /\ LastOf(before) = 0 /\ LastOf(used) < k
        /\ LastOf(after) = k /\ LastOf(usedAfter) = k
  BY <1>1, <1>6, <1>7, <1>8
<1> QED BY <1>9 DEF Slot!Next, Slot!Start, before, after, used, usedAfter, AliveOnes, Launched

LEMMA SlotNext ==
  ASSUME RunInv, RunInv', [Next]_vars
  PROVE  [Slot!Next]_(Slot!vars)
<1>1. CASE Ends
  <2>1. AliveOnes' \subseteq AliveOnes
    <3> SUFFICES ASSUME NEW i \in DOMAIN attempts, Alive(i)' PROVE Alive(i)
      BY <1>1 DEF AliveOnes, Ends
    <3>1. attempts[i].process \in {"none", "running", "unproven", "exited"}
      BY Types DEF RunInv, Attempt
    <3> QED BY <1>1, <3>1 DEF Ends, Alive
  <2> QED BY <1>1, <2>1, QuietSlot, EndsKeepsLast DEF RunInv
<1>2. CASE CreateAttempt
  <2>1. Launched' = Launched
    BY <1>2, CreateAttemptKeeps
  <2>2. AliveOnes' \subseteq AliveOnes
    BY <1>2, CreateAttemptKeeps, Types DEF AliveOnes, Alive, RunInv
  <2> QED BY <2>1, <2>2, QuietSlot
<1>3. CASE PrepareWorkspace
  <2>1. Launched' = Launched /\ AliveOnes' = AliveOnes
    BY <1>3, PrepareWorkspaceKeeps DEF Launched, HadProcess, AliveOnes, Alive
  <2> QED BY <2>1, QuietSlot
<1>4. CASE Launch /\ ~Ends
  BY <1>4, LaunchKeeps, LaunchSlot
<1>5. CASE UNCHANGED vars
  BY <1>5 DEF vars, Slot!vars, Alive, HadProcess
<1> QED BY <1>1, <1>2, <1>3, <1>4, <1>5, Steps

-----------------------------------------------------------------------------
(***************************************************************************)
(* The variables keep their types: the coordinator makes no more attempts  *)
(* than its budget allows (execution-bus.ts), and neither it nor a startup *)
(* puts an execution or an attempt into a state that there is not.         *)
(***************************************************************************)
THEOREM RunIsTyped == Spec => []TypeOK
<1>1. RunInv => TypeOK
  BY DEF RunInv
<1> QED BY <1>1, SpecKeepsRunInv, PTL

(***************************************************************************)
(* The run implements AgentSlot: at any time at most one attempt has an    *)
(* agent, and each had one once at most, whatever crashes and whoever else *)
(* ends the execution (SingleAgentCoordinator.run,                         *)
(* StartupReconciliationWorker.reconcile).                                 *)
(***************************************************************************)
THEOREM RunImplementsSlot == Spec => OneAgent
<1>1. Init => Slot!Init
  BY LastOfNone DEF Init, Slot!Init
<1>2. RunInv /\ RunInv' /\ [Next]_vars => [Slot!Next]_(Slot!vars)
  BY SlotNext
<1> QED BY <1>1, <1>2, SpecKeepsRunInv, PTL DEF Spec, OneAgent, Slot!Spec

(***************************************************************************)
(* A new attempt is made only when the worktree of every earlier one is    *)
(* out of the way (handleRunFailure, its condition for a retry).           *)
(***************************************************************************)
THEOREM RetriesAreIsolated == Spec => RetryIsolated
<1> DEFINE New == DOMAIN attempts' \ DOMAIN attempts
           Clean == \A n \in New, i \in DOMAIN attempts : attempts[i].space # "prepared"
<1>1. RunInv /\ [Next]_vars => Clean
  <2> SUFFICES ASSUME RunInv, [Next]_vars PROVE Clean
    OBVIOUS
  <2>1. CASE CreateAttempt
    BY <2>1, CreateAttemptKeeps DEF Over
  <2>2. CASE DOMAIN attempts' = DOMAIN attempts
    BY <2>2
  <2> QED BY <2>1, <2>2, Steps, PrepareWorkspaceKeeps, LaunchKeeps DEF Ends, vars
<1>2. RunInv /\ [Next]_vars => [Clean]_vars
  BY <1>1
<1> QED BY <1>2, SpecKeepsRunInv, PTL DEF Spec, RetryIsolated

LEMMA InterruptedByStartup ==
  ASSUME RunInv, [Next]_vars, execution # "INTERRUPTED", execution' = "INTERRUPTED"
  PROVE  EndExecution
<1>1. ASSUME NEW s \in ExecutionStatus, s # "INTERRUPTED", MoveExecution(s) PROVE FALSE
  BY <1>1 DEF MoveExecution
<1>2. {"QUEUED", "PREPARING", "RUNNING", "FAILED"} \subseteq ExecutionStatus
  BY DEF ExecutionStatus
<1>3. ~Coordinate
  BY <1>1, <1>2 DEF Coordinate, CreateExecution, Enter, StayRunning, CreateAttempt, Advance,
     PrepareWorkspace, Launch, Started, StreamEnds, Complete, Fails, Cancel, Quarantine,
     FailAttempt, Decide, RecordFailure
<1> QED BY <1>3 DEF Next, vars, StartUp, AgentExits, CoordinatorStops, DaemonDies, StartDaemon,
        Look, KillTree, QuarantineOrphan, RecordRecovery, EndAttempt, Sweep

LEMMA ReadyAfterSweep ==
  ASSUME TypeOK, [Next]_vars, daemon # "ready", daemon' = "ready"
  PROVE  Sweep
<1>1. ~Coordinate
  BY DEF Coordinate, CreateExecution, Enter, StayRunning, CreateAttempt, Advance,
     PrepareWorkspace, Launch, Started, StreamEnds, Complete, Fails, Cancel, Quarantine,
     FailAttempt, Decide, RecordFailure
<1>2. ~Look
  BY DEF Look, Daemon, TypeOK
<1> QED BY <1>1, <1>2 DEF Next, vars, StartUp, AgentExits, CoordinatorStops, DaemonDies, StartDaemon,
        KillTree, QuarantineOrphan, RecordRecovery, EndAttempt, EndExecution, Daemon, Abandon

(***************************************************************************)
(* A completed execution succeeded in its last attempt, all others are     *)
(* over and no agent is left; one that a startup interrupts has its        *)
(* failure on record and no open attempt; a daemon is ready only when the  *)
(* proven processes of an earlier one are gone (execution-bus.ts,          *)
(* CompleteExecution; reconciliation-worker.ts).                           *)
(***************************************************************************)
THEOREM RunsEndWhole == Spec => EndedWhole
<1> DEFINE Whole ==
             /\ execution' = "COMPLETED" =>
                  /\ attempts'[Len(attempts')].status = "SUCCEEDED"
                  /\ \A i \in DOMAIN attempts' :
                       attempts'[i].status \in TerminalAttempt /\ attempts'[i].process # "running"
             /\ execution # "INTERRUPTED" /\ execution' = "INTERRUPTED" =>
                  /\ "startup" \in evidence
                  /\ \A i \in DOMAIN attempts : attempts[i].status \in TerminalAttempt
             /\ daemon # "ready" /\ daemon' = "ready" =>
                  \A i \in DOMAIN attempts' : attempts'[i].process # "running"
<1>1. RunInv /\ RunInv' /\ [Next]_vars => Whole
  <2> SUFFICES ASSUME RunInv, RunInv', [Next]_vars PROVE Whole
    OBVIOUS
  <2>1. execution' = "COMPLETED" =>
          /\ attempts'[Len(attempts')].status = "SUCCEEDED"
          /\ \A i \in DOMAIN attempts' :
               attempts'[i].status \in TerminalAttempt /\ attempts'[i].process # "running"
    BY DEF RunInv, CompletedIsWhole, Dead
  <2>2. execution # "INTERRUPTED" /\ execution' = "INTERRUPTED" =>
          /\ "startup" \in evidence
          /\ \A i \in DOMAIN attempts : attempts[i].status \in TerminalAttempt
    BY InterruptedByStartup, EndExecutionKeeps
  <2>3. daemon # "ready" /\ daemon' = "ready" =>
          \A i \in DOMAIN attempts' : attempts'[i].process # "running"
    BY ReadyAfterSweep, SweepKeeps DEF RunInv
  <2> QED BY <2>1, <2>2, <2>3
<1>2. RunInv /\ RunInv' /\ [Next]_vars => [Whole]_vars
  BY <1>1
<1> QED BY <1>2, SpecKeepsRunInv, PTL DEF Spec, EndedWhole
=============================================================================
