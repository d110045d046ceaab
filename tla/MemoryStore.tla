---------------------------- MODULE MemoryStore ----------------------------
(***************************************************************************)
(* The memory store of phase 6 and the ways out of it: the records, their  *)
(* revisions and tombstones in SqliteMemoryStore                           *)
(* (src/oef/phase6/persistence/sqlite-store.ts), the forgetting service    *)
(* with its deletion jobs (governance/operations.ts) and the vector index  *)
(* that is rebuilt from the records (indexing/local-vector-index.ts).      *)
(*                                                                         *)
(* Several processes work on one database.  A method of the store is one   *)
(* transaction, so one action; what a process has read stays with it from  *)
(* one action to the next.  A deletion job has one process at a time       *)
(* working on it: forget begins it, and whoever calls reconcile takes it   *)
(* up when that process has failed or died.  LEGAL_DELETE stands for       *)
(* SECRET_PURGE as well, which is handled the same way.  Each revision is  *)
(* taken to name one artifact file of its own among its sources.           *)
(***************************************************************************)
EXTENDS Naturals, FiniteSets

CONSTANTS
  Memory,       \* memory ids
  Deletion,     \* deletion jobs
  None,         \* no snapshot
  MaxRevision,  \* bound: revisions of a memory
  MaxMishaps    \* bound: failures and deaths of deletion runs

ASSUME MemoryConstants == MaxRevision \in Nat \ {0} /\ MaxMishaps \in Nat

VARIABLES
  record,     \* [Memory -> revisions written, record and revisions are kept,
              \*            references the current revision derives from]
  tombstone,  \* [Memory -> mode of its tombstone]
  files,      \* artifact files on disk, by the revision that names them
  deletion,   \* [Deletion -> the job on record]
  stage,      \* [Deletion -> what the process at work on it does next]
  todo,       \* [Deletion -> memories that this process has still to do]
  glance,     \* the record a process read before it corrects or forgets it
  indexed,    \* revisions in the active generation of the vector index
  snapshot,   \* revisions a rebuild of the index has read, or None
  mishaps     \* failures and deaths so far

memory == <<record, tombstone, files, deletion, stage, todo, glance, indexed,
            snapshot, mishaps>>

\* A derived_from reference names a memory, as <<m, 0>>, or a revision of it.
Ref == Memory \X (0..MaxRevision)

Mode == {"NONE", "SOFT_FORGET", "HARD_DELETE", "LEGAL_DELETE"}

Stage == {"IDLE", "PURGE", "VERIFY", "INDEX", "FORGET", "CLOSURE", "COMPLETE"}

NoDeletion == [status |-> "NONE", memories |-> {}, revisions |-> {},
               verified |-> FALSE, deleted |-> {}]

MemoryTypeOK ==
  /\ record \in [Memory -> [rev : 0..MaxRevision, kept : BOOLEAN, from : SUBSET Ref]]
  /\ tombstone \in [Memory -> Mode]
  /\ files \subseteq Ref /\ indexed \subseteq Ref
  /\ deletion \in [Deletion ->
       [status : {"NONE", "PREPARED", "ARTIFACTS_VERIFIED", "COMPLETED", "FAILED"},
        memories : SUBSET Memory, revisions : SUBSET Ref,
        verified : BOOLEAN, deleted : SUBSET Memory]]
  /\ stage \in [Deletion -> Stage]
  /\ todo \in [Deletion -> SUBSET Memory]
  /\ glance \in (Memory \X (1..MaxRevision)) \cup {None}
  /\ snapshot \in (SUBSET Ref) \cup {None}
  /\ mishaps \in 0..MaxMishaps

MemoryInit ==
  /\ record = [m \in Memory |-> [rev |-> 0, kept |-> FALSE, from |-> {}]]
  /\ tombstone = [m \in Memory |-> "NONE"]
  /\ files = {} /\ indexed = {}
  /\ deletion = [d \in Deletion |-> NoDeletion]
  /\ stage = [d \in Deletion |-> "IDLE"]
  /\ todo = [d \in Deletion |-> {}]
  /\ glance = None /\ snapshot = None
  /\ mishaps = 0

-----------------------------------------------------------------------------
(* Records. *)

Kept(m) == record[m].kept

Current(m) == <<m, record[m].rev>>

Revisions(m) == {<<m, n>> : n \in 1..record[m].rev}

Names(M) == UNION {Revisions(m) \cup {<<m, 0>>} : m \in M}

\* What the fences of a deletion job keep from being derived from.
Fence(d) == deletion[d].revisions \cup {<<m, 0>> : m \in deletion[d].memories}

\* Bug: the fence falls when its job has completed.
FencedUntilDone(r) ==
  \E d \in Deletion : r \in Fence(d) /\ deletion[d].status # "COMPLETED"

Fenced(r) == \E d \in Deletion : r \in Fence(d)

\* What a record may name as its sources: something that was on record.
Sources(m) ==
  {{}} \cup {{r} : r \in {q \in Ref : /\ q[1] # m /\ record[q[1]].rev > 0
                                    /\ q[2] <= record[q[1]].rev}}

Allowed(from) ==
  \A r \in from :
    /\ ~Fenced(r)
    /\ ~(r[2] = 0 /\ tombstone[r[1]] = "LEGAL_DELETE")

\* Bug: only the records that are kept stand in the way of a new one.
CreatableAgain(m, from) == ~Kept(m) /\ Allowed(from)

Creatable(m, from) == tombstone[m] = "NONE" /\ ~Kept(m) /\ Allowed(from)

\* insertCurrent
Insert(m, n, from) ==
  /\ record' = [record EXCEPT ![m] = [rev |-> n, kept |-> TRUE, from |-> from]]
  /\ files' = files \cup {<<m, n>>}

Create(m, from) ==
  /\ Creatable(m, from) /\ record[m].rev < MaxRevision
  /\ Insert(m, record[m].rev + 1, from)
  /\ UNCHANGED <<tombstone, deletion, stage, todo, glance, indexed, snapshot, mishaps>>

\* A process reads a record it is going to correct or to forget.
Look(m) ==
  /\ glance = None /\ Kept(m)
  /\ glance' = Current(m)
  /\ UNCHANGED <<record, tombstone, files, deletion, stage, todo, indexed,
                 snapshot, mishaps>>

\* The process goes away, or its command is refused.
LookAway ==
  /\ glance # None
  /\ glance' = None
  /\ UNCHANGED <<record, tombstone, files, deletion, stage, todo, indexed,
                 snapshot, mishaps>>

\* appendRevision
Correct(from) ==
  /\ glance # None /\ glance[2] < MaxRevision
  /\ LET m == glance[1] IN
     /\ tombstone[m] = "NONE" /\ Kept(m) /\ Current(m) = glance
     /\ from \in Sources(m) \cup {record[m].from}
     /\ Allowed(from)
     /\ Insert(m, glance[2] + 1, from)
  /\ glance' = None
  /\ UNCHANGED <<tombstone, deletion, stage, todo, indexed, snapshot, mishaps>>

Entomb(m, mode) == tombstone' = [tombstone EXCEPT ![m] = mode]

SoftForget ==
  /\ glance # None
  /\ Entomb(glance[1], "SOFT_FORGET")
  /\ glance' = None
  /\ UNCHANGED <<record, files, deletion, stage, todo, indexed, snapshot, mishaps>>

IndexedWithout(m) == {r \in indexed : r[1] # m}

\* The record goes with its revisions and whatever the database derived from it.
Delete(m, mode) ==
  /\ record' = [record EXCEPT ![m] = [rev |-> @.rev, kept |-> FALSE, from |-> {}]]
  /\ indexed' = IndexedWithout(m)
  /\ Entomb(m, mode)

HardForget ==
  /\ glance # None
  /\ Delete(glance[1], "HARD_DELETE")
  /\ glance' = None
  /\ UNCHANGED <<files, deletion, stage, todo, snapshot, mishaps>>

-----------------------------------------------------------------------------
(* Legal deletion. *)

FollowsSources(M) ==
  \A m \in Memory : Kept(m) /\ record[m].from \cap Names(M) # {} => m \in M

\* Bug: of what derives from the root only the root itself is planned.
RootOnly(root) == {root}

\* The root with all that derives from it, directly or not.
Planned(root) ==
  {m \in Memory : \A M \in SUBSET Memory : root \in M /\ FollowsSources(M) => m \in M}

\* forget plans and fences in one transaction, unless another job has a fence there.
Prepare(d, root) ==
  /\ deletion[d].status = "NONE" /\ Kept(root)
  /\ LET M == Planned(root) IN
     /\ \A e \in Deletion : Fence(e) \cap Names(M) = {}
     /\ deletion' = [deletion EXCEPT ![d] =
          [status |-> "PREPARED", memories |-> M, revisions |-> UNION {Revisions(m) : m \in M},
           verified |-> FALSE, deleted |-> {}]]
  /\ stage' = [stage EXCEPT ![d] = "PURGE"]
  /\ UNCHANGED <<record, tombstone, files, todo, glance, indexed, snapshot, mishaps>>

Advance(d, from, to) == stage[d] = from /\ stage' = [stage EXCEPT ![d] = to]

PurgeArtifacts(d) ==
  /\ Advance(d, "PURGE", "VERIFY")
  /\ files' = files \ deletion[d].revisions
  /\ UNCHANGED <<record, tombstone, deletion, todo, glance, indexed, snapshot, mishaps>>

VerifyArtifacts(d) ==
  /\ Advance(d, "VERIFY", "INDEX")
  /\ deletion' = [deletion EXCEPT ![d].status = "ARTIFACTS_VERIFIED", ![d].verified = TRUE]
  /\ UNCHANGED <<record, tombstone, files, todo, glance, indexed, snapshot, mishaps>>

PurgeIndex(d) ==
  /\ Advance(d, "INDEX", "FORGET")
  /\ indexed' = {r \in indexed : r[1] \notin deletion[d].memories}
  /\ todo' = [todo EXCEPT ![d] = deletion[d].memories]
  /\ UNCHANGED <<record, tombstone, files, deletion, glance, snapshot, mishaps>>

ForgetPlanned(d, m) ==
  /\ stage[d] = "FORGET" /\ m \in todo[d] /\ Kept(m)
  /\ Delete(m, "LEGAL_DELETE")
  /\ UNCHANGED <<files, deletion, stage, todo, glance, snapshot, mishaps>>

RecordProgress(d, m) ==
  /\ stage[d] = "FORGET" /\ m \in todo[d] /\ ~Kept(m)
  /\ deletion' = [deletion EXCEPT ![d].deleted = @ \cup {m}]
  /\ todo' = [todo EXCEPT ![d] = @ \ {m}]
  /\ stage' = [stage EXCEPT ![d] = IF todo[d] = {m} THEN "CLOSURE" ELSE @]
  /\ UNCHANGED <<record, tombstone, files, glance, indexed, snapshot, mishaps>>

\* Nothing that was planned is there, and nothing there derives from it.
ClosureComplete(d) ==
  \A m \in Memory :
    Kept(m) => m \notin deletion[d].memories /\ record[m].from \cap Fence(d) = {}

CheckClosure(d) ==
  /\ ClosureComplete(d)
  /\ Advance(d, "CLOSURE", "COMPLETE")
  /\ UNCHANGED <<record, tombstone, files, deletion, todo, glance, indexed, snapshot, mishaps>>

Complete(d) ==
  /\ deletion[d].deleted = deletion[d].memories
  /\ Advance(d, "COMPLETE", "IDLE")
  /\ deletion' = [deletion EXCEPT ![d].status = "COMPLETED"]
  /\ UNCHANGED <<record, tombstone, files, todo, glance, indexed, snapshot, mishaps>>

Mishap(d) ==
  /\ stage[d] # "IDLE" /\ mishaps < MaxMishaps
  /\ stage' = [stage EXCEPT ![d] = "IDLE"]
  /\ todo' = [todo EXCEPT ![d] = {}]
  /\ mishaps' = mishaps + 1
  /\ UNCHANGED <<record, tombstone, files, glance, indexed, snapshot>>

\* A step throws: an artifact is not resolved, a file or the database is busy.
DeletionFails(d) ==
  Mishap(d) /\ deletion' = [deletion EXCEPT ![d].status = "FAILED"]

DeleterDies(d) == Mishap(d) /\ UNCHANGED deletion

ArtifactsDone(d) ==
  \/ deletion[d].status = "ARTIFACTS_VERIFIED"
  \/ deletion[d].status = "FAILED" /\ deletion[d].verified

\* reconcile, by a process that may come at any time: nothing in src/ calls it.
Reconcile(d) ==
  /\ stage[d] = "IDLE" /\ deletion[d].status \notin {"NONE", "COMPLETED"}
  /\ stage' = [stage EXCEPT ![d] = IF ArtifactsDone(d) THEN "INDEX" ELSE "PURGE"]
  /\ deletion' = [deletion EXCEPT ![d].status =
                    IF ArtifactsDone(d) THEN "ARTIFACTS_VERIFIED" ELSE @]
  /\ UNCHANGED <<record, tombstone, files, todo, glance, indexed, snapshot, mishaps>>

-----------------------------------------------------------------------------
(* The vector index. *)

Indexable == {Current(m) : m \in {x \in Memory : Kept(x) /\ tombstone[x] # "SOFT_FORGET"}}

RebuildReads ==
  /\ snapshot = None
  /\ snapshot' = Indexable
  /\ UNCHANGED <<record, tombstone, files, deletion, stage, todo, glance, indexed, mishaps>>

\* Bug: the new generation is activated whatever has changed since.
StillIndexable == TRUE

Unchanged == snapshot = Indexable

\* The embeddings are awaited; the new generation is activated only if the
\* records are still those that were read.
RebuildEnds ==
  /\ snapshot # None
  /\ indexed' = IF Unchanged THEN snapshot ELSE indexed
  /\ snapshot' = None
  /\ UNCHANGED <<record, tombstone, files, deletion, stage, todo, glance, mishaps>>

Curate ==
  \/ \E m \in Memory : Look(m)
  \/ \E m \in Memory : \E from \in Sources(m) : Correct(from)
  \/ LookAway \/ SoftForget \/ HardForget

Erase(d) ==
  \/ PurgeArtifacts(d) \/ VerifyArtifacts(d) \/ PurgeIndex(d)
  \/ \E m \in Memory : (ForgetPlanned(d, m) \/ RecordProgress(d, m))
  \/ CheckClosure(d) \/ Complete(d) \/ Reconcile(d)

MemoryNext ==
  \/ \E m \in Memory : \E from \in Sources(m) : Create(m, from)
  \/ Curate
  \/ RebuildReads \/ RebuildEnds
  \/ \E d \in Deletion :
       \/ \E m \in Memory : Prepare(d, m)
       \/ Erase(d) \/ DeletionFails(d) \/ DeleterDies(d)

MemorySpec ==
  /\ MemoryInit /\ [][MemoryNext]_memory
  /\ \A d \in Deletion : WF_memory(Erase(d))

-----------------------------------------------------------------------------
(***************************************************************************)
(* A memory that was forgotten or deleted does not come back under its id, *)
(* and is not corrected either, whoever retries, is late or looked at it   *)
(* before.                                                                 *)
(***************************************************************************)
DeletedStaysDeleted ==
  [][\A m \in Memory : tombstone[m] # "NONE" =>
       /\ tombstone'[m] # "NONE"
       /\ record'[m].rev = record[m].rev
       /\ Kept(m)' => Kept(m)]_memory

(***************************************************************************)
(* What the vector index can return is on record: a rebuild that was under *)
(* way while a memory was deleted does not bring its content back.         *)
(***************************************************************************)
RecallableIsKept == \A r \in indexed : Kept(r[1]) /\ r[2] <= record[r[1]].rev

\* Every revision there ever was of the memories that d deletes ...
Erasable(d) == UNION {Revisions(m) : m \in deletion[d].memories}

\* ... and those that were written after it was planned.
Late(d) == Erasable(d) \ deletion[d].revisions

(***************************************************************************)
(* Once a deletion is complete its memories are gone for good, and all     *)
(* that can be left of them, as an artifact or as what a record derives    *)
(* from, are the revisions that corrections have added since it was        *)
(* planned; however often it failed on the way.  (appendRevision knows no  *)
(* fence around the memory itself, the artifacts to purge are those of the *)
(* plan, and the closing scan looks for what is fenced.  So this is less   *)
(* than that a purge "must clear every cache, index, and artifact copy",   *)
(* docs/architecture/phase-6-memory-os-scope.md.)                          *)
(***************************************************************************)
CompletedIsErased ==
  \A d \in Deletion : deletion[d].status = "COMPLETED" =>
    /\ \A m \in deletion[d].memories : ~Kept(m) /\ tombstone[m] # "NONE"
    /\ files \cap Erasable(d) \subseteq Late(d)
    /\ \A m \in Memory :
         Kept(m) => record[m].from \cap Names(deletion[d].memories) \subseteq Late(d)

(***************************************************************************)
(* A legal deletion that was begun ends, once it is taken up again after   *)
(* each failure and each death: no record that appears meanwhile, and no   *)
(* other command, keeps it from completing.                                *)
(***************************************************************************)
DeletionEnds ==
  \A d \in Deletion :
    deletion[d].status = "PREPARED" ~> deletion[d].status = "COMPLETED"
=============================================================================
