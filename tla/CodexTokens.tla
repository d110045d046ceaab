---------------------------- MODULE CodexTokens ----------------------------
(***************************************************************************)
(* The credentials of the Codex account pool and their refresh             *)
(* (src/src/codex/account-store.ts), in the one daemon that uses them.     *)
(*                                                                         *)
(* The store is read and written whole, between two awaits, so each such   *)
(* stretch of getValidCodexToken is one action; in between, other calls,   *)
(* logins, deletions and the end of a token's life take place.  A refresh  *)
(* is led by one call: it registers its promise under the fingerprint of   *)
(* the grant, takes a lock file, presents the refresh token, and saves the *)
(* answer if the generation of the account is still the one it read.  Once *)
(* a promise is settled, what awaits it goes on before the next event.     *)
(*                                                                         *)
(* A refresh token is the pair of the login it descends from and the       *)
(* number of its rotation; it stands for its fingerprint too.  Of the      *)
(* expiry of an access token, "fresh" says whether it is further away than *)
(* REFRESH_SKEW_MS.  The daemon may die at any time; its lock files remain *)
(* and are taken for stale after REFRESH_LOCK_STALE_MS.  As the wait for a *)
(* lock is longer than that, and nobody else takes the file, no call of    *)
(* this one process ever waits to the end of it.                           *)
(***************************************************************************)
EXTENDS Naturals, FiniteSets

CONSTANTS
  Account,        \* ids of pool accounts
  Caller,         \* calls that may be under way at a time
  None,           \* no credential, no grant, no caller
  MaxLogins,      \* bound on logins
  MaxRotations,   \* bound on the rotations of one login's refresh token
  MaxGeneration   \* bound on generations: none expires beyond it

VARIABLES
  store,       \* [Account -> generation, credential if there is one]
  lockFile,    \* [Grant -> there is none, a recent one, one that is stale]
  refreshing,  \* refreshLocks: [Grant -> the call that leads its refresh]
  call,        \* [Caller -> where its getValidCodexToken is]
  issued,      \* sequence number of the refresh token in force, per login
  logins,      \* logins so far
  loggedIn,    \* history: [Account -> the login its credential is to be from]
  lost,        \* history: logins that had a rotated token lost on the way
  shared       \* history: logins that more than one id has had part in

tokens ==
  <<store, lockFile, refreshing, call, issued, logins, loggedIn, lost, shared>>

Grant == (1..MaxLogins) \X (0..MaxRotations)

Credential == [grant : Grant, fresh : BOOLEAN]

Failure == {"UNAVAILABLE", "CONFLICT", "REFUSED", "TIMEOUT"}

ASSUME TokenConstants ==
  /\ MaxLogins \in Nat /\ MaxRotations \in Nat /\ MaxGeneration \in Nat
  /\ None \notin Caller /\ None \notin Account /\ None \notin 1..MaxLogins
  /\ None \notin Grant /\ None \notin Credential

Idle == [pc |-> "IDLE", of |-> None, grant |-> None, cred |-> None, gen |-> 0,
         failure |-> None]

CallRecord ==
  [pc : {"IDLE", "POLL", "FETCH", "REPLY", "SETTLED", "WAIT", "WOKEN", "DONE", "FAILED"},
   of : Account \cup {None}, grant : Grant \cup {None},
   cred : Credential \cup {None}, gen : Nat, failure : Failure \cup {None}]

TokensTypeOK ==
  /\ store \in [Account -> [gen : Nat, cred : Credential \cup {None}]]
  /\ lockFile \in [Grant -> {"NONE", "RECENT", "STALE"}]
  /\ refreshing \in [Grant -> Caller \cup {None}]
  /\ call \in [Caller -> CallRecord]
  /\ issued \in [1..MaxLogins -> 0..MaxRotations]
  /\ logins \in 0..MaxLogins
  /\ loggedIn \in [Account -> (1..MaxLogins) \cup {None}]
  /\ lost \subseteq 1..MaxLogins /\ shared \subseteq 1..MaxLogins

TokensInit ==
  /\ store = [a \in Account |-> [gen |-> 0, cred |-> None]]
  /\ lockFile = [g \in Grant |-> "NONE"]
  /\ refreshing = [g \in Grant |-> None]
  /\ call = [c \in Caller |-> Idle]
  /\ issued = [l \in 1..MaxLogins |-> 0]
  /\ logins = 0
  /\ loggedIn = [a \in Account |-> None]
  /\ lost = {} /\ shared = {}

-----------------------------------------------------------------------------
(* The store. *)

Live(a) == store[a].cred # None

Fresh(a) == Live(a) /\ store[a].cred.fresh

Saved(a, cred) == [store EXCEPT ![a] = [gen |-> @.gen + 1, cred |-> cred]]

\* Bug: a refresh notices that the account was deleted, but not that it was
\* logged in anew.
StillThere(a, gen) == Live(a)

\* What saveCodexAccountCredentialIfGeneration asks.
GenerationLive(a, gen) == Live(a) /\ store[a].gen = gen

\* A login has been verified: saveCodexAccountCredential.
SaveLogin(a) ==
  /\ logins < MaxLogins
  /\ logins' = logins + 1
  /\ store' = Saved(a, [grant |-> <<logins + 1, 0>>, fresh |-> TRUE])
  /\ loggedIn' = [loggedIn EXCEPT ![a] = logins + 1]
  /\ UNCHANGED <<lockFile, refreshing, call, issued, lost, shared>>

\* The credential of one account is imported under another id.
SaveImport(a, b) ==
  /\ Fresh(a) /\ ~Live(b)
  /\ store' = Saved(b, store[a].cred)
  /\ loggedIn' = [loggedIn EXCEPT ![b] = loggedIn[a]]
  /\ shared' = shared \cup {loggedIn[a]}
  /\ UNCHANGED <<lockFile, refreshing, call, issued, logins, lost>>

\* tombstoneCodexAccount
Tombstone(a) ==
  /\ Live(a)
  /\ store' = Saved(a, None)
  /\ loggedIn' = [loggedIn EXCEPT ![a] = None]
  /\ UNCHANGED <<lockFile, refreshing, call, issued, logins, lost, shared>>

\* The access token comes within REFRESH_SKEW_MS of its end.
Expires(a) ==
  /\ Fresh(a) /\ store[a].gen < MaxGeneration
  /\ store' = [store EXCEPT ![a].cred.fresh = FALSE]
  /\ UNCHANGED <<lockFile, refreshing, call, issued, logins, loggedIn, lost, shared>>

-----------------------------------------------------------------------------
(* getValidCodexToken *)

\* A call for a's token that is to refresh g, or that has no grant to refresh.
CallFor(a, g) == [Idle EXCEPT !.of = a, !.grant = g]

\* The call, or the refresh that it leads, has come to a credential ...
With(r, pc, cred, gen) == [r EXCEPT !.pc = pc, !.cred = cred, !.gen = gen]

\* ... or to an error.
Without(r, pc, why) == [r EXCEPT !.pc = pc, !.cred = None, !.failure = why]

\* Another account with the same grant has been given a fresh token.
\* (findFreshCredentialForGrant)
FreshTwins(a, g) == {b \in Account \ {a} : Fresh(b) /\ store[b].cred.grant = g}

\* What the leader does as soon as it has the lock, up to its next await: it
\* reads the account again, and presents the grant only if it is still due.
UnderLock(c, a, g) ==
  LET r == CallFor(a, g) IN
  /\ lockFile' = [lockFile EXCEPT ![g] = "RECENT"]
  /\ \/ /\ ~(Live(a) /\ (store[a].cred.grant = g \/ Fresh(a)))
        /\ call' = [call EXCEPT ![c] = Without(r, "SETTLED", "CONFLICT")]
        /\ UNCHANGED store
     \/ /\ Fresh(a)
        /\ call' = [call EXCEPT ![c] = With(r, "SETTLED", store[a].cred, store[a].gen)]
        /\ UNCHANGED store
     \/ /\ Live(a) /\ ~Fresh(a) /\ store[a].cred.grant = g
        /\ \/ \E b \in FreshTwins(a, g) :
                /\ store' = Saved(a, store[b].cred)
                /\ call' = [call EXCEPT
                     ![c] = With(r, "SETTLED", store[b].cred, store[a].gen + 1)]
           \/ /\ FreshTwins(a, g) = {}
              /\ call' = [call EXCEPT ![c] = With(r, "FETCH", None, store[a].gen)]
              /\ UNCHANGED store

\* There is no lock file, or one that is stale, which is removed first.
LockIsFree(g) == lockFile[g] # "RECENT"

\* No refresh of g is under way in this daemon: the call leads one.
Lead(c, a, g) ==
  /\ refreshing[g] = None
  /\ refreshing' = [refreshing EXCEPT ![g] = c]
  /\ \/ LockIsFree(g) /\ UnderLock(c, a, g)
     \/ /\ ~LockIsFree(g)
        /\ call' = [call EXCEPT ![c] = [CallFor(a, g) EXCEPT !.pc = "POLL"]]
        /\ UNCHANGED <<store, lockFile>>

\* The beginning of getValidCodexToken, or of its recursion.
Ask(c, a) ==
  /\ \/ /\ ~Live(a)
        /\ call' = [call EXCEPT ![c] = Without(CallFor(a, None), "FAILED", "UNAVAILABLE")]
        /\ UNCHANGED <<store, lockFile, refreshing>>
     \/ /\ Fresh(a)
        /\ call' = [call EXCEPT
             ![c] = With(CallFor(a, None), "DONE", store[a].cred, store[a].gen)]
        /\ UNCHANGED <<store, lockFile, refreshing>>
     \/ /\ Live(a) /\ ~Fresh(a)
        /\ LET g == store[a].cred.grant IN
           \/ Lead(c, a, g)
           \/ /\ refreshing[g] # None
              /\ call' = [call EXCEPT ![c] = [CallFor(a, g) EXCEPT !.pc = "WAIT"]]
              /\ UNCHANGED <<store, lockFile, refreshing>>
  /\ UNCHANGED <<issued, logins, loggedIn, lost, shared>>

\* The lock is found free after a while.
Poll(c) ==
  /\ call[c].pc = "POLL" /\ LockIsFree(call[c].grant)
  /\ UnderLock(c, call[c].of, call[c].grant)
  /\ UNCHANGED <<refreshing, issued, logins, loggedIn, lost, shared>>

-----------------------------------------------------------------------------
(* The authorization server, as far as the code relies on it. *)

InForce(g) == issued[g[1]] = g[2]

\* The answer, None if it is a refusal.
Replies(c, cred) ==
  /\ call' = [call EXCEPT ![c].pc = "REPLY", ![c].cred = cred]
  /\ UNCHANGED <<store, lockFile, refreshing, logins, loggedIn, lost, shared>>

\* The grant is in force: a new access token comes with a new refresh token.
Rotates(c) ==
  LET g == call[c].grant IN
  /\ call[c].pc = "FETCH" /\ InForce(g) /\ g[2] < MaxRotations
  /\ issued' = [issued EXCEPT ![g[1]] = @ + 1]
  /\ Replies(c, [grant |-> <<g[1], g[2] + 1>>, fresh |-> TRUE])

\* Or without one, and the old one stays in force.
Renews(c) ==
  /\ call[c].pc = "FETCH" /\ InForce(call[c].grant)
  /\ Replies(c, [grant |-> call[c].grant, fresh |-> TRUE])
  /\ UNCHANGED issued

\* A grant is refused if it was used before, or for a reason of the server's own.
Refuses(c) ==
  /\ call[c].pc = "FETCH"
  /\ Replies(c, None)
  /\ UNCHANGED issued

-----------------------------------------------------------------------------
\* Bug: the rotated refresh token is not kept.
OldGrant(c) == [grant |-> call[c].grant, fresh |-> TRUE]

NewCredential(c) == call[c].cred

\* The answer is there: it is saved if the account is still as it was read.
Receive(c) ==
  LET a == call[c].of IN
  /\ call[c].pc = "REPLY"
  /\ \/ /\ call[c].cred = None
        /\ call' = [call EXCEPT ![c] = Without(@, "SETTLED", "REFUSED")]
        /\ UNCHANGED store
     \/ /\ call[c].cred # None /\ GenerationLive(a, call[c].gen)
        /\ store' = Saved(a, NewCredential(c))
        /\ call' = [call EXCEPT
             ![c] = With(@, "SETTLED", NewCredential(c), call[c].gen + 1)]
     \/ /\ call[c].cred # None /\ ~GenerationLive(a, call[c].gen)
        /\ call' = [call EXCEPT ![c] = Without(@, "SETTLED", "CONFLICT")]
        /\ UNCHANGED store
  /\ UNCHANGED <<lockFile, refreshing, issued, logins, loggedIn, lost, shared>>

\* The grant of a call that is rotated already, its answer on the way.
LostWith(c) ==
  IF call[c].pc = "REPLY" /\ ~InForce(call[c].grant) THEN {call[c].grant[1]} ELSE {}

\* Bug: the fetch has no timeout.
Unreadable(c) == call[c].pc = "REPLY"

\* No answer within 30 seconds, or none that can be read.
NoAnswer(c) == call[c].pc \in {"FETCH", "REPLY"}

FetchFails(c) ==
  /\ NoAnswer(c)
  /\ call' = [call EXCEPT ![c] = Without(@, "SETTLED", "TIMEOUT")]
  /\ lost' = lost \cup LostWith(c)
  /\ UNCHANGED <<store, lockFile, refreshing, issued, logins, loggedIn, shared>>

\* What has become of a call when the refresh that c leads has ended.
AfterRefresh(c, x) ==
  LET r == call[x] IN
  IF x = c
  THEN IF r.cred # None THEN With(r, "DONE", r.cred, r.gen)
       ELSE Without(r, "FAILED", r.failure)
  ELSE IF r.pc = "WAIT" /\ r.grant = call[c].grant
  THEN IF call[c].cred # None THEN With(r, "WOKEN", call[c].cred, 0)
       ELSE Without(r, "FAILED", call[c].failure)
  ELSE r

\* The finally clauses: the lock file and the promise are removed, and all that
\* await the promise go on with its outcome.
Settle(c) ==
  LET g == call[c].grant IN
  /\ call[c].pc = "SETTLED"
  /\ lockFile' = [lockFile EXCEPT ![g] = "NONE"]
  /\ refreshing' = [refreshing EXCEPT ![g] = None]
  /\ call' = [x \in Caller |-> AfterRefresh(c, x)]
  /\ UNCHANGED <<store, issued, logins, loggedIn, lost, shared>>

\* A call that has awaited the refresh of another: if its own account still
\* has the old grant it saves what the other has got, else it starts again.
Resume(c) ==
  LET a == call[c].of IN
  /\ call[c].pc = "WOKEN"
  /\ \/ /\ Live(a) /\ store[a].cred.grant = call[c].grant
        /\ store' = Saved(a, call[c].cred)
        /\ call' = [call EXCEPT ![c] = With(@, "DONE", call[c].cred, store[a].gen + 1)]
        /\ shared' = shared \cup ({call[c].cred.grant[1]} \ {call[c].grant[1]})
        /\ UNCHANGED <<lockFile, refreshing, issued, logins, loggedIn, lost>>
     \/ /\ ~(Live(a) /\ store[a].cred.grant = call[c].grant)
        /\ Ask(c, a)

\* The caller takes the token, or the error.
Return(c) ==
  /\ call[c].pc \in {"DONE", "FAILED"}
  /\ call' = [call EXCEPT ![c] = Idle]
  /\ UNCHANGED <<store, lockFile, refreshing, issued, logins, loggedIn, lost, shared>>

\* The daemon dies and is started again.
DaemonRestarts ==
  /\ call' = [c \in Caller |-> Idle]
  /\ refreshing' = [g \in Grant |-> None]
  /\ lost' = lost \cup UNION {LostWith(c) : c \in Caller}
  /\ UNCHANGED <<store, lockFile, issued, logins, loggedIn, shared>>

\* The lock file of a dead daemon grows old.  That of a living one does not:
\* it is removed with the answer, which is awaited for less time.
LockGrowsStale(g) ==
  /\ lockFile[g] = "RECENT"
  /\ refreshing[g] # None => call[refreshing[g]].pc = "POLL"
  /\ lockFile' = [lockFile EXCEPT ![g] = "STALE"]
  /\ UNCHANGED <<store, refreshing, call, issued, logins, loggedIn, lost, shared>>

\* A promise was settled, and what awaits it has not gone on yet.
Settling == \E c \in Caller : call[c].pc \in {"SETTLED", "WOKEN"}

\* What follows before the next event.
Continue(c) == Settle(c) \/ Resume(c)

\* The authorization server may answer.
Answers(c) == Rotates(c) \/ Renews(c) \/ Refuses(c)

\* What comes of a timer or of an answer that is there.
Proceed(c) == Poll(c) \/ Receive(c) \/ FetchFails(c)

TokensNext ==
  \/ \E c \in Caller : Continue(c) \/ Return(c)
  \/ /\ ~Settling
     /\ \/ \E a \in Account : SaveLogin(a) \/ Tombstone(a) \/ Expires(a)
        \/ \E a, b \in Account : SaveImport(a, b)
        \/ \E c \in Caller, a \in Account : call[c].pc = "IDLE" /\ Ask(c, a)
        \/ \E c \in Caller : Answers(c) \/ Proceed(c)
  \/ \E g \in Grant : LockGrowsStale(g)
  \/ DaemonRestarts

TokensSpec == TokensInit /\ [][TokensNext]_tokens

-----------------------------------------------------------------------------
(***************************************************************************)
(* The credential of an account descends from its last login: a refresh    *)
(* that ends late never writes over the login that has replaced it, nor    *)
(* brings back an account that was deleted.  (Not so if the credential was *)
(* imported under a second id: while one account waits for a lock file and *)
(* is logged in anew, the other takes its new credential for the outcome   *)
(* of the refresh.)                                                        *)
(***************************************************************************)
CredentialIsCurrent ==
  \A a \in Account :
    IF Live(a) THEN store[a].cred.grant[1] = loggedIn[a] \/ loggedIn[a] \in shared
    ELSE loggedIn[a] = None

(***************************************************************************)
(* No grant is presented by two calls at a time, and none that has been    *)
(* rotated already, unless the answer that brought its successor was lost: *)
(* the server would take that for theft and revoke the login.  (Or unless  *)
(* the credential was imported under a second id, which may ask when the   *)
(* successor has expired in its turn.)                                     *)
(***************************************************************************)
GrantPresentedOnce ==
  \A c \in Caller : call[c].pc = "FETCH" =>
    /\ \A x \in Caller \ {c} :
         call[x].pc \in {"FETCH", "REPLY"} => call[x].grant # call[c].grant
    /\ InForce(call[c].grant) \/ call[c].grant[1] \in lost \cup shared
=============================================================================
