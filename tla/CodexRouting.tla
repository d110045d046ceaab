---------------------------- MODULE CodexRouting ----------------------------
(***************************************************************************)
(* Which account of the pool a request of a Codex thread is sent with      *)
(* (src/src/codex/routing.ts, auth-context.ts, account-lifecycle.ts and    *)
(* handleResponses of server/responses.ts), on top of CodexTokens.         *)
(*                                                                         *)
(* A request is routed, awaits a token, is checked again, is built and     *)
(* sent, and its outcome is recorded when the upstream answers.  Logins,   *)
(* deletions, switches by hand and other requests come in between.  Other  *)
(* callers of getValidCodexToken, the quota pages and the token guardian,  *)
(* are calls without a request.                                            *)
(*                                                                         *)
(* Of the clock the model keeps whether a cooldown is over, whether a run  *)
(* of failures is older than CODEX_FAILURE_WINDOW_MS, and, as a choice,    *)
(* whether a thread's account is due to be looked at again.  Of usage it   *)
(* keeps the order and the threshold.  Left out: the main account, whose   *)
(* token the daemon only reads; requests without a thread, which bind      *)
(* nothing; the cap on the number of bound threads, and that binding one   *)
(* thread drops the bindings of others that were idle for too long, which  *)
(* then start as new ones.                                                 *)
(***************************************************************************)
EXTENDS CodexTokens

CONSTANTS
  Thread,      \* threads that send requests
  MaxFailures  \* upstreamFailoverThreshold

ASSUME RoutingConstants == MaxFailures \in Nat \ {0}

VARIABLES
  pool,         \* config.codexAccounts
  active,       \* config.activeCodexAccountId, or None
  needsReauth,  \* reauthAccounts
  health,       \* [Account -> consecutive failures, it is in cooldown]
  usage,        \* [Account -> score of its quota]
  affinity,     \* threadAccountMap: [Thread -> account and generation, or None]
  request       \* [Caller -> there is none, its call is for a token, it is
                \*            checked and being built, it is sent]

routing == <<pool, active, needsReauth, health, usage, affinity>>

vars == <<tokens, routing, request>>

\* Below autoSwitchThreshold, over it, not known (which scores highest).
Usage == 0..2

Unknown == 2

TypeOK ==
  /\ TokensTypeOK
  /\ pool \subseteq Account /\ needsReauth \subseteq Account
  /\ active \in pool \cup {None}
  /\ health \in [Account -> [failures : 0..MaxFailures, cooling : BOOLEAN]]
  /\ usage \in [Account -> Usage]
  /\ affinity \in [Thread -> [account : Account, gen : Nat] \cup {None}]
  /\ request \in [Caller -> {"NONE", "AUTH", "READY", "SENT"}]

Healthy == [failures |-> 0, cooling |-> FALSE]

Init ==
  /\ TokensInit
  /\ pool = {} /\ active = None /\ needsReauth = {}
  /\ health = [a \in Account |-> Healthy]
  /\ usage = [a \in Account |-> Unknown]
  /\ affinity = [t \in Thread |-> None]
  /\ request = [c \in Caller |-> "NONE"]

-----------------------------------------------------------------------------
(* The choice of an account. *)

\* isCodexAccountUsable
Usable(a) == a \in pool /\ a \notin needsReauth /\ Live(a)

Selectable(a) == ~health[a].cooling /\ Usable(a)

\* getEligiblePoolAccounts
Eligible(except) == {a \in pool \ {except} : Selectable(a)}

\* pickLowestUsageCodexAccount; which of several is a matter of their order.
Lowest(S) == {a \in S : \A b \in S : usage[a] <= usage[b]}

\* Where the choice starts: at the active account, or else at the lowest.
Start == IF active # None THEN {active} ELSE Lowest(Eligible(None))

\* No account can replace a: it is used as it is, and its thread not bound.
Stuck(a) == ~Selectable(a) /\ Eligible(a) = {}

Fallback(a) == IF Selectable(a) THEN {a} ELSE Lowest(Eligible(a))

\* Accounts of strictly lower usage; if none is known, another unknown one.
Cooler(a) == {b \in Lowest(Eligible(a)) : usage[b] < usage[a]}

QuotaSwitch(a) ==
  IF usage[a] = 0 THEN {a}
  ELSE IF Cooler(a) # {} THEN Cooler(a)
  ELSE IF usage[a] = Unknown /\ Eligible(a) # {} THEN Eligible(a)
  ELSE {a}

FailureFailover(a) ==
  IF health[a].failures < MaxFailures \/ Eligible(a) = {} THEN {a}
  ELSE Lowest(Eligible(a))

\* The accounts a new thread may be given when the choice starts at a.
Choices(a) ==
  UNION {UNION {FailureFailover(c) : c \in QuotaSwitch(b)} : b \in Fallback(a)}

-----------------------------------------------------------------------------
(* A request. *)

BoundTo(a) == [account |-> a, gen |-> store[a].gen]

\* Bug: a switch by hand takes the threads along that are bound already.
FollowsActive(t) ==
  /\ affinity[t] # None /\ affinity[t].account = active
  /\ GenerationLive(active, affinity[t].gen)
  /\ Selectable(active)

\* The account that thread t is bound to may go on being used.
BindingHolds(t) ==
  /\ affinity[t] # None
  /\ GenerationLive(affinity[t].account, affinity[t].gen)
  /\ Selectable(affinity[t].account)

\* The request goes on to ask for the token of a, unless a is cooling down.
Authorize(c, a) ==
  \/ /\ health[a].cooling
     /\ UNCHANGED <<tokens, request>>
  \/ /\ ~health[a].cooling
     /\ Ask(c, a)
     /\ request' = [request EXCEPT ![c] = "AUTH"]

\* The thread keeps its account ...
RouteBound(c, t) ==
  /\ BindingHolds(t)
  /\ Authorize(c, affinity[t].account)
  /\ UNCHANGED routing

\* ... or is moved to a cooler one, which becomes the active one.
RouteRebound(c, t) ==
  /\ BindingHolds(t) /\ usage[affinity[t].account] > 0
  /\ \E b \in Cooler(affinity[t].account) :
       /\ active' = b
       /\ affinity' = [affinity EXCEPT ![t] = BoundTo(b)]
       /\ Authorize(c, b)
  /\ UNCHANGED <<pool, needsReauth, health, usage>>

\* A thread that was idle for too long has to start a new session.
RouteExpired(c, t) ==
  /\ affinity[t] # None
  /\ affinity' = [affinity EXCEPT ![t] = None]
  /\ UNCHANGED <<tokens, pool, active, needsReauth, health, usage, request>>

\* A new thread, or one whose account cannot be used any more.
RouteNew(c, t) ==
  /\ ~BindingHolds(t)
  /\ \E a \in Start :
       \/ /\ ~Stuck(a)
          /\ \E b \in Choices(a) :
               /\ active' = b
               /\ affinity' = [affinity EXCEPT ![t] = BoundTo(b)]
               /\ Authorize(c, b)
       \/ /\ Stuck(a)
          /\ affinity' = [affinity EXCEPT ![t] = None]
          /\ Authorize(c, a)
          /\ UNCHANGED active
  /\ UNCHANGED <<pool, needsReauth, health, usage>>

\* No account is configured that could be used.
RouteNone(c, t) ==
  /\ ~BindingHolds(t) /\ Start = {}
  /\ affinity' = [affinity EXCEPT ![t] = None]
  /\ UNCHANGED <<tokens, pool, active, needsReauth, health, usage, request>>

Route(c, t) ==
  /\ call[c].pc = "IDLE" /\ request[c] = "NONE"
  /\ \/ RouteBound(c, t) \/ RouteRebound(c, t) \/ RouteExpired(c, t)
     \/ RouteNew(c, t) \/ RouteNone(c, t)

\* Bug: that the account is to be logged in again is not looked at anew.
StillLive(c) == GenerationLive(call[c].of, call[c].gen)

\* isCodexAuthContextUsable
ContextUsable(c) == Usable(call[c].of) /\ GenerationLive(call[c].of, call[c].gen)

\* The token is there: the request is built with it, or refused.
Authorized(c) ==
  /\ request[c] = "AUTH" /\ call[c].pc = "DONE"
  /\ \/ /\ ContextUsable(c)
        /\ request' = [request EXCEPT ![c] = "READY"]
        /\ UNCHANGED tokens
     \/ /\ ~ContextUsable(c)
        /\ request' = [request EXCEPT ![c] = "NONE"]
        /\ Return(c)
  /\ UNCHANGED routing

\* The request has been built, or cannot be.  It is not checked again, neither
\* now nor when fetchWithTransientRetry sends it again, up to its last attempt:
\* that changes nothing, and "SENT" stands for the pauses in between as well.
Send(c) ==
  /\ request[c] = "READY"
  /\ \/ /\ request' = [request EXCEPT ![c] = "SENT"]
        /\ UNCHANGED tokens
     \/ /\ request' = [request EXCEPT ![c] = "NONE"]
        /\ Return(c)
  /\ UNCHANGED routing

\* There is no token: of every failure but one the account is to blame.
AuthFails(c) ==
  /\ request[c] = "AUTH" /\ call[c].pc = "FAILED"
  /\ needsReauth' = IF call[c].failure = "CONFLICT" THEN needsReauth
                    ELSE needsReauth \cup {call[c].of}
  /\ request' = [request EXCEPT ![c] = "NONE"]
  /\ Return(c)
  /\ UNCHANGED <<pool, active, health, usage, affinity>>

-----------------------------------------------------------------------------
(* recordCodexUpstreamOutcome: all it knows of the request is its account. *)

Unbound(a) ==
  [t \in Thread |-> IF affinity[t] # None /\ affinity[t].account = a THEN None
                    ELSE affinity[t]]

Succeeds(a) ==
  /\ health' = [health EXCEPT ![a].failures = 0]
  /\ UNCHANGED <<pool, active, needsReauth, usage, affinity>>

\* The request itself was at fault.
CallerErs == UNCHANGED routing

\* 401 or 403: the cooldown is forgotten with everything else.
CredentialRefused(a) ==
  /\ health' = [health EXCEPT ![a] = [failures |-> 1, cooling |-> FALSE]]
  /\ needsReauth' = needsReauth \cup {a}
  /\ affinity' = Unbound(a)
  /\ UNCHANGED <<pool, active, usage>>

\* Once the active account may not be used, another becomes active.
Replaced(a) ==
  IF active = a /\ Eligible(a) # {} THEN active' \in Lowest(Eligible(a))
  ELSE UNCHANGED active

\* 429
QuotaExceeded(a) ==
  /\ health' = [health EXCEPT ![a] = [failures |-> 0, cooling |-> TRUE]]
  /\ affinity' = Unbound(a)
  /\ Replaced(a)
  /\ UNCHANGED <<pool, needsReauth, usage>>

\* 5xx, no connection, no answer
FailsTransiently(a) ==
  /\ health' = [health EXCEPT ![a].failures = IF @ < MaxFailures THEN @ + 1 ELSE @]
  /\ IF health'[a].failures = MaxFailures THEN Replaced(a) ELSE UNCHANGED active
  /\ UNCHANGED <<pool, needsReauth, usage, affinity>>

RecordOutcome(c) ==
  LET a == call[c].of IN
  /\ request[c] = "SENT"
  /\ \/ Succeeds(a) \/ CallerErs \/ CredentialRefused(a)
     \/ QuotaExceeded(a) \/ FailsTransiently(a)
  /\ request' = [request EXCEPT ![c] = "NONE"]
  /\ Return(c)

-----------------------------------------------------------------------------
(* The operator, and time. *)

\* A login has been verified, of a new account or of one of the pool.
Login(a) ==
  /\ SaveLogin(a)
  /\ pool' = pool \cup {a}
  /\ needsReauth' = needsReauth \ {a}
  /\ UNCHANGED <<active, health, usage, affinity, request>>

\* The credential of one account is imported under another id.
Import(a, b) ==
  /\ b \notin pool
  /\ SaveImport(a, b)
  /\ pool' = pool \cup {b}
  /\ needsReauth' = needsReauth \ {b}
  /\ UNCHANGED <<active, health, usage, affinity, request>>

\* deleteCodexAccount
Delete(a) ==
  /\ Tombstone(a)
  /\ pool' = pool \ {a}
  /\ active' = IF active = a THEN None ELSE active
  /\ needsReauth' = needsReauth \ {a}
  /\ usage' = [usage EXCEPT ![a] = Unknown]
  /\ affinity' = Unbound(a)
  /\ health' = [health EXCEPT ![a] = Healthy]
  /\ UNCHANGED request

\* Another account is to be used next.
Use(a) ==
  /\ a \in pool \cup {None} /\ active' = a
  /\ UNCHANGED <<tokens, pool, needsReauth, health, usage, affinity, request>>

UsageChanges(a) ==
  /\ \E u \in Usage \ {Unknown} : usage' = [usage EXCEPT ![a] = u]
  /\ UNCHANGED <<tokens, pool, active, needsReauth, health, affinity, request>>

CooldownEnds(a) ==
  /\ health[a].cooling
  /\ health' = [health EXCEPT ![a].cooling = FALSE]
  /\ UNCHANGED <<tokens, pool, active, needsReauth, usage, affinity, request>>

\* The failures are too old to count.
FailuresAge(a) ==
  /\ health[a].failures > 0
  /\ health' = [health EXCEPT ![a].failures = 0]
  /\ UNCHANGED <<tokens, pool, active, needsReauth, usage, affinity, request>>

\* What the daemon keeps in memory goes with it.
Restart ==
  /\ DaemonRestarts
  /\ needsReauth' = {}
  /\ health' = [a \in Account |-> Healthy]
  /\ usage' = [a \in Account |-> Unknown]
  /\ affinity' = [t \in Thread |-> None]
  /\ request' = [c \in Caller |-> "NONE"]
  /\ UNCHANGED <<pool, active>>

-----------------------------------------------------------------------------
\* What awaits a promise that was settled.
Answered == \E c \in Caller : request[c] = "AUTH" /\ call[c].pc \in {"DONE", "FAILED"}

\* A call goes on when its promise is settled ...
GoOn(c) ==
  \/ Continue(c) /\ UNCHANGED <<routing, request>>
  \/ Authorized(c) \/ AuthFails(c)

\* ... or when the lock is free, or a server has answered or is given up on.
Serve(c) ==
  /\ ~Settling /\ ~Answered
  /\ \/ Proceed(c) /\ UNCHANGED <<routing, request>>
     \/ Send(c) \/ RecordOutcome(c)

\* The authorization server may answer.
ServerAnswers(c) ==
  /\ ~Settling /\ ~Answered
  /\ Answers(c) /\ UNCHANGED <<routing, request>>

\* A call for a token that no request waits for.
Background(c, a) ==
  /\ call[c].pc = "IDLE"
  /\ Ask(c, a)
  /\ UNCHANGED <<routing, request>>

BackgroundReturns(c) ==
  /\ request[c] = "NONE"
  /\ Return(c)
  /\ UNCHANGED <<routing, request>>

Later ==
  \/ \E a \in Account : CooldownEnds(a) \/ FailuresAge(a)
  \/ \E a \in Account : Expires(a) /\ UNCHANGED <<routing, request>>

Next ==
  \/ \E c \in Caller : GoOn(c) \/ Serve(c) \/ ServerAnswers(c) \/ BackgroundReturns(c)
  \/ /\ ~Settling /\ ~Answered
     /\ \/ \E c \in Caller, t \in Thread : Route(c, t)
        \/ \E c \in Caller, a \in Account : Background(c, a)
        \/ \E a \in Account : Login(a) \/ Delete(a) \/ UsageChanges(a)
        \/ \E a, b \in Account : Import(a, b)
        \/ \E a \in Account \cup {None} : Use(a)
        \/ Later
  \/ (\E g \in Grant : LockGrowsStale(g)) /\ UNCHANGED <<routing, request>>
  \/ Restart

\* Every event has its turn, lock files grow old, and the upstream answers or is
\* given up on.  The authorization server need not answer.
Fairness ==
  /\ WF_vars(\E c \in Caller : GoOn(c))
  /\ \A c \in Caller : WF_vars(BackgroundReturns(c)) /\ SF_vars(Serve(c))
  /\ WF_vars((\E g \in Grant : LockGrowsStale(g)) /\ UNCHANGED <<routing, request>>)

Spec == Init /\ [][Next]_vars /\ Fairness

-----------------------------------------------------------------------------
(***************************************************************************)
(* A request is sent, and sent again, only with the token that it was      *)
(* checked with, and the check finds that token in force: of the last      *)
(* login of its account, which is in the pool and not to be logged in      *)
(* again.  A login, a deletion or a refusal while the request awaited its  *)
(* token is noticed.  (One that comes after the check is not, however long *)
(* the request is sent again.)                                             *)
(***************************************************************************)
SentAsChecked ==
  [][\A c \in Caller :
       LET a == call[c].of IN
       /\ request[c] # "READY" /\ request'[c] = "READY" =>
            /\ a \in pool \ needsReauth
            /\ call[c].cred.grant[1] = loggedIn[a] \/ loggedIn[a] \in shared
            /\ call'[c] = call[c]
       /\ request'[c] = "SENT" =>
            request[c] \in {"READY", "SENT"} /\ call'[c] = call[c]]_vars

(***************************************************************************)
(* A thread keeps its account, except for cause: the account is refused,   *)
(* in cooldown or gone, its usage is over the threshold, or its credential *)
(* was saved anew, by a login or by a refresh.  Failures of the upstream   *)
(* and other threads are no cause, and neither is a switch by hand as long *)
(* as the credential stays the one that the thread was bound with.         *)
(***************************************************************************)
ThreadMovesForCause ==
  [][\A t \in Thread :
       LET b == affinity[t] IN
       affinity'[t] # None /\ b # None /\ affinity'[t].account # b.account =>
         \/ ~Selectable(b.account) \/ usage[b.account] > 0
         \/ store[b.account].gen # b.gen]_vars

(***************************************************************************)
(* "Manually choosing an account changes the next new Codex session; an    *)
(* already-bound thread keeps its current account for that manual switch"  *)
(* (docs-site/src/content/docs/guides/web-dashboard.md): a thread whose    *)
(* account may be used, its usage below the threshold, stays with it while *)
(* another one is active.                                                  *)
(***************************************************************************)
BoundThreadStays ==
  [][\A t \in Thread :
       LET b == affinity[t] IN
       (/\ b # None /\ affinity'[t] # None
        /\ Selectable(b.account) /\ usage[b.account] = 0 /\ active # b.account) =>
          affinity'[t].account = b.account]_vars

(***************************************************************************)
(* A call for a token ends, and the request that made it, also if it finds *)
(* the lock file of a dead daemon.                                         *)
(***************************************************************************)
CallEnds == \A c \in Caller : call[c].pc # "IDLE" ~> call[c].pc = "IDLE"
=============================================================================
