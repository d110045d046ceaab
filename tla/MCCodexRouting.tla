--------------------------- MODULE MCCodexRouting ---------------------------
(* The instance of CodexRouting for TLC: its parts one at a time. *)
EXTENDS CodexRouting, TLC

CONSTANTS
  a1, a2, c1, c2, t1,
  Scenarios  \* the parts that a configuration explores

VARIABLE scenario   \* which part of the instance is explored

\* Both accounts are in the pool, the first one active.
TwoAccounts ==
  /\ store = [a \in Account |->
       [gen |-> 1, cred |-> [grant |-> <<IF a = a1 THEN 1 ELSE 2, 0>>, fresh |-> TRUE]]]
  /\ logins = 2
  /\ loggedIn = [a \in Account |-> IF a = a1 THEN 1 ELSE 2]
  /\ pool = Account /\ active = a1 /\ needsReauth = {}
  /\ lockFile = [g \in Grant |-> "NONE"]
  /\ refreshing = [g \in Grant |-> None]
  /\ call = [c \in Caller |-> Idle]
  /\ issued = [l \in 1..MaxLogins |-> 0]
  /\ lost = {} /\ shared = {}
  /\ health = [a \in Account |-> Healthy]
  /\ usage = [a \in Account |-> 0]
  /\ affinity = [t \in Thread |-> None]
  /\ request = [c \in Caller |-> "NONE"]

MCInit ==
  /\ scenario \in Scenarios
  /\ IF scenario \in {"refresh", "shared"} THEN Init ELSE TwoAccounts

\* One account, refreshed by two calls while it is logged in anew, is deleted,
\* and the daemon dies.
OneAccount ==
  \/ \E c \in Caller : Background(c, a1)
  \/ Login(a1) \/ Delete(a1)
  \/ Later

\* One login under two ids.
SharedLogin ==
  \/ \E c \in Caller, a \in Account : Background(c, a)
  \/ Login(a1)
  \/ Import(a1, a2)
  \/ Later

\* What the upstream answers moves threads between accounts.
Outcomes ==
  \/ \E c \in Caller, t \in Thread : Route(c, t)
  \/ \E a \in Account : UsageChanges(a) \/ CooldownEnds(a) \/ FailuresAge(a)

\* An account is refused while requests await its token, or are built and sent,
\* and is logged in anew.
Refusals ==
  \/ \E c \in Caller, t \in Thread : Route(c, t)
  \/ Login(a1)
  \/ Later

\* The accounts themselves change meanwhile; the token of the first one expires.
Accounts ==
  \/ \E c \in Caller, t \in Thread : Route(c, t)
  \/ Login(a1) \/ Delete(a1)
  \/ \E a \in Account \cup {None} : Use(a)
  \/ Expires(a1) /\ UNCHANGED <<routing, request>>

\* Only tokens of a first generation expire.
ExpireOnce == \A a \in Account : Fresh(a) /\ Live(a)' /\ ~Fresh(a)' => store[a].gen = 1

Event ==
  \/ scenario = "refresh" /\ OneAccount /\ logins' <= 2
  \/ scenario = "shared" /\ SharedLogin /\ logins' <= 1
  \/ scenario = "outcomes" /\ Outcomes
  \/ scenario = "refusals" /\ Refusals /\ ExpireOnce
  \/ scenario = "accounts" /\ Accounts /\ ExpireOnce

\* The outcomes of requests that a part looks at.
Recorded ==
  /\ scenario = "refusals" /\ health' # health => needsReauth' # needsReauth
  /\ scenario = "accounts" => health' = health

MCNext ==
  /\ \/ \E c \in Caller : GoOn(c) \/ ServerAnswers(c) \/ BackgroundReturns(c)
     \/ \E c \in Caller : Serve(c) /\ Recorded
     \/ ~Settling /\ ~Answered /\ Event
     \/ /\ scenario = "refresh"
        /\ \/ (\E g \in Grant : LockGrowsStale(g)) /\ UNCHANGED <<routing, request>>
           \/ Restart
  /\ UNCHANGED scenario

mcvars == <<vars, scenario>>

MCFairness ==
  /\ WF_mcvars((\E c \in Caller : GoOn(c)) /\ UNCHANGED scenario)
  /\ \A c \in Caller :
       /\ WF_mcvars(BackgroundReturns(c) /\ UNCHANGED scenario)
       /\ SF_mcvars(Serve(c) /\ UNCHANGED scenario)
  /\ WF_mcvars(/\ scenario = "refresh"
               /\ (\E g \in Grant : LockGrowsStale(g))
               /\ UNCHANGED <<routing, request, scenario>>)

MCSpec == MCInit /\ [][MCNext]_mcvars /\ MCFairness
=============================================================================
