--------------------------- MODULE ProviderFailover ---------------------------
(***************************************************************************)
(* Requests to a model combo, over providers with pools of API keys        *)
(* (src/combos, src/providers/key-failover.ts, and their callers in        *)
(* src/server/responses.ts).                                               *)
(*                                                                         *)
(* A request tries the targets of the combo one after the other.  At each  *)
(* target, a rate limit (429) makes it try the other keys of the provider; *)
(* the key that has served it is selected for later requests when its      *)
(* answer, a stream, is complete.  Requests are handled by one process and *)
(* overtake each other wherever they wait for an upstream.                 *)
(*                                                                         *)
(* Each target stands for a provider of its own with one model.            *)
(***************************************************************************)
EXTENDS Integers, SequencesExt

CONSTANTS
  Request,      \* requests to the combo
  Target,       \* its targets
  Order,        \* the targets in the order of the combo
  Weight,       \* [Target -> weight of the target]
  Strategy,     \* "failover" or "round-robin"
  StickyLimit,  \* successes after which a round-robin moves on
  Key,          \* API keys
  Keys,         \* [Target -> the pool of its provider at the beginning]
  None          \* no key, no target

ASSUME FailoverConstants ==
  /\ None \notin Key \cup Target
  /\ Order \in Seq(Target) /\ \A t \in Target : \E i \in DOMAIN Order : Order[i] = t
  /\ Weight \in [Target -> Nat \ {0}]
  /\ Strategy \in {"failover", "round-robin"}
  /\ StickyLimit \in Nat \ {0}
  /\ Keys \in [Target -> Seq(Key) \ {<< >>}]
  /\ \A t \in Target : IsInjective(Keys[t])   \* entries are known by their keys' hashes

VARIABLES
  pool,       \* [Target -> the keys of its provider]
  selected,   \* [Target -> the key that the configuration selects]
  cooling,    \* keys in cooldown
  clearing,   \* targets whose keys were edited, cooldowns not yet cleared
  benched,    \* targets in cooldown
  sticky,     \* round-robin: the target in use
  successes,  \* round-robin: its successes
  credit,     \* round-robin: current weights
  req,        \* [Request -> the state of its handler]
  exhausted   \* keys of which a provider has said that they are exhausted

keys == <<pool, selected, cooling, clearing>>
robin == <<sticky, successes, credit>>
vars == <<keys, benched, robin, req, exhausted>>

\* key: the key it carries; expected: the selected key when the first one
\* failed; pending: the key to select when the answer is complete.
New == [pc |-> "idle", target |-> None, tried |-> {}, key |-> None,
        expected |-> None, pending |-> None]

Handler == [pc : {"idle", "picked", "sent", "refused", "streaming", "done", "failed"},
            target : Target \cup {None}, tried : SUBSET Target,
            key : Key \cup {None}, expected : Key \cup {None},
            pending : Key \cup {None}]

TypeOK ==
  /\ pool \in [Target -> Seq(Key)]
  /\ selected \in [Target -> Key]
  /\ cooling \subseteq Key
  /\ clearing \subseteq Target
  /\ benched \subseteq Target
  /\ sticky \in Target \cup {None}
  /\ successes \in 0..StickyLimit
  /\ credit \in [Target -> Int]
  /\ req \in [Request -> Handler]
  /\ exhausted \subseteq Key

Init ==
  /\ pool = Keys
  /\ selected = [t \in Target |-> Keys[t][1]]
  /\ cooling = {} /\ clearing = {} /\ benched = {}
  /\ sticky = None /\ successes = 0 /\ credit = [t \in Target |-> 0]
  /\ req = [r \in Request |-> New]
  /\ exhausted = {}

-----------------------------------------------------------------------------
(* The choice of a target, among the eligible ones. *)

FirstOf(S) == IF S = {} THEN None
              ELSE Order[Min({i \in DOMAIN Order : Order[i] \in S})]

Total(S) == MapThenSumSet(LAMBDA t : Weight[t], S)

Score(t) == credit[t] + Weight[t]

Heaviest(S) == FirstOf({t \in S : \A u \in S : Score(u) <= Score(t)})

\* inUse: the sticky target, if any.
Picked(S, inUse) ==
  IF Strategy = "failover" THEN FirstOf(S)
  ELSE IF inUse \in S THEN inUse ELSE Heaviest(S)

NotePick(S, inUse) ==
  IF Strategy = "failover" \/ inUse \in S
  THEN /\ sticky' = inUse
       /\ successes' = IF inUse = sticky THEN successes ELSE 0
       /\ UNCHANGED credit
  ELSE /\ sticky' = Heaviest(S)
       /\ successes' = 0
       /\ credit' = [t \in Target |->
                       CASE t \in S /\ t = Heaviest(S) -> Score(t) - Total(S)
                         [] t \in S /\ t # Heaviest(S) -> Score(t)
                         [] t \notin S -> credit[t]]

\* The request goes to the picked target, or ends for want of one.
Turn(r, S, inUse) ==
  /\ NotePick(S, inUse)
  /\ req' = [req EXCEPT ![r] =
       IF S = {} THEN [@ EXCEPT !.pc = "failed"]
       ELSE [New EXCEPT !.pc = "picked", !.target = Picked(S, inUse),
                        !.tried = req[r].tried \cup {Picked(S, inUse)}]]

Arrive(r) ==
  /\ req[r].pc = "idle"
  /\ Turn(r, Target \ benched, sticky)
  /\ UNCHANGED <<keys, benched, exhausted>>

\* Routing copies the provider's configuration.
Route(r) ==
  /\ req[r].pc = "picked"
  /\ req' = [req EXCEPT ![r].pc = "sent", ![r].key = selected[req[r].target]]
  /\ UNCHANGED <<keys, benched, robin, exhausted>>

-----------------------------------------------------------------------------
(* The answer of the upstream. *)

Serves(r) ==
  LET t == req[r].target IN
  /\ req[r].pc = "sent"
  /\ req' = [req EXCEPT ![r].pc = "streaming"]
  /\ IF Strategy = "round-robin" /\ sticky = t
     THEN IF successes + 1 >= StickyLimit
          THEN sticky' = None /\ successes' = 0
          ELSE successes' = successes + 1 /\ UNCHANGED sticky
     ELSE UNCHANGED <<sticky, successes>>
  /\ UNCHANGED <<keys, benched, credit, exhausted>>

\* The failure has been read: its target is benched, and another one tried.
Hops(r) ==
  LET t == req[r].target
      inUse == IF sticky = t THEN None ELSE sticky
  IN
  /\ req[r].pc \in {"sent", "refused"}
  /\ benched' = benched \cup {t}
  /\ Turn(r, Target \ (req[r].tried \cup benched'), inUse)
  /\ UNCHANGED <<keys, exhausted>>

\* Failures that another target would repeat, and the client's departure.
Stops(r) ==
  /\ req[r].pc \in {"picked", "sent", "refused"}
  /\ req' = [req EXCEPT ![r].pc = "failed"]
  /\ UNCHANGED <<keys, benched, robin, exhausted>>

InPool(t, k) == \E i \in DOMAIN pool[t] : pool[t][i] = k

\* The key that the request used goes into cooldown, not the selected one.
Cool(t, k) == cooling \cup {x \in {k} : InPool(t, x)}

\* Places in the pool after the key's own, all places for a foreign key.
Candidates(t, k) ==
  LET n == Len(pool[t])
      at == IF InPool(t, k) THEN CHOOSE i \in DOMAIN pool[t] : pool[t][i] = k ELSE n
      ahead == IF InPool(t, k) THEN 1..n - 1 ELSE 1..n
  IN  [d \in ahead |-> pool[t][((at + d - 1) % n) + 1]]

\* Bug: a key in cooldown is tried again.
AnyCandidates(t, k) == DOMAIN Candidates(t, k)

Healthy(t, k) == {d \in DOMAIN Candidates(t, k) : Candidates(t, k)[d] \notin Cool(t, k)}

\* Somebody else may have selected a healthy key meanwhile.
Replacement(t, k) ==
  IF selected[t] # k /\ InPool(t, selected[t]) /\ selected[t] \notin Cool(t, k)
  THEN selected[t]
  ELSE IF Healthy(t, k) = {} THEN None ELSE Candidates(t, k)[Min(Healthy(t, k))]

\* With no other key the answer is a failure of the target.  The request asks
\* its copy of the provider for two keys first: the copy shares the pool, but for
\* removals after it, so that it has two whenever the provider still does.
RateLimits(r) ==
  LET t == req[r].target
      k == req[r].key
      first == req[r].expected
      next == IF Len(pool[t]) < 2 THEN None ELSE Replacement(t, k)
  IN
  /\ req[r].pc = "sent"
  /\ exhausted' = exhausted \cup {k}
  /\ cooling' = IF Len(pool[t]) < 2 THEN cooling ELSE Cool(t, k)
  /\ req' = [req EXCEPT ![r] =
       IF next = None THEN [@ EXCEPT !.pc = "refused"]
       ELSE [@ EXCEPT !.key = next, !.pending = next,
                      !.expected = IF first = None THEN selected[t] ELSE first]]
  /\ UNCHANGED <<pool, selected, clearing, benched, robin>>

-----------------------------------------------------------------------------
(* The end of the answer. *)

\* Bug: the selection is not compared with the one that failed.
Overwrites(r) == req[r].pending # None

\* The selection is replaced only if it still is the one that failed.
Commits(r) ==
  LET t == req[r].target IN
  /\ req[r].pending # None
  /\ InPool(t, req[r].pending)
  /\ selected[t] = req[r].expected

Completes(r) ==
  LET t == req[r].target IN
  /\ req[r].pc = "streaming"
  /\ req' = [req EXCEPT ![r].pc = "done"]
  /\ selected' = IF Commits(r) THEN [selected EXCEPT ![t] = req[r].pending] ELSE selected
  /\ UNCHANGED <<pool, cooling, clearing, benched, robin, exhausted>>

\* A stream that breaks off selects nothing.
StreamFails(r) ==
  /\ req[r].pc = "streaming"
  /\ req' = [req EXCEPT ![r].pc = "failed"]
  /\ UNCHANGED <<keys, benched, robin, exhausted>>

-----------------------------------------------------------------------------
(* The user edits the keys of a provider; then their cooldowns are         *)
(* forgotten (both in one call, which awaits in between).                  *)

Edits(t) ==
  /\ clearing' = clearing \cup {t}
  /\ UNCHANGED <<cooling, benched, robin, req, exhausted>>

SelectKey(t, k) ==
  /\ InPool(t, k)
  /\ selected' = [selected EXCEPT ![t] = k]
  /\ Edits(t)
  /\ UNCHANGED pool

AddKey(t, k) ==
  /\ \A u \in Target : ~InPool(u, k)
  /\ \E i \in DOMAIN Keys[t] : Keys[t][i] = k
  /\ pool' = [pool EXCEPT ![t] = Append(@, k)]
  /\ selected' = [selected EXCEPT ![t] = k]
  /\ Edits(t)

\* Bound: a provider keeps one key.
RemoveKey(t, k) ==
  /\ Len(pool[t]) > 1
  /\ \E i \in DOMAIN pool[t] :
       pool[t][i] = k /\ pool' = [pool EXCEPT ![t] = RemoveAt(@, i)]
  /\ selected' = IF selected[t] = k THEN [selected EXCEPT ![t] = pool'[t][1]] ELSE selected
  /\ Edits(t)

ClearCooldowns(t) ==
  /\ t \in clearing
  /\ clearing' = clearing \ {t}
  /\ cooling' = {k \in cooling : \A i \in DOMAIN Keys[t] : Keys[t][i] # k}
  /\ UNCHANGED <<pool, selected, benched, robin, req, exhausted>>

KeyRecovers(k) ==
  /\ k \in cooling
  /\ cooling' = cooling \ {k}
  /\ UNCHANGED <<pool, selected, clearing, benched, robin, req, exhausted>>

TargetRecovers(t) ==
  /\ t \in benched
  /\ benched' = benched \ {t}
  /\ UNCHANGED <<keys, robin, req, exhausted>>

-----------------------------------------------------------------------------
\* Upstreams answer, or are given up on.
Goes(r) ==
  \/ Route(r) \/ Serves(r) \/ Hops(r) \/ Stops(r) \/ RateLimits(r)
  \/ Completes(r) \/ StreamFails(r)

Edit(t, k) == SelectKey(t, k) \/ AddKey(t, k) \/ RemoveKey(t, k)

Next ==
  \/ \E r \in Request : Arrive(r) \/ Goes(r)
  \/ \E t \in Target : ClearCooldowns(t) \/ TargetRecovers(t) \/ \E k \in Key : Edit(t, k)
  \/ \E k \in Key : KeyRecovers(k)

Spec == Init /\ [][Next]_vars /\ \A r \in Request : WF_vars(Goes(r))

-----------------------------------------------------------------------------
(***************************************************************************)
(* Concurrent requests and the user's edits take no key away without       *)
(* cause.  "Cool the key that ACTUALLY failed" (key-failover.ts): whoever  *)
(* has changed the selection meanwhile, only a key that its provider has   *)
(* called exhausted goes into cooldown.  A request changes the selection   *)
(* only when its answer is complete, to the key that has served it, and    *)
(* only away from the exhausted key that was selected when its first one   *)
(* failed: another key that the user selects meanwhile stands.  Keys are   *)
(* compared, not choices: if the user selects another key and then that    *)
(* one again, the request replaces it all the same.                        *)
(***************************************************************************)
KeyMovesForCause ==
  [][/\ cooling' \subseteq cooling \cup exhausted'
     /\ \A r \in Request, t \in Target :
          req'[r] # req[r] /\ selected'[t] # selected[t] =>
            /\ req[r].pc = "streaming" /\ req'[r].pc = "done"
            /\ req[r].target = t /\ req[r].key = selected'[t]
            /\ selected[t] \in exhausted
            /\ selected[t] = req[r].expected]_vars

(***************************************************************************)
(* If from some time on keys stay in cooldown and the pools are left       *)
(* alone, a request ends: it tries each target once, and each key that is  *)
(* not in cooldown once at a target.                                       *)
(***************************************************************************)
FailoverEnds ==
  <>[][cooling \subseteq cooling' /\ pool' = pool]_<<cooling, pool>> =>
    \A r \in Request : req[r].pc = "picked" ~> req[r].pc \in {"done", "failed"}
=============================================================================
