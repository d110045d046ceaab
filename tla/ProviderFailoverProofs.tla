----------------------- MODULE ProviderFailoverProofs -----------------------
(***************************************************************************)
(* Proofs about ProviderFailover, for any number of requests, targets and  *)
(* keys and for both strategies.                                           *)
(***************************************************************************)
EXTENDS ProviderFailover, SequenceTheorems, TLAPS

Fields == {"pc", "target", "tried", "key", "expected", "pending"}

Shapes ==
  /\ pool \in [Target -> Seq(Key)]
  /\ selected \in [Target -> Key]
  /\ DOMAIN req = Request
  /\ \A r \in Request : DOMAIN req[r] = Fields

(***************************************************************************)
(* A key that waits to be selected is the key that serves.  The key that   *)
(* it is to replace is exhausted, unless it is that key itself: one that   *)
(* somebody else had selected meanwhile.                                   *)
(***************************************************************************)
IsGrounded(h, spent) ==
  /\ h.pc = "picked" => h.pending = None
  /\ h.expected # None => h.pending # None
  /\ h.pending # None =>
       /\ h.key = h.pending
       /\ h.target \in Target => h.expected \in spent \/ h.expected = h.pending

PendingServes == \A r \in Request : IsGrounded(req[r], exhausted)

\* The configuration selects one of the provider's keys.
SelectedInPool == \A t \in Target : InPool(t, selected[t])

CoolingIsExhausted == cooling \subseteq exhausted

FailoverInv == Shapes /\ PendingServes /\ SelectedInPool /\ CoolingIsExhausted

-----------------------------------------------------------------------------
(* The pools. *)

\* What is taken out of a pool is one entry.
LEMMA RemovesOne ==
  ASSUME NEW S, NEW s \in Seq(S), NEW i \in DOMAIN s, Len(s) > 1
  PROVE  /\ RemoveAt(s, i) \in Seq(S)
         /\ 1 \in DOMAIN RemoveAt(s, i)
         /\ \A j \in DOMAIN s : j # i => \E l \in DOMAIN RemoveAt(s, i) : RemoveAt(s, i)[l] = s[j]
<1> DEFINE a == SubSeq(s, 1, i - 1)
           b == SubSeq(s, i + 1, Len(s))
<1>1. i \in 1..Len(s) /\ Len(s) \in Nat
  OBVIOUS
<1>2. a \in Seq(S) /\ Len(a) = i - 1 /\ \A j \in 1..i - 1 : a[j] = s[j]
  BY <1>1
<1>3. b \in Seq(S) /\ Len(b) = Len(s) - i /\ \A j \in 1..Len(s) - i : b[j] = s[i + j]
  BY <1>1
<1>4. RemoveAt(s, i) = a \o b
  BY DEF RemoveAt
<1> HIDE DEF a, b
<1>5. /\ a \o b \in Seq(S)
      /\ Len(a \o b) = Len(s) - 1
      /\ \A j \in 1..i - 1 : (a \o b)[j] = s[j]
      /\ \A j \in i..Len(s) - 1 : (a \o b)[j] = s[j + 1]
  BY <1>1, <1>2, <1>3
<1>6. ASSUME NEW j \in DOMAIN s, j # i
      PROVE  \E l \in DOMAIN (a \o b) : (a \o b)[l] = s[j]
  <2>1. CASE j < i
    <3>1. j \in 1..i - 1 /\ (a \o b)[j] = s[j]
      BY <1>1, <1>5, <2>1
    <3>2. j \in DOMAIN (a \o b)
      BY <1>1, <1>5, <3>1
    <3> QED BY <3>1, <3>2
  <2>2. CASE j > i
    <3>1. j - 1 \in i..Len(s) - 1 /\ (a \o b)[j - 1] = s[(j - 1) + 1]
      BY <1>1, <1>5, <2>2
    <3>2. j - 1 \in DOMAIN (a \o b) /\ (a \o b)[j - 1] = s[j]
      BY <1>1, <1>5, <3>1
    <3> QED BY <3>2
  <2> QED BY <1>1, <1>6, <2>1, <2>2
<1>7. 1 \in DOMAIN (a \o b)
  BY <1>1, <1>5
<1> QED BY <1>4, <1>5, <1>6, <1>7

\* The edits of a pool leave a selection that is in the pool.
LEMMA EditsKeepSelection ==
  ASSUME Shapes, SelectedInPool, NEW t \in Target, NEW k \in Key, Edit(t, k)
  PROVE  /\ pool' \in [Target -> Seq(Key)]
         /\ selected' \in [Target -> Key]
         /\ SelectedInPool'
<1> USE DEF Shapes, SelectedInPool, InPool
<1>1. CASE SelectKey(t, k)
  BY <1>1 DEF SelectKey
<1>2. CASE AddKey(t, k)
  <2>1. /\ pool' = [pool EXCEPT ![t] = Append(pool[t], k)]
        /\ selected' = [selected EXCEPT ![t] = k]
    BY <1>2 DEF AddKey
  <2>2. /\ Append(pool[t], k) \in Seq(Key)
        /\ Len(pool[t]) + 1 \in DOMAIN Append(pool[t], k)
        /\ Append(pool[t], k)[Len(pool[t]) + 1] = k
    OBVIOUS
  <2>3. ASSUME NEW u \in Target
        PROVE  \E i \in DOMAIN pool'[u] : pool'[u][i] = selected'[u]
    BY <2>1, <2>2
  <2> QED BY <2>1, <2>2, <2>3
<1>3. CASE RemoveKey(t, k)
  <2>1. PICK i \in DOMAIN pool[t] :
          pool[t][i] = k /\ pool' = [pool EXCEPT ![t] = RemoveAt(pool[t], i)]
    BY <1>3 DEF RemoveKey
  <2>2. /\ Len(pool[t]) > 1
        /\ selected' = IF selected[t] = k THEN [selected EXCEPT ![t] = pool'[t][1]] ELSE selected
    BY <1>3 DEF RemoveKey
  <2> DEFINE rest == RemoveAt(pool[t], i)
  <2>3. /\ rest \in Seq(Key)
        /\ 1 \in DOMAIN rest
        /\ \A j \in DOMAIN pool[t] : j # i => \E l \in DOMAIN rest : rest[l] = pool[t][j]
    BY <2>2, RemovesOne
  <2>4. pool' = [pool EXCEPT ![t] = rest]
    BY <2>1
  <2> HIDE DEF rest
  <2>5. rest[1] \in Key /\ pool'[t] = rest
    BY <2>3, <2>4
  <2>6. /\ pool' \in [Target -> Seq(Key)]
        /\ selected' \in [Target -> Key]
    BY <2>2, <2>3, <2>4, <2>5
  <2>7. ASSUME NEW u \in Target
        PROVE  \E j \in DOMAIN pool'[u] : pool'[u][j] = selected'[u]
    <3>1. CASE u # t
      BY <2>2, <2>4, <3>1
    <3>2. CASE u = t /\ selected[t] = k
      BY <2>2, <2>3, <2>5, <3>2
    <3>3. CASE u = t /\ selected[t] # k
      <4>1. PICK j \in DOMAIN pool[t] : pool[t][j] = selected[t]
        OBVIOUS
      <4>2. j # i
        BY <2>1, <3>3, <4>1
      <4> QED BY <2>2, <2>3, <2>5, <3>3, <4>1, <4>2
    <3> QED BY <3>1, <3>2, <3>3
  <2> QED BY <2>6, <2>7
<1> QED BY <1>1, <1>2, <1>3 DEF Edit

-----------------------------------------------------------------------------
(* The handlers. *)

\* A turn begins anew at another target, or ends the request.
LEMMA TurnDoes ==
  ASSUME Shapes, PendingServes, NEW r \in Request, NEW S, NEW inUse,
         Turn(r, S, inUse)
  PROVE  /\ DOMAIN req' = Request
         /\ DOMAIN req'[r] = Fields
         /\ IsGrounded(req'[r], exhausted)
         /\ \A q \in Request : q # r => req'[q] = req[q]
<1> DEFINE new == IF S = {} THEN [req[r] EXCEPT !.pc = "failed"]
                  ELSE [New EXCEPT !.pc = "picked", !.target = Picked(S, inUse),
                                   !.tried = req[r].tried \cup {Picked(S, inUse)}]
<1>1. req' = [req EXCEPT ![r] = new]
  BY DEF Turn
<1>2. IsGrounded(req[r], exhausted) /\ DOMAIN req[r] = Fields /\ DOMAIN req = Request
  BY DEF Shapes, PendingServes
<1>3. DOMAIN new = Fields /\ IsGrounded(new, exhausted)
  <2>1. CASE S = {}
    BY <1>2, <2>1 DEF IsGrounded, Fields
  <2>2. CASE S # {}
    BY <2>2 DEF New, IsGrounded, Fields
  <2> QED BY <2>1, <2>2
<1> HIDE DEF new
<1> QED BY <1>1, <1>2, <1>3

\* A rate limit replaces the key by one that serves from now on.
LEMMA RateLimitsDoes ==
  ASSUME Shapes, PendingServes, SelectedInPool, CoolingIsExhausted,
         NEW r \in Request, RateLimits(r)
  PROVE  /\ DOMAIN req' = Request
         /\ DOMAIN req'[r] = Fields
         /\ IsGrounded(req'[r], exhausted')
         /\ \A q \in Request : q # r => req'[q] = req[q]
         /\ cooling' \subseteq cooling \cup exhausted'
<1> DEFINE t == req[r].target
           k == req[r].key
           next == IF Len(pool[t]) < 2 THEN None ELSE Replacement(t, k)
           selection == selected[t]
           expected == IF req[r].expected = None THEN selection ELSE req[r].expected
           new == IF next = None THEN [req[r] EXCEPT !.pc = "refused"]
                  ELSE [req[r] EXCEPT !.key = next, !.pending = next, !.expected = expected]
<1>1. /\ req' = [req EXCEPT ![r] = new]
      /\ exhausted' = exhausted \cup {k}
      /\ req[r].pc = "sent"
  BY DEF RateLimits
<1>2. IsGrounded(req[r], exhausted) /\ DOMAIN req[r] = Fields /\ DOMAIN req = Request
  BY DEF Shapes, PendingServes
<1>3. cooling' \subseteq cooling \cup {k}
  BY DEF RateLimits, Cool
<1>4. ASSUME t \in Target, next # None
      PROVE  selection = k \/ selection \in exhausted \/ next = selection
  <2>1. next = Replacement(t, k)
    BY <1>4
  <2>2. InPool(t, selection)
    BY <1>4 DEF SelectedInPool
  <2>3. CASE selection \in Cool(t, k)
    BY <2>3 DEF Cool, CoolingIsExhausted
  <2>4. CASE selection \notin Cool(t, k) /\ selection # k
    BY <2>1, <2>2, <2>4 DEF Replacement
  <2> QED BY <2>3, <2>4
<1> HIDE DEF next
<1>5. DOMAIN new = Fields
  BY <1>2 DEF Fields
<1>6. IsGrounded(new, exhausted \cup {k})
  <2>1. CASE next = None
    <3>1. new = [req[r] EXCEPT !.pc = "refused"]
      BY <2>1
    <3> QED BY <1>2, <3>1 DEF IsGrounded, Fields
  <2>2. CASE next # None
    <3>1. new = [req[r] EXCEPT !.key = next, !.pending = next, !.expected = expected]
      BY <2>2
    <3>2. t \in Target => expected \in exhausted \cup {k} \/ expected = next
      <4>1. CASE req[r].expected = None
        BY <1>4, <2>2, <4>1
      <4>2. CASE req[r].expected # None
        BY <1>2, <4>2 DEF IsGrounded
      <4> QED BY <4>1, <4>2
    <3> HIDE DEF expected, new
    <3>3. /\ new.pc = "sent" /\ new.key = next /\ new.pending = next
          /\ new.expected = expected /\ new.target = t
      BY <1>1, <1>2, <3>1 DEF Fields
    <3> QED BY <2>2, <3>2, <3>3 DEF IsGrounded
  <2> QED BY <2>1, <2>2
<1> HIDE DEF new
<1> QED BY <1>1, <1>2, <1>3, <1>5, <1>6

\* Any other step of a handler moves it on and does not touch its keys.
LEMMA MovesOn ==
  ASSUME Shapes, PendingServes, NEW r \in Request, NEW to, to # "picked",
         req' = [req EXCEPT ![r].pc = to]
  PROVE  /\ DOMAIN req' = Request
         /\ DOMAIN req'[r] = Fields
         /\ IsGrounded(req'[r], exhausted)
         /\ \A q \in Request : q # r => req'[q] = req[q]
<1>1. IsGrounded(req[r], exhausted) /\ DOMAIN req[r] = Fields /\ DOMAIN req = Request
  BY DEF Shapes, PendingServes
<1> DEFINE new == [req[r] EXCEPT !.pc = to]
<1>2. DOMAIN new = Fields /\ IsGrounded(new, exhausted)
  BY <1>1 DEF IsGrounded, Fields
<1>3. req' = [req EXCEPT ![r] = new]
  OBVIOUS
<1> HIDE DEF new
<1> QED BY <1>1, <1>2, <1>3

-----------------------------------------------------------------------------
(* The invariant. *)

LEMMA InitInv == Init => FailoverInv
<1> SUFFICES ASSUME Init PROVE FailoverInv
  OBVIOUS
<1>1. \A t \in Target : Keys[t] \in Seq(Key) /\ Keys[t] # << >>
  BY FailoverConstants
<1>2. \A t \in Target : 1 \in DOMAIN Keys[t] /\ Keys[t][1] \in Key
  BY <1>1
<1>3. Keys \in [Target -> Seq(Key)]
  BY FailoverConstants
<1>4. \A r \in Request : DOMAIN req[r] = Fields
  BY DEF Init, New, Fields
<1>5. Shapes
  BY <1>2, <1>3, <1>4 DEF Init, Shapes
<1>6. PendingServes
  BY DEF Init, New, PendingServes, IsGrounded
<1>7. SelectedInPool
  BY <1>2 DEF Init, SelectedInPool, InPool
<1>8. CoolingIsExhausted
  BY DEF Init, CoolingIsExhausted
<1> QED BY <1>5, <1>6, <1>7, <1>8 DEF FailoverInv

\* What remains to be shown of a step of a handler.
LEMMA HandlerKeeps ==
  ASSUME FailoverInv, NEW r \in Request,
         DOMAIN req' = Request,
         DOMAIN req'[r] = Fields,
         IsGrounded(req'[r], exhausted'),
         \A q \in Request : q # r => req'[q] = req[q],
         exhausted \subseteq exhausted'
  PROVE  /\ \A q \in Request : DOMAIN req'[q] = Fields
         /\ PendingServes'
<1> USE DEF FailoverInv, Shapes, PendingServes
<1>1. \A q \in Request : DOMAIN req'[q] = Fields
  OBVIOUS
<1>2. ASSUME NEW q \in Request PROVE IsGrounded(req'[q], exhausted')
  BY DEF IsGrounded
<1> QED BY <1>1, <1>2

LEMMA HandlersKeepInv ==
  ASSUME FailoverInv, NEW r \in Request, Arrive(r) \/ Goes(r)
  PROVE  FailoverInv'
<1> USE DEF FailoverInv
<1>1. CASE UNCHANGED <<pool, selected, cooling, exhausted>> /\ (Arrive(r) \/ Hops(r))
  <2>1. \E S, inUse : Turn(r, S, inUse)
    BY <1>1 DEF Arrive, Hops
  <2>2. (\A q \in Request : DOMAIN req'[q] = Fields) /\ PendingServes' /\ DOMAIN req' = Request
    BY <1>1, <2>1, TurnDoes, HandlerKeeps
  <2> QED BY <1>1, <2>2 DEF Shapes, SelectedInPool, InPool, CoolingIsExhausted
<1>2. CASE /\ UNCHANGED <<pool, selected, cooling, exhausted>>
           /\ Serves(r) \/ Stops(r) \/ StreamFails(r)
  <2>1. \E to : to # "picked" /\ req' = [req EXCEPT ![r].pc = to]
    BY <1>2 DEF Serves, Stops, StreamFails
  <2>2. (\A q \in Request : DOMAIN req'[q] = Fields) /\ PendingServes' /\ DOMAIN req' = Request
    BY <1>2, <2>1, MovesOn, HandlerKeeps
  <2> QED BY <1>2, <2>2 DEF Shapes, SelectedInPool, InPool, CoolingIsExhausted
<1>3. CASE Route(r)
  <2> DEFINE key == selected[req[r].target]
             new == [req[r] EXCEPT !.pc = "sent", !.key = key]
  <2>1. /\ req' = [req EXCEPT ![r] = new]
        /\ UNCHANGED <<pool, selected, cooling, exhausted>>
        /\ req[r].pc = "picked"
    BY <1>3 DEF Route, keys, Shapes
  <2>2. DOMAIN req[r] = Fields /\ IsGrounded(req[r], exhausted)
    BY DEF Shapes, PendingServes
  <2> HIDE DEF key
  <2>3. DOMAIN new = Fields
    BY <2>2 DEF Fields
  <2>4. new.pc = "sent" /\ new.pending = req[r].pending /\ new.expected = req[r].expected
    BY <2>2 DEF Fields
  <2>5. IsGrounded(new, exhausted)
    BY <2>1, <2>2, <2>4 DEF IsGrounded
  <2> HIDE DEF new
  <2>6. (\A q \in Request : DOMAIN req'[q] = Fields) /\ PendingServes' /\ DOMAIN req' = Request
    BY <2>1, <2>3, <2>5, HandlerKeeps DEF Shapes
  <2> QED BY <2>1, <2>6 DEF Shapes, SelectedInPool, InPool, CoolingIsExhausted
<1>4. CASE RateLimits(r)
  <2>1. /\ UNCHANGED <<pool, selected>>
        /\ exhausted \subseteq exhausted'
    BY <1>4 DEF RateLimits
  <2>2. (\A q \in Request : DOMAIN req'[q] = Fields) /\ PendingServes' /\ DOMAIN req' = Request
    BY <1>4, <2>1, RateLimitsDoes, HandlerKeeps
  <2>3. cooling' \subseteq cooling \cup exhausted'
    BY <1>4, RateLimitsDoes
  <2> QED BY <2>1, <2>2, <2>3 DEF Shapes, SelectedInPool, InPool, CoolingIsExhausted
<1>5. CASE Completes(r)
  <2>1. /\ req' = [req EXCEPT ![r].pc = "done"]
        /\ UNCHANGED <<pool, cooling, exhausted>>
    BY <1>5 DEF Completes
  <2>2. (\A q \in Request : DOMAIN req'[q] = Fields) /\ PendingServes' /\ DOMAIN req' = Request
    BY <2>1, MovesOn, HandlerKeeps
  <2> DEFINE t == req[r].target
             key == req[r].pending
  <2>3. CASE Commits(r) /\ t \in Target
    <3>1. selected' = [selected EXCEPT ![t] = key] /\ InPool(t, key)
      BY <1>5, <2>3 DEF Completes, Commits
    <3>2. key \in Key
      BY <2>3, <3>1 DEF InPool, Shapes
    <3> HIDE DEF key, t
    <3>3. selected' \in [Target -> Key]
      BY <3>1, <3>2 DEF Shapes
    <3>4. SelectedInPool'
      BY <2>1, <3>1 DEF SelectedInPool, InPool, Shapes
    <3> QED BY <2>1, <2>2, <3>3, <3>4 DEF Shapes, CoolingIsExhausted
  <2>4. CASE ~(Commits(r) /\ t \in Target)
    <3>1. selected' = selected
      BY <1>5, <2>4 DEF Completes, Shapes
    <3> QED BY <2>1, <2>2, <3>1 DEF Shapes, SelectedInPool, InPool, CoolingIsExhausted
  <2> QED BY <2>3, <2>4
<1>6. Arrive(r) \/ Hops(r) \/ Serves(r) \/ Stops(r) \/ StreamFails(r)
        => UNCHANGED <<pool, selected, cooling, exhausted>>
  BY DEF Arrive, Hops, Serves, Stops, StreamFails, keys
<1> QED BY <1>1, <1>2, <1>3, <1>4, <1>5, <1>6 DEF Goes

\* Edits and recoveries do not meddle with handlers.
LEMMA OthersKeepInv ==
  ASSUME FailoverInv, UNCHANGED <<req, exhausted>>, cooling' \subseteq cooling,
         \/ UNCHANGED <<pool, selected>>
         \/ \E t \in Target, k \in Key : Edit(t, k)
  PROVE  FailoverInv'
<1> USE DEF FailoverInv
<1>1. /\ pool' \in [Target -> Seq(Key)]
      /\ selected' \in [Target -> Key]
      /\ SelectedInPool'
  <2>1. CASE UNCHANGED <<pool, selected>>
    BY <2>1 DEF Shapes, SelectedInPool, InPool
  <2>2. CASE \E t \in Target, k \in Key : Edit(t, k)
    BY <2>2, EditsKeepSelection
  <2> QED BY <2>1, <2>2
<1>2. Shapes' /\ PendingServes' /\ CoolingIsExhausted'
  BY <1>1 DEF Shapes, PendingServes, CoolingIsExhausted
<1> QED BY <1>1, <1>2

\* What the steps that are no handler's do.
LEMMA OthersDo ==
  /\ \A t \in Target, k \in Key : Edit(t, k) => UNCHANGED <<req, exhausted, cooling>>
  /\ \A t \in Target : ClearCooldowns(t) \/ TargetRecovers(t) =>
       UNCHANGED <<req, exhausted, pool, selected>> /\ cooling' \subseteq cooling
  /\ \A k \in Key : KeyRecovers(k) =>
       UNCHANGED <<req, exhausted, pool, selected>> /\ cooling' \subseteq cooling
BY DEF Edit, SelectKey, AddKey, RemoveKey, Edits, ClearCooldowns, TargetRecovers, KeyRecovers, keys

LEMMA NextKeepsInv == FailoverInv /\ [Next]_vars => FailoverInv'
<1> SUFFICES ASSUME FailoverInv, [Next]_vars PROVE FailoverInv'
  OBVIOUS
<1>1. CASE \E r \in Request : Arrive(r) \/ Goes(r)
  BY <1>1, HandlersKeepInv
<1>2. CASE \E t \in Target : ClearCooldowns(t) \/ TargetRecovers(t)
  BY <1>2, OthersDo, OthersKeepInv
<1>3. CASE \E t \in Target, k \in Key : Edit(t, k)
  BY <1>3, OthersDo, OthersKeepInv
<1>4. CASE \E k \in Key : KeyRecovers(k)
  BY <1>4, OthersDo, OthersKeepInv
<1>5. CASE UNCHANGED vars
  BY <1>5, OthersKeepInv DEF vars, keys
<1> QED BY <1>1, <1>2, <1>3, <1>4, <1>5 DEF Next

LEMMA Invariance == Spec => []FailoverInv
BY InitInv, NextKeepsInv, PTL DEF Spec

(***************************************************************************)
(* A request that waits to have its key selected is served by that key,    *)
(* and the key that it would replace is exhausted: rotateKeyOnStatus and   *)
(* the retries of handleResponses, whoever edits the pool meanwhile.  The  *)
(* configuration always selects a key of the pool, and none is in cooldown *)
(* that its provider has not called exhausted.                             *)
(***************************************************************************)
THEOREM RetriesAreGrounded == Spec => [](PendingServes /\ SelectedInPool /\ CoolingIsExhausted)
BY Invariance, PTL DEF FailoverInv

-----------------------------------------------------------------------------
(* The keys that are moved. *)

\* What KeyMovesForCause says of a step.
MovesForCause ==
  /\ cooling' \subseteq cooling \cup exhausted'
  /\ \A r \in Request, t \in Target :
       req'[r] # req[r] /\ selected'[t] # selected[t] =>
         /\ req[r].pc = "streaming" /\ req'[r].pc = "done"
         /\ req[r].target = t /\ req[r].key = selected'[t]
         /\ selected[t] \in exhausted
         /\ selected[t] = req[r].expected

\* The answer that is complete moves the selection for cause.
LEMMA CompletionMovesForCause ==
  ASSUME FailoverInv, NEW q \in Request, Completes(q)
  PROVE  MovesForCause
<1> USE DEF FailoverInv
<1>1. /\ req[q].pc = "streaming"
      /\ req' = [req EXCEPT ![q].pc = "done"]
      /\ cooling' = cooling
  BY DEF Completes
<1>2. ASSUME NEW r \in Request, NEW t \in Target, req'[r] # req[r], selected'[t] # selected[t]
      PROVE  /\ req[r].pc = "streaming" /\ req'[r].pc = "done"
             /\ req[r].target = t /\ req[r].key = selected'[t]
             /\ selected[t] \in exhausted
             /\ selected[t] = req[r].expected
  <2>1. r = q
    BY <1>1, <1>2 DEF Shapes
  <2>2. DOMAIN req = Request /\ DOMAIN req[r] = Fields /\ IsGrounded(req[r], exhausted)
    BY DEF Shapes, PendingServes
  <2>3. req'[r].pc = "done"
    BY <1>1, <2>1, <2>2 DEF Fields
  <2>4. /\ Commits(r)
        /\ selected' = [selected EXCEPT ![req[r].target] = req[r].pending]
    BY <1>2, <2>1 DEF Completes
  <2>5. req[r].target = t /\ selected'[t] = req[r].pending
    BY <1>2, <2>4 DEF Shapes
  <2>6. req[r].pending # None /\ selected[t] = req[r].expected
    BY <2>4, <2>5 DEF Commits
  <2> QED BY <1>1, <1>2, <2>1, <2>2, <2>3, <2>5, <2>6 DEF IsGrounded
<1> QED BY <1>1, <1>2 DEF MovesForCause

LEMMA StepsMoveForCause ==
  ASSUME FailoverInv, [Next]_vars
  PROVE  MovesForCause
<1>1. CASE UNCHANGED vars
  BY <1>1 DEF MovesForCause, vars, keys
<1>2. ASSUME NEW r \in Request, Arrive(r) \/ Goes(r)
      PROVE  MovesForCause
  <2>1. CASE Completes(r)
    BY <2>1, CompletionMovesForCause
  <2>2. CASE RateLimits(r)
    <3>1. cooling' \subseteq cooling \cup exhausted' /\ selected' = selected
      BY <2>2, RateLimitsDoes DEF FailoverInv, RateLimits
    <3> QED BY <3>1 DEF MovesForCause
  <2>3. CASE ~Completes(r) /\ ~RateLimits(r)
    <3>1. cooling' = cooling /\ selected' = selected
      BY <1>2, <2>3 DEF Arrive, Goes, Route, Serves, Hops, Stops, StreamFails, keys
    <3> QED BY <3>1 DEF MovesForCause
  <2> QED BY <2>1, <2>2, <2>3
<1>3. CASE UNCHANGED req /\ cooling' \subseteq cooling
  BY <1>3 DEF MovesForCause
<1>4. CASE \E t \in Target : ClearCooldowns(t) \/ TargetRecovers(t) \/ \E k \in Key : Edit(t, k)
  BY <1>3, <1>4, OthersDo
<1>5. CASE \E k \in Key : KeyRecovers(k)
  BY <1>3, <1>5, OthersDo
<1> QED BY <1>1, <1>2, <1>4, <1>5 DEF Next

(***************************************************************************)
(* Keys are put in cooldown and deselected for cause, however requests and *)
(* edits overtake each other: rotateKeyOnStatus cools the key that failed, *)
(* commitProviderKeyAfterSuccessfulRetry replaces the selection that had   *)
(* failed, by the key that has served.                                     *)
(***************************************************************************)
THEOREM KeysMoveForCause == Spec => KeyMovesForCause
<1>1. FailoverInv /\ [Next]_vars => [MovesForCause]_vars
  BY StepsMoveForCause
<1>2. Spec => [][MovesForCause]_vars
  BY <1>1, Invariance, PTL DEF Spec
<1> QED BY <1>2 DEF KeyMovesForCause, MovesForCause
=============================================================================
