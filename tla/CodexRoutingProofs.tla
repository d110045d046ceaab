------------------------- MODULE CodexRoutingProofs -------------------------
(***************************************************************************)
(* Proofs about CodexTokens and CodexRouting, for every set of accounts,   *)
(* of threads and of concurrent calls, and for every bound on logins,      *)
(* rotations and generations.  The steps of CodexRouting are steps of      *)
(* CodexTokens, so what is proved of the accounts, first, holds for the    *)
(* requests that use them.                                                 *)
(***************************************************************************)
EXTENDS CodexRouting, TLAPS

-----------------------------------------------------------------------------
(* CodexTokens: the accounts. *)


LoginId == 1..MaxLogins

Stored == [gen : Nat, cred : Credential \cup {None}]

(***************************************************************************)
(* The store gives the account login l: it was the last one, or its        *)
(* credential is from it.                                                  *)
(***************************************************************************)
Gives(s, last, l) ==
  \/ last = l
  \/ s.cred \in Credential /\ s.cred.grant[1] = l

(***************************************************************************)
(* Account a has part in login l: through the store, or through a call     *)
(* that is to refresh a grant of it.                                       *)
(***************************************************************************)
Part(a, l) ==
  \/ Gives(store[a], loggedIn[a], l)
  \/ \E c \in Caller : call[c].of = a /\ call[c].grant \in Grant /\ call[c].grant[1] = l

(***************************************************************************)
(* Two accounts have part only in logins that are on record as shared.     *)
(***************************************************************************)
SharedByTwo ==
  \A a, b \in Account, l \in LoginId : a # b /\ Part(a, l) /\ Part(b, l) => l \in shared

(***************************************************************************)
(* An account holds a credential of its last login, or both that login and *)
(* the one of its credential are shared.                                   *)
(***************************************************************************)
AccountInv(s, last, sh, n) ==
  /\ s.cred # None => \/ s.cred.grant[1] = last
                      \/ last \in sh /\ s.cred.grant[1] \in sh
  /\ s.cred = None => last = None
  /\ \A l \in LoginId : Gives(s, last, l) => l <= n

(***************************************************************************)
(* What is known of a call: what it is about; that a call which ended with *)
(* a credential of another login ended so because its account was logged   *)
(* in anew; and that, if the generation it has read is still that of the   *)
(* account, so is the grant it presents, or has got.                       *)
(***************************************************************************)
CallInv(r, st, last, sh, n) ==
  /\ r.pc \in {"POLL", "FETCH", "REPLY", "SETTLED", "WAIT", "WOKEN"} =>
       r.of \in Account /\ r.grant \in Grant
  /\ r.pc \in {"WOKEN", "DONE"} => r.cred \in Credential
  /\ r.grant \in Grant => r.of \in Account /\ r.grant[1] <= n
  /\ r.cred \in Credential => r.cred.grant[1] <= n
  /\ r.pc \in {"SETTLED", "WOKEN"} /\ r.cred \in Credential
       /\ r.cred.grant[1] # r.grant[1]
     => r.grant[1] \in sh \/ last[r.of] # r.grant[1]
  /\ r.pc \in {"FETCH", "REPLY"} =>
       /\ r.gen <= st[r.of].gen
       /\ st[r.of].cred # None /\ st[r.of].gen = r.gen => st[r.of].cred.grant = r.grant
  /\ r.pc = "REPLY" /\ r.cred \in Credential => r.cred.grant[1] = r.grant[1]
  /\ r.pc \in {"SETTLED", "DONE"} /\ r.cred \in Credential =>
       /\ r.of \in Account /\ r.gen <= st[r.of].gen
       /\ st[r.of].cred # None /\ st[r.of].gen = r.gen =>
            st[r.of].cred.grant = r.cred.grant

TokensInv ==
  /\ TokensTypeOK
  /\ SharedByTwo
  /\ \A a \in Account : AccountInv(store[a], loggedIn[a], shared, logins)
  /\ \A c \in Caller : CallInv(call[c], store, loggedIn, shared, logins)

-----------------------------------------------------------------------------
(***************************************************************************)
(* An account may come to s and to the last login l.                       *)
(***************************************************************************)
MayBecome(a, s, l) ==
  /\ AccountInv(s, l, shared', logins')
  /\ \A m \in LoginId : Gives(s, l, m) => Part(a, m) \/ m \in shared' \/ m > logins
  /\ l \in LoginId => l = loggedIn[a] \/ l \in shared' \/ l > logins
  /\ s.gen >= store[a].gen
  /\ s.gen = store[a].gen /\ s.cred # None =>
       store[a].cred # None /\ s.cred.grant = store[a].cred.grant

(***************************************************************************)
(* A call may come to r, if what it is to refresh is its account's affair. *)
(***************************************************************************)
MayCome(r) ==
  /\ CallInv(r, store', loggedIn', shared', logins')
  /\ r.grant \in Grant => Part(r.of, r.grant[1])

(***************************************************************************)
(* A step in which one account at most changes keeps the invariant, if it  *)
(* and the calls that change become what they may.                         *)
(***************************************************************************)
LEMMA GrantLogin == \A g \in Grant : g[1] \in LoginId /\ g[2] \in 0..MaxRotations
BY DEF Grant, LoginId

LEMMA StepKeeps ==
  ASSUME TokensInv, TokensTypeOK', NEW a,
         logins <= logins', shared \subseteq shared',
         \A b \in Account \ {a} : store'[b] = store[b] /\ loggedIn'[b] = loggedIn[b],
         a \in Account => MayBecome(a, store'[a], loggedIn'[a]),
         \A c \in Caller : call'[c] = call[c] \/ MayCome(call'[c])
  PROVE  TokensInv'
<1>0. /\ store \in [Account -> Stored] /\ store' \in [Account -> Stored]
      /\ call \in [Caller -> CallRecord] /\ call' \in [Caller -> CallRecord]
      /\ loggedIn \in [Account -> LoginId \cup {None}]
      /\ loggedIn' \in [Account -> LoginId \cup {None}]
      /\ logins \in Nat /\ logins' \in Nat
  BY TokenConstants DEF TokensInv, TokensTypeOK, Stored, LoginId
<1>1. ASSUME NEW b \in Account
      PROVE  AccountInv(store'[b], loggedIn'[b], shared', logins')
  <2>1. CASE b = a
    BY <2>1 DEF MayBecome
  <2>2. CASE b # a
    <3>1. AccountInv(store[b], loggedIn[b], shared, logins)
      BY DEF TokensInv
    <3>2. store'[b] = store[b] /\ loggedIn'[b] = loggedIn[b]
      BY <2>2
    <3> QED BY <1>0, <3>1, <3>2 DEF AccountInv, LoginId
  <2> QED BY <2>1, <2>2
<1>2. ASSUME NEW b \in Account
      PROVE  /\ store'[b].gen >= store[b].gen
             /\ store'[b].gen = store[b].gen /\ store'[b].cred # None =>
                  store[b].cred # None /\ store'[b].cred.grant = store[b].cred.grant
             /\ loggedIn'[b] \in LoginId =>
                  \/ loggedIn'[b] = loggedIn[b]
                  \/ loggedIn'[b] \in shared' \/ loggedIn'[b] > logins
  <2>1. CASE b = a
    BY <2>1 DEF MayBecome
  <2>2. CASE b # a
    BY <1>0, <2>2 DEF Stored
  <2> QED BY <2>1, <2>2
<1>3. ASSUME NEW c \in Caller
      PROVE  CallInv(call'[c], store', loggedIn', shared', logins')
  <2>1. CASE MayCome(call'[c])
    BY <2>1 DEF MayCome
  <2>2. CASE call'[c] = call[c]
    <3> DEFINE r == call[c]
    <3>1. r \in CallRecord /\ CallInv(r, store, loggedIn, shared, logins)
      BY <1>0 DEF TokensInv
    <3>2. r.grant \in Grant => r.grant[1] \in LoginId
      BY GrantLogin
    <3>3. r.cred \in Credential => r.cred.grant[1] \in LoginId
      BY GrantLogin DEF Credential
    <3> HIDE DEF r
    <3>4. /\ r.grant \in Grant => r.of \in Account /\ r.grant[1] <= logins'
          /\ r.cred \in Credential => r.cred.grant[1] <= logins'
      BY <1>0, <3>1, <3>2, <3>3 DEF CallInv, LoginId
    <3>5. ASSUME r.pc \in {"SETTLED", "WOKEN"}, r.cred \in Credential,
                 r.cred.grant[1] # r.grant[1]
          PROVE  r.grant[1] \in shared' \/ loggedIn'[r.of] # r.grant[1]
      <4>1. r.of \in Account /\ r.grant \in Grant
        BY <3>1, <3>5 DEF CallInv
      <4>2. r.grant[1] \in shared \/ loggedIn[r.of] # r.grant[1]
        BY <3>1, <3>5 DEF CallInv
      <4>3. r.grant[1] \in LoginId /\ r.grant[1] <= logins
        BY <3>1, <3>2, <4>1 DEF CallInv
      <4> QED BY <1>0, <1>2, <4>1, <4>2, <4>3 DEF LoginId
    <3>6. ASSUME r.pc \in {"FETCH", "REPLY"}
          PROVE  /\ r.gen <= store'[r.of].gen
                 /\ store'[r.of].cred # None /\ store'[r.of].gen = r.gen =>
                      store'[r.of].cred.grant = r.grant
      <4>1. r.of \in Account /\ r.gen \in Nat
        BY <3>1, <3>6 DEF CallInv, CallRecord
      <4>2. /\ r.gen <= store[r.of].gen
            /\ store[r.of].cred # None /\ store[r.of].gen = r.gen =>
                 store[r.of].cred.grant = r.grant
        BY <3>1, <3>6 DEF CallInv
      <4>3. store[r.of].gen \in Nat /\ store'[r.of].gen \in Nat
        BY <1>0, <4>1 DEF Stored
      <4> QED BY <1>2, <4>1, <4>2, <4>3
    <3>7. ASSUME r.pc \in {"SETTLED", "DONE"}, r.cred \in Credential
          PROVE  /\ r.of \in Account /\ r.gen <= store'[r.of].gen
                 /\ store'[r.of].cred # None /\ store'[r.of].gen = r.gen =>
                      store'[r.of].cred.grant = r.cred.grant
      <4>1. r.of \in Account /\ r.gen \in Nat
        BY <3>1, <3>7 DEF CallInv, CallRecord
      <4>2. /\ r.gen <= store[r.of].gen
            /\ store[r.of].cred # None /\ store[r.of].gen = r.gen =>
                 store[r.of].cred.grant = r.cred.grant
        BY <3>1, <3>7 DEF CallInv
      <4>3. store[r.of].gen \in Nat /\ store'[r.of].gen \in Nat
        BY <1>0, <4>1 DEF Stored
      <4> QED BY <1>2, <4>1, <4>2, <4>3
    <3>8. CallInv(r, store', loggedIn', shared', logins')
      BY <3>1, <3>4, <3>5, <3>6, <3>7 DEF CallInv
    <3> QED BY <2>2, <3>8 DEF r
  <2> QED BY <2>1, <2>2
<1>4. ASSUME NEW b \in Account, NEW l \in LoginId, Part(b, l)'
      PROVE  Part(b, l) \/ l \in shared' \/ (b = a /\ l > logins)
  <2>1. CASE Gives(store'[b], loggedIn'[b], l)
    <3>1. CASE b = a
      BY <2>1, <3>1 DEF MayBecome
    <3>2. CASE b # a
      BY <2>1, <3>2 DEF Part
    <3> QED BY <3>1, <3>2
  <2>2. ASSUME NEW c \in Caller, call'[c].of = b, call'[c].grant \in Grant,
               call'[c].grant[1] = l
        PROVE  Part(b, l)
    BY <2>2 DEF MayCome, Part
  <2> QED BY <1>4, <2>1, <2>2 DEF Part
<1>5. ASSUME NEW b \in Account, NEW l \in LoginId, Part(b, l)
      PROVE  l <= logins
  <2>1. CASE Gives(store[b], loggedIn[b], l)
    BY <2>1 DEF TokensInv, AccountInv
  <2>2. ASSUME NEW c \in Caller, call[c].grant \in Grant, call[c].grant[1] = l
        PROVE  l <= logins
    BY <2>2 DEF TokensInv, CallInv
  <2> QED BY <1>5, <2>1, <2>2 DEF Part
<1>6. SharedByTwo'
  <2> SUFFICES ASSUME NEW b \in Account, NEW d \in Account, NEW l \in LoginId,
                      b # d, Part(b, l)', Part(d, l)'
               PROVE  l \in shared'
    BY DEF SharedByTwo
  <2>1. CASE l \in shared'
    BY <2>1
  <2>2. CASE l \notin shared'
    <3>1. Part(b, l) \/ (b = a /\ l > logins)
      BY <1>4, <2>2
    <3>2. Part(d, l) \/ (d = a /\ l > logins)
      BY <1>4, <2>2
    <3>3. Part(b, l) /\ Part(d, l)
      BY <1>0, <1>5, <3>1, <3>2 DEF LoginId
    <3> QED BY <3>3 DEF TokensInv, SharedByTwo
  <2> QED BY <2>1, <2>2
<1> QED BY <1>1, <1>3, <1>6 DEF TokensInv

(***************************************************************************)
(* A step that changes calls only, and what TokensInv does not speak of.   *)
(***************************************************************************)
LEMMA CallsKeep ==
  ASSUME TokensInv, TokensTypeOK',
         store' = store, loggedIn' = loggedIn, logins' = logins, shared' = shared,
         \A c \in Caller : call'[c] = call[c] \/ MayCome(call'[c])
  PROVE  TokensInv'
<1>1. logins <= logins'
  BY TokenConstants DEF TokensInv, TokensTypeOK
<1>2. None \notin Account
  BY TokenConstants
<1> QED BY <1>1, <1>2, StepKeeps

-----------------------------------------------------------------------------
(***************************************************************************)
(* The records that the operators on calls make.                           *)
(***************************************************************************)
Pc == {"IDLE", "POLL", "FETCH", "REPLY", "SETTLED", "WAIT", "WOKEN", "DONE", "FAILED"}

LEMMA CallForIs ==
  ASSUME NEW a \in Account, NEW g \in Grant \cup {None}
  PROVE  /\ CallFor(a, g) \in CallRecord
         /\ CallFor(a, g).of = a /\ CallFor(a, g).grant = g /\ CallFor(a, g).cred = None
BY DEF CallFor, Idle, CallRecord

LEMMA WithIs ==
  ASSUME NEW r \in CallRecord, NEW pc \in Pc, NEW cred \in Credential \cup {None},
         NEW gen \in Nat
  PROVE  /\ With(r, pc, cred, gen) \in CallRecord
         /\ With(r, pc, cred, gen).pc = pc /\ With(r, pc, cred, gen).cred = cred
         /\ With(r, pc, cred, gen).gen = gen
         /\ With(r, pc, cred, gen).of = r.of /\ With(r, pc, cred, gen).grant = r.grant
BY DEF With, CallRecord, Pc

LEMMA WithoutIs ==
  ASSUME NEW r \in CallRecord, NEW pc \in Pc, NEW why \in Failure \cup {None}
  PROVE  /\ Without(r, pc, why) \in CallRecord
         /\ Without(r, pc, why).pc = pc /\ Without(r, pc, why).cred = None
         /\ Without(r, pc, why).of = r.of /\ Without(r, pc, why).grant = r.grant
BY DEF Without, CallRecord, Pc

(***************************************************************************)
(* Fields of what is typed.                                                *)
(***************************************************************************)
LEMMA Typed ==
  ASSUME TokensTypeOK
  PROVE  /\ store \in [Account -> Stored] /\ call \in [Caller -> CallRecord]
         /\ lockFile \in [Grant -> {"NONE", "RECENT", "STALE"}]
         /\ refreshing \in [Grant -> Caller \cup {None}]
         /\ issued \in [LoginId -> 0..MaxRotations]
         /\ loggedIn \in [Account -> LoginId \cup {None}]
         /\ logins \in 0..MaxLogins /\ lost \subseteq LoginId /\ shared \subseteq LoginId
BY DEF TokensTypeOK, Stored, LoginId

LEMMA TypedNext ==
  ASSUME store' \in [Account -> Stored], call' \in [Caller -> CallRecord],
         lockFile' \in [Grant -> {"NONE", "RECENT", "STALE"}],
         refreshing' \in [Grant -> Caller \cup {None}],
         issued' \in [LoginId -> 0..MaxRotations],
         loggedIn' \in [Account -> LoginId \cup {None}],
         logins' \in 0..MaxLogins, lost' \subseteq LoginId, shared' \subseteq LoginId
  PROVE  TokensTypeOK'
BY DEF TokensTypeOK, Stored, LoginId

(***************************************************************************)
(* A live account that is saved again with a credential of the same login. *)
(***************************************************************************)
LEMMA SavedAgain ==
  ASSUME TokensInv, NEW a \in Account, Live(a), NEW cred \in Credential,
         cred.grant[1] = store[a].cred.grant[1],
         store' = Saved(a, cred), loggedIn' = loggedIn, shared' = shared, logins' = logins
  PROVE  /\ MayBecome(a, store'[a], loggedIn'[a])
         /\ store' \in [Account -> Stored]
         /\ store'[a] = [gen |-> store[a].gen + 1, cred |-> cred]
<1> DEFINE s == [gen |-> store[a].gen + 1, cred |-> cred]
<1>0. store \in [Account -> Stored] /\ store[a] \in Stored /\ store[a].gen \in Nat
      /\ store[a].cred \in Credential
  BY Typed DEF TokensInv, Stored, Live
<1>1. s \in Stored
  BY <1>0 DEF Stored
<1>2. store' = [store EXCEPT ![a] = s]
  BY DEF Saved
<1>3. store'[a] = s /\ store' \in [Account -> Stored]
  BY <1>0, <1>1, <1>2
<1>4. AccountInv(store[a], loggedIn[a], shared, logins)
  BY DEF TokensInv
<1>5. s.cred = cred /\ s.gen = store[a].gen + 1
  OBVIOUS
<1> HIDE DEF s
<1>6. \A m \in LoginId : Gives(s, loggedIn[a], m) => Gives(store[a], loggedIn[a], m)
  BY <1>0, <1>5 DEF Gives
<1>7. AccountInv(s, loggedIn[a], shared, logins)
  BY <1>0, <1>4, <1>5, <1>6, TokenConstants DEF AccountInv, Live
<1>8. MayBecome(a, s, loggedIn[a])
  BY <1>0, <1>5, <1>6, <1>7 DEF MayBecome, Part
<1> QED BY <1>3, <1>8 DEF s

(***************************************************************************)
(* A step that changes one call, and what TokensInv does not speak of.     *)
(***************************************************************************)
LEMMA OneCallKeeps ==
  ASSUME TokensInv, NEW c \in Caller, NEW q \in CallRecord, MayCome(q),
         call' = [call EXCEPT ![c] = q],
         store' = store, loggedIn' = loggedIn, logins' = logins, shared' = shared,
         lockFile' \in [Grant -> {"NONE", "RECENT", "STALE"}],
         refreshing' \in [Grant -> Caller \cup {None}],
         issued' \in [LoginId -> 0..MaxRotations], lost' \subseteq LoginId
  PROVE  TokensInv'
<1>1. TokensTypeOK
  BY DEF TokensInv
<1>2. call' \in [Caller -> CallRecord] /\ \A x \in Caller : call'[x] = call[x] \/ MayCome(call'[x])
  BY <1>1, Typed
<1>3. TokensTypeOK'
  BY <1>1, <1>2, Typed, TypedNext
<1> QED BY <1>2, <1>3, CallsKeep

LEMMA PartOfStore ==
  ASSUME TokensInv, NEW a \in Account, Live(a)
  PROVE  /\ store[a].cred \in Credential /\ store[a].cred.grant \in Grant
         /\ store[a].cred.grant[1] \in LoginId /\ Part(a, store[a].cred.grant[1])
<1>1. store[a].cred \in Credential
  BY Typed DEF TokensInv, Stored, Live
<1>2. store[a].cred.grant \in Grant
  BY <1>1 DEF Credential
<1> QED BY <1>1, <1>2, GrantLogin DEF Part, Gives

LEMMA PartOfCall ==
  ASSUME TokensInv, NEW c \in Caller, call[c].grant \in Grant
  PROVE  /\ call[c].of \in Account /\ call[c].grant[1] \in LoginId
         /\ Part(call[c].of, call[c].grant[1])
BY GrantLogin DEF TokensInv, CallInv, Part

LEMMA PartIsKnown ==
  ASSUME TokensInv, NEW a \in Account, NEW l \in LoginId, Part(a, l)
  PROVE  l <= logins
<1>1. CASE Gives(store[a], loggedIn[a], l)
  BY <1>1 DEF TokensInv, AccountInv
<1>2. ASSUME NEW x \in Caller, call[x].grant \in Grant, call[x].grant[1] = l
      PROVE  l <= logins
  BY <1>2 DEF TokensInv, CallInv
<1> QED BY <1>1, <1>2 DEF Part

(***************************************************************************)
(* The leader that has come to the lock: for an account that has part in   *)
(* the login of the grant, whatever it finds keeps the invariant.          *)
(***************************************************************************)
LEMMA UnderLockKeeps ==
  ASSUME TokensInv, NEW c \in Caller, NEW a \in Account, NEW g \in Grant,
         Part(a, g[1]), UnderLock(c, a, g),
         refreshing' \in [Grant -> Caller \cup {None}],
         UNCHANGED <<issued, logins, loggedIn, lost, shared>>
  PROVE  TokensInv'
<1> DEFINE r == CallFor(a, g)
<1>0. /\ TokensTypeOK /\ g[1] \in LoginId
      /\ store \in [Account -> Stored] /\ store[a] \in Stored /\ store[a].gen \in Nat
      /\ call \in [Caller -> CallRecord]
      /\ AccountInv(store[a], loggedIn[a], shared, logins)
  BY Typed, GrantLogin DEF TokensInv, Stored
<1>1. /\ r \in CallRecord /\ r.of = a /\ r.grant = g /\ r.cred = None
      /\ g[1] <= logins
  BY <1>0, CallForIs, PartIsKnown
<1>2. lockFile' \in [Grant -> {"NONE", "RECENT", "STALE"}]
  BY <1>0, Typed DEF UnderLock
<1>8. store[a].gen \in Nat /\ store[a].gen + 1 \in Nat
  BY <1>0
<1> HIDE DEF r
\* What a step from here needs.
<1>3. ASSUME NEW q \in CallRecord, call' = [call EXCEPT ![c] = q], MayCome(q),
             store' = store
      PROVE  TokensInv'
  <2>1. issued' \in [LoginId -> 0..MaxRotations] /\ lost' \subseteq LoginId
    BY <1>0, Typed
  <2> QED BY <1>2, <1>3, <2>1, OneCallKeeps
<1>4. CASE call' = [call EXCEPT ![c] = Without(r, "SETTLED", "CONFLICT")] /\ store' = store
  <2> DEFINE q == Without(r, "SETTLED", "CONFLICT")
  <2>1. /\ q \in CallRecord /\ q.pc = "SETTLED" /\ q.cred = None
        /\ q.of = a /\ q.grant = g
    BY <1>1, WithoutIs DEF Pc, Failure
  <2> HIDE DEF q
  <2>2. MayCome(q)
    BY <1>1, <1>4, <2>1, TokenConstants DEF MayCome, CallInv
  <2> QED BY <1>3, <1>4, <2>1, <2>2 DEF q
<1>5. CASE /\ Fresh(a) /\ store' = store
           /\ call' = [call EXCEPT ![c] = With(r, "SETTLED", store[a].cred, store[a].gen)]
  <2> DEFINE q == With(r, "SETTLED", store[a].cred, store[a].gen)
  <2>0. store[a].cred \in Credential
    BY <1>0, <1>5 DEF Fresh, Live, Stored
  <2>1. /\ q \in CallRecord /\ q.pc = "SETTLED" /\ q.cred = store[a].cred
        /\ q.gen = store[a].gen /\ q.of = a /\ q.grant = g
    <3>1. "SETTLED" \in Pc
      BY DEF Pc
    <3> QED BY <1>8, <1>1, <2>0, <3>1, WithIs
  <2> HIDE DEF q
  <2>2. q.cred.grant[1] # g[1] => g[1] \in shared \/ loggedIn[a] # g[1]
    BY <1>0, <1>5, <2>1 DEF AccountInv, Fresh, Live
  <2>3. q.cred.grant[1] <= logins
    <3>1. store[a].cred.grant[1] \in LoginId
      BY <2>0, GrantLogin DEF Credential
    <3> QED BY <1>0, <2>0, <2>1, <3>1 DEF AccountInv, Gives
  <2>4. MayCome(q)
    BY <1>0, <1>1, <1>5, <2>1, <2>2, <2>3 DEF MayCome, CallInv
  <2> QED BY <1>3, <1>5, <2>1, <2>4 DEF q
<1>6. ASSUME NEW b \in Account, Live(a), store[a].cred.grant = g,
             Fresh(b), store[b].cred.grant = g,
             store' = Saved(a, store[b].cred),
             call' = [call EXCEPT ![c] = With(r, "SETTLED", store[b].cred, store[a].gen + 1)]
      PROVE  TokensInv'
  <2> DEFINE q == With(r, "SETTLED", store[b].cred, store[a].gen + 1)
  <2>0. store[b].cred \in Credential
    BY <1>0, <1>6 DEF Fresh, Live, Stored
  <2>1. /\ q \in CallRecord /\ q.pc = "SETTLED" /\ q.cred = store[b].cred
        /\ q.gen = store[a].gen + 1 /\ q.of = a /\ q.grant = g
    <3>1. "SETTLED" \in Pc
      BY DEF Pc
    <3> QED BY <1>8, <1>1, <2>0, <3>1, WithIs
  <2> HIDE DEF q
  <2>3. /\ MayBecome(a, store'[a], loggedIn'[a]) /\ store' \in [Account -> Stored]
        /\ store'[a] = [gen |-> store[a].gen + 1, cred |-> store[b].cred]
    BY <1>6, <2>0, SavedAgain
  <2>2. MayCome(q)
    BY <1>8, <1>1, <1>6, <2>1, <2>3 DEF MayCome, CallInv
  <2>4. \A x \in Account \ {a} : store'[x] = store[x] /\ loggedIn'[x] = loggedIn[x]
    BY <1>0, <1>6 DEF Saved
  <2>5. call' \in [Caller -> CallRecord] /\ \A x \in Caller : call'[x] = call[x] \/ MayCome(call'[x])
    BY <1>0, <1>6, <2>1, <2>2 DEF q
  <2>6. TokensTypeOK'
    BY <1>0, <1>2, <2>3, <2>5, Typed, TypedNext
  <2>7. logins <= logins' /\ shared \subseteq shared'
    BY <1>0, TokenConstants DEF TokensTypeOK
  <2> QED BY <2>3, <2>4, <2>5, <2>6, <2>7, StepKeeps
<1>7. CASE /\ Live(a) /\ store[a].cred.grant = g /\ store' = store
           /\ call' = [call EXCEPT ![c] = With(r, "FETCH", None, store[a].gen)]
  <2> DEFINE q == With(r, "FETCH", None, store[a].gen)
  <2>1. /\ q \in CallRecord /\ q.pc = "FETCH" /\ q.cred = None
        /\ q.gen = store[a].gen /\ q.of = a /\ q.grant = g
    BY <1>8, <1>1, WithIs DEF Pc
  <2> HIDE DEF q
  <2>2. MayCome(q)
    BY <1>0, <1>1, <1>7, <2>1, TokenConstants DEF MayCome, CallInv
  <2> QED BY <1>3, <1>7, <2>1, <2>2 DEF q
<1> QED BY <1>4, <1>5, <1>6, <1>7 DEF UnderLock, FreshTwins, r

LEMMA AskKeeps ==
  ASSUME TokensInv, NEW c \in Caller, NEW a \in Account, Ask(c, a)
  PROVE  TokensInv'
<1>0. /\ TokensTypeOK /\ store[a] \in Stored /\ store[a].gen \in Nat
      /\ lockFile \in [Grant -> {"NONE", "RECENT", "STALE"}]
      /\ refreshing \in [Grant -> Caller \cup {None}]
      /\ issued \in [LoginId -> 0..MaxRotations] /\ lost \subseteq LoginId
      /\ UNCHANGED <<issued, logins, loggedIn, lost, shared>>
  BY Typed DEF TokensInv, Stored, Ask
<1>1. None \in Grant \cup {None} /\ None \notin Grant /\ None \notin Credential
  BY TokenConstants
<1>2. CASE /\ call' = [call EXCEPT ![c] = Without(CallFor(a, None), "FAILED", "UNAVAILABLE")]
           /\ UNCHANGED <<store, lockFile, refreshing>>
  <2> DEFINE r == CallFor(a, None)
             q == Without(r, "FAILED", "UNAVAILABLE")
  <2>1. r \in CallRecord /\ r.grant = None
    BY <1>1, CallForIs
  <2> HIDE DEF r
  <2>2. q \in CallRecord /\ q.pc = "FAILED" /\ q.cred = None /\ q.grant = None
    BY <2>1, WithoutIs DEF Pc, Failure
  <2> HIDE DEF q
  <2>3. MayCome(q)
    BY <1>1, <2>2 DEF MayCome, CallInv
  <2> QED BY <1>0, <1>2, <2>2, <2>3, OneCallKeeps DEF q, r
<1>3. CASE /\ Fresh(a)
           /\ call' = [call EXCEPT ![c] = With(CallFor(a, None), "DONE", store[a].cred, store[a].gen)]
           /\ UNCHANGED <<store, lockFile, refreshing>>
  <2> DEFINE r == CallFor(a, None)
             q == With(r, "DONE", store[a].cred, store[a].gen)
  <2>1. r \in CallRecord /\ r.grant = None /\ r.of = a
    BY <1>1, CallForIs
  <2>2. store[a].cred \in Credential /\ store[a].cred.grant[1] <= logins
    BY <1>3, PartOfStore, PartIsKnown DEF Fresh
  <2>3. "DONE" \in Pc
    BY DEF Pc
  <2> HIDE DEF r
  <2>4. /\ q \in CallRecord /\ q.pc = "DONE" /\ q.cred = store[a].cred
        /\ q.gen = store[a].gen /\ q.of = a /\ q.grant = None
    BY <1>0, <2>1, <2>2, <2>3, WithIs
  <2> HIDE DEF q
  <2>5. MayCome(q)
    BY <1>0, <1>1, <1>3, <2>2, <2>4 DEF MayCome, CallInv
  <2> QED BY <1>0, <1>3, <2>4, <2>5, OneCallKeeps DEF q, r
<1>4. ASSUME Live(a), NEW pc \in {"POLL", "WAIT"},
             call' = [call EXCEPT ![c] = [CallFor(a, store[a].cred.grant) EXCEPT !.pc = pc]],
             UNCHANGED <<store, lockFile>>, refreshing' \in [Grant -> Caller \cup {None}]
      PROVE  TokensInv'
  <2> DEFINE g == store[a].cred.grant
             r == CallFor(a, g)
             q == [r EXCEPT !.pc = pc]
  <2>1. g \in Grant /\ Part(a, g[1]) /\ g[1] <= logins
    BY <1>4, PartOfStore, PartIsKnown
  <2> HIDE DEF g
  <2>2. r \in CallRecord /\ r.of = a /\ r.grant = g /\ r.cred = None
    BY <2>1, CallForIs
  <2> HIDE DEF r
  <2>3. q \in CallRecord /\ q.pc = pc /\ q.of = a /\ q.grant = g /\ q.cred = None
    BY <2>2 DEF CallRecord
  <2> HIDE DEF q
  <2>4. MayCome(q)
    BY <1>0, <1>1, <1>4, <2>1, <2>3 DEF MayCome, CallInv
  <2> QED BY <1>0, <1>4, <2>3, <2>4, OneCallKeeps DEF q, r, g
<1>5. CASE Live(a) /\ Lead(c, a, store[a].cred.grant)
  <2> DEFINE g == store[a].cred.grant
  <2>1. g \in Grant /\ Part(a, g[1])
    BY <1>5, PartOfStore
  <2>2. refreshing' \in [Grant -> Caller \cup {None}]
    BY <1>0, <1>5 DEF Lead
  <2>3. CASE UnderLock(c, a, g)
    BY <1>0, <2>1, <2>2, <2>3, UnderLockKeeps
  <2>4. CASE /\ call' = [call EXCEPT ![c] = [CallFor(a, g) EXCEPT !.pc = "POLL"]]
             /\ UNCHANGED <<store, lockFile>>
    BY <1>4, <1>5, <2>2, <2>4
  <2> QED BY <1>5, <2>3, <2>4 DEF Lead
<1> QED BY <1>0, <1>2, <1>3, <1>4, <1>5 DEF Ask

LEMMA PollKeeps ==
  ASSUME TokensInv, NEW c \in Caller, Poll(c)
  PROVE  TokensInv'
<1>1. call[c].of \in Account /\ call[c].grant \in Grant
  BY DEF TokensInv, CallInv, Poll
<1>2. Part(call[c].of, call[c].grant[1])
  BY <1>1, PartOfCall
<1>3. refreshing' \in [Grant -> Caller \cup {None}]
  BY Typed DEF TokensInv, Poll
<1> QED BY <1>1, <1>2, <1>3, UnderLockKeeps DEF Poll

(***************************************************************************)
(* An answer of the authorization server is of the login of the grant.     *)
(***************************************************************************)
LEMMA ReplyKeeps ==
  ASSUME TokensInv, NEW c \in Caller, call[c].pc = "FETCH",
         NEW cred \in Credential \cup {None}, Replies(c, cred),
         cred \in Credential => cred.grant[1] = call[c].grant[1],
         issued' \in [LoginId -> 0..MaxRotations]
  PROVE  TokensInv'
<1> DEFINE r == call[c]
           q == [r EXCEPT !.pc = "REPLY", !.cred = cred]
<1>0. /\ r \in CallRecord /\ CallInv(r, store, loggedIn, shared, logins) /\ r.pc = "FETCH"
      /\ lockFile \in [Grant -> {"NONE", "RECENT", "STALE"}]
      /\ refreshing \in [Grant -> Caller \cup {None}]
      /\ lost \subseteq LoginId
      /\ UNCHANGED <<store, lockFile, refreshing, logins, loggedIn, lost, shared>>
  BY Typed DEF TokensInv, Replies
<1>1. r.of \in Account /\ r.grant \in Grant
  BY <1>0 DEF CallInv
<1>2. Part(r.of, r.grant[1])
  BY <1>1, PartOfCall
<1>3. call' = [call EXCEPT ![c] = q]
  BY DEF Replies
<1> HIDE DEF r
<1>4. q \in CallRecord /\ q.pc = "REPLY" /\ q.cred = cred /\ q.of = r.of
      /\ q.grant = r.grant /\ q.gen = r.gen
  BY <1>0 DEF CallRecord
<1> HIDE DEF q
<1>5. CallInv(q, store, loggedIn, shared, logins)
  BY <1>0, <1>1, <1>4 DEF CallInv, r
<1>6. MayCome(q)
  BY <1>0, <1>2, <1>4, <1>5 DEF MayCome
<1> QED BY <1>0, <1>3, <1>4, <1>6, OneCallKeeps

LEMMA ServerKeeps ==
  ASSUME TokensInv, NEW c \in Caller, Rotates(c) \/ Renews(c) \/ Refuses(c)
  PROVE  TokensInv'
<1>0. issued \in [LoginId -> 0..MaxRotations] /\ call[c].pc = "FETCH"
  BY Typed DEF TokensInv, Rotates, Renews, Refuses
<1>1. call[c].grant \in Grant
  BY <1>0 DEF TokensInv, CallInv
<1>2. call[c].grant[1] \in LoginId /\ call[c].grant[2] \in 0..MaxRotations
  BY <1>1, GrantLogin
<1>3. CASE Rotates(c)
  <2> DEFINE g == call[c].grant
             new == <<g[1], g[2] + 1>>
             cred == [grant |-> new, fresh |-> TRUE]
  <2>1. g[2] + 1 \in 0..MaxRotations /\ issued[g[1]] = g[2]
    BY <1>2, <1>3, TokenConstants DEF Rotates, InForce
  <2>2. new \in Grant
    BY <1>2, <2>1 DEF Grant, LoginId
  <2>3. cred \in Credential /\ cred.grant[1] = g[1]
    BY <2>2 DEF Credential
  <2>4. issued' \in [LoginId -> 0..MaxRotations]
    BY <1>0, <1>2, <1>3, <2>1 DEF Rotates
  <2> QED BY <1>0, <1>3, <2>3, <2>4, ReplyKeeps DEF Rotates
<1>4. CASE Renews(c)
  <2>1. [grant |-> call[c].grant, fresh |-> TRUE] \in Credential
    BY <1>1 DEF Credential
  <2> QED BY <1>0, <1>4, <2>1, ReplyKeeps DEF Renews
<1>5. CASE Refuses(c)
  BY <1>0, <1>5, TokenConstants, ReplyKeeps DEF Refuses
<1> QED BY <1>3, <1>4, <1>5

(***************************************************************************)
(* The answer is there: it is saved only for the account as it was read.   *)
(***************************************************************************)
LEMMA ReceiveKeeps ==
  ASSUME TokensInv, NEW c \in Caller, Receive(c)
  PROVE  TokensInv'
<1> DEFINE r == call[c]
           a == call[c].of
<1>0. /\ r \in CallRecord /\ CallInv(r, store, loggedIn, shared, logins) /\ r.pc = "REPLY"
      /\ TokensTypeOK /\ r.gen \in Nat /\ r.gen + 1 \in Nat
      /\ UNCHANGED <<lockFile, refreshing, issued, logins, loggedIn, lost, shared>>
  BY Typed DEF TokensInv, Receive, CallRecord
<1>1. a \in Account /\ r.grant \in Grant /\ Part(a, r.grant[1]) /\ r.of = a
  BY <1>0, PartOfCall DEF CallInv
<1>2. r.grant[1] <= logins
  BY <1>0, <1>1 DEF CallInv
<1> HIDE DEF r, a
<1>3. ASSUME NEW why \in {"REFUSED", "CONFLICT"},
             call' = [call EXCEPT ![c] = Without(r, "SETTLED", why)], store' = store
      PROVE  TokensInv'
  <2> DEFINE q == Without(r, "SETTLED", why)
  <2>1. /\ q \in CallRecord /\ q.pc = "SETTLED" /\ q.cred = None
        /\ q.of = a /\ q.grant = r.grant
    BY <1>0, <1>1, WithoutIs DEF Pc, Failure
  <2> HIDE DEF q
  <2>2. MayCome(q)
    BY <1>0, <1>1, <1>2, <1>3, <2>1, TokenConstants DEF MayCome, CallInv
  <2> QED BY <1>0, <1>3, <2>1, <2>2, Typed, OneCallKeeps DEF q
<1>4. ASSUME r.cred # None, GenerationLive(a, r.gen), store' = Saved(a, r.cred),
             call' = [call EXCEPT ![c] = With(r, "SETTLED", r.cred, r.gen + 1)]
      PROVE  TokensInv'
  <2> DEFINE q == With(r, "SETTLED", r.cred, r.gen + 1)
  <2>0. r.cred \in Credential
    BY <1>0, <1>4 DEF CallRecord
  <2>1. "SETTLED" \in Pc
    BY DEF Pc
  <2>2. /\ q \in CallRecord /\ q.pc = "SETTLED" /\ q.cred = r.cred
        /\ q.gen = r.gen + 1 /\ q.of = a /\ q.grant = r.grant
    BY <1>0, <1>1, <2>0, <2>1, WithIs
  <2> HIDE DEF q
  <2>3. /\ r.cred.grant[1] = r.grant[1] /\ store[a].cred.grant = r.grant /\ Live(a)
        /\ store[a].gen = r.gen
    BY <1>0, <1>1, <1>4, <2>0 DEF CallInv, GenerationLive, Live
  <2>4. /\ MayBecome(a, store'[a], loggedIn'[a]) /\ store' \in [Account -> Stored]
        /\ store'[a] = [gen |-> r.gen + 1, cred |-> r.cred]
    BY <1>0, <1>1, <1>4, <2>0, <2>3, SavedAgain
  <2>5. MayCome(q)
    BY <1>0, <1>1, <1>2, <2>0, <2>2, <2>3, <2>4 DEF MayCome, CallInv
  <2>6. \A x \in Account \ {a} : store'[x] = store[x] /\ loggedIn'[x] = loggedIn[x]
    BY <1>0, <1>4, Typed DEF Saved
  <2>7. call' \in [Caller -> CallRecord] /\ \A x \in Caller : call'[x] = call[x] \/ MayCome(call'[x])
    BY <1>0, <1>4, <2>2, <2>5, Typed DEF q
  <2>8. TokensTypeOK'
    BY <1>0, <2>4, <2>7, Typed, TypedNext
  <2>9. logins <= logins' /\ shared \subseteq shared'
    BY <1>0, TokenConstants DEF TokensTypeOK
  <2> QED BY <2>4, <2>5, <2>6, <2>7, <2>8, <2>9, StepKeeps
<1> QED BY <1>3, <1>4 DEF Receive, NewCredential, r, a

LEMMA LostIsLogin ==
  ASSUME TokensInv, NEW c \in Caller
  PROVE  LostWith(c) \subseteq LoginId
<1>1. call[c].pc = "REPLY" => call[c].grant \in Grant
  BY DEF TokensInv, CallInv
<1> QED BY <1>1, GrantLogin DEF LostWith

LEMMA FetchFailsKeeps ==
  ASSUME TokensInv, NEW c \in Caller, FetchFails(c)
  PROVE  TokensInv'
<1> DEFINE r == call[c]
           q == Without(r, "SETTLED", "TIMEOUT")
<1>0. /\ r \in CallRecord /\ CallInv(r, store, loggedIn, shared, logins)
      /\ r.pc \in {"FETCH", "REPLY"} /\ TokensTypeOK
      /\ lost' \subseteq LoginId
      /\ call' = [call EXCEPT ![c] = q]
      /\ UNCHANGED <<store, lockFile, refreshing, issued, logins, loggedIn, shared>>
  BY Typed, LostIsLogin DEF TokensInv, FetchFails, NoAnswer
<1>1. r.of \in Account /\ r.grant \in Grant /\ Part(r.of, r.grant[1]) /\ r.grant[1] <= logins
  BY <1>0, PartOfCall DEF CallInv
<1> HIDE DEF r
<1>2. /\ q \in CallRecord /\ q.pc = "SETTLED" /\ q.cred = None
      /\ q.of = r.of /\ q.grant = r.grant
  BY <1>0, WithoutIs DEF Pc, Failure
<1> HIDE DEF q
<1>3. MayCome(q)
  BY <1>0, <1>1, <1>2, TokenConstants DEF MayCome, CallInv
<1> QED BY <1>0, <1>2, <1>3, Typed, OneCallKeeps

(***************************************************************************)
(* The waiters of a refresh get what its leader has got: of another login  *)
(* only if theirs is shared, or is not the last one of their account.      *)
(***************************************************************************)
LEMMA SettleKeeps ==
  ASSUME TokensInv, NEW c \in Caller, Settle(c)
  PROVE  TokensInv'
<1> DEFINE g == call[c].grant
<1>0. /\ TokensTypeOK /\ call' = [x \in Caller |-> AfterRefresh(c, x)]
      /\ CallInv(call[c], store, loggedIn, shared, logins)
      /\ call[c] \in CallRecord /\ call[c].pc = "SETTLED"
      /\ UNCHANGED <<store, issued, logins, loggedIn, lost, shared>>
  BY Typed DEF TokensInv, Settle
<1>1. g \in Grant /\ Part(call[c].of, g[1]) /\ call[c].of \in Account /\ g[1] \in LoginId
  BY <1>0, PartOfCall DEF CallInv
<1>2. /\ lockFile' \in [Grant -> {"NONE", "RECENT", "STALE"}]
      /\ refreshing' \in [Grant -> Caller \cup {None}]
  BY <1>0, Typed DEF Settle
<1>3. ASSUME NEW x \in Caller
      PROVE  /\ AfterRefresh(c, x) \in CallRecord
             /\ AfterRefresh(c, x) = call[x] \/ MayCome(AfterRefresh(c, x))
  <2> DEFINE r == call[x]
  <2>0. r \in CallRecord /\ CallInv(r, store, loggedIn, shared, logins) /\ r.gen \in Nat
        /\ r.cred \in Credential \cup {None} /\ r.failure \in Failure \cup {None}
    BY <1>0, Typed DEF TokensInv, CallRecord
  <2>1. r.grant \in Grant => Part(r.of, r.grant[1])
    BY PartOfCall
  <2>2. "DONE" \in Pc /\ "FAILED" \in Pc /\ "WOKEN" \in Pc /\ 0 \in Nat
    BY DEF Pc
  <2>3. /\ call[c].failure \in Failure \cup {None}
        /\ call[c].cred # None => call[c].cred \in Credential
    BY <1>0 DEF CallRecord
  <2> HIDE DEF r
  <2>4. ASSUME NEW why \in Failure \cup {None}
        PROVE  Without(r, "FAILED", why) \in CallRecord /\ MayCome(Without(r, "FAILED", why))
    <3> DEFINE q == Without(r, "FAILED", why)
    <3>1. /\ q \in CallRecord /\ q.pc = "FAILED" /\ q.cred = None
          /\ q.of = r.of /\ q.grant = r.grant
      BY <2>0, <2>2, WithoutIs
    <3> HIDE DEF q
    <3>2. MayCome(q)
      BY <1>0, <2>0, <2>1, <3>1, TokenConstants DEF MayCome, CallInv
    <3> QED BY <3>1, <3>2 DEF q
  <2>5. ASSUME r.pc = "SETTLED", r.cred # None
        PROVE  /\ With(r, "DONE", r.cred, r.gen) \in CallRecord
               /\ MayCome(With(r, "DONE", r.cred, r.gen))
    <3> DEFINE q == With(r, "DONE", r.cred, r.gen)
    <3>0. r \in CallRecord /\ r.cred \in Credential /\ r.gen \in Nat
      BY <2>0, <2>5
    <3>1. /\ q \in CallRecord /\ q.pc = "DONE" /\ q.cred = r.cred
          /\ q.gen = r.gen /\ q.of = r.of /\ q.grant = r.grant
      BY <2>2, <3>0, WithIs
    <3> HIDE DEF q
    <3>2. MayCome(q)
      BY <1>0, <2>0, <2>1, <2>5, <3>0, <3>1 DEF MayCome, CallInv
    <3> QED BY <3>1, <3>2 DEF q
  <2>6. ASSUME r.pc = "WAIT", r.grant = g, call[c].cred # None
        PROVE  /\ With(r, "WOKEN", call[c].cred, 0) \in CallRecord
               /\ MayCome(With(r, "WOKEN", call[c].cred, 0))
    <3> DEFINE cred == call[c].cred
               q == With(r, "WOKEN", cred, 0)
    <3>0. /\ cred \in Credential /\ cred \in Credential \cup {None}
          /\ cred.grant[1] <= logins
      BY <1>0, <2>3, <2>6 DEF CallInv
    <3>1. ASSUME cred.grant[1] # g[1]
          PROVE  g[1] \in shared \/ loggedIn[r.of] # g[1]
      <4>1. g[1] \in shared \/ loggedIn[call[c].of] # g[1]
        BY <1>0, <3>0, <3>1 DEF CallInv
      <4>2. CASE r.of = call[c].of
        BY <4>1, <4>2
      <4>3. CASE r.of # call[c].of
        <5>1. r.of \in Account /\ Part(r.of, g[1])
          BY <1>1, <2>0, <2>1, <2>6 DEF CallInv
        <5> QED BY <1>1, <4>3, <5>1 DEF TokensInv, SharedByTwo
      <4> QED BY <4>2, <4>3
    <3> HIDE DEF cred
    <3>2. /\ q \in CallRecord /\ q.pc = "WOKEN" /\ q.cred = cred
          /\ q.of = r.of /\ q.grant = r.grant
      BY <2>0, <2>2, <3>0, WithIs
    <3> HIDE DEF q
    <3>3. r.of \in Account /\ g[1] <= logins
      BY <1>1, <2>0, <2>6 DEF CallInv
    <3>4. MayCome(q)
      BY <1>0, <1>1, <2>1, <2>6, <3>0, <3>1, <3>2, <3>3 DEF MayCome, CallInv
    <3> QED BY <3>2, <3>4 DEF q, cred
  <2> QED BY <1>0, <2>0, <2>3, <2>4, <2>5, <2>6 DEF AfterRefresh, r
<1>4. call' \in [Caller -> CallRecord] /\ \A x \in Caller : call'[x] = call[x] \/ MayCome(call'[x])
  BY <1>0, <1>3
<1>5. TokensTypeOK'
  BY <1>0, <1>2, <1>4, Typed, TypedNext
<1> QED BY <1>0, <1>4, <1>5, CallsKeep

(***************************************************************************)
(* A waiter whose account still has the old grant takes the outcome over.  *)
(***************************************************************************)
LEMMA ResumeKeeps ==
  ASSUME TokensInv, NEW c \in Caller, Resume(c)
  PROVE  TokensInv'
<1> DEFINE r == call[c]
           a == call[c].of
           cred == call[c].cred
           s == [gen |-> store[a].gen + 1, cred |-> cred]
           q == With(r, "DONE", cred, store[a].gen + 1)
<1>0. /\ r \in CallRecord /\ CallInv(r, store, loggedIn, shared, logins) /\ r.pc = "WOKEN"
      /\ TokensTypeOK
  BY Typed DEF TokensInv, Resume
<1>1. /\ a \in Account /\ r.grant \in Grant /\ Part(a, r.grant[1]) /\ r.of = a
      /\ r.grant[1] <= logins /\ cred \in Credential /\ cred.grant[1] <= logins
      /\ cred.grant[1] # r.grant[1] =>
           r.grant[1] \in shared \/ loggedIn[a] # r.grant[1]
  BY <1>0, PartOfCall DEF CallInv
<1>2. CASE Ask(c, a)
  BY <1>1, <1>2, AskKeeps
<1>3. ASSUME Live(a), store[a].cred.grant = r.grant, store' = Saved(a, cred),
             call' = [call EXCEPT ![c] = q],
             shared' = shared \cup ({cred.grant[1]} \ {r.grant[1]}),
             UNCHANGED <<lockFile, refreshing, issued, logins, loggedIn, lost>>
      PROVE  TokensInv'
  <2>0. /\ store \in [Account -> Stored] /\ store[a].gen \in Nat /\ store[a].gen + 1 \in Nat
        /\ AccountInv(store[a], loggedIn[a], shared, logins)
        /\ cred.grant[1] \in LoginId /\ store[a].cred \in Credential
    BY <1>0, <1>1, <1>3, Typed, GrantLogin DEF TokensInv, Stored, Credential, Live
  <2>1. s \in Stored /\ s.cred = cred /\ s.gen = store[a].gen + 1
    BY <1>1, <2>0 DEF Stored
  <2>2. store' = [store EXCEPT ![a] = s]
    BY <1>3 DEF Saved
  <2> HIDE DEF s
  <2>3. store'[a] = s /\ store' \in [Account -> Stored]
    BY <1>1, <2>0, <2>1, <2>2
  <2>4. "DONE" \in Pc
    BY DEF Pc
  <2> HIDE DEF r, a, cred
  <2>5. /\ q \in CallRecord /\ q.pc = "DONE" /\ q.cred = cred
        /\ q.gen = store[a].gen + 1 /\ q.of = a /\ q.grant = r.grant
    BY <1>0, <1>1, <2>0, <2>4, WithIs
  <2> HIDE DEF q
  <2>6. MayCome(q)
    BY <1>0, <1>1, <1>3, <2>0, <2>1, <2>3, <2>5 DEF MayCome, CallInv
  <2>7. \A m \in LoginId : Gives(s, loggedIn[a], m) =>
          Gives(store[a], loggedIn[a], m) \/ m = cred.grant[1]
    BY <2>1 DEF Gives
  <2>8. AccountInv(s, loggedIn[a], shared', logins)
    <3>1. s.cred # None
      BY <1>1, <2>1, TokenConstants
    <3>2. \/ cred.grant[1] = loggedIn[a]
          \/ loggedIn[a] \in shared' /\ cred.grant[1] \in shared'
      BY <1>1, <1>3, <2>0 DEF AccountInv, Live
    <3>3. \A m \in LoginId : Gives(s, loggedIn[a], m) => m <= logins
      BY <1>1, <2>0, <2>7 DEF AccountInv
    <3> QED BY <2>1, <3>1, <3>2, <3>3 DEF AccountInv
  <2>9. \A m \in LoginId : Gives(s, loggedIn[a], m) => Part(a, m) \/ m \in shared'
    <3>1. cred.grant[1] = r.grant[1] \/ cred.grant[1] \in shared'
      BY <1>3
    <3> QED BY <1>1, <2>7, <3>1 DEF Part
  <2>10. MayBecome(a, s, loggedIn[a])
    BY <1>3, <2>0, <2>1, <2>8, <2>9 DEF MayBecome
  <2>11. \A x \in Account \ {a} : store'[x] = store[x] /\ loggedIn'[x] = loggedIn[x]
    BY <1>3, <2>0, <2>2
  <2>12. call' \in [Caller -> CallRecord] /\ \A x \in Caller : call'[x] = call[x] \/ MayCome(call'[x])
    BY <1>0, <1>3, <2>5, <2>6, Typed
  <2>13. shared' \subseteq LoginId
    BY <1>0, <1>3, <2>0, Typed
  <2>14. TokensTypeOK'
    BY <1>0, <1>3, <2>3, <2>12, <2>13, Typed, TypedNext
  <2>15. logins <= logins' /\ shared \subseteq shared'
    BY <1>0, <1>3, TokenConstants DEF TokensTypeOK
  <2> QED BY <1>3, <2>3, <2>10, <2>11, <2>12, <2>14, <2>15, StepKeeps
<1> QED BY <1>2, <1>3 DEF Resume

-----------------------------------------------------------------------------
(***************************************************************************)
(* A step that writes one account, and no call.                            *)
(***************************************************************************)
LEMMA AccountKeeps ==
  ASSUME TokensInv, NEW a \in Account, NEW s \in Stored, NEW last \in LoginId \cup {None},
         MayBecome(a, s, last),
         store' = [store EXCEPT ![a] = s], loggedIn' = [loggedIn EXCEPT ![a] = last],
         logins' \in 0..MaxLogins, logins <= logins',
         shared' \subseteq LoginId, shared \subseteq shared',
         UNCHANGED <<lockFile, refreshing, call, issued, lost>>
  PROVE  TokensInv'
<1>0. /\ TokensTypeOK /\ store \in [Account -> Stored]
      /\ loggedIn \in [Account -> LoginId \cup {None}]
  BY Typed DEF TokensInv
<1>1. /\ store' \in [Account -> Stored] /\ store'[a] = s
      /\ loggedIn' \in [Account -> LoginId \cup {None}] /\ loggedIn'[a] = last
      /\ \A b \in Account \ {a} : store'[b] = store[b] /\ loggedIn'[b] = loggedIn[b]
  BY <1>0
<1>2. TokensTypeOK'
  BY <1>0, <1>1, Typed, TypedNext
<1> QED BY <1>1, <1>2, StepKeeps

LEMMA SaveLoginKeeps ==
  ASSUME TokensInv, NEW a \in Account, SaveLogin(a)
  PROVE  TokensInv'
<1> DEFINE l == logins + 1
           cred == [grant |-> <<l, 0>>, fresh |-> TRUE]
           s == [gen |-> store[a].gen + 1, cred |-> cred]
<1>0. /\ TokensTypeOK /\ store[a].gen \in Nat /\ logins \in 0..MaxLogins
      /\ logins < MaxLogins /\ shared \subseteq LoginId /\ logins \in Nat
  BY Typed, TokenConstants DEF TokensInv, Stored, SaveLogin
<1>1. l \in LoginId /\ l \in Nat /\ l > logins /\ l \in 0..MaxLogins
  BY <1>0, TokenConstants DEF LoginId
<1>2. cred \in Credential /\ cred.grant[1] = l
  BY <1>1, TokenConstants DEF Credential, Grant, LoginId
<1>3. /\ store' = [store EXCEPT ![a] = s] /\ loggedIn' = [loggedIn EXCEPT ![a] = l]
      /\ logins' = l /\ shared' = shared
      /\ UNCHANGED <<lockFile, refreshing, call, issued, lost>>
  BY DEF SaveLogin, Saved
<1> HIDE DEF cred
<1>4. s \in Stored /\ s.cred = cred /\ s.gen = store[a].gen + 1
  BY <1>0, <1>2 DEF Stored
<1> HIDE DEF s, l
<1>5. AccountInv(s, l, shared', logins')
  BY <1>1, <1>2, <1>3, <1>4, TokenConstants DEF AccountInv, Gives
<1>6. MayBecome(a, s, l)
  BY <1>0, <1>1, <1>2, <1>4, <1>5 DEF MayBecome, Gives
<1>7. logins <= logins'
  BY <1>0, <1>1, <1>3
<1> QED BY <1>0, <1>1, <1>3, <1>4, <1>6, <1>7, AccountKeeps

(***************************************************************************)
(* An import makes both logins shared: the last one of the account and the *)
(* one of its credential, which differ only if the latter is shared.       *)
(***************************************************************************)
LEMMA SaveImportKeeps ==
  ASSUME TokensInv, NEW a \in Account, NEW b \in Account, SaveImport(a, b)
  PROVE  TokensInv'
<1> DEFINE cred == store[a].cred
           l == loggedIn[a]
           s == [gen |-> store[b].gen + 1, cred |-> cred]
<1>0. /\ TokensTypeOK /\ store[b].gen \in Nat /\ shared \subseteq LoginId
      /\ logins \in Nat /\ logins \in 0..MaxLogins
      /\ AccountInv(store[a], l, shared, logins)
      /\ Live(a)
  BY Typed, TokenConstants DEF TokensInv, Stored, SaveImport, Fresh
<1>1. cred \in Credential /\ cred.grant[1] \in LoginId
  BY <1>0, PartOfStore
<1>2. /\ store' = [store EXCEPT ![b] = s] /\ loggedIn' = [loggedIn EXCEPT ![b] = l]
      /\ logins' = logins /\ shared' = shared \cup {l}
      /\ UNCHANGED <<lockFile, refreshing, call, issued, lost>>
  BY DEF SaveImport, Saved
<1> HIDE DEF cred
<1>3. s \in Stored /\ s.cred = cred /\ s.gen = store[b].gen + 1
  BY <1>0, <1>1 DEF Stored
<1> HIDE DEF s
<1>4. l \in LoginId /\ (cred.grant[1] = l \/ cred.grant[1] \in shared)
  BY <1>0, <1>1 DEF AccountInv, Live, cred
<1>5. \A m \in LoginId : Gives(s, l, m) =>
        Gives(store[a], l, m) /\ m \in shared'
  BY <1>1, <1>2, <1>3, <1>4 DEF Gives, cred
<1>6. AccountInv(s, l, shared', logins')
  BY <1>0, <1>1, <1>2, <1>3, <1>4, <1>5, TokenConstants DEF AccountInv
<1> HIDE DEF l
<1>7. MayBecome(b, s, l)
  BY <1>0, <1>2, <1>3, <1>5, <1>6 DEF MayBecome, Gives
<1>9. /\ logins' \in 0..MaxLogins /\ logins <= logins'
      /\ shared' \subseteq LoginId /\ shared \subseteq shared'
  BY <1>0, <1>2, <1>4
<1> QED BY <1>2, <1>3, <1>4, <1>7, <1>9, AccountKeeps

LEMMA TombstoneKeeps ==
  ASSUME TokensInv, NEW a \in Account, Tombstone(a)
  PROVE  TokensInv'
<1> DEFINE s == [gen |-> store[a].gen + 1, cred |-> None]
<1>0. /\ TokensTypeOK /\ store[a].gen \in Nat /\ shared \subseteq LoginId
      /\ logins \in Nat /\ logins \in 0..MaxLogins
  BY Typed, TokenConstants DEF TokensInv, Stored
<1>1. /\ store' = [store EXCEPT ![a] = s] /\ loggedIn' = [loggedIn EXCEPT ![a] = None]
      /\ logins' = logins /\ shared' = shared
      /\ UNCHANGED <<lockFile, refreshing, call, issued, lost>>
  BY DEF Tombstone, Saved
<1>2. s \in Stored /\ s.cred = None /\ s.gen = store[a].gen + 1
  BY <1>0 DEF Stored
<1> HIDE DEF s
<1>3. \A m \in LoginId : ~Gives(s, None, m)
  BY <1>2, TokenConstants DEF Gives, LoginId
<1>4. MayBecome(a, s, None)
  BY <1>0, <1>2, <1>3, TokenConstants DEF MayBecome, AccountInv, LoginId
<1>9. /\ logins' \in 0..MaxLogins /\ logins <= logins'
      /\ shared' \subseteq LoginId /\ shared \subseteq shared'
  BY <1>0, <1>1
<1> QED BY <1>1, <1>2, <1>4, <1>9, AccountKeeps

LEMMA ExpiresKeeps ==
  ASSUME TokensInv, NEW a \in Account, Expires(a)
  PROVE  TokensInv'
<1> DEFINE cred == store[a].cred
           old == [cred EXCEPT !.fresh = FALSE]
           s == [store[a] EXCEPT !.cred = old]
<1>0. /\ TokensTypeOK /\ store[a] \in Stored /\ store[a].gen \in Nat
      /\ shared \subseteq LoginId /\ logins \in Nat /\ logins \in 0..MaxLogins
      /\ loggedIn \in [Account -> LoginId \cup {None}] /\ loggedIn[a] \in LoginId \cup {None}
      /\ AccountInv(store[a], loggedIn[a], shared, logins)
      /\ Live(a)
  BY Typed, TokenConstants DEF TokensInv, Stored, Expires, Fresh
<1>1. cred \in Credential
  BY <1>0, PartOfStore
<1>2. /\ store' = [store EXCEPT ![a].cred.fresh = FALSE]
      /\ loggedIn' = loggedIn /\ logins' = logins /\ shared' = shared
      /\ UNCHANGED <<lockFile, refreshing, call, issued, lost>>
  BY DEF Expires
<1>3. store' = [store EXCEPT ![a] = s] /\ loggedIn' = [loggedIn EXCEPT ![a] = loggedIn[a]]
  BY <1>0, <1>2
<1>4. old \in Credential /\ old.grant = cred.grant
  BY <1>1 DEF Credential
<1> HIDE DEF old
<1>5. s \in Stored /\ s.cred = old /\ s.gen = store[a].gen
  BY <1>0, <1>4 DEF Stored
<1> HIDE DEF s
<1>6. \A m \in LoginId : Gives(s, loggedIn[a], m) => Gives(store[a], loggedIn[a], m)
  BY <1>1, <1>4, <1>5 DEF Gives
<1>7. AccountInv(s, loggedIn[a], shared, logins)
  BY <1>0, <1>1, <1>4, <1>5, <1>6, TokenConstants DEF AccountInv, Live
<1>8. MayBecome(a, s, loggedIn[a])
  BY <1>0, <1>2, <1>4, <1>5, <1>6, <1>7 DEF MayBecome, Part, Live
<1>9. /\ logins' \in 0..MaxLogins /\ logins <= logins'
      /\ shared' \subseteq LoginId /\ shared \subseteq shared'
  BY <1>0, <1>2
<1>10. loggedIn[a] \in LoginId \cup {None}
  BY <1>0
<1> QED BY <1>2, <1>3, <1>5, <1>8, <1>9, <1>10, AccountKeeps

-----------------------------------------------------------------------------
LEMMA IdleComes == Idle \in CallRecord /\ MayCome(Idle)
BY TokenConstants DEF Idle, CallRecord, MayCome, CallInv

LEMMA ReturnKeeps ==
  ASSUME TokensInv, NEW c \in Caller, Return(c)
  PROVE  TokensInv'
<1>1. TokensTypeOK
  BY DEF TokensInv
<1>2. /\ call' = [call EXCEPT ![c] = Idle]
      /\ UNCHANGED <<store, lockFile, refreshing, issued, logins, loggedIn, lost, shared>>
  BY DEF Return
<1>3. /\ lockFile \in [Grant -> {"NONE", "RECENT", "STALE"}]
      /\ refreshing \in [Grant -> Caller \cup {None}]
      /\ issued \in [LoginId -> 0..MaxRotations] /\ lost \subseteq LoginId
  BY <1>1, Typed
<1> QED BY <1>2, <1>3, IdleComes, OneCallKeeps

LEMMA RestartKeeps ==
  ASSUME TokensInv, DaemonRestarts
  PROVE  TokensInv'
<1>0. TokensTypeOK /\ UNCHANGED <<store, lockFile, issued, logins, loggedIn, shared>>
  BY DEF TokensInv, DaemonRestarts
<1>1. lost' \subseteq LoginId
  BY <1>0, Typed, LostIsLogin DEF DaemonRestarts
<1>2. /\ call' \in [Caller -> CallRecord] /\ \A c \in Caller : MayCome(call'[c])
      /\ refreshing' \in [Grant -> Caller \cup {None}]
  BY IdleComes DEF DaemonRestarts
<1>3. TokensTypeOK'
  BY <1>0, <1>1, <1>2, Typed, TypedNext
<1> QED BY <1>0, <1>2, <1>3, CallsKeep

LEMMA LockGrowsStaleKeeps ==
  ASSUME TokensInv, NEW g \in Grant, LockGrowsStale(g)
  PROVE  TokensInv'
<1>0. /\ TokensTypeOK
      /\ UNCHANGED <<store, refreshing, call, issued, logins, loggedIn, lost, shared>>
  BY DEF TokensInv, LockGrowsStale
<1>1. lockFile' \in [Grant -> {"NONE", "RECENT", "STALE"}]
  BY <1>0, Typed DEF LockGrowsStale
<1>2. TokensTypeOK'
  BY <1>0, <1>1, Typed, TypedNext
<1> QED BY <1>0, <1>2, CallsKeep

LEMMA TokensNextInv == TokensInv /\ [TokensNext]_tokens => TokensInv'
<1> SUFFICES ASSUME TokensInv, [TokensNext]_tokens PROVE TokensInv'
  OBVIOUS
<1>1. ASSUME NEW c \in Caller, Continue(c) PROVE TokensInv'
  BY <1>1, SettleKeeps, ResumeKeeps DEF Continue
<1>2. ASSUME NEW a \in Account, SaveLogin(a) \/ Tombstone(a) \/ Expires(a)
      PROVE  TokensInv'
  BY <1>2, SaveLoginKeeps, TombstoneKeeps, ExpiresKeeps
<1>3. ASSUME NEW c \in Caller, Answers(c) \/ Proceed(c) \/ Return(c)
      PROVE  TokensInv'
  <2>1. CASE Answers(c)
    BY <2>1, ServerKeeps DEF Answers
  <2>2. CASE Proceed(c)
    BY <2>2, PollKeeps, ReceiveKeeps, FetchFailsKeeps DEF Proceed
  <2>3. CASE Return(c)
    BY <2>3, ReturnKeeps
  <2> QED BY <1>3, <2>1, <2>2, <2>3
<1>4. CASE UNCHANGED tokens
  <2>1. /\ TokensTypeOK
        /\ UNCHANGED <<store, lockFile, refreshing, call, issued, logins, loggedIn, lost, shared>>
    BY <1>4 DEF TokensInv, tokens
  <2>2. TokensTypeOK'
    BY <2>1, Typed, TypedNext
  <2> QED BY <2>1, <2>2, CallsKeep
<1> QED
  BY <1>1, <1>2, <1>3, <1>4, SaveImportKeeps, AskKeeps, LockGrowsStaleKeeps, RestartKeeps
  DEF TokensNext

LEMMA TokensInitInv == TokensInit => TokensInv
<1> SUFFICES ASSUME TokensInit PROVE TokensInv
  OBVIOUS
<1>1. TokensTypeOK
  BY IdleComes, TokenConstants DEF TokensInit, TokensTypeOK, Grant, LoginId
<1>2. \A a \in Account : /\ store[a].cred = None /\ loggedIn[a] = None
                          /\ AccountInv(store[a], loggedIn[a], shared, logins)
  BY TokenConstants DEF TokensInit, AccountInv, Gives, LoginId
<1>3. \A c \in Caller : /\ call[c] = Idle
                         /\ CallInv(call[c], store, loggedIn, shared, logins)
  BY TokenConstants DEF TokensInit, Idle, CallInv
<1>4. \A a \in Account, l \in LoginId : ~Part(a, l)
  BY <1>2, <1>3, TokenConstants DEF Part, Gives, LoginId, Idle
<1> QED BY <1>1, <1>2, <1>3, <1>4 DEF TokensInv, SharedByTwo

(***************************************************************************)
(* Every reachable state of the account store is typed.                    *)
(***************************************************************************)
THEOREM TokensAreTyped == TokensSpec => []TokensTypeOK
<1>1. TokensInv => TokensTypeOK
  BY DEF TokensInv
<1> QED BY <1>1, TokensInitInv, TokensNextInv, PTL DEF TokensSpec

(***************************************************************************)
(* In every reachable state the credential of an account descends from its *)
(* last login: whatever refreshes, logins, deletions and restarts come in  *)
(* between, a refresh that ends late writes over no newer login.           *)
(***************************************************************************)
THEOREM CredentialsAreCurrent == TokensSpec => []CredentialIsCurrent
<1>1. TokensInv => CredentialIsCurrent
  BY DEF TokensInv, AccountInv, CredentialIsCurrent, Live
<1> QED BY <1>1, TokensInitInv, TokensNextInv, PTL DEF TokensSpec

-----------------------------------------------------------------------------
(***************************************************************************)
(* Of a login that is unsure nothing is claimed: a rotated token of it was *)
(* lost, or two accounts have part in it.  A grant is sound if it is the   *)
(* one in force, or of such a login.                                       *)
(***************************************************************************)
Unsure(l) == l \in lost \cup shared

Sound(g) == InForce(g) \/ Unsure(g[1])

\* The same of a grant in the next state.
SoundNext(g) == issued'[g[1]] = g[2] \/ g[1] \in lost' \cup shared'

Leading == {"POLL", "FETCH", "REPLY", "SETTLED"}

Asking == {"POLL", "FETCH", "REPLY"}

AtServer(r) == r.pc \in {"FETCH", "REPLY"}

(***************************************************************************)
(* A call that leads a refresh is the one registered for its grant.        *)
(***************************************************************************)
OneLeader == \A c \in Caller : call[c].pc \in Leading => refreshing[call[c].grant] = c

(***************************************************************************)
(* The first grant of a login to come is its number zero.                  *)
(***************************************************************************)
Unissued == \A l \in LoginId : l > logins => issued[l] = 0

(***************************************************************************)
(* What a refresh brings is fresh, and sound.                              *)
(***************************************************************************)
BroughtIsSound ==
  \A c \in Caller : call[c].pc \in {"REPLY", "SETTLED", "WOKEN"} /\ call[c].cred # None =>
    call[c].cred.fresh /\ Sound(call[c].cred.grant)

(***************************************************************************)
(* Until the calls it woke have gone on, the account of a refresh that     *)
(* succeeded is fresh, so none of them presents the old grant again ...    *)
(***************************************************************************)
SettledIsFresh ==
  \A c \in Caller :
    /\ call[c].pc = "SETTLED" /\ call[c].cred # None => Fresh(call[c].of)
    /\ call[c].pc = "WOKEN" => Fresh(call[c].of) \/ call[c].grant[1] \in shared

(***************************************************************************)
(* ... and no other call asks for it.                                      *)
(***************************************************************************)
WokenAlone ==
  \A x, c \in Caller :
    call[x].pc = "WOKEN" /\ call[c].pc \in Asking /\ call[x].grant = call[c].grant =>
      call[x].grant[1] \in shared

(***************************************************************************)
(* What is presented is sound.                                             *)
(***************************************************************************)
PresentedIsSound == \A c \in Caller : call[c].pc = "FETCH" => Sound(call[c].grant)

(***************************************************************************)
(* While a grant is with the server, the store has no other of its login,  *)
(* and has it as it was read.                                              *)
(***************************************************************************)
AsRead(r, s) == s.cred.grant = r.grant /\ s.gen = r.gen /\ ~s.cred.fresh

StoreWaits ==
  \A c \in Caller, a \in Account :
    AtServer(call[c]) /\ Live(a) /\ store[a].cred.grant[1] = call[c].grant[1] =>
      Unsure(call[c].grant[1]) \/ (a = call[c].of /\ AsRead(call[c], store[a]))

(***************************************************************************)
(* One call at a time is at the server for a login.                        *)
(***************************************************************************)
OneAtServer ==
  \A c, x \in Caller :
    AtServer(call[c]) /\ AtServer(call[x]) /\ call[c].grant[1] = call[x].grant[1] =>
      c = x \/ Unsure(call[c].grant[1])

(***************************************************************************)
(* What the store has is sound, or its successor is about to be received.  *)
(***************************************************************************)
Succeeded(g) ==
  \E c \in Caller : call[c].pc = "REPLY" /\ call[c].cred # None /\ call[c].grant = g

StoreIsSound ==
  \A a \in Account : Live(a) =>
    Sound(store[a].cred.grant) \/ Succeeded(store[a].cred.grant)

GrantInv ==
  /\ OneLeader /\ Unissued /\ BroughtIsSound /\ SettledIsFresh /\ WokenAlone
  /\ PresentedIsSound /\ StoreWaits /\ OneAtServer /\ StoreIsSound

-----------------------------------------------------------------------------
(***************************************************************************)
(* Call c may come to what it is in the next state.                        *)
(***************************************************************************)
CallMay(c, q) ==
  /\ q.pc \in Leading => refreshing'[q.grant] = c
  /\ q.pc \in {"REPLY", "SETTLED"} /\ q.cred # None => q.cred.fresh /\ SoundNext(q.cred.grant)
  /\ q.pc = "SETTLED" /\ q.cred # None => store'[q.of].cred # None /\ store'[q.of].cred.fresh
  /\ q.pc # "WOKEN"
  /\ q.pc \in Asking => \A x \in Caller \ {c} :
       call[x].pc = "WOKEN" /\ call[x].grant = q.grant => q.grant[1] \in shared'
  /\ q.pc = "FETCH" => SoundNext(q.grant)
  /\ AtServer(q) =>
       /\ \A b \in Account : store'[b].cred # None /\ store'[b].cred.grant[1] = q.grant[1] =>
            q.grant[1] \in lost' \cup shared' \/ (b = q.of /\ AsRead(q, store'[b]))
       /\ \A x \in Caller \ {c} : AtServer(call[x]) /\ call[x].grant[1] = q.grant[1] =>
            q.grant[1] \in lost' \cup shared'
  /\ call[c].pc = "REPLY" /\ q.pc # "REPLY" => \A b \in Account :
       /\ store'[b] = store[b] /\ store[b].cred # None
       /\ store[b].cred.grant = call[c].grant /\ call[c].cred # None
       => SoundNext(store[b].cred.grant)
  /\ call[c].pc = "REPLY" /\ q.pc = "REPLY" => q = call[c]

(***************************************************************************)
(* Account a may come to what it is in the next state, but for its expiry, *)
(* when c changes.                                                         *)
(***************************************************************************)
AccountMay(a, c) ==
  LET s == store'[a] IN
  /\ \A x \in Caller \ {c} : call[x].pc \in {"SETTLED", "WOKEN"} => s.cred # None /\ s.cred.fresh
  /\ s.cred # None =>
       /\ SoundNext(s.cred.grant)
       /\ \A x \in Caller \ {c} : AtServer(call[x]) /\ call[x].grant[1] = s.cred.grant[1] =>
            s.cred.grant[1] \in lost' \cup shared'

Grows == shared \subseteq shared' /\ lost \subseteq lost' /\ logins <= logins'

(***************************************************************************)
(* A step that changes one call and one account, at most, as they may, and *)
(* rotates no grant.                                                       *)
(***************************************************************************)
LEMMA StepKeepsGrants ==
  ASSUME TokensInv, GrantInv, Grows, logins' \in Nat, UNCHANGED issued,
         NEW c, NEW a,
         \A x \in Caller \ {c} : /\ call'[x] = call[x]
                                 /\ call[x].pc \in Leading =>
                                      refreshing'[call[x].grant] = x,
         \A b \in Account \ {a} : store'[b] = store[b],
         c \in Caller => CallMay(c, call'[c]),
         a \in Account => AccountMay(a, c)
  PROVE  GrantInv'
<1>0. \A g : Sound(g) => SoundNext(g)
  BY DEF Sound, InForce, Unsure, SoundNext, Grows
<1>1. OneLeader'
  BY DEF OneLeader, GrantInv, CallMay
<1>2. Unissued'
  BY TokenConstants, Typed DEF Unissued, GrantInv, Grows, TokensInv, LoginId
<1>3. BroughtIsSound'
  <2> SUFFICES ASSUME NEW x \in Caller, call'[x].pc \in {"REPLY", "SETTLED", "WOKEN"},
                      call'[x].cred # None
               PROVE  call'[x].cred.fresh /\ SoundNext(call'[x].cred.grant)
    BY DEF BroughtIsSound, Sound, InForce, Unsure, SoundNext
  <2>1. CASE x = c
    BY <2>1 DEF CallMay
  <2>2. CASE x # c
    BY <1>0, <2>2 DEF GrantInv, BroughtIsSound
  <2> QED BY <2>1, <2>2
<1>4. SettledIsFresh'
  <2> SUFFICES ASSUME NEW x \in Caller
               PROVE  /\ call'[x].pc = "SETTLED" /\ call'[x].cred # None =>
                           store'[call'[x].of].cred # None /\ store'[call'[x].of].cred.fresh
                      /\ call'[x].pc = "WOKEN" =>
                           \/ store'[call'[x].of].cred # None /\ store'[call'[x].of].cred.fresh
                           \/ call'[x].grant[1] \in shared'
    BY DEF SettledIsFresh, Fresh, Live
  <2>1. CASE x = c
    BY <2>1 DEF CallMay
  <2>2. CASE x # c
    <3>1. /\ call[x].pc = "SETTLED" /\ call[x].cred # None => Fresh(call[x].of)
          /\ call[x].pc = "WOKEN" => Fresh(call[x].of) \/ call[x].grant[1] \in shared
      BY DEF GrantInv, SettledIsFresh
    <3>2. call[x].pc \in {"SETTLED", "WOKEN"} => call[x].of \in Account
      BY DEF TokensInv, CallInv
    <3>3. CASE call[x].of = a
      BY <2>2, <3>1, <3>2, <3>3 DEF AccountMay
    <3>4. CASE call[x].of # a
      BY <2>2, <3>1, <3>2, <3>4 DEF Fresh, Live, Grows
    <3> QED BY <3>3, <3>4
  <2> QED BY <2>1, <2>2
<1>5. WokenAlone'
  <2> SUFFICES ASSUME NEW x \in Caller, NEW y \in Caller, call'[x].pc = "WOKEN",
                      call'[y].pc \in Asking, call'[x].grant = call'[y].grant
               PROVE  call'[x].grant[1] \in shared'
    BY DEF WokenAlone
  <2>1. x # c
    BY DEF CallMay
  <2>2. CASE y = c
    BY <2>1, <2>2 DEF CallMay
  <2>3. CASE y # c
    BY <2>1, <2>3 DEF GrantInv, WokenAlone, Grows
  <2> QED BY <2>2, <2>3
<1>6. PresentedIsSound'
  <2> SUFFICES ASSUME NEW x \in Caller, call'[x].pc = "FETCH"
               PROVE  SoundNext(call'[x].grant)
    BY DEF PresentedIsSound, Sound, InForce, Unsure, SoundNext
  <2> QED BY <1>0 DEF CallMay, GrantInv, PresentedIsSound
<1>7. StoreWaits'
  <2> SUFFICES ASSUME NEW x \in Caller, NEW b \in Account, AtServer(call'[x]),
                      store'[b].cred # None, store'[b].cred.grant[1] = call'[x].grant[1],
                      call'[x].grant[1] \notin lost' \cup shared'
               PROVE  b = call'[x].of /\ AsRead(call'[x], store'[b])
    BY DEF StoreWaits, Live, Unsure
  <2>1. CASE x = c
    BY <2>1 DEF CallMay
  <2>2. CASE x # c /\ b = a
    BY <2>2 DEF AccountMay
  <2>3. CASE x # c /\ b # a
    BY <2>3 DEF GrantInv, StoreWaits, Live, Unsure, Grows
  <2> QED BY <2>1, <2>2, <2>3
<1>8. OneAtServer'
  <2> SUFFICES ASSUME NEW x \in Caller, NEW y \in Caller, AtServer(call'[x]),
                      AtServer(call'[y]), call'[x].grant[1] = call'[y].grant[1], x # y
               PROVE  call'[x].grant[1] \in lost' \cup shared'
    BY DEF OneAtServer, Unsure
  <2>1. CASE x = c
    BY <2>1 DEF CallMay
  <2>2. CASE y = c
    BY <2>2 DEF CallMay
  <2>3. CASE x # c /\ y # c
    BY <2>3 DEF GrantInv, OneAtServer, Unsure, Grows
  <2> QED BY <2>1, <2>2, <2>3
<1>9. StoreIsSound'
  <2> SUFFICES ASSUME NEW b \in Account, store'[b].cred # None, ~SoundNext(store'[b].cred.grant)
               PROVE  \E y \in Caller : /\ call'[y].pc = "REPLY" /\ call'[y].cred # None
                                        /\ call'[y].grant = store'[b].cred.grant
    BY DEF StoreIsSound, Live, Sound, InForce, Unsure, SoundNext, Succeeded
  <2>1. b # a
    BY DEF AccountMay
  <2>2. store'[b] = store[b] /\ ~Sound(store[b].cred.grant)
    BY <1>0, <2>1
  <2>3. PICK y \in Caller : /\ call[y].pc = "REPLY" /\ call[y].cred # None
                            /\ call[y].grant = store[b].cred.grant
    BY <2>2 DEF GrantInv, StoreIsSound, Live, Succeeded
  <2>4. call'[y] = call[y]
    BY <2>2, <2>3 DEF CallMay
  <2> QED BY <2>2, <2>3, <2>4
<1> QED BY <1>1, <1>2, <1>3, <1>4, <1>5, <1>6, <1>7, <1>8, <1>9 DEF GrantInv

(***************************************************************************)
(* What is known of a call.                                                *)
(***************************************************************************)
LEMMA CallIs ==
  ASSUME TokensInv, NEW c \in Caller
  PROVE  /\ call[c] \in CallRecord
         /\ call[c].pc \in {"POLL", "FETCH", "REPLY", "SETTLED", "WAIT", "WOKEN"} =>
              /\ call[c].of \in Account /\ call[c].grant \in Grant
              /\ call[c].grant[1] \in LoginId /\ call[c].grant[1] <= logins
              /\ Part(call[c].of, call[c].grant[1])
         /\ call[c].cred # None =>
              /\ call[c].cred \in Credential /\ call[c].cred.grant \in Grant
              /\ call[c].cred.grant[1] \in LoginId
         /\ call[c].pc = "REPLY" /\ call[c].cred # None =>
              call[c].cred.grant[1] = call[c].grant[1]
<1>1. call[c] \in CallRecord /\ CallInv(call[c], store, loggedIn, shared, logins)
  BY Typed DEF TokensInv
<1>2. call[c].cred # None => call[c].cred \in Credential
  BY <1>1 DEF CallRecord
<1>3. call[c].cred # None => call[c].cred.grant \in Grant
  BY <1>2 DEF Credential
<1> QED BY <1>1, <1>2, <1>3, PartOfCall, GrantLogin DEF CallInv

(***************************************************************************)
(* A call that has ended, has not begun or awaits another, and was not     *)
(* about to receive an answer.                                             *)
(***************************************************************************)
LEMMA QuietCallGrants ==
  ASSUME TokensInv, GrantInv, NEW c \in Caller,
         call'[c].pc \in {"IDLE", "WAIT", "DONE", "FAILED"}, call[c].pc # "REPLY",
         \A x \in Caller \ {c} : call'[x] = call[x],
         UNCHANGED <<store, refreshing, issued, logins, lost, shared>>
  PROVE  GrantInv'
<1>2. CallMay(c, call'[c])
  BY DEF CallMay, Leading, Asking, AtServer
<1>3. Grows /\ logins' \in Nat /\ None \notin Account
  BY Typed, TokenConstants DEF TokensInv, Grows
<1>4. \A x \in Caller : call[x].pc \in Leading => refreshing'[call[x].grant] = x
  BY DEF GrantInv, OneLeader
<1> QED BY <1>2, <1>3, <1>4, StepKeepsGrants

(***************************************************************************)
(* A call that is to ask for the grant of an account whose token is due is *)
(* not one of a refresh that has just succeeded, unless the login is       *)
(* shared.                                                                 *)
(***************************************************************************)
LEMMA DueIsNotWoken ==
  ASSUME TokensInv, GrantInv, NEW a \in Account, NEW g \in Grant, Part(a, g[1]), ~Fresh(a),
         NEW x \in Caller, call[x].pc = "WOKEN", call[x].grant = g
  PROVE  g[1] \in shared
<1>1. Fresh(call[x].of) \/ g[1] \in shared
  BY DEF GrantInv, SettledIsFresh
<1>2. call[x].of \in Account /\ Part(call[x].of, g[1]) /\ g[1] \in LoginId
  BY CallIs
<1> QED BY <1>1, <1>2 DEF TokensInv, SharedByTwo

(***************************************************************************)
(* The grant of a fresh credential is sound, and so is one that no call    *)
(* leads a refresh of.                                                     *)
(***************************************************************************)
LEMMA FreshIsSound ==
  ASSUME TokensInv, GrantInv, NEW a \in Account, Fresh(a)
  PROVE  Sound(store[a].cred.grant)
<1> SUFFICES ASSUME NEW c \in Caller, call[c].pc = "REPLY",
                    call[c].grant = store[a].cred.grant
             PROVE  Sound(store[a].cred.grant)
  BY DEF GrantInv, StoreIsSound, Succeeded, Fresh
<1>1. Unsure(call[c].grant[1]) \/ AsRead(call[c], store[a])
  BY DEF GrantInv, StoreWaits, AtServer, Fresh
<1> QED BY <1>1 DEF AsRead, Fresh, Sound

LEMMA UnledIsSound ==
  ASSUME GrantInv, NEW a \in Account, Live(a),
         \A x \in Caller : call[x].pc = "REPLY" => call[x].grant # store[a].cred.grant
  PROVE  Sound(store[a].cred.grant)
BY DEF GrantInv, StoreIsSound, Succeeded

LEMMA SoundStays ==
  ASSUME Grows, UNCHANGED issued, NEW g, Sound(g)
  PROVE  SoundNext(g)
BY DEF Sound, SoundNext, InForce, Unsure, Grows

(***************************************************************************)
(* The leader that has come to the lock.                                   *)
(***************************************************************************)
LEMMA UnderLockGrants ==
  ASSUME TokensInv, GrantInv, NEW c \in Caller, NEW a \in Account, NEW g \in Grant,
         Part(a, g[1]), UnderLock(c, a, g), refreshing'[g] = c,
         \A x \in Caller \ {c} : call[x].pc \in Leading =>
            call[x].grant # g /\ refreshing'[call[x].grant] = x,
         call[c].pc \notin {"FETCH", "REPLY", "SETTLED"},
         UNCHANGED <<issued, logins, loggedIn, lost, shared>>
  PROVE  GrantInv'
<1> DEFINE r == CallFor(a, g)
<1>0. /\ store \in [Account -> Stored] /\ store[a] \in Stored /\ store[a].gen \in Nat
      /\ store[a].gen + 1 \in Nat
      /\ call \in [Caller -> CallRecord] /\ g[1] \in LoginId /\ SharedByTwo
      /\ logins \in Nat
  BY Typed, GrantLogin, TokenConstants DEF TokensInv, Stored
<1>1. /\ r \in CallRecord /\ r.of = a /\ r.grant = g /\ r.cred = None
  BY CallForIs
<1>2. Grows /\ logins' \in Nat /\ None \notin Account
  BY <1>0, TokenConstants DEF Grows
<1>3. "SETTLED" \in Pc /\ "FETCH" \in Pc /\ "CONFLICT" \in Failure \cup {None}
  BY DEF Pc, Failure
<1> HIDE DEF r
<1>4. ASSUME NEW q, call' = [call EXCEPT ![c] = q]
      PROVE  call'[c] = q /\ \A x \in Caller \ {c} : call'[x] = call[x]
  BY <1>0, <1>4
<1>5. CASE call' = [call EXCEPT ![c] = Without(r, "SETTLED", "CONFLICT")] /\ store' = store
  <2> DEFINE q == Without(r, "SETTLED", "CONFLICT")
  <2>1. q.pc = "SETTLED" /\ q.cred = None /\ q.of = a /\ q.grant = g
    BY <1>1, <1>3, WithoutIs
  <2>2. call'[c] = q /\ \A x \in Caller \ {c} : call'[x] = call[x]
    BY <1>4, <1>5
  <2> HIDE DEF q
  <2>3. CallMay(c, q)
    BY <2>1 DEF CallMay, Leading, Asking, AtServer
  <2> QED BY <1>2, <1>5, <2>2, <2>3, StepKeepsGrants
<1>6. CASE /\ Fresh(a) /\ store' = store
           /\ call' = [call EXCEPT ![c] = With(r, "SETTLED", store[a].cred, store[a].gen)]
  <2> DEFINE q == With(r, "SETTLED", store[a].cred, store[a].gen)
  <2>0. store[a].cred \in Credential
    BY <1>0, <1>6 DEF Fresh, Live, Stored
  <2>1. q.pc = "SETTLED" /\ q.cred = store[a].cred /\ q.of = a /\ q.grant = g
    BY <1>0, <1>1, <1>3, <2>0, WithIs
  <2>2. call'[c] = q /\ \A x \in Caller \ {c} : call'[x] = call[x]
    BY <1>4, <1>6
  <2> HIDE DEF q
  <2>3. SoundNext(q.cred.grant)
    BY <1>2, <1>6, <2>1, FreshIsSound, SoundStays
  <2>4. CallMay(c, q)
    BY <1>6, <2>1, <2>3 DEF CallMay, Leading, Asking, AtServer, Fresh, Live
  <2> QED BY <1>2, <1>6, <2>2, <2>4, StepKeepsGrants
<1>7. ASSUME NEW b \in Account, b # a, Live(a), store[a].cred.grant = g,
             Fresh(b), store[b].cred.grant = g,
             store' = Saved(a, store[b].cred),
             call' = [call EXCEPT ![c] = With(r, "SETTLED", store[b].cred, store[a].gen + 1)]
      PROVE  GrantInv'
  <2> DEFINE q == With(r, "SETTLED", store[b].cred, store[a].gen + 1)
  <2>0. store[b].cred \in Credential
    BY <1>0, <1>7 DEF Fresh, Live, Stored
  <2>1. q.pc = "SETTLED" /\ q.cred = store[b].cred /\ q.of = a /\ q.grant = g
    BY <1>0, <1>1, <1>3, <2>0, WithIs
  <2>2. call'[c] = q /\ \A x \in Caller \ {c} : call'[x] = call[x]
    BY <1>4, <1>7
  <2> HIDE DEF q
  <2>3. g[1] \in shared
    <3>1. Part(b, g[1])
      BY <1>7, PartOfStore DEF Fresh
    <3> QED BY <1>0, <1>7, <3>1 DEF SharedByTwo
  <2>4. /\ store'[a].cred = store[b].cred
        /\ \A x \in Account \ {a} : store'[x] = store[x]
    BY <1>0, <1>7 DEF Saved
  <2>5. SoundNext(g)
    BY <2>3 DEF SoundNext
  <2>6. CallMay(c, q)
    BY <1>7, <2>1, <2>4, <2>5 DEF CallMay, Leading, Asking, AtServer, Fresh, Live
  <2>7. AccountMay(a, c)
    BY <1>7, <2>3, <2>4, <2>5 DEF AccountMay, Fresh, Live
  <2> QED BY <1>2, <2>2, <2>4, <2>6, <2>7, StepKeepsGrants
<1>8. CASE /\ Live(a) /\ ~Fresh(a) /\ store[a].cred.grant = g /\ store' = store
           /\ call' = [call EXCEPT ![c] = With(r, "FETCH", None, store[a].gen)]
  <2> DEFINE q == With(r, "FETCH", None, store[a].gen)
  <2>1. /\ q.pc = "FETCH" /\ q.cred = None /\ q.gen = store[a].gen
        /\ q.of = a /\ q.grant = g
    BY <1>0, <1>1, <1>3, WithIs
  <2>2. call'[c] = q /\ \A x \in Caller \ {c} : call'[x] = call[x]
    BY <1>4, <1>8
  <2> HIDE DEF q
  <2>3. SoundNext(g)
    <3>1. Sound(store[a].cred.grant)
      BY <1>8, UnledIsSound DEF Leading
    <3> QED BY <1>2, <1>8, <3>1, SoundStays
  <2>4. \A x \in Caller : call[x].pc = "WOKEN" /\ call[x].grant = g => g[1] \in shared
    BY <1>8, DueIsNotWoken
  <2>5. \A b \in Account : Live(b) /\ store[b].cred.grant[1] = g[1] =>
          g[1] \in shared \/ b = a
    BY <1>0, PartOfStore DEF SharedByTwo
  <2>6. ASSUME NEW x \in Caller \ {c}, AtServer(call[x]), call[x].grant[1] = g[1]
        PROVE  Unsure(g[1])
    <3>1. Unsure(g[1]) \/ store[a].cred.grant = call[x].grant
      BY <1>8, <2>6 DEF GrantInv, StoreWaits, AsRead
    <3> QED BY <1>8, <2>6, <3>1 DEF AtServer, Leading
  <2>7. CallMay(c, q)
    BY <1>8, <2>1, <2>3, <2>4, <2>5, <2>6
    DEF CallMay, Leading, Asking, AtServer, AsRead, Fresh, Live, Unsure
  <2> QED BY <1>2, <1>8, <2>2, <2>7, StepKeepsGrants
<1> QED BY <1>5, <1>6, <1>7, <1>8 DEF UnderLock, FreshTwins, r

(***************************************************************************)
(* A call that begins, or begins again.                                    *)
(***************************************************************************)
LEMMA AskGrants ==
  ASSUME TokensInv, GrantInv, NEW c \in Caller, NEW a \in Account, Ask(c, a),
         call[c].pc \in {"IDLE", "WOKEN"}
  PROVE  GrantInv'
<1>0. UNCHANGED <<issued, logins, loggedIn, lost, shared>>
  BY DEF Ask
<1>5. call[c].pc # "REPLY"
  OBVIOUS
<1>6. call \in [Caller -> CallRecord]
  BY Typed DEF TokensInv
<1>1. CASE /\ call' = [call EXCEPT ![c] = Without(CallFor(a, None), "FAILED", "UNAVAILABLE")]
           /\ UNCHANGED <<store, lockFile, refreshing>>
  <2> DEFINE q == Without(CallFor(a, None), "FAILED", "UNAVAILABLE")
  <2>1. q.pc \in {"IDLE", "WAIT", "DONE", "FAILED"}
    BY DEF Without, CallFor, Idle
  <2>2. /\ call'[c] = q /\ \A x \in Caller \ {c} : call'[x] = call[x]
        /\ UNCHANGED <<store, refreshing, issued, logins, lost, shared>>
    BY <1>0, <1>6, <1>1
  <2> HIDE DEF q
  <2> QED BY <1>5, <2>1, <2>2, QuietCallGrants
<1>2. CASE /\ call' = [call EXCEPT
                ![c] = With(CallFor(a, None), "DONE", store[a].cred, store[a].gen)]
           /\ UNCHANGED <<store, lockFile, refreshing>>
  <2> DEFINE q == With(CallFor(a, None), "DONE", store[a].cred, store[a].gen)
  <2>1. q.pc \in {"IDLE", "WAIT", "DONE", "FAILED"}
    BY DEF With, CallFor, Idle
  <2>2. /\ call'[c] = q /\ \A x \in Caller \ {c} : call'[x] = call[x]
        /\ UNCHANGED <<store, refreshing, issued, logins, lost, shared>>
    BY <1>0, <1>6, <1>2
  <2> HIDE DEF q
  <2> QED BY <1>5, <2>1, <2>2, QuietCallGrants
<1>3. CASE /\ call' = [call EXCEPT ![c] = [CallFor(a, store[a].cred.grant) EXCEPT !.pc = "WAIT"]]
           /\ UNCHANGED <<store, lockFile, refreshing>>
  <2> DEFINE q == [CallFor(a, store[a].cred.grant) EXCEPT !.pc = "WAIT"]
  <2>1. q.pc \in {"IDLE", "WAIT", "DONE", "FAILED"}
    BY DEF CallFor, Idle
  <2>2. /\ call'[c] = q /\ \A x \in Caller \ {c} : call'[x] = call[x]
        /\ UNCHANGED <<store, refreshing, issued, logins, lost, shared>>
    BY <1>0, <1>6, <1>3
  <2> HIDE DEF q
  <2> QED BY <1>5, <2>1, <2>2, QuietCallGrants
<1>4. CASE Live(a) /\ ~Fresh(a) /\ Lead(c, a, store[a].cred.grant)
  <2> DEFINE g == store[a].cred.grant
  <2>1. g \in Grant /\ Part(a, g[1])
    BY <1>4, PartOfStore
  <2> HIDE DEF g
  <2>2. refreshing \in [Grant -> Caller \cup {None}] /\ None \notin Caller
    BY Typed, TokenConstants DEF TokensInv
  <2>3. refreshing[g] = None /\ refreshing' = [refreshing EXCEPT ![g] = c]
    BY <1>4 DEF Lead, g
  <2>4. ASSUME NEW x \in Caller, call[x].pc \in Leading
        PROVE  call[x].grant # g /\ refreshing'[call[x].grant] = x
    <3>1. refreshing[call[x].grant] = x /\ call[x].grant \in Grant
      BY <2>4, CallIs DEF GrantInv, OneLeader, Leading
    <3> QED BY <2>2, <2>3, <3>1
  <2>5. refreshing'[g] = c
    BY <2>1, <2>2, <2>3
  <2>6. CASE UnderLock(c, a, g)
    BY <1>0, <2>1, <2>4, <2>5, <2>6, UnderLockGrants
  <2>7. CASE /\ call' = [call EXCEPT ![c] = [CallFor(a, g) EXCEPT !.pc = "POLL"]]
             /\ UNCHANGED store
    <3> DEFINE q == [CallFor(a, g) EXCEPT !.pc = "POLL"]
    <3>1. q.pc = "POLL" /\ q.grant = g
      BY DEF CallFor, Idle
    <3>2. call'[c] = q /\ \A x \in Caller \ {c} : call'[x] = call[x]
      BY <2>7, Typed DEF TokensInv
    <3> HIDE DEF q
    <3>3. \A x \in Caller : call[x].pc = "WOKEN" /\ call[x].grant = g => g[1] \in shared
      BY <1>4, <2>1, DueIsNotWoken
    <3>4. CallMay(c, q)
      BY <1>0, <2>5, <3>1, <3>3 DEF CallMay, Leading, Asking, AtServer
    <3>5. Grows /\ logins' \in Nat /\ None \notin Account
      BY <1>0, Typed, TokenConstants DEF TokensInv, Grows
    <3> QED BY <1>0, <2>4, <2>7, <3>2, <3>4, <3>5, StepKeepsGrants
  <2> QED BY <1>4, <2>6, <2>7 DEF Lead, g
<1> QED BY <1>1, <1>2, <1>3, <1>4 DEF Ask

LEMMA PollGrants ==
  ASSUME TokensInv, GrantInv, NEW c \in Caller, Poll(c)
  PROVE  GrantInv'
<1> DEFINE g == call[c].grant
<1>1. call[c].of \in Account /\ g \in Grant /\ Part(call[c].of, g[1]) /\ call[c].pc = "POLL"
  BY CallIs DEF Poll
<1>2. \A x \in Caller : call[x].pc \in Leading => refreshing[call[x].grant] = x
  BY DEF GrantInv, OneLeader
<1>3. refreshing' = refreshing /\ refreshing[g] = c
  BY <1>1, <1>2 DEF Poll, Leading
<1>4. UnderLock(c, call[c].of, g) /\ UNCHANGED <<issued, logins, loggedIn, lost, shared>>
  BY DEF Poll
<1> HIDE DEF g
<1> QED BY <1>1, <1>2, <1>3, <1>4, UnderLockGrants

(***************************************************************************)
(* Where nothing has settled yet, a step of one call that leaves the store *)
(* as it is, and keeps what it leads.                                      *)
(***************************************************************************)
LEMMA LedCallGrants ==
  ASSUME TokensInv, GrantInv, NEW c \in Caller, call[c].pc \in Leading,
         \A x \in Caller \ {c} : call'[x] = call[x],
         call'[c].grant = call[c].grant, CallMay(c, call'[c]),
         lost \subseteq lost',
         UNCHANGED <<store, refreshing, issued, logins, shared>>
  PROVE  GrantInv'
<1>1. Grows /\ logins' \in Nat /\ None \notin Account
  BY Typed, TokenConstants DEF TokensInv, Grows
<1>2. \A x \in Caller : call[x].pc \in Leading => refreshing'[call[x].grant] = x
  BY DEF GrantInv, OneLeader
<1> QED BY <1>1, <1>2, StepKeepsGrants

(***************************************************************************)
(* The answer of the server.                                               *)
(***************************************************************************)
LEMMA RepliesIs ==
  ASSUME TokensInv, NEW c \in Caller, NEW cred, Replies(c, cred)
  PROVE  /\ \A x \in Caller \ {c} : call'[x] = call[x]
         /\ call'[c].pc = "REPLY" /\ call'[c].cred = cred
         /\ call'[c].of = call[c].of /\ call'[c].grant = call[c].grant
         /\ call'[c].gen = call[c].gen
         /\ UNCHANGED <<store, refreshing, logins, lost, shared>>
BY Typed DEF TokensInv, Replies, CallRecord

LEMMA UnrotatedGrants ==
  ASSUME TokensInv, GrantInv, NEW c \in Caller, Renews(c) \/ Refuses(c)
  PROVE  GrantInv'
<1>0. call[c].pc = "FETCH" /\ UNCHANGED issued
  BY DEF Renews, Refuses
<1>1. PICK cred : /\ Replies(c, cred)
                  /\ cred # None => cred.fresh /\ cred.grant = call[c].grant
  BY DEF Renews, Refuses
<1>2. /\ \A x \in Caller \ {c} : call'[x] = call[x]
      /\ call'[c].pc = "REPLY" /\ call'[c].cred = cred
      /\ call'[c].of = call[c].of /\ call'[c].grant = call[c].grant
      /\ call'[c].gen = call[c].gen
      /\ UNCHANGED <<store, refreshing, logins, lost, shared>>
  BY <1>1, RepliesIs
<1>3. Grows
  BY <1>2, Typed, TokenConstants DEF TokensInv, Grows
<1>4. SoundNext(call[c].grant)
  BY <1>0, <1>3, SoundStays DEF GrantInv, PresentedIsSound
<1>5. refreshing[call[c].grant] = c
  BY <1>0 DEF GrantInv, OneLeader, Leading
<1>6. \A x \in Caller : call[x].pc = "WOKEN" /\ call[x].grant = call[c].grant =>
        call[c].grant[1] \in shared
  BY <1>0 DEF GrantInv, WokenAlone, Asking
<1>7. \A b \in Account : Live(b) /\ store[b].cred.grant[1] = call[c].grant[1] =>
        Unsure(call[c].grant[1]) \/ (b = call[c].of /\ AsRead(call[c], store[b]))
  BY <1>0 DEF GrantInv, StoreWaits, AtServer
<1>8. \A x \in Caller \ {c} : AtServer(call[x]) /\ call[x].grant[1] = call[c].grant[1] =>
        Unsure(call[c].grant[1])
  BY <1>0 DEF GrantInv, OneAtServer, AtServer
<1>9. CallMay(c, call'[c])
  BY <1>0, <1>1, <1>2, <1>4, <1>5, <1>6, <1>7, <1>8
  DEF CallMay, AtServer, AsRead, Live, Unsure
<1> QED BY <1>0, <1>2, <1>9, LedCallGrants DEF Leading

(***************************************************************************)
(* A rotation: the one call at the server for the login has the successor. *)
(***************************************************************************)
LEMMA RotatesGrants ==
  ASSUME TokensInv, GrantInv, NEW c \in Caller, Rotates(c), ~Settling
  PROVE  GrantInv'
<1> DEFINE g == call[c].grant
           l == call[c].grant[1]
           cred == [grant |-> <<g[1], g[2] + 1>>, fresh |-> TRUE]
<1>0. call[c].pc = "FETCH" /\ Replies(c, cred) /\ issued[l] = g[2]
      /\ issued' = [issued EXCEPT ![l] = @ + 1]
  BY DEF Rotates, InForce
<1>1. /\ \A x \in Caller \ {c} : call'[x] = call[x]
      /\ call'[c].pc = "REPLY" /\ call'[c].cred = cred
      /\ call'[c].of = call[c].of /\ call'[c].grant = g
      /\ call'[c].gen = call[c].gen
      /\ UNCHANGED <<store, refreshing, logins, lost, shared>>
  BY <1>0, RepliesIs
<1>2. l \in LoginId /\ l <= logins /\ issued \in [LoginId -> 0..MaxRotations]
  BY <1>0, CallIs, Typed DEF TokensInv
<1>3. cred.fresh /\ cred.grant[1] = l /\ cred.grant[2] = issued'[l]
  BY <1>0, <1>2
<1>4. \A x \in Caller : call[x].pc \notin {"SETTLED", "WOKEN"}
  BY DEF Settling
<1>14. cred # None
  <2>1. g[1] \in LoginId /\ g[2] \in 0..MaxRotations /\ g[2] < MaxRotations
    BY <1>0, CallIs, GrantLogin DEF Rotates
  <2>2. <<g[1], g[2] + 1>> \in Grant
    BY <2>1, TokenConstants DEF Grant, LoginId
  <2>3. cred \in Credential
    BY <2>2 DEF Credential
  <2> QED BY <2>3, TokenConstants
<1> HIDE DEF cred, g, l
<1>5. \A h : Sound(h) /\ (h[1] # l \/ Unsure(l)) => SoundNext(h)
  BY <1>0, <1>1 DEF Sound, SoundNext, InForce, Unsure
<1>6. \A x \in Caller \ {c} : AtServer(call[x]) /\ call[x].grant[1] = l => Unsure(l)
  BY <1>0 DEF GrantInv, OneAtServer, AtServer, l
<1>7. OneLeader'
  BY <1>0, <1>1 DEF GrantInv, OneLeader, Leading, g
<1>8. Unissued'
  BY <1>0, <1>1, <1>2, Typed DEF GrantInv, Unissued, TokensInv, LoginId
<1>9. BroughtIsSound'
  <2> SUFFICES ASSUME NEW x \in Caller, call'[x].pc \in {"REPLY", "SETTLED", "WOKEN"},
                      call'[x].cred # None
               PROVE  call'[x].cred.fresh /\ SoundNext(call'[x].cred.grant)
    BY DEF BroughtIsSound, Sound, InForce, Unsure, SoundNext
  <2>1. CASE x = c
    BY <1>1, <1>3, <2>1 DEF SoundNext
  <2>2. CASE x # c
    <3>1. call'[x] = call[x] /\ call[x].pc = "REPLY"
      BY <1>1, <1>4, <2>2
    <3>2. call[x].cred.fresh /\ Sound(call[x].cred.grant)
      BY <3>1 DEF GrantInv, BroughtIsSound
    <3>3. call[x].cred.grant[1] = call[x].grant[1]
      BY <3>1, CallIs
    <3> QED BY <1>5, <1>6, <2>2, <3>1, <3>2, <3>3 DEF AtServer
  <2> QED BY <2>1, <2>2
<1>10. SettledIsFresh' /\ WokenAlone'
  BY <1>1, <1>4 DEF SettledIsFresh, WokenAlone
<1>11. PresentedIsSound'
  <2> SUFFICES ASSUME NEW x \in Caller, call'[x].pc = "FETCH"
               PROVE  SoundNext(call'[x].grant)
    BY DEF PresentedIsSound, Sound, InForce, Unsure, SoundNext
  <2>1. x # c /\ call'[x] = call[x]
    BY <1>1
  <2> QED BY <1>5, <1>6, <2>1 DEF GrantInv, PresentedIsSound, AtServer
<1>12. StoreWaits' /\ OneAtServer'
  <2>1. \A x \in Caller : /\ call'[x].of = call[x].of /\ call'[x].grant = call[x].grant
                          /\ call'[x].gen = call[x].gen
                          /\ AtServer(call'[x]) => AtServer(call[x])
    BY <1>0, <1>1 DEF AtServer, g
  <2>2. StoreWaits'
    BY <1>1, <2>1 DEF GrantInv, StoreWaits, Live, Unsure, AsRead
  <2>3. OneAtServer'
    BY <1>1, <2>1 DEF GrantInv, OneAtServer, Unsure
  <2> QED BY <2>2, <2>3
<1>13. StoreIsSound'
  <2> SUFFICES ASSUME NEW b \in Account, Live(b), ~SoundNext(store[b].cred.grant)
               PROVE  \E y \in Caller : /\ call'[y].pc = "REPLY" /\ call'[y].cred # None
                                        /\ call'[y].grant = store[b].cred.grant
    BY <1>1 DEF StoreIsSound, Live, Sound, InForce, Unsure, SoundNext, Succeeded
  <2>1. CASE store[b].cred.grant[1] = l /\ ~Unsure(l)
    <3>1. store[b].cred.grant = g
      BY <1>0, <2>1 DEF GrantInv, StoreWaits, AtServer, AsRead, g, l
    <3>2. call'[c].cred # None
      BY <1>1, <1>14
    <3> QED BY <1>1, <3>1, <3>2
  <2>2. CASE store[b].cred.grant[1] # l \/ Unsure(l)
    <3>1. ~Sound(store[b].cred.grant)
      BY <1>5, <2>2
    <3>2. PICK y \in Caller : /\ call[y].pc = "REPLY" /\ call[y].cred # None
                              /\ call[y].grant = store[b].cred.grant
      BY <3>1 DEF GrantInv, StoreIsSound, Succeeded
    <3> QED BY <1>0, <1>1, <3>2
  <2> QED BY <2>1, <2>2
<1> QED BY <1>7, <1>8, <1>9, <1>10, <1>11, <1>12, <1>13 DEF GrantInv

(***************************************************************************)
(* The answer is lost, or is received.                                     *)
(***************************************************************************)
LEMMA FetchFailsGrants ==
  ASSUME TokensInv, GrantInv, NEW c \in Caller, FetchFails(c)
  PROVE  GrantInv'
<1> DEFINE q == Without(call[c], "SETTLED", "TIMEOUT")
<1>0. /\ call[c].pc \in {"FETCH", "REPLY"} /\ call[c] \in CallRecord
      /\ call' = [call EXCEPT ![c] = q] /\ lost' = lost \cup LostWith(c)
      /\ UNCHANGED <<store, refreshing, issued, logins, shared>>
  BY CallIs DEF FetchFails, NoAnswer
<1>1. q.pc = "SETTLED" /\ q.cred = None /\ q.grant = call[c].grant
  BY <1>0, WithoutIs DEF Pc, Failure
<1>2. call'[c] = q /\ \A x \in Caller \ {c} : call'[x] = call[x]
  BY <1>0, Typed DEF TokensInv
<1> HIDE DEF q
<1>3. refreshing[call[c].grant] = c
  BY <1>0 DEF GrantInv, OneLeader, Leading
<1>4. call[c].pc = "REPLY" => SoundNext(call[c].grant)
  BY <1>0 DEF LostWith, InForce, SoundNext
<1>5. CallMay(c, q)
  BY <1>0, <1>1, <1>3, <1>4 DEF CallMay, Leading, Asking, AtServer
<1> QED BY <1>0, <1>1, <1>2, <1>5, LedCallGrants DEF Leading

LEMMA ReceiveGrants ==
  ASSUME TokensInv, GrantInv, NEW c \in Caller, Receive(c)
  PROVE  GrantInv'
<1> DEFINE r == call[c]
           a == call[c].of
<1>0. /\ r.pc = "REPLY" /\ r \in CallRecord /\ r.gen \in Nat /\ r.gen + 1 \in Nat
      /\ r.of = a /\ a \in Account /\ r.grant \in Grant
      /\ UNCHANGED <<lockFile, refreshing, issued, logins, loggedIn, lost, shared>>
  BY CallIs DEF Receive, CallRecord
<1>1. refreshing[r.grant] = c
  BY <1>0 DEF GrantInv, OneLeader, Leading
<1>2. \A b \in Account : Live(b) /\ store[b].cred.grant = r.grant =>
        Unsure(r.grant[1]) \/ (b = a /\ AsRead(r, store[b]))
  BY <1>0 DEF GrantInv, StoreWaits, AtServer
<1>3. Grows /\ logins' \in Nat /\ store \in [Account -> Stored] /\ None \notin Account
  BY <1>0, Typed, TokenConstants DEF TokensInv, Grows
<1>9. call \in [Caller -> CallRecord]
  BY Typed DEF TokensInv
<1> HIDE DEF a
<1>4. ASSUME NEW why \in {"REFUSED", "CONFLICT"},
             call' = [call EXCEPT ![c] = Without(r, "SETTLED", why)], store' = store,
             r.cred = None \/ ~GenerationLive(a, r.gen)
      PROVE  GrantInv'
  <2> DEFINE q == Without(r, "SETTLED", why)
  <2>1. q.pc = "SETTLED" /\ q.cred = None /\ q.grant = r.grant
    BY <1>0, WithoutIs DEF Pc, Failure
  <2>2. call'[c] = q /\ \A x \in Caller \ {c} : call'[x] = call[x]
    BY <1>4, <1>9
  <2> HIDE DEF q
  <2>3. \A b \in Account : Live(b) /\ store[b].cred.grant = r.grant /\ r.cred # None =>
          SoundNext(r.grant)
    BY <1>0, <1>2, <1>4 DEF AsRead, GenerationLive, Unsure, SoundNext
  <2>4. CallMay(c, q)
    BY <1>0, <1>1, <2>1, <2>3 DEF CallMay, Leading, Asking, AtServer, Live
  <2> QED BY <1>0, <1>3, <1>4, <2>1, <2>2, <2>4, LedCallGrants DEF Leading
<1>5. ASSUME r.cred # None, GenerationLive(a, r.gen), store' = Saved(a, r.cred),
             call' = [call EXCEPT ![c] = With(r, "SETTLED", r.cred, r.gen + 1)]
      PROVE  GrantInv'
  <2> DEFINE q == With(r, "SETTLED", r.cred, r.gen + 1)
  <2>0. r.cred \in Credential /\ "SETTLED" \in Pc
    BY <1>0, <1>5 DEF CallRecord, Pc
  <2>1. q.pc = "SETTLED" /\ q.cred = r.cred /\ q.of = a /\ q.grant = r.grant
    BY <1>0, <2>0, WithIs
  <2>2. call'[c] = q /\ \A x \in Caller \ {c} : call'[x] = call[x]
    BY <1>5, <1>9
  <2> HIDE DEF q
  <2>3. /\ store'[a].cred = r.cred /\ store'[a].gen = store[a].gen + 1
        /\ store[a].gen \in Nat
        /\ \A b \in Account \ {a} : store'[b] = store[b]
    BY <1>0, <1>3, <1>5 DEF Saved, Stored
  <2>4. r.cred.fresh /\ Sound(r.cred.grant)
    BY <1>0, <1>5 DEF GrantInv, BroughtIsSound
  <2>5. SoundNext(r.cred.grant)
    BY <1>0, <1>3, <2>4, SoundStays
  <2>6. \A b \in Account : store'[b] = store[b] /\ Live(b) /\ store[b].cred.grant = r.grant =>
          SoundNext(r.grant)
    BY <1>0, <1>2, <2>3 DEF Unsure, SoundNext
  <2>7. CallMay(c, q)
    BY <1>0, <1>1, <1>5, <2>1, <2>3, <2>4, <2>5, <2>6
    DEF CallMay, Leading, Asking, AtServer, Live
  <2>8. r.cred.grant[1] = r.grant[1]
    BY <1>0, <1>5, CallIs
  <2>9. \A x \in Caller \ {c} : AtServer(call[x]) /\ call[x].grant[1] = r.grant[1] =>
          Unsure(r.grant[1])
    BY <1>0 DEF GrantInv, OneAtServer, AtServer
  <2>10. AccountMay(a, c)
    BY <1>0, <1>5, <2>3, <2>4, <2>5, <2>8, <2>9 DEF AccountMay, Unsure
  <2>11. \A x \in Caller : call[x].pc \in Leading => refreshing'[call[x].grant] = x
    BY <1>0 DEF GrantInv, OneLeader
  <2> QED BY <1>0, <1>3, <2>2, <2>3, <2>7, <2>10, <2>11, StepKeepsGrants
<1> QED BY <1>4, <1>5 DEF Receive, NewCredential, a

(***************************************************************************)
(* The refresh has ended: those who waited for it go on with its outcome.  *)
(***************************************************************************)
LEMMA SettleGrants ==
  ASSUME TokensInv, GrantInv, NEW c \in Caller, Settle(c)
  PROVE  GrantInv'
<1> DEFINE g == call[c].grant
           Woken(x) == x # c /\ call[x].pc = "WAIT" /\ call[x].grant = g
<1>0. /\ call[c].pc = "SETTLED" /\ refreshing' = [refreshing EXCEPT ![g] = None]
      /\ call' = [x \in Caller |-> AfterRefresh(c, x)]
      /\ UNCHANGED <<store, issued, logins, loggedIn, lost, shared>>
  BY DEF Settle
<1>1. /\ g \in Grant /\ g[1] \in LoginId /\ call[c].of \in Account /\ Part(call[c].of, g[1])
      /\ call[c].cred # None => call[c].cred \in Credential
  BY <1>0, CallIs
<1>2. call'[c].pc \in {"DONE", "FAILED"}
  <2>1. call[c] \in CallRecord /\ "DONE" \in Pc /\ "FAILED" \in Pc
        /\ call[c].gen \in Nat /\ call[c].failure \in Failure \cup {None}
    BY CallIs DEF Pc, CallRecord
  <2>2. call[c].cred # None => With(call[c], "DONE", call[c].cred, call[c].gen).pc = "DONE"
    BY <1>1, <2>1, WithIs
  <2>3. Without(call[c], "FAILED", call[c].failure).pc = "FAILED"
    BY <2>1, WithoutIs
  <2> QED BY <1>0, <2>2, <2>3 DEF AfterRefresh
<1>3. ASSUME NEW x \in Caller, x # c, ~Woken(x)
      PROVE  call'[x] = call[x]
  BY <1>0, <1>3 DEF AfterRefresh
<1>4. ASSUME NEW x \in Caller, Woken(x)
      PROVE  /\ call'[x].pc \in {"WOKEN", "FAILED"}
             /\ call'[x].of = call[x].of /\ call'[x].grant = g
             /\ call'[x].pc = "WOKEN" =>
                  call[c].cred # None /\ call'[x].cred = call[c].cred
  <2>1. call[x] \in CallRecord /\ "WOKEN" \in Pc /\ "FAILED" \in Pc /\ 0 \in Nat
        /\ call[c].failure \in Failure \cup {None}
    BY CallIs DEF Pc, CallRecord
  <2>2. CASE call[c].cred # None
    <3> DEFINE q == With(call[x], "WOKEN", call[c].cred, 0)
    <3>1. q.pc = "WOKEN" /\ q.of = call[x].of /\ q.grant = call[x].grant
          /\ q.cred = call[c].cred
      BY <1>1, <2>1, <2>2, WithIs
    <3>2. call'[x] = q
      BY <1>0, <1>4, <2>2 DEF AfterRefresh
    <3> HIDE DEF q
    <3> QED BY <1>4, <2>2, <3>1, <3>2
  <2>3. CASE call[c].cred = None
    <3> DEFINE q == Without(call[x], "FAILED", call[c].failure)
    <3>1. q.pc = "FAILED" /\ q.of = call[x].of /\ q.grant = call[x].grant
      BY <2>1, WithoutIs
    <3>2. call'[x] = q
      BY <1>0, <1>4, <2>3 DEF AfterRefresh
    <3> HIDE DEF q
    <3> QED BY <1>4, <3>1, <3>2
  <2> QED BY <2>2, <2>3
<1>5. \A x \in Caller : call'[x].pc \in {"POLL", "FETCH", "REPLY", "SETTLED"} =>
        x # c /\ call'[x] = call[x]
  BY <1>2, <1>3, <1>4
<1>6. \A x \in Caller : call[x].pc \in Leading => call[x].grant \in Grant
                                                  /\ refreshing[call[x].grant] = x
  BY CallIs DEF Leading, GrantInv, OneLeader
<1>7. refreshing \in [Grant -> Caller \cup {None}]
  BY Typed DEF TokensInv
<1> HIDE DEF g
<1>8. OneLeader'
  <2> SUFFICES ASSUME NEW x \in Caller, call'[x].pc \in Leading
               PROVE  refreshing'[call'[x].grant] = x
    BY DEF OneLeader
  <2>1. x # c /\ call'[x] = call[x]
    BY <1>5 DEF Leading
  <2>2. call[x].grant # g
    BY <1>0, <1>6, <2>1 DEF Leading, g
  <2> QED BY <1>0, <1>6, <1>7, <2>1, <2>2
<1>9. Unissued'
  BY <1>0 DEF GrantInv, Unissued
<1>10. BroughtIsSound'
  <2> SUFFICES ASSUME NEW x \in Caller, call'[x].pc \in {"REPLY", "SETTLED", "WOKEN"},
                      call'[x].cred # None
               PROVE  call'[x].cred.fresh /\ Sound(call'[x].cred.grant)
    BY <1>0 DEF BroughtIsSound, Sound, InForce, Unsure
  <2>1. CASE call'[x] = call[x]
    BY <2>1 DEF GrantInv, BroughtIsSound
  <2>2. CASE call'[x] # call[x]
    <3>1. call'[x].cred = call[c].cred
      BY <1>2, <1>3, <1>4, <2>2
    <3> QED BY <1>0, <3>1 DEF GrantInv, BroughtIsSound
  <2> QED BY <2>1, <2>2
<1>11. SettledIsFresh'
  <2> SUFFICES ASSUME NEW x \in Caller
               PROVE  /\ call'[x].pc = "SETTLED" /\ call'[x].cred # None => Fresh(call'[x].of)
                      /\ call'[x].pc = "WOKEN" =>
                           Fresh(call'[x].of) \/ call'[x].grant[1] \in shared
    BY <1>0 DEF SettledIsFresh, Fresh, Live
  <2>1. CASE call'[x] = call[x]
    BY <2>1 DEF GrantInv, SettledIsFresh
  <2>2. CASE call'[x] # call[x] /\ call'[x].pc = "WOKEN"
    <3>1. Woken(x) /\ call[c].cred # None
      BY <1>2, <1>3, <1>4, <2>2
    <3>2. Fresh(call[c].of)
      BY <1>0, <3>1 DEF GrantInv, SettledIsFresh
    <3>3. call[x].of \in Account /\ Part(call[x].of, g[1])
      BY <3>1, CallIs
    <3>4. call[x].of = call[c].of \/ g[1] \in shared
      BY <1>1, <3>3 DEF TokensInv, SharedByTwo, g
    <3> QED BY <1>4, <2>2, <3>1, <3>2, <3>4
  <2>3. CASE call'[x] # call[x] /\ call'[x].pc = "SETTLED"
    BY <1>5, <2>3
  <2> QED BY <2>1, <2>2, <2>3
<1>12. WokenAlone'
  <2> SUFFICES ASSUME NEW x \in Caller, NEW y \in Caller, call'[x].pc = "WOKEN",
                      call'[y].pc \in Asking, call'[x].grant = call'[y].grant
               PROVE  call'[x].grant[1] \in shared
    BY <1>0 DEF WokenAlone
  <2>1. y # c /\ call'[y] = call[y] /\ call[y].pc \in Leading
    BY <1>5 DEF Asking, Leading
  <2>2. CASE call'[x] = call[x]
    BY <2>1, <2>2 DEF GrantInv, WokenAlone
  <2>3. CASE call'[x] # call[x]
    <3>1. call'[x].grant = g
      BY <1>2, <1>3, <1>4, <2>3
    <3> QED BY <1>0, <1>6, <2>1, <3>1 DEF Leading, g
  <2> QED BY <2>2, <2>3
<1>13. PresentedIsSound'
  BY <1>0, <1>5 DEF GrantInv, PresentedIsSound, Sound, InForce, Unsure
<1>14. StoreWaits' /\ OneAtServer'
  BY <1>0, <1>5 DEF GrantInv, StoreWaits, OneAtServer, AtServer, Live, Unsure, AsRead
<1>15. StoreIsSound'
  <2>1. \A x \in Caller : call[x].pc = "REPLY" => call'[x] = call[x]
    BY <1>0, <1>3
  <2> QED BY <1>0, <2>1
          DEF GrantInv, StoreIsSound, Live, Sound, InForce, Unsure, Succeeded
<1> QED BY <1>8, <1>9, <1>10, <1>11, <1>12, <1>13, <1>14, <1>15 DEF GrantInv

LEMMA ResumeGrants ==
  ASSUME TokensInv, GrantInv, NEW c \in Caller, Resume(c)
  PROVE  GrantInv'
<1> DEFINE r == call[c]
           a == call[c].of
           q == With(r, "DONE", r.cred, store[a].gen + 1)
<1>0. /\ r.pc = "WOKEN" /\ a \in Account /\ r \in CallRecord /\ r.grant \in Grant
      /\ r.cred \in Credential
  BY CallIs DEF Resume, TokensInv, CallInv
<1>1. CASE Ask(c, a)
  BY <1>0, <1>1, AskGrants
<1>2. ASSUME Live(a), store[a].cred.grant = r.grant, store' = Saved(a, r.cred),
             call' = [call EXCEPT ![c] = q],
             shared' = shared \cup ({r.cred.grant[1]} \ {r.grant[1]}),
             UNCHANGED <<lockFile, refreshing, issued, logins, loggedIn, lost>>
      PROVE  GrantInv'
  <2>1. /\ Grows /\ logins' \in Nat /\ store \in [Account -> Stored]
        /\ call \in [Caller -> CallRecord]
    BY <1>2, Typed, TokenConstants DEF TokensInv, Grows
  <2>2. q.pc = "DONE"
    <3>1. "DONE" \in Pc /\ store[a].gen + 1 \in Nat
      BY <1>0, <2>1 DEF Pc, Stored
    <3> QED BY <1>0, <3>1, WithIs
  <2>3. call'[c] = q /\ \A x \in Caller \ {c} : call'[x] = call[x]
    BY <1>2, <2>1
  <2> HIDE DEF q
  <2>4. CallMay(c, q)
    BY <1>0, <2>2 DEF CallMay, Leading, Asking, AtServer
  <2>5. /\ store'[a].cred = r.cred
        /\ \A b \in Account \ {a} : store'[b] = store[b]
    BY <1>0, <1>2, <2>1 DEF Saved
  <2>6. r.cred # None
    BY <1>0, TokenConstants
  <2>7. r.cred.fresh /\ SoundNext(r.cred.grant)
    BY <1>0, <1>2, <2>1, <2>6, SoundStays DEF GrantInv, BroughtIsSound
  <2>8. ASSUME NEW x \in Caller \ {c}, AtServer(call[x]),
               call[x].grant[1] = r.cred.grant[1], r.cred.grant[1] \notin lost' \cup shared'
        PROVE  FALSE
    <3>1. call[x].grant[1] = r.grant[1]
      BY <1>2, <2>8
    <3>2. call[x].grant = r.grant
      BY <1>0, <1>2, <2>1, <2>8, <3>1 DEF GrantInv, StoreWaits, AsRead, Unsure, Grows
    <3>3. r.grant[1] \in shared
      BY <1>0, <2>8, <3>2 DEF GrantInv, WokenAlone, AtServer, Asking
    <3> QED BY <2>1, <2>8, <3>1, <3>3 DEF Grows
  <2>9. AccountMay(a, c)
    BY <2>5, <2>6, <2>7, <2>8 DEF AccountMay
  <2>10. \A x \in Caller : call[x].pc \in Leading => refreshing'[call[x].grant] = x
    BY <1>2 DEF GrantInv, OneLeader
  <2> QED BY <1>2, <2>1, <2>3, <2>4, <2>5, <2>9, <2>10, StepKeepsGrants
<1> QED BY <1>1, <1>2 DEF Resume

LEMMA ReturnGrants ==
  ASSUME TokensInv, GrantInv, NEW c \in Caller, Return(c)
  PROVE  GrantInv'
<1>1. /\ call'[c].pc = "IDLE" /\ call[c].pc # "REPLY"
      /\ \A x \in Caller \ {c} : call'[x] = call[x]
      /\ UNCHANGED <<store, refreshing, issued, logins, lost, shared>>
  BY Typed DEF TokensInv, Return, Idle
<1> QED BY <1>1, QuietCallGrants

(***************************************************************************)
(* Whatever was rotated and not yet received is lost with the daemon.      *)
(***************************************************************************)
LEMMA RestartGrants ==
  ASSUME TokensInv, GrantInv, DaemonRestarts
  PROVE  GrantInv'
<1>1. /\ \A x \in Caller : call'[x].pc = "IDLE"
      /\ UNCHANGED <<store, issued, logins, shared>>
      /\ lost' = lost \cup UNION {LostWith(x) : x \in Caller}
  BY DEF DaemonRestarts, Idle
<1>2. ASSUME NEW a \in Account, Live(a) PROVE SoundNext(store[a].cred.grant)
  <2>1. CASE Sound(store[a].cred.grant)
    BY <1>1, <2>1 DEF Sound, SoundNext, InForce, Unsure
  <2>2. ASSUME NEW y \in Caller, call[y].pc = "REPLY", call[y].grant = store[a].cred.grant
        PROVE  SoundNext(store[a].cred.grant)
    BY <1>1, <2>2 DEF LostWith, SoundNext, InForce
  <2> QED BY <1>2, <2>1, <2>2 DEF GrantInv, StoreIsSound, Succeeded
<1>3. OneLeader' /\ BroughtIsSound' /\ SettledIsFresh' /\ WokenAlone' /\ PresentedIsSound'
      /\ StoreWaits' /\ OneAtServer'
  BY <1>1 DEF OneLeader, BroughtIsSound, SettledIsFresh, WokenAlone, PresentedIsSound,
              StoreWaits, OneAtServer, AtServer, Leading
<1>4. Unissued'
  BY <1>1 DEF GrantInv, Unissued
<1>5. StoreIsSound'
  BY <1>1, <1>2 DEF StoreIsSound, Live, Sound, InForce, Unsure, SoundNext
<1> QED BY <1>3, <1>4, <1>5 DEF GrantInv

LEMMA NothingGrants ==
  ASSUME GrantInv, UNCHANGED <<store, refreshing, call, issued, logins, lost, shared>>
  PROVE  GrantInv'
BY DEF GrantInv, OneLeader, Unissued, BroughtIsSound, SettledIsFresh, WokenAlone,
       PresentedIsSound, StoreWaits, OneAtServer, StoreIsSound, Succeeded, Sound, InForce,
       Unsure, Fresh, Live

(***************************************************************************)
(* Between refreshes, one account is written.                              *)
(***************************************************************************)
LEMMA AccountGrants ==
  ASSUME TokensInv, GrantInv, NEW a \in Account,
         \A b \in Account \ {a} : store'[b] = store[b],
         store'[a].cred # None =>
           /\ SoundNext(store'[a].cred.grant)
           /\ \/ store'[a].cred.grant[1] \in shared'
              \/ \A x \in Caller : AtServer(call[x]) =>
                   call[x].grant[1] # store'[a].cred.grant[1],
         ~Settling, logins' \in Nat, Grows, UNCHANGED <<refreshing, call, issued>>
  PROVE  GrantInv'
<1>1. AccountMay(a, None)
  BY DEF AccountMay, Settling
<1>2. None \notin Caller
  BY TokenConstants
<1>3. \A x \in Caller : call[x].pc \in Leading => refreshing'[call[x].grant] = x
  BY DEF GrantInv, OneLeader
<1> QED BY <1>1, <1>2, <1>3, StepKeepsGrants

LEMMA SaveLoginGrants ==
  ASSUME TokensInv, GrantInv, NEW a \in Account, SaveLogin(a), ~Settling
  PROVE  GrantInv'
<1>0. /\ logins \in Nat /\ logins < MaxLogins /\ logins' = logins + 1
      /\ store \in [Account -> Stored]
      /\ store' = Saved(a, [grant |-> <<logins + 1, 0>>, fresh |-> TRUE])
      /\ UNCHANGED <<refreshing, call, issued, lost, shared>>
  BY Typed, TokenConstants DEF TokensInv, SaveLogin
<1>1. store'[a].cred.grant = <<logins + 1, 0>> /\ \A b \in Account \ {a} : store'[b] = store[b]
  BY <1>0 DEF Saved
<1>2. logins + 1 \in LoginId /\ issued[logins + 1] = 0
  BY <1>0, TokenConstants DEF GrantInv, Unissued, LoginId
<1>3. store'[a].cred.grant[1] = logins + 1 /\ store'[a].cred.grant[2] = 0
  BY <1>1
<1>4. SoundNext(store'[a].cred.grant)
  BY <1>0, <1>2, <1>3 DEF SoundNext
<1>5. ASSUME NEW x \in Caller, AtServer(call[x])
      PROVE  call[x].grant[1] # store'[a].cred.grant[1]
  <2>1. call[x].grant[1] \in LoginId /\ call[x].grant[1] <= logins
    BY <1>5, CallIs DEF AtServer
  <2> QED BY <1>0, <1>3, <2>1, TokenConstants DEF LoginId
<1>6. Grows /\ logins' \in Nat
  BY <1>0 DEF Grows
<1> QED BY <1>0, <1>1, <1>4, <1>5, <1>6, AccountGrants

LEMMA SaveImportGrants ==
  ASSUME TokensInv, GrantInv, NEW a \in Account, NEW b \in Account, SaveImport(a, b), ~Settling
  PROVE  GrantInv'
<1>0. /\ Live(a) /\ store \in [Account -> Stored] /\ store' = Saved(b, store[a].cred)
      /\ shared' = shared \cup {loggedIn[a]} /\ logins \in Nat
      /\ AccountInv(store[a], loggedIn[a], shared, logins)
      /\ UNCHANGED <<refreshing, call, issued, logins, lost>>
  BY Typed, TokenConstants DEF TokensInv, SaveImport, Fresh
<1>1. store'[b].cred = store[a].cred /\ \A x \in Account \ {b} : store'[x] = store[x]
  BY <1>0 DEF Saved
<1>2. store[a].cred.grant[1] \in shared'
  BY <1>0 DEF AccountInv, Live
<1>3. SoundNext(store'[b].cred.grant)
  BY <1>1, <1>2 DEF SoundNext
<1>4. Grows /\ logins' \in Nat
  BY <1>0 DEF Grows
<1> QED BY <1>0, <1>1, <1>2, <1>3, <1>4, AccountGrants

LEMMA TombstoneGrants ==
  ASSUME TokensInv, GrantInv, NEW a \in Account, Tombstone(a), ~Settling
  PROVE  GrantInv'
<1>0. /\ store \in [Account -> Stored] /\ store' = Saved(a, None) /\ logins \in Nat
      /\ UNCHANGED <<refreshing, call, issued, logins, lost, shared>>
  BY Typed, TokenConstants DEF TokensInv, Tombstone
<1>1. store'[a].cred = None /\ \A x \in Account \ {a} : store'[x] = store[x]
  BY <1>0 DEF Saved
<1>2. Grows /\ logins' \in Nat
  BY <1>0 DEF Grows
<1> QED BY <1>0, <1>1, <1>2, AccountGrants

LEMMA ExpiresGrants ==
  ASSUME TokensInv, GrantInv, NEW a \in Account, Expires(a), ~Settling
  PROVE  GrantInv'
<1>0. /\ store \in [Account -> Stored] /\ store[a] \in Stored /\ store[a].cred \in Credential
      /\ Live(a) /\ store' = [store EXCEPT ![a].cred.fresh = FALSE]
      /\ UNCHANGED <<refreshing, call, issued, logins, lost, shared>>
  BY Typed, PartOfStore DEF TokensInv, Expires, Fresh
<1>1. /\ store'[a].gen = store[a].gen /\ store'[a].cred.grant = store[a].cred.grant
      /\ store'[a].cred.fresh = FALSE
      /\ \A x \in Account \ {a} : store'[x] = store[x]
  BY <1>0 DEF Stored, Credential
<1>2. \A x \in Account : /\ store'[x].cred # None => Live(x)
                         /\ store'[x].gen = store[x].gen
                         /\ Live(x) => store'[x].cred.grant = store[x].cred.grant
                         /\ Live(x) /\ ~store[x].cred.fresh => ~store'[x].cred.fresh
  BY <1>0, <1>1 DEF Live
<1>3. \A x \in Caller : call[x].pc \notin {"SETTLED", "WOKEN"}
  BY DEF Settling
<1>4. OneLeader' /\ Unissued' /\ BroughtIsSound' /\ WokenAlone' /\ PresentedIsSound'
      /\ OneAtServer'
  BY <1>0 DEF GrantInv, OneLeader, Unissued, BroughtIsSound, WokenAlone, PresentedIsSound,
              OneAtServer, Sound, InForce, Unsure
<1>5. SettledIsFresh'
  BY <1>0, <1>3 DEF SettledIsFresh
<1>6. StoreWaits'
  BY <1>0, <1>2 DEF GrantInv, StoreWaits, AsRead, Live, Unsure
<1>7. StoreIsSound'
  BY <1>0, <1>2 DEF GrantInv, StoreIsSound, Succeeded, Live, Sound, InForce, Unsure
<1> QED BY <1>4, <1>5, <1>6, <1>7 DEF GrantInv

LEMMA GrantsNextInv == TokensInv /\ GrantInv /\ [TokensNext]_tokens => GrantInv'
<1> SUFFICES ASSUME TokensInv, GrantInv, [TokensNext]_tokens PROVE GrantInv'
  OBVIOUS
<1>1. ASSUME NEW c \in Caller, Continue(c) \/ Return(c) PROVE GrantInv'
  BY <1>1, SettleGrants, ResumeGrants, ReturnGrants DEF Continue
<1>2. ASSUME NEW a \in Account, SaveLogin(a) \/ Tombstone(a) \/ Expires(a), ~Settling
      PROVE  GrantInv'
  BY <1>2, SaveLoginGrants, TombstoneGrants, ExpiresGrants
<1>3. ASSUME NEW c \in Caller, Answers(c) \/ Proceed(c), ~Settling
      PROVE  GrantInv'
  <2>1. CASE Answers(c)
    BY <1>3, <2>1, RotatesGrants, UnrotatedGrants DEF Answers
  <2>2. CASE Proceed(c)
    BY <2>2, PollGrants, ReceiveGrants, FetchFailsGrants DEF Proceed
  <2> QED BY <1>3, <2>1, <2>2
<1>4. ASSUME NEW c \in Caller, NEW a \in Account, call[c].pc = "IDLE", Ask(c, a)
      PROVE  GrantInv'
  BY <1>4, AskGrants
<1>5. ASSUME NEW g \in Grant, LockGrowsStale(g) PROVE GrantInv'
  BY <1>5, NothingGrants DEF LockGrowsStale
<1>6. CASE UNCHANGED tokens
  BY <1>6, NothingGrants DEF tokens
<1> QED
  BY <1>1, <1>2, <1>3, <1>4, <1>5, <1>6, SaveImportGrants, RestartGrants DEF TokensNext

LEMMA GrantsInitInv == TokensInit => GrantInv
<1> SUFFICES ASSUME TokensInit PROVE GrantInv
  OBVIOUS
<1>1. \A c \in Caller : call[c].pc = "IDLE"
  BY DEF TokensInit, Idle
<1>2. \A a \in Account : ~Live(a)
  BY DEF TokensInit, Live
<1>3. Unissued
  BY DEF TokensInit, Unissued, LoginId
<1> QED BY <1>1, <1>2, <1>3
        DEF GrantInv, OneLeader, BroughtIsSound, SettledIsFresh, WokenAlone,
            PresentedIsSound, StoreWaits, OneAtServer, StoreIsSound, AtServer, Leading

(***************************************************************************)
(* No grant is presented by two calls at a time, nor after it was rotated, *)
(* unless a rotated token of its login was lost on the way, or the login   *)
(* is in the store under two ids.                                          *)
(***************************************************************************)
THEOREM GrantsArePresentedOnce == TokensSpec => []GrantPresentedOnce
<1>1. TokensInv /\ GrantInv => GrantPresentedOnce
  <2> SUFFICES ASSUME TokensInv, GrantInv, NEW c \in Caller, call[c].pc = "FETCH"
               PROVE  /\ \A x \in Caller \ {c} :
                           call[x].pc \in {"FETCH", "REPLY"} => call[x].grant # call[c].grant
                      /\ InForce(call[c].grant) \/ call[c].grant[1] \in lost \cup shared
    BY DEF GrantPresentedOnce
  <2>1. \A x \in Caller : call[x].pc \in {"FETCH", "REPLY"} => refreshing[call[x].grant] = x
    BY DEF GrantInv, OneLeader, Leading
  <2>2. Sound(call[c].grant)
    BY DEF GrantInv, PresentedIsSound
  <2> QED BY <2>1, <2>2 DEF Sound, Unsure
<1> QED BY <1>1, TokensInitInv, TokensNextInv, GrantsInitInv, GrantsNextInv, PTL
        DEF TokensSpec

-----------------------------------------------------------------------------
(* CodexRouting: the requests. *)

RoutingTyped ==
  /\ pool \subseteq Account /\ needsReauth \subseteq Account
  /\ active \in pool \cup {None}
  /\ health \in [Account -> [failures : 0..MaxFailures, cooling : BOOLEAN]]
  /\ usage \in [Account -> Usage]
  /\ affinity \in [Thread -> [account : Account, gen : Nat] \cup {None}]
  /\ request \in [Caller -> {"NONE", "AUTH", "READY", "SENT"}]

(***************************************************************************)
(* The call of a request is for an account, and has its token once it was  *)
(* checked.                                                                *)
(***************************************************************************)
RequestOf ==
  \A c \in Caller :
    /\ request[c] # "NONE" => call[c].of \in Account
    /\ request[c] \in {"READY", "SENT"} => call[c].pc = "DONE"

(***************************************************************************)
(* A request is built only on the outcome of its call, looked at anew ...  *)
(***************************************************************************)
Builds ==
  \A x \in Caller : request[x] # "READY" /\ request'[x] = "READY" =>
    call[x].pc = "DONE" /\ ContextUsable(x) /\ call'[x] = call[x]

(***************************************************************************)
(* ... and is sent with what it was built with.                            *)
(***************************************************************************)
Sends ==
  \A x \in Caller : request'[x] = "SENT" =>
    request[x] \in {"READY", "SENT"} /\ call'[x] = call[x]

(***************************************************************************)
(* An account that is chosen is one of the pool.                           *)
(***************************************************************************)
LEMMA ChoicesArePooled ==
  ASSUME active \in pool \cup {None}
  PROVE  /\ Start \subseteq pool
         /\ \A a : Cooler(a) \subseteq pool
         /\ \A a \in pool : Choices(a) \subseteq pool
<1>1. \A x : Eligible(x) \subseteq pool
  BY DEF Eligible
<1>2. \A S : Lowest(S) \subseteq S
  BY DEF Lowest
<1>3. Start \subseteq pool
  BY <1>1, <1>2 DEF Start
<1>4. \A a : Cooler(a) \subseteq pool
  BY <1>1, <1>2 DEF Cooler
<1>5. \A a \in pool : Fallback(a) \subseteq pool
  BY <1>1, <1>2 DEF Fallback
<1>6. \A a \in pool : QuotaSwitch(a) \subseteq pool
  BY <1>1, <1>4 DEF QuotaSwitch
<1>7. \A a \in pool : FailureFailover(a) \subseteq pool
  BY <1>1, <1>2 DEF FailureFailover
<1>8. \A a \in pool : Choices(a) \subseteq pool
  BY <1>5, <1>6, <1>7 DEF Choices
<1> QED BY <1>3, <1>4, <1>8

(***************************************************************************)
(* What an authorization does to the accounts is a step of CodexTokens.    *)
(***************************************************************************)
LEMMA AuthorizeIsStep ==
  ASSUME NEW c \in Caller, NEW a \in Account, Authorize(c, a),
         call[c].pc = "IDLE", ~Settling, RoutingTyped
  PROVE  /\ [TokensNext]_tokens
         /\ request' \in [Caller -> {"NONE", "AUTH", "READY", "SENT"}]
         /\ Builds
<1>1. CASE UNCHANGED <<tokens, request>>
  BY <1>1 DEF RoutingTyped, Builds
<1>2. CASE Ask(c, a) /\ request' = [request EXCEPT ![c] = "AUTH"]
  <2>1. TokensNext
    BY <1>2 DEF TokensNext
  <2> QED BY <1>2, <2>1 DEF RoutingTyped, Builds
<1> QED BY <1>1, <1>2 DEF Authorize

LEMMA BoundToIs ==
  ASSUME TokensInv, NEW a \in Account
  PROVE  BoundTo(a) \in [account : Account, gen : Nat]
BY Typed DEF TokensInv, Stored, BoundTo

LEMMA RouteIsStep ==
  ASSUME TokensInv, RoutingTyped, NEW c \in Caller, NEW t \in Thread, ~Settling, Route(c, t)
  PROVE  /\ [TokensNext]_tokens /\ RoutingTyped'
         /\ Builds
<1>0. /\ call[c].pc = "IDLE"
      /\ pool \subseteq Account /\ active \in pool \cup {None}
      /\ affinity \in [Thread -> [account : Account, gen : Nat] \cup {None}]
  BY DEF Route, RoutingTyped
<1>1. ASSUME NEW a \in pool, Authorize(c, a),
             active' \in pool \cup {None},
             affinity' \in [Thread -> [account : Account, gen : Nat] \cup {None}],
             UNCHANGED <<pool, needsReauth, health, usage>>
      PROVE  /\ [TokensNext]_tokens /\ RoutingTyped'
             /\ Builds
  BY <1>0, <1>1, AuthorizeIsStep DEF RoutingTyped, Builds
<1>2. CASE RouteBound(c, t)
  <2>1. affinity[t].account \in Account
    BY <1>0, <1>2 DEF RouteBound, BindingHolds
  <2> QED BY <1>0, <1>2, <2>1, AuthorizeIsStep DEF RouteBound, RoutingTyped, routing
<1>3. ASSUME NEW b \in pool, active' = b, affinity' = [affinity EXCEPT ![t] = BoundTo(b)],
             Authorize(c, b), UNCHANGED <<pool, needsReauth, health, usage>>
      PROVE  /\ [TokensNext]_tokens /\ RoutingTyped'
             /\ Builds
  <2>1. BoundTo(b) \in [account : Account, gen : Nat]
    BY <1>0, BoundToIs
  <2>2. affinity' \in [Thread -> [account : Account, gen : Nat] \cup {None}]
    BY <1>0, <1>3, <2>1
  <2> QED BY <1>1, <1>3, <2>2
<1>4. CASE RouteRebound(c, t)
  BY <1>0, <1>3, <1>4, ChoicesArePooled DEF RouteRebound
<1>5. CASE RouteExpired(c, t)
  BY <1>5 DEF RouteExpired, RoutingTyped, Builds
<1>6. CASE RouteNew(c, t)
  <2>1. PICK a \in Start :
          \/ /\ \E b \in Choices(a) :
                  /\ active' = b
                  /\ affinity' = [affinity EXCEPT ![t] = BoundTo(b)]
                  /\ Authorize(c, b)
          \/ /\ affinity' = [affinity EXCEPT ![t] = None]
             /\ Authorize(c, a)
             /\ UNCHANGED active
    BY <1>6 DEF RouteNew
  <2>2. a \in pool /\ Choices(a) \subseteq pool
    BY <1>0, ChoicesArePooled
  <2>3. UNCHANGED <<pool, needsReauth, health, usage>>
    BY <1>6 DEF RouteNew
  <2>4. CASE /\ affinity' = [affinity EXCEPT ![t] = None]
             /\ Authorize(c, a)
             /\ UNCHANGED active
    BY <1>0, <1>1, <2>2, <2>3, <2>4
  <2> QED BY <1>3, <2>1, <2>2, <2>3, <2>4
<1>7. CASE RouteNone(c, t)
  BY <1>7 DEF RouteNone, RoutingTyped, Builds
<1> QED BY <1>2, <1>4, <1>5, <1>6, <1>7 DEF Route

(***************************************************************************)
(* The other steps, one by one.                                            *)
(***************************************************************************)
LEMMA RequestEnds ==
  ASSUME RoutingTyped, NEW c \in Caller, Return(c),
         request' = [request EXCEPT ![c] = "NONE"]
  PROVE  /\ [TokensNext]_tokens /\ Builds
         /\ request' \in [Caller -> {"NONE", "AUTH", "READY", "SENT"}]
BY DEF RoutingTyped, Builds, TokensNext

LEMMA GoOnIsStep ==
  ASSUME RoutingTyped, RequestOf, NEW c \in Caller, GoOn(c)
  PROVE  [TokensNext]_tokens /\ RoutingTyped' /\ Builds
<1>1. CASE Continue(c) /\ UNCHANGED <<routing, request>>
  BY <1>1 DEF TokensNext, RoutingTyped, Builds, routing
<1>2. CASE Authorized(c)
  <2>1. UNCHANGED <<pool, active, needsReauth, health, usage, affinity>>
    BY <1>2 DEF Authorized, routing
  <2>2. CASE ContextUsable(c) /\ request' = [request EXCEPT ![c] = "READY"] /\ UNCHANGED tokens
    BY <1>2, <2>1, <2>2 DEF Authorized, RoutingTyped, Builds, tokens
  <2>3. CASE request' = [request EXCEPT ![c] = "NONE"] /\ Return(c)
    BY <2>1, <2>3, RequestEnds DEF RoutingTyped
  <2> QED BY <1>2, <2>2, <2>3 DEF Authorized
<1>3. CASE AuthFails(c)
  <2>1. needsReauth' \subseteq Account
    BY <1>3 DEF AuthFails, RoutingTyped, RequestOf
  <2> QED BY <1>3, <2>1, RequestEnds DEF AuthFails, RoutingTyped
<1> QED BY <1>1, <1>2, <1>3 DEF GoOn

LEMMA UnboundTyped ==
  ASSUME RoutingTyped, NEW a
  PROVE  Unbound(a) \in [Thread -> [account : Account, gen : Nat] \cup {None}]
BY DEF Unbound, RoutingTyped

LEMMA ReplacedTyped ==
  ASSUME RoutingTyped, NEW a, Replaced(a), pool' = pool
  PROVE  active' \in pool' \cup {None}
BY DEF Replaced, Lowest, Eligible, RoutingTyped

LEMMA OutcomeIsTyped ==
  ASSUME RoutingTyped, NEW a \in Account,
         \/ Succeeds(a) \/ CallerErs \/ CredentialRefused(a)
         \/ QuotaExceeded(a) \/ FailsTransiently(a)
  PROVE  /\ pool' \subseteq Account /\ needsReauth' \subseteq Account
         /\ active' \in pool' \cup {None}
         /\ health' \in [Account -> [failures : 0..MaxFailures, cooling : BOOLEAN]]
         /\ usage' \in [Account -> Usage]
         /\ affinity' \in [Thread -> [account : Account, gen : Nat] \cup {None}]
<1>1. CASE Succeeds(a)
  BY <1>1, RoutingConstants DEF Succeeds, RoutingTyped
<1>2. CASE CallerErs
  BY <1>2 DEF CallerErs, routing, RoutingTyped
<1>3. CASE CredentialRefused(a)
  BY <1>3, UnboundTyped, RoutingConstants DEF CredentialRefused, RoutingTyped
<1>4. CASE QuotaExceeded(a)
  BY <1>4, UnboundTyped, ReplacedTyped, RoutingConstants DEF QuotaExceeded, RoutingTyped
<1>5. CASE FailsTransiently(a)
  <2>1. active' \in pool' \cup {None}
    BY <1>5, ReplacedTyped DEF FailsTransiently, RoutingTyped
  <2>2. health' \in [Account -> [failures : 0..MaxFailures, cooling : BOOLEAN]]
    BY <1>5, RoutingConstants DEF FailsTransiently, RoutingTyped
  <2> QED BY <1>5, <2>1, <2>2 DEF FailsTransiently, RoutingTyped
<1> QED BY <1>1, <1>2, <1>3, <1>4, <1>5

LEMMA ServeIsStep ==
  ASSUME RoutingTyped, RequestOf, NEW c \in Caller, Serve(c)
  PROVE  [TokensNext]_tokens /\ RoutingTyped' /\ Builds
<1>1. CASE Proceed(c) /\ UNCHANGED <<routing, request>>
  BY <1>1 DEF Serve, TokensNext, RoutingTyped, Builds, routing
<1>2. CASE RecordOutcome(c)
  <2>1. call[c].of \in Account
    BY <1>2 DEF RecordOutcome, RequestOf
  <2>2. Return(c) /\ request' = [request EXCEPT ![c] = "NONE"]
    BY <1>2 DEF RecordOutcome
  <2> QED BY <1>2, <2>1, <2>2, OutcomeIsTyped, RequestEnds DEF RecordOutcome, RoutingTyped
<1>3. CASE Send(c)
  <2>1. UNCHANGED <<pool, active, needsReauth, health, usage, affinity>>
    BY <1>3 DEF Send, routing
  <2>2. CASE request' = [request EXCEPT ![c] = "SENT"] /\ UNCHANGED tokens
    BY <2>1, <2>2 DEF RoutingTyped, Builds
  <2>3. CASE request' = [request EXCEPT ![c] = "NONE"] /\ Return(c)
    BY <2>1, <2>3, RequestEnds DEF RoutingTyped
  <2> QED BY <1>3, <2>2, <2>3 DEF Send
<1> QED BY <1>1, <1>2, <1>3 DEF Serve

LEMMA OperatorIsStep ==
  ASSUME RoutingTyped, NEW a \in Account, ~Settling,
         Login(a) \/ Delete(a) \/ UsageChanges(a) \/ (\E b \in Account : Import(a, b))
  PROVE  [TokensNext]_tokens /\ RoutingTyped' /\ Builds
<1>1. CASE Login(a)
  BY <1>1 DEF Login, TokensNext, RoutingTyped, Builds
<1>2. CASE Delete(a)
  <2>1. TokensNext
    BY <1>2 DEF Delete, TokensNext
  <2>2. RoutingTyped'
    BY <1>2, UnboundTyped, RoutingConstants DEF Delete, RoutingTyped, Healthy, Usage, Unknown
  <2> QED BY <1>2, <2>1, <2>2 DEF Delete, Builds
<1>3. CASE UsageChanges(a)
  BY <1>3 DEF UsageChanges, RoutingTyped, Builds
<1>4. CASE \E b \in Account : Import(a, b)
  BY <1>4 DEF Import, TokensNext, RoutingTyped, Builds
<1> QED BY <1>1, <1>2, <1>3, <1>4

LEMMA LaterIsStep ==
  ASSUME RoutingTyped, ~Settling, Later
  PROVE  [TokensNext]_tokens /\ RoutingTyped' /\ Builds
<1>1. ASSUME NEW a \in Account, CooldownEnds(a)
      PROVE  [TokensNext]_tokens /\ RoutingTyped' /\ Builds
  BY <1>1 DEF CooldownEnds, RoutingTyped, Builds
<1>2. ASSUME NEW a \in Account, FailuresAge(a)
      PROVE  [TokensNext]_tokens /\ RoutingTyped' /\ Builds
  BY <1>2, RoutingConstants DEF FailuresAge, RoutingTyped, Builds
<1>3. ASSUME NEW a \in Account, Expires(a), UNCHANGED <<routing, request>>
      PROVE  [TokensNext]_tokens /\ RoutingTyped' /\ Builds
  BY <1>3 DEF TokensNext, RoutingTyped, Builds, routing
<1> QED BY <1>1, <1>2, <1>3 DEF Later

LEMMA RestartIsStep ==
  ASSUME RoutingTyped, Restart
  PROVE  [TokensNext]_tokens /\ RoutingTyped' /\ Builds
<1>1. TokensNext
  BY DEF Restart, TokensNext
<1>2. RoutingTyped'
  BY RoutingConstants DEF Restart, RoutingTyped, Healthy, Usage, Unknown
<1> QED BY <1>1, <1>2 DEF Restart, Builds

(***************************************************************************)
(* Every step of the requests is a step of the accounts, or none.          *)
(***************************************************************************)
LEMMA NextIsStep ==
  ASSUME TokensInv, RoutingTyped, RequestOf, [Next]_vars
  PROVE  [TokensNext]_tokens /\ RoutingTyped' /\ [Builds]_vars
<1>1. CASE UNCHANGED vars
  BY <1>1 DEF vars, routing, RoutingTyped
<1>2. ASSUME NEW c \in Caller, ServerAnswers(c)
      PROVE  [TokensNext]_tokens /\ RoutingTyped' /\ Builds
  BY <1>2 DEF ServerAnswers, TokensNext, RoutingTyped, Builds, routing
<1>3. ASSUME NEW c \in Caller, BackgroundReturns(c)
      PROVE  [TokensNext]_tokens /\ RoutingTyped' /\ Builds
  BY <1>3 DEF BackgroundReturns, TokensNext, RoutingTyped, Builds, routing
<1>4. ASSUME NEW c \in Caller, NEW a \in Account, Background(c, a), ~Settling
      PROVE  [TokensNext]_tokens /\ RoutingTyped' /\ Builds
  BY <1>4 DEF Background, TokensNext, RoutingTyped, Builds, routing
<1>5. ASSUME NEW a \in Account \cup {None}, Use(a)
      PROVE  [TokensNext]_tokens /\ RoutingTyped' /\ Builds
  BY <1>5 DEF Use, RoutingTyped, Builds
<1>6. ASSUME NEW g \in Grant, LockGrowsStale(g), UNCHANGED <<routing, request>>
      PROVE  [TokensNext]_tokens /\ RoutingTyped' /\ Builds
  BY <1>6 DEF TokensNext, RoutingTyped, Builds, routing
<1> QED
  BY <1>1, <1>2, <1>3, <1>4, <1>5, <1>6, GoOnIsStep, ServeIsStep, RouteIsStep,
     OperatorIsStep, LaterIsStep, RestartIsStep
  DEF Next

-----------------------------------------------------------------------------
(***************************************************************************)
(* A call stays with its account until it has returned, and what it has    *)
(* come to stays as it is.                                                 *)
(***************************************************************************)
Stays(c) == \A x \in Caller \ {c} : call'[x] = call[x]

LEMMA UnderLockStays ==
  ASSUME TokensInv, NEW c \in Caller, NEW a \in Account, NEW g \in Grant, UnderLock(c, a, g)
  PROVE  Stays(c) /\ call'[c].of = a
<1>1. call \in [Caller -> CallRecord] /\ CallFor(a, g).of = a
  BY Typed DEF TokensInv, CallFor, Idle
<1>3. ASSUME NEW q, q.of = a, call' = [call EXCEPT ![c] = q]
      PROVE  Stays(c) /\ call'[c].of = a
  BY <1>1, <1>3 DEF Stays
<1>4. \A pc, cred, gen : With(CallFor(a, g), pc, cred, gen).of = a
  BY DEF With, CallFor, Idle
<1>5. \A pc, why : Without(CallFor(a, g), pc, why).of = a
  BY DEF Without, CallFor, Idle
<1> QED BY <1>3, <1>4, <1>5 DEF UnderLock

LEMMA AskStays ==
  ASSUME TokensInv, NEW c \in Caller, NEW a \in Account, Ask(c, a)
  PROVE  Stays(c) /\ call'[c].of = a
<1>1. call \in [Caller -> CallRecord]
  BY Typed DEF TokensInv
<1>2. ASSUME NEW q, q.of = a, call' = [call EXCEPT ![c] = q]
      PROVE  Stays(c) /\ call'[c].of = a
  BY <1>1, <1>2 DEF Stays
<1>3. \A g, pc, cred, gen : With(CallFor(a, g), pc, cred, gen).of = a
  BY DEF With, CallFor, Idle
<1>4. \A g, pc, why : Without(CallFor(a, g), pc, why).of = a
  BY DEF Without, CallFor, Idle
<1>5. \A g, pc : [CallFor(a, g) EXCEPT !.pc = pc].of = a
  BY DEF CallFor, Idle
<1>6. CASE Live(a) /\ Lead(c, a, store[a].cred.grant)
  <2> DEFINE g == store[a].cred.grant
  <2>1. g \in Grant
    BY <1>6, PartOfStore
  <2>2. CASE UnderLock(c, a, g)
    BY <2>1, <2>2, UnderLockStays
  <2>3. CASE call' = [call EXCEPT ![c] = [CallFor(a, g) EXCEPT !.pc = "POLL"]]
    BY <1>2, <1>5, <2>3
  <2> QED BY <1>6, <2>2, <2>3 DEF Lead
<1>7. CASE Live(a) /\ call' = [call EXCEPT
                ![c] = [CallFor(a, store[a].cred.grant) EXCEPT !.pc = "WAIT"]]
  <2> DEFINE q == [CallFor(a, store[a].cred.grant) EXCEPT !.pc = "WAIT"]
  <2>1. q.of = a
    BY <1>5
  <2>2. call' = [call EXCEPT ![c] = q]
    BY <1>7
  <2> HIDE DEF q
  <2> QED BY <1>2, <2>1, <2>2
<1>8. CASE call' = [call EXCEPT ![c] = Without(CallFor(a, None), "FAILED", "UNAVAILABLE")]
  <2> DEFINE q == Without(CallFor(a, None), "FAILED", "UNAVAILABLE")
  <2>1. q.of = a
    BY <1>4
  <2>2. call' = [call EXCEPT ![c] = q]
    BY <1>8
  <2> HIDE DEF q
  <2> QED BY <1>2, <2>1, <2>2
<1>9. CASE call' = [call EXCEPT ![c] = With(CallFor(a, None), "DONE", store[a].cred, store[a].gen)]
  <2> DEFINE q == With(CallFor(a, None), "DONE", store[a].cred, store[a].gen)
  <2>1. q.of = a
    BY <1>3
  <2>2. call' = [call EXCEPT ![c] = q]
    BY <1>9
  <2> HIDE DEF q
  <2> QED BY <1>2, <2>1, <2>2
<1> QED BY <1>6, <1>7, <1>8, <1>9 DEF Ask

(***************************************************************************)
(* Every call that was for an account still is, and every call that has    *)
(* its token keeps it.                                                     *)
(***************************************************************************)
Kept ==
  \A x \in Caller :
    /\ call[x].of \in Account => call'[x].of \in Account
    /\ call[x].pc = "DONE" => call'[x] = call[x]

LEMMA AskKeepsOf ==
  ASSUME TokensInv, NEW c \in Caller, NEW a \in Account, Ask(c, a), call[c].pc # "DONE"
  PROVE  Kept /\ call'[c].of \in Account
BY AskStays DEF Stays, Kept

LEMMA EventKeepsOf ==
  ASSUME TokensInv, NEW c \in Caller, Continue(c) \/ Answers(c) \/ Proceed(c)
  PROVE  Kept
<1>0. call \in [Caller -> CallRecord]
  BY Typed DEF TokensInv
<1>1. \A r \in CallRecord : \A pc, cred, gen : With(r, pc, cred, gen).of = r.of
  BY DEF With, CallRecord
<1>2. \A r \in CallRecord : \A pc, why : Without(r, pc, why).of = r.of
  BY DEF Without, CallRecord
<1>3. ASSUME NEW q, q.of = call[c].of, call' = [call EXCEPT ![c] = q], call[c].pc # "DONE"
      PROVE  Kept
  BY <1>0, <1>3 DEF Kept
<1>4. CASE Settle(c)
  <2>1. \A x \in Caller : AfterRefresh(c, x).of = call[x].of
    BY <1>0, <1>1, <1>2 DEF AfterRefresh
  <2>2. \A x \in Caller : call[x].pc = "DONE" => AfterRefresh(c, x) = call[x]
    BY <1>4 DEF AfterRefresh, Settle
  <2> QED BY <1>4, <2>1, <2>2 DEF Settle, Kept
<1>5. CASE Resume(c)
  <2>1. call[c].of \in Account
    BY <1>5 DEF Resume, TokensInv, CallInv
  <2>2. CASE Ask(c, call[c].of)
    BY <1>5, <2>1, <2>2, AskKeepsOf DEF Resume
  <2> QED BY <1>0, <1>1, <1>3, <1>5, <2>2 DEF Resume
<1>6. CASE Answers(c)
  <2>1. PICK cred : call' = [call EXCEPT ![c].pc = "REPLY", ![c].cred = cred]
    BY <1>6 DEF Answers, Rotates, Renews, Refuses, Replies
  <2>2. call' = [call EXCEPT ![c] = [call[c] EXCEPT !.pc = "REPLY", !.cred = cred]]
    BY <2>1
  <2>3. [call[c] EXCEPT !.pc = "REPLY", !.cred = cred].of = call[c].of
    BY <1>0 DEF CallRecord
  <2>4. call[c].pc # "DONE"
    BY <1>6 DEF Answers, Rotates, Renews, Refuses
  <2> QED BY <1>3, <2>2, <2>3, <2>4
<1>7. CASE Poll(c)
  <2>1. call[c].of \in Account /\ call[c].grant \in Grant
    BY <1>7 DEF Poll, TokensInv, CallInv
  <2> QED BY <1>7, <2>1, UnderLockStays DEF Poll, Stays, Kept
<1>8. CASE Receive(c)
  BY <1>0, <1>1, <1>2, <1>3, <1>8 DEF Receive
<1>9. CASE FetchFails(c)
  BY <1>0, <1>2, <1>3, <1>9 DEF FetchFails, NoAnswer
<1> QED BY <1>4, <1>5, <1>6, <1>7, <1>8, <1>9 DEF Continue, Proceed

(***************************************************************************)
(* A request ends when its call returns: what is under way is for an       *)
(* account.                                                                *)
(***************************************************************************)
LEMMA ReturnKeepsRequestOf ==
  ASSUME TokensInv, RoutingTyped, RequestOf, NEW c \in Caller, Return(c),
         request' = [request EXCEPT ![c] = "NONE"]
  PROVE  RequestOf' /\ Sends
<1>1. \A x \in Caller \ {c} : call'[x] = call[x] /\ request'[x] = request[x]
  BY Typed DEF TokensInv, Return, RoutingTyped
<1>2. request'[c] = "NONE"
  BY DEF RoutingTyped
<1> QED BY <1>1, <1>2 DEF RequestOf, Sends

LEMMA AuthorizeKeepsRequestOf ==
  ASSUME TokensInv, RoutingTyped, RequestOf, NEW c \in Caller, NEW a \in Account,
         Authorize(c, a), call[c].pc = "IDLE", request[c] = "NONE"
  PROVE  RequestOf' /\ Sends
<1>1. CASE UNCHANGED <<tokens, request>>
  BY <1>1 DEF tokens, RequestOf, Sends
<1>2. CASE Ask(c, a) /\ request' = [request EXCEPT ![c] = "AUTH"]
  <2>1. Kept /\ call'[c].of \in Account
    BY <1>2, AskKeepsOf
  <2>2. request'[c] = "AUTH" /\ \A x \in Caller \ {c} : request'[x] = request[x]
    BY <1>2 DEF RoutingTyped
  <2> QED BY <2>1, <2>2 DEF Kept, RequestOf, Sends
<1> QED BY <1>1, <1>2 DEF Authorize

LEMMA RouteKeepsRequestOf ==
  ASSUME TokensInv, RoutingTyped, RequestOf, NEW c \in Caller, NEW t \in Thread, Route(c, t)
  PROVE  RequestOf' /\ Sends
<1>1. CASE UNCHANGED <<tokens, request>>
  BY <1>1 DEF tokens, RequestOf, Sends
<1>2. ASSUME NEW a \in Account, Authorize(c, a) PROVE RequestOf' /\ Sends
  BY <1>2, AuthorizeKeepsRequestOf DEF Route
<1>3. CASE RouteBound(c, t)
  <2>1. affinity[t].account \in Account
    BY <1>3 DEF RouteBound, BindingHolds, RoutingTyped
  <2> QED BY <1>2, <1>3, <2>1 DEF RouteBound
<1>4. CASE RouteRebound(c, t)
  BY <1>2, <1>4, ChoicesArePooled DEF RouteRebound, RoutingTyped
<1>5. CASE RouteNew(c, t)
  <2>1. PICK a \in Start : (\E b \in Choices(a) : Authorize(c, b)) \/ Authorize(c, a)
    BY <1>5 DEF RouteNew
  <2>2. a \in Account /\ Choices(a) \subseteq Account
    BY ChoicesArePooled DEF RoutingTyped
  <2> QED BY <1>2, <2>1, <2>2
<1> QED BY <1>1, <1>3, <1>4, <1>5 DEF Route, RouteExpired, RouteNone

LEMMA NextKeepsRequestOf ==
  ASSUME TokensInv, RoutingTyped, RequestOf, [Next]_vars
  PROVE  RequestOf' /\ Sends
<1>1. ASSUME Kept, request' = request PROVE RequestOf' /\ Sends
  BY <1>1 DEF Kept, RequestOf, Sends
<1>2. ASSUME call' = call, request' = request PROVE RequestOf' /\ Sends
  BY <1>2 DEF RequestOf, Sends
<1>3. ASSUME NEW c \in Caller, GoOn(c) PROVE RequestOf' /\ Sends
  <2>1. CASE Continue(c) /\ UNCHANGED <<routing, request>>
    BY <1>1, <2>1, EventKeepsOf
  <2>2. CASE Authorized(c)
    <3>1. CASE request' = [request EXCEPT ![c] = "READY"] /\ UNCHANGED tokens
      BY <2>2, <3>1 DEF Authorized, tokens, RequestOf, RoutingTyped, Sends
    <3>2. CASE request' = [request EXCEPT ![c] = "NONE"] /\ Return(c)
      BY <3>2, ReturnKeepsRequestOf
    <3> QED BY <2>2, <3>1, <3>2 DEF Authorized
  <2>3. CASE AuthFails(c)
    BY <2>3, ReturnKeepsRequestOf DEF AuthFails
  <2> QED BY <1>3, <2>1, <2>2, <2>3 DEF GoOn
<1>4. ASSUME NEW c \in Caller, Serve(c) \/ ServerAnswers(c) PROVE RequestOf' /\ Sends
  <2>1. CASE (Proceed(c) \/ Answers(c)) /\ request' = request
    BY <1>1, <2>1, EventKeepsOf
  <2>2. CASE RecordOutcome(c)
    BY <2>2, ReturnKeepsRequestOf DEF RecordOutcome
  <2>3. CASE Send(c)
    <3>1. CASE request' = [request EXCEPT ![c] = "SENT"] /\ UNCHANGED tokens
      BY <2>3, <3>1 DEF Send, tokens, RequestOf, RoutingTyped, Sends
    <3>2. CASE request' = [request EXCEPT ![c] = "NONE"] /\ Return(c)
      BY <3>2, ReturnKeepsRequestOf
    <3> QED BY <2>3, <3>1, <3>2 DEF Send
  <2> QED BY <1>4, <2>1, <2>2, <2>3 DEF Serve, ServerAnswers
<1>5. ASSUME NEW c \in Caller, BackgroundReturns(c) PROVE RequestOf' /\ Sends
  <2>1. request' = [request EXCEPT ![c] = "NONE"]
    BY <1>5 DEF BackgroundReturns, RoutingTyped
  <2> QED BY <1>5, <2>1, ReturnKeepsRequestOf DEF BackgroundReturns
<1>6. ASSUME NEW c \in Caller, NEW a \in Account, Background(c, a) PROVE RequestOf' /\ Sends
  BY <1>1, <1>6, AskKeepsOf DEF Background
<1>7. ASSUME NEW a \in Account,
             Login(a) \/ Delete(a) \/ UsageChanges(a) \/ (\E b \in Account : Import(a, b))
      PROVE  RequestOf' /\ Sends
  BY <1>2, <1>7 DEF Login, SaveLogin, Delete, Tombstone, UsageChanges, Import, SaveImport, tokens
<1>8. ASSUME NEW a \in Account \cup {None}, Use(a) PROVE RequestOf' /\ Sends
  BY <1>2, <1>8 DEF Use, tokens
<1>9. CASE Later
  BY <1>2, <1>9 DEF Later, CooldownEnds, FailuresAge, Expires, tokens
<1>10. ASSUME NEW g \in Grant, LockGrowsStale(g), UNCHANGED <<routing, request>>
       PROVE  RequestOf' /\ Sends
  BY <1>2, <1>10 DEF LockGrowsStale
<1>11. CASE Restart
  BY <1>11 DEF Restart, RequestOf, Sends
<1>12. CASE UNCHANGED vars
  BY <1>2, <1>12 DEF vars, tokens
<1> QED
  BY <1>3, <1>4, <1>5, <1>6, <1>7, <1>8, <1>9, <1>10, <1>11, <1>12, RouteKeepsRequestOf
  DEF Next

-----------------------------------------------------------------------------
RoutingInv == TokensInv /\ RoutingTyped /\ RequestOf

LEMMA RoutingInitInv == Init => RoutingInv
BY TokensInitInv, RoutingConstants
DEF Init, RoutingInv, RoutingTyped, RequestOf, Healthy, Usage, Unknown

LEMMA RoutingNextInv == RoutingInv /\ [Next]_vars => RoutingInv'
BY NextIsStep, NextKeepsRequestOf, TokensNextInv DEF RoutingInv

(***************************************************************************)
(* Every reachable state of the requests and their accounts is typed.      *)
(***************************************************************************)
THEOREM RoutingIsTyped == Spec => []TypeOK
<1>1. RoutingInv => TypeOK
  BY DEF RoutingInv, TokensInv, RoutingTyped, TypeOK
<1> QED BY <1>1, RoutingInitInv, RoutingNextInv, PTL DEF Spec

(***************************************************************************)
(* The requests use the accounts as CodexTokens says: every behaviour of   *)
(* CodexRouting is one of CodexTokens.                                     *)
(***************************************************************************)
THEOREM RoutingUsesTokens == Spec => TokensSpec
<1>1. Init => TokensInit
  BY DEF Init
<1>2. RoutingInv /\ [Next]_vars => [TokensNext]_tokens
  BY NextIsStep DEF RoutingInv
<1> QED BY <1>1, <1>2, RoutingInitInv, RoutingNextInv, PTL DEF Spec, TokensSpec

(***************************************************************************)
(* So, with any number of requests, threads and outcomes around it, the    *)
(* credential of an account descends from its last login.                  *)
(***************************************************************************)
THEOREM RoutedCredentialsAreCurrent == Spec => []CredentialIsCurrent
BY RoutingUsesTokens, CredentialsAreCurrent, PTL

(***************************************************************************)
(* And however many requests ask for tokens at a time, no grant is         *)
(* presented by two of them, nor after it was rotated, but for a login     *)
(* that had a rotated token lost, or that is in the store under two ids.   *)
(***************************************************************************)
THEOREM RoutedGrantsArePresentedOnce == Spec => []GrantPresentedOnce
BY RoutingUsesTokens, GrantsArePresentedOnce, PTL

(***************************************************************************)
(* A request is built only with a token that is then of the login that is  *)
(* in force, of an account that is in the pool and not to be logged in     *)
(* again, and is sent with that token and no other, however late and       *)
(* however often.                                                          *)
(***************************************************************************)
THEOREM RequestsAreSentAsChecked == Spec => SentAsChecked
<1> DEFINE AsChecked == \A c \in Caller :
                          LET a == call[c].of IN
                          /\ request[c] # "READY" /\ request'[c] = "READY" =>
                               /\ a \in pool \ needsReauth
                               /\ call[c].cred.grant[1] = loggedIn[a] \/ loggedIn[a] \in shared
                               /\ call'[c] = call[c]
                          /\ request'[c] = "SENT" =>
                               request[c] \in {"READY", "SENT"} /\ call'[c] = call[c]
<1>1. ASSUME RoutingInv, [Next]_vars PROVE [AsChecked]_vars
  <2>1. [Builds]_vars /\ Sends
    BY <1>1, NextIsStep, NextKeepsRequestOf DEF RoutingInv
  <2> SUFFICES ASSUME NEW c \in Caller, request[c] # "READY", request'[c] = "READY", Builds
               PROVE  /\ call[c].of \in pool \ needsReauth
                      /\ \/ call[c].cred.grant[1] = loggedIn[call[c].of]
                         \/ loggedIn[call[c].of] \in shared
                      /\ call'[c] = call[c]
    BY <2>1 DEF Sends
  <2> DEFINE r == call[c]
             a == call[c].of
  <2>2. r.pc = "DONE" /\ Usable(a) /\ GenerationLive(a, r.gen) /\ call'[c] = call[c]
    BY DEF Builds, ContextUsable
  <2>3. a \in pool \ needsReauth /\ a \in Account
    BY <1>1, <2>2 DEF Usable, RoutingInv, RoutingTyped
  <2>4. CallInv(r, store, loggedIn, shared, logins)
        /\ AccountInv(store[a], loggedIn[a], shared, logins)
    BY <1>1, <2>3 DEF RoutingInv, TokensInv
  <2>5. r.cred \in Credential => store[a].cred.grant = r.cred.grant
    BY <2>2, <2>4 DEF CallInv, GenerationLive, Live
  <2>6. r.cred \in Credential
    BY <2>2, <2>4 DEF CallInv
  <2> QED BY <2>2, <2>3, <2>4, <2>5, <2>6 DEF AccountInv, GenerationLive, Live
<1> QED BY <1>1, RoutingInitInv, RoutingNextInv, PTL DEF Spec, SentAsChecked

(***************************************************************************)
(* A thread keeps its account, except for cause.                           *)
(***************************************************************************)
THEOREM ThreadsMoveForCause == Spec => ThreadMovesForCause
<1> DEFINE Cause == \A t \in Thread :
              LET b == affinity[t] IN
              affinity'[t] # None /\ b # None /\ affinity'[t].account # b.account =>
                \/ ~Selectable(b.account) \/ usage[b.account] > 0
                \/ store[b.account].gen # b.gen
<1>1. ASSUME RoutingInv, [Next]_vars PROVE [Cause]_vars
  <2> SUFFICES ASSUME NEW t \in Thread, affinity[t] # None, affinity'[t] # None,
                      affinity'[t].account # affinity[t].account
               PROVE  \/ ~Selectable(affinity[t].account)
                      \/ usage[affinity[t].account] > 0
                      \/ store[affinity[t].account].gen # affinity[t].gen
    OBVIOUS
  <2>0. affinity \in [Thread -> [account : Account, gen : Nat] \cup {None}]
    BY <1>1 DEF RoutingInv, RoutingTyped
  <2>1. affinity' # affinity
    OBVIOUS
  <2>2. ASSUME NEW a, affinity' = Unbound(a) PROVE FALSE
    BY <2>2 DEF Unbound
  <2>3. PICK c \in Caller, u \in Thread : Route(c, u)
    <3>1. ASSUME NEW c \in Caller,
                 GoOn(c) \/ Serve(c) \/ ServerAnswers(c) \/ BackgroundReturns(c)
          PROVE  FALSE
      <4>1. CASE GoOn(c)
        BY <2>1, <4>1 DEF GoOn, Authorized, AuthFails, routing
      <4>2. CASE Serve(c)
        BY <2>1, <2>2, <4>2
        DEF Serve, Send, RecordOutcome, Succeeds, CallerErs, CredentialRefused, QuotaExceeded,
            FailsTransiently, routing
      <4> QED BY <2>1, <3>1, <4>1, <4>2 DEF ServerAnswers, BackgroundReturns, routing
    <3>2. ~Restart
      BY DEF Restart
    <3>3. ASSUME NEW a \in Account,
                 \/ Login(a) \/ Delete(a) \/ UsageChanges(a)
                 \/ \E b \in Account : Import(a, b)
          PROVE  FALSE
      BY <2>1, <2>2, <3>3 DEF Login, Delete, UsageChanges, Import
    <3>4. ~Later
      BY <2>1 DEF Later, CooldownEnds, FailuresAge, routing
    <3>5. ASSUME NEW c \in Caller, NEW a \in Account, Background(c, a) PROVE FALSE
      BY <2>1, <3>5 DEF Background, routing
    <3>6. ASSUME NEW a \in Account \cup {None}, Use(a) PROVE FALSE
      BY <2>1, <3>6 DEF Use
    <3>7. Next
      BY <1>1, <2>1 DEF vars, routing
    <3> QED BY <2>1, <3>1, <3>2, <3>3, <3>4, <3>5, <3>6, <3>7 DEF Next, routing
  <2>4. u = t
    <3>1. CASE RouteBound(c, u)
      BY <2>1, <3>1 DEF RouteBound, routing
    <3>2. CASE \E x : affinity' = [affinity EXCEPT ![u] = x]
      BY <2>0, <3>2
    <3> QED BY <2>3, <3>1, <3>2
            DEF Route, RouteRebound, RouteExpired, RouteNew, RouteNone
  <2>5. CASE BindingHolds(t)
    <3>1. ~RouteBound(c, t)
      BY <2>1 DEF RouteBound, routing
    <3>2. ~RouteExpired(c, t)
      BY <2>0 DEF RouteExpired
    <3> QED BY <2>3, <2>4, <2>5, <3>1, <3>2 DEF Route, RouteRebound, RouteNew, RouteNone
  <2>6. CASE ~BindingHolds(t)
    BY <2>6 DEF BindingHolds, GenerationLive, Selectable, Usable
  <2> QED BY <2>5, <2>6
<1> QED BY <1>1, RoutingInitInv, RoutingNextInv, PTL DEF Spec, ThreadMovesForCause
=============================================================================
