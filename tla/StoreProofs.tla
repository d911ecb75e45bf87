----------------------------- MODULE StoreProofs -----------------------------
(***************************************************************************)
(* How long Redis may be stale, and why, for any number of requests, any    *)
(* values and any TTL; and what that leaves of the users' sessions.         *)
(* Nothing that is said of PlatformKVHot uses an assumption of              *)
(* SessionNonces.                                                          *)
(***************************************************************************)
EXTENDS SessionNonces, TLAPS

USE TimeAssumption, ValueAssumption, ThreadAssumption

\* While nothing has raced, every value on its way to Redis is the stored one.
RaceInv ==
    ~racy =>
      /\ \A t \in Threads : 
           th[t].at \in {"fill", "filling", "mirror", "mirroring"} => th[t].val = store
      /\ Visible /\ cache.val # store => \E t \in Threads : Mirroring(t)

IInv == KVTypeOK /\ StaleInv /\ RaceInv

\* What the updates of one thread's record leave behind.
LEMMA ThreadType ==
    ASSUME KVTypeOK, NEW t \in Threads
    PROVE  /\ th[t] = [at |-> th[t].at, val |-> th[t].val, age |-> th[t].age]
           /\ th[t].at \in Steps /\ th[t].val \in Values /\ th[t].age \in 0..SetTime + 1
  BY DEF KVTypeOK

\* The initial state satisfies the invariant.
LEMMA InitIInv == KVInit => IInv
<1> SUFFICES ASSUME KVInit PROVE IInv
  OBVIOUS
<1>1. KVTypeOK
  <2>1. cache \in [val : Values, ttl : 0..TTL] /\ quiet \in 0..StaleTime + 1
    BY DEF KVInit, StaleTime
  <2>2. th \in [Threads -> [at : Steps, val : Values, age : 0..SetTime + 1]]
    BY DEF KVInit, Steps
  <2> QED
    BY <2>1, <2>2 DEF KVInit, KVTypeOK
<1>2. StaleInv /\ RaceInv
  BY DEF KVInit, StaleInv, RaceInv, Visible
<1> QED  BY <1>1, <1>2 DEF IInv

Inflight == [at : Steps, val : Values, age : 0..SetTime + 1]

\* A request that goes on with a value is such a request again.
LEMMA MoveTypes ==
  ASSUME th \in [Threads -> Inflight], NEW t \in Threads, NEW step \in Steps,
         NEW v \in Values, GoWith(t, step, v)
  PROVE  th' \in [Threads -> Inflight]
<1>1. [th[t] EXCEPT !.at = step, !.val = v] \in Inflight
  BY DEF Inflight
<1> QED
  BY <1>1 DEF GoWith

\* A tick makes every request and the cached value older, up to their bounds.
LEMMA TickTypesOfStore == ASSUME KVTypeOK, Tick PROVE KVTypeOK'
<1>1. th \in [Threads -> Inflight] /\ SetTime + 1 \in Nat /\ StaleTime + 1 \in Nat /\ TTL \in Nat
  BY DEF KVTypeOK, Inflight, StaleTime
<1>2. \A n, limit \in Nat : n \in 0..limit => UpTo(n, limit) \in 0..limit
  BY DEF UpTo
<1>3. th' \in [Threads -> Inflight]
  <2>1. ASSUME NEW t \in Threads PROVE [th[t] EXCEPT !.age = UpTo(@, SetTime + 1)] \in Inflight
    <3>1. th[t] \in Inflight /\ th[t].age \in 0..SetTime + 1 /\ th[t].age \in Nat
      BY <1>1 DEF Inflight
    <3>2. UpTo(th[t].age, SetTime + 1) \in 0..SetTime + 1
      BY <1>1, <1>2, <3>1
    <3> QED
      BY <3>1, <3>2 DEF Inflight
  <2> QED
    BY <2>1 DEF Tick
<1>4. quiet' \in 0..StaleTime + 1
  BY <1>1, <1>2 DEF Tick, KVTypeOK
<1>5. cache' \in [val : Values, ttl : 0..TTL]
  BY <1>1 DEF Tick, KVTypeOK, Expire, Uncached
<1>6. store' \in Values /\ racy' \in BOOLEAN
  BY Zenon DEF Tick, KVTypeOK
<1> QED
  BY <1>3, <1>4, <1>5, <1>6 DEF KVTypeOK, Inflight

\* Every step keeps the types.
LEMMA TypeStep == KVTypeOK /\ [KVNext]_kvVars => KVTypeOK'
<1> SUFFICES ASSUME KVTypeOK, [KVNext]_kvVars PROVE KVTypeOK'
  OBVIOUS
<1> USE DEF KVTypeOK, Steps, StaleTime, Go, GoWith, Enter, Cached, Uncached
<1>1. CASE Tick
  BY ONLY KVTypeOK, <1>1, TickTypesOfStore
<1>0. /\ th \in [Threads -> Inflight] /\ {"got", "fill"} \subseteq Steps
      /\ store \in Values /\ cache.val \in Values /\ Empty \in Values
  BY DEF Inflight
<1>m. ASSUME NEW t \in Threads, NEW step \in Steps, NEW v \in Values, GoWith(t, step, v),
             UNCHANGED <<store, cache, quiet, racy>>
      PROVE  KVTypeOK'
  <2>1. th' \in [Threads -> Inflight]
    BY ONLY <1>0, <1>m, MoveTypes
  <2> QED
    BY ONLY KVTypeOK, <1>m, <2>1 DEF KVTypeOK, Inflight
<1>2. ASSUME NEW t \in Threads, BeginGet(t) PROVE KVTypeOK'
  BY <1>2 DEF BeginGet
<1>3. ASSUME NEW t \in Threads, NEW v \in Values, BeginSet(t, v) PROVE KVTypeOK'
  BY <1>3 DEF BeginSet
<1>4. ASSUME NEW t \in Threads, KVStep(t) PROVE KVTypeOK'
  <2>1. CASE Hit(t)
    <3>1. GoWith(t, "got", cache.val) /\ UNCHANGED <<store, cache, quiet, racy>>
      BY ONLY <2>1 DEF Hit
    <3> QED
      BY ONLY <1>0, <1>m, <3>1, t \in Threads
  <2>2. CASE Miss(t)
    BY <2>2 DEF Miss
  <2>3. CASE ReadInner(t)
    <3>1. PICK step \in {"got", "fill"} :
             GoWith(t, step, store) /\ UNCHANGED <<store, cache, quiet, racy>>
      BY ONLY <2>3 DEF ReadInner
    <3> QED
      BY ONLY <1>0, <1>m, <3>1, t \in Threads
  <2>4. CASE ReadInnerFails(t)
    <3>1. GoWith(t, "got", Empty) /\ UNCHANGED <<store, cache, quiet, racy>>
      BY ONLY <2>4 DEF ReadInnerFails
    <3> QED
      BY ONLY <1>0, <1>m, <3>1, t \in Threads
  <2>5. CASE DialFill(t) \/ DialMirror(t)
    BY <2>5 DEF DialFill, DialMirror
  <2>6. CASE Fill(t) \/ FillFails(t)
    BY <2>6 DEF Fill, FillFails
  <2>7. CASE WriteInner(t)
    BY <2>7 DEF WriteInner
  <2>8. CASE WriteInnerFails(t)
    <3>1. th' \in [Threads -> Inflight]
      BY <1>0, <2>8 DEF WriteInnerFails, Inflight
    <3>2. store' \in {store, th[t].val} /\ cache' = cache /\ quiet' \in {quiet, 0}
      BY <2>8 DEF WriteInnerFails
    <3>3. racy' \in BOOLEAN
      BY <2>8, Zenon DEF WriteInnerFails
    <3>4. store' \in Values
      BY <1>0, <3>2 DEF Inflight
    <3> QED
      BY <3>1, <3>2, <3>3, <3>4 DEF Inflight
  <2>9. CASE Mirror(t)
    BY <2>9 DEF Mirror, Mirrored
  <2>10. CASE MirrorFails(t)
    BY <2>10 DEF MirrorFails
  <2> QED
    BY <1>4, <2>1, <2>2, <2>3, <2>4, <2>5, <2>6, <2>7, <2>8, <2>9, <2>10 DEF KVStep
<1>5. CASE UNCHANGED kvVars
  BY <1>5 DEF kvVars
<1> QED
  BY <1>1, <1>2, <1>3, <1>4, <1>5 DEF KVNext

\* Every step keeps the clocks of stale values running, and the reason for
\* staleness recorded.
LEMMA StaleStep == IInv /\ [KVNext]_kvVars => StaleInv' /\ RaceInv'
<1> SUFFICES ASSUME IInv, [KVNext]_kvVars PROVE StaleInv' /\ RaceInv'
  OBVIOUS
<1> USE DEF IInv, KVTypeOK, StaleInv, RaceInv, Visible, Steps, StaleTime, Go, GoWith, Enter,
            Cached, Uncached, Resting, Mirroring
<1>1. CASE Tick
  <2>1. quiet' = IF Sending THEN 0 ELSE UpTo(quiet, StaleTime + 1)
    BY <1>1 DEF Tick
  <2>2. \A t \in Threads : /\ th'[t].at = th[t].at /\ th'[t].val = th[t].val
                            /\ th'[t].age = UpTo(th[t].age, SetTime + 1)
    BY <1>1 DEF Tick
  <2>3. store' = store /\ (~racy' => ~racy \/ (cache'.ttl = 0 /\ \A t \in Threads : Resting(t)))
    BY <1>1 DEF Tick, Expire
  <2>4. \/ cache.ttl > 1 /\ cache'.val = cache.val /\ cache'.ttl = cache.ttl - 1
        \/ cache'.val = Empty /\ cache'.ttl = 0
    BY <1>1 DEF Tick, Expire
  <2>5. RaceInv'
    BY <2>2, <2>3, <2>4
  <2>6. StaleInv'
    <3>1. CASE Sending
      <4>1. quiet' = 0
        BY <2>1, <3>1
      <4> QED
        BY <2>2, <2>3, <2>4, <4>1 DEF UpTo
    <3>2. CASE ~Sending
      BY <2>1, <2>2, <2>3, <2>4, <3>2 DEF UpTo, Sending
    <3> QED
      BY <3>1, <3>2
  <2> QED
    BY <2>5, <2>6
<1>2. ASSUME NEW t \in Threads, BeginGet(t) PROVE StaleInv' /\ RaceInv'
  BY <1>2 DEF BeginGet
<1>3. ASSUME NEW t \in Threads, NEW v \in Values, BeginSet(t, v) PROVE StaleInv' /\ RaceInv'
  BY <1>3 DEF BeginSet
<1>4. ASSUME NEW t \in Threads, KVStep(t) PROVE StaleInv' /\ RaceInv'
  <2>1. CASE Hit(t)
    BY <2>1 DEF Hit
  <2>2. CASE Miss(t)
    BY <2>2 DEF Miss
  <2>3. CASE ReadInner(t)
    BY <2>3 DEF ReadInner
  <2>4. CASE ReadInnerFails(t)
    BY <2>4 DEF ReadInnerFails
  <2>5. CASE DialFill(t) \/ DialMirror(t)
    BY <2>5 DEF DialFill, DialMirror, InTime
  <2>6. CASE Fill(t) \/ FillFails(t)
    BY <2>6 DEF Fill, FillFails
  <2>7. CASE WriteInner(t)
    <3>1. /\ store' = th[t].val /\ quiet' = 0 /\ cache' = cache
          /\ \A u \in Threads \ {t} : th'[u] = th[u]
          /\ th'[t] = [at |-> IF t \in Bypass THEN "idle" ELSE "mirror",
                       val |-> th[t].val, age |-> 0]
      BY <2>7 DEF WriteInner
    <3>2. StaleInv'
      BY <3>1
    <3>3. CASE racy'
      BY <3>2, <3>3
    <3>4. CASE ~racy'
      <4>1. t \notin Bypass /\ \A u \in Threads \ {t} : th'[u].at \in {"idle", "got"}
        BY <2>7, <3>1, <3>4 DEF WriteInner
      <4> QED  BY <3>1, <3>2, <4>1
    <3> QED  BY <3>3, <3>4
  <2>8. CASE WriteInnerFails(t)
    BY <2>8 DEF WriteInnerFails
  <2>9. CASE Mirror(t)
    BY <2>9 DEF Mirror, Mirrored
  <2>10. CASE MirrorFails(t)
    BY <2>10 DEF MirrorFails
  <2> QED
    BY <1>4, <2>1, <2>2, <2>3, <2>4, <2>5, <2>6, <2>7, <2>8, <2>9, <2>10 DEF KVStep
<1>5. CASE UNCHANGED kvVars
  BY <1>5 DEF kvVars
<1> QED
  BY <1>1, <1>2, <1>3, <1>4, <1>5 DEF KVNext

\* The store, the cache and every request stay within their types.
THEOREM KVTypeCorrect == KVSpec => []KVTypeOK
<1>1. KVInit => KVTypeOK
  BY InitIInv DEF IInv
<1> QED
  BY <1>1, TypeStep, PTL DEF KVSpec

\* The invariant of the proof holds in every state.
LEMMA IInvHolds == KVSpec => []IInv
<1>1. IInv /\ [KVNext]_kvVars => IInv'
  BY TypeStep, StaleStep DEF IInv
<1> QED
  BY InitIInv, <1>1, PTL DEF KVSpec

\* A stale value has at most the TTL and the time to dial left to live, counted
\* from the last write of the store and the last arrival of an old value.
THEOREM QuietThenCoherentHolds == KVSpec => []QuietThenCoherent
<1>1. IInv => QuietThenCoherent
  BY DEF IInv, KVTypeOK, StaleInv, QuietThenCoherent, StaleTime
<1> QED
  BY IInvHolds, <1>1, PTL

\* Redis is never stale without a race, a failed write or a bypass.
THEOREM StaleOnlyAfterRaceHolds == KVSpec => []StaleOnlyAfterRace
<1>1. IInv => StaleOnlyAfterRace
  BY DEF IInv, RaceInv, StaleOnlyAfterRace, Mirroring
<1> QED
  BY IInvHolds, <1>1, PTL

-----------------------------------------------------------------------------
(* SessionNonces: every step is one of the store's or leaves it alone.      *)

\* What a login writes back are clients.
LEMMA MergedClients ==
    ASSUME KVTypeOK, NEW c \in Clients, NEW K \in Trimmed(Merge(c))
    PROVE  K \in SUBSET Clients
<1>1. Merge(c) \in SUBSET Clients
  BY ClientAssumption DEF KVTypeOK, Merge
<1> QED
  BY <1>1 DEF Trimmed

\* A login or a logout is, to the store, a write that somebody asked for.
LEMMA StepsOfStore == KVTypeOK /\ [Next]_vars => [KVNext]_kvVars
<1> SUFFICES ASSUME KVTypeOK, [Next]_vars PROVE [KVNext]_kvVars
  OBVIOUS
<1>1. ASSUME NEW c \in Clients, Login(c) \/ Logout(c) PROVE KVNext
  BY <1>1, ClientAssumption DEF Login, Logout, Starts, KVNext
<1>2. ASSUME NEW c \in Clients, SaveLogin(c) PROVE KVNext
  <2>1. PICK K \in Trimmed(Merge(c)) : BeginSet(c, K)
    BY <1>2 DEF SaveLogin
  <2> QED
    BY <2>1, MergedClients, ClientAssumption DEF KVNext
<1>3. ASSUME NEW c \in Clients, ClearSessions(c) PROVE [KVNext]_kvVars
  BY <1>3, ClientAssumption DEF ClearSessions, KVNext
<1>4. ASSUME NEW c \in Clients,
             Read(c) \/ ReadFails(c) \/ Write(c) \/ WriteGoesOn(c) \/ WriteEnds(c)
      PROVE  KVNext
  BY <1>4, ClientAssumption DEF Read, ReadFails, Write, WriteGoesOn, WriteEnds, KVNext, KVStep
<1>5. CASE TimePasses
  BY <1>5 DEF TimePasses, KVNext
<1>6. CASE UNCHANGED vars
  BY <1>6 DEF vars, kvVars
<1> QED
  BY <1>1, <1>2, <1>3, <1>4, <1>5, <1>6 DEF Next

\* So what holds of the store holds below the sessions.
LEMMA StoreOfSessions == Spec => []IInv
<1>1. Init => IInv
  BY InitIInv DEF Init
<1>2. IInv /\ [Next]_vars => IInv'
  BY StepsOfStore, TypeStep, StaleStep DEF IInv
<1> QED
  BY <1>1, <1>2, PTL DEF Spec

\* Two requests that meet excuse everybody until one of them writes alone, so a
\* request that nobody met knows the sessions that have to be kept.
Busy(c) == want[c] # "none"

Agrees(c) ==
    /\ want[c] = "none" => Resting(c)
    /\ want[c] \in {"login", "leave"} => th[c].at \in {"get", "inner", "fill", "filling", "got"}
    /\ want[c] \in {"save", "clear"} => th[c].at \in {"set", "mirror", "mirroring"}

SessionInv ==
    /\ want \in [Clients -> {"none", "login", "save", "leave", "clear"}]
    /\ online \subseteq Clients /\ excused \subseteq Clients
    /\ SessionsKept
    /\ \A c \in Clients : Agrees(c)
    /\ \A c \in Clients : Busy(c) => Alone(c) \/ excused = Clients
    /\ \A c \in Clients : want[c] = "login" /\ th[c].at \in {"fill", "filling", "got"} =>
         online \ excused \subseteq th[c].val
    /\ \A c \in Clients : want[c] = "save" /\ th[c].at = "set" =>
         (online \cup {c}) \ excused \subseteq th[c].val

\* Every step of the clients and the store keeps the sessions that nothing excuses.
LEMMA SessionStep == IInv /\ SessionInv /\ [Next]_vars => SessionInv'
<1> SUFFICES ASSUME IInv, SessionInv, [Next]_vars PROVE SessionInv'
  OBVIOUS
<1> USE ClientAssumption
<1> USE DEF SessionInv, SessionsKept, Agrees, Busy, Alone, Resting, Wants
<1>0. KVTypeOK
  BY DEF IInv
<1>1. ASSUME NEW c \in Clients, Login(c) \/ Logout(c) PROVE SessionInv'
  BY <1>0, <1>1 DEF Login, Logout, Starts, Excuse, BeginGet, Enter, KVTypeOK
<1>2. ASSUME NEW c \in Clients, SaveLogin(c) PROVE SessionInv'
  <2>1. PICK K \in Trimmed(Merge(c)) :
          BeginSet(c, K) /\ excused' = excused \cup (Merge(c) \ K)
    BY <1>2 DEF SaveLogin
  <2> QED
    BY <1>0, <1>2, <2>1, MergedClients DEF SaveLogin, BeginSet, Enter, Merge, KVTypeOK
<1>3. ASSUME NEW c \in Clients, ClearSessions(c) PROVE SessionInv'
  BY <1>0, <1>3 DEF ClearSessions, BeginSet, Enter, kvVars, KVTypeOK
<1>4. ASSUME NEW c \in Clients, Read(c) PROVE SessionInv'
  <2>1. UNCHANGED <<store, racy, want, online>>
    BY <1>4 DEF Read, Hit, Miss, ReadInner, DialFill, Fill, FillFails
  <2>2. /\ \A u \in Clients \ {c} : th'[u] = th[u]
        /\ th[c].at \in {"get", "inner", "fill", "filling"}
        /\ th'[c].at \in {"inner", "fill", "filling", "got"}
    BY <1>0, <1>4 DEF Read, Hit, Miss, ReadInner, DialFill, Fill, FillFails, Go, GoWith, KVTypeOK
  <2>3. want[c] \in {"login", "leave"}
    BY <2>2
  <2>4. CASE racy \/ excused = Clients
    <3>1. excused' = Clients
      BY <1>4, <2>4 DEF Read
    <3> QED
      BY <1>0, <2>1, <2>2, <2>3, <3>1 DEF KVTypeOK
  <2>5. CASE ~racy /\ Alone(c)
    <3>1. excused' = excused
      BY <1>4, <2>5 DEF Read
    <3>2. ASSUME Hit(c) PROVE th'[c].val = store
      BY <1>0, <2>3, <2>5, <3>2 DEF Hit, GoWith, IInv, RaceInv, Mirroring, KVTypeOK
    <3>3. ASSUME ReadInner(c) PROVE th'[c].val = store
      BY <1>0, <3>3 DEF ReadInner, GoWith, KVTypeOK
    <3>4. ASSUME Miss(c) PROVE th'[c].at = "inner"
      BY <1>0, <3>4 DEF Miss, Go, KVTypeOK
    <3>5. ASSUME DialFill(c) \/ Fill(c) \/ FillFails(c)
          PROVE  th'[c].val = th[c].val /\ th[c].at \in {"fill", "filling"}
      BY <1>0, <3>5 DEF DialFill, Fill, FillFails, Go, KVTypeOK
    <3>6. want[c] = "login" /\ th'[c].at \in {"fill", "filling", "got"} =>
            online \ excused \subseteq th'[c].val
      BY <1>4, <3>2, <3>3, <3>4, <3>5 DEF Read
    <3> QED
      BY <1>0, <2>1, <2>2, <2>3, <3>1, <3>6 DEF KVTypeOK
  <2> QED
    BY <2>3, <2>4, <2>5
<1>5. ASSUME NEW c \in Clients, ReadFails(c) PROVE SessionInv'
  BY <1>0, <1>5 DEF ReadFails, ReadInnerFails, GoWith, KVTypeOK
<1>6. ASSUME NEW c \in Clients, Write(c) PROVE SessionInv'
  <2>1. /\ th[c].at = "set" /\ store' = th[c].val
        /\ \A u \in Clients \ {c} : th'[u] = th[u] /\ want'[u] = want[u]
        /\ th'[c].at = IF c \in Bypass THEN "idle" ELSE "mirror"
        /\ want'[c] = IF c \in Bypass THEN "none" ELSE want[c]
        /\ want' \in [Clients -> {"none", "login", "save", "leave", "clear"}]
    BY <1>0, <1>6 DEF Write, WriteInner, Enter, KVTypeOK
  <2>2. want[c] \in {"save", "clear"}
    BY <1>0, <2>1 DEF KVTypeOK
  <2>3. online' \subseteq online \cup {c} /\ (want[c] # "save" => online' = {})
    BY <1>6 DEF Write
  <2>4. \A u \in Clients : Agrees(u)'
    BY <2>1, <2>2
  <2>5. CASE Alone(c) /\ ~racy'
    <3>1. excused' = excused \ (store' \cap {c})
      BY <1>6, <2>5 DEF Write
    <3>2. SessionsKept'
      BY <2>1, <2>2, <2>3, <3>1
    <3>3. \A u \in Clients \ {c} : want'[u] = "none"
      BY <2>1, <2>5
    <3> QED
      BY <2>1, <2>2, <2>3, <2>4, <3>1, <3>2, <3>3
  <2>6. CASE ~(Alone(c) /\ ~racy')
    <3>1. excused' = Clients
      BY <1>6, <2>6 DEF Write
    <3> QED
      BY <2>1, <2>3, <2>4, <3>1
  <2> QED
    BY <2>5, <2>6
<1>7. ASSUME NEW c \in Clients, WriteEnds(c) PROVE SessionInv'
  BY <1>0, <1>7 DEF WriteEnds, Mirror, MirrorFails, WriteInnerFails, Go, KVTypeOK
<1>10. ASSUME NEW c \in Clients, WriteGoesOn(c) PROVE SessionInv'
  BY <1>0, <1>10 DEF WriteGoesOn, DialMirror, Go, KVTypeOK
<1>8. CASE TimePasses
  BY <1>0, <1>8 DEF TimePasses, Tick, KVTypeOK
<1>9. CASE UNCHANGED vars
  BY <1>9 DEF vars, kvVars
<1> QED
  BY <1>1, <1>2, <1>3, <1>4, <1>5, <1>6, <1>7, <1>8, <1>9, <1>10 DEF Next

\* A session is lost only by a logout or for one of the known reasons, for any
\* number of clients and of sessions kept per user.
THEOREM SessionsKeptHolds == Spec => []SessionsKept
<1>1. Init => SessionInv
  <2> SUFFICES ASSUME Init PROVE SessionInv
    OBVIOUS
  <2>1. \A c \in Clients : want[c] = "none" /\ th[c].at = "idle"
    BY ClientAssumption DEF Init, KVInit
  <2>2. want \in [Clients -> {"none", "login", "save", "leave", "clear"}]
    BY DEF Init
  <2>3. online = {} /\ excused = {}
    BY DEF Init
  <2>4. SessionsKept /\ online \subseteq Clients /\ excused \subseteq Clients
    BY <2>3, Zenon DEF SessionsKept
  <2> QED
    BY <2>1, <2>2, <2>4 DEF SessionInv, Agrees, Busy, Resting
<1>2. SessionInv => SessionsKept
  BY DEF SessionInv
<1> QED
  BY <1>1, <1>2, SessionStep, StoreOfSessions, PTL DEF Spec

=============================================================================
