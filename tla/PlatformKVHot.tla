--------------------------- MODULE PlatformKVHot ---------------------------
(***************************************************************************)
(* One key of the platform's key-value store: MySQL (or the file) is the    *)
(* store, Redis a look-aside cache with a TTL in front of it               *)
(* (platform_kv_redis_hot.go).  A Get that misses reads the store and fills *)
(* the cache; a Set writes the store, then the cache; neither looks at what *)
(* the other is doing, and failed cache writes are ignored.  The context of *)
(* a request bounds the dial of its connection to Redis and nothing after   *)
(* it (redis_light.go): what was sent then may take any time to arrive.     *)
(*                                                                         *)
(* The pods' requests are threads.  Those of a pod that found no Redis when *)
(* it last loaded its configuration bypass the cache: the reconnect loop    *)
(* (redis_reconnect.go) gives the pod its client back, not the wrapper.     *)
(***************************************************************************)
EXTENDS Naturals

CONSTANTS
    Threads, Bypass,
    Values, Empty,      \* Empty is the empty string
    Big,                \* values of more than platformKVRedisMaxCacheBytes
    TTL, GetTime, SetTime,  \* ticks: the TTL and the contexts of Get and Set
    Faulty              \* may calls to Redis and to the store fail?

ASSUME ThreadAssumption == Bypass \subseteq Threads /\ Faulty \in BOOLEAN
ASSUME ValueAssumption == Empty \in Values /\ Big \subseteq Values \ {Empty}
ASSUME TimeAssumption ==
    /\ TTL \in Nat \ {0}
    /\ GetTime \in Nat /\ SetTime \in Nat /\ GetTime <= SetTime

VARIABLES
    store,      \* the value of the key
    cache,      \* Redis: a value and the ticks it has left, 0 if there is none
    th,         \* the threads: where they are, their value, the ticks since they began
    quiet,      \* history: ticks since the store was written or an old value was being sent
    racy        \* history: a write met another request, the bypass or a failure

kvVars == <<store, cache, th, quiet, racy>>

StaleTime == TTL + SetTime

Steps == {"idle", "get", "inner", "fill", "filling", "got", "set", "mirror", "mirroring"}

KVTypeOK ==
    /\ store \in Values
    /\ cache \in [val : Values, ttl : 0..TTL]
    /\ th \in [Threads -> [at : Steps, val : Values, age : 0..SetTime + 1]]
    /\ quiet \in 0..StaleTime + 1
    /\ racy \in BOOLEAN

KVInit ==
    /\ store = Empty
    /\ cache = [val |-> Empty, ttl |-> 0]
    /\ th = [t \in Threads |-> [at |-> "idle", val |-> Empty, age |-> 0]]
    /\ quiet = 0 /\ racy = FALSE

Resting(t) == th[t].at \in {"idle", "got"}
Go(t, at) == th' = [th EXCEPT ![t].at = at]
GoWith(t, at, v) == th' = [th EXCEPT ![t].at = at, ![t].val = v]
Enter(t, at, v) == th' = [th EXCEPT ![t] = [at |-> at, val |-> v, age |-> 0]]

\* The empty string counts as a miss.
Visible == cache.ttl > 0 /\ cache.val # Empty

Cached(v) == [val |-> v, ttl |-> TTL]
Uncached == [val |-> Empty, ttl |-> 0]

-----------------------------------------------------------------------------
(* Get                                                                      *)

BeginGet(t) ==
    /\ Resting(t)
    /\ Enter(t, IF t \in Bypass THEN "inner" ELSE "get", Empty)
    /\ UNCHANGED <<store, cache, quiet, racy>>

Hit(t) ==
    /\ th[t].at = "get" /\ Visible
    /\ GoWith(t, "got", cache.val)
    /\ UNCHANGED <<store, cache, quiet, racy>>

\* A failed Redis call is a miss.
Miss(t) ==
    /\ th[t].at = "get" /\ (Visible => Faulty)
    /\ Go(t, "inner")
    /\ UNCHANGED <<store, cache, quiet, racy>>

ReadInner(t) ==
    /\ th[t].at = "inner"
    /\ GoWith(t, IF t \in Bypass \/ store \in Big THEN "got" ELSE "fill", store)
    /\ UNCHANGED <<store, cache, quiet, racy>>

\* The store fails: the key is reported as absent.
ReadInnerFails(t) ==
    /\ th[t].at = "inner" /\ Faulty
    /\ GoWith(t, "got", Empty)
    /\ UNCHANGED <<store, cache, quiet, racy>>

\* The context of the request, which has run since its first call, is still open.
InTime(t, limit) == th[t].age <= limit

\* Mutant: the fill is dialled with a context of its own.
DialFillLate(t) ==
    /\ th[t].at = "fill"
    /\ Go(t, "filling")
    /\ UNCHANGED <<store, cache, quiet, racy>>

DialFill(t) ==
    /\ th[t].at = "fill" /\ InTime(t, GetTime)
    /\ Go(t, "filling")
    /\ UNCHANGED <<store, cache, quiet, racy>>

Fill(t) ==
    /\ th[t].at = "filling"
    /\ cache' = Cached(th[t].val)
    /\ Go(t, "got")
    /\ UNCHANGED <<store, quiet, racy>>

FillFails(t) ==
    /\ \/ th[t].at = "fill" /\ (InTime(t, GetTime) => Faulty)
       \/ th[t].at = "filling" /\ Faulty
    /\ Go(t, "got")
    /\ UNCHANGED <<store, cache, quiet, racy>>

-----------------------------------------------------------------------------
(* Set                                                                      *)

BeginSet(t, v) ==
    /\ Resting(t)
    /\ Enter(t, "set", v)
    /\ UNCHANGED <<store, cache, quiet, racy>>

WriteInner(t) ==
    /\ th[t].at = "set"
    /\ store' = th[t].val
    /\ quiet' = 0
    /\ racy' = (racy \/ t \in Bypass \/ \E u \in Threads \ {t} : ~Resting(u))
    /\ Enter(t, IF t \in Bypass THEN "idle" ELSE "mirror", th[t].val)
    /\ UNCHANGED cache

\* An error leaves open whether the value was stored: the file's map is changed
\* before it is saved, a commit may succeed without its answer.  Redis is not told.
WriteInnerFails(t) ==
    /\ th[t].at = "set" /\ Faulty
    /\ Go(t, "idle")
    /\ \/ UNCHANGED <<store, quiet, racy>>
       \/ store' = th[t].val /\ quiet' = 0 /\ racy' = TRUE
    /\ UNCHANGED cache

\* Mutant: a value that is too big is not written, and nothing is deleted.
MirroredIfSmall(v) == IF v \in Big THEN cache ELSE Cached(v)

\* What a Set leaves in Redis: a value that is too big is only deleted there.
Mirrored(v) == IF v \in Big THEN Uncached ELSE Cached(v)

DialMirror(t) ==
    /\ th[t].at = "mirror" /\ InTime(t, SetTime)
    /\ Go(t, "mirroring")
    /\ UNCHANGED <<store, cache, quiet, racy>>

Mirror(t) ==
    /\ th[t].at = "mirroring"
    /\ cache' = Mirrored(th[t].val)
    /\ Go(t, "idle")
    /\ UNCHANGED <<store, quiet, racy>>

MirrorFails(t) ==
    /\ \/ th[t].at = "mirror" /\ (InTime(t, SetTime) => Faulty)
       \/ th[t].at = "mirroring" /\ Faulty
    /\ racy' = TRUE
    /\ Go(t, "idle")
    /\ UNCHANGED <<store, cache, quiet>>

-----------------------------------------------------------------------------
UpTo(n, limit) == IF n < limit THEN n + 1 ELSE n

Expire == cache' = IF cache.ttl > 1 THEN [cache EXCEPT !.ttl = @ - 1] ELSE Uncached

\* An old value is on its way to Redis over an open connection.
Sending == \E t \in Threads : th[t].at \in {"filling", "mirroring"} /\ th[t].val # store

Tick ==
    /\ Expire
    /\ th' = [t \in Threads |-> [th[t] EXCEPT !.age = UpTo(@, SetTime + 1)]]
    /\ quiet' = IF Sending THEN 0 ELSE UpTo(quiet, StaleTime + 1)
    /\ racy' = (racy /\ (cache'.ttl > 0 \/ \E t \in Threads : ~Resting(t)))
    /\ UNCHANGED store

KVStep(t) ==
    \/ Hit(t) \/ Miss(t) \/ ReadInner(t) \/ ReadInnerFails(t)
    \/ DialFill(t) \/ Fill(t) \/ FillFails(t)
    \/ WriteInner(t) \/ WriteInnerFails(t) \/ DialMirror(t) \/ Mirror(t) \/ MirrorFails(t)

KVNext ==
    \/ Tick
    \/ \E t \in Threads : KVStep(t) \/ BeginGet(t) \/ \E v \in Values : BeginSet(t, v)

KVSpec == KVInit /\ [][KVNext]_kvVars

-----------------------------------------------------------------------------
\* Stale values die out: once the store has not been written and no old value has
\* been on an open connection for a TTL and the time in which one request may dial,
\* Redis has the stored value or none, whatever requests raced, failed or bypassed
\* it before.
QuietThenCoherent == Visible /\ quiet > StaleTime => cache.val = store

\* Redis is stale only between a Set's two writes, or for a reason: a request that
\* overlapped a write, a write of the store or of Redis that failed, or a pod that
\* bypasses Redis.
Mirroring(t) == th[t].at \in {"mirror", "mirroring"}

StaleOnlyAfterRace ==
    Visible /\ ~racy /\ (\A t \in Threads : ~Mirroring(t)) => cache.val = store

\* Why stale values die out: an old value in Redis, or about to be sent there, was
\* read or written before the last write of the store, and its clock has been
\* running ever since; one that is being sent holds the clock.
StaleInv ==
    /\ Visible /\ cache.val # store => quiet + cache.ttl <= StaleTime
    /\ \A t \in Threads : th[t].val # store =>
         /\ th[t].at \in {"fill", "mirror"} => quiet <= th[t].age \/ th[t].age > SetTime
         /\ th[t].at \in {"filling", "mirroring"} => quiet <= SetTime
=============================================================================
