--------------------------- MODULE SessionNonces ---------------------------
(***************************************************************************)
(* The session entry of one user who may be logged in from several IPs      *)
(* (session_nonce.go), kept in the platform store: the composition of the   *)
(* session logic with PlatformKVHot.  A login reads the entry, adds its IP  *)
(* and writes it back; a logout checks the entry, then clears it; nothing   *)
(* serialises them.  A value is the set of IPs that have a session; a nonce *)
(* itself is left out, a new login from the same IP replaces it.            *)
(***************************************************************************)
EXTENDS PlatformKVHot, FiniteSets

CONSTANTS
    Clients,    \* one per IP; each runs one request at a time
    MaxIPs,     \* sessions kept per user (16)
    MaxRequests \* bound for TLC: requests at a time

ASSUME ClientAssumption == Threads = Clients /\ Values = SUBSET Clients /\ Empty = {}
ASSUME MaxAssumption == MaxIPs \in Nat \ {0} /\ MaxRequests \in Nat

VARIABLES
    want,       \* what each client's request is for
    online,     \* history: logged in since the last logout of the user
    excused     \* history: sessions that a race, a failure or the trim may have cost

vars == <<kvVars, want, online, excused>>

TypeOK ==
    /\ KVTypeOK
    /\ want \in [Clients -> {"none", "login", "save", "leave", "clear"}]
    /\ online \subseteq Clients /\ excused \subseteq Clients

Init ==
    /\ KVInit
    /\ want = [c \in Clients |-> "none"]
    /\ online = {} /\ excused = {}

Wants(c, w) == want' = [want EXCEPT ![c] = w]

\* A request that starts beside another one may see half of what that one does.
Alone(c) == \A u \in Clients \ {c} : want[u] = "none"
Excuse(c) == excused' = IF Alone(c) THEN excused ELSE Clients

Starts(c) ==
    /\ want[c] = "none" /\ Cardinality({u \in Clients : want[u] # "none"}) < MaxRequests
    /\ BeginGet(c)

(* Login: SetSessionNonceAfterLogin with allowMulti.                        *)
Login(c) ==
    /\ Starts(c) /\ Wants(c, "login")
    /\ Excuse(c) /\ UNCHANGED online

\* Mutant: the entry is written anew, as for a single session.
MergeNone(c) == {c}

Merge(c) == th[c].val \cup {c}

\* trimIPNonceMap drops whatever the iteration of the map meets first.
Trimmed(S) == IF Cardinality(S) <= MaxIPs THEN {S}
              ELSE {K \in SUBSET S : Cardinality(K) = MaxIPs}

SaveLogin(c) ==
    /\ want[c] = "login" /\ th[c].at = "got"
    /\ \E K \in Trimmed(Merge(c)) :
         /\ BeginSet(c, K)
         /\ excused' = excused \cup (Merge(c) \ K)
    /\ Wants(c, "save") /\ UNCHANGED online

(* Logout: sessionUserFromCookie, then ClearSessionNonceForUser.            *)
Logout(c) ==
    /\ Starts(c) /\ Wants(c, "leave")
    /\ Excuse(c) /\ UNCHANGED online

ClearSessions(c) ==
    /\ want[c] = "leave" /\ th[c].at = "got"
    /\ IF c \in th[c].val THEN BeginSet(c, {}) /\ Wants(c, "clear")
                          ELSE UNCHANGED kvVars /\ Wants(c, "none")
    /\ UNCHANGED <<online, excused>>

(* Progress of the request in the store.                                    *)
Read(c) ==
    /\ Hit(c) \/ Miss(c) \/ ReadInner(c) \/ DialFill(c) \/ Fill(c) \/ FillFails(c)
    /\ excused' = IF racy THEN Clients ELSE excused
    /\ UNCHANGED <<want, online>>

ReadFails(c) ==
    /\ ReadInnerFails(c)
    /\ excused' = Clients /\ UNCHANGED <<want, online>>

Write(c) ==
    /\ WriteInner(c)
    /\ online' = IF want[c] = "save" THEN online \cup {c} ELSE {}
    /\ excused' = IF Alone(c) /\ ~racy' THEN excused \ (store' \cap {c}) ELSE Clients
    /\ IF th'[c].at = "idle" THEN Wants(c, "none") ELSE UNCHANGED want

WriteGoesOn(c) == DialMirror(c) /\ UNCHANGED <<want, online, excused>>

\* A write that failed and was done all the same may have cost any session.
WriteEnds(c) ==
    /\ Mirror(c) \/ MirrorFails(c) \/ WriteInnerFails(c)
    /\ Wants(c, "none")
    /\ excused' = IF store' = store THEN excused ELSE Clients
    /\ UNCHANGED online

TimePasses == Tick /\ UNCHANGED <<want, online, excused>>

Next ==
    \/ TimePasses
    \/ \E c \in Clients :
         \/ Login(c) \/ SaveLogin(c) \/ Logout(c) \/ ClearSessions(c)
         \/ Read(c) \/ ReadFails(c) \/ Write(c) \/ WriteGoesOn(c) \/ WriteEnds(c)

Spec == Init /\ [][Next]_vars

-----------------------------------------------------------------------------
\* A session is lost only by a logout of the user or for a known reason: logins
\* that overlapped, a failed store, Redis stale after a race, or the trim.
SessionsKept == online \ excused \subseteq store
=============================================================================
