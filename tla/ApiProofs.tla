------------------------------ MODULE ApiProofs ------------------------------
(* Theorems about ApiGate for every finite set of requests and every limit, *)
(* and about SignIn for any users, roll-outs and turns of others.           *)
(* The gate's counter alone is not inductive: that a woken request was not  *)
(* holding a slot follows from where the requests in the queue are.         *)
EXTENDS ApiGate, SignIn, FiniteSetTheorems, TLAPS

(* Who stands in the queue waits, and stands there once.                    *)
QueueInv ==
    /\ \A i \in 1..Len(apiWaiters) : req[apiWaiters[i]] = "waiting"
    /\ \A i, j \in 1..Len(apiWaiters) : apiWaiters[i] = apiWaiters[j] => i = j

GateInv ==
    GateTypeOK /\ QueueInv /\ CountsHolders /\ NoWaiterStranded /\ LimitKept

-----------------------------------------------------------------------------
(* Counting                                                                 *)

\* Those who hold a slot are among the busy ones, and both are finitely many.
LEMMA GateSets ==
  ASSUME req \in [Requests -> Stages]
  PROVE  /\ IsFiniteSet(Holders) /\ IsFiniteSet(Busy)
         /\ Cardinality(Holders) \in 0..Cardinality(Requests)
         /\ Cardinality(Busy) \in Nat /\ Cardinality(Holders) <= Cardinality(Busy)
         /\ Holders \subseteq Busy /\ Busy \subseteq Requests
<1>1. Holders \subseteq Busy /\ Busy \subseteq Requests
  BY DEF Holders, Busy, Woken, In
<1>2. IsFiniteSet(Requests) /\ IsFiniteSet(Busy)
  BY <1>1, FS_Subset, GateAssumption
<1>3. /\ IsFiniteSet(Holders) /\ Cardinality(Holders) <= Cardinality(Requests)
      /\ Cardinality(Holders) <= Cardinality(Busy)
  BY <1>1, <1>2, FS_Subset
<1>4. /\ Cardinality(Requests) \in Nat /\ Cardinality(Holders) \in Nat
      /\ Cardinality(Busy) \in Nat
  BY <1>2, <1>3, FS_CardinalityType
<1>5. QED
  BY <1>1, <1>2, <1>3, <1>4

(* The head of the queue and what is left of it.                            *)
LEMMA QueueHead ==
  ASSUME GateTypeOK, QueueInv, apiWaiters # <<>>
  PROVE  /\ Head(apiWaiters) \in Requests /\ req[Head(apiWaiters)] = "waiting"
         /\ Tail(apiWaiters) \in Seq(Requests)
         /\ \A i \in 1..Len(Tail(apiWaiters)) :
              /\ Tail(apiWaiters)[i] \in Requests /\ Tail(apiWaiters)[i] # Head(apiWaiters)
              /\ req[Tail(apiWaiters)[i]] = "waiting"
         /\ \A i, j \in 1..Len(Tail(apiWaiters)) :
              Tail(apiWaiters)[i] = Tail(apiWaiters)[j] => i = j
  BY DEF GateTypeOK, QueueInv

(* A microtask at the head of the list is a request's.                      *)
LEMMA MicroHead ==
  ASSUME GateTypeOK, micro # <<>>
  PROVE  Head(micro) \in Requests /\ Tail(micro) \in Seq(Requests)
  BY DEF GateTypeOK

-----------------------------------------------------------------------------
(* The gate's functions                                                     *)

(* A request that held nothing and did not wait calls the API.              *)
LEMMA AcquireStep ==
  ASSUME GateInv, NEW r \in Requests, req[r] \in {"idle", "called"},
         NEW rest \in Seq(Requests), apiAcquire(r, rest), UNCHANGED aborted
  PROVE  GateInv'
<1> USE DEF GateInv
<1>s. /\ IsFiniteSet(Holders) /\ Cardinality(Holders) \in 0..Cardinality(Requests)
      /\ Cardinality(Busy) \in Nat /\ Cardinality(Holders) <= Cardinality(Busy)
      /\ IsFiniteSet(Busy)
  BY GateSets DEF GateTypeOK
<1>1. ASSUME apiInFlight < Limit, apiInFlight' = apiInFlight + 1, Fetch(r, rest),
             overtaken' = (overtaken \/ Woken # {}), UNCHANGED apiWaiters
      PROVE  GateInv'
  <2>1. /\ req' \in [Requests -> Stages] /\ micro' \in Seq(Requests)
        /\ req'[r] \in {"fetching", "settled"}
        /\ \A s \in Requests : s # r => req'[s] = req[s]
    BY <1>1 DEF Fetch, GateTypeOK, Stages
  <2>2. /\ Holders' = Holders \union {r} /\ r \notin Holders
        /\ Busy' = Busy \union {r} /\ r \notin Busy /\ Woken' = Woken
    BY <2>1 DEF Holders, Busy, Woken, In
  <2>3. /\ Cardinality(Holders') = Cardinality(Holders) + 1
        /\ Cardinality(Busy') = Cardinality(Busy) + 1
    BY <2>2, <1>s, FS_AddElement
  <2>4. Cardinality(Holders') \in 0..Cardinality(Requests)
    BY <2>1, GateSets, FS_Subset, FS_CardinalityType, GateAssumption, <2>2 DEF Holders, In
  <2>5. GateTypeOK' /\ CountsHolders'
    BY <1>1, <2>1, <2>3, <2>4, <1>s DEF GateTypeOK, CountsHolders
  <2>6. QueueInv'
    BY <1>1, <2>1 DEF QueueInv, GateTypeOK
  <2>7. NoWaiterStranded'
    BY <1>1, <2>3, <1>s, GateAssumption DEF NoWaiterStranded
  <2>8. LimitKept'
    <3>1. CASE Woken = {}
      <4>1. Busy = Holders
        BY <3>1 DEF Busy
      <4>2. QED
        BY <4>1, <1>1, <2>3, <1>s, GateAssumption DEF LimitKept, CountsHolders
    <3>2. CASE Woken # {}
      BY <3>2, <1>1 DEF LimitKept
    <3>3. QED
      BY <3>1, <3>2
  <2>9. QED
    BY <2>5, <2>6, <2>7, <2>8
<1>2. ASSUME apiInFlight >= Limit, apiWaiters' = Append(apiWaiters, r),
             req' = [req EXCEPT ![r] = "waiting"], micro' = rest,
             UNCHANGED <<apiInFlight, overtaken>>
      PROVE  GateInv'
  <2>1. /\ req' \in [Requests -> Stages] /\ req'[r] = "waiting"
        /\ \A s \in Requests : s # r => req'[s] = req[s]
    BY <1>2 DEF GateTypeOK, Stages
  <2>2. Holders' = Holders /\ Busy' = Busy
    BY <2>1 DEF Holders, Busy, Woken, In
  <2>3. GateTypeOK' /\ CountsHolders'
    BY <1>2, <2>1, <2>2 DEF GateTypeOK, CountsHolders
  <2>4. QueueInv'
    <3>1. \A i \in 1..Len(apiWaiters) : apiWaiters[i] # r
      BY DEF QueueInv
    <3>2. /\ Len(apiWaiters') = Len(apiWaiters) + 1 /\ apiWaiters'[Len(apiWaiters) + 1] = r
          /\ \A i \in 1..Len(apiWaiters) : /\ apiWaiters'[i] = apiWaiters[i]
                                           /\ apiWaiters[i] \in Requests
      BY <1>2 DEF GateTypeOK
    <3>3. ASSUME NEW i \in 1..Len(apiWaiters') PROVE req'[apiWaiters'[i]] = "waiting"
      BY <2>1, <3>1, <3>2 DEF QueueInv, GateTypeOK
    <3>4. ASSUME NEW i \in 1..Len(apiWaiters'), NEW j \in 1..Len(apiWaiters'),
                 apiWaiters'[i] = apiWaiters'[j]
          PROVE  i = j
      BY <3>1, <3>2, <3>4 DEF QueueInv, GateTypeOK
    <3>5. QED
      BY <3>3, <3>4 DEF QueueInv
  <2>5. NoWaiterStranded' /\ LimitKept'
    BY <1>2, <2>2, <1>s, GateAssumption
       DEF NoWaiterStranded, LimitKept, CountsHolders
  <2>6. QED
    BY <2>3, <2>4, <2>5
<1>3. QED
  BY <1>1, <1>2 DEF apiAcquire

(* A request that had been woken counts itself.                             *)
LEMMA AdmittedStep ==
  ASSUME GateInv, NEW r \in Requests, req[r] = "woken", NEW rest \in Seq(Requests),
         Admitted(r, rest), UNCHANGED <<apiWaiters, aborted, overtaken>>
  PROVE  GateInv'
<1> USE DEF GateInv
<1>s. /\ IsFiniteSet(Holders) /\ Cardinality(Holders) \in 0..Cardinality(Requests)
      /\ Cardinality(Busy) \in Nat
  BY GateSets DEF GateTypeOK
<1>1. /\ req' \in [Requests -> Stages] /\ micro' \in Seq(Requests)
      /\ req'[r] \in {"fetching", "settled"}
      /\ \A s \in Requests : s # r => req'[s] = req[s]
  BY DEF Admitted, Fetch, GateTypeOK, Stages
<1>2. Holders' = Holders \union {r} /\ r \notin Holders /\ Busy' = Busy
  BY <1>1 DEF Holders, Busy, Woken, In
<1>3. Cardinality(Holders') = Cardinality(Holders) + 1
  BY <1>2, <1>s, FS_AddElement
<1>4. Cardinality(Holders') \in 0..Cardinality(Requests)
  BY <1>2, <1>1, FS_Subset, FS_CardinalityType, GateAssumption DEF Holders, In
<1>5. GateTypeOK' /\ CountsHolders'
  BY <1>1, <1>3, <1>4, <1>s DEF GateTypeOK, CountsHolders, Admitted
<1>6. QueueInv'
  BY <1>1 DEF QueueInv, GateTypeOK
<1>7. NoWaiterStranded' /\ LimitKept'
  BY <1>2 DEF NoWaiterStranded, LimitKept
<1>8. QED
  BY <1>5, <1>6, <1>7

(* A request gives its slot back, to the oldest waiter if there is one.     *)
LEMMA ReleaseStep ==
  ASSUME GateInv, NEW r \in Requests, req[r] = "settled", NEW rest \in Seq(Requests),
         apiRelease(r, rest), aborted' = aborted \ {r}, UNCHANGED overtaken
  PROVE  GateInv'
<1> USE DEF GateInv
<1>s. /\ IsFiniteSet(Holders) /\ Cardinality(Holders) \in 0..Cardinality(Requests)
      /\ IsFiniteSet(Busy) /\ Cardinality(Busy) \in Nat /\ Cardinality(Requests) \in Nat
  BY GateSets, FS_CardinalityType, GateAssumption DEF GateTypeOK
<1>r. r \in Holders /\ r \in Busy
  BY DEF Holders, Busy, In
<1>c. /\ Cardinality(Holders \ {r}) = Cardinality(Holders) - 1
      /\ Cardinality(Busy \ {r}) = Cardinality(Busy) - 1 /\ IsFiniteSet(Busy \ {r})
      /\ IsFiniteSet(Holders \ {r})
  BY <1>r, <1>s, FS_RemoveElement
<1>n. Cardinality(Holders \ {r}) \in Nat
  BY <1>c, FS_CardinalityType
<1>f. apiInFlight' = Cardinality(Holders) - 1
  BY <1>c, <1>n, <1>s DEF apiRelease, CountsHolders
<1>1. CASE apiWaiters = <<>>
  <2>1. /\ req' = [req EXCEPT ![r] = "idle"] /\ micro' = rest /\ UNCHANGED apiWaiters
    BY <1>1 DEF apiRelease
  <2>2. Holders' = Holders \ {r} /\ Busy' = Busy \ {r}
    BY <2>1 DEF Holders, Busy, Woken, In, GateTypeOK
  <2>3. GateTypeOK' /\ CountsHolders'
    BY <2>1, <2>2, <1>f, <1>c, <1>n, <1>s DEF GateTypeOK, CountsHolders, Stages
  <2>4. QueueInv' /\ NoWaiterStranded'
    BY <1>1, <2>1 DEF QueueInv, NoWaiterStranded
  <2>5. LimitKept'
    BY <2>2, <1>c, <1>s, GateAssumption DEF LimitKept
  <2>6. QED
    BY <2>3, <2>4, <2>5
<1>2. CASE apiWaiters # <<>>
  <2> DEFINE h == Head(apiWaiters)
  <2>1. /\ req' = [req EXCEPT ![r] = "idle", ![h] = "woken"] /\ micro' = Append(rest, h)
        /\ apiWaiters' = Tail(apiWaiters)
    BY <1>2 DEF apiRelease
  <2>2. /\ h \in Requests /\ req[h] = "waiting" /\ Tail(apiWaiters) \in Seq(Requests)
        /\ \A i \in 1..Len(Tail(apiWaiters)) :
             /\ Tail(apiWaiters)[i] \in Requests /\ Tail(apiWaiters)[i] # h
             /\ req[Tail(apiWaiters)[i]] = "waiting"
        /\ \A i, j \in 1..Len(Tail(apiWaiters)) :
             Tail(apiWaiters)[i] = Tail(apiWaiters)[j] => i = j
    BY <1>2, QueueHead
  <2> HIDE DEF h
  <2>3. /\ req' \in [Requests -> Stages] /\ req'[h] = "woken" /\ req'[r] = "idle"
        /\ \A s \in Requests : s # r /\ s # h => req'[s] = req[s]
    BY <2>1, <2>2 DEF GateTypeOK, Stages
  <2>4. /\ Holders' = Holders \ {r}
        /\ Busy' = (Busy \ {r}) \union {h} /\ h \notin Busy \ {r}
    BY <2>2, <2>3 DEF Holders, Busy, Woken, In
  <2>5. Cardinality(Busy') = Cardinality(Busy)
    <3>1. Cardinality((Busy \ {r}) \union {h}) = Cardinality(Busy \ {r}) + 1
      BY <2>4, <1>c, FS_AddElement
    <3>2. QED
      BY <3>1, <2>4, <1>c, <1>s
  <2>6. GateTypeOK' /\ CountsHolders'
    <3>1. CountsHolders'
      <4>1. Cardinality(Holders') = Cardinality(Holders) - 1
        BY <2>4, <1>c
      <4>2. QED
        BY <4>1, <1>f DEF CountsHolders
    <3>2. apiInFlight' \in 0..Cardinality(Requests)
      BY <1>f, <1>c, <1>n, <1>s
    <3>3. micro' \in Seq(Requests) /\ apiWaiters' \in Seq(Requests)
      BY <2>1, <2>2
    <3>4. QED
      BY <2>3, <3>1, <3>2, <3>3 DEF GateTypeOK
  <2>7. QueueInv'
    <3>1. ASSUME NEW i \in 1..Len(apiWaiters') PROVE req'[apiWaiters'[i]] = "waiting"
      <4>1. /\ apiWaiters'[i] \in Requests /\ apiWaiters'[i] # h
            /\ req[apiWaiters'[i]] = "waiting"
        BY <2>1, <2>2
      <4>2. QED
        BY <4>1, <2>3
    <3>2. \A i, j \in 1..Len(apiWaiters') : apiWaiters'[i] = apiWaiters'[j] => i = j
      BY <2>1, <2>2
    <3>3. QED
      BY <3>1, <3>2 DEF QueueInv
  <2>8. NoWaiterStranded' /\ LimitKept'
    BY <1>2, <2>5 DEF NoWaiterStranded, LimitKept
  <2>9. QED
    BY <2>6, <2>7, <2>8
<1>3. QED
  BY <1>1, <1>2

(* Aborts and calls from callbacks move no slot.                            *)
LEMMA AbortStep ==
  ASSUME GateInv, NEW A \in SUBSET Requests, NEW C \in SUBSET Requests, Abort(A, C)
  PROVE  GateInv'
<1> USE DEF GateInv, Abort
<1> DEFINE S == C \union {r \in A : req[r] = "fetching"}
<1>1. micro' \in Seq(Requests)
  <2>1. IsFiniteSet(S) /\ S \subseteq Requests
    BY FS_Subset, GateAssumption
  <2>2. Cardinality(S) \in Nat
    BY <2>1, FS_CardinalityType
  <2>3. micro' \in [1..Cardinality(S) -> S]
    BY DEF SetToSeqs
  <2> HIDE DEF S
  <2>4. micro' \in Seq(S)
    BY <2>2, <2>3
  <2>5. QED
    BY <2>1, <2>4
<1>2. /\ req' \in [Requests -> Stages]
      /\ \A r \in Requests :
           /\ req[r] = "fetching" => req'[r] \in {"fetching", "settled"}
           /\ req[r] = "idle" => req'[r] \in {"idle", "called"}
           /\ req[r] \notin {"fetching", "idle"} => req'[r] = req[r]
  BY DEF GateTypeOK, Stages, In
<1>3. Holders' = Holders /\ Woken' = Woken
  BY <1>2 DEF Holders, Woken, In, GateTypeOK, Stages
<1>4. GateTypeOK'
  BY <1>1, <1>2 DEF GateTypeOK
<1>5. QueueInv'
  BY <1>2 DEF QueueInv, GateTypeOK
<1>6. CountsHolders' /\ NoWaiterStranded' /\ LimitKept'
  BY <1>3 DEF CountsHolders, NoWaiterStranded, LimitKept, Busy
<1>7. QED
  BY <1>4, <1>5, <1>6

-----------------------------------------------------------------------------
(* The gate counts its holders and a request waits only at the limit, for   *)
(* any limit and any requests.                                              *)
THEOREM GateInvariant == GateSpec => []GateInv
<1>1. GateInit => GateInv
  <2> SUFFICES ASSUME GateInit PROVE GateInv
    OBVIOUS
  <2>1. Holders = {} /\ Woken = {}
    BY DEF GateInit, Holders, Woken, In
  <2>2. Cardinality(Holders) = 0 /\ Cardinality(Busy) = 0
    BY <2>1, FS_EmptySet DEF Busy
  <2>3. Cardinality(Requests) \in Nat
    BY FS_CardinalityType, GateAssumption
  <2>4. GateTypeOK /\ QueueInv
    <3>1. <<>> \in Seq(Requests) /\ Len(<<>>) = 0
      OBVIOUS
    <3>2. GateTypeOK
      <4>1. apiWaiters \in Seq(Requests) /\ micro \in Seq(Requests)
        BY <3>1, Zenon DEF GateInit
      <4>2. /\ apiInFlight \in 0..Cardinality(Requests) /\ aborted \subseteq Requests
            /\ overtaken \in BOOLEAN
        <5>1. apiInFlight = 0 /\ aborted = {} /\ overtaken = FALSE
          BY Zenon DEF GateInit
        <5>2. apiInFlight \in 0..Cardinality(Requests)
          BY <5>1, <2>3
        <5>3. aborted \subseteq Requests /\ overtaken \in BOOLEAN
          BY <5>1, Zenon
        <5>4. QED
          BY <5>2, <5>3
      <4>3. req \in [Requests -> Stages]
        BY DEF GateInit, Stages
      <4>4. QED
        BY <4>1, <4>2, <4>3 DEF GateTypeOK
    <3>3. QueueInv
      BY <3>1 DEF GateInit, QueueInv
    <3>4. QED
      BY <3>2, <3>3
  <2>5. CountsHolders /\ NoWaiterStranded /\ LimitKept
    BY <2>2, GateAssumption DEF GateInit, CountsHolders, NoWaiterStranded, LimitKept
  <2>6. QED
    BY <2>4, <2>5 DEF GateInv
<1>2. GateInv /\ [GateNext]_gateVars => GateInv'
  <2> SUFFICES ASSUME GateInv, [GateNext]_gateVars PROVE GateInv'
    OBVIOUS
  <2>1. ASSUME NEW r \in Requests, Call(r) PROVE GateInv'
    <3>1. <<>> \in Seq(Requests)
      OBVIOUS
    <3>2. QED
      BY <2>1, <3>1, AcquireStep DEF Call
  <2>2. ASSUME NEW r \in Requests, Fetched(r) PROVE GateInv'
    <3>1. Holders' = Holders /\ Woken' = Woken
      BY <2>2 DEF Fetched, Holders, Woken, In, GateInv, GateTypeOK
    <3>2. GateTypeOK' /\ QueueInv'
      BY <2>2 DEF Fetched, GateInv, GateTypeOK, QueueInv, Stages
    <3>3. CountsHolders' /\ NoWaiterStranded' /\ LimitKept'
      BY <2>2, <3>1
         DEF Fetched, GateInv, CountsHolders, NoWaiterStranded, LimitKept, Busy
    <3>4. QED
      BY <3>2, <3>3 DEF GateInv
  <2>3. ASSUME NEW A \in SUBSET Requests, NEW C \in SUBSET Requests, Abort(A, C)
        PROVE  GateInv'
    BY <2>3, AbortStep
  <2>4. CASE RunCall
    BY <2>4, MicroHead, AcquireStep DEF RunCall, GateInv
  <2>5. CASE RunWoken
    BY <2>5, MicroHead, AdmittedStep DEF RunWoken, GateInv
  <2>6. CASE RunSettled
    BY <2>6, MicroHead, ReleaseStep DEF RunSettled, GateInv
  <2>7. CASE UNCHANGED gateVars
    BY <2>7 DEF gateVars, GateInv, GateTypeOK, QueueInv, CountsHolders, NoWaiterStranded,
               LimitKept, Holders, Woken, In, Busy
  <2>8. QED
    BY <2>1, <2>2, <2>3, <2>4, <2>5, <2>6, <2>7 DEF GateNext, Task
<1>3. QED
  BY <1>1, <1>2, PTL DEF GateSpec

(* No slot of the gate is leaked by an error or an abort or given twice.    *)
THEOREM CountsHoldersHolds == GateSpec => []CountsHolders
  BY GateInvariant, PTL DEF GateInv

(* Nobody waits behind a free slot.                                         *)
THEOREM NoWaiterStrandedHolds == GateSpec => []NoWaiterStranded
  BY GateInvariant, PTL DEF GateInv

(* The limit is exceeded only after a woken request has been overtaken.     *)
THEOREM LimitKeptHolds == GateSpec => []LimitKept
  BY GateInvariant, PTL DEF GateInv

-----------------------------------------------------------------------------
Somebody == Users \union {Nobody}
Tabs == [path : {"app", "login"}, user : Somebody, known : BOOLEAN, loading : BOOLEAN,
         error : BOOLEAN]
LoginStates == {"none", "totp", "checked", "abandoned", "refetching", "success", "leaving",
                "leavingMobile"}
Logins == [at : LoginStates, user : Somebody, status : 0..MaxStatuses]
Requested == 1..MaxStatuses
StatusStates == {"none", "asked", Nobody} \union Users

(* Whom the statuses on their way, the tab and the cookie name, and whose   *)
(* data are there: nobody's or the same user's.                             *)
OwnerInv ==
    /\ \A i \in Requested : statuses[i] \in Users =>
         /\ cookie.user \in {Nobody, statuses[i]} /\ tab.user \in {Nobody, statuses[i]}
         /\ \A j \in Requested : statuses[j] \in Users => statuses[j] = statuses[i]
    /\ tab.user # Nobody => /\ cookie.user \in {Nobody, tab.user}
                            /\ cached \in {Nobody, tab.user}
                            /\ reply \in Users => reply = tab.user
    /\ tab.path = "login" \/ tab.user = Nobody => ~Holding

(* Only an excused tab may hold what is not its own.                        *)
SignInv == SignInTypeOK /\ (~excused => OwnerInv)

\* What the tab's navigations and refetches make of it is a tab again.
LEMMA TabTypes ==
  ASSUME tab \in Tabs, NEW p \in {"app", "login"}
  PROVE  /\ [tab EXCEPT !.path = p] \in Tabs /\ [tab EXCEPT !.path = p].path = p
         /\ [tab EXCEPT !.path = p].user = tab.user
         /\ refetch \in Tabs /\ refetch.path = tab.path /\ refetch.user = tab.user
         /\ Loaded(p) \in Tabs /\ Loaded(p).user = Nobody
  BY DEF Tabs, refetch, Loaded, Somebody

\* What the steps of a login make of its state is such a state again.
LEMMA LoginTypes ==
  ASSUME login \in Logins
  PROVE  /\ NoLogin \in Logins /\ LoginLeft \in Logins
         /\ \A a \in LoginStates : /\ [login EXCEPT !.at = a] \in Logins
                                   /\ [NoLogin EXCEPT !.at = a] \in Logins
         /\ \A i \in Requested : /\ [login EXCEPT !.at = "refetching", !.status = i] \in Logins
                                 /\ AfterRefetch(i) \in Logins
<1>1. NoLogin \in Logins
  BY SignInAssumption DEF Logins, NoLogin, Somebody, LoginStates
<1>2. ASSUME NEW a \in LoginStates
      PROVE  [login EXCEPT !.at = a] \in Logins /\ [NoLogin EXCEPT !.at = a] \in Logins
  BY <1>1 DEF Logins
<1>3. "abandoned" \in LoginStates /\ "refetching" \in LoginStates /\ "success" \in LoginStates
  BY DEF LoginStates
<1>4. ASSUME NEW i \in Requested
      PROVE  /\ [login EXCEPT !.at = "refetching", !.status = i] \in Logins
             /\ AfterRefetch(i) \in Logins
  <2>1. i \in 0..MaxStatuses /\ 0 \in 0..MaxStatuses
    BY SignInAssumption DEF Requested
  <2>2. [login EXCEPT !.at = "refetching", !.status = i] \in Logins
    BY <1>3, <2>1 DEF Logins
  <2>3. [login EXCEPT !.at = "success", !.status = 0] \in Logins
    BY <1>3, <2>1 DEF Logins
  <2>4. QED
    BY <2>2, <2>3 DEF AfterRefetch
<1>5. LoginLeft \in Logins
  BY <1>1, <1>2, <1>3 DEF LoginLeft
<1>6. QED
  BY <1>1, <1>2, <1>4, <1>5

\* The parts of the state of signing in that the steps below name.
LEMMA SignTypes ==
  ASSUME SignInTypeOK
  PROVE  /\ tab \in Tabs /\ login \in Logins /\ cached \in Somebody
         /\ reply \in {"none", "asked", "dropped", "refused"} \union Users
         /\ cookie.user \in Somebody /\ statuses \in [Requested -> StatusStates]
         /\ tab.path \in {"app", "login"} /\ tab.user \in Somebody
  BY DEF SignInTypeOK, Tabs, Logins, Somebody, LoginStates, Requested, StatusStates

\* And they are its types.
LEMMA SignTyped ==
  ASSUME SignInTypeOK, UNCHANGED serverVars, tab' \in Tabs, login' \in Logins,
         statuses' \in [Requested -> StatusStates], cached' \in Somebody,
         reply' \in {"none", "asked", "dropped", "refused"} \union Users,
         sent' \in BOOLEAN, excused' \in BOOLEAN
  PROVE  SignInTypeOK'
  BY DEF SignInTypeOK, serverVars, Tabs, Logins, Somebody, LoginStates, Requested, StatusStates

\* A request for the status names nobody.
LEMMA AskedStatus ==
  ASSUME statuses \in [Requested -> StatusStates]
  PROVE  /\ FirstStatus \in [Requested -> StatusStates]
         /\ \A j \in Requested : FirstStatus[j] \notin Users
         /\ \A i \in Requested : AsksStatus(i) =>
              /\ statuses' \in [Requested -> StatusStates]
              /\ \A j \in Requested : statuses'[j] \in Users => statuses'[j] = statuses[j]
  BY SignInAssumption DEF FirstStatus, AsksStatus, Requested, StatusStates

\* With fewer statuses on their way, fewer data and perhaps a cookie less, what was
\* of one user is so still.
LEMMA OwnerLess ==
  ASSUME OwnerInv, tab'.user = tab.user, tab'.path = "login" => tab.path = "login" \/ ~Holding',
         cookie'.user \in {Nobody, cookie.user}, cached' \in {Nobody, cached},
         reply' \in Users \union {"asked"} => reply' = reply,
         \A j \in Requested : statuses'[j] \in Users => statuses'[j] = statuses[j]
  PROVE  OwnerInv'
  BY DEF OwnerInv, Holding

\* A tab that has not been loaded has nothing of anyone.
LEMMA SignInInitInv == SignInInit => SignInv
<1> SUFFICES ASSUME SignInInit PROVE SignInv
  OBVIOUS
<1>1. tab \in Tabs /\ tab.user = Nobody
  BY DEF SignInInit, Loaded, Tabs, Somebody
<1>2. login \in Logins
  BY SignInAssumption DEF SignInInit, NoLogin, Logins, LoginStates, Somebody
<1>3. cookie \in [user : Somebody, build : {"old", "new"}]
  BY DEF SignInInit, NoCookie, Somebody
<1>4. turns \in 0..MaxTurns /\ reply = "none" /\ cached = Nobody
  BY SignInAssumption DEF SignInInit
<1>5. session \in BOOLEAN /\ sent \in BOOLEAN /\ excused \in BOOLEAN
  BY Zenon DEF SignInInit
<1>6. /\ disabled \subseteq Users /\ clearing \subseteq Users
      /\ rollout \in {{"old"}, {"old", "new"}, {"new"}}
  BY DEF SignInInit
<1>7. /\ statuses \in [Requested -> StatusStates] /\ \A j \in Requested : statuses[j] \notin Users
  BY SignInAssumption DEF SignInInit, FirstStatus, Requested, StatusStates
<1>8. SignInTypeOK
  BY <1>1, <1>2, <1>3, <1>4, <1>5, <1>6, <1>7
     DEF SignInTypeOK, Tabs, Logins, LoginStates, Somebody, Requested, StatusStates
<1>9. OwnerInv
  BY <1>1, <1>4, <1>7, SignInAssumption DEF OwnerInv, Holding
<1>10. QED
  BY <1>8, <1>9 DEF SignInv

-----------------------------------------------------------------------------
(* What others do touches the cookie only with a login in another tab.      *)
Others ==
    \/ LoginElsewhere \/ RolloutStarts \/ RolloutEnds
    \/ \E u \in Users : \/ Disable(u) \/ ClearSession(u) \/ ClearSessionFails(u)
                        \/ Enable(u) \/ OtherTab(u)

\* A login of u, here or in another tab, as somebody whom nothing contradicts.
LEMMA NewCookie ==
  ASSUME SignInv, NEW u \in Somebody, \E b \in rollout : cookie' = [user |-> u, build |-> b],
         excused' = (excused \/ SaysOther(u)), tab'.user = tab.user, tab'.path = tab.path,
         UNCHANGED <<reply, cached>>,
         \A j \in Requested : statuses'[j] \in Users => statuses'[j] = statuses[j]
  PROVE  /\ cookie' \in [user : Somebody, build : {"old", "new"}] /\ excused' \in BOOLEAN
         /\ ~excused' => OwnerInv'
<1>1. rollout \subseteq {"old", "new"} /\ tab.user \in Somebody
  BY SignTypes DEF SignInv, SignInTypeOK
<1>2. cookie' \in [user : Somebody, build : {"old", "new"}] /\ cookie'.user = u
  BY <1>1 DEF Somebody
<1>3. excused' \in BOOLEAN /\ (~excused' => ~excused /\ ~SaysOther(u))
  BY Zenon DEF SignInv, SignInTypeOK
<1>4. ASSUME ~excused' PROVE OwnerInv'
  <2>1. OwnerInv /\ tab.user \in {Nobody, u}
        /\ \A i \in Requested : statuses[i] \in Users => statuses[i] = u
    BY <1>1, <1>3, <1>4 DEF SignInv, SaysOther, Somebody, Requested
  <2>2. QED
    BY <1>2, <2>1 DEF OwnerInv, Holding
<1>5. QED
  BY <1>2, <1>3, <1>4

\* Another tab, an expiring cookie or a rollout changes nobody's data in this tab
\* without excuse.
LEMMA OthersStep == ASSUME SignInv, Others PROVE SignInv'
<1> USE DEF SignInv
<1>1. UNCHANGED <<tab, statuses, reply, login, cached, sent>>
  BY DEF Others, LoginElsewhere, RolloutStarts, RolloutEnds, Disable, ClearSession,
         ClearSessionFails, Enable, OtherTab, clientVars
<1>2. \/ UNCHANGED <<cookie, excused>>
      \/ \E u \in Users : /\ \E b \in rollout : cookie' = [user |-> u, build |-> b]
                          /\ excused' = (excused \/ SaysOther(u))
  BY Zenon DEF Others, LoginElsewhere, RolloutStarts, RolloutEnds, Disable, ClearSession,
         ClearSessionFails, Enable, OtherTab
<1>3. /\ cookie' \in [user : Somebody, build : {"old", "new"}]
      /\ excused' \in BOOLEAN /\ (~excused' => OwnerInv')
  <2>1. CASE UNCHANGED <<cookie, excused>>
    BY <1>1, <2>1 DEF SignInTypeOK, Somebody, OwnerInv, Holding
  <2>2. ASSUME NEW u \in Users, \E b \in rollout : cookie' = [user |-> u, build |-> b],
               excused' = (excused \/ SaysOther(u))
        PROVE  /\ cookie' \in [user : Somebody, build : {"old", "new"}]
               /\ excused' \in BOOLEAN /\ (~excused' => OwnerInv')
    BY <1>1, <2>2, NewCookie DEF Somebody
  <2>3. QED
    BY <1>2, <2>1, <2>2
<1>4. session' \in BOOLEAN
  BY Zenon DEF Others, LoginElsewhere, RolloutStarts, RolloutEnds, Disable, ClearSession,
         ClearSessionFails, Enable, OtherTab, SignInTypeOK
<1>5. /\ disabled' \subseteq Users /\ clearing' \subseteq Users
      /\ rollout' \in {{"old"}, {"old", "new"}, {"new"}}
  BY DEF Others, LoginElsewhere, RolloutStarts, RolloutEnds, Disable, ClearSession,
         ClearSessionFails, Enable, OtherTab, SignInTypeOK
<1>6. turns' \in 0..MaxTurns
  BY SignInAssumption DEF Others, LoginElsewhere, RolloutStarts, RolloutEnds, Disable,
         ClearSession, ClearSessionFails, Enable, OtherTab, SignInTypeOK, Turn
<1>7. SignInTypeOK'
  BY <1>1, <1>3, <1>4, <1>5, <1>6 DEF SignInTypeOK, Somebody
<1>8. QED
  BY <1>3, <1>7

\* A status that is evaluated names the cookie's user; one that arrives, what the tab
\* holds already, or nobody.
LEMMA StatusStep ==
  ASSUME SignInv, NEW i \in Requested, AuthStatus(i) \/ ReceiveStatus(i) \/ StatusFails(i)
  PROVE  SignInv'
<1> USE DEF SignInv
<1>t. /\ tab \in Tabs /\ login \in Logins /\ statuses \in [Requested -> StatusStates]
      /\ reply \in {"none", "asked", "dropped", "refused"} \union Users /\ cached \in Somebody
      /\ cookie.user \in Somebody /\ Nobody \notin Users
      /\ (Users \union {Nobody}) \cap {"none", "asked"} = {}
  BY SignTypes, SignInAssumption
<1>b. sent \in BOOLEAN /\ excused \in BOOLEAN
  BY Zenon DEF SignInTypeOK
<1>1. CASE AuthStatus(i)
  <2>1. /\ UNCHANGED <<serverVars, tab, reply, login, cached, sent, excused>>
        /\ statuses[i] = "asked"
    BY <1>1 DEF AuthStatus
  <2>2. PICK b \in rollout :
          statuses' = [statuses EXCEPT
                         ![i] = IF sessionAuthFromCookie(b) THEN cookie.user ELSE Nobody]
    BY <1>1 DEF AuthStatus
  <2>3. /\ statuses' \in [Requested -> StatusStates] /\ statuses'[i] \in {cookie.user, Nobody}
        /\ \A j \in Requested : j # i => statuses'[j] = statuses[j]
    BY <1>t, <2>2 DEF StatusStates, Somebody
  <2>4. SignInTypeOK'
    BY <1>t, <1>b, <2>1, <2>3, SignTyped
  <2>5. ~excused => OwnerInv'
    BY <1>t, <2>1, <2>3 DEF OwnerInv, Holding, serverVars, Somebody
  <2>6. QED
    BY <2>1, <2>4, <2>5
<1>2. CASE ReceiveStatus(i)
  <2>1. /\ UNCHANGED <<serverVars, reply, cached>> /\ statuses[i] \in Somebody
        /\ tab' = [tab EXCEPT !.loading = FALSE, !.known = TRUE, !.user = statuses[i]]
        /\ statuses' = [statuses EXCEPT ![i] = "none"] /\ login' = AfterRefetch(i)
    BY <1>2 DEF ReceiveStatus, Somebody
  <2>2. /\ tab' \in Tabs /\ tab'.user = statuses[i] /\ tab'.path = tab.path
    BY <1>t, <2>1 DEF Tabs
  <2>3. /\ statuses' \in [Requested -> StatusStates] /\ statuses'[i] = "none"
        /\ \A j \in Requested : j # i => statuses'[j] = statuses[j]
    BY <1>t, <2>1 DEF StatusStates
  <2>4. sent' \in BOOLEAN /\ excused' \in BOOLEAN
    BY <1>2, <1>b, Zenon DEF ReceiveStatus
  <2>5. SignInTypeOK'
    BY <1>t, <2>1, <2>2, <2>3, <2>4, LoginTypes, SignTyped
  <2>6. ~excused' => ~excused /\ ~(tab.path = "app" /\ statuses[i] = Nobody /\ Holding)
    BY <1>2, Zenon DEF ReceiveStatus
  <2>7. ASSUME ~excused' PROVE OwnerInv'
    <3>1. OwnerInv /\ (statuses[i] = Nobody => ~Holding)
      BY <1>t, <2>6, <2>7 DEF OwnerInv, Tabs
    <3>2. UNCHANGED cookie /\ (Holding' <=> Holding)
      BY <2>1 DEF serverVars, Holding
    <3>3. CASE statuses[i] = Nobody
      BY <1>t, <2>1, <2>2, <2>3, <3>1, <3>2, <3>3 DEF OwnerInv
    <3>4. CASE statuses[i] \in Users
      BY <1>t, <2>1, <2>2, <2>3, <3>1, <3>2, <3>4 DEF OwnerInv, Holding
    <3>5. QED
      BY <2>1, <3>3, <3>4 DEF Somebody
  <2>8. QED
    BY <2>5, <2>7
<1>3. CASE StatusFails(i)
  <2>1. /\ UNCHANGED <<serverVars, reply, cached, sent, excused>>
        /\ tab' = [tab EXCEPT !.loading = FALSE, !.error = TRUE]
        /\ statuses' = [statuses EXCEPT ![i] = "none"] /\ login' = AfterRefetch(i)
    BY <1>3 DEF StatusFails
  <2>2. tab' \in Tabs /\ tab'.user = tab.user /\ tab'.path = tab.path
    BY <1>t, <2>1 DEF Tabs
  <2>3. /\ statuses' \in [Requested -> StatusStates]
        /\ \A j \in Requested : statuses'[j] \in Users => statuses'[j] = statuses[j]
    BY <1>t, <2>1 DEF StatusStates
  <2>4. SignInTypeOK'
    BY <1>t, <1>b, <2>1, <2>2, <2>3, LoginTypes, SignTyped
  <2>5. ~excused => OwnerInv'
    BY <2>1, <2>2, <2>3, OwnerLess DEF serverVars
  <2>6. QED
    BY <2>1, <2>4, <2>5
<1>4. QED
  BY <1>1, <1>2, <1>3

\* The tab goes to another page, or loads one.
LEMMA NavigationStep ==
  ASSUME SignInv,
         RequireAuth \/ LeaveLogin \/ LoginTimer \/ Reload \/ \E i \in Requested : RefetchAuth(i)
  PROVE  SignInv'
<1> USE DEF SignInv
<1>t. /\ tab \in Tabs /\ login \in Logins /\ statuses \in [Requested -> StatusStates]
      /\ reply \in {"none", "asked", "dropped", "refused"} \union Users /\ cached \in Somebody
      /\ tab.path \in {"app", "login"} /\ Nobody \in Somebody
  BY SignTypes DEF Somebody
<1>1. UNCHANGED serverVars
  BY DEF RequireAuth, LeaveLogin, LoginTimer, Reload, RefetchAuth
<1>2. sent' \in BOOLEAN /\ excused' \in BOOLEAN
  BY Zenon DEF RequireAuth, LeaveLogin, LoginTimer, Reload, RefetchAuth, SignInTypeOK
<1>3. CASE RequireAuth
  <2>1. /\ tab' = [tab EXCEPT !.path = "login"]
        /\ UNCHANGED <<statuses, reply, login, cached, excused>>
        /\ tab.user = Nobody
    BY <1>3 DEF RequireAuth, LoggedIn
  <2>2. tab' \in Tabs /\ tab'.path = "login" /\ tab'.user = Nobody
    BY <2>1, <1>t, TabTypes
  <2>3. SignInTypeOK'
    BY <1>t, <1>1, <1>2, <2>1, <2>2, SignTyped
  <2>4. ~excused => OwnerInv'
    BY <1>1, <2>1, <2>2 DEF OwnerInv, Holding, serverVars
  <2>5. QED
    BY <2>1, <2>3, <2>4
<1>4. CASE LeaveLogin \/ LoginTimer
  <2>1. /\ tab' = [tab EXCEPT !.path = "app"] /\ login' = LoginLeft
        /\ UNCHANGED <<statuses, reply, cached, excused>>
    BY <1>4 DEF LeaveLogin, LoginTimer
  <2>2. tab' \in Tabs /\ tab'.path = "app" /\ tab'.user = tab.user
    BY <2>1, <1>t, TabTypes
  <2>3. SignInTypeOK'
    BY <1>t, <1>1, <1>2, <2>1, <2>2, LoginTypes, SignTyped
  <2>4. ~excused => OwnerInv'
    BY <1>1, <2>1, <2>2, OwnerLess DEF serverVars
  <2>5. QED
    BY <2>1, <2>3, <2>4
<1>5. CASE Reload
  <2>1. /\ tab' = Loaded(tab.path) /\ statuses' = FirstStatus /\ reply' = "none"
        /\ cached' = Nobody /\ UNCHANGED login
    BY <1>5 DEF Reload
  <2>2. tab' \in Tabs /\ tab'.user = Nobody
    BY <2>1, <1>t, TabTypes
  <2>3. SignInTypeOK'
    BY <1>t, <1>1, <1>2, <2>1, <2>2, AskedStatus, SignTyped
  <2>4. OwnerInv'
    BY <1>t, <2>1, <2>2, AskedStatus, SignInAssumption DEF OwnerInv, Holding
  <2>5. QED
    BY <2>3, <2>4
<1>6. ASSUME NEW i \in Requested, RefetchAuth(i) PROVE SignInv'
  <2>1. tab' = refetch /\ AsksStatus(i) /\ UNCHANGED <<reply, login, cached, excused>>
    BY <1>6 DEF RefetchAuth
  <2>2. /\ tab' \in Tabs /\ tab'.path = tab.path /\ tab'.user = tab.user
        /\ statuses' \in [Requested -> StatusStates]
        /\ \A j \in Requested : statuses'[j] \in Users => statuses'[j] = statuses[j]
    BY <2>1, <1>t, TabTypes, AskedStatus
  <2>3. SignInTypeOK'
    BY <1>t, <1>1, <1>2, <2>1, <2>2, SignTyped
  <2>4. ~excused => OwnerInv'
    BY <1>1, <2>1, <2>2, OwnerLess DEF serverVars
  <2>5. QED
    BY <2>1, <2>3, <2>4
<1>7. QED
  BY <1>3, <1>4, <1>5, <1>6

\* The pages' requests.
LEMMA RequestStep ==
  ASSUME SignInv, Ask \/ Serve \/ Answer \/ Refused \/ AnswerFails
  PROVE  SignInv'
<1> USE DEF SignInv
<1>t. /\ tab \in Tabs /\ login \in Logins /\ statuses \in [Requested -> StatusStates]
      /\ reply \in {"none", "asked", "dropped", "refused"} \union Users /\ cached \in Somebody
      /\ Users \cap {"none", "asked", "dropped", "refused"} = {} /\ Nobody \notin Users
  BY SignTypes, SignInAssumption
<1>1. UNCHANGED serverVars
  BY DEF Ask, Serve, Answer, Refused, AnswerFails
<1>2. sent' \in BOOLEAN /\ excused' \in BOOLEAN
  BY Zenon DEF Ask, Serve, Answer, Refused, AnswerFails, maybeRedirectLogin, SignInTypeOK
<1>3. CASE Ask
  <2>1. UNCHANGED <<tab, statuses, login, cached, excused>> /\ reply' = "asked"
        /\ tab.path = "app" /\ tab.user # Nobody
    BY <1>3 DEF Ask, Page, LoggedIn
  <2>2. SignInTypeOK'
    BY <1>t, <1>1, <1>2, <2>1, SignTyped
  <2>3. ~excused => OwnerInv'
    BY <1>1, <1>t, <2>1 DEF OwnerInv, Holding, serverVars
  <2>4. QED
    BY <2>1, <2>2, <2>3
<1>4. CASE Serve
  <2>1. UNCHANGED <<tab, statuses, login, cached, excused>> /\ reply \in {"asked", "dropped"}
    BY <1>4 DEF Serve
  <2>2. /\ \/ reply' \in {"none", "refused"}
           \/ reply = "asked" /\ reply' = cookie.user /\ cookie.user # Nobody
        /\ cookie.user \in Somebody
    BY <1>4, SignTypes DEF Serve, Served, sessionAuthFromCookie
  <2>3. SignInTypeOK'
    BY <1>t, <1>1, <1>2, <2>1, <2>2, SignTyped DEF Somebody
  <2>4. ~excused => OwnerInv'
    BY <1>1, <1>t, <2>1, <2>2 DEF OwnerInv, Holding, serverVars, Somebody
  <2>5. QED
    BY <2>1, <2>3, <2>4
<1>5. CASE Answer \/ AnswerFails
  <2>1. /\ UNCHANGED <<tab, statuses, login, excused>> /\ reply # "none" /\ reply' = "none"
        /\ cached' = cached \/ (cached' = reply /\ reply \in Users)
    BY <1>5, <1>t DEF Answer, AnswerFails
  <2>2. SignInTypeOK'
    BY <1>t, <1>1, <1>2, <2>1, SignTyped DEF Somebody
  <2>3. ~excused => OwnerInv'
    BY <1>1, <1>t, <2>1 DEF OwnerInv, Holding, serverVars
  <2>4. QED
    BY <2>1, <2>2, <2>3
<1>6. CASE Refused
  <2>1. reply = "refused" /\ reply' = "none"
    BY <1>6 DEF Refused
  <2>2. CASE tab.path = "login"
    <3>1. UNCHANGED <<tab, statuses, login, cached, excused>>
      BY <2>2, <1>6 DEF Refused, maybeRedirectLogin
    <3>2. SignInTypeOK'
      BY <1>t, <1>1, <1>2, <2>1, <3>1, SignTyped
    <3>3. ~excused => OwnerInv'
      BY <1>1, <1>t, <2>1, <3>1 DEF OwnerInv, Holding, serverVars
    <3>4. QED
      BY <3>1, <3>2, <3>3
  <2>3. CASE tab.path # "login"
    <3>1. /\ tab' = Loaded("login") /\ statuses' = FirstStatus
          /\ login' = NoLogin /\ cached' = Nobody
      BY <2>3, <1>6 DEF Refused, maybeRedirectLogin
    <3>2. tab' \in Tabs /\ tab'.user = Nobody /\ login' \in Logins
      BY <3>1, <1>t, TabTypes, LoginTypes
    <3>3. SignInTypeOK'
      BY <1>t, <1>1, <1>2, <2>1, <3>1, <3>2, AskedStatus, SignTyped DEF Somebody
    <3>4. OwnerInv'
      BY <1>t, <2>1, <3>1, <3>2, AskedStatus DEF OwnerInv, Holding
    <3>5. QED
      BY <3>3, <3>4
  <2>4. QED
    BY <2>2, <2>3
<1>7. QED
  BY <1>3, <1>4, <1>5, <1>6

\* A login, from the form to the cookie.
LEMMA LoginStep ==
  ASSUME SignInv,
         \/ SubmitTotp \/ BackToPassword \/ LoginFails
         \/ \E u \in Users : SubmitPassword(u)
         \/ \E i \in Requested : FinishLogin(i)
  PROVE  SignInv'
<1> USE DEF SignInv
<1>t. /\ tab \in Tabs /\ login \in Logins /\ statuses \in [Requested -> StatusStates]
      /\ reply \in {"none", "asked", "dropped", "refused"} \union Users /\ cached \in Somebody
      /\ login.user \in Somebody
  BY SignTypes DEF Logins
<1>b. sent \in BOOLEAN /\ excused \in BOOLEAN
  BY Zenon DEF SignInTypeOK
<1>1. CASE SubmitTotp \/ BackToPassword \/ LoginFails \/ \E u \in Users : SubmitPassword(u)
  <2>1. UNCHANGED <<serverVars, tab, statuses, reply, cached, sent, excused>>
    BY <1>1 DEF SubmitTotp, BackToPassword, LoginFails, SubmitPassword
  <2>2. login' \in Logins
    <3>1. {"totp", "checked"} \subseteq LoginStates
      BY DEF LoginStates
    <3>2. CASE SubmitTotp \/ BackToPassword \/ LoginFails
      BY <1>t, <3>1, <3>2, LoginTypes DEF SubmitTotp, BackToPassword, LoginFails
    <3>3. ASSUME NEW u \in Users, SubmitPassword(u) PROVE login' \in Logins
      BY <1>t, <3>1, <3>3, LoginTypes DEF SubmitPassword, Logins, Somebody
    <3>4. QED
      BY <1>1, <3>2, <3>3
  <2>3. SignInTypeOK'
    BY <1>t, <1>b, <2>1, <2>2, SignTyped
  <2>4. ~excused => OwnerInv'
    BY <2>1 DEF OwnerInv, Holding, serverVars
  <2>5. QED
    BY <2>1, <2>3, <2>4
<1>2. ASSUME NEW i \in Requested, FinishLogin(i) PROVE SignInv'
  <2>1. /\ tab' = refetch /\ AsksStatus(i)
        /\ login' = IF login.at = "checked"
                    THEN [login EXCEPT !.at = "refetching", !.status = i] ELSE NoLogin
        /\ \E b \in rollout : cookie' = [user |-> login.user, build |-> b]
        /\ session' = TRUE /\ excused' = (excused \/ SaysOther(login.user))
        /\ UNCHANGED <<disabled, clearing, rollout, turns, reply, cached, sent>>
    BY <1>2, Zenon DEF FinishLogin
  <2>2. /\ tab' \in Tabs /\ tab'.path = tab.path /\ tab'.user = tab.user
        /\ statuses' \in [Requested -> StatusStates]
        /\ \A j \in Requested : statuses'[j] \in Users => statuses'[j] = statuses[j]
    BY <2>1, <1>t, TabTypes, AskedStatus
  <2>3. login' \in Logins
    BY <2>1, <1>t, LoginTypes
  <2>4. session' \in BOOLEAN
    BY <2>1, Zenon
  <2>5. /\ cookie' \in [user : Somebody, build : {"old", "new"}] /\ excused' \in BOOLEAN
        /\ ~excused' => OwnerInv'
    BY <1>t, <2>1, <2>2, NewCookie
  <2>6. SignInTypeOK'
    BY <1>t, <1>b, <2>1, <2>2, <2>3, <2>4, <2>5
       DEF SignInTypeOK, Tabs, Logins, LoginStates, Somebody, Requested, StatusStates
  <2>7. QED
    BY <2>5, <2>6
<1>3. QED
  BY <1>1, <1>2

\* A logout: the request, and what the header does with the answer.
LEMMA LogoutStep ==
  ASSUME SignInv,
         Logout \/ LoggedOutMobile \/ LogoutFails \/ \E i \in Requested : LoggedOut(i)
  PROVE  SignInv'
<1> USE DEF SignInv
<1>t. /\ tab \in Tabs /\ login \in Logins /\ statuses \in [Requested -> StatusStates]
      /\ reply \in {"none", "asked", "dropped", "refused"} \union Users /\ cached \in Somebody
      /\ Users \cap {"none", "asked", "dropped", "refused"} = {} /\ Nobody \in Somebody
  BY SignTypes, SignInAssumption DEF Somebody
<1>b. sent \in BOOLEAN /\ excused \in BOOLEAN
  BY Zenon DEF SignInTypeOK
<1>1. CASE Logout
  <2>1. /\ cookie' = NoCookie /\ sent' = FALSE
        /\ UNCHANGED <<tab, statuses, reply, cached, excused, disabled, clearing, rollout, turns>>
    BY <1>1, Zenon DEF Logout, handleAuthLogout
  <2>2. login' \in Logins
    <3>1. {"leaving", "leavingMobile"} \subseteq LoginStates
      BY DEF LoginStates
    <3>2. PICK how \in {"leaving", "leavingMobile"} : login' = [NoLogin EXCEPT !.at = how]
      BY <1>1 DEF Logout
    <3>3. QED
      BY <3>1, <3>2, <1>t, LoginTypes
  <2>3. session' \in BOOLEAN /\ sent' \in BOOLEAN
    BY <1>1, Zenon DEF Logout, handleAuthLogout, SignInTypeOK
  <2>4. cookie' \in [user : Somebody, build : {"old", "new"}] /\ cookie'.user = Nobody
    BY <2>1 DEF NoCookie, Somebody
  <2>5. SignInTypeOK'
    BY <2>1, <2>2, <2>3, <2>4
       DEF SignInTypeOK, Logins, LoginStates, Somebody, Requested, StatusStates
  <2>6. ~excused => OwnerInv'
    BY <2>1, <2>4, OwnerLess
  <2>7. QED
    BY <2>1, <2>5, <2>6
<1>2. ASSUME NEW i \in Requested, LoggedOut(i) \/ LoggedOutMobile PROVE SignInv'
  <2>1. /\ UNCHANGED <<serverVars, sent, excused>> /\ login' = NoLogin /\ cached' = Nobody
        /\ reply' = IF reply = "asked" THEN "dropped" ELSE IF reply \in Users THEN "none" ELSE reply
    BY <1>2 DEF LoggedOut, LoggedOutMobile, ClearQueries
  <2>2. reply' \in {"none", "dropped", "refused"}
    BY <2>1, <1>t
  <2>3. /\ tab' \in Tabs /\ tab'.user = tab.user
        /\ statuses' \in [Requested -> StatusStates]
        /\ \A j \in Requested : statuses'[j] \in Users => statuses'[j] = statuses[j]
    BY <1>2, <1>t, TabTypes, AskedStatus DEF LoggedOut, LoggedOutMobile
  <2>4. login' \in Logins
    BY <2>1, <1>t, LoginTypes
  <2>5. SignInTypeOK'
    BY <1>t, <1>b, <2>1, <2>2, <2>3, <2>4, SignTyped
  <2>6. ~excused => OwnerInv'
    BY <1>t, <2>1, <2>2, <2>3, OwnerLess DEF Holding, serverVars
  <2>7. QED
    BY <2>1, <2>5, <2>6
<1>3. CASE LogoutFails
  <2>1. login' = NoLogin /\ UNCHANGED <<serverVars, tab, statuses, reply, cached, sent, excused>>
    BY <1>3 DEF LogoutFails
  <2>2. SignInTypeOK'
    BY <1>t, <1>b, <2>1, LoginTypes, SignTyped
  <2>3. ~excused => OwnerInv'
    BY <2>1 DEF OwnerInv, Holding, serverVars
  <2>4. QED
    BY <2>1, <2>2, <2>3
<1>4. QED
  BY <1>1, <1>2, <1>3, SignInAssumption DEF Requested

\* Every step of signing in and out keeps the invariant.
LEMMA SignInNextInv == SignInv /\ [SignInNext]_signInVars => SignInv'
<1> SUFFICES ASSUME SignInv, [SignInNext]_signInVars PROVE SignInv'
  OBVIOUS
<1>1. CASE UNCHANGED signInVars
  BY <1>1 DEF signInVars, SignInv, SignInTypeOK, OwnerInv, Holding
<1>2. CASE Others
  BY <1>2, OthersStep
<1>3. CASE LoginFinishes
  BY <1>3, LoginStep DEF LoginFinishes, Requested
<1>4. QED
  BY <1>1, <1>2, <1>3, StatusStep, NavigationStep, RequestStep, LoginStep, LogoutStep
     DEF SignInNext, Tab, User, Unforced, Others, Requested

(* Whose data the tab holds, in every behaviour of signing in and out; no   *)
(* fairness is needed for what never happens.                               *)
THEOREM SignInSafe == SignInInit /\ [][SignInNext]_signInVars => []SignInv
  BY SignInInitInv, SignInNextInv, PTL

\* The invariant has the page's data be the shown user's.
LEMMA CacheOwned == SignInv => CacheIsOwn
  BY DEF SignInv, OwnerInv, CacheIsOwn, Page, LoggedIn

\* A page of the console holds nothing that was read with another user's cookie, unless
\* the history excuses it: a login as somebody else while the tab or a status on its way
\* still named another, or a status that said "out" to a page with data (auth-context.tsx,
\* RequireAuth.tsx and the logout in the browser's source).
THEOREM CacheIsOwnHolds == SignInSpec => []CacheIsOwn
  BY CacheOwned, SignInSafe, PTL DEF SignInSpec
=============================================================================
