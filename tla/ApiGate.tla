------------------------------ MODULE ApiGate ------------------------------
(***************************************************************************)
(* The browser's gate in front of the API (lib/api.ts): at most Limit       *)
(* requests are fetched at a time, the others wait in a queue.  JavaScript  *)
(* runs one task at a time and, before the next task, every microtask the   *)
(* task left behind, in order; the gate's counter is read and written by    *)
(* both, and a request that is let in counts itself only when its own       *)
(* microtask runs.                                                          *)
(*                                                                         *)
(* Paths, bodies and answers are abstracted: a request is a name that may   *)
(* be used again once it is done.                                           *)
(***************************************************************************)
EXTENDS Naturals, Sequences, FiniteSets, SequencesExt

CONSTANTS
    Requests,
    Limit       \* API_MAX_CONCURRENT

ASSUME GateAssumption == IsFiniteSet(Requests) /\ Limit \in Nat \ {0}

VARIABLES
    apiInFlight,
    apiWaiters,     \* the requests that wait, oldest first
    req,            \* where each request is
    aborted,        \* the requests whose signal is aborted
    micro,          \* the microtasks to run before the next task
    overtaken       \* history: a call took a slot a woken request had yet to count

gateVars == <<apiInFlight, apiWaiters, req, aborted, micro, overtaken>>

(* A request is called, waits, is woken, fetches, and its fetch settles.    *)
(* "called", "woken" and "settled" each have a microtask to come.           *)
Stages == {"idle", "called", "waiting", "woken", "fetching", "settled"}

In(stages) == {r \in Requests : req[r] \in stages}
Holders == In({"fetching", "settled"})
Woken == In({"woken"})
Busy == Holders \union Woken

GateTypeOK ==
    /\ apiInFlight \in 0..Cardinality(Requests)
    /\ apiWaiters \in Seq(Requests)
    /\ req \in [Requests -> Stages]
    /\ aborted \subseteq Requests
    /\ micro \in Seq(Requests)
    /\ overtaken \in BOOLEAN

GateInit ==
    /\ apiInFlight = 0
    /\ apiWaiters = <<>>
    /\ req = [r \in Requests |-> "idle"]
    /\ aborted = {}
    /\ micro = <<>>
    /\ overtaken = FALSE

-----------------------------------------------------------------------------
(* The gate's functions; rest is the microtasks that remain to run          *)

\* fetch() with an aborted signal settles at once.
Fetch(r, rest) ==
    /\ req' = [req EXCEPT ![r] = IF r \in aborted THEN "settled" ELSE "fetching"]
    /\ micro' = IF r \in aborted THEN Append(rest, r) ELSE rest

\* Mutant: one request too many is let in.
AcquireAtLimit(r, rest) ==
    \/ /\ apiInFlight <= Limit
       /\ apiInFlight' = apiInFlight + 1
       /\ Fetch(r, rest)
       /\ overtaken' = (overtaken \/ Woken # {})
       /\ UNCHANGED apiWaiters
    \/ /\ apiInFlight > Limit
       /\ apiWaiters' = Append(apiWaiters, r)
       /\ req' = [req EXCEPT ![r] = "waiting"]
       /\ micro' = rest
       /\ UNCHANGED <<apiInFlight, overtaken>>

apiAcquire(r, rest) ==
    \/ /\ apiInFlight < Limit
       /\ apiInFlight' = apiInFlight + 1
       /\ Fetch(r, rest)
       /\ overtaken' = (overtaken \/ Woken # {})
       /\ UNCHANGED apiWaiters
    \/ /\ apiInFlight >= Limit
       /\ apiWaiters' = Append(apiWaiters, r)
       /\ req' = [req EXCEPT ![r] = "waiting"]
       /\ micro' = rest
       /\ UNCHANGED <<apiInFlight, overtaken>>

\* Mutant: the request leaves the queue but is counted twice.
EagerAdmitted(r, rest) ==
    /\ apiInFlight' = apiInFlight + 2
    /\ Fetch(r, rest)

Admitted(r, rest) ==
    /\ apiInFlight' = apiInFlight + 1
    /\ Fetch(r, rest)

\* Mutant: the waiter is left in the queue unless the counter has fallen to zero.
LazyRelease(r, rest) ==
    /\ apiInFlight' = IF apiInFlight = 0 THEN 0 ELSE apiInFlight - 1
    /\ IF apiWaiters = <<>> \/ apiInFlight > 1
       THEN /\ req' = [req EXCEPT ![r] = "idle"]
            /\ micro' = rest
            /\ UNCHANGED apiWaiters
       ELSE /\ req' = [req EXCEPT ![r] = "idle", ![Head(apiWaiters)] = "woken"]
            /\ micro' = Append(rest, Head(apiWaiters))
            /\ apiWaiters' = Tail(apiWaiters)

apiRelease(r, rest) ==
    /\ apiInFlight' = IF apiInFlight = 0 THEN 0 ELSE apiInFlight - 1
    /\ IF apiWaiters = <<>>
       THEN /\ req' = [req EXCEPT ![r] = "idle"]
            /\ micro' = rest
            /\ UNCHANGED apiWaiters
       ELSE /\ req' = [req EXCEPT ![r] = "idle", ![Head(apiWaiters)] = "woken"]
            /\ micro' = Append(rest, Head(apiWaiters))
            /\ apiWaiters' = Tail(apiWaiters)

-----------------------------------------------------------------------------
(* Tasks                                                                    *)

\* A component calls the API from a task of its own.
Call(r) ==
    /\ micro = <<>> /\ req[r] = "idle"
    /\ apiAcquire(r, <<>>)
    /\ UNCHANGED aborted

\* The network answers a request, or refuses it.
Fetched(r) ==
    /\ micro = <<>> /\ req[r] = "fetching"
    /\ req' = [req EXCEPT ![r] = "settled"]
    /\ micro' = <<r>>
    /\ UNCHANGED <<apiInFlight, apiWaiters, aborted, overtaken>>

(* A page is left or a search superseded: the signals of some requests are  *)
(* aborted, which settles those that are being fetched, and promises that   *)
(* the same task resolves call the API from their callbacks.                *)
Abort(A, C) ==
    /\ micro = <<>> /\ A # {}
    /\ A \subseteq (In({"waiting", "fetching"}) \ aborted) /\ C \subseteq In({"idle"})
    /\ aborted' = aborted \union A
    /\ req' = [r \in Requests |->
                 IF r \in A /\ req[r] = "fetching" THEN "settled"
                 ELSE IF r \in C THEN "called" ELSE req[r]]
    /\ micro' \in SetToSeqs(C \union {r \in A : req[r] = "fetching"})
    /\ UNCHANGED <<apiInFlight, apiWaiters, overtaken>>

Task == \/ \E r \in Requests : Call(r) \/ Fetched(r)
        \/ \E A, C \in SUBSET Requests : Abort(A, C)

-----------------------------------------------------------------------------
(* The first microtask runs                                                 *)

RunCall ==
    /\ micro # <<>> /\ req[Head(micro)] = "called"
    /\ apiAcquire(Head(micro), Tail(micro))
    /\ UNCHANGED aborted

RunWoken ==
    /\ micro # <<>> /\ req[Head(micro)] = "woken"
    /\ Admitted(Head(micro), Tail(micro))
    /\ UNCHANGED <<apiWaiters, aborted, overtaken>>

\* gatedFetch's finally block.
RunSettled ==
    /\ micro # <<>> /\ req[Head(micro)] = "settled"
    /\ apiRelease(Head(micro), Tail(micro))
    /\ aborted' = aborted \ {Head(micro)}
    /\ UNCHANGED overtaken

GateNext == Task \/ RunCall \/ RunWoken \/ RunSettled

GateSpec == GateInit /\ [][GateNext]_gateVars

-----------------------------------------------------------------------------
(* Properties                                                               *)

\* The counter, which several microtasks change, is the number of requests that
\* hold a slot: none is leaked by an error or an abort and none is given twice.
CountsHolders == apiInFlight = Cardinality(Holders)

\* Nobody waits behind a free slot: while there is a waiter, the requests that
\* hold a slot or were promised one fill the gate.
NoWaiterStranded == apiWaiters # <<>> => Cardinality(Busy) >= Limit

\* The gate lets more than API_MAX_CONCURRENT requests through only after a call
\* made from a microtask has overtaken a request that had been woken.
LimitKept == ~overtaken => Cardinality(Busy) <= Limit
=============================================================================
