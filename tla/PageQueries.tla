---------------------------- MODULE PageQueries ----------------------------
(***************************************************************************)
(* One query of the console's cache (react-query as App.tsx configures it)  *)
(* and the pages that show it or change what it tells: pages are opened and *)
(* left, requests cancelled and joined, and mutations applied by the server *)
(* and answered, of which several may be on their way.                      *)
(*                                                                         *)
(* An answer is abstracted to whether it knows of every change, a mutation  *)
(* to what it does to the query.  This tab makes all the changes.  Some     *)
(* queries are answered through the API's response cache in Redis, which is *)
(* shared with everybody else and forgets only with time, and some facts    *)
(* are kept in the platform KV, whose copy in Redis may be an older one     *)
(* (PlatformKVHot).                                                         *)
(***************************************************************************)
CONSTANTS
    Panels,     \* the pages' panels: what they read and what their mutations do
    Forgotten,  \* the mutations <<<<panel, name>>, query>> that leave the query behind
    Cached,     \* the queries that the API's response cache answers
    Hot,        \* the facts that are kept in the platform KV
    Slots       \* bound for TLC: mutations on their way

Pages == DOMAIN Panels
Queries == UNION {DOMAIN Panels[p].reads : p \in Pages}

\* The facts that a query tells, on whichever page shows it.
Told == [q \in Queries |-> UNION {Panels[p].reads[q] :
                                   p \in {r \in Pages : q \in DOMAIN Panels[r].reads}}]

\* The mutation changes a fact that the query tells.
Changes(p, name, q) == Panels[p].does[name].writes \cap Told[q] # {}

Outdated == [p \in Pages |-> [name \in DOMAIN Panels[p].does |->
                                {q \in Queries : Changes(p, name, q)}]]

\* A mutation refreshes every query that tells what it has changed, or is known not to.
ASSUME PanelsRefresh ==
    \A p \in Pages : \A name \in DOMAIN Panels[p].does : \A q \in Queries :
      Changes(p, name, q) =>
        q \in Panels[p].does[name].refreshes \/ <<<<p, name>>, q>> \in Forgotten

VARIABLES
    query,      \* the query that is watched; it never changes
    page,       \* the page that is open
    seen,       \* the query's data: none, or does it know of every change?
    invalid,    \* is the data invalidated, or too old?
    fetchOf,    \* the request: not there, asked, or what its answer will be
    mutation,   \* the mutation in each slot
    kept,       \* what the response cache has for the query, or is about to get
    leftBehind  \* history: has something happened that may leave the data behind?

pageVars == <<query, page, seen, invalid, fetchOf, mutation, kept, leftBehind>>

Elsewhere == "elsewhere"
NoMutation == [at |-> "none"]

(* What a panel's mutation does to the query.                               *)
Effect(p, name) ==
    [at |-> "asked",
     changes |-> query \in Outdated[p][name],
     refreshes |-> query \in Panels[p].does[name].refreshes,
     forgotten |-> <<<<p, name>>, query>> \in Forgotten]

PageTypeOK ==
    /\ query \in Queries
    /\ page \in Pages \union {Elsewhere}
    /\ seen \in {"none", "current", "behind"}
    /\ invalid \in BOOLEAN
    /\ fetchOf \in {"none", "asked", "current", "behind"}
    /\ mutation \in [Slots -> {NoMutation}
                       \union [at : {"asked", "applied"}, changes : BOOLEAN,
                               refreshes : BOOLEAN, forgotten : BOOLEAN]]
    /\ kept \in {"none", "current", "behind"}
    /\ leftBehind \in BOOLEAN

PageInit ==
    /\ query \in Queries
    /\ page = Elsewhere
    /\ seen = "none" /\ invalid = FALSE /\ fetchOf = "none"
    /\ mutation = [s \in Slots |-> NoMutation]
    /\ kept = "none"
    /\ leftBehind = FALSE

-----------------------------------------------------------------------------
Shows(p) == p # Elsewhere /\ query \in DOMAIN Panels[p].reads
Observed == Shows(page)

\* The pages that neither show the query nor change or refresh it are all elsewhere.
Concerns(p) ==
    Shows(p) \/ \E name \in DOMAIN Panels[p].does :
                  query \in Outdated[p][name] \union Panels[p].does[name].refreshes

\* Mutant: a mount does not ask when there are data, however old.
OpenPageAsItWas(p) ==
    /\ page = Elsewhere /\ Concerns(p)
    /\ page' = p
    /\ fetchOf' = IF Shows(p) /\ fetchOf = "none" /\ seen = "none" THEN "asked" ELSE fetchOf
    /\ UNCHANGED <<query, seen, invalid, mutation, kept, leftBehind>>

\* A mount asks when there are no data or old ones, and joins a request on its way.
OpenPage(p) ==
    /\ page = Elsewhere /\ Concerns(p)
    /\ page' = p
    /\ fetchOf' = IF Shows(p) /\ fetchOf = "none" /\ (seen = "none" \/ invalid)
                  THEN "asked" ELSE fetchOf
    /\ UNCHANGED <<query, seen, invalid, mutation, kept, leftBehind>>

\* The request is cancelled if the query's function uses its signal.
LeavePage ==
    /\ page # Elsewhere
    /\ page' = Elsewhere
    /\ fetchOf' \in IF Observed THEN {fetchOf, "none"} ELSE {fetchOf}
    /\ UNCHANGED <<query, seen, invalid, mutation, kept, leftBehind>>

\* The handler answers, and the middleware keeps what it has said after that.  An answer
\* that is still to be kept counts as kept: whatever the entry, a request may find Redis
\* without it, or not find Redis.
ServeQuery ==
    /\ fetchOf = "asked"
    /\ fetchOf' = "current"
    /\ kept' \in IF query \in Cached THEN {kept, "current"} ELSE {kept}
    /\ UNCHANGED <<query, page, seen, invalid, mutation, leftBehind>>

\* The handler answers with a fact of the platform KV, of which Redis has an older copy, or
\* which could not be read and is taken for empty.
ServeOldCopy ==
    /\ fetchOf = "asked" /\ Told[query] \cap Hot # {}
    /\ fetchOf' = "behind"
    /\ kept' \in IF query \in Cached THEN {kept, "behind"} ELSE {kept}
    /\ leftBehind' = TRUE
    /\ UNCHANGED <<query, page, seen, invalid, mutation>>

\* The middleware answers with what it has kept.
ServeKept ==
    /\ fetchOf = "asked" /\ kept # "none"
    /\ fetchOf' = kept
    /\ leftBehind' = (leftBehind \/ kept = "behind")
    /\ UNCHANGED <<query, page, seen, invalid, mutation, kept>>

\* Another user with this user's role asks the same, in whatever pod.
ServeElsewhere ==
    /\ query \in Cached
    /\ kept' = "current"
    /\ UNCHANGED <<query, page, seen, invalid, fetchOf, mutation, leftBehind>>

ExpireKept ==
    /\ kept # "none"
    /\ kept' = "none"
    /\ UNCHANGED <<query, page, seen, invalid, fetchOf, mutation, leftBehind>>

QueryAnswer ==
    /\ fetchOf \in {"current", "behind"}
    /\ seen' = fetchOf /\ invalid' = FALSE
    /\ fetchOf' = "none"
    /\ leftBehind' = (leftBehind /\ fetchOf = "behind")
    /\ UNCHANGED <<query, page, mutation, kept>>

QueryFails ==
    /\ fetchOf # "none"
    /\ fetchOf' = "none"
    /\ leftBehind' = TRUE
    /\ UNCHANGED <<query, page, seen, invalid, mutation, kept>>

\* The time of staleTime has passed.
GrowOld ==
    /\ seen # "none" /\ ~invalid
    /\ invalid' = TRUE
    /\ UNCHANGED <<query, page, seen, fetchOf, mutation, kept, leftBehind>>

\* A poll, or the page's own button.
Refetch ==
    /\ Observed /\ fetchOf = "none"
    /\ fetchOf' = "asked"
    /\ UNCHANGED <<query, page, seen, invalid, mutation, kept, leftBehind>>

\* gcTime: data that nobody shows are dropped.
Collect ==
    /\ ~Observed /\ fetchOf = "none" /\ seen # "none"
    /\ seen' = "none" /\ invalid' = FALSE /\ leftBehind' = FALSE
    /\ UNCHANGED <<query, page, fetchOf, mutation, kept>>

-----------------------------------------------------------------------------
(* Mutations                                                                *)

Mutate(s, name) ==
    /\ mutation[s] = NoMutation
    /\ mutation' = [mutation EXCEPT ![s] = Effect(page, name)]
    /\ mutation'[s].changes \/ mutation'[s].refreshes
    /\ UNCHANGED <<query, page, seen, invalid, fetchOf, kept, leftBehind>>

Behind(answer) == IF answer = "current" THEN "behind" ELSE answer

\* The server makes the change.
ApplyMutation(s) ==
    /\ mutation[s].at = "asked"
    /\ mutation' = [mutation EXCEPT ![s].at = "applied"]
    /\ IF mutation[s].changes
       THEN seen' = Behind(seen) /\ fetchOf' = Behind(fetchOf) /\ kept' = Behind(kept)
       ELSE UNCHANGED <<seen, fetchOf, kept>>
    /\ leftBehind' = (leftBehind \/ (mutation[s].changes /\ mutation[s].forgotten))
    /\ UNCHANGED <<query, page, invalid>>

\* The server refuses, or an answer gets lost after the change has been made.
MutationFails(s) ==
    /\ mutation[s] # NoMutation
    /\ mutation' = [mutation EXCEPT ![s] = NoMutation]
    /\ leftBehind' = (leftBehind \/ mutation[s].at = "applied")
    /\ UNCHANGED <<query, page, seen, invalid, fetchOf, kept>>

\* invalidateQueries: a query that is shown asks again and drops the request it had, unless
\* it loads for the first time; one that is not shown asks when it is.
Invalidate ==
    /\ invalid' = (seen # "none" \/ fetchOf # "none")
    /\ fetchOf' = IF Observed /\ ~(seen = "none" /\ fetchOf # "none") THEN "asked" ELSE fetchOf
    /\ leftBehind' = (leftBehind \/ fetchOf' = "behind")

\* onSuccess runs whether its page is still there or not.
MutationSucceeds(s) ==
    /\ mutation[s].at = "applied"
    /\ mutation' = [mutation EXCEPT ![s] = NoMutation]
    /\ IF mutation[s].refreshes THEN Invalidate ELSE UNCHANGED <<invalid, fetchOf, leftBehind>>
    /\ UNCHANGED <<query, page, seen, kept>>

PageNext ==
    \/ \E p \in Pages : OpenPage(p)
    \/ ServeQuery \/ ServeOldCopy \/ ServeKept \/ ServeElsewhere \/ ExpireKept
    \/ LeavePage \/ QueryAnswer \/ QueryFails \/ GrowOld \/ Refetch \/ Collect
    \/ \E s \in Slots :
         \/ \E p \in {page} \ {Elsewhere} : \E name \in DOMAIN Panels[p].does : Mutate(s, name)
         \/ ApplyMutation(s) \/ MutationFails(s) \/ MutationSucceeds(s)

PageSpec == PageInit /\ [][PageNext]_pageVars

-----------------------------------------------------------------------------
(* Properties                                                               *)

Idle == \A s \in Slots : mutation[s] = NoMutation

\* When nothing is on its way, the page that is open shows what its mutations and those
\* of the other pages have done, unless a request failed, a mutation's answer was lost,
\* a refresh joined a request that was answered before the change, the API answered from
\* its response cache or from an older copy of the platform KV, or the mutation is one of
\* those known to leave the query behind.
PageIsCurrent == Observed /\ fetchOf = "none" /\ Idle /\ ~leftBehind => seen # "behind"
=============================================================================
