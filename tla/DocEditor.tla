----------------------------- MODULE DocEditor -----------------------------
(***************************************************************************)
(* Editing documents in one tab (md-editor/EditorContainer.tsx with the     *)
(* drawing pane DocExcalidrawPane.tsx) over the documents API and its Redis *)
(* cache (docs_handlers.go, docs_cache.go).  The editor keeps one body for  *)
(* whatever document the route names, and takes it from the query of that   *)
(* document each time the query's data changes.                             *)
(*                                                                         *)
(* A body is the set of edits it contains, an edit names the document it    *)
(* was made for; nothing is ever taken out of a body on purpose.  Titles,   *)
(* categories, tags, publication, versions and shares are left out; the tab *)
(* is the only writer, others read.                                         *)
(***************************************************************************)
EXTENDS Naturals, FiniteSets

CONSTANTS
    Docs,
    Drawings,       \* the documents that are drawings
    MaxEdits,       \* bound for TLC: edits
    MaxFills        \* bound for TLC: answers on their way to Redis

ASSUME DocsAssumption == /\ Drawings \subseteq Docs /\ MaxEdits \in Nat /\ MaxFills \in Nat

VARIABLES
    stored,     \* the body of each document in MySQL
    redis,      \* the detail that Redis has of a document: none, or one body
    fills,      \* the answers that are about to be stored in Redis
    route,      \* the document that is open
    body,       \* the editor's body
    detail,     \* the query of each document: none, or the body it holds
    stale,      \* the queries that are stale
    fetch,      \* the open document's request: not there, asked, or answered
    contentKind,    \* what the editor takes the document for
    scene,      \* the drawing pane's canvas: no pane, or what is on it
    drawn,      \* the pane's debounce: nothing, or the body it will set
    timers,     \* the debounces of panes that are gone
    save,       \* the save in progress
    edits,      \* bound: the edits made
    hasty,      \* history: a save, a pane or its timer met another body than the document's
    behind      \* history: a cache was left behind MySQL

pane == <<contentKind, scene, drawn, timers>>
docVars == <<stored, redis, fills, route, body, detail, stale, fetch, pane, save, edits,
             hasty, behind>>
tabVars == <<route, body, detail, stale, fetch, pane, save>>

Edits == Docs \X (0..MaxEdits)
Bodies == SUBSET Edits
MaybeBody == {{}} \union {{b} : b \in Bodies}
The(s) == CHOOSE x \in s : TRUE
NoSave == [at |-> "none"]
Fetches == {[at |-> "none"], [at |-> "asked"]} \union [at : {"answered"}, body : Bodies]
Saves == {NoSave} \union [at : {"asked", "written", "unchanged", "answered"},
                         doc : Docs, body : Bodies]

DocsTypeOK ==
    /\ stored \in [Docs -> Bodies]
    /\ redis \in [Docs -> MaybeBody] /\ detail \in [Docs -> MaybeBody]
    /\ fills \subseteq Docs \X Bodies
    /\ route \in Docs /\ body \in Bodies /\ stale \subseteq Docs
    /\ fetch \in Fetches /\ save \in Saves
    /\ contentKind \in {"markdown", "excalidraw"}
    /\ scene \in MaybeBody /\ drawn \in MaybeBody /\ timers \subseteq Bodies
    /\ edits \in 0..MaxEdits /\ hasty \in BOOLEAN /\ behind \in BOOLEAN

DocsInit ==
    /\ stored = [d \in Docs |-> {<<d, 0>>}]
    /\ redis = [d \in Docs |-> {}] /\ fills = {}
    /\ \E d \in Docs : route = d
    /\ body = {} /\ detail = [d \in Docs |-> {}] /\ stale = {}
    /\ fetch = [at |-> "asked"]
    /\ contentKind = "markdown" /\ scene = {} /\ drawn = {} /\ timers = {}
    /\ save = NoSave /\ edits = 0
    /\ hasty = FALSE /\ behind = FALSE

-----------------------------------------------------------------------------
(* The server                                                               *)

\* docsGet: what Redis has, or MySQL's row, which is stored in Redis later on.
docsGet(d, Reply(_)) ==
    \/ redis[d] # {} /\ Reply(The(redis[d])) /\ UNCHANGED fills
    \/ /\ redis[d] = {} /\ Cardinality(fills) < MaxFills
       /\ Reply(stored[d])
       /\ fills' = fills \union {<<d, stored[d]>>}

StoreDetailCache(f) ==
    /\ f \in fills
    /\ redis' = [redis EXCEPT ![f[1]] = {f[2]}]
    /\ fills' = fills \ {f}
    /\ behind' = (behind \/ f[2] # stored[f[1]])
    /\ UNCHANGED <<stored, tabVars, edits, hasty>>

\* The cached detail reaches its time to live.
ExpireDetailCache(d) ==
    /\ redis[d] # {}
    /\ redis' = [redis EXCEPT ![d] = {}]
    /\ UNCHANGED <<stored, fills, tabVars, edits, hasty, behind>>

\* Somebody else reads the document.
VisitorGet(d) ==
    /\ docsGet(d, LAMBDA b : TRUE)
    /\ UNCHANGED <<stored, redis, tabVars, edits, hasty, behind>>

-----------------------------------------------------------------------------
(* The query of the open document                                           *)

\* Mutant: a body that is there is not replaced by the data of the query.
LoadEmptyBody(data) == body' = IF data = {} \/ body # {} THEN body ELSE The(data)

\* The effect on detailQ.data.
LoadBody(data) == body' = IF data = {} THEN body ELSE The(data)

KindOf(d) == IF d \in Drawings THEN "excalidraw" ELSE "markdown"

\* The pane goes, and its timer stays: with the body the pane had last, it does nothing.
PaneGoes == drawn' = {} /\ timers' = timers \union (drawn \ {body})

\* The data of the open document change.  The first render has the body and the kind of
\* before, and its effect sets both: a pane that the first one shows is mounted with the
\* body of before, and whether Excalidraw reads that or the new one is its own matter.
ShowData(d, data) ==
    /\ LoadBody(data)
    /\ contentKind' = IF data = {} THEN contentKind ELSE KindOf(d)
    /\ PaneGoes
    /\ IF data = {} \/ d \notin Drawings THEN scene' = {}
       ELSE scene' = {body'} \/ (contentKind = "excalidraw" /\ scene' = {body})
    /\ hasty' = (hasty \/ scene' \notin {{}, {body'}})

\* A query asks when it has no data or stale data; its owner's leaving aborts it.
Observe(d) == fetch' = IF detail[d] = {} \/ d \in stale THEN [at |-> "asked"] ELSE [at |-> "none"]

\* The route names another document.
OpenDoc(d) ==
    /\ d # route
    /\ route' = d
    /\ ShowData(d, detail[d])
    /\ Observe(d)
    /\ UNCHANGED <<stored, redis, fills, detail, stale, save, edits, behind>>

\* A minute passes.
BecomeStale(d) ==
    /\ detail[d] # {} /\ d \notin stale
    /\ stale' = stale \union {d}
    /\ UNCHANGED <<stored, redis, fills, route, body, detail, fetch, pane, save, edits,
                   hasty, behind>>

ServeDetail ==
    /\ fetch.at = "asked"
    /\ docsGet(route, LAMBDA b : fetch' = [at |-> "answered", body |-> b])
    /\ UNCHANGED <<stored, redis, route, body, detail, stale, pane, save, edits, hasty, behind>>

\* Data that equals what the query had is not a change.
DetailAnswer ==
    /\ fetch.at = "answered"
    /\ LET data == {fetch.body} IN
         /\ detail' = [detail EXCEPT ![route] = data]
         /\ IF data = detail[route] THEN UNCHANGED <<body, pane, hasty>> ELSE ShowData(route, data)
    /\ fetch' = [at |-> "none"] /\ stale' = stale \ {route}
    /\ UNCHANGED <<stored, redis, fills, route, save, edits, behind>>

\* Both tries failed: the editor or the pane shows again, with the body there is.
DetailFails ==
    /\ fetch.at # "none"
    /\ fetch' = [at |-> "none"]
    /\ scene' = IF detail[route] = {} /\ contentKind = "excalidraw" THEN {body} ELSE scene
    /\ behind' = (behind \/ (detail[route] # {} /\ detail[route] # {stored[route]}))
    /\ UNCHANGED <<stored, redis, fills, route, body, detail, stale, contentKind, drawn, timers,
                   save, edits, hasty>>

-----------------------------------------------------------------------------
(* Editing and saving                                                       *)

isLoading == detail[route] = {} /\ fetch.at # "none"

Type ==
    /\ contentKind = "markdown" /\ ~isLoading /\ edits < MaxEdits
    /\ edits' = edits + 1
    /\ body' = body \union {<<route, edits + 1>>}
    /\ UNCHANGED <<stored, redis, fills, route, detail, stale, fetch, pane, save, hasty, behind>>

\* The pane tells what is on its canvas after each stroke, after its mounting and at any
\* change of its view; the body has it when the pane has been quiet for 450 ms.
Draw ==
    /\ scene # {}
    /\ \/ /\ edits < MaxEdits /\ edits' = edits + 1
          /\ scene' = {The(scene) \union {<<route, edits + 1>>}}
       \/ UNCHANGED <<edits, scene>>
    /\ drawn' = scene'
    /\ UNCHANGED <<stored, redis, fills, route, body, detail, stale, fetch, contentKind, timers,
                   save, hasty, behind>>

DebounceTimer ==
    /\ drawn # {}
    /\ body' = The(drawn) /\ drawn' = {}
    /\ UNCHANGED <<stored, redis, fills, route, detail, stale, fetch, contentKind, scene, timers,
                   save, edits, hasty, behind>>

\* The timer of a pane that is gone sets the body of whatever document is open.
LateTimer(b) ==
    /\ b \in timers
    /\ body' = b /\ timers' = timers \ {b}
    /\ hasty' = (hasty \/ b # body)
    /\ UNCHANGED <<stored, redis, fills, route, detail, stale, fetch, contentKind, scene, drawn,
                   save, edits, behind>>

\* The button and Ctrl+S ask only that a document is open and no save pending.
SaveDoc ==
    /\ save.at = "none"
    /\ save' = [at |-> "asked", doc |-> route, body |-> body]
    /\ hasty' = (hasty \/ detail[route] = {} \/ fetch.at # "none")
    /\ UNCHANGED <<stored, redis, fills, route, body, detail, stale, fetch, pane, edits, behind>>

\* docsUpdate compares with the row and writes it, ...
docsUpdate ==
    /\ save.at = "asked"
    /\ stored' = [stored EXCEPT ![save.doc] = save.body]
    /\ save' = [save EXCEPT !.at = IF stored[save.doc] = save.body THEN "unchanged" ELSE "written"]
    /\ UNCHANGED <<redis, fills, route, body, detail, stale, fetch, pane, edits, hasty, behind>>

\* Mutant: the cached detail is left to its time to live.
NoBump == redis' = redis

\* ... and then removes the cached detail.
docsBumpDocsAPICache == redis' = [redis EXCEPT ![save.doc] = {}]

DocBumped ==
    /\ save.at = "written"
    /\ docsBumpDocsAPICache
    /\ save' = [save EXCEPT !.at = "answered"]
    /\ UNCHANGED <<stored, fills, route, body, detail, stale, fetch, pane, edits, hasty, behind>>

\* Redis fails, which is ignored.
BumpFails ==
    /\ save.at = "written"
    /\ save' = [save EXCEPT !.at = "answered"]
    /\ behind' = (behind \/ redis[save.doc] # {})
    /\ UNCHANGED <<stored, redis, fills, route, body, detail, stale, fetch, pane, edits, hasty>>

\* The tags or the version cannot be written: an error, and the cache is as it was.
docsUpdateFails ==
    /\ save.at = "written"
    /\ save' = NoSave
    /\ behind' = TRUE
    /\ UNCHANGED <<stored, redis, fills, route, body, detail, stale, fetch, pane, edits, hasty>>

DocUnchanged ==
    /\ save.at = "unchanged"
    /\ save' = NoSave
    /\ UNCHANGED <<stored, redis, fills, route, body, detail, stale, fetch, pane, edits, hasty,
                   behind>>

\* onSuccess is the last render's: it invalidates the query of the document that is open
\* now.  A query with data starts over, one that loads for the first time goes on, and one
\* that has failed to loads again, in the place of the editor or the pane.
DocSaved ==
    /\ save.at = "answered"
    /\ save' = NoSave
    /\ stale' = IF detail[route] = {} THEN stale ELSE stale \union {route}
    /\ fetch' = IF detail[route] = {} /\ fetch.at # "none" THEN fetch ELSE [at |-> "asked"]
    /\ IF detail[route] = {} THEN scene' = {} /\ PaneGoes ELSE UNCHANGED <<scene, drawn, timers>>
    /\ behind' = (behind \/ save.doc # route)
    /\ UNCHANGED <<stored, redis, fills, route, body, detail, contentKind, edits, hasty>>

DocsNext ==
    \/ \E d \in Docs : OpenDoc(d) \/ BecomeStale(d) \/ ExpireDetailCache(d) \/ VisitorGet(d)
    \/ \E f \in fills : StoreDetailCache(f)
    \/ ServeDetail \/ DetailAnswer \/ DetailFails
    \/ Type \/ Draw \/ DebounceTimer \/ \E b \in timers : LateTimer(b)
    \/ SaveDoc \/ docsUpdate \/ DocBumped \/ BumpFails \/ docsUpdateFails \/ DocUnchanged \/ DocSaved

DocsSpec == DocsInit /\ [][DocsNext]_docVars

-----------------------------------------------------------------------------
(* Properties                                                               *)

\* No document is overwritten with another one's body: the row of a document holds
\* nothing but edits made for it.  Excepted is a save made while the document was being
\* fetched, a drawing whose pane read the body of before, and a drawing's timer that came
\* after its pane had gone.
BodyIsOwn == ~hasty => \A d \in Docs : stored[d] \subseteq {d} \X Nat

\* A save never takes back what an earlier save of the same tab had stored, unless a
\* cache was left behind the row.
SavesAddUp ==
    [][hasty' \/ behind' \/ \A d \in Docs : stored[d] \subseteq stored'[d]]_docVars
=============================================================================
