---------------------------- MODULE BrowserProofs ----------------------------
(* Theorems about PageQueries for every table of panels whose mutations     *)
(* refresh what they change or are listed as forgotten, and for any number  *)
(* of mutations on their way; about DocEditor for any documents, edits and  *)
(* answers on their way to Redis; and about BrowserSpec, in which a         *)
(* behaviour is one of the browser's parts.                                 *)
EXTENDS MCBrowser, ApiProofs, VmViewProofs, TLAPS

(* A change the server has made whose refresh is still to come.             *)
Pending ==
    \E s \in Slots : mutation[s].at = "applied" /\ mutation[s].changes /\ mutation[s].refreshes

(* Old data are either about to be refreshed or known to be old, and then a *)
(* page that shows them has asked; an answer that missed a change is only   *)
(* on its way while that change's refresh is still to come.                 *)
RefreshInv ==
    ~leftBehind =>
      /\ seen = "behind" =>
           Pending \/ (invalid /\ (Observed => fetchOf \in {"asked", "current"}))
      /\ fetchOf = "behind" => Pending

MutationInv ==
    \A s \in Slots : mutation[s] # NoMutation /\ mutation[s].changes /\ ~mutation[s].forgotten
                       => mutation[s].refreshes

PageInv == PageTypeOK /\ MutationInv /\ RefreshInv

Records == [at : {"asked", "applied"}, changes : BOOLEAN, refreshes : BOOLEAN,
            forgotten : BOOLEAN]

\* A mutation that changes the query and is not listed as forgotten refreshes it.
LEMMA EffectGood ==
  ASSUME query \in Queries, NEW p \in Pages, NEW name \in DOMAIN Panels[p].does
  PROVE  /\ Effect(p, name) \in Records /\ Effect(p, name).at = "asked"
         /\ Effect(p, name).changes /\ ~Effect(p, name).forgotten => Effect(p, name).refreshes
<1>1. Outdated[p][name] = {q \in Queries : Changes(p, name, q)}
  BY Zenon DEF Outdated
<1>2. query \in Outdated[p][name] =>
        query \in Panels[p].does[name].refreshes \/ <<<<p, name>>, query>> \in Forgotten
  BY <1>1, PanelsRefresh
<1>3. /\ (query \in Outdated[p][name]) \in BOOLEAN
      /\ (query \in Panels[p].does[name].refreshes) \in BOOLEAN
      /\ (<<<<p, name>>, query>> \in Forgotten) \in BOOLEAN
  OBVIOUS
<1>4. Effect(p, name) \in Records
  BY <1>3, Zenon DEF Effect, Records
<1>5. QED
  BY <1>2, <1>4 DEF Effect

\* A slot is free or holds the record of a mutation.
LEMMA SlotTypes ==
  ASSUME PageTypeOK, NEW s \in Slots
  PROVE  mutation[s] = NoMutation \/ mutation[s] \in Records
  BY DEF PageTypeOK, Records

\* A free slot is neither asked nor applied.
LEMMA NotPending == NoMutation.at # "applied" /\ NoMutation.at # "asked"
  BY DEF NoMutation

-----------------------------------------------------------------------------
(* Steps that touch no mutation                                             *)

\* A step that touches no mutation has only the refreshes to keep.
LEMMA QueryStep ==
  ASSUME PageInv, UNCHANGED <<query, mutation>>, PageTypeOK', RefreshInv'
  PROVE  PageInv'
  BY DEF PageInv, MutationInv

\* Opening a page asks again for data that are known to be old.
LEMMA OpenStep ==
  ASSUME PageInv, NEW p \in Pages, OpenPage(p)
  PROVE  PageInv'
<1>1. PageTypeOK'
  BY DEF PageInv, PageTypeOK, OpenPage
<1>2. Pending' = Pending
  BY DEF OpenPage, Pending
<1>3. RefreshInv'
  BY <1>2 DEF PageInv, PageTypeOK, RefreshInv, OpenPage, Observed, Shows, Elsewhere
<1>4. QED
  BY <1>1, <1>3, QueryStep DEF OpenPage

\* A page that is left observes nothing.
LEMMA LeaveStep ==
  ASSUME PageInv, LeavePage
  PROVE  PageInv'
<1>1. PageTypeOK'
  BY DEF PageInv, PageTypeOK, LeavePage
<1>2. Pending' = Pending
  BY DEF LeavePage, Pending
<1>3. ~Observed'
  BY DEF LeavePage, Observed, Shows
<1>4. RefreshInv'
  BY <1>2, <1>3 DEF PageInv, RefreshInv, LeavePage
<1>5. QED
  BY <1>1, <1>4, QueryStep DEF LeavePage

ServeStep == ServeQuery \/ ServeOldCopy \/ ServeKept \/ ServeElsewhere \/ ExpireKept

\* An answer, a failure or a new request shows no older data than the invariant allows.
LEMMA FetchStep ==
  ASSUME PageInv, ServeStep \/ QueryAnswer \/ QueryFails \/ GrowOld \/ Refetch \/ Collect
  PROVE  PageInv'
<1>u. UNCHANGED <<query, page, mutation>>
  BY DEF ServeStep, ServeQuery, ServeOldCopy, ServeKept, ServeElsewhere, ExpireKept,
         QueryAnswer, QueryFails, GrowOld, Refetch, Collect
<1>1. PageTypeOK'
  BY <1>u DEF PageInv, PageTypeOK, ServeStep, ServeQuery, ServeOldCopy, ServeKept,
              ServeElsewhere, ExpireKept, QueryAnswer, QueryFails, GrowOld, Refetch, Collect
<1>2. Pending' = Pending /\ Observed' = Observed
  BY <1>u DEF Pending, Observed, Shows
<1>3. RefreshInv'
  <2>1. CASE ServeStep
    BY <2>1, <1>2 DEF PageInv, PageTypeOK, RefreshInv, ServeStep, ServeQuery, ServeOldCopy,
                      ServeKept, ServeElsewhere, ExpireKept
  <2>2. CASE QueryAnswer
    BY <2>2, <1>2 DEF PageInv, RefreshInv, QueryAnswer
  <2>3. CASE QueryFails
    BY <2>3 DEF RefreshInv, QueryFails
  <2>4. CASE GrowOld
    BY <2>4, <1>2 DEF PageInv, RefreshInv, GrowOld
  <2>5. CASE Refetch
    BY <2>5, <1>2 DEF PageInv, RefreshInv, Refetch
  <2>6. CASE Collect
    BY <2>6, <1>2 DEF PageInv, RefreshInv, Collect
  <2>7. QED
    BY <2>1, <2>2, <2>3, <2>4, <2>5, <2>6
<1>4. QED
  BY <1>u, <1>1, <1>3, QueryStep

-----------------------------------------------------------------------------
(* Steps of a mutation                                                      *)

\* A mutation that is asked for changes nothing yet.
LEMMA MutateStep ==
  ASSUME PageInv, NEW s \in Slots, NEW p \in Pages, p = page,
         NEW name \in DOMAIN Panels[p].does, Mutate(s, name)
  PROVE  PageInv'
<1>1. /\ mutation' = [mutation EXCEPT ![s] = Effect(p, name)]
      /\ UNCHANGED <<query, page, seen, invalid, fetchOf, kept, leftBehind>>
  BY DEF Mutate
<1>2. /\ Effect(p, name) \in Records /\ Effect(p, name).at = "asked"
      /\ Effect(p, name).changes /\ ~Effect(p, name).forgotten => Effect(p, name).refreshes
  BY EffectGood DEF PageInv, PageTypeOK
<1>3. PageTypeOK'
  BY <1>1, <1>2 DEF PageInv, PageTypeOK, Records
<1>4. MutationInv'
  BY <1>1, <1>2 DEF PageInv, PageTypeOK, MutationInv
<1>5. Pending => Pending'
  <2> SUFFICES ASSUME NEW t \in Slots,
                      mutation[t].at = "applied", mutation[t].changes, mutation[t].refreshes
               PROVE  Pending'
    BY DEF Pending
  <2>1. t # s
    BY NotPending DEF Mutate
  <2>2. QED
    BY <2>1, <1>1 DEF Pending, PageInv, PageTypeOK
<1>6. RefreshInv'
  BY <1>1, <1>5 DEF PageInv, RefreshInv, Observed, Shows
<1>7. QED
  BY <1>3, <1>4, <1>6 DEF PageInv

\* The server's change makes old what was read before it, and its refresh is to come.
LEMMA ApplyStep ==
  ASSUME PageInv, NEW s \in Slots, ApplyMutation(s)
  PROVE  PageInv'
<1>1. /\ mutation' = [mutation EXCEPT ![s].at = "applied"] /\ mutation[s].at = "asked"
      /\ UNCHANGED <<query, page, invalid>>
      /\ leftBehind' = (leftBehind \/ (mutation[s].changes /\ mutation[s].forgotten))
  BY DEF ApplyMutation
<1>2. mutation[s] \in Records
  BY <1>1, SlotTypes, NotPending DEF PageInv
<1>3. /\ mutation'[s] \in Records /\ mutation'[s].at = "applied"
      /\ mutation'[s].changes = mutation[s].changes
      /\ mutation'[s].refreshes = mutation[s].refreshes
      /\ mutation'[s].forgotten = mutation[s].forgotten
      /\ \A t \in Slots : t # s => mutation'[t] = mutation[t]
  BY <1>1, <1>2 DEF PageInv, PageTypeOK, Records
<1>4. PageTypeOK'
  <2>1. /\ seen' \in {"none", "current", "behind"}
        /\ fetchOf' \in {"none", "asked", "current", "behind"}
        /\ kept' \in {"none", "current", "behind"}
    BY DEF PageInv, PageTypeOK, ApplyMutation, Behind
  <2>2. mutation' \in [Slots -> {NoMutation} \union Records]
    BY <1>1, <1>2, <1>3 DEF PageInv, PageTypeOK, Records
  <2>3. leftBehind' \in BOOLEAN
    BY <1>1, <1>2 DEF PageInv, PageTypeOK, Records
  <2>4. QED
    BY <2>1, <2>2, <2>3, <1>1 DEF PageInv, PageTypeOK, Records
<1>5. MutationInv'
  BY <1>2, <1>3 DEF PageInv, MutationInv, NoMutation, Records
<1>6. Pending => Pending'
  <2> SUFFICES ASSUME NEW t \in Slots,
                      mutation[t].at = "applied", mutation[t].changes, mutation[t].refreshes
               PROVE  Pending'
    BY DEF Pending
  <2>1. t # s
    BY <1>1
  <2>2. QED
    BY <2>1, <1>3 DEF Pending
<1>7. RefreshInv'
  <2>1. CASE mutation[s].changes
    <3> SUFFICES ASSUME ~leftBehind' PROVE Pending'
      BY DEF RefreshInv
    <3>1. mutation[s].refreshes
      BY <2>1, <1>1, <1>2, NotPending DEF PageInv, MutationInv
    <3>2. QED
      BY <2>1, <3>1, <1>3 DEF Pending
  <2>2. CASE ~mutation[s].changes
    <3>1. UNCHANGED <<seen, fetchOf>>
      BY <2>2 DEF ApplyMutation
    <3>2. Observed' = Observed
      BY <1>1 DEF Observed, Shows
    <3>3. ~leftBehind' => ~leftBehind
      BY <1>1, Zenon
    <3>4. QED
      BY <3>1, <3>2, <3>3, <1>1, <1>6 DEF PageInv, RefreshInv
  <2>3. QED
    BY <2>1, <2>2
<1>8. QED
  BY <1>4, <1>5, <1>7 DEF PageInv

\* A mutation that fails after its change leaves old data behind, or changed nothing.
LEMMA FailStep ==
  ASSUME PageInv, NEW s \in Slots, MutationFails(s)
  PROVE  PageInv'
<1>1. /\ mutation' = [mutation EXCEPT ![s] = NoMutation] /\ mutation[s] # NoMutation
      /\ leftBehind' = (leftBehind \/ mutation[s].at = "applied")
      /\ UNCHANGED <<query, page, seen, invalid, fetchOf, kept>>
  BY DEF MutationFails
<1>2. PageTypeOK'
  BY <1>1 DEF PageInv, PageTypeOK
<1>3. MutationInv'
  BY <1>1 DEF PageInv, PageTypeOK, MutationInv
<1>4. mutation[s].at = "applied" \/ (Pending => Pending')
  BY <1>1 DEF Pending, PageInv, PageTypeOK
<1>5. RefreshInv'
  BY <1>1, <1>4 DEF PageInv, RefreshInv, Observed, Shows
<1>6. QED
  BY <1>2, <1>3, <1>5 DEF PageInv

\* A mutation that succeeds makes invalid what it refreshes.
LEMMA SucceedStep ==
  ASSUME PageInv, NEW s \in Slots, MutationSucceeds(s)
  PROVE  PageInv'
<1>1. /\ mutation' = [mutation EXCEPT ![s] = NoMutation]
      /\ UNCHANGED <<query, page, seen, kept>>
      /\ IF mutation[s].refreshes THEN Invalidate ELSE UNCHANGED <<invalid, fetchOf, leftBehind>>
  BY DEF MutationSucceeds
<1>2. PageTypeOK'
  BY <1>1 DEF PageInv, PageTypeOK, Invalidate
<1>3. MutationInv'
  BY <1>1 DEF PageInv, PageTypeOK, MutationInv
<1>4. RefreshInv'
  <2>1. CASE mutation[s].refreshes
    BY <1>1, <2>1 DEF PageInv, PageTypeOK, RefreshInv, Invalidate, Observed, Shows
  <2>2. CASE ~mutation[s].refreshes
    <3>1. Pending => Pending'
      BY <1>1, <2>2 DEF Pending, PageInv, PageTypeOK
    <3>2. QED
      BY <1>1, <2>2, <3>1 DEF PageInv, RefreshInv, Observed, Shows
  <2>3. QED
    BY <2>1, <2>2
<1>5. QED
  BY <1>2, <1>3, <1>4 DEF PageInv

-----------------------------------------------------------------------------
(* What a page that shows old data is waiting for, or why it shows them.    *)
THEOREM PageInvariant == PageSpec => []PageInv
<1>1. PageInit => PageInv
  BY DEF PageInit, PageInv, PageTypeOK, MutationInv, RefreshInv, NoMutation
<1>2. PageInv /\ [PageNext]_pageVars => PageInv'
  <2> SUFFICES ASSUME PageInv, [PageNext]_pageVars PROVE PageInv'
    OBVIOUS
  <2>1. CASE \E p \in Pages : OpenPage(p)
    BY <2>1, OpenStep
  <2>2. CASE LeavePage \/ ServeStep \/ QueryAnswer \/ QueryFails \/ GrowOld \/ Refetch \/ Collect
    BY <2>2, LeaveStep, FetchStep
  <2>3. ASSUME NEW s \in Slots, NEW p \in {page} \ {Elsewhere},
               NEW name \in DOMAIN Panels[p].does, Mutate(s, name)
        PROVE  PageInv'
    <3>1. p \in Pages /\ p = page
      BY DEF PageInv, PageTypeOK
    <3>2. QED
      BY <2>3, <3>1, MutateStep
  <2>4. ASSUME NEW s \in Slots, ApplyMutation(s) \/ MutationFails(s) \/ MutationSucceeds(s)
        PROVE  PageInv'
    BY <2>4, ApplyStep, FailStep, SucceedStep
  <2>5. CASE UNCHANGED pageVars
    BY <2>5 DEF pageVars, PageInv, PageTypeOK, MutationInv, RefreshInv, Pending, Observed, Shows
  <2>6. QED
    BY <2>1, <2>2, <2>3, <2>4, <2>5 DEF PageNext, ServeStep
<1>3. QED
  BY <1>1, <1>2, PTL DEF PageSpec

(* A page with nothing on its way shows every change made by this tab.      *)
THEOREM PageIsCurrentHolds == PageSpec => []PageIsCurrent
<1>1. PageInv => PageIsCurrent
  <2> SUFFICES ASSUME PageInv, Observed, fetchOf = "none", Idle, ~leftBehind
               PROVE  seen # "behind"
    BY DEF PageIsCurrent
  <2>1. ~Pending
    BY NotPending DEF Idle, Pending
  <2>2. QED
    BY <2>1 DEF PageInv, RefreshInv
<1>2. QED
  BY <1>1, PageInvariant, PTL

-----------------------------------------------------------------------------
(* The bodies that contain nothing but edits made for one document.         *)
Own(d) == {b \in Bodies : b \subseteq {d} \X Nat}

(* What the tab, the request, the cache and the row have of a document is   *)
(* its own; the editor's body is the open document's once the query has     *)
(* data, and has at least what the query has, as the pane has of the body.  *)
OwnInv ==
    /\ \A d \in Docs : stored[d] \in Own(d) /\ redis[d] \subseteq Own(d) /\ detail[d] \subseteq Own(d)
    /\ \A g \in fills : g[2] \in Own(g[1])
    /\ fetch.at = "answered" => fetch.body \in Own(route)
    /\ save.at # "none" => save.body \in Own(save.doc) /\ detail[save.doc] # {}
    /\ \A b \in detail[route] : b \subseteq body /\ body \in Own(route)
    /\ detail[route] # {} => \A c \in scene : body \subseteq c /\ c \in Own(route)

(* The save of a document whose answer the tab waits for.                   *)
Late(d) == save.at \in {"written", "answered"} /\ save.doc = d

(* What is older than the row is a cache that the save in progress has yet  *)
(* to clear, or a query that is asked again before it is shown.             *)
FreshInv ==
    /\ \A d \in Docs : redis[d] \subseteq {stored[d]} \/ (save.at = "written" /\ save.doc = d)
    /\ fetch.at = "answered" => fetch.body = stored[route] \/ Late(route)
    /\ \A d \in Docs : \/ detail[d] \subseteq {stored[d]}
                       \/ Late(d)
                       \/ d \in stale /\ (d = route => fetch.at # "none")
    /\ save.at = "asked" => stored[save.doc] \subseteq save.body

(* What the pane's timer will set is what is on its canvas; there is none   *)
(* for a text or while the document is loading.                             *)
DocsTypes ==
    /\ DocsTypeOK
    /\ drawn \subseteq scene
    /\ contentKind = "markdown" \/ (detail[route] = {} /\ fetch.at # "none") => scene = {}

DocsInv == DocsTypes /\ (~hasty => OwnInv) /\ (~hasty /\ ~behind => FreshInv)

\* At most one body: none, or the one it is.
LEMMA MaybeBodies ==
  /\ {} \in MaybeBody
  /\ \A b \in Bodies : {b} \in MaybeBody
  /\ \A s \in MaybeBody : /\ s # {} => The(s) \in Bodies /\ s = {The(s)} /\ The(s) \in s
                           /\ s \subseteq Bodies
<1>1. \A b : The({b}) = b
  BY DEF The
<1>2. QED
  BY <1>1 DEF MaybeBody

\* The states and the bodies of the request and of the save.
LEMMA RequestTypes ==
  ASSUME DocsTypeOK
  PROVE  /\ fetch.at \in {"none", "asked", "answered"}
         /\ fetch.at = "answered" => fetch.body \in Bodies
         /\ save.at \in {"none", "asked", "written", "unchanged", "answered"}
         /\ save.at # "none" => save.doc \in Docs /\ save.body \in Bodies
  BY DEF DocsTypeOK, Fetches, Saves, NoSave

\* At the start the rows have their own bodies, and the tab has none.
LEMMA DocsInitInv == DocsInit => DocsInv
<1> SUFFICES ASSUME DocsInit PROVE DocsInv
  OBVIOUS
<1>1. \A d \in Docs : {<<d, 0>>} \in Own(d)
  BY DocsAssumption DEF Own, Bodies, Edits
<1>2. /\ stored \in [Docs -> Bodies] /\ redis \in [Docs -> MaybeBody]
      /\ detail \in [Docs -> MaybeBody] /\ drawn \in MaybeBody /\ scene \in MaybeBody
  BY <1>1, MaybeBodies DEF DocsInit, Own
<1>3. fetch \in Fetches /\ save \in Saves /\ fetch.at = "asked" /\ save.at = "none"
  BY DEF DocsInit, Fetches, Saves, NoSave
<1>4. edits \in 0..MaxEdits
  BY DocsAssumption DEF DocsInit
<1>5. hasty \in BOOLEAN /\ behind \in BOOLEAN
  BY Zenon DEF DocsInit
<1>6. fills \subseteq Docs \X Bodies /\ route \in Docs /\ body \in Bodies /\ stale \subseteq Docs
      /\ timers \subseteq Bodies /\ contentKind \in {"markdown", "excalidraw"}
  BY DEF DocsInit, Bodies
<1>7. DocsTypes
  BY <1>2, <1>3, <1>4, <1>5, <1>6 DEF DocsTypeOK, DocsTypes, DocsInit, pane
<1>8. OwnInv /\ FreshInv
  BY <1>1, <1>3, <1>6 DEF DocsInit, OwnInv, FreshInv
<1>9. QED
  BY <1>7, <1>8 DEF DocsInv

(* What docsGet answers with is Redis's body or the row.                    *)
LEMMA GetReply ==
  ASSUME DocsTypeOK, ServeDetail
  PROVE  \E b \in Bodies :
           /\ b \in redis[route] \/ b = stored[route]
           /\ fetch' = [at |-> "answered", body |-> b]
           /\ fills' = fills \/ (b = stored[route] /\ fills' = fills \union {<<route, b>>})
<1>1. redis[route] \in MaybeBody /\ stored[route] \in Bodies
  BY DEF DocsTypeOK, pane
<1>2. CASE /\ redis[route] # {} /\ UNCHANGED fills
           /\ fetch' = [at |-> "answered", body |-> The(redis[route])]
  BY <1>1, <1>2, MaybeBodies
<1>3. CASE /\ fetch' = [at |-> "answered", body |-> stored[route]]
           /\ fills' = fills \union {<<route, stored[route]>>}
  BY <1>1, <1>3
<1>4. QED
  BY <1>2, <1>3 DEF ServeDetail, docsGet

\* A visitor's request may read the row and leave a filling of the cache on its way.
LEMMA VisitorReply ==
  ASSUME NEW d \in Docs, VisitorGet(d)
  PROVE  fills' = fills \/ fills' = fills \union {<<d, stored[d]>>}
  BY DEF VisitorGet, docsGet

(* The server's caches.                                                     *)
LEMMA CacheStep ==
  ASSUME DocsInv,
         \/ \E d \in Docs : ExpireDetailCache(d) \/ VisitorGet(d)
         \/ \E g \in fills : StoreDetailCache(g)
  PROVE  DocsInv'
<1> USE DEF DocsInv, DocsTypes
<1>1. UNCHANGED <<stored, tabVars, edits, hasty>>
  BY DEF ExpireDetailCache, VisitorGet, StoreDetailCache
<1>2. ASSUME NEW d \in Docs, ExpireDetailCache(d) PROVE DocsInv'
  <2>1. /\ redis' \in [Docs -> MaybeBody] /\ redis'[d] = {}
        /\ \A e \in Docs : e # d => redis'[e] = redis[e]
        /\ UNCHANGED <<fills, behind>>
    BY <1>2, MaybeBodies DEF ExpireDetailCache, DocsTypeOK
  <2>2. DocsTypes'
    BY <1>1, <2>1 DEF DocsTypeOK, tabVars, pane
  <2>3. ~hasty => OwnInv'
    BY <1>1, <2>1 DEF OwnInv, tabVars, pane
  <2>4. ~hasty /\ ~behind => FreshInv'
    BY <1>1, <2>1 DEF FreshInv, Late, tabVars, pane
  <2>5. QED
    BY <1>1, <2>1, <2>2, <2>3, <2>4
<1>3. ASSUME NEW d \in Docs, VisitorGet(d) PROVE DocsInv'
  <2>1. /\ fills' = fills \/ fills' = fills \union {<<d, stored[d]>>}
        /\ UNCHANGED <<redis, behind>>
    BY <1>3, VisitorReply DEF VisitorGet
  <2>2. DocsTypes'
    BY <1>1, <2>1 DEF DocsTypeOK, tabVars, pane
  <2>3. ~hasty => OwnInv'
    BY <1>1, <2>1 DEF OwnInv, tabVars, pane
  <2>4. ~hasty /\ ~behind => FreshInv'
    BY <1>1, <2>1 DEF FreshInv, Late, tabVars, pane
  <2>5. QED
    BY <1>1, <2>1, <2>2, <2>3, <2>4
<1>4. ASSUME NEW g \in fills, StoreDetailCache(g) PROVE DocsInv'
  <2>1. g[1] \in Docs /\ g[2] \in Bodies
    BY DEF DocsTypeOK, pane
  <2>2. /\ redis' \in [Docs -> MaybeBody] /\ redis'[g[1]] = {g[2]}
        /\ \A e \in Docs : e # g[1] => redis'[e] = redis[e]
        /\ fills' \subseteq fills
    BY <1>4, <2>1, MaybeBodies DEF StoreDetailCache, DocsTypeOK
  <2>3. behind' \in BOOLEAN /\ (~behind' => ~behind /\ g[2] = stored[g[1]])
    BY <1>4, Zenon DEF StoreDetailCache
  <2>4. DocsTypes'
    BY <1>1, <2>2, <2>3 DEF DocsTypeOK, tabVars, pane
  <2>5. ~hasty => OwnInv'
    BY <1>1, <2>2 DEF OwnInv, tabVars, pane
  <2>6. ~hasty /\ ~behind' => FreshInv'
    BY <1>1, <2>2, <2>3 DEF FreshInv, Late, tabVars, pane
  <2>7. QED
    BY <1>1, <2>4, <2>5, <2>6
<1>5. QED
  BY <1>2, <1>3, <1>4

(* The data of the open document change: unless the pane reads the body of  *)
(* before, what it shows is what the effect sets.                           *)
LEMMA ShowDataStep ==
  ASSUME DocsTypeOK, NEW d \in Docs, NEW data \in MaybeBody, ShowData(d, data)
  PROVE  /\ body' \in Bodies /\ (data # {} => data = {body'})
         /\ data = {} => UNCHANGED body /\ scene' = {}
         /\ contentKind' \in {"markdown", "excalidraw"}
         /\ contentKind' = "markdown" => scene' = {}
         /\ scene' \in MaybeBody /\ drawn' = {} /\ timers' \subseteq Bodies
         /\ hasty' \in BOOLEAN /\ (~hasty' => ~hasty /\ scene' \subseteq {body'})
<1>1. /\ body' \in Bodies /\ (data # {} => data = {body'}) /\ (data = {} => UNCHANGED body)
  BY MaybeBodies DEF ShowData, LoadBody, DocsTypeOK
<1>2. contentKind' \in {"markdown", "excalidraw"} /\ (contentKind' = "markdown" => scene' = {})
  BY DEF ShowData, KindOf, DocsTypeOK
<1>3. (data = {} => scene' = {}) /\ (scene' = {} \/ scene' = {body} \/ scene' = {body'})
  BY DEF ShowData
<1>4. scene' \in MaybeBody
  <2>1. {body} \in MaybeBody /\ {body'} \in MaybeBody /\ {} \in MaybeBody
    BY <1>1, MaybeBodies DEF DocsTypeOK
  <2>2. QED
    BY <1>3, <2>1
<1>5. drawn' = {} /\ timers' \subseteq Bodies
  <2>1. drawn \subseteq Bodies /\ timers \subseteq Bodies
    BY MaybeBodies DEF DocsTypeOK
  <2>2. QED
    BY <2>1 DEF ShowData, PaneGoes
<1>6. hasty' \in BOOLEAN /\ (~hasty' => ~hasty /\ scene' \subseteq {body'})
  <2>1. hasty' = (hasty \/ scene' \notin {{}, {body'}})
    BY DEF ShowData
  <2>2. hasty' \in BOOLEAN /\ (~hasty' => ~hasty /\ scene' \in {{}, {body'}})
    BY <2>1, Zenon
  <2>3. QED
    BY <2>2
<1>7. QED
  BY <1>1, <1>2, <1>3, <1>4, <1>5, <1>6

(* The query of the open document is opened, served, answered or fails.     *)
LEMMA OpenDocStep == ASSUME DocsInv, NEW d \in Docs, OpenDoc(d) PROVE DocsInv'
<1> USE DEF DocsInv, DocsTypes
<1>1. /\ route' = d /\ d # route
      /\ UNCHANGED <<stored, redis, fills, detail, stale, save, edits, behind>>
      /\ detail[d] \in MaybeBody /\ ShowData(d, detail[d])
  BY DEF OpenDoc, DocsTypeOK
<1>2. /\ body' \in Bodies /\ (detail[d] # {} => detail[d] = {body'})
      /\ detail[d] = {} => scene' = {}
      /\ contentKind' \in {"markdown", "excalidraw"} /\ (contentKind' = "markdown" => scene' = {})
      /\ scene' \in MaybeBody /\ drawn' = {} /\ timers' \subseteq Bodies
      /\ hasty' \in BOOLEAN /\ (~hasty' => ~hasty /\ scene' \subseteq {body'})
  BY <1>1, ShowDataStep
<1>3. /\ fetch' \in Fetches /\ fetch'.at # "answered"
      /\ d \in stale => fetch'.at = "asked"
  BY DEF OpenDoc, Observe, Fetches
<1>t. drawn' \in MaybeBody
  BY <1>2, MaybeBodies
<1>4. DocsTypes'
  BY <1>1, <1>2, <1>3, <1>t DEF DocsTypeOK
<1>5. ~hasty' => OwnInv'
  BY <1>1, <1>2, <1>3 DEF OwnInv
<1>6. ~hasty' /\ ~behind => FreshInv'
  BY <1>1, <1>2, <1>3 DEF FreshInv, Late
<1>7. QED
  BY <1>1, <1>4, <1>5, <1>6

\* The server's answer to the editor is the cache's body or the row's.
LEMMA ServeDetailStep == ASSUME DocsInv, ServeDetail PROVE DocsInv'
<1> USE DEF DocsInv, DocsTypes
<1>1. /\ UNCHANGED <<stored, redis, route, body, detail, stale, pane, save, edits, hasty, behind>>
      /\ fetch.at = "asked"
  BY DEF ServeDetail
<1>2. PICK b \in Bodies : /\ b \in redis[route] \/ b = stored[route]
                          /\ fetch' = [at |-> "answered", body |-> b]
                          /\ \/ fills' = fills
                             \/ b = stored[route] /\ fills' = fills \union {<<route, b>>}
  BY GetReply
<1>3. route \in Docs /\ fetch' \in Fetches /\ fetch'.body = b /\ fetch'.at = "answered"
  BY <1>2 DEF Fetches, DocsTypeOK
<1>4. DocsTypes'
  BY <1>1, <1>2, <1>3 DEF DocsTypeOK, pane
<1>5. ~hasty => OwnInv'
  BY <1>1, <1>2, <1>3 DEF OwnInv, pane
<1>6. ~hasty /\ ~behind => FreshInv'
  BY <1>1, <1>2, <1>3 DEF FreshInv, Late
<1>7. QED
  BY <1>1, <1>4, <1>5, <1>6

\* An answer fills the query of the open document, and its editor unless the query had
\* that body.
LEMMA DetailStep ==
  ASSUME DocsInv, DetailAnswer \/ DetailFails \/ \E d \in Docs : BecomeStale(d)
  PROVE  DocsInv'
<1> USE DEF DocsInv, DocsTypes
<1>1. CASE DetailAnswer
  <2>1. /\ fetch.at = "answered" /\ fetch.body \in Bodies /\ route \in Docs
        /\ UNCHANGED <<stored, redis, fills, route, save, edits, behind>>
        /\ stale' = stale \ {route}
    BY <1>1, RequestTypes DEF DetailAnswer, DocsTypeOK
  <2>2. fetch' \in Fetches /\ fetch'.at = "none"
    BY <1>1 DEF DetailAnswer, Fetches
  <2>3. /\ detail' \in [Docs -> MaybeBody] /\ detail'[route] = {fetch.body}
        /\ \A d \in Docs : d # route => detail'[d] = detail[d]
    BY <1>1, <2>1, MaybeBodies DEF DetailAnswer, DocsTypeOK
  <2>4. \/ detail[route] = {fetch.body} /\ UNCHANGED <<body, pane, hasty>>
        \/ /\ body' = fetch.body /\ drawn' = {} /\ scene' \in MaybeBody
           /\ contentKind' \in {"markdown", "excalidraw"} /\ timers' \subseteq Bodies
           /\ contentKind' = "markdown" => scene' = {}
           /\ hasty' \in BOOLEAN /\ (~hasty' => ~hasty /\ scene' \subseteq {body'})
    <3>1. {fetch.body} \in MaybeBody
      BY <2>1, MaybeBodies
    <3>2. CASE detail[route] = {fetch.body}
      BY <1>1, <3>2 DEF DetailAnswer
    <3>3. CASE ShowData(route, {fetch.body})
      BY <2>1, <3>1, <3>3, ShowDataStep
    <3>4. QED
      BY <1>1, <3>2, <3>3 DEF DetailAnswer
  <2>t. /\ body' \in Bodies /\ drawn' \in MaybeBody /\ scene' \in MaybeBody
        /\ drawn' \subseteq scene' /\ timers' \subseteq Bodies /\ hasty' \in BOOLEAN
        /\ contentKind' \in {"markdown", "excalidraw"} /\ (contentKind' = "markdown" => scene' = {})
        /\ ~hasty' => ~hasty
    BY <2>1, <2>4, MaybeBodies DEF DocsTypeOK, pane
  <2>5. DocsTypes'
    BY <2>1, <2>2, <2>3, <2>t DEF DocsTypeOK
  <2>6. ~hasty' => OwnInv'
    <3>1. SUFFICES ASSUME OwnInv, ~hasty' PROVE OwnInv'
      BY <2>t
    <3>2. fetch.body \in Own(route)
      BY <2>1, <3>1 DEF OwnInv
    <3>3. \A d \in Docs : detail'[d] \subseteq Own(d)
      BY <2>3, <3>1, <3>2 DEF OwnInv
    <3>4. save.at # "none" => detail'[save.doc] # {}
      BY <2>3, <3>1, RequestTypes DEF OwnInv
    <3>5. /\ fetch.body \subseteq body' /\ body' \in Own(route)
          /\ \A c \in scene' : body' \subseteq c /\ c \in Own(route)
      BY <2>4, <3>1, <3>2 DEF OwnInv, pane
    <3>6. QED
      BY <2>1, <2>2, <2>3, <3>1, <3>3, <3>4, <3>5 DEF OwnInv
  <2>7. ~hasty' /\ ~behind => FreshInv'
    BY <2>1, <2>2, <2>3, <2>t DEF FreshInv, Late
  <2>8. QED
    BY <2>1, <2>5, <2>6, <2>7
<1>2. CASE DetailFails
  <2>1. /\ UNCHANGED <<stored, redis, fills, route, body, detail, stale, contentKind, drawn, timers,
                       save, edits, hasty>>
        /\ fetch.at # "none"
    BY <1>2 DEF DetailFails
  <2>2. fetch' \in Fetches /\ fetch'.at = "none"
    BY <1>2 DEF DetailFails, Fetches
  <2>3. /\ behind' \in BOOLEAN
        /\ ~behind' => ~behind /\ (detail[route] = {} \/ detail[route] = {stored[route]})
    BY <1>2, Zenon DEF DetailFails
  <2>t. \/ detail[route] # {} /\ scene' = scene
        \/ scene' = scene /\ contentKind = "markdown"
        \/ detail[route] = {} /\ scene' = {body} /\ contentKind = "excalidraw" /\ drawn = {}
    BY <1>2, <2>1 DEF DetailFails, DocsTypeOK
  <2>s. scene' \in MaybeBody /\ drawn \subseteq scene' /\ (contentKind = "markdown" => scene' = {})
    BY <2>t, MaybeBodies DEF DocsTypeOK
  <2>4. DocsTypes'
    BY <2>1, <2>2, <2>3, <2>s DEF DocsTypeOK
  <2>5. ~hasty => OwnInv'
    BY <2>1, <2>2, <2>t DEF OwnInv
  <2>6. ~hasty /\ ~behind' => FreshInv'
    BY <2>1, <2>2, <2>3 DEF FreshInv, Late
  <2>7. QED
    BY <2>1, <2>4, <2>5, <2>6
<1>3. ASSUME NEW d \in Docs, BecomeStale(d) PROVE DocsInv'
  <2>1. /\ detail[d] # {} /\ stale' = stale \union {d}
        /\ UNCHANGED <<stored, redis, fills, route, body, detail, fetch, pane, save, edits,
                       hasty, behind>>
    BY <1>3 DEF BecomeStale
  <2>2. DocsTypes'
    BY <2>1 DEF DocsTypeOK, pane
  <2>3. (~hasty => OwnInv') /\ (~hasty /\ ~behind => FreshInv')
    BY <2>1 DEF OwnInv, FreshInv, Late, pane
  <2>4. QED
    BY <2>1, <2>2, <2>3
<1>4. QED
  BY <1>1, <1>2, <1>3

(* Edits reach the body.                                                    *)
LEMMA TypeStep == ASSUME DocsInv, Type PROVE DocsInv'
<1> USE DEF DocsInv, DocsTypes
<1>1. /\ route \in Docs /\ edits' = edits + 1 /\ edits' \in 1..MaxEdits
      /\ body' = body \union {<<route, edits'>>} /\ scene = {}
      /\ detail[route] = {} => fetch.at = "none"
      /\ UNCHANGED <<stored, redis, fills, route, detail, stale, fetch, pane, save, hasty, behind>>
  BY DocsAssumption DEF Type, isLoading, DocsTypeOK
<1>2. body' \in Bodies /\ (body \in Own(route) => body' \in Own(route))
  BY <1>1, DocsAssumption DEF Bodies, Edits, Own, DocsTypeOK
<1>3. DocsTypes'
  BY <1>1, <1>2 DEF DocsTypeOK, pane
<1>4. ~hasty => OwnInv'
  BY <1>1, <1>2 DEF OwnInv, pane
<1>5. ~hasty /\ ~behind => FreshInv'
  BY <1>1 DEF FreshInv, Late
<1>6. QED
  BY <1>1, <1>3, <1>4, <1>5

\* A stroke is made for the open document, and comes on top of what is on the canvas.
LEMMA DrawStep == ASSUME DocsInv, Draw PROVE DocsInv'
<1> USE DEF DocsInv, DocsTypes
<1>1. /\ route \in Docs /\ scene # {} /\ drawn' = scene'
      /\ UNCHANGED <<stored, redis, fills, route, body, detail, stale, fetch, contentKind, timers,
                     save, hasty, behind>>
  BY DEF Draw, DocsTypeOK
<1>2. /\ The(scene) \in Bodies /\ scene = {The(scene)}
  BY <1>1, MaybeBodies DEF DocsTypeOK
<1>3. PICK c \in Bodies : /\ scene' = {c} /\ The(scene) \subseteq c /\ edits' \in 0..MaxEdits
                          /\ The(scene) \in Own(route) => c \in Own(route)
  <2>1. CASE UNCHANGED <<edits, scene>>
    BY <1>2, <2>1 DEF DocsTypeOK
  <2>2. CASE /\ edits < MaxEdits /\ edits' = edits + 1
             /\ scene' = {The(scene) \union {<<route, edits + 1>>}}
    <3>1. edits' \in 0..MaxEdits /\ edits' \in Nat
      BY <2>2, DocsAssumption DEF DocsTypeOK
    <3>2. {<<route, edits'>>} \in Bodies /\ {<<route, edits'>>} \subseteq {route} \X Nat
      BY <3>1, <1>1 DEF Bodies, Edits
    <3>3. QED
      BY <2>2, <1>2, <3>1, <3>2 DEF Bodies, Own
  <2>3. QED
    BY <2>1, <2>2 DEF Draw
<1>4. scene' \in MaybeBody /\ drawn' \in MaybeBody
  BY <1>1, <1>3, MaybeBodies
<1>5. DocsTypes'
  BY <1>1, <1>3, <1>4 DEF DocsTypeOK
<1>6. ~hasty => OwnInv'
  BY <1>1, <1>2, <1>3 DEF OwnInv
<1>7. ~hasty /\ ~behind => FreshInv'
  BY <1>1 DEF FreshInv, Late
<1>8. QED
  BY <1>1, <1>5, <1>6, <1>7

\* The debounce sets the body to what is on the canvas; a late one is hasty unless the
\* body was that already.
LEMMA TimerStep ==
  ASSUME DocsInv, DebounceTimer \/ \E b \in timers : LateTimer(b)
  PROVE  DocsInv'
<1> USE DEF DocsInv, DocsTypes
<1>1. CASE DebounceTimer
  <2>1. /\ drawn # {} /\ body' = The(drawn) /\ drawn' = {}
        /\ UNCHANGED <<stored, redis, fills, route, detail, stale, fetch, contentKind, scene,
                       timers,
                       save, edits, hasty, behind>>
    BY <1>1 DEF DebounceTimer
  <2>2. body' \in Bodies /\ scene = {body'} /\ drawn' \in MaybeBody
    BY <2>1, MaybeBodies DEF DocsTypeOK
  <2>3. DocsTypes'
    BY <2>1, <2>2 DEF DocsTypeOK
  <2>4. ~hasty => OwnInv'
    BY <2>1, <2>2 DEF OwnInv
  <2>5. ~hasty /\ ~behind => FreshInv'
    BY <2>1 DEF FreshInv, Late
  <2>6. QED
    BY <2>1, <2>3, <2>4, <2>5
<1>2. ASSUME NEW b \in timers, LateTimer(b) PROVE DocsInv'
  <2>1. /\ b \in Bodies /\ body' = b /\ timers' \subseteq timers
        /\ UNCHANGED <<stored, redis, fills, route, detail, stale, fetch, contentKind, scene, drawn,
                       save, edits, behind>>
    BY <1>2 DEF LateTimer, DocsTypeOK
  <2>2. hasty' \in BOOLEAN /\ (~hasty' => ~hasty /\ b = body)
    <3>1. hasty' = (hasty \/ b # body)
      BY <1>2 DEF LateTimer
    <3>2. QED
      BY <3>1, Zenon
  <2>3. DocsTypes'
    BY <2>1, <2>2 DEF DocsTypeOK
  <2>4. ~hasty' => OwnInv'
    BY <2>1, <2>2 DEF OwnInv
  <2>5. ~hasty' /\ ~behind => FreshInv'
    BY <2>1, <2>2 DEF FreshInv, Late
  <2>6. QED
    BY <2>1, <2>2, <2>3, <2>4, <2>5
<1>3. QED
  BY <1>1, <1>2

(* The tab asks for a save: of a body that has what the row has.            *)
LEMMA SaveDocStep == ASSUME DocsInv, SaveDoc PROVE DocsInv'
<1> USE DEF DocsInv, DocsTypes
<1>1. /\ save.at = "none" /\ route \in Docs /\ body \in Bodies
      /\ save' = [at |-> "asked", doc |-> route, body |-> body]
      /\ UNCHANGED <<stored, redis, fills, route, body, detail, stale, fetch, pane, edits, behind>>
  BY DEF SaveDoc, DocsTypeOK
<1>2. /\ hasty' \in BOOLEAN
      /\ ~hasty' => ~hasty /\ detail[route] # {} /\ fetch.at = "none"
  BY Zenon DEF SaveDoc
<1>3. save' \in Saves /\ save'.at = "asked" /\ save'.doc = route /\ save'.body = body
  BY <1>1 DEF Saves
<1>4. DocsTypes'
  BY <1>1, <1>2, <1>3 DEF DocsTypeOK, pane
<1>5. ~hasty' => OwnInv'
  BY <1>1, <1>2, <1>3 DEF OwnInv, pane
<1>6. ~hasty' /\ ~behind => FreshInv'
  <2>1. SUFFICES ASSUME ~hasty', ~behind PROVE FreshInv'
    OBVIOUS
  <2>2. stored[route] \subseteq body
    BY <1>1, <1>2, <2>1 DEF OwnInv, FreshInv, Late
  <2>3. QED
    BY <1>1, <1>2, <1>3, <2>1, <2>2 DEF FreshInv, Late
<1>7. QED
  BY <1>1, <1>4, <1>5, <1>6

(* The save is written and its answer comes.                                *)
LEMMA MoveSave ==
  ASSUME DocsTypeOK, save.at # "none", NEW a \in {"asked", "written", "unchanged", "answered"}
  PROVE  /\ [save EXCEPT !.at = a] \in Saves /\ [save EXCEPT !.at = a].at = a
         /\ [save EXCEPT !.at = a].doc = save.doc /\ [save EXCEPT !.at = a].body = save.body
<1>1. save \in [at : {"asked", "written", "unchanged", "answered"}, doc : Docs, body : Bodies]
  BY DEF DocsTypeOK, Saves, NoSave
<1>2. QED
  BY <1>1 DEF Saves

\* A save writes what the editor sent to the row of its own document.
LEMMA UpdateStep == ASSUME DocsInv, docsUpdate PROVE DocsInv'
<1> USE DEF DocsInv, DocsTypes
<1>1. /\ save.at = "asked" /\ save.doc \in Docs /\ save.body \in Bodies
      /\ stored' = [stored EXCEPT ![save.doc] = save.body]
      /\ UNCHANGED <<redis, fills, route, body, detail, stale, fetch, pane, edits, hasty, behind>>
  BY RequestTypes DEF docsUpdate
<1>2. /\ stored' \in [Docs -> Bodies] /\ stored'[save.doc] = save.body
      /\ \A d \in Docs : d # save.doc => stored'[d] = stored[d]
  BY <1>1 DEF DocsTypeOK, pane
<1>3. /\ save' \in Saves /\ save'.doc = save.doc /\ save'.body = save.body
      /\ \/ save'.at = "unchanged" /\ stored[save.doc] = save.body
         \/ save'.at = "written"
  <2>1. CASE stored[save.doc] = save.body
    BY <2>1, <1>1, MoveSave DEF docsUpdate
  <2>2. CASE stored[save.doc] # save.body
    BY <2>2, <1>1, MoveSave DEF docsUpdate
  <2>3. QED
    BY <2>1, <2>2
<1>4. DocsTypes'
  BY <1>1, <1>2, <1>3 DEF DocsTypeOK, pane
<1>5. ~hasty => OwnInv'
  BY <1>1, <1>2, <1>3 DEF OwnInv, pane
<1>6. ~hasty /\ ~behind => FreshInv'
  <2>1. SUFFICES ASSUME FreshInv PROVE FreshInv'
    OBVIOUS
  <2>2. \A d \in Docs : stored'[d] = stored[d] \/ (d = save'.doc /\ save'.at = "written")
    BY <1>2, <1>3
  <2>3. route \in Docs
    BY DEF DocsTypeOK, pane
  <2>4. QED
    BY <1>1, <1>3, <2>1, <2>2, <2>3 DEF FreshInv, Late
<1>7. QED
  BY <1>1, <1>4, <1>5, <1>6

\* The bump clears what the cache had before the save, unless it fails.
LEMMA BumpStep ==
  ASSUME DocsInv, DocBumped \/ BumpFails
  PROVE  DocsInv'
<1> USE DEF DocsInv, DocsTypes
<1>1. /\ save.at = "written" /\ save.doc \in Docs
      /\ save' = [save EXCEPT !.at = "answered"]
      /\ UNCHANGED <<stored, fills, route, body, detail, stale, fetch, pane, edits, hasty>>
  BY RequestTypes DEF DocBumped, BumpFails
<1>2. /\ save' \in Saves /\ save'.at = "answered"
      /\ save'.doc = save.doc /\ save'.body = save.body
  BY <1>1, MoveSave
<1>3. /\ redis' \in [Docs -> MaybeBody] /\ behind' \in BOOLEAN
      /\ \A d \in Docs : redis'[d] \subseteq redis[d]
      /\ ~behind' => ~behind /\ redis'[save.doc] = {}
  <2>1. CASE DocBumped
    <3>1. redis' = [redis EXCEPT ![save.doc] = {}] /\ UNCHANGED behind
      BY <2>1 DEF DocBumped, docsBumpDocsAPICache
    <3>2. QED
      BY <1>1, <3>1, MaybeBodies DEF DocsTypeOK, pane
  <2>2. CASE BumpFails
    <3>1. behind' = (behind \/ redis[save.doc] # {}) /\ UNCHANGED redis
      BY <2>2, Zenon DEF BumpFails
    <3>2. behind' \in BOOLEAN /\ (~behind' => ~behind /\ redis[save.doc] = {})
      BY <3>1, Zenon
    <3>3. QED
      BY <3>1, <3>2 DEF DocsTypeOK, pane
  <2>3. QED
    BY <2>1, <2>2
<1>4. DocsTypes'
  BY <1>1, <1>2, <1>3 DEF DocsTypeOK, pane
<1>5. ~hasty => OwnInv'
  BY <1>1, <1>2, <1>3 DEF OwnInv, pane
<1>6. ~hasty /\ ~behind' => FreshInv'
  BY <1>1, <1>2, <1>3 DEF FreshInv, Late
<1>7. QED
  BY <1>1, <1>4, <1>5, <1>6

(* The save is over: the document that is open is asked for again.          *)
LEMMA SavedStep == ASSUME DocsInv, docsUpdateFails \/ DocUnchanged \/ DocSaved PROVE DocsInv'
<1> USE DEF DocsInv, DocsTypes
<1>1. NoSave \in Saves /\ NoSave.at = "none"
  BY DEF Saves, NoSave
<1>2. CASE docsUpdateFails
  <2>1. /\ save' = NoSave /\ behind'
        /\ UNCHANGED <<stored, redis, fills, route, body, detail, stale, fetch, pane, edits, hasty>>
    BY <1>2, Zenon DEF docsUpdateFails
  <2>2. behind' \in BOOLEAN
    BY <1>2, Zenon DEF docsUpdateFails
  <2>3. DocsTypes' /\ (~hasty => OwnInv')
    BY <1>1, <2>1, <2>2 DEF DocsTypeOK, OwnInv, pane
  <2>4. QED
    BY <2>1, <2>3
<1>3. CASE DocUnchanged
  <2>1. /\ save.at = "unchanged" /\ save' = NoSave
        /\ UNCHANGED <<stored, redis, fills, route, body, detail, stale, fetch, pane, edits, hasty,
                       behind>>
    BY <1>3 DEF DocUnchanged
  <2>2. DocsTypes' /\ (~hasty => OwnInv') /\ (~hasty /\ ~behind => FreshInv')
    BY <1>1, <2>1 DEF DocsTypeOK, OwnInv, FreshInv, Late, pane
  <2>3. QED
    BY <2>1, <2>2
<1>4. CASE DocSaved
  <2>1. /\ save.at = "answered" /\ save' = NoSave /\ save.doc \in Docs /\ route \in Docs
        /\ stale' = (IF detail[route] = {} THEN stale ELSE stale \union {route})
        /\ fetch' = (IF detail[route] = {} /\ fetch.at # "none" THEN fetch ELSE [at |-> "asked"])
        /\ UNCHANGED <<stored, redis, fills, route, body, detail, contentKind, edits, hasty>>
    BY <1>4, RequestTypes DEF DocSaved, DocsTypeOK
  <2>2. behind' \in BOOLEAN /\ (~behind' => ~behind /\ save.doc = route)
    BY <1>4, Zenon DEF DocSaved
  <2>3. fetch' \in Fetches /\ (fetch'.at = "answered" => fetch' = fetch /\ detail[route] = {})
    BY <2>1 DEF Fetches, DocsTypeOK
  <2>t. \/ detail[route] # {} /\ UNCHANGED <<scene, drawn, timers>>
        \/ detail[route] = {} /\ scene' = {} /\ drawn' = {} /\ timers' = timers \union (drawn \ {body})
    BY <1>4 DEF DocSaved, PaneGoes
  <2>s. /\ scene' \in MaybeBody /\ drawn' \in MaybeBody /\ drawn' \subseteq scene'
        /\ timers' \subseteq Bodies /\ (detail[route] = {} \/ contentKind = "markdown" => scene' = {})
    BY <2>t, MaybeBodies DEF DocsTypeOK
  <2>4. DocsTypes'
    BY <1>1, <2>1, <2>2, <2>3, <2>s DEF DocsTypeOK
  <2>o. ~hasty => OwnInv'
    BY <1>1, <2>1, <2>3, <2>t DEF OwnInv
  <2>5. ~hasty /\ ~behind' => FreshInv'
    <3>1. SUFFICES ASSUME OwnInv, FreshInv, save.doc = route PROVE FreshInv'
      BY <2>2
    <3>2. /\ detail[route] # {} /\ stale' = stale \union {route} /\ fetch' = [at |-> "asked"]
          /\ fetch'.at = "asked"
      BY <2>1, <3>1 DEF OwnInv, pane
    <3>3. QED
      BY <1>1, <2>1, <3>1, <3>2 DEF FreshInv, Late
  <2>6. QED
    BY <2>1, <2>4, <2>o, <2>5
<1>5. QED
  BY <1>2, <1>3, <1>4

\* Every step of the editor, the server and the cache keeps the invariant.
LEMMA DocsNextInv == DocsInv /\ [DocsNext]_docVars => DocsInv'
<1> SUFFICES ASSUME DocsInv, [DocsNext]_docVars PROVE DocsInv'
  OBVIOUS
<1>1. CASE UNCHANGED docVars
  BY <1>1 DEF docVars, pane, DocsInv, DocsTypes, DocsTypeOK, OwnInv, FreshInv, Late
<1>2. QED
  BY <1>1, OpenDocStep, DetailStep, CacheStep, ServeDetailStep, TypeStep, DrawStep, TimerStep,
     SaveDocStep, UpdateStep, BumpStep, SavedStep DEF DocsNext

\* The invariant of the editor holds throughout, for any documents and edits.
THEOREM DocsInvariant == DocsSpec => []DocsInv
  BY DocsInitInv, DocsNextInv, PTL DEF DocsSpec

\* The row of a document holds nothing but edits made for it (docsUpdate and DocEditor's
\* save), unless a save was hasty.
THEOREM BodyIsOwnHolds == DocsSpec => []BodyIsOwn
<1>1. DocsInv => BodyIsOwn
  BY DEF DocsInv, OwnInv, BodyIsOwn, Own
<1>2. QED
  BY <1>1, DocsInvariant, PTL

\* A save never takes back what an earlier one had stored, unless it was hasty or a
\* cache was left behind the row.
THEOREM SavesAddUpHolds == DocsSpec => SavesAddUp
<1>1. DocsInv /\ [DocsNext]_docVars
        => [hasty' \/ behind' \/ \A d \in Docs : stored[d] \subseteq stored'[d]]_docVars
  <2> SUFFICES ASSUME DocsInv, DocsNext
               PROVE  hasty' \/ behind' \/ \A d \in Docs : stored[d] \subseteq stored'[d]
    OBVIOUS
  <2>1. CASE docsUpdate
    <3>1. /\ UNCHANGED <<hasty, behind>> /\ save.at = "asked"
          /\ stored' = [stored EXCEPT ![save.doc] = save.body]
      BY <2>1 DEF docsUpdate
    <3>2. ~hasty /\ ~behind => stored[save.doc] \subseteq save.body
      BY <3>1 DEF DocsInv, FreshInv
    <3>3. QED
      BY <3>1, <3>2 DEF DocsInv, DocsTypes, DocsTypeOK
  <2>2. CASE ~docsUpdate
    <3>1. UNCHANGED stored
      BY <2>2 DEF DocsNext, OpenDoc, BecomeStale, ExpireDetailCache, VisitorGet, StoreDetailCache,
                  ServeDetail, DetailAnswer, DetailFails, Type, Draw, DebounceTimer, LateTimer,
                  SaveDoc, DocBumped, BumpFails, docsUpdateFails, DocUnchanged, DocSaved
    <3>2. QED
      BY <3>1
  <2>3. QED
    BY <2>1, <2>2
<1>2. QED
  BY <1>1, DocsInvariant, PTL DEF DocsSpec, SavesAddUp

-----------------------------------------------------------------------------
(* The parts together: a step of one of them leaves the others as they are. *)

\* A step of the browser is a step of each part, or leaves that part as it is.
LEMMA BrowserStep ==
  [BrowserNext]_browserVars =>
    /\ [GateNext]_gateVars /\ [SignInNext]_signInVars /\ [ViewNext]_viewVars
    /\ [SheetNext]_sheetVars /\ [PanelNext]_panelVars /\ [DocsNext]_docVars /\ [PageNext]_pageVars
  BY DEF BrowserNext, browserVars

\* So a behaviour of the browser is one of each part.
LEMMA BrowserParts ==
  BrowserSpec =>
    /\ GateSpec /\ (SignInInit /\ [][SignInNext]_signInVars) /\ ViewSpec /\ SheetSpec
    /\ PanelSpec /\ DocsSpec /\ PageSpec
<1>1. BrowserInit =>
        /\ GateInit /\ SignInInit /\ ViewInit /\ SheetInit /\ PanelInit /\ DocsInit /\ PageInit
  BY DEF BrowserInit
<1>2. QED
  BY <1>1, BrowserStep, PTL
     DEF BrowserSpec, GateSpec, ViewSpec, SheetSpec, PanelSpec, DocsSpec, PageSpec

\* Every part of the browser keeps its variables within their types.
THEOREM BrowserTypeCorrect == BrowserSpec => []BrowserTypeOK
<1>1. /\ GateInv => GateTypeOK
      /\ SignInv => SignInTypeOK
      /\ ViewInv => ViewTypeOK
      /\ SheetInv => SheetTypeOK
      /\ PanelInv => PanelTypeOK
      /\ DocsInv => DocsTypeOK
      /\ PageInv => PageTypeOK
  BY DEF GateInv, SignInv, ViewInv, SheetInv, PanelInv, PanelTypes, DocsInv, DocsTypes, PageInv
<1>2. QED
  BY <1>1, BrowserParts, GateInvariant, SignInSafe, ViewInvariant, SheetInvariant, PanelInvariant,
     DocsInvariant, PageInvariant, PTL DEF BrowserTypeOK

\* And what each of them promises holds in every behaviour of the browser.
THEOREM BrowserSafe ==
  BrowserSpec =>
    /\ [](CountsHolders /\ NoWaiterStranded /\ LimitKept)
    /\ []CacheIsOwn
    /\ [](ViewIsCurrent /\ ShellIsHeld)
    /\ [](PreviewWhole /\ SaidAsEnded)
    /\ []BodyIsOwn /\ SavesAddUp
    /\ []PageIsCurrent
<1>1. SignInv => CacheIsOwn
  BY CacheOwned
<1>2. QED
  BY <1>1, BrowserParts, CountsHoldersHolds, NoWaiterStrandedHolds, LimitKeptHolds, SignInSafe,
     ViewIsCurrentHolds, ShellIsHeldHolds, PreviewWholeHolds, SaidAsEndedHolds, BodyIsOwnHolds,
     SavesAddUpHolds, PageIsCurrentHolds, PTL
=============================================================================
